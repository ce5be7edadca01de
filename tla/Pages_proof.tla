---------------------------- MODULE Pages_proof -----------------------------
(***************************************************************************)
(* Proofs about what the pages show.  Offers: for any capacity, starts,    *)
(* length and lead time, the phase a page shows is the server's, and what  *)
(* it offers is accepted.  ContestPage: a page that watches shows the      *)
(* counts as they are.  QuestionForm: whatever is done to a card of the    *)
(* editor, it is a question as the server sees it.  Paging: a list that    *)
(* changes while it is read shows once, and in order, all that stayed.     *)
(* Scoring and Results: every entry of any list gets its place, its share  *)
(* and the points of its right answers; the board shows it once, and the   *)
(* review adds up.                                                         *)
(***************************************************************************)
EXTENDS MCPages, FiniteSetTheorems, SequenceTheorems, WellFoundedInduction,
        TLAPS

Contests == [status : {"draft", "published", "cancelled", "deleted"},
             startAt : Starts \cup {Unset}, sound : BOOLEAN, finalized : BOOLEAN,
             entrants : Int]
Users == [role : {"candidate", "interviewer", "admin"}, hosting : BOOLEAN, free : Nat]

Typed ==
    /\ time \in Nat /\ held \in Contests
    /\ mine \in {"none", "joined", "started", "submitted"}
    /\ user \in Users
    /\ read = Unset \/ read \in 0 .. time

\* What is published was checked; what is finalized was over, also when the pages
\* were read; and nobody enters a draft.
Sane ==
    /\ held.status = "published" => held.sound /\ held.startAt # Unset
    /\ held.finalized => held.status = "published" /\ time >= EndOf(held)
    /\ held.finalized /\ read # Unset => read >= EndOf(held)
    /\ mine # "none" => held.status \in {"published", "cancelled"}

IInv == Typed /\ Sane

-----------------------------------------------------------------------------

LEMMA StartNat ==
  ASSUME Typed, held.startAt # Unset
  PROVE  held.startAt \in Nat /\ EndOf(held) \in Nat /\ EndOf(held) > held.startAt
<1>1. held.startAt \in Starts
  BY DEF Typed, Contests
<1>2. held.startAt \in Nat /\ Length \in Nat \ {0}
  BY <1>1, OffersAssumption
<1>3. QED BY <1>2 DEF EndOf

\* EndOf is a number when there is a start.
LEMMA EndKept ==
  ASSUME UNCHANGED held
  PROVE  EndOf(held)' = EndOf(held)
  BY DEF EndOf

LEMMA Lookable == ASSUME IInv, Look PROVE IInv'
<1>1. EndOf(held)' = EndOf(held) /\ UNCHANGED <<time, held, mine, user>> /\ read' = time
  BY EndKept DEF Look
<1>2. QED BY <1>1 DEF IInv, Typed, Sane

LEMMA Ticking == ASSUME IInv, Ticks PROVE IInv'
<1>1. EndOf(held)' = EndOf(held) /\ UNCHANGED <<held, mine, user, read>> /\ time' = time + 1
  BY EndKept DEF Ticks
<1>2. held.finalized => EndOf(held) \in Nat
  BY StartNat DEF IInv, Sane
<1>3. Sane'
  BY <1>1, <1>2 DEF IInv, Typed, Sane
<1>4. Typed'
  BY <1>1 DEF IInv, Typed
<1>5. QED BY <1>3, <1>4 DEF IInv

\* A change makes the pages out of date; it has to keep the contest sane.
LEMMA ChangeOK ==
  ASSUME IInv, NEW c \in Contests, NEW e \in {"none", "joined", "started", "submitted"},
         Changed(c, e), time' = time, user' \in Users,
         c.status = "published" => c.sound /\ c.startAt # Unset,
         c.finalized => c.status = "published" /\ time >= EndOf(c),
         e # "none" => c.status \in {"published", "cancelled"}
  PROVE  IInv'
  BY DEF IInv, Typed, Sane, Changed, EndOf

LEMMA InitOK == OffersInit => IInv
  BY OffersAssumption DEF OffersInit, IInv, Typed, Sane, Contests, Users, EndOf

-----------------------------------------------------------------------------
(* Steps *)

LEMMA HostSavesStep ==
  ASSUME IInv, NEW startAt \in Starts \cup {Unset}, NEW sound \in BOOLEAN, HostSaves(startAt, sound)
  PROVE  IInv'
<1> DEFINE c == [held EXCEPT !.startAt = startAt, !.sound = sound]
<1>1. /\ c \in Contests /\ c.status = held.status /\ c.startAt = startAt /\ c.sound = sound
      /\ c.finalized = held.finalized
  BY DEF IInv, Typed, Contests
<1>2. Changed(c, mine) /\ time' = time /\ user' = user
  BY DEF HostSaves
<1>3. held.status = "published" => sound /\ startAt # Unset
  BY DEF HostSaves
<1>4. ~held.finalized
  <2>1. CASE held.status = "draft"
    BY <2>1 DEF IInv, Sane
  <2>2. CASE held.status = "published" /\ time < held.startAt
    BY <2>2, StartNat DEF IInv, Sane, Typed
  <2>3. QED BY <2>1, <2>2 DEF HostSaves
<1> HIDE DEF c
<1>5. QED BY <1>1, <1>2, <1>3, <1>4, ChangeOK DEF IInv, Typed, Sane

LEMMA HostPublishesStep == ASSUME IInv, HostPublishes PROVE IInv'
<1> DEFINE c == [held EXCEPT !.status = "published"]
<1>1. /\ c \in Contests /\ c.status = "published" /\ c.startAt = held.startAt
      /\ c.sound = held.sound /\ c.finalized = held.finalized
  BY DEF IInv, Typed, Contests
<1>2. Changed(c, mine) /\ time' = time
  BY DEF HostPublishes
<1>3. user' \in Users
  BY DEF HostPublishes, Publishes, IInv, Typed, Users
<1>4. held.sound /\ held.startAt # Unset /\ ~held.finalized
  BY DEF HostPublishes, PassesChecks, IInv, Sane
<1> HIDE DEF c
<1>5. QED BY <1>1, <1>2, <1>3, <1>4, ChangeOK DEF IInv, Typed

LEMMA CancelledStep == ASSUME IInv, Cancelled PROVE IInv'
<1> DEFINE c == [held EXCEPT !.status = "cancelled"]
<1>1. c \in Contests /\ c.status = "cancelled" /\ c.finalized = held.finalized
  BY DEF IInv, Typed, Contests
<1>2. Changed(c, mine) /\ time' = time /\ ~held.finalized
  BY DEF Cancelled
<1>3. user' \in Users
  BY DEF Cancelled, IInv, Typed, Users
<1> HIDE DEF c
<1>4. QED BY <1>1, <1>2, <1>3, ChangeOK DEF IInv, Typed

LEMMA DeletedStep == ASSUME IInv, Deleted PROVE IInv'
<1> DEFINE c == [held EXCEPT !.status = "deleted"]
<1>1. c \in Contests /\ c.status = "deleted" /\ c.finalized = held.finalized
  BY DEF IInv, Typed, Contests
<1>2. Changed(c, mine) /\ time' = time /\ user' = user /\ ~held.finalized /\ mine = "none"
  BY DEF Deleted, IInv, Sane
<1> HIDE DEF c
<1>3. QED BY <1>1, <1>2, ChangeOK DEF IInv, Typed

LEMMA FinalizedStep == ASSUME IInv, Finalized PROVE IInv'
<1> DEFINE c == [held EXCEPT !.finalized = TRUE]
<1>1. /\ c \in Contests /\ c.status = held.status /\ c.startAt = held.startAt
      /\ c.sound = held.sound
  BY DEF IInv, Typed, Contests
<1>2. Changed(c, mine) /\ time' = time /\ user' = user
  BY DEF Finalized
<1>3. held.status = "published"
  BY DEF Finalized, Phase, PhaseOf, IInv, Typed, Contests
<1>4. ~(time < EndOf(held)) /\ held.startAt # Unset
  BY <1>3 DEF Finalized, Phase, PhaseOf
<1>5. time >= EndOf(held) /\ EndOf(held) = EndOf(c)
  BY <1>1, <1>4, StartNat DEF IInv, Typed, EndOf
<1> HIDE DEF c
<1>6. QED BY <1>1, <1>2, <1>3, <1>5, ChangeOK DEF IInv, Typed, Sane

\* The contest stays as it is, and so does who may have entered it.
LEMMA MineStep ==
  ASSUME IInv, NEW e \in {"none", "joined", "started", "submitted"},
         Changed(held, e), UNCHANGED <<time, user>>,
         e # "none" => held.status \in {"published", "cancelled"}
  PROVE  IInv'
<1>1. held \in Contests /\ user' \in Users
  BY DEF IInv, Typed
<1>2. held.status = "published" => held.sound /\ held.startAt # Unset
  BY DEF IInv, Sane
<1>3. held.finalized => held.status = "published" /\ time >= EndOf(held)
  BY DEF IInv, Sane
<1>4. QED BY <1>1, <1>2, <1>3, ChangeOK

\* Of the contest only the number of entrants changes.
LEMMA EntryStep ==
  ASSUME IInv, NEW n \in Int, NEW e \in {"none", "joined", "started", "submitted"},
         Changed([held EXCEPT !.entrants = n], e), UNCHANGED <<time, user>>,
         e # "none" => held.status \in {"published", "cancelled"}
  PROVE  IInv'
<1> DEFINE c == [held EXCEPT !.entrants = n]
<1>1. /\ c \in Contests /\ c.status = held.status /\ c.startAt = held.startAt
      /\ c.sound = held.sound /\ c.finalized = held.finalized
  BY DEF IInv, Typed, Contests
<1>2. EndOf(c) = EndOf(held)
  BY <1>1 DEF EndOf
<1>3. Changed(c, e)
  OBVIOUS
<1> HIDE DEF c
<1>4. QED BY <1>1, <1>2, <1>3, ChangeOK DEF IInv, Typed, Sane

LEMMA EntriesStep ==
  ASSUME IInv, IJoin \/ ILeave \/ IPlay \/ ISubmit \/ OthersJoin \/ OthersLeave
  PROVE  IInv'
<1>1. held.entrants \in Int /\ held \in Contests
  BY DEF IInv, Typed, Contests
<1>2. Phase = "live" => held.status = "published"
  <2>1. held.status \in {"draft", "published", "cancelled", "deleted"}
    BY DEF IInv, Typed, Contests
  <2>2. QED BY <2>1 DEF Phase, PhaseOf
<1>3. CASE IJoin
  BY <1>1, <1>3, EntryStep DEF IJoin, Joins
<1>4. CASE ILeave
  <2>1. /\ Changed([held EXCEPT !.entrants = held.entrants - 1], "none")
        /\ UNCHANGED <<time, user>>
    BY <1>4 DEF ILeave
  <2>2. held.entrants - 1 \in Int
    BY <1>1
  <2> DEFINE n == held.entrants - 1
  <2>3. n \in Int /\ Changed([held EXCEPT !.entrants = n], "none")
    BY <2>1, <2>2
  <2> HIDE DEF n
  <2>4. QED BY <2>1, <2>3, EntryStep
<1>5. CASE IPlay
  BY <1>2, <1>5, MineStep DEF IPlay, Plays
<1>6. CASE ISubmit
  BY <1>2, <1>6, MineStep DEF ISubmit, Answers, Plays
<1>7. mine \in {"none", "joined", "started", "submitted"}
      /\ (mine # "none" => held.status \in {"published", "cancelled"})
  BY DEF IInv, Typed, Sane
<1>8. CASE OthersJoin
  BY <1>1, <1>7, <1>8, EntryStep DEF OthersJoin
<1>9. CASE OthersLeave
  BY <1>1, <1>7, <1>9, EntryStep DEF OthersLeave
<1>10. QED BY <1>3, <1>4, <1>5, <1>6, <1>8, <1>9

LEMMA StepOK == IInv /\ [OffersNext]_offersVars => IInv'
<1> SUFFICES ASSUME IInv, [OffersNext]_offersVars PROVE IInv'
  OBVIOUS
<1>1. CASE UNCHANGED offersVars
  BY <1>1, EndKept DEF offersVars, IInv, Typed, Sane
<1>2. CASE OffersNext
  BY <1>2, Lookable, Ticking, HostSavesStep, HostPublishesStep, CancelledStep, DeletedStep,
     FinalizedStep, EntriesStep DEF OffersNext
<1>3. QED BY <1>1, <1>2

THEOREM OffersInvariance == OffersSpec => []IInv
<1>1. QED BY InitOK, StepOK, PTL DEF OffersSpec

-----------------------------------------------------------------------------
(* Phases *)

LEMMA PhaseCases ==
  ASSUME IInv
  PROVE  /\ held.status \in {"draft", "published", "cancelled", "deleted"}
         /\ held.status # "published" => \A now : PhaseOf(held, now) = held.status
         /\ held.status = "published" =>
               /\ held.startAt \in Nat /\ EndOf(held) \in Nat /\ held.startAt # Unset
               /\ EndOf(held) > held.startAt
         /\ time \in Nat /\ (read # Unset => read \in 0 .. time)
         /\ held.finalized => held.status = "published" /\ time >= EndOf(held)
         /\ held.finalized /\ read # Unset => read >= EndOf(held)
<1>1. held.status = "published" => held.startAt # Unset
  BY DEF IInv, Sane
<1>2. QED BY <1>1, StartNat DEF IInv, Typed, Sane, Contests, PhaseOf

LEMMA PhasesAgree == IInv => PagePhasesAgree
<1> SUFFICES ASSUME IInv, read # Unset, held.status # "deleted"
             PROVE  /\ PagePhase = Phase
                    /\ PhaseOfContest(held, time) = Phase
                    /\ EditorPhase(held, time) = (IF Phase = "pending" THEN "ended" ELSE Phase)
  BY DEF PagePhasesAgree
<1>1. CASE held.status # "published"
  BY <1>1, PhaseCases DEF PagePhase, Phase, SentPhase, PhaseOfContest, EditorPhase, LivePhase
<1>2. CASE held.status = "published"
  <2>1. CASE held.finalized
    <3>1. SentPhase = "ended" /\ Phase = "ended" /\ ~(time < held.startAt) /\ ~(time < EndOf(held))
      BY <1>2, <2>1, PhaseCases DEF SentPhase, Phase, PhaseOf
    <3>2. QED BY <1>2, <2>1, <3>1, PhaseCases
              DEF PagePhase, PhaseOfContest, EditorPhase, PageEditableAt, LivePhase
  <2>2. CASE ~held.finalized
    <3>1. SentPhase \in {"upcoming", "live", "pending"}
      BY <1>2, <2>2 DEF SentPhase, PhaseOf
    <3>2. Phase = IF time < held.startAt THEN "upcoming"
                  ELSE IF time < EndOf(held) THEN "live" ELSE "pending"
      BY <1>2, <2>2, PhaseCases DEF Phase, PhaseOf
    <3>3. QED BY <1>2, <2>2, <3>1, <3>2, PhaseCases
              DEF PagePhase, PhaseOfContest, EditorPhase, PageEditableAt, LivePhase
  <2>3. QED BY <2>1, <2>2
<1>3. QED BY <1>1, <1>2

\* The phase a page shows is the one the server would send, however long it was open.
THEOREM PhasesHold == OffersSpec => []PagePhasesAgree
<1>1. QED BY PhasesAgree, OffersInvariance, PTL

-----------------------------------------------------------------------------
(* Offers, page by page *)

Fine(page, ask) == Accepts(ask) \/ KnownRefusal(page, ask)

\* What a phase says of the document.
LEMMA PhaseGives ==
  ASSUME IInv
  PROVE  /\ Phase \in {"draft", "cancelled", "deleted", "upcoming", "live", "pending", "ended"}
         /\ Phase = "draft" <=> held.status = "draft"
         /\ Phase \in {"upcoming", "live", "pending", "ended"} <=> held.status = "published"
         /\ Phase = "upcoming" => time < held.startAt /\ time < EndOf(held) /\ ~held.finalized
         /\ Phase = "live" => time >= held.startAt /\ time < EndOf(held) /\ ~held.finalized
         /\ Phase = "ended" => held.finalized
<1>1. CASE held.status # "published"
  BY <1>1, PhaseCases DEF Phase
<1>2. CASE held.status = "published"
  BY <1>2, PhaseCases DEF Phase, PhaseOf
<1>3. QED BY <1>1, <1>2

LEMMA BrowseFine ==
  ASSUME IInv, read # Unset, NEW ask \in BrowseOffers
  PROVE  Fine("browse", ask)
<1>1. SUFFICES ASSUME Phase = SentPhase, ask = "join" => ~Full PROVE Accepts(ask)
  BY DEF Fine, KnownRefusal
<1>2. held.status = "published" /\ Visible
  BY DEF BrowseOffers, Visible
<1>3. CASE SentPhase = "live"
  <2>1. ask = "details" \/ (ask = "workspace" /\ Joined) \/ (ask = "join" /\ ~user.hosting /\ ~Joined)
    BY <1>2, <1>3 DEF BrowseOffers, LiveCard, LiveAction
  <2>2. ask = "join" => Joins
    BY <1>1, <1>2, <1>3, <2>1, PhaseGives DEF Joins, Joined
  <2>3. ask = "workspace" => Plays
    BY <1>1, <1>2, <1>3, <2>1 DEF Plays, Joined
  <2>4. QED BY <1>2, <2>1, <2>2, <2>3 DEF Accepts
<1>4. CASE SentPhase = "upcoming"
  BY <1>2, <1>4 DEF BrowseOffers, UpcomingRow, Accepts
<1>5. CASE SentPhase \notin {"live", "upcoming"}
  <2>1. ask = "details" \/ (ask = "results" /\ SentPhase = "ended")
    BY <1>2, <1>5 DEF BrowseOffers, PastTable
  <2>2. ask = "results" => SeesResults
    BY <1>1, <1>2, <2>1, PhaseGives DEF SeesResults
  <2>3. QED BY <1>2, <2>1, <2>2 DEF Accepts
<1>6. QED BY <1>3, <1>4, <1>5

LEMMA DashboardFine ==
  ASSUME IInv, read # Unset, NEW ask \in DashboardOffers
  PROVE  Fine("dashboard", ask)
<1>1. SUFFICES ASSUME Phase = SentPhase PROVE Accepts(ask)
  BY DEF Fine, KnownRefusal
<1>2. held.status # "deleted" /\ (user.hosting \/ Joined)
  BY DEF DashboardOffers
<1>3. held.status = "draft" => user.hosting
  BY <1>2 DEF Joined, IInv, Sane
<1>4. Visible
  BY <1>2, <1>3 DEF Visible, Manages
<1>5. PhaseOfContest(held, read) = SentPhase
  <2>1. CASE held.status # "published"
    BY <2>1, PhaseCases DEF PhaseOfContest, SentPhase
  <2>2. CASE held.status = "published"
    <3>1. read \in Nat /\ held.startAt # Unset
      BY <2>2, PhaseCases
    <3>2. CASE held.finalized
      BY <2>2, <3>1, <3>2, PhaseCases DEF PhaseOfContest, SentPhase, LivePhase, PhaseOf
    <3>3. CASE ~held.finalized
      BY <2>2, <3>1, <3>3 DEF PhaseOfContest, SentPhase, LivePhase, PhaseOf
    <3>4. QED BY <3>2, <3>3
  <2>3. QED BY <2>1, <2>2
<1>6. \/ ask = "editor" /\ SentPhase = "draft"
      \/ ask = "results" /\ SentPhase = "ended"
      \/ ask = "details"
      \/ ask = "workspace" /\ SentPhase = "live" /\ ~user.hosting
  BY <1>2, <1>5 DEF DashboardOffers, ContestHref, LiveContestCard, SidebarLive, CommandMenuLive
<1>7. ask = "editor" => OpensEditor
  BY <1>1, <1>2, <1>3, <1>6, PhaseGives DEF OpensEditor, Manages
<1>8. ask = "results" => SeesResults
  BY <1>1, <1>4, <1>6, PhaseGives DEF SeesResults
<1>9. ask = "workspace" => Plays
  BY <1>1, <1>2, <1>4, <1>6 DEF Plays, Joined
<1>10. QED BY <1>4, <1>6, <1>7, <1>8, <1>9 DEF Accepts

LEMMA DetailsFine ==
  ASSUME IInv, read # Unset, Loaded("details"), NEW ask \in DetailsOffers
  PROVE  Fine("details", ask)
<1>1. Visible /\ held.status # "deleted"
  BY DEF Loaded, Visible
<1>2. PagePhase = Phase
  BY <1>1, PhasesAgree DEF PagePhasesAgree
<1>3. Phase \in {"draft", "upcoming", "live", "pending", "ended"}
  BY <1>1, <1>2, PhaseGives, PhaseCases DEF DetailsOffers, Phase
<1>4. Phase = "ended" => SeesResults
  BY <1>1, PhaseGives DEF SeesResults
<1>5. CASE Manages
  <2>1. \/ ask = "editor"
        \/ ask = "cancel" /\ (Phase = "upcoming" \/ (Phase = "live" /\ ~user.hosting))
        \/ ask = "results" /\ Phase = "ended"
    BY <1>2, <1>3, <1>5 DEF DetailsOffers, HostCard, EditLink, ResultsTeaser
  <2>2. OpensEditor
    BY <1>1, <1>5 DEF OpensEditor
  <2>3. ask = "cancel" => Cancels
    BY <1>5, <2>1, PhaseGives DEF Cancels, Manages
  <2>4. QED BY <1>4, <2>1, <2>2, <2>3 DEF Fine, Accepts
<1>6. CASE ~Manages
  <2>1. \/ ask = "leave" /\ Phase = "upcoming" /\ Joined
        \/ ask = "join" /\ Phase \in {"upcoming", "live"} /\ ~Joined /\ ~Full
        \/ ask = "workspace" /\ Phase = "live" /\ Joined
        \/ ask = "results" /\ Phase = "ended"
    BY <1>2, <1>3, <1>6 DEF DetailsOffers, EntrantCard, IfRoom, EditLink, ResultsTeaser
  <2>2. ask = "leave" => Leaves
    BY <1>1, <2>1 DEF Leaves, Joined
  <2>3. ask = "join" => Joins
    BY <1>1, <1>6, <2>1, PhaseGives DEF Joins, Manages
  <2>4. ask = "workspace" => Plays
    BY <1>1, <2>1 DEF Plays, Joined
  <2>5. QED BY <1>4, <2>1, <2>2, <2>3, <2>4 DEF Fine, Accepts
<1>7. QED BY <1>5, <1>6

LEMMA EditorFine ==
  ASSUME IInv, read # Unset, Loaded("editor"), NEW ask \in EditorOffers
  PROVE  Fine("editor", ask)
<1>1. OpensEditor /\ Manages /\ Visible
  BY DEF Loaded, OpensEditor, Visible
<1>2. \/ ask = "details"
      \/ ask = "save" /\ PageEditableAt(held, time)
      \/ ask = "delete" /\ held.status = "draft"
      \/ ask = "publish" /\ held.status = "draft" /\ held.sound /\ held.startAt # Unset
  BY DEF EditorOffers
<1>3. CASE ask = "details"
  BY <1>1, <1>3 DEF Fine, Accepts
<1>4. CASE ask = "delete"
  BY <1>1, <1>2, <1>4 DEF Fine, Accepts, Deletes
<1>5. CASE ask = "save"
  <2>1. CASE held.status = "draft"
    <3>1. Saves(held.startAt)
      BY <1>1, <2>1 DEF Saves
    <3>2. QED BY <1>5, <3>1 DEF Fine, Accepts
  <2>2. CASE held.status = "published" /\ held.startAt < time + LeadTime
    BY <1>5, <2>2 DEF Fine, KnownRefusal
  <2>3. CASE held.status = "published" /\ ~(held.startAt < time + LeadTime)
    <3>1. Phase = "upcoming"
      BY <1>2, <1>5, <2>3 DEF PageEditableAt, Phase, PhaseOf
    <3>2. held.startAt >= time + LeadTime
      BY <2>3, PhaseCases, OffersAssumption
    <3>3. PassesChecks(held.startAt)
      BY <2>3, <3>2 DEF PassesChecks, IInv, Sane
    <3>4. Saves(held.startAt)
      BY <1>1, <3>1, <3>3 DEF Saves
    <3>5. QED BY <1>5, <3>4 DEF Fine, Accepts
  <2>4. QED BY <1>2, <1>5, <2>1, <2>2, <2>3 DEF PageEditableAt
<1>6. CASE ask = "publish"
  <2>1. SUFFICES ASSUME user.hosting, user.free # 0, ~(held.startAt < time + LeadTime)
                 PROVE  Publishes
    BY <1>6 DEF Fine, KnownRefusal, Accepts
  <2>2. held.startAt \in Nat /\ user.free > 0
    BY <1>2, <1>6, <2>1, StartNat DEF IInv, Typed, Users
  <2>3. held.startAt >= time + LeadTime
    BY <2>1, <2>2, PhaseCases, OffersAssumption
  <2>4. QED BY <1>2, <1>6, <2>1, <2>2, <2>3 DEF Publishes, PassesChecks
<1>7. QED BY <1>2, <1>3, <1>4, <1>5, <1>6

LEMMA WorkspaceFine ==
  ASSUME IInv, read # Unset, Loaded("workspace"), NEW ask \in WorkspaceOffers
  PROVE  Fine("workspace", ask)
<1>1. mine \in {"started", "submitted"} /\ SentPhase = "live"
  BY DEF Loaded
<1>2. held.status = "published" /\ read >= held.startAt /\ ~held.finalized
  <2>1. held.status = "published"
    BY <1>1, PhaseCases DEF SentPhase
  <2>2. ~(read < held.startAt) /\ read < EndOf(held)
    BY <1>1, <2>1 DEF SentPhase, PhaseOf
  <2>3. QED BY <2>1, <2>2, PhaseCases
<1>3. Visible
  BY <1>2 DEF Visible
<1>4. CASE ask = "details"
  BY <1>3, <1>4 DEF Fine, Accepts
<1>5. CASE ask # "details"
  <2>1. ask \in {"answer", "submit"} /\ mine = "started" /\ ~(time >= EndOf(held))
    BY <1>1, <1>5 DEF WorkspaceOffers
  <2>2. ~(time < held.startAt) /\ time < EndOf(held)
    BY <1>2, <2>1, PhaseCases
  <2>3. Phase = "live"
    BY <1>2, <2>2, PhaseCases DEF Phase, PhaseOf
  <2>4. Answers
    BY <1>3, <2>1, <2>3 DEF Answers, Plays
  <2>5. QED BY <2>1, <2>4 DEF Fine, Accepts
<1>6. QED BY <1>4, <1>5

\* What the pages offer is accepted, but for the refusals the model names.
THEOREM OffersHold == OffersSpec => []OffersAccepted
<1>1. IInv => OffersAccepted
  <2>1. SUFFICES ASSUME IInv, read # Unset, NEW page \in Pages, Loaded(page),
                        NEW ask \in OffersOn(page)
                 PROVE  Fine(page, ask)
    BY DEF OffersAccepted, Fine
  <2>2. CASE page = "browse"
    BY <2>1, <2>2, BrowseFine DEF OffersOn
  <2>3. CASE page = "dashboard"
    BY <2>1, <2>3, DashboardFine DEF OffersOn
  <2>4. CASE page = "details"
    BY <2>1, <2>4, DetailsFine DEF OffersOn
  <2>5. CASE page = "editor"
    BY <2>1, <2>5, EditorFine DEF OffersOn
  <2>6. CASE page = "workspace"
    BY <2>1, <2>6, WorkspaceFine DEF OffersOn
  <2>7. CASE page = "results"
    BY <2>1, <2>7 DEF OffersOn, Loaded, SeesResults, Fine, Accepts
  <2>8. QED BY <2>2, <2>3, <2>4, <2>5, <2>6, <2>7 DEF Pages
<1>2. QED BY <1>1, OffersInvariance, PTL

-----------------------------------------------------------------------------
(* What is accepted is offered *)

Hosts == user.hosting => mine = "none" /\ user.role # "candidate"

LEMMA HostsHold == OffersSpec => []Hosts
<1>1. OffersInit => Hosts
  BY DEF OffersInit, Hosts
<1>2. IInv /\ Hosts /\ [OffersNext]_offersVars => Hosts'
  <2> SUFFICES ASSUME IInv, Hosts, [OffersNext]_offersVars PROVE Hosts'
    OBVIOUS
  <2>1. user' = user \/ user' = [user EXCEPT !.free = @ - 1] \/ user' = [user EXCEPT !.free = @ + 1]
    BY DEF OffersNext, Look, Ticks, HostSaves, HostPublishes, Cancelled, Deleted, Finalized,
           IJoin, ILeave, IPlay, ISubmit, OthersJoin, OthersLeave, offersVars
  <2>2. user'.hosting = user.hosting /\ user'.role = user.role
    BY <2>1 DEF IInv, Typed, Users
  <2>3. mine' = mine \/ mine' = "none" \/ mine # "none" \/ ~user.hosting
    BY DEF OffersNext, Look, Ticks, HostSaves, HostPublishes, Cancelled, Deleted, Finalized,
           IJoin, ILeave, IPlay, ISubmit, OthersJoin, OthersLeave, offersVars, Changed,
           Joins, Answers, Plays
  <2>4. mine # "none" => ~user.hosting
    BY DEF Hosts
  <2>5. QED BY <2>2, <2>3, <2>4 DEF Hosts
<1>3. QED BY <1>1, <1>2, OffersInvariance, PTL DEF OffersSpec

Lists == {"browse", "dashboard"}
Inner == Pages \ Lists
Reached(p) == Loaded(p) \/ (p = "workspace" /\ Plays)

LEMMA Linking ==
  /\ Lists \subseteq Linked
  /\ \A p \in Inner, list \in Lists : Reached(p) /\ p \in OffersOn(list) => p \in Linked
  /\ \A p, q \in Inner, list \in Lists :
        Reached(p) /\ p \in OffersOn(list) /\ Reached(q) /\ q \in OffersOn(p) => q \in Linked
<1> DEFINE one == LinkedFrom(Lists)
           two == LinkedFrom(one)
<1>1. Linked = LinkedFrom(two)
  BY DEF Linked, Lists
<1>2. \A shown : shown \subseteq LinkedFrom(shown)
  BY DEF LinkedFrom
<1>3. \A shown : \A p \in Inner, q \in shown : Reached(p) /\ p \in OffersOn(q) => p \in LinkedFrom(shown)
  BY DEF LinkedFrom, Inner, Lists, Reached
<1>4. Lists \subseteq one /\ one \subseteq two /\ two \subseteq Linked
  BY <1>1, <1>2
<1>5. \A p \in Inner, list \in Lists : Reached(p) /\ p \in OffersOn(list) => p \in one
  BY <1>3
<1>6. \A p, q \in Inner : p \in one /\ Reached(q) /\ q \in OffersOn(p) => q \in two
  BY <1>3
<1> HIDE DEF one, two
<1>7. QED BY <1>4, <1>5, <1>6

\* The present phase, on a page that was read just now.
LEMMA PhaseNow ==
  ASSUME IInv, read = time
  PROVE  /\ SentPhase = Phase /\ (held.status # "deleted" => PagePhase = Phase)
         /\ held.status # "deleted" => PhaseOfContest(held, read) = Phase
         /\ held.status = "draft" => Phase = "draft"
         /\ held.status = "published" =>
               /\ held.startAt \in Nat
               /\ Phase = (IF time < held.startAt THEN "upcoming"
                           ELSE IF time < EndOf(held) THEN "live"
                           ELSE IF held.finalized THEN "ended" ELSE "pending")
         /\ Phase \in {"upcoming", "live"} => held.status = "published"
<1>1. SentPhase = Phase
  BY DEF SentPhase, Phase
<1>2. read # Unset
  BY OffersAssumption DEF IInv, Typed
<1>3. held.status # "deleted" => PagePhase = Phase /\ PhaseOfContest(held, read) = Phase
  BY <1>2, PhasesAgree DEF PagePhasesAgree
<1>4. held.status = "published" => held.startAt # Unset /\ held.startAt \in Nat
  BY StartNat DEF IInv, Sane
<1>5. held.status \in {"draft", "published", "cancelled", "deleted"}
  BY DEF IInv, Typed, Contests
<1>6. QED BY <1>1, <1>3, <1>4, <1>5 DEF Phase, PhaseOf

\* Where the lists lead.
LEMMA Leads ==
  ASSUME IInv, Hosts, read = time
  PROVE  /\ held.status = "published" => "details" \in Linked \/ Phase = "ended"
         /\ held.status = "draft" /\ user.hosting => "editor" \in Linked
<1>1. {"details", "editor", "results", "workspace"} = Inner
  BY DEF Inner, Pages, Lists
<1>2. Lists = {"browse", "dashboard"}
  BY DEF Lists
<1>3. CASE held.status = "published"
  <2>1. Visible
    BY <1>3 DEF Visible
  <2>2. Phase # "ended" => "details" \in BrowseOffers
    BY <1>3, PhaseNow, PhaseGives DEF BrowseOffers, LiveCard, UpcomingRow, PastTable
  <2>3. Phase # "ended" => "details" \in Linked
    BY <1>1, <1>2, <2>1, <2>2, Linking DEF Reached, Loaded, OffersOn
  <2>4. QED BY <1>3, <2>3
<1>4. CASE held.status = "draft" /\ user.hosting
  <2>1. Loaded("editor")
    BY <1>4 DEF Loaded, CanHost, OpensEditor, Manages, Hosts, IInv, Typed, Users
  <2>2. "editor" \in DashboardOffers
    BY <1>4, PhaseNow DEF DashboardOffers, ContestHref
  <2>3. "editor" \in Linked
    BY <1>1, <1>2, <2>1, <2>2, Linking DEF Reached, OffersOn
  <2>4. QED BY <1>4, <2>3
<1>5. QED BY <1>3, <1>4

Offered(ask) == \E page \in Linked : ask \in OffersOn(page)

LEMMA EditorFound ==
  ASSUME IInv, Hosts, read = time, OpensEditor, Phase \in {"draft", "upcoming"}, ~KnownGap("save")
  PROVE  "editor" \in Linked
<1>1. CASE Phase = "draft"
  <2>1. held.status = "draft" /\ user.hosting
    BY <1>1, PhaseGives DEF KnownGap, OpensEditor, Manages
  <2>2. QED BY <2>1, Leads
<1>2. CASE Phase = "upcoming"
  <2>1. held.status = "published" /\ Visible /\ PagePhase = "upcoming" /\ Manages
    BY <1>2, PhaseNow, PhaseGives DEF Visible, OpensEditor
  <2>2. "details" \in BrowseOffers /\ "editor" \in DetailsOffers
    BY <1>2, <2>1, PhaseNow DEF BrowseOffers, UpcomingRow, DetailsOffers, HostCard
  <2>3. Loaded("details") /\ Loaded("editor")
    BY <2>1 DEF Loaded, CanHost, OpensEditor, Manages, Hosts, IInv, Typed, Users
  <2>4. "details" \in Inner /\ "editor" \in Inner /\ "browse" \in Lists
    BY DEF Inner, Pages, Lists
  <2>5. QED BY <2>2, <2>3, <2>4, Linking DEF Reached, OffersOn
<1>3. QED BY <1>1, <1>2

LEMMA JoinOffered ==
  ASSUME IInv, Hosts, read = time, Joins, ~Joined, ~KnownGap("join")
  PROVE  Offered("join")
<1>1. held.status = "published" /\ time < EndOf(held) /\ ~Full /\ ~user.hosting /\ Visible
  BY DEF Joins, Joined
<1>2. Phase \in {"upcoming", "live"}
  BY <1>1, PhaseNow
<1>3. CASE Phase = "live"
  <2>1. "join" \in BrowseOffers
    BY <1>1, <1>3, PhaseNow DEF BrowseOffers, LiveCard, LiveAction
  <2>2. QED BY <2>1, Linking DEF Lists, Offered, OffersOn
<1>4. CASE Phase = "upcoming"
  <2>1. ~Manages
    BY <1>1, <1>4 DEF KnownGap, Manages
  <2>2. "join" \in DetailsOffers
    BY <1>1, <1>4, <2>1, PhaseNow DEF DetailsOffers, EntrantCard, IfRoom
  <2>3. "details" \in Linked
    BY <1>1, <1>4, Leads
  <2>4. QED BY <2>2, <2>3 DEF Offered, OffersOn
<1>5. QED BY <1>2, <1>3, <1>4

LEMMA EntrantOffered ==
  ASSUME IInv, Hosts, read = time, NEW ask \in {"leave", "workspace"}, Accepts(ask), ~KnownGap(ask)
  PROVE  Offered(ask)
<1>1. Visible /\ mine # "none" /\ ~user.hosting
  BY DEF Accepts, Leaves, Plays, Hosts
<1>2. held.status # "deleted"
  BY <1>1 DEF Visible
<1>3. CASE ask = "leave"
  <2>1. Phase = "upcoming" /\ held.status = "published"
    BY <1>3, PhaseGives DEF Accepts, Leaves
  <2>2. ~Manages
    BY <1>1, <1>3, <2>1 DEF KnownGap, Manages
  <2>3. "leave" \in DetailsOffers
    BY <1>1, <1>2, <2>1, <2>2, PhaseNow DEF DetailsOffers, EntrantCard, Joined
  <2>4. "details" \in Linked
    BY <2>1, Leads
  <2>5. QED BY <1>3, <2>3, <2>4 DEF Offered, OffersOn
<1>4. CASE ask = "workspace"
  <2>1. Phase = "live"
    BY <1>4 DEF Accepts, Plays
  <2>2. "workspace" \in DashboardOffers
    BY <1>1, <1>2, <2>1, PhaseNow DEF DashboardOffers, LiveContestCard, Joined
  <2>3. QED BY <1>4, <2>2, Linking DEF Lists, Offered, OffersOn
<1>5. QED BY <1>3, <1>4

LEMMA HostOffered ==
  ASSUME IInv, Hosts, read = time, NEW ask \in {"save", "publish", "delete"}, Accepts(ask),
         ~KnownGap(ask)
  PROVE  Offered(ask)
<1>1. OpensEditor /\ Phase \in {"draft", "upcoming"} /\ (ask # "save" => held.status = "draft")
  BY PhaseNow DEF Accepts, Saves, Publishes, Deletes, OpensEditor, Manages
<1>2. ~KnownGap("save")
  BY <1>1, PhaseNow, PhaseGives DEF KnownGap
<1>3. "editor" \in Linked
  BY <1>1, <1>2, EditorFound
<1>4. PageEditableAt(held, time)
  BY <1>1, PhaseNow, PhaseGives, PhaseCases DEF PageEditableAt
<1>5. ask = "publish" => held.sound /\ held.startAt # Unset /\ held.startAt >= read + LeadTime
  BY DEF Accepts, Publishes, PassesChecks
<1>6. ask \in EditorOffers
  BY <1>1, <1>4, <1>5 DEF EditorOffers
<1>7. QED BY <1>3, <1>6 DEF Offered, OffersOn

LEMMA CancelOffered ==
  ASSUME IInv, Hosts, read = time, Cancels, ~KnownGap("cancel")
  PROVE  Offered("cancel")
<1>1. Manages /\ held.status = "published" /\ ~held.finalized
      /\ (user.role # "admin" => time < held.startAt)
  BY DEF Cancels
<1>2. Phase \in {"upcoming", "live", "pending"} /\ PagePhase = Phase
  BY <1>1, PhaseNow
<1>3. user.role # "admin" => Phase = "upcoming"
  BY <1>1, PhaseNow
<1>4. Phase = "upcoming" \/ (Phase = "live" /\ ~user.hosting)
  BY <1>2, <1>3 DEF KnownGap
<1>5. "cancel" \in DetailsOffers
  BY <1>1, <1>2, <1>4 DEF DetailsOffers, HostCard
<1>6. "details" \in Linked
  BY <1>1, <1>2, Leads
<1>7. QED BY <1>5, <1>6 DEF Offered, OffersOn

\* Whatever the server would accept of the user, some page that links lead to offers, but
\* for the gaps the model names (the guards of the three contest services against
\* ContestsBrowse, ContestsList, ContestDetails and ContestEditor).
THEOREM NothingHiddenHolds == OffersSpec => []NothingHidden
<1>1. IInv /\ Hosts => NothingHidden
  <2> SUFFICES ASSUME IInv, Hosts, read = time,
                      NEW ask \in {"leave", "workspace", "results", "save", "publish", "cancel", "delete"}
                                  \cup (IF Joined THEN {} ELSE {"join"}),
                      Accepts(ask), ~KnownGap(ask)
               PROVE  Offered(ask)
    BY DEF NothingHidden, Offered
  <2>1. CASE ask = "results"
    <3>1. held.status = "published" /\ SentPhase = "ended"
      BY <2>1, PhaseCases, PhaseNow DEF Accepts, SeesResults
    <3>2. "results" \in BrowseOffers
      BY <3>1 DEF BrowseOffers, PastTable
    <3>3. QED BY <2>1, <3>2, Linking DEF Lists, Offered, OffersOn
  <2>2. CASE ask = "join"
    BY <2>2, JoinOffered DEF Accepts
  <2>3. CASE ask \in {"leave", "workspace"}
    BY <2>3, EntrantOffered
  <2>4. CASE ask \in {"save", "publish", "delete"}
    BY <2>4, HostOffered
  <2>5. CASE ask = "cancel"
    BY <2>5, CancelOffered DEF Accepts
  <2>6. QED BY <2>1, <2>2, <2>3, <2>4, <2>5
<1>2. QED BY <1>1, HostsHold, OffersInvariance, PTL

-----------------------------------------------------------------------------
(* Live counts *)

Messages == [kind : {"counts", "finalized"}, version : Nat]
WatchSteps == {"none", "asked", "read"}
Socks == [state : {"off", "open", "lost", "failed"}, joined : BOOLEAN,
          watch : WatchSteps, saw : Nat, inbox : Seq(Messages)]

PageTyped ==
    /\ counts \in Nat /\ lastSent \in Nat /\ lastSent <= counts
    /\ timer \subseteq Servers /\ owed \subseteq Servers /\ reading \subseteq Servers
    /\ sends \subseteq Servers \X Nat /\ \A send \in sends : send[2] <= counts
    /\ raced \in BOOLEAN /\ sock \in Socks

\* The last counts that came or wait in the inbox.
Newest(inbox, l, version) ==
    \/ \E i \in DOMAIN inbox :
          /\ inbox[i] = [kind |-> "counts", version |-> version]
          /\ \A j \in DOMAIN inbox : j > i => inbox[j].kind # "counts"
    \/ l = version /\ \A j \in DOMAIN inbox : inbox[j].kind # "counts"

\* A server that has the present counts to send, or is to read them.
Underway == \E s \in Servers : s \in timer \cup owed \cup reading \/ <<s, counts>> \in sends

\* Counts that were not broadcast yet are under way; once they were, whoever watches
\* has them, and so does a watch that is being answered.
CountsInv ==
    ~raced =>
       /\ counts > lastSent => Underway
       /\ counts = lastSent =>
             /\ sock.joined => Newest(sock.inbox, live, counts)
             /\ sock.watch = "read" => sock.saw = counts

LEMMA NewestAppended ==
  ASSUME NEW inbox \in Seq(Messages), NEW l, NEW version \in Nat
  PROVE  Newest(Append(inbox, [kind |-> "counts", version |-> version]), l, version)
<1> DEFINE message == [kind |-> "counts", version |-> version]
           more == Append(inbox, message)
<1>1. message \in Messages
  BY DEF Messages
<1>2. more[Len(inbox) + 1] = message /\ DOMAIN more = 1 .. Len(inbox) + 1
  BY <1>1
<1>3. Len(inbox) + 1 \in DOMAIN more /\ \A j \in DOMAIN more : ~(j > Len(inbox) + 1)
  BY <1>2
<1> HIDE DEF more
<1>4. Newest(more, l, version)
  BY <1>2, <1>3 DEF Newest
<1>5. QED BY <1>4 DEF more

LEMMA NewestKept ==
  ASSUME NEW inbox \in Seq(Messages), NEW l, NEW version, Newest(inbox, l, version),
         NEW message \in Messages, message.kind # "counts"
  PROVE  Newest(Append(inbox, message), l, version)
<1> DEFINE more == Append(inbox, message)
<1>1. /\ DOMAIN inbox = 1 .. Len(inbox) /\ DOMAIN more = 1 .. Len(inbox) + 1
      /\ more[Len(inbox) + 1] = message /\ \A i \in DOMAIN inbox : more[i] = inbox[i]
  OBVIOUS
<1>2. \A j \in DOMAIN more : j \in DOMAIN inbox \/ j = Len(inbox) + 1
  BY <1>1
<1>3. \A i \in DOMAIN inbox : i \in DOMAIN more
  BY <1>1
<1> HIDE DEF more
<1>4. Newest(more, l, version)
  BY <1>1, <1>2, <1>3 DEF Newest
<1>5. QED BY <1>4 DEF more

LEMMA NewestReceived ==
  ASSUME NEW inbox \in Seq(Messages), inbox # <<>>, NEW l, NEW version, Newest(inbox, l, version)
  PROVE  Newest(Tail(inbox),
                IF Head(inbox).kind = "counts" THEN Head(inbox).version ELSE l, version)
<1> DEFINE less == Tail(inbox)
           heard == IF Head(inbox).kind = "counts" THEN Head(inbox).version ELSE l
<1>1. /\ Len(inbox) \in Nat \ {0} /\ DOMAIN inbox = 1 .. Len(inbox)
      /\ DOMAIN less = 1 .. Len(inbox) - 1 /\ Head(inbox) = inbox[1]
      /\ \A i \in DOMAIN less : less[i] = inbox[i + 1]
  OBVIOUS
<1>2. \A i \in DOMAIN less : i + 1 \in DOMAIN inbox
  BY <1>1
<1> HIDE DEF less
<1>3. CASE l = version /\ \A j \in DOMAIN inbox : inbox[j].kind # "counts"
  <2>1. heard = version
    BY <1>1, <1>3
  <2>2. \A j \in DOMAIN less : less[j].kind # "counts"
    BY <1>1, <1>2, <1>3
  <2>3. QED BY <2>1, <2>2 DEF Newest, less
<1>4. ASSUME NEW i \in DOMAIN inbox, inbox[i] = [kind |-> "counts", version |-> version],
             \A j \in DOMAIN inbox : j > i => inbox[j].kind # "counts"
      PROVE  Newest(less, heard, version)
  <2>1. CASE i = 1
    <3>1. heard = version
      BY <1>1, <1>4, <2>1
    <3>2. \A j \in DOMAIN less : less[j].kind # "counts"
      BY <1>1, <1>2, <1>4, <2>1
    <3>3. QED BY <3>1, <3>2 DEF Newest
  <2>2. CASE i # 1
    <3>1. i - 1 \in DOMAIN less /\ less[i - 1] = inbox[i]
      BY <1>1, <2>2
    <3>2. \A j \in DOMAIN less : j > i - 1 => less[j].kind # "counts"
      BY <1>1, <1>2, <1>4
    <3>3. QED BY <1>4, <3>1, <3>2 DEF Newest
  <2>3. QED BY <2>1, <2>2
<1>5. QED BY <1>3, <1>4 DEF Newest, less

Lost == [Off EXCEPT !.state = "lost"]

LEMMA SocksApart ==
    \A s \in {Off, Dialled, Lost} : s \in Socks /\ ~s.joined /\ s.watch # "read"
<1>1. Off \in Socks /\ ~Off.joined /\ Off.watch # "read"
  BY DEF Off, Socks, WatchSteps
<1>2. Dialled \in Socks /\ ~Dialled.joined /\ Dialled.watch # "read"
  BY <1>1 DEF Dialled, Socks, WatchSteps
<1>3. Lost \in Socks /\ ~Lost.joined /\ Lost.watch # "read"
  BY <1>1 DEF Lost, Socks
<1>4. QED BY <1>1, <1>2, <1>3

LEMMA SocksMade ==
  ASSUME NEW s \in Socks, NEW message \in Messages
  PROVE  [s EXCEPT !.inbox = Append(@, message)] \in Socks
<1>1. Append(s.inbox, message) \in Seq(Messages)
  BY DEF Socks
<1>2. QED BY <1>1 DEF Socks

LEMMA PageInitHolds == PageInit => PageTyped /\ CountsInv
<1> SUFFICES ASSUME PageInit PROVE PageTyped /\ CountsInv
  OBVIOUS
<1>1. sock \in Socks /\ ~sock.joined /\ sock.watch = "none"
  BY DEF PageInit, Off, Socks, WatchSteps
<1>2. PageTyped
  <2>1. raced \in BOOLEAN
    BY Zenon DEF PageInit
  <2>2. counts = 0 /\ lastSent = 0 /\ timer = {} /\ owed = {} /\ reading = {} /\ sends = {}
    BY DEF PageInit
  <2>3. QED BY <1>1, <2>1, <2>2 DEF PageTyped
<1>3. CountsInv
  BY <1>1 DEF PageInit, CountsInv
<1>4. QED BY <1>2, <1>3

\* Steps of the servers that leave the socket alone.
LEMMA WorkStep ==
  ASSUME PageTyped, CountsInv, NEW s \in Servers,
         Change(s) \/ CountsChanged(s) \/ SendCounts(s) \/ ReadCounts(s)
  PROVE  PageTyped' /\ CountsInv'
<1>1. UNCHANGED <<sock, live, lastSent>>
  BY DEF Change, CountsChanged, SendCounts, ReadCounts, tabVars
<1>2. CASE Change(s)
  <2>1. counts' = counts + 1 /\ owed' = owed \cup {s} /\ raced' = FALSE
        /\ UNCHANGED <<timer, reading, sends>>
    BY <1>2 DEF Change
  <2>2. counts' # lastSent' /\ Underway'
    BY <1>1, <2>1 DEF PageTyped, Underway
  <2>3. \A send \in sends : send[2] \in Nat /\ send[2] <= counts'
    BY <2>1 DEF PageTyped
  <2>4. PageTyped'
    <3>1. raced' \in BOOLEAN
      BY <2>1, Zenon
    <3>2. counts' \in Nat /\ lastSent' <= counts'
      BY <1>1, <2>1 DEF PageTyped
    <3>3. QED BY <1>1, <2>1, <2>3, <3>1, <3>2 DEF PageTyped
  <2>5. QED BY <2>1, <2>2, <2>4 DEF CountsInv
<1>3. CASE CountsChanged(s) \/ SendCounts(s) \/ ReadCounts(s)
  <2>1. UNCHANGED <<counts, raced>>
    BY <1>3 DEF CountsChanged, SendCounts, ReadCounts
  <2>2. PageTyped'
    BY <1>1, <1>3, <2>1 DEF PageTyped, CountsChanged, SendCounts, ReadCounts
  <2>3. Underway => Underway'
    BY <1>3, <2>1 DEF Underway, CountsChanged, SendCounts, ReadCounts
  <2>4. QED BY <1>1, <2>1, <2>2, <2>3 DEF CountsInv
<1>4. QED BY <1>2, <1>3

\* A broadcast: newer counts reach whoever watches, older ones are a race.
LEMMA EmitStep ==
  ASSUME PageTyped, CountsInv, NEW send \in sends, Emit(send)
  PROVE  PageTyped' /\ CountsInv'
<1> DEFINE message == [kind |-> "counts", version |-> send[2]]
<1>1. PICK s \in Servers, v \in Nat : send = <<s, v>> /\ v <= counts
  BY DEF PageTyped
<1>2. message \in Messages /\ send[2] = v
  BY <1>1 DEF Messages
<1>3. sock' = IF sock.joined THEN [sock EXCEPT !.inbox = Append(@, message)] ELSE sock
  BY DEF Emit, Broadcast
<1>4. /\ sends' = sends \ {send} /\ lastSent' = (IF v > lastSent THEN v ELSE lastSent)
      /\ raced' \in BOOLEAN /\ UNCHANGED <<counts, timer, owed, reading, live>>
  BY <1>1 DEF Emit
<1>5. sock \in Socks
  BY DEF PageTyped
<1>6. sock' \in Socks /\ sock'.joined = sock.joined /\ sock'.watch = sock.watch /\ sock'.saw = sock.saw
  BY <1>2, <1>3, <1>5, SocksMade DEF Socks
<1>7. PageTyped'
  BY <1>1, <1>4, <1>6 DEF PageTyped
<1>8. ASSUME ~raced' PROVE CountsInv'
  <2>1. ~raced /\ ~(send[2] < lastSent) /\ sock.watch # "read"
    BY <1>8, Zenon DEF Emit
  <2>2. v >= lastSent /\ lastSent' = v
    BY <1>1, <1>4, <2>1 DEF PageTyped
  <2>3. ASSUME counts' > lastSent' PROVE Underway'
    <3>1. counts > lastSent /\ \A o \in Servers : <<o, counts>> # send
      BY <1>1, <1>4, <2>2, <2>3 DEF PageTyped
    <3>2. Underway
      BY <2>1, <3>1 DEF CountsInv
    <3>3. QED BY <1>4, <3>1, <3>2 DEF Underway
  <2>4. ASSUME counts' = lastSent', sock'.joined PROVE Newest(sock'.inbox, live', counts')
    <3>1. sock'.inbox = Append(sock.inbox, message) /\ counts' = v
      BY <1>3, <1>4, <1>5, <1>6, <2>2, <2>4 DEF Socks
    <3>2. sock.inbox \in Seq(Messages) /\ v \in Nat
      BY <1>5 DEF Socks
    <3>3. QED BY <1>2, <3>1, <3>2, NewestAppended
  <2>5. QED BY <1>6, <2>1, <2>3, <2>4 DEF CountsInv
<1>9. QED BY <1>7, <1>8 DEF CountsInv

\* Steps that leave nobody in the channel, and change nothing of the servers.
LEMMA AwayStep ==
  ASSUME PageTyped, CountsInv, UNCHANGED <<counts, timer, owed, reading, sends, lastSent, raced>>,
         sock' \in Socks, ~sock'.joined, sock'.watch # "read"
  PROVE  PageTyped' /\ CountsInv'
<1>1. Underway' <=> Underway
  BY DEF Underway
<1>2. QED BY <1>1 DEF PageTyped, CountsInv

\* What a server had to send is lost with it, which is a race.
LEMMA StopStep ==
  ASSUME PageTyped, CountsInv, NEW s \in Servers, Stop(s)
  PROVE  PageTyped' /\ CountsInv'
<1>1. /\ timer' = timer \ {s} /\ owed' = owed \ {s} /\ reading' = reading \ {s}
      /\ sends' = {send \in sends : send[1] # s}
      /\ sock' = (IF s = Home /\ sock.state = "open" THEN Lost ELSE sock)
      /\ raced' = (raced \/ s \in timer \cup owed \cup reading
                         \/ \E v \in 0 .. counts : <<s, v>> \in sends)
      /\ UNCHANGED <<counts, lastSent, live>>
  BY DEF Stop, Lost
<1>2. sock' \in Socks /\ raced' \in BOOLEAN
  BY <1>1, SocksApart DEF PageTyped
<1>3. PageTyped'
  BY <1>1, <1>2 DEF PageTyped
<1>4. ASSUME ~raced'
      PROVE  ~raced /\ s \notin timer \cup owed \cup reading /\ \A v \in 0 .. counts : <<s, v>> \notin sends
  BY <1>1, <1>4, Zenon
<1>5. ASSUME ~raced', Underway PROVE Underway'
  <2>1. PICK o \in Servers : o \in timer \cup owed \cup reading \/ <<o, counts>> \in sends
    BY <1>5 DEF Underway
  <2>2. o # s
    BY <1>4, <1>5, <2>1 DEF PageTyped
  <2>3. o \in timer' \cup owed' \cup reading' \/ <<o, counts'>> \in sends'
    BY <1>1, <2>1, <2>2
  <2>4. QED BY <2>3 DEF Underway
<1>6. sock' = sock \/ (~sock'.joined /\ sock'.watch # "read")
  BY <1>1, SocksApart
<1>7. QED BY <1>1, <1>3, <1>4, <1>5, <1>6 DEF CountsInv

\* The other broadcast carries no counts.
LEMMA ResultsOutStep ==
  ASSUME PageTyped, CountsInv, EmitFinalized
  PROVE  PageTyped' /\ CountsInv'
<1> DEFINE message == [kind |-> "finalized", version |-> counts]
<1>1. message \in Messages /\ message.kind # "counts"
  BY DEF Messages, PageTyped
<1>2. /\ sock' = IF sock.joined THEN [sock EXCEPT !.inbox = Append(@, message)] ELSE sock
      /\ UNCHANGED <<counts, timer, owed, reading, sends, lastSent, raced, live>>
  BY DEF EmitFinalized, Broadcast
<1>3. sock' \in Socks /\ sock'.joined = sock.joined /\ sock'.watch = sock.watch /\ sock'.saw = sock.saw
  BY <1>1, <1>2, SocksMade DEF PageTyped, Socks
<1>4. ASSUME sock'.joined, Newest(sock.inbox, live, counts) PROVE Newest(sock'.inbox, live', counts')
  <2>1. sock.inbox \in Seq(Messages) /\ sock'.inbox = Append(sock.inbox, message)
    BY <1>2, <1>3, <1>4 DEF PageTyped, Socks
  <2>2. QED BY <1>1, <1>2, <1>4, <2>1, NewestKept
<1>5. Underway' <=> Underway
  BY <1>2 DEF Underway
<1>6. QED BY <1>2, <1>3, <1>4, <1>5 DEF PageTyped, CountsInv

\* The watch is answered with what it read.
LEMMA WatchStep ==
  ASSUME PageTyped, CountsInv, WatchReads \/ WatchJoins
  PROVE  PageTyped' /\ CountsInv'
<1>1. UNCHANGED <<counts, timer, owed, reading, sends, lastSent, raced, live>>
  BY DEF WatchReads, WatchJoins, serverVars
<1>2. Underway' <=> Underway
  BY <1>1 DEF Underway
<1>3. sock \in Socks /\ counts \in Nat
  BY DEF PageTyped
<1>4. CASE WatchReads
  <2>1. /\ sock' = [sock EXCEPT !.watch = "read", !.saw = counts] /\ sock.watch = "asked"
    BY <1>4 DEF WatchReads
  <2>2. sock' \in Socks /\ sock'.joined = sock.joined /\ sock'.saw = counts /\ sock'.inbox = sock.inbox
    BY <1>3, <2>1 DEF Socks, WatchSteps
  <2>3. QED BY <1>1, <1>2, <2>2 DEF PageTyped, CountsInv
<1>5. CASE WatchJoins
  <2> DEFINE message == [kind |-> "counts", version |-> sock.saw]
  <2>1. sock.watch = "read" /\ sock.saw \in Nat /\ sock.inbox \in Seq(Messages) /\ message \in Messages
    BY <1>3, <1>5 DEF WatchJoins, Socks, Messages
  <2>2. sock' = [sock EXCEPT !.joined = TRUE, !.watch = "none", !.inbox = Append(@, message)]
    BY <1>5 DEF WatchJoins
  <2>3. Append(sock.inbox, message) \in Seq(Messages)
    BY <2>1
  <2>4. sock' \in Socks /\ sock'.watch = "none" /\ sock'.inbox = Append(sock.inbox, message)
    BY <1>3, <2>2, <2>3 DEF Socks, WatchSteps
  <2>5. Newest(sock'.inbox, live', sock.saw)
    BY <2>1, <2>4, NewestAppended
  <2>6. QED BY <1>1, <1>2, <2>1, <2>4, <2>5 DEF PageTyped, CountsInv
<1>6. QED BY <1>4, <1>5

LEMMA ReceiveStep ==
  ASSUME PageTyped, CountsInv, Receive
  PROVE  PageTyped' /\ CountsInv'
<1>1. UNCHANGED <<counts, timer, owed, reading, sends, lastSent, raced>>
  BY DEF Receive, serverVars
<1>2. Underway' <=> Underway
  BY <1>1 DEF Underway
<1>3. sock \in Socks /\ sock.inbox \in Seq(Messages) /\ sock.inbox # <<>>
  BY DEF PageTyped, Receive, Socks
<1>4. CASE sock' = Off
  BY <1>1, <1>4, SocksApart, AwayStep
<1>5. CASE sock' # Off
  <2>1. sock' = [sock EXCEPT !.inbox = Tail(@)]
    BY <1>5 DEF Receive
  <2>2. live' = IF Head(sock.inbox).kind = "counts" THEN Head(sock.inbox).version ELSE live
    BY DEF Receive
  <2>3. Tail(sock.inbox) \in Seq(Messages)
    BY <1>3
  <2>4. sock' \in Socks /\ sock'.joined = sock.joined /\ sock'.watch = sock.watch
        /\ sock'.saw = sock.saw /\ sock'.inbox = Tail(sock.inbox)
    BY <1>3, <2>1, <2>3 DEF Socks
  <2>5. Newest(sock.inbox, live, counts) => Newest(sock'.inbox, live', counts')
    BY <1>1, <1>3, <2>2, <2>4, NewestReceived
  <2>6. QED BY <1>1, <1>2, <2>4, <2>5 DEF PageTyped, CountsInv
<1>6. QED BY <1>4, <1>5

\* Steps of the tab, but for what its socket receives, and of the contest's course.
LEMMA TabStep ==
  ASSUME PageTyped, CountsInv,
         Poll \/ Retry \/ Fetched \/ FetchFails
         \/ (\E page \in TabPages, stale \in BOOLEAN : Visit(page, stale))
         \/ Drop \/ Reconnect \/ GiveUp \/ Cancel \/ End \/ Finalize \/ UNCHANGED pageVars
  PROVE  PageTyped' /\ CountsInv'
<1>1. UNCHANGED <<counts, timer, owed, reading, sends, lastSent, raced>>
  BY DEF Poll, Retry, Fetched, FetchFails, Visit, Drop, Reconnect, GiveUp, Cancel, End,
         Finalize, pageVars, serverVars
<1>2. sock \in Socks
  BY DEF PageTyped
<1>3. CASE sock' \in {Off, Dialled, Lost}
  BY <1>1, <1>3, SocksApart, AwayStep
<1>4. CASE sock' = [sock EXCEPT !.state = "failed"] /\ live' = live
  <2>1. sock' \in Socks /\ sock'.joined = sock.joined /\ sock'.watch = sock.watch
        /\ sock'.saw = sock.saw /\ sock'.inbox = sock.inbox
    BY <1>2, <1>4 DEF Socks
  <2>2. Underway' <=> Underway
    BY <1>1 DEF Underway
  <2>3. QED BY <1>1, <1>4, <2>1, <2>2 DEF PageTyped, CountsInv
<1>5. CASE UNCHANGED <<sock, live>>
  <2>1. Underway' <=> Underway
    BY <1>1 DEF Underway
  <2>2. QED BY <1>1, <1>5, <2>1 DEF PageTyped, CountsInv
<1>6. QED
  BY <1>3, <1>4, <1>5
     DEF Poll, Retry, Refetches, Fetched, FetchFails, Visit, Drop, Reconnect, GiveUp, Cancel, End,
         Finalize, pageVars, tabVars, Lost

\* Once no broadcast is on its way, a page that watches a contest shows its counts as they
\* are, unless a broadcast was lost, overtaken, or sent while the watch was being answered
\* (countsChanged, sendCounts and onWatch of contests.gateway; useContestSocket).
THEOREM CountsRightHolds == PageSpec => []CountsRight
<1>1. PageTyped /\ CountsInv /\ [PageNext]_pageVars => PageTyped' /\ CountsInv'
  BY WorkStep, EmitStep, StopStep, ResultsOutStep, WatchStep, ReceiveStep, TabStep DEF PageNext
<1>2. PageTyped /\ CountsInv => CountsRight
  <2> SUFFICES ASSUME PageTyped, CountsInv, CountsAtRest, ~raced PROVE live = counts
    BY DEF CountsRight
  <2>1. ~Underway /\ sock.joined /\ sock.inbox = <<>>
    BY DEF CountsAtRest, Underway
  <2>2. counts = lastSent
    BY <2>1 DEF CountsInv, PageTyped
  <2>3. Newest(<<>>, live, counts)
    BY <2>1, <2>2 DEF CountsInv
  <2>4. QED BY <2>3 DEF Newest
<1>3. QED BY <1>1, <1>2, PageInitHolds, PTL DEF PageSpec

-----------------------------------------------------------------------------
(* The question form *)

Option == [id : Nat \ {0}, blank : BOOLEAN]
Card == [kind : Kinds, blank : BOOLEAN, points : MinPoints .. MaxPoints, made : Nat,
         options : Seq(Option), correctOptionIds : Seq(Nat)]

\* Options have ids of their own, drawn in order; each mark is on an option, and
\* no option is marked twice.
CardOK(q) ==
    /\ q \in Card
    /\ Len(q.options) <= MaxOptions
    /\ \A i \in DOMAIN q.options : q.options[i].id <= q.made
    /\ \A i, j \in DOMAIN q.options : q.options[i].id = q.options[j].id => i = j
    /\ \A i \in DOMAIN q.correctOptionIds : q.correctOptionIds[i] \in Ids(q)
    /\ \A i, j \in DOMAIN q.correctOptionIds : q.correctOptionIds[i] = q.correctOptionIds[j] => i = j
    /\ q.kind = "single" => Len(q.correctOptionIds) <= 1

-----------------------------------------------------------------------------
(* What is left of a list *)

LEMMA UpTo ==
  ASSUME NEW n \in Nat
  PROVE  IsFiniteSet(1 .. n) /\ Cardinality(1 .. n) = n
<1>1. IsFiniteSet(1 .. n) /\ Cardinality(1 .. n) = IF 1 > n THEN 0 ELSE n - 1 + 1
  BY FS_Interval
<1>2. QED BY <1>1

\* The places that are kept have the ranks 1, 2, ... , one each.
LEMMA Ranks ==
  ASSUME NEW m \in Nat, NEW places \in SUBSET (1 .. m)
  PROVE  /\ IsFiniteSet(places) /\ Cardinality(places) \in 0 .. m
         /\ \A o \in places : Cardinality({p \in places : p <= o}) \in 1 .. Cardinality(places)
         /\ \A o, p \in places :
               Cardinality({q \in places : q <= o}) = Cardinality({q \in places : q <= p}) => o = p
         /\ \A i \in 1 .. Cardinality(places) :
               \E o \in places : Cardinality({p \in places : p <= o}) = i
<1> DEFINE upto(o) == {p \in places : p <= o}
           n == Cardinality(places)
           rank == [o \in places |-> Cardinality(upto(o))]
<1>1. IsFiniteSet(places) /\ n \in Nat /\ n <= m /\ \A o \in places : o \in Nat
  <2>1. IsFiniteSet(1 .. m) /\ Cardinality(1 .. m) = m
    BY UpTo
  <2>2. IsFiniteSet(places) /\ Cardinality(places) <= m
    BY <2>1, FS_Subset
  <2>3. Cardinality(places) \in Nat
    BY <2>2, FS_CardinalityType
  <2>4. QED BY <2>2, <2>3
<1>2. \A o \in places : IsFiniteSet(upto(o)) /\ Cardinality(upto(o)) \in 1 .. n
  <2> SUFFICES ASSUME NEW o \in places
               PROVE  IsFiniteSet(upto(o)) /\ Cardinality(upto(o)) \in 1 .. n
    OBVIOUS
  <2>1. upto(o) \in SUBSET places /\ o \in upto(o)
    BY <1>1
  <2> HIDE DEF upto
  <2>2. IsFiniteSet(upto(o)) /\ Cardinality(upto(o)) <= n
    BY <1>1, <2>1, FS_Subset
  <2>3. Cardinality(upto(o)) \in Nat /\ Cardinality(upto(o)) # 0
    BY <2>1, <2>2, FS_CardinalityType, FS_EmptySet
  <2> HIDE DEF n
  <2>4. QED BY <1>1, <2>2, <2>3
<1>3. ASSUME NEW o \in places, NEW p \in places, o < p
      PROVE  Cardinality(upto(o)) < Cardinality(upto(p))
  <2>1. upto(o) \in SUBSET upto(p) /\ p \in upto(p) /\ p \notin upto(o)
    <3>1. p <= p /\ ~(p <= o) /\ \A q \in places : q <= o => q <= p
      BY <1>1, <1>3
    <3>2. QED BY <3>1
  <2> HIDE DEF upto
  <2>2. upto(o) # upto(p)
    BY <2>1
  <2>3. Cardinality(upto(o)) <= Cardinality(upto(p))
        /\ Cardinality(upto(o)) # Cardinality(upto(p))
    BY <1>2, <2>1, <2>2, FS_Subset
  <2>4. Cardinality(upto(o)) \in Nat /\ Cardinality(upto(p)) \in Nat
    BY <1>2
  <2>5. QED BY <2>3, <2>4
<1> HIDE DEF upto, n
<1>4. rank \in [places -> 1 .. n]
  BY <1>2
<1>5. \A o, p \in places : rank[o] = rank[p] => o = p
  BY <1>1, <1>2, <1>3
<1>6. rank \in Injection(places, 1 .. n)
  BY <1>4, <1>5 DEF Injection, IsInjective
<1>7. IsFiniteSet(1 .. n) /\ Cardinality(1 .. n) = n
  BY <1>1, UpTo
<1>8. rank \in Surjection(places, 1 .. n)
  BY <1>6, <1>7, FS_Injection DEF n
<1>9. \A i \in 1 .. n : \E o \in places : Cardinality(upto(o)) = i
  BY <1>8 DEF Surjection
<1>10. \A o, p \in places : Cardinality(upto(o)) = Cardinality(upto(p)) => o = p
  BY <1>5
<1>11. n \in 0 .. m
  BY <1>1
<1>12. QED BY <1>1, <1>2, <1>9, <1>10, <1>11 DEF upto, n

\* The list left has what the kept places had, each of them once.
KeptOf(left, list, places) ==
    /\ Len(left) = Cardinality(places) /\ Len(left) <= Len(list)
    /\ \A n \in 1 .. Len(left) : \E i \in places : left[n] = list[i]
    /\ \A n, k \in 1 .. Len(left) : n # k =>
          \E i, j \in places : i # j /\ left[n] = list[i] /\ left[k] = list[j]
    /\ \A i \in places : \E n \in 1 .. Len(left) : left[n] = list[i]
    /\ places = 1 .. Len(list) => left = list

LEMMA FilteredIs ==
  ASSUME NEW S, NEW list \in Seq(S), NEW places \in SUBSET (1 .. Len(list)),
         NEW left, left = Filtered(list, places)
  PROVE  left \in Seq(S) /\ KeptOf(left, list, places)
<1> DEFINE m == Len(list)
           c == Cardinality(places)
           rank(o) == Cardinality({p \in places : p <= o})
           from(n) == CHOOSE o \in places : rank(o) = n
<1>1. m \in Nat /\ DOMAIN list = 1 .. m /\ \A i \in 1 .. m : list[i] \in S
  BY LenProperties, ElementOfSeq
<1>2. /\ c \in 0 .. m
      /\ \A o \in places : rank(o) \in 1 .. c
      /\ \A o, p \in places : rank(o) = rank(p) => o = p
      /\ \A i \in 1 .. c : \E o \in places : rank(o) = i
  BY <1>1, Ranks
<1>3. left = [n \in 1 .. c |-> list[from(n)]]
  BY DEF Filtered
<1> HIDE DEF c, rank
<1>4. \A n \in 1 .. c : from(n) \in places /\ rank(from(n)) = n
  BY <1>2
<1>5. \A o \in places : rank(o) \in 1 .. c /\ from(rank(o)) = o
  <2> SUFFICES ASSUME NEW o \in places PROVE rank(o) \in 1 .. c /\ from(rank(o)) = o
    OBVIOUS
  <2>1. rank(o) \in 1 .. c
    BY <1>2
  <2>2. from(rank(o)) \in places /\ rank(from(rank(o))) = rank(o)
    BY <1>4, <2>1
  <2>3. QED BY <1>2, <2>1, <2>2
<1> HIDE DEF from
<1>6. left \in Seq(S) /\ Len(left) = c
  <2>1. left \in [1 .. c -> {list[i] : i \in places}] /\ c \in Nat
    <3>1. \A n \in 1 .. c : list[from(n)] \in {list[i] : i \in places}
      BY <1>4
    <3>2. QED BY <1>1, <1>2, <1>3, <3>1
  <2>2. {list[i] : i \in places} \subseteq S
    BY <1>1
  <2>3. QED BY <2>1, <2>2
<1>7. \A n, k \in 1 .. c : n # k =>
         from(n) # from(k) /\ left[n] = list[from(n)] /\ left[k] = list[from(k)]
  BY <1>3, <1>4
<1>8. \A n \in 1 .. c : left[n] = list[from(n)] /\ from(n) \in places
  BY <1>3, <1>4
<1>9. \A i \in places : rank(i) \in 1 .. c /\ left[rank(i)] = list[i]
  BY <1>5, <1>8
<1>10. ASSUME places = 1 .. m PROVE left = list
  <2>1. c = m
    BY <1>1, <1>10, UpTo DEF c
  <2>2. \A o \in 1 .. m : rank(o) = o
    <3> SUFFICES ASSUME NEW o \in 1 .. m PROVE rank(o) = o
      OBVIOUS
    <3>1. {p \in places : p <= o} = 1 .. o /\ o \in Nat
      BY <1>1, <1>10
    <3>2. QED BY <3>1, UpTo DEF rank
  <2>3. \A n \in 1 .. m : left[n] = list[n]
    BY <1>9, <1>10, <2>1, <2>2
  <2>4. QED BY <1>1, <1>6, <2>1, <2>3, SeqEqual
<1>11. c <= m
  BY <1>1, <1>2
<1>12. \A n \in 1 .. c : \E i \in places : left[n] = list[i]
  BY <1>8
<1>13. \A n, k \in 1 .. c : n # k =>
          \E i, j \in places : i # j /\ left[n] = list[i] /\ left[k] = list[j]
  BY <1>4, <1>7
<1>14. \A i \in places : \E n \in 1 .. c : left[n] = list[i]
  BY <1>9
<1>15. Len(left) <= m
  BY <1>6, <1>11
<1>16. Len(left) = Cardinality(places)
  BY <1>6 DEF c
<1>17. /\ \A n \in 1 .. Len(left) : \E i \in places : left[n] = list[i]
       /\ \A n, k \in 1 .. Len(left) : n # k =>
             \E i, j \in places : i # j /\ left[n] = list[i] /\ left[k] = list[j]
       /\ \A i \in places : \E n \in 1 .. Len(left) : left[n] = list[i]
  <2>1. Len(left) = c
    BY <1>6
  <2>2. QED BY <1>12, <1>13, <1>14, <2>1, Zenon
<1>18. places = 1 .. Len(list) => left = list
  BY <1>10
<1>19. KeptOf(left, list, places)
  BY <1>15, <1>16, <1>17, <1>18, Zenon DEF KeptOf
<1>20. QED BY <1>6, <1>19

-----------------------------------------------------------------------------
(* What each operation leaves *)

\* Marks that are on options, once each, leave a card that is right.
LEMMA Marked ==
  ASSUME NEW q, CardOK(q), NEW marks \in Seq(Nat),
         \A i \in 1 .. Len(marks) : marks[i] \in Ids(q),
         \A i, j \in 1 .. Len(marks) : marks[i] = marks[j] => i = j,
         NEW kind \in Kinds, kind = "single" => Len(marks) <= 1,
         NEW r, r = [q EXCEPT !.kind = kind, !.correctOptionIds = marks]
  PROVE  CardOK(r)
<1>1. q \in Card
  BY DEF CardOK
<1>2. /\ r \in Card /\ r.options = q.options /\ r.made = q.made
      /\ r.kind = kind /\ r.correctOptionIds = marks
  BY <1>1 DEF Card
<1>3. Ids(r) = Ids(q)
  BY <1>2 DEF Ids
<1>4. DOMAIN marks = 1 .. Len(marks)
  BY LenProperties
<1>5. QED BY <1>2, <1>3, <1>4 DEF CardOK

\* Options that have ids of their own, those that are marked among them.
Fit(q, options, made) ==
    /\ Len(options) <= MaxOptions
    /\ \A i \in 1 .. Len(options) : options[i].id <= made
    /\ \A i, j \in 1 .. Len(options) : options[i].id = options[j].id => i = j
    /\ \A i \in DOMAIN q.correctOptionIds : \E j \in 1 .. Len(options) :
          options[j].id = q.correctOptionIds[i]

\* Such options leave a card that is right.
LEMMA Refitted ==
  ASSUME NEW q, CardOK(q), NEW options \in Seq(Option), NEW made \in Nat,
         Fit(q, options, made),
         NEW r, r = [q EXCEPT !.options = options, !.made = made]
  PROVE  CardOK(r)
<1>1. q \in Card
  BY DEF CardOK
<1>2. /\ r \in Card /\ r.options = options /\ r.made = made
      /\ r.kind = q.kind /\ r.correctOptionIds = q.correctOptionIds
  BY <1>1 DEF Card
<1>3. DOMAIN options = 1 .. Len(options)
  BY LenProperties
<1>4. \A i \in DOMAIN r.correctOptionIds : r.correctOptionIds[i] \in Ids(r)
  BY <1>2, <1>3 DEF Ids, Fit
<1>5. QED BY <1>2, <1>3, <1>4 DEF CardOK, Fit

\* The fields of a card that is right.
LEMMA CardShape ==
  ASSUME NEW q, CardOK(q)
  PROVE  /\ q \in Card /\ q.made \in Nat /\ q.kind \in Kinds
         /\ q.options \in Seq(Option) /\ Len(q.options) \in 0 .. MaxOptions
         /\ DOMAIN q.options = 1 .. Len(q.options)
         /\ q.correctOptionIds \in Seq(Nat) /\ Len(q.correctOptionIds) \in Nat
         /\ DOMAIN q.correctOptionIds = 1 .. Len(q.correctOptionIds)
         /\ \A i \in 1 .. Len(q.options) :
               q.options[i] \in Option /\ q.options[i].id \in Nat \ {0}
         /\ \A i \in 1 .. Len(q.correctOptionIds) : q.correctOptionIds[i] \in Nat
         /\ Ids(q) \subseteq Nat
<1>1. /\ q \in Card /\ q.options \in Seq(Option) /\ q.correctOptionIds \in Seq(Nat)
      /\ q.made \in Nat /\ q.kind \in Kinds
  BY DEF CardOK, Card
<1>2. Len(q.options) \in Nat /\ Len(q.options) <= MaxOptions /\ MaxOptions \in Nat
  BY <1>1, LenProperties, LimitsAssumption DEF CardOK
<1>3. /\ DOMAIN q.options = 1 .. Len(q.options)
      /\ \A i \in 1 .. Len(q.options) : q.options[i] \in Option
  BY <1>1, LenProperties, ElementOfSeq
<1>4. /\ Len(q.correctOptionIds) \in Nat
      /\ DOMAIN q.correctOptionIds = 1 .. Len(q.correctOptionIds)
      /\ \A i \in 1 .. Len(q.correctOptionIds) : q.correctOptionIds[i] \in Nat
  BY <1>1, LenProperties, ElementOfSeq
<1>5. \A i \in 1 .. Len(q.options) : q.options[i].id \in Nat \ {0}
  BY <1>3 DEF Option
<1>6. Ids(q) \subseteq Nat
  BY <1>3, <1>5 DEF Ids
<1>7. QED BY <1>1, <1>2, <1>3, <1>4, <1>5, <1>6

\* Each option's id was drawn, and is its own; each mark is on one of them.
LEMMA Distinct ==
  ASSUME NEW q, CardOK(q)
  PROVE  /\ \A i \in 1 .. Len(q.options) :
               q.options[i].id \in Nat \ {0} /\ q.options[i].id <= q.made
         /\ \A i, j \in 1 .. Len(q.options) : q.options[i].id = q.options[j].id => i = j
         /\ \A i \in DOMAIN q.correctOptionIds : \E j \in 1 .. Len(q.options) :
               q.options[j].id = q.correctOptionIds[i]
<1>1. /\ DOMAIN q.options = 1 .. Len(q.options)
      /\ \A i \in 1 .. Len(q.options) : q.options[i].id \in Nat \ {0}
  BY CardShape
<1>2. /\ \A i \in 1 .. Len(q.options) : q.options[i].id <= q.made
      /\ \A i, j \in 1 .. Len(q.options) : q.options[i].id = q.options[j].id => i = j
  BY <1>1 DEF CardOK
<1>3. \A i \in DOMAIN q.correctOptionIds : q.correctOptionIds[i] \in Ids(q)
  BY DEF CardOK
<1>4. Ids(q) = {q.options[i].id : i \in 1 .. Len(q.options)}
  BY <1>1 DEF Ids
<1>5. QED BY <1>1, <1>2, <1>3, <1>4

LEMMA NewIsRight ==
  ASSUME NEW kind \in Kinds PROVE CardOK(NewQuestion(kind))
<1> DEFINE q == NewQuestion(kind)
           o == [id |-> 1, blank |-> TRUE]
           p == [id |-> 2, blank |-> TRUE]
<1>1. o \in Option /\ p \in Option /\ <<o, p>> \in Seq(Option) /\ <<>> \in Seq(Nat)
  BY DEF Option
<1>2. /\ q.kind = kind /\ q.blank = TRUE /\ q.points = 1 /\ q.made = 2
      /\ q.options = <<o, p>> /\ q.correctOptionIds = <<>>
  BY DEF NewQuestion
<1>3. q \in Card
  BY <1>1, LimitsAssumption DEF NewQuestion, Card
<1>4. Len(q.options) = 2 /\ DOMAIN q.options = 1 .. 2 /\ q.options[1].id = 1 /\ q.options[2].id = 2
  BY <1>2
<1>5. Len(q.correctOptionIds) = 0 /\ DOMAIN q.correctOptionIds = {}
  BY <1>2
<1> HIDE DEF q
<1>6. CardOK(q)
  BY <1>2, <1>3, <1>4, <1>5, LimitsAssumption DEF CardOK
<1>7. QED BY <1>6 DEF q

LEMMA SetKindKeeps ==
  ASSUME CardOK(draft), NEW kind \in Kinds, SetKind(kind) PROVE CardOK(draft)'
<1> SUFFICES ASSUME NEW q, q = draft PROVE CardOK(draft)'
  OBVIOUS
<1> DEFINE marks == IF kind = "single" /\ q.correctOptionIds # <<>>
                    THEN <<q.correctOptionIds[1]>> ELSE q.correctOptionIds
<1>1. CardOK(q)
  OBVIOUS
<1>2. /\ q.correctOptionIds \in Seq(Nat) /\ Len(q.correctOptionIds) \in Nat
      /\ \A i \in 1 .. Len(q.correctOptionIds) :
            q.correctOptionIds[i] \in Nat /\ q.correctOptionIds[i] \in Ids(q)
      /\ \A i, j \in 1 .. Len(q.correctOptionIds) :
            q.correctOptionIds[i] = q.correctOptionIds[j] => i = j
  BY <1>1, CardShape DEF CardOK
<1>3. draft' = [q EXCEPT !.kind = kind, !.correctOptionIds = marks]
  BY <1>1, CardShape DEF SetKind, Card
<1>4. /\ marks \in Seq(Nat) /\ \A i \in 1 .. Len(marks) : marks[i] \in Ids(q)
      /\ \A i, j \in 1 .. Len(marks) : marks[i] = marks[j] => i = j
      /\ kind = "single" => Len(marks) <= 1
  <2>1. CASE kind = "single" /\ q.correctOptionIds # <<>>
    <3>1. Len(q.correctOptionIds) >= 1
      BY <1>2, <2>1, EmptySeq
    <3>2. marks = <<q.correctOptionIds[1]>> /\ q.correctOptionIds[1] \in Nat
          /\ q.correctOptionIds[1] \in Ids(q)
      BY <1>2, <2>1, <3>1
    <3> HIDE DEF marks
    <3>3. Len(marks) = 1 /\ marks[1] \in Ids(q) /\ marks \in Seq(Nat)
      BY <3>2
    <3>4. QED BY <3>3
  <2>2. CASE ~(kind = "single" /\ q.correctOptionIds # <<>>)
    <3>1. marks = q.correctOptionIds
      BY <2>2
    <3>2. kind = "single" => Len(marks) = 0
      BY <2>2, <3>1
    <3> HIDE DEF marks
    <3>3. QED BY <1>2, <3>1, <3>2
  <2>3. QED BY <2>1, <2>2
<1> HIDE DEF marks
<1>5. CardOK(draft')
  BY <1>1, <1>3, <1>4, Marked
<1>6. QED BY <1>5 DEF CardOK, Ids

LEMMA MarkKeeps ==
  ASSUME CardOK(draft), NEW id \in Nat, Mark(id) PROVE CardOK(draft)'
<1> SUFFICES ASSUME NEW q, q = draft, NEW old, old = q.correctOptionIds PROVE CardOK(draft)'
  OBVIOUS
<1>1. CardOK(q) /\ id \in Ids(q) /\ id \in Nat
  BY DEF Mark, IsAnId
<1>2. /\ old \in Seq(Nat) /\ Len(old) \in Nat /\ DOMAIN old = 1 .. Len(old)
      /\ \A i \in 1 .. Len(old) : old[i] \in Nat /\ old[i] \in Ids(q)
      /\ \A i, j \in 1 .. Len(old) : old[i] = old[j] => i = j
      /\ q.kind \in Kinds
  BY <1>1, CardShape DEF CardOK
<1> DEFINE marks == IF q.kind = "single" THEN <<id>>
                    ELSE IF id \in ToSet(old) THEN Filtered(old, {i \in DOMAIN old : old[i] # id})
                    ELSE Append(old, id)
<1>3. draft' = [q EXCEPT !.kind = q.kind, !.correctOptionIds = marks]
  BY <1>1, CardShape DEF Mark, Card
<1>4. /\ marks \in Seq(Nat) /\ \A i \in 1 .. Len(marks) : marks[i] \in Ids(q)
      /\ \A i, j \in 1 .. Len(marks) : marks[i] = marks[j] => i = j
      /\ q.kind = "single" => Len(marks) <= 1
  <2>1. CASE q.kind = "single"
    <3>1. marks = <<id>>
      BY <2>1
    <3> HIDE DEF marks
    <3>2. Len(marks) = 1 /\ marks[1] \in Ids(q) /\ marks \in Seq(Nat)
      BY <1>1, <3>1
    <3>3. QED BY <3>2
  <2>2. CASE q.kind # "single" /\ id \in ToSet(old)
    <3> DEFINE places == {i \in DOMAIN old : old[i] # id}
    <3>1. marks = Filtered(old, places) /\ places \in SUBSET (1 .. Len(old))
      BY <1>2, <2>2
    <3> HIDE DEF marks, places
    <3>2. /\ marks \in Seq(Nat)
          /\ \A n \in 1 .. Len(marks) : \E i \in places : marks[n] = old[i]
          /\ \A n, k \in 1 .. Len(marks) : n # k =>
                \E i, j \in places : i # j /\ marks[n] = old[i] /\ marks[k] = old[j]
      <4>1. old \in Seq(Nat)
        BY <1>2
      <4>2. marks \in Seq(Nat) /\ KeptOf(marks, old, places)
        BY <3>1, <4>1, FilteredIs
      <4>3. QED BY <4>2, Zenon DEF KeptOf
    <3>3. /\ \A i \in places : old[i] \in Ids(q)
          /\ \A i, j \in places : i # j => old[i] # old[j]
      BY <1>2, <3>1
    <3>4. \A n \in 1 .. Len(marks) : marks[n] \in Ids(q)
      BY <3>2, <3>3
    <3>5. ASSUME NEW n \in 1 .. Len(marks), NEW k \in 1 .. Len(marks), n # k
          PROVE  marks[n] # marks[k]
      <4>1. PICK i \in places, j \in places : i # j /\ marks[n] = old[i] /\ marks[k] = old[j]
        BY <3>2, <3>5
      <4>2. QED BY <3>3, <4>1
    <3>6. QED BY <2>2, <3>2, <3>4, <3>5
  <2>3. CASE q.kind # "single" /\ id \notin ToSet(old)
    <3>1. marks = Append(old, id) /\ \A i \in 1 .. Len(old) : old[i] # id
      BY <1>2, <2>3 DEF ToSet
    <3> HIDE DEF marks
    <3>2. /\ marks \in Seq(Nat) /\ Len(marks) = Len(old) + 1
          /\ \A i \in 1 .. Len(old) : marks[i] = old[i]
      BY <1>1, <1>2, <3>1, AppendProperties
    <3>3. marks[Len(old) + 1] = id
      BY <1>1, <1>2, <3>1, AppendProperties
    <3>4. QED BY <1>1, <1>2, <2>3, <3>1, <3>2, <3>3
  <2>4. QED BY <2>1, <2>2, <2>3
<1> HIDE DEF marks
<1>5. CardOK(draft')
  BY <1>1, <1>2, <1>3, <1>4, Marked
<1>6. QED BY <1>5 DEF CardOK, Ids

LEMMA WriteOptionKeeps ==
  ASSUME CardOK(draft), NEW id \in Nat, NEW blank \in BOOLEAN, WriteOption(id, blank)
  PROVE  CardOK(draft)'
<1> SUFFICES ASSUME NEW q, q = draft PROVE CardOK(draft)'
  OBVIOUS
<1>1. CardOK(q)
  OBVIOUS
<1>2. /\ q \in Card /\ q.made \in Nat /\ q.options \in Seq(Option)
      /\ Len(q.options) \in 0 .. MaxOptions /\ DOMAIN q.options = 1 .. Len(q.options)
      /\ \A i \in 1 .. Len(q.options) : q.options[i] \in Option
  BY <1>1, CardShape
<1> DEFINE options == [i \in DOMAIN q.options |-> IF q.options[i].id = id
                         THEN [q.options[i] EXCEPT !.blank = blank] ELSE q.options[i]]
<1>3. draft' = [q EXCEPT !.options = options, !.made = q.made]
  BY <1>2 DEF WriteOption, Card
<1>4. \A i \in 1 .. Len(q.options) :
         options[i] \in Option /\ options[i].id = q.options[i].id
  BY <1>2 DEF Option
<1>5. options \in [1 .. Len(q.options) -> Option]
  BY <1>2, <1>4
<1> HIDE DEF options
<1>6. /\ options \in Seq(Option) /\ Len(options) = Len(q.options)
      /\ Len(q.options) \in Nat /\ Len(q.options) <= MaxOptions
  <2>1. Len(q.options) \in Nat /\ Len(q.options) <= MaxOptions
    BY <1>2, LimitsAssumption
  <2>2. QED BY <1>5, <2>1
<1>7. /\ \A i \in 1 .. Len(q.options) : q.options[i].id <= q.made
      /\ \A i, j \in 1 .. Len(q.options) : q.options[i].id = q.options[j].id => i = j
      /\ \A i \in DOMAIN q.correctOptionIds : \E j \in 1 .. Len(q.options) :
            q.options[j].id = q.correctOptionIds[i]
  BY <1>1, <1>2, Distinct
<1>8. /\ \A i \in 1 .. Len(options) : options[i].id <= q.made
      /\ \A i, j \in 1 .. Len(options) : options[i].id = options[j].id => i = j
      /\ Len(options) <= MaxOptions
  BY <1>4, <1>6, <1>7
<1>9. \A i \in DOMAIN q.correctOptionIds : \E j \in 1 .. Len(options) :
            options[j].id = q.correctOptionIds[i]
  BY <1>4, <1>6, <1>7
<1>10. q.made \in Nat /\ Fit(q, options, q.made)
  BY <1>2, <1>8, <1>9 DEF Fit
<1>11. CardOK(draft')
  BY <1>1, <1>3, <1>6, <1>10, Refitted
<1>12. QED BY <1>11 DEF CardOK, Ids

LEMMA AddOptionKeeps ==
  ASSUME CardOK(draft), AddOption PROVE CardOK(draft)'
<1> SUFFICES ASSUME NEW q, q = draft, NEW made, made = q.made + 1 PROVE CardOK(draft)'
  OBVIOUS
<1>1. CardOK(q)
  OBVIOUS
<1>2. /\ q \in Card /\ q.made \in Nat /\ q.options \in Seq(Option)
      /\ Len(q.options) \in 0 .. MaxOptions /\ DOMAIN q.options = 1 .. Len(q.options)
      /\ \A i \in 1 .. Len(q.options) : q.options[i] \in Option
  BY <1>1, CardShape
<1> DEFINE new == [id |-> made, blank |-> TRUE]
           options == Append(q.options, new)
           n == Len(q.options)
<1>3. draft' = [q EXCEPT !.options = options, !.made = made] /\ n < MaxOptions
  BY <1>2 DEF AddOption, Card
<1>4. new \in Option /\ new.id = made /\ made \in Nat /\ made > q.made
  BY <1>2 DEF Option
<1> HIDE DEF new
<1>5. /\ options \in Seq(Option) /\ Len(options) = n + 1
      /\ \A i \in 1 .. n : options[i] = q.options[i]
      /\ options[n + 1] = new
  BY <1>2, <1>4, AppendProperties
<1> HIDE DEF options
<1>6. /\ \A i \in 1 .. n : q.options[i].id \in Nat /\ q.options[i].id <= q.made
      /\ \A i, j \in 1 .. n : q.options[i].id = q.options[j].id => i = j
      /\ \A i \in DOMAIN q.correctOptionIds : \E j \in 1 .. n :
            q.options[j].id = q.correctOptionIds[i]
  BY <1>1, <1>2, Distinct
<1>7. n \in Nat /\ Len(options) <= MaxOptions /\ MaxOptions \in Nat
  BY <1>2, <1>3, <1>5, LimitsAssumption
<1> HIDE DEF n
<1>8. \A i \in 1 .. Len(options) : options[i].id <= made
  BY <1>2, <1>4, <1>5, <1>6, <1>7
<1>9. \A i, j \in 1 .. Len(options) : options[i].id = options[j].id => i = j
  <2> SUFFICES ASSUME NEW i \in 1 .. n + 1, NEW j \in 1 .. n + 1, options[i].id = options[j].id
               PROVE  i = j
    BY <1>5
  <2>1. CASE i \in 1 .. n /\ j \in 1 .. n
    BY <1>5, <1>6, <2>1
  <2>2. CASE i = n + 1 /\ j \in 1 .. n
    BY <1>2, <1>4, <1>5, <1>6, <1>7, <2>2
  <2>3. CASE j = n + 1 /\ i \in 1 .. n
    BY <1>2, <1>4, <1>5, <1>6, <1>7, <2>3
  <2>4. QED BY <1>7, <2>1, <2>2, <2>3
<1>10. \A i \in DOMAIN q.correctOptionIds : \E j \in 1 .. Len(options) :
            options[j].id = q.correctOptionIds[i]
  BY <1>5, <1>6, <1>7
<1>11. Fit(q, options, made)
  BY <1>7, <1>8, <1>9, <1>10 DEF Fit
<1>12. CardOK(draft')
  BY <1>1, <1>3, <1>4, <1>5, <1>11, Refitted
<1>13. QED BY <1>12 DEF CardOK, Ids

LEMMA RemoveOptionKeeps ==
  ASSUME CardOK(draft), NEW id \in Nat, RemoveOption(id) PROVE CardOK(draft)'
<1> SUFFICES ASSUME NEW q, q = draft, NEW list, list = q.options,
                    NEW old, old = q.correctOptionIds
             PROVE  CardOK(draft)'
  OBVIOUS
<1>1. CardOK(q)
  OBVIOUS
<1>2. /\ q \in Card /\ q.kind \in Kinds /\ q.made \in Nat
      /\ list \in Seq(Option) /\ Len(list) \in 0 .. MaxOptions /\ DOMAIN list = 1 .. Len(list)
      /\ old \in Seq(Nat) /\ Len(old) \in Nat /\ DOMAIN old = 1 .. Len(old)
      /\ \A i \in 1 .. Len(old) : old[i] \in Ids(q)
      /\ \A i, j \in 1 .. Len(old) : old[i] = old[j] => i = j
      /\ q.kind = "single" => Len(old) <= 1
  BY <1>1, CardShape DEF CardOK
<1>3. /\ \A i \in 1 .. Len(list) : list[i].id <= q.made
      /\ \A i, j \in 1 .. Len(list) : list[i].id = list[j].id => i = j
      /\ \A i \in 1 .. Len(old) : \E j \in 1 .. Len(list) : list[j].id = old[i]
  <2>1. DOMAIN old = 1 .. Len(old)
    BY <1>2
  <2>2. /\ \A i \in 1 .. Len(q.options) : q.options[i].id <= q.made
        /\ \A i, j \in 1 .. Len(q.options) : q.options[i].id = q.options[j].id => i = j
        /\ \A i \in DOMAIN q.correctOptionIds : \E j \in 1 .. Len(q.options) :
              q.options[j].id = q.correctOptionIds[i]
    BY <1>1, Distinct
  <2>3. QED BY <2>1, <2>2
<1> DEFINE others == {i \in DOMAIN list : list[i].id # id}
           places == {i \in DOMAIN old : old[i] # id}
           options == Filtered(list, others)
           marks == Filtered(old, places)
           r == [q EXCEPT !.kind = q.kind, !.correctOptionIds = marks]
<1>4. draft' = [r EXCEPT !.options = options, !.made = q.made]
  BY <1>2 DEF RemoveOption, Card
<1>5. r.correctOptionIds = marks
  BY <1>2 DEF Card
<1>6. others \in SUBSET (1 .. Len(list)) /\ places \in SUBSET (1 .. Len(old))
  BY <1>2
<1>7. /\ \A i \in others : list[i].id # id
      /\ \A i \in 1 .. Len(list) : list[i].id # id => i \in others
      /\ \A i \in places : old[i] # id
  BY <1>2
<1> HIDE DEF others, places
<1>8. options \in Seq(Option) /\ KeptOf(options, list, others)
  BY <1>2, <1>6, FilteredIs
<1>9. marks \in Seq(Nat) /\ KeptOf(marks, old, places)
  <2>1. old \in Seq(Nat)
    BY <1>2
  <2>2. QED BY <1>6, <2>1, FilteredIs
<1> HIDE DEF options, marks
<1>10. /\ Len(marks) <= Len(old)
       /\ \A n \in 1 .. Len(marks) : \E i \in places : marks[n] = old[i]
       /\ \A n, k \in 1 .. Len(marks) : n # k =>
             \E i, j \in places : i # j /\ marks[n] = old[i] /\ marks[k] = old[j]
  BY <1>9, Zenon DEF KeptOf
<1>11. /\ Len(options) <= Len(list)
       /\ \A n \in 1 .. Len(options) : \E i \in others : options[n] = list[i]
       /\ \A n, k \in 1 .. Len(options) : n # k =>
             \E i, j \in others : i # j /\ options[n] = list[i] /\ options[k] = list[j]
       /\ \A i \in others : \E n \in 1 .. Len(options) : options[n] = list[i]
  BY <1>8, Zenon DEF KeptOf
<1>12. CardOK(r)
  <2>1. /\ \A i \in places : old[i] \in Ids(q)
        /\ \A i, j \in places : i # j => old[i] # old[j]
    BY <1>2, <1>6
  <2>2. \A n \in 1 .. Len(marks) : marks[n] \in Ids(q)
    BY <1>10, <2>1
  <2>3. ASSUME NEW n \in 1 .. Len(marks), NEW k \in 1 .. Len(marks), n # k
        PROVE  marks[n] # marks[k]
    <3>1. PICK i \in places, j \in places : i # j /\ marks[n] = old[i] /\ marks[k] = old[j]
      BY <1>10, <2>3
    <3>2. QED BY <2>1, <3>1
  <2>4. q.kind = "single" => Len(marks) <= 1
    <3>1. Len(marks) \in Nat
      BY <1>9, LenProperties
    <3>2. QED BY <1>2, <1>10, <3>1
  <2>5. QED BY <1>1, <1>2, <1>9, <2>2, <2>3, <2>4, Marked
<1> HIDE DEF r
<1>13. Fit(r, options, q.made)
  <2>1. /\ \A i \in others : list[i].id <= q.made
        /\ \A i, j \in others : i # j => list[i].id # list[j].id
    BY <1>3, <1>6
  <2>2. \A n \in 1 .. Len(options) : options[n].id <= q.made
    BY <1>11, <2>1
  <2>3. \A n, k \in 1 .. Len(options) : options[n].id = options[k].id => n = k
    <3> SUFFICES ASSUME NEW n \in 1 .. Len(options), NEW k \in 1 .. Len(options), n # k
                 PROVE  options[n].id # options[k].id
      OBVIOUS
    <3>1. PICK i \in others, j \in others :
             i # j /\ options[n] = list[i] /\ options[k] = list[j]
      BY <1>11
    <3>2. QED BY <2>1, <3>1
  <2>4. ASSUME NEW n \in DOMAIN r.correctOptionIds
        PROVE  \E k \in 1 .. Len(options) : options[k].id = r.correctOptionIds[n]
    <3>1. n \in 1 .. Len(marks)
      BY <1>5, <1>9, LenProperties
    <3>2. PICK i \in places : marks[n] = old[i]
      BY <1>10, <3>1
    <3>3. PICK j \in 1 .. Len(list) : list[j].id = old[i]
      BY <1>3, <1>6, <3>2
    <3>4. j \in others
      BY <1>7, <3>2, <3>3
    <3>5. PICK k \in 1 .. Len(options) : options[k] = list[j]
      BY <1>11, <3>4
    <3>6. QED BY <1>5, <3>2, <3>3, <3>5
  <2>5. Len(options) <= MaxOptions
    <3>1. Len(options) \in Nat
      BY <1>8, LenProperties
    <3>2. QED BY <1>2, <1>11, <3>1, LimitsAssumption
  <2>6. QED BY <2>4, <2>5, <2>2, <2>3 DEF Fit
<1>14. q.made \in Nat
  BY <1>2
<1>15. CardOK(draft')
  BY <1>4, <1>8, <1>12, <1>13, <1>14, Refitted
<1>16. QED BY <1>15 DEF CardOK, Ids

LEMMA WritePromptKeeps ==
  ASSUME CardOK(draft), NEW blank \in BOOLEAN, WritePrompt(blank) PROVE CardOK(draft)'
<1>1. draft \in Card
  BY DEF CardOK
<1>2. /\ draft' \in Card /\ draft'.options = draft.options /\ draft'.made = draft.made
      /\ draft'.kind = draft.kind /\ draft'.correctOptionIds = draft.correctOptionIds
  BY <1>1 DEF WritePrompt, Card
<1>3. QED BY <1>2 DEF CardOK, Ids

LEMMA SetPointsKeeps ==
  ASSUME CardOK(draft), NEW written \in Int, SetPoints(written) PROVE CardOK(draft)'
<1> DEFINE n == IF written = 0 THEN 1 ELSE written
           points == IF n < MinPoints THEN MinPoints ELSE IF n > MaxPoints THEN MaxPoints ELSE n
<1>1. draft \in Card
  BY DEF CardOK
<1>2. points \in MinPoints .. MaxPoints
  BY LimitsAssumption
<1>3. draft' = [draft EXCEPT !.points = points]
  BY DEF SetPoints
<1> HIDE DEF points
<1>4. /\ draft' \in Card /\ draft'.options = draft.options /\ draft'.made = draft.made
      /\ draft'.kind = draft.kind /\ draft'.correctOptionIds = draft.correctOptionIds
  BY <1>1, <1>2, <1>3 DEF Card
<1>5. QED BY <1>4 DEF CardOK, Ids

-----------------------------------------------------------------------------
(* What the server makes of a card that is right *)

\* A question has no more right options than options.
LEMMA NoMoreMarks ==
  ASSUME NEW q, CardOK(q) PROVE Len(q.correctOptionIds) <= Len(q.options)
<1> SUFFICES ASSUME NEW n, n = Len(q.correctOptionIds), NEW m, m = Len(q.options)
             PROVE  n <= m
  OBVIOUS
<1> DEFINE place == [i \in 1 .. n |-> CHOOSE j \in 1 .. m : q.options[j].id = q.correctOptionIds[i]]
<1>1. n \in Nat /\ m \in Nat /\ DOMAIN q.correctOptionIds = 1 .. n
  BY CardShape, LimitsAssumption
<1>2. \A i \in 1 .. n : \E j \in 1 .. m : q.options[j].id = q.correctOptionIds[i]
  BY <1>1, Distinct
<1>3. \A i \in 1 .. n : place[i] \in 1 .. m /\ q.options[place[i]].id = q.correctOptionIds[i]
  BY <1>2
<1>4. \A i, j \in 1 .. n : q.correctOptionIds[i] = q.correctOptionIds[j] => i = j
  BY <1>1 DEF CardOK
<1>5. place \in [1 .. n -> 1 .. m]
  BY <1>3
<1> HIDE DEF place
<1>6. \A i, j \in 1 .. n : place[i] = place[j] => i = j
  <2> SUFFICES ASSUME NEW i \in 1 .. n, NEW j \in 1 .. n, place[i] = place[j]
               PROVE  i = j
    OBVIOUS
  <2>1. q.correctOptionIds[i] = q.correctOptionIds[j]
    BY <1>3
  <2>2. QED BY <1>4, <2>1
<1>7. place \in Injection(1 .. n, 1 .. m)
  BY <1>5, <1>6 DEF Injection, IsInjective
<1>8. /\ IsFiniteSet(1 .. m) /\ Cardinality(1 .. m) = m
      /\ IsFiniteSet(1 .. n) /\ Cardinality(1 .. n) = n
  BY <1>1, UpTo
<1>9. QED BY <1>7, <1>8, FS_Injection

LEMMA IsTaken ==
  ASSUME NEW q, CardOK(q) PROVE TakesSave(q)
<1>1. Len(q.correctOptionIds) <= MaxOptions /\ Len(q.options) <= MaxOptions
  <2>1. /\ Len(q.options) \in Nat /\ Len(q.options) <= MaxOptions
        /\ Len(q.correctOptionIds) \in Nat /\ MaxOptions \in Nat
    BY CardShape, LimitsAssumption
  <2>2. QED BY <2>1, NoMoreMarks
<1>2. q.points \in MinPoints .. MaxPoints
  BY DEF CardOK, Card
<1>3. QED BY <1>1, <1>2 DEF CardOK, TakesSave

LEMMA IsStoredAsShown ==
  ASSUME NEW q, CardOK(q) PROVE Stored(q) = q
<1> SUFFICES ASSUME NEW old, old = q.correctOptionIds PROVE Stored(q) = q
  OBVIOUS
<1> DEFINE once == [i \in DOMAIN old |-> \A j \in 1 .. i - 1 : old[j] # old[i]]
           kept == {i \in DOMAIN once : once[i] /\ old[i] \in Ids(q)}
<1>1. /\ q \in Card /\ old \in Seq(Nat) /\ Len(old) \in Nat /\ DOMAIN old = 1 .. Len(old)
      /\ \A i \in 1 .. Len(old) : old[i] \in Ids(q)
      /\ \A i, j \in 1 .. Len(old) : old[i] = old[j] => i = j
  BY CardShape DEF CardOK
<1>2. ASSUME NEW i \in 1 .. Len(old) PROVE once[i]
  <2>1. \A j \in 1 .. i - 1 : j \in 1 .. Len(old) /\ j # i
    BY <1>1
  <2>2. \A j \in 1 .. i - 1 : old[j] # old[i]
    BY <1>1, <2>1
  <2>3. QED BY <1>1, <2>2
<1>3. kept = 1 .. Len(old)
  BY <1>1, <1>2
<1>4. Stored(q) = [q EXCEPT !.correctOptionIds = Filtered(old, kept)]
  BY DEF Stored
<1> HIDE DEF kept
<1>5. Filtered(old, kept) = old
  <2> SUFFICES ASSUME NEW left, left = Filtered(old, kept) PROVE left = old
    OBVIOUS
  <2>1. old \in Seq(Nat) /\ kept \in SUBSET (1 .. Len(old))
    BY <1>1, <1>3
  <2>2. KeptOf(left, old, kept)
    BY <2>1, FilteredIs
  <2>3. QED BY <1>3, <2>2 DEF KeptOf
<1>6. QED BY <1>1, <1>4, <1>5 DEF Card

LEMMA IssueIsTheChecks ==
  ASSUME NEW q, CardOK(q) PROVE (IssueOf(q) = "none") <=> PassesPublishChecks(q)
<1>1. Len(q.options) \in Nat /\ Len(q.options) <= MaxOptions /\ MaxOptions \in Nat /\ MinOptions \in Nat
  BY CardShape, LimitsAssumption
<1>2. Len(q.options) \in MinOptions .. MaxOptions <=> ~(Len(q.options) < MinOptions)
  BY <1>1
<1>3. q.kind = "single" => Len(q.correctOptionIds) <= 1
  BY DEF CardOK
<1>4. \A i \in DOMAIN q.options : q.options[i].blank \in BOOLEAN
  BY CardShape DEF Option
<1>5. QED BY <1>2, <1>3, <1>4 DEF IssueOf, PassesPublishChecks

LEMMA SomePickIsRight ==
  ASSUME NEW q, CardOK(q)
  PROVE  \E picked \in Takeable(q) : IsCorrect(picked, q.correctOptionIds)
<1> SUFFICES ASSUME NEW old, old = q.correctOptionIds
             PROVE  old \in Takeable(q) /\ IsCorrect(old, old)
  OBVIOUS
<1>1. /\ old \in Seq(Nat) /\ Len(old) \in Nat /\ DOMAIN old = 1 .. Len(old)
      /\ \A i \in 1 .. Len(old) : old[i] \in Ids(q)
      /\ \A i, j \in 1 .. Len(old) : old[i] = old[j] => i = j
  BY CardShape DEF CardOK
<1>2. IsCorrect(old, old)
  BY <1>1 DEF IsCorrect, ToSet
<1> DEFINE bound == IF q.kind = "single" THEN 1 ELSE MaxOptions
<1>3. Len(old) \in 0 .. bound
  <2>1. /\ Len(q.options) \in Nat /\ Len(q.options) <= MaxOptions /\ MaxOptions \in Nat
    BY CardShape, LimitsAssumption
  <2>2. q.kind = "single" => Len(old) <= 1
    BY DEF CardOK
  <2>3. QED BY <1>1, <2>1, <2>2, NoMoreMarks
<1>4. old \in [1 .. Len(old) -> Ids(q)]
  BY <1>1
<1> HIDE DEF bound
<1>5. old \in UNION {[1 .. m -> Ids(q)] : m \in 0 .. bound}
  BY <1>3, <1>4, Zenon
<1>6. old \in SeqOf(Ids(q), bound)
  BY <1>5 DEF SeqOf
<1>7. IsInjective(old)
  BY <1>1 DEF IsInjective
<1>8. QED BY <1>2, <1>6, <1>7 DEF Takeable, bound

\* A card that is right is the question the server makes of it.
LEMMA RightIsQuestion ==
  ASSUME CardOK(draft) PROVE CardsAreQuestions
<1>1. TakesSave(draft) /\ Stored(draft) = draft
  BY IsTaken, IsStoredAsShown
<1>2. (IssueOf(draft) = "none") <=> PassesPublishChecks(Stored(draft))
  BY <1>1, IssueIsTheChecks
<1>3. \E picked \in Takeable(draft) : IsCorrect(picked, draft.correctOptionIds)
  BY SomePickIsRight
<1>4. QED BY <1>1, <1>2, <1>3 DEF CardsAreQuestions

\* For any limits: whatever is done to a card in any order, its options have ids of
\* their own, and its marks are on its options, once each, one of a single choice
\* (QuestionEditor).
THEOREM CardsStayRight == FormSpec => []CardOK(draft)
<1>1. FormInit => CardOK(draft)
  BY NewIsRight DEF FormInit
<1>2. CardOK(draft) /\ [FormNext]_draft => CardOK(draft)'
  <2> SUFFICES ASSUME CardOK(draft), [FormNext]_draft PROVE CardOK(draft)'
    OBVIOUS
  <2>1. ASSUME NEW kind \in Kinds, SetKind(kind) PROVE CardOK(draft)'
    BY <2>1, SetKindKeeps
  <2>2. CASE AddOption
    BY <2>2, AddOptionKeeps
  <2>3. ASSUME NEW id \in 1 .. MaxOptionId, Mark(id) PROVE CardOK(draft)'
    <3>1. id \in Nat
      BY LimitsAssumption
    <3>2. QED BY <2>3, <3>1, MarkKeeps
  <2>4. ASSUME NEW id \in 1 .. MaxOptionId, RemoveOption(id) PROVE CardOK(draft)'
    <3>1. id \in Nat
      BY LimitsAssumption
    <3>2. QED BY <2>4, <3>1, RemoveOptionKeeps
  <2>5. ASSUME NEW id \in 1 .. MaxOptionId, NEW blank \in BOOLEAN, WriteOption(id, blank)
        PROVE  CardOK(draft)'
    <3>1. id \in Nat
      BY LimitsAssumption
    <3>2. QED BY <2>5, <3>1, WriteOptionKeeps
  <2>6. ASSUME NEW blank \in BOOLEAN, WritePrompt(blank) PROVE CardOK(draft)'
    BY <2>6, WritePromptKeeps
  <2>7. ASSUME NEW written \in MinPoints - 2 .. MaxPoints + 1, SetPoints(written)
        PROVE  CardOK(draft)'
    <3>1. written \in Int
      BY LimitsAssumption
    <3>2. QED BY <2>7, <3>1, SetPointsKeeps
  <2>8. CASE UNCHANGED draft
    BY <2>8 DEF CardOK, Ids
  <2>9. QED BY <2>1, <2>2, <2>3, <2>4, <2>5, <2>6, <2>7, <2>8 DEF FormNext
<1>3. QED BY <1>1, <1>2, PTL DEF FormSpec

\* For any limits: the server takes every card, stores it as it is shown, refuses to
\* publish those that show an issue and no other, and such a question can be
\* answered right (ContestEditor.tsx, QuestionEditor and issueOf; saveQuestions;
\* publish-checks.ts; saveAnswer).
THEOREM CardsHold == FormSpec => []CardsAreQuestions
<1>1. CardOK(draft) => CardsAreQuestions
  BY RightIsQuestion
<1>2. QED BY <1>1, CardsStayRight, PTL

-----------------------------------------------------------------------------
(* Pages of a list *)

Cursors == Dates \X Items
Page == [items : Seq(Items), next : Cursors \cup {NoMore}]

Requests == [on : BOOLEAN, more : BOOLEAN, pages : Seq(Page), want : Nat, moved : SUBSET Items]

\* The pages that a series has read are those of a list that goes on.
Series(list, stayed) ==
    list # <<>> => ListsInOrder(list, stayed)

ListTyped ==
    /\ direction \in {1, -1}
    /\ at \in [Items -> {Absent} \cup {<<d>> : d \in Dates}]
    /\ pages \in Seq(Page) /\ moved \in SUBSET Items
    /\ loading \in Requests

ListInv ==
    /\ ListTyped
    /\ Series(pages, Here \ moved)
    /\ Series(loading.pages, Here \ loading.moved)
    /\ loading.on /\ loading.pages # <<>> => Last(loading.pages).next # NoMore

-----------------------------------------------------------------------------
(* The order of a list *)

\* In a strict order, how many are before one tells them all apart.
LEMMA OrderRanks ==
  ASSUME NEW S, IsFiniteSet(S), NEW before \in [S -> SUBSET S],
         \A i \in S : i \notin before[i],
         \A i, j \in S : i # j => \/ i \in before[j] /\ before[i] \subseteq before[j]
                                  \/ j \in before[i] /\ before[j] \subseteq before[i]
  PROVE  /\ Cardinality(S) \in Nat
         /\ \A i \in S : Cardinality(before[i]) \in 0 .. Cardinality(S) - 1
         /\ \A i, j \in S : i \in before[j] => Cardinality(before[i]) < Cardinality(before[j])
         /\ \A n \in 1 .. Cardinality(S) : \E i \in S : Cardinality(before[i]) = n - 1
<1> DEFINE n == Cardinality(S)
           rank == [i \in S |-> Cardinality(before[i]) + 1]
<1>1. n \in Nat
  BY FS_CardinalityType
<1>2. ASSUME NEW i \in S
      PROVE  IsFiniteSet(before[i]) /\ Cardinality(before[i]) \in Nat /\ Cardinality(before[i]) < n
  <2>1. before[i] \in SUBSET S /\ before[i] # S
    OBVIOUS
  <2>2. IsFiniteSet(before[i]) /\ Cardinality(before[i]) <= n
        /\ (n = Cardinality(before[i]) <=> S = before[i])
    BY <2>1, FS_Subset
  <2>3. Cardinality(before[i]) \in Nat
    BY <2>2, FS_CardinalityType
  <2> HIDE DEF n
  <2>4. QED BY <1>1, <2>1, <2>2, <2>3
<1>3. ASSUME NEW i \in S, NEW j \in S, i \in before[j]
      PROVE  Cardinality(before[i]) < Cardinality(before[j])
  <2>1. before[i] \in SUBSET before[j] /\ before[i] # before[j]
    BY <1>3
  <2>2. Cardinality(before[i]) <= Cardinality(before[j])
        /\ Cardinality(before[i]) # Cardinality(before[j])
    BY <1>2, <2>1, FS_Subset
  <2>3. QED BY <1>2, <2>2
<1> HIDE DEF n
<1>4. \A i \in S : Cardinality(before[i]) \in 0 .. n - 1
  BY <1>1, <1>2
<1>5. rank \in [S -> 1 .. n]
  BY <1>1, <1>4
<1>6. \A i, j \in S : rank[i] = rank[j] => i = j
  BY <1>2, <1>3
<1>7. rank \in Injection(S, 1 .. n)
  BY <1>5, <1>6 DEF Injection, IsInjective
<1>8. IsFiniteSet(1 .. n) /\ Cardinality(1 .. n) = n
  BY <1>1, UpTo
<1>9. rank \in Surjection(S, 1 .. n)
  BY <1>7, <1>8, FS_Injection DEF n
<1>10. \A k \in 1 .. n : \E i \in S : Cardinality(before[i]) = k - 1
  <2> SUFFICES ASSUME NEW k \in 1 .. n PROVE \E i \in S : Cardinality(before[i]) = k - 1
    OBVIOUS
  <2>1. PICK i \in S : rank[i] = k
    BY <1>9 DEF Surjection
  <2>2. QED BY <1>1, <1>2, <2>1
<1>11. QED BY <1>1, <1>3, <1>4, <1>10 DEF n

LEMMA Turned ==
  ASSUME direction \in {1, -1}, NEW x \in Int, NEW y \in Int
  PROVE  /\ direction * x < direction * y <=> IF direction = 1 THEN x < y ELSE y < x
         /\ direction * x > direction * y <=> IF direction = 1 THEN x > y ELSE y > x
<1>1. CASE direction = 1
  BY <1>1
<1>2. CASE direction = -1
  BY <1>2
<1>3. QED BY <1>1, <1>2

LEMMA Dated ==
  ASSUME ListTyped, NEW i \in Here
  PROVE  /\ i \in Items /\ i \in Int /\ at[i][1] \in Dates /\ at[i][1] \in Int
         /\ CursorOf(i) \in Cursors /\ CursorOf(i) # NoMore
         /\ CursorOf(i)[1] = at[i][1] /\ CursorOf(i)[2] = i
<1>1. i \in Items /\ at[i] # Absent
  BY DEF Here
<1>2. at[i] \in {<<d>> : d \in Dates}
  BY <1>1 DEF ListTyped
<1>3. at[i][1] \in Dates
  BY <1>2
<1>4. QED BY <1>1, <1>3, PagingAssumption DEF CursorOf, Cursors, NoMore

\* The order of find is strict, and has any two documents one way or the other.
LEMMA FindOrder ==
  ASSUME ListTyped
  PROVE  /\ \A i \in Here : ~Precedes(i, i)
         /\ \A i, j \in Here : i # j => Precedes(i, j) \/ Precedes(j, i)
         /\ \A i, j, k \in Here : Precedes(i, j) /\ Precedes(j, k) => Precedes(i, k)
<1>1. direction \in {1, -1}
  BY DEF ListTyped
<1>2. \A i, j \in Here : Precedes(i, j) <=>
         IF direction = 1 THEN at[i][1] < at[j][1] \/ (at[i][1] = at[j][1] /\ i < j)
                          ELSE at[j][1] < at[i][1] \/ (at[i][1] = at[j][1] /\ j < i)
  <2> SUFFICES ASSUME NEW i \in Here, NEW j \in Here PROVE
         Precedes(i, j) <=>
         IF direction = 1 THEN at[i][1] < at[j][1] \/ (at[i][1] = at[j][1] /\ i < j)
                          ELSE at[j][1] < at[i][1] \/ (at[i][1] = at[j][1] /\ j < i)
    OBVIOUS
  <2>1. i \in Int /\ j \in Int /\ at[i][1] \in Int /\ at[j][1] \in Int
    BY Dated
  <2>2. QED BY <1>1, <2>1, Turned DEF Precedes
<1>3. \A i \in Here : i \in Int /\ at[i][1] \in Int
  BY Dated
<1>4. CASE direction = 1
  <2>1. \A i, j \in Here : Precedes(i, j) <=> at[i][1] < at[j][1] \/ (at[i][1] = at[j][1] /\ i < j)
    BY <1>2, <1>4
  <2>2. QED BY <1>3, <2>1
<1>5. CASE direction # 1
  <2>1. \A i, j \in Here : Precedes(i, j) <=> at[j][1] < at[i][1] \/ (at[i][1] = at[j][1] /\ j < i)
    BY <1>2, <1>5
  <2>2. QED BY <1>3, <2>1
<1>6. QED BY <1>4, <1>5

\* What is after a bookmark comes after its document, and so does all that follows.
LEMMA AfterIs ==
  ASSUME ListTyped, NEW i \in Here, NEW j \in Here
  PROVE  /\ After(i, CursorOf(j)) <=> Precedes(j, i)
         /\ \A c \in Cursors : After(i, c) /\ Precedes(i, j) => After(j, c)
         /\ \A c \in Cursors : ~After(i, c) /\ After(j, c) => Precedes(i, j)
<1>1. /\ direction \in {1, -1}
      /\ i \in Int /\ j \in Int /\ at[i][1] \in Int /\ at[j][1] \in Int
      /\ CursorOf(j)[1] = at[j][1] /\ CursorOf(j)[2] = j
  BY Dated DEF ListTyped
<1>2. \A c \in Cursors : c[1] \in Int /\ c[2] \in Int
  BY PagingAssumption DEF Cursors
<1>3. \A c \in Cursors : /\ direction * at[i][1] > direction * c[1] <=>
                              IF direction = 1 THEN at[i][1] > c[1] ELSE c[1] > at[i][1]
                         /\ direction * i > direction * c[2] <=>
                              IF direction = 1 THEN i > c[2] ELSE c[2] > i
                         /\ direction * at[j][1] > direction * c[1] <=>
                              IF direction = 1 THEN at[j][1] > c[1] ELSE c[1] > at[j][1]
                         /\ direction * j > direction * c[2] <=>
                              IF direction = 1 THEN j > c[2] ELSE c[2] > j
  BY <1>1, <1>2, Turned
<1>4. /\ direction * at[i][1] < direction * at[j][1] <=>
            IF direction = 1 THEN at[i][1] < at[j][1] ELSE at[j][1] < at[i][1]
      /\ direction * i < direction * j <=> IF direction = 1 THEN i < j ELSE j < i
      /\ direction * at[j][1] < direction * at[i][1] <=>
            IF direction = 1 THEN at[j][1] < at[i][1] ELSE at[i][1] < at[j][1]
      /\ direction * j < direction * i <=> IF direction = 1 THEN j < i ELSE i < j
      /\ direction * at[i][1] > direction * at[j][1] <=>
            IF direction = 1 THEN at[i][1] > at[j][1] ELSE at[j][1] > at[i][1]
      /\ direction * i > direction * j <=> IF direction = 1 THEN i > j ELSE j > i
  BY <1>1, Turned
<1>5. /\ Precedes(i, j) <=>
            IF direction = 1 THEN at[i][1] < at[j][1] \/ (at[i][1] = at[j][1] /\ i < j)
                             ELSE at[j][1] < at[i][1] \/ (at[i][1] = at[j][1] /\ j < i)
      /\ Precedes(j, i) <=>
            IF direction = 1 THEN at[j][1] < at[i][1] \/ (at[i][1] = at[j][1] /\ j < i)
                             ELSE at[i][1] < at[j][1] \/ (at[i][1] = at[j][1] /\ i < j)
  BY <1>1, <1>4 DEF Precedes
<1>6. After(i, CursorOf(j)) <=>
            IF direction = 1 THEN at[i][1] > at[j][1] \/ (at[i][1] = at[j][1] /\ i > j)
                             ELSE at[j][1] > at[i][1] \/ (at[i][1] = at[j][1] /\ j > i)
  BY <1>1, <1>4 DEF After
<1>7. \A c \in Cursors :
         /\ After(i, c) <=> IF direction = 1
               THEN at[i][1] > c[1] \/ (at[i][1] = c[1] /\ i > c[2])
               ELSE c[1] > at[i][1] \/ (at[i][1] = c[1] /\ c[2] > i)
         /\ After(j, c) <=> IF direction = 1
               THEN at[j][1] > c[1] \/ (at[j][1] = c[1] /\ j > c[2])
               ELSE c[1] > at[j][1] \/ (at[j][1] = c[1] /\ c[2] > j)
  BY <1>3 DEF After
<1>8. After(i, CursorOf(j)) <=> Precedes(j, i)
  BY <1>1, <1>5, <1>6
<1>9. ASSUME NEW c \in Cursors
      PROVE  /\ After(i, c) /\ Precedes(i, j) => After(j, c)
             /\ ~After(i, c) /\ After(j, c) => Precedes(i, j)
  BY <1>1, <1>2, <1>5, <1>7
<1>10. QED BY <1>8, <1>9

\* These rows have each of the documents, and none after one that it precedes.
InFindOrder(rows, docs) ==
    /\ \A i \in docs : \E n \in 1 .. Len(rows) : rows[n] = i
    /\ \A n, k \in 1 .. Len(rows) : n < k => Precedes(rows[n], rows[k])

LEMMA InOrderIs ==
  ASSUME ListTyped, NEW docs \in SUBSET Here, NEW rows, rows = InOrder(docs)
  PROVE  rows \in Seq(docs) /\ Len(rows) \in Nat /\ InFindOrder(rows, docs)
<1> DEFINE prior(i) == {j \in docs : Precedes(j, i)}
           before == [i \in docs |-> prior(i)]
           c == Cardinality(docs)
<1>1. IsFiniteSet(docs)
  <2>1. docs \in SUBSET Items
    BY DEF Here
  <2>2. QED BY <2>1, PagingAssumption, FS_Subset
<1>2. \A i \in docs : i \in Here
  OBVIOUS
<1>3. \A i, j \in docs : i \in before[j] <=> Precedes(i, j)
  OBVIOUS
<1>4. before \in [docs -> SUBSET docs]
  OBVIOUS
<1>5. \A i \in docs : before[i] = prior(i)
  OBVIOUS
<1> HIDE DEF before, prior
<1>6. \A i \in docs : i \notin before[i]
  BY <1>2, <1>3, FindOrder
<1>7. ASSUME NEW i \in docs, NEW j \in docs, Precedes(i, j)
      PROVE  i \in before[j] /\ before[i] \subseteq before[j]
  <2>1. \A k \in docs : Precedes(k, i) => Precedes(k, j)
    BY <1>2, <1>7, FindOrder
  <2>2. QED BY <1>3, <1>4, <1>7, <2>1
<1>8. \A i, j \in docs : i # j => \/ i \in before[j] /\ before[i] \subseteq before[j]
                                  \/ j \in before[i] /\ before[j] \subseteq before[i]
  BY <1>2, <1>7, FindOrder
<1>9. /\ c \in Nat
      /\ \A i \in docs : Cardinality(before[i]) \in 0 .. c - 1
      /\ \A i, j \in docs : i \in before[j] => Cardinality(before[i]) < Cardinality(before[j])
      /\ \A n \in 1 .. c : \E i \in docs : Cardinality(before[i]) = n - 1
  BY <1>1, <1>4, <1>6, <1>8, OrderRanks
<1> HIDE DEF c
<1>10. rows = [n \in 1 .. c |-> CHOOSE i \in docs : Cardinality(prior(i)) = n - 1]
  BY DEF InOrder, prior, c
<1>11. \A n \in 1 .. c : rows[n] \in docs /\ Cardinality(before[rows[n]]) = n - 1
  BY <1>9, <1>10, <1>5
<1>12. rows \in [1 .. c -> docs]
  BY <1>10, <1>11
<1>13. rows \in Seq(docs) /\ Len(rows) = c
  BY <1>9, <1>12
<1>14. ASSUME NEW i \in docs, NEW j \in docs, Cardinality(before[i]) < Cardinality(before[j])
       PROVE  Precedes(i, j)
  <2>1. Cardinality(before[i]) \in Int /\ Cardinality(before[j]) \in Int
    BY <1>9
  <2>2. i # j /\ ~(j \in before[i])
    BY <1>9, <1>14, <2>1
  <2>3. QED BY <1>8, <1>3, <2>2
<1>15. ASSUME NEW n \in 1 .. c, NEW k \in 1 .. c, n < k PROVE Precedes(rows[n], rows[k])
  BY <1>9, <1>11, <1>14, <1>15
<1>16. ASSUME NEW i \in docs PROVE \E n \in 1 .. c : rows[n] = i
  <2>1. Cardinality(before[i]) \in 0 .. c - 1 /\ c \in Nat
    BY <1>9
  <2>2. PICK n \in 1 .. c : n = Cardinality(before[i]) + 1
    BY <2>1
  <2>3. /\ Cardinality(before[i]) \in Int /\ Cardinality(before[i]) = n - 1
        /\ rows[n] \in docs /\ Cardinality(before[rows[n]]) = n - 1
    BY <1>9, <1>11, <2>2
  <2>4. rows[n] \notin before[i] /\ i \notin before[rows[n]]
    BY <1>9, <2>3
  <2>5. rows[n] = i
    BY <1>8, <2>3, <2>4
  <2>6. QED BY <2>5
<1>17. InFindOrder(rows, docs)
  BY <1>13, <1>15, <1>16 DEF InFindOrder
<1>18. QED BY <1>9, <1>13, <1>17

-----------------------------------------------------------------------------
(* One page *)

\* The page has those of the documents that are not after the bookmark it leaves.
OnePage(page, docs) ==
    /\ \A n \in DOMAIN page.items : page.items[n] \in docs
    /\ \A n, k \in DOMAIN page.items : n < k => Precedes(page.items[n], page.items[k])
    /\ \A i \in docs : i \in ToSet(page.items)
                           <=> (page.next = NoMore \/ ~After(i, page.next))
    /\ page.next # NoMore => \E i \in docs : page.next = CursorOf(i)

LEMMA PageIs ==
  ASSUME ListTyped, NEW cursor \in Cursors \cup {NoMore},
         NEW page, page = PageAfter(cursor),
         NEW matching, matching = {i \in Here : cursor = NoMore \/ After(i, cursor)}
  PROVE  page \in Page /\ OnePage(page, matching)
<1>1. matching \in SUBSET Here
  OBVIOUS
<1>2. PICK rows : rows = InOrder(matching)
  OBVIOUS
<1>3. PICK n : n = Len(rows)
  OBVIOUS
<1>4. PICK m : m = IF n > Limit THEN Limit ELSE n
  OBVIOUS
<1>5. PICK items : items = SubSeq(rows, 1, m)
  OBVIOUS
<1>6. page = [items |-> items, next |-> IF n > Limit THEN CursorOf(Last(items)) ELSE NoMore]
  BY <1>2, <1>3, <1>4, <1>5 DEF PageAfter
<1>7. /\ rows \in Seq(matching) /\ n \in Nat
      /\ \A i \in matching : \E k \in 1 .. n : rows[k] = i
      /\ \A k, l \in 1 .. n : k < l => Precedes(rows[k], rows[l])
  <2>1. rows \in Seq(matching) /\ Len(rows) \in Nat /\ InFindOrder(rows, matching)
    BY <1>1, <1>2, InOrderIs
  <2>2. QED BY <1>3, <2>1 DEF InFindOrder
<1>8. \A k \in 1 .. n : rows[k] \in matching
  BY <1>7, <1>3, ElementOfSeq
<1>9. Limit \in Nat /\ Limit >= 1
  BY PagingAssumption
<1>10. m \in 0 .. n /\ (n > Limit => m = Limit /\ m >= 1) /\ (~(n > Limit) => m = n)
  BY <1>7, <1>9, <1>4
<1>11. /\ items \in Seq(matching) /\ Len(items) = m /\ DOMAIN items = 1 .. m
      /\ \A k \in 1 .. m : items[k] = rows[k]
  <2>1. m \in 1 - 1 .. Len(rows) /\ m \in Nat
    BY <1>7, <1>10, <1>3
  <2>2. items \in Seq(matching) /\ Len(items) = (IF 1 <= m THEN m - 1 + 1 ELSE 0)
        /\ \A k \in 1 .. m - 1 + 1 : items[k] = rows[1 + k - 1]
    BY <1>7, <1>8, <2>1, <1>3, <1>5, SubSeqProperties
  <2>3. Len(items) = m
    BY <2>1, <2>2
  <2>4. QED BY <2>1, <2>2, <2>3, LenProperties
<1>12. page.items = items /\ page.next = IF n > Limit THEN CursorOf(Last(items)) ELSE NoMore
  BY <1>6
<1>13. n > Limit => Last(items) = rows[Limit] /\ rows[Limit] \in matching /\ Limit \in 1 .. n
  BY <1>7, <1>8, <1>9, <1>10, <1>11 DEF Last
<1>14. \A i \in matching : i \in Here /\ i \in Items
  BY <1>1 DEF Here
<1>15. /\ n > Limit => page.next = CursorOf(rows[Limit]) /\ page.next \in Cursors
                        /\ page.next # NoMore
       /\ ~(n > Limit) => page.next = NoMore
  BY <1>12, <1>13, <1>14, Dated
<1>16. page \in Page
  <2>1. items \in [1 .. m -> matching]
    BY <1>11, LenProperties
  <2>2. items \in [1 .. m -> Items] /\ m \in Nat
    BY <1>7, <1>10, <1>14, <2>1
  <2>3. items \in Seq(Items)
    BY <2>2
  <2>4. page.next \in Cursors \cup {NoMore}
    BY <1>15
  <2>5. QED BY <1>6, <1>12, <2>3, <2>4 DEF Page
<1>17. DOMAIN page.items = 1 .. m /\ \A k \in 1 .. m : k \in 1 .. n /\ page.items[k] = rows[k]
  BY <1>7, <1>10, <1>11, <1>12
<1>18. /\ \A k \in DOMAIN page.items : page.items[k] \in matching
       /\ \A k, l \in DOMAIN page.items : k < l => Precedes(page.items[k], page.items[l])
  BY <1>7, <1>8, <1>17
<1>19. ASSUME NEW i \in matching
       PROVE  i \in ToSet(page.items) <=> (page.next = NoMore \/ ~After(i, page.next))
  <2>1. PICK k \in 1 .. n : rows[k] = i
    BY <1>7
  <2>2. \A l \in 1 .. n : rows[l] = i => l = k
    <3> SUFFICES ASSUME NEW l \in 1 .. n, rows[l] = i PROVE l = k
      OBVIOUS
    <3>1. ~Precedes(i, i)
      BY <1>14, FindOrder
    <3>2. ~(l < k) /\ ~(k < l)
      BY <1>7, <2>1, <3>1
    <3>3. QED BY <3>2
  <2>3. i \in ToSet(page.items) <=> k <= m
    <3>1. k <= m => k \in 1 .. m
      BY <1>10
    <3>2. ASSUME NEW l \in 1 .. m, rows[l] = i PROVE k <= m
      BY <1>10, <1>17, <2>2, <3>2
    <3>3. QED BY <1>17, <2>1, <3>1, <3>2 DEF ToSet
  <2>4. CASE ~(n > Limit)
    <3>1. m = n /\ k <= n /\ page.next = NoMore
      BY <1>7, <1>10, <1>15, <2>4
    <3>2. QED BY <2>3, <3>1
  <2>5. CASE n > Limit
    <3>1. /\ page.next = CursorOf(rows[Limit]) /\ page.next # NoMore /\ m = Limit
          /\ rows[Limit] \in Here /\ i \in Here
      BY <1>10, <1>13, <1>14, <1>15, <2>5
    <3>2. After(i, page.next) <=> Precedes(rows[Limit], i)
      BY <3>1, AfterIs
    <3>3. Precedes(rows[Limit], i) <=> Limit < k
      <4>1. Limit \in 1 .. n
        BY <1>13, <2>5
      <4>2. Limit < k => Precedes(rows[Limit], i)
        BY <1>7, <2>1, <4>1
      <4>3. k < Limit => Precedes(i, rows[Limit])
        BY <1>7, <2>1, <4>1
      <4>4. k = Limit => i = rows[Limit]
        BY <2>1
      <4>5. ~(Precedes(rows[Limit], i) /\ Precedes(i, rows[Limit])) /\ ~Precedes(i, i)
        BY <3>1, FindOrder
      <4>6. k \in Int /\ Limit \in Int
        BY <4>1
      <4>7. QED BY <4>2, <4>3, <4>4, <4>5, <4>6
    <3>4. k \in Int /\ Limit \in Int
      BY <1>9
    <3>5. QED BY <2>3, <3>1, <3>2, <3>3, <3>4
  <2>6. QED BY <2>4, <2>5
<1>20. page.next # NoMore => \E i \in matching : page.next = CursorOf(i)
  BY <1>13, <1>15
<1>21. OnePage(page, matching)
  BY <1>18, <1>19, <1>20, Zenon DEF OnePage
<1>22. QED BY <1>16, <1>21

\* The page after the last bookmark goes on where the pages left off.
LEMMA PageJoins ==
  ASSUME ListTyped, NEW list \in Seq(Page), NEW stayed \in SUBSET Here,
         Series(list, stayed), list # <<>> => Last(list).next # NoMore,
         NEW last, last = IF list = <<>> THEN NoMore ELSE Last(list).next,
         NEW page, page = PageAfter(last),
         NEW got, got = Append(list, page)
  PROVE  /\ got \in Seq(Page) /\ got # <<>> /\ Last(got) = page
         /\ ListsInOrder(got, stayed)
<1>1. PICK n : n = Len(list)
  OBVIOUS
<1>2. n \in Nat /\ DOMAIN list = 1 .. n /\ (list = <<>> <=> n = 0)
  BY <1>1, LenProperties, EmptySeq
<1>3. \A p \in 1 .. n : list[p] \in Page
  BY <1>1, ElementOfSeq
<1>4. list # <<>> => Last(list) = list[n] /\ Last(list).next \in Cursors
  <2>1. list # <<>> => Last(list) = list[n] /\ list[n] \in Page
    BY <1>1, <1>2, <1>3 DEF Last
  <2>2. QED BY <2>1 DEF Page
<1>5. last \in Cursors \cup {NoMore} /\ (list # <<>> => last \in Cursors /\ last # NoMore)
      /\ (list = <<>> => last = NoMore)
  BY <1>4
<1>6. PICK matching : matching = {i \in Here : last = NoMore \/ After(i, last)}
  OBVIOUS
<1>7. page \in Page /\ OnePage(page, matching)
  BY <1>5, <1>6, PageIs
<1>8. /\ got \in Seq(Page) /\ Len(got) = n + 1 /\ got # <<>>
      /\ \A p \in 1 .. n : got[p] = list[p]
      /\ got[n + 1] = page
  BY <1>1, <1>7, AppendProperties
<1>9. DOMAIN got = 1 .. n + 1 /\ Last(got) = page
  BY <1>8, LenProperties DEF Last
<1>10. \A i \in stayed : i \in Here
  OBVIOUS
<1>11. \A i \in Here : i \in matching <=> last = NoMore \/ After(i, last)
  BY <1>6
<1>12. list # <<>> => ListsInOrder(list, stayed)
  BY DEF Series
<1>13. /\ \A p \in 1 .. n + 1 : p \in 1 .. n \/ p = n + 1
       /\ \A p \in 1 .. n : p \in 1 .. n + 1
       /\ n + 1 \in 1 .. n + 1
  BY <1>2
<1>14. \A i : i \in Shown(got) <=> i \in Shown(list) \/ i \in ToSet(page.items)
  <2>1. \A i : i \in Shown(got) <=> \E p \in 1 .. n + 1 : i \in ToSet(got[p].items)
    BY <1>9 DEF Shown
  <2>2. \A i : i \in Shown(list) <=> \E p \in 1 .. n : i \in ToSet(list[p].items)
    BY <1>2 DEF Shown
  <2>3. QED BY <1>8, <1>13, <2>1, <2>2
<1>15. ASSUME NEW i \in stayed
       PROVE  i \in Shown(got) <=> (page.next = NoMore \/ ~After(i, page.next))
  <2>1. i \in ToSet(page.items) <=>
           i \in matching /\ (page.next = NoMore \/ ~After(i, page.next))
    BY <1>7 DEF OnePage, ToSet
  <2>2. CASE list = <<>>
    <3>1. i \notin Shown(list) /\ i \in matching
      BY <1>2, <1>5, <1>10, <1>11, <2>2 DEF Shown
    <3>2. QED BY <1>14, <2>1, <3>1
  <2>3. CASE list # <<>>
    <3>1. i \in Shown(list) <=> ~After(i, last)
      BY <1>5, <1>12, <2>3 DEF ListsInOrder
    <3>2. i \in matching <=> After(i, last)
      BY <1>5, <1>10, <1>11, <2>3
    <3>3. ASSUME ~After(i, last), page.next # NoMore PROVE ~After(i, page.next)
      <4>1. PICK j \in matching : page.next = CursorOf(j)
        BY <1>7, <3>3 DEF OnePage
      <4>2. j \in Here /\ After(j, last) /\ i \in Here /\ last \in Cursors
        BY <1>5, <1>6, <1>10, <2>3
      <4>3. Precedes(i, j)
        BY <3>3, <4>2, AfterIs
      <4>4. ~Precedes(j, i)
        BY <4>2, <4>3, FindOrder
      <4>5. QED BY <4>1, <4>2, <4>4, AfterIs
    <3>4. QED BY <1>14, <2>1, <3>1, <3>2, <3>3
  <2>4. QED BY <2>2, <2>3
<1>16. ASSUME NEW p \in 1 .. n + 1, NEW q \in 1 .. n + 1,
              NEW k \in DOMAIN got[p].items, NEW l \in DOMAIN got[q].items,
              p < q \/ (p = q /\ k < l),
              got[p].items[k] \in stayed, got[q].items[l] \in stayed
       PROVE  Precedes(got[p].items[k], got[q].items[l])
  <2>1. CASE q \in 1 .. n
    <3>1. p \in 1 .. n /\ q \in 1 .. n /\ list # <<>>
      BY <1>2, <1>16, <2>1
    <3>2. got[p] = list[p] /\ got[q] = list[q]
      BY <1>8, <3>1
    <3>3. p \in DOMAIN list /\ q \in DOMAIN list
      BY <1>2, <3>1
    <3>4. Precedes(list[p].items[k], list[q].items[l])
      BY <1>12, <1>16, <3>1, <3>2, <3>3 DEF ListsInOrder
    <3>5. QED BY <3>2, <3>4
  <2>2. CASE q = n + 1 /\ p = n + 1
    <3>1. got[p] = page /\ got[q] = page
      BY <1>8, <2>2
    <3>2. k < l
      BY <1>2, <1>16, <2>2
    <3>3. Precedes(page.items[k], page.items[l])
      BY <1>7, <3>1, <3>2 DEF OnePage
    <3>4. QED BY <3>1, <3>3
  <2>3. CASE q = n + 1 /\ p \in 1 .. n
    <3>1. got[p] = list[p] /\ got[q] = page /\ list # <<>>
      BY <1>2, <1>8, <2>3
    <3>2. got[p].items[k] \in Shown(list)
      BY <1>2, <2>3, <3>1 DEF Shown, ToSet
    <3>3. ~After(got[p].items[k], last)
      BY <1>5, <1>12, <1>16, <3>1, <3>2 DEF ListsInOrder
    <3>4. got[q].items[l] \in matching
      BY <1>7, <3>1 DEF OnePage
    <3>5. /\ got[p].items[k] \in Here /\ got[q].items[l] \in Here
          /\ After(got[q].items[l], last) /\ last \in Cursors
      BY <1>5, <1>10, <1>11, <1>16, <3>1, <3>4
    <3>6. \A i, j \in Here : ~After(i, last) /\ After(j, last) => Precedes(i, j)
      BY <3>5, AfterIs
    <3>7. QED BY <3>3, <3>5, <3>6
  <2>4. QED BY <1>13, <2>1, <2>2, <2>3
<1>17. ListsInOrder(got, stayed)
  <2>1. ASSUME NEW p \in DOMAIN got, NEW q \in DOMAIN got,
               NEW k \in DOMAIN got[p].items, NEW l \in DOMAIN got[q].items,
               p < q \/ (p = q /\ k < l),
               {got[p].items[k], got[q].items[l]} \subseteq stayed
        PROVE  Precedes(got[p].items[k], got[q].items[l])
    <3>1. p \in 1 .. n + 1 /\ q \in 1 .. n + 1
      BY <1>9
    <3>2. got[p].items[k] \in stayed /\ got[q].items[l] \in stayed
      BY <2>1
    <3>3. QED BY <1>16, <2>1, <3>1, <3>2
  <2>2. \A i \in stayed : i \in Shown(got) <=> (Last(got).next = NoMore \/ ~After(i, Last(got).next))
    BY <1>9, <1>15
  <2>3. QED BY <2>1, <2>2 DEF ListsInOrder
<1>18. QED BY <1>8, <1>9, <1>17

-----------------------------------------------------------------------------
(* The list while it is read and changes *)

LEMMA LoadMoreKeeps == ASSUME ListInv, LoadMore PROVE ListInv'
<1>1. /\ UNCHANGED <<direction, at, pages, moved>>
      /\ loading'.pages = pages /\ loading'.moved = moved
      /\ pages # <<>> /\ Last(pages).next # NoMore
  BY DEF LoadMore
<1>2. Here' = Here
  BY <1>1 DEF Here
<1>3. ListTyped'
  <2>1. Len(pages) + 1 \in Nat /\ pages \in Seq(Page) /\ moved \in SUBSET Items
    BY LenProperties DEF ListInv, ListTyped
  <2>2. loading' \in Requests
    BY <2>1 DEF LoadMore, Requests
  <2>3. QED BY <1>1, <2>2 DEF ListInv, ListTyped
<1>4. Series(pages, Here \ moved)'
  BY <1>1, <1>2 DEF ListInv, Series, ListsInOrder, After, Precedes
<1>5. Series(loading.pages, Here \ loading.moved)'
  BY <1>1, <1>2 DEF ListInv, Series, ListsInOrder, After, Precedes
<1>6. QED BY <1>1, <1>3, <1>4, <1>5 DEF ListInv

LEMMA RefetchKeeps == ASSUME ListInv, Refetch PROVE ListInv'
<1>1. /\ UNCHANGED <<direction, at, pages, moved>>
      /\ loading'.pages = <<>>
  BY DEF Refetch
<1>2. Here' = Here /\ <<>> \in Seq(Page)
  BY <1>1 DEF Here
<1>3. ListTyped'
  <2>1. (IF pages = <<>> THEN 1 ELSE Len(pages)) \in Nat
    BY LenProperties DEF ListInv, ListTyped
  <2>2. loading' \in Requests
    BY <1>2, <2>1 DEF Refetch, Requests
  <2>3. QED BY <1>1, <2>2 DEF ListInv, ListTyped
<1>4. Series(pages, Here \ moved)'
  BY <1>1, <1>2 DEF ListInv, Series, ListsInOrder, After, Precedes
<1>5. Series(loading.pages, Here \ loading.moved)'
  BY <1>1 DEF Series
<1>6. QED BY <1>1, <1>3, <1>4, <1>5 DEF ListInv

LEMMA AnsweredKeeps == ASSUME ListInv, Answered PROVE ListInv'
<1>1. PICK list : list = loading.pages
  OBVIOUS
<1>2. PICK last : last = IF list = <<>> THEN NoMore ELSE Last(list).next
  OBVIOUS
<1>3. PICK page : page = PageAfter(last)
  OBVIOUS
<1>4. PICK got : got = Append(list, page)
  OBVIOUS
<1>5. PICK stayed : stayed = Here \ loading.moved
  OBVIOUS
<1>6. /\ loading.on /\ UNCHANGED <<direction, at>>
      /\ \/ pages' = got /\ moved' = loading.moved /\ loading' = Quiet
         \/ /\ Last(got).next # NoMore
            /\ loading' = [loading EXCEPT !.pages = got] /\ UNCHANGED <<pages, moved>>
  BY <1>1, <1>2, <1>3, <1>4 DEF Answered
<1>7. /\ ListTyped /\ list \in Seq(Page) /\ stayed \in SUBSET Here /\ Series(list, stayed)
      /\ list # <<>> => Last(list).next # NoMore
  BY <1>1, <1>5, <1>6 DEF ListInv, ListTyped, Requests
<1>8. /\ got \in Seq(Page) /\ got # <<>> /\ Last(got) = page
      /\ ListsInOrder(got, stayed)
  BY <1>2, <1>3, <1>4, <1>7, PageJoins
<1>9. Here' = Here
  BY <1>6 DEF Here
<1>10. CASE pages' = got /\ moved' = loading.moved /\ loading' = Quiet
  <2>1. loading'.pages = <<>> /\ loading'.on = FALSE /\ <<>> \in Seq(Page)
    BY <1>10 DEF Quiet
  <2>2. ListTyped'
    <3>1. moved' \in SUBSET Items
      BY <1>7, <1>10 DEF ListTyped, Requests
    <3>2. Quiet \in Requests
      BY <2>1 DEF Quiet, Requests
    <3>3. QED BY <1>6, <1>7, <1>8, <1>10, <3>1, <3>2 DEF ListTyped
  <2>3. (Here \ moved)' = stayed
    BY <1>5, <1>9, <1>10
  <2>4. Series(pages, Here \ moved)'
    BY <1>6, <1>8, <1>10, <2>3 DEF Series, ListsInOrder, After, Precedes
  <2>5. Series(loading.pages, Here \ loading.moved)'
    BY <2>1 DEF Series
  <2>6. QED BY <2>1, <2>2, <2>4, <2>5 DEF ListInv
<1>11. CASE /\ Last(got).next # NoMore
            /\ loading' = [loading EXCEPT !.pages = got] /\ UNCHANGED <<pages, moved>>
  <2>1. loading'.pages = got /\ loading'.moved = loading.moved
    BY <1>7, <1>11 DEF ListTyped, Requests
  <2>2. ListTyped'
    <3>1. loading' \in Requests
      BY <1>7, <1>8, <1>11 DEF ListTyped, Requests
    <3>2. QED BY <1>6, <1>7, <1>8, <1>11, <3>1 DEF ListTyped
  <2>3. (Here \ loading.moved)' = stayed
    BY <1>5, <1>9, <2>1
  <2>4. Series(loading.pages, Here \ loading.moved)'
    BY <1>6, <1>8, <2>1, <2>3 DEF Series, ListsInOrder, After, Precedes
  <2>5. Series(pages, Here \ moved)'
    BY <1>6, <1>9, <1>11 DEF ListInv, Series, ListsInOrder, After, Precedes
  <2>6. (loading.pages # <<>> => Last(loading.pages).next # NoMore)'
    BY <1>11, <2>1
  <2>7. QED BY <2>2, <2>4, <2>5, <2>6 DEF ListInv
<1>12. QED BY <1>6, <1>10, <1>11

\* Documents that stay, and do not move, are shown as before.
LEMMA StaysShown ==
  ASSUME NEW list, NEW docs, NEW fewer \in SUBSET docs, Series(list, docs),
         direction' = direction, \A i \in fewer : at'[i] = at[i]
  PROVE  Series(list, fewer)'
<1> SUFFICES ASSUME list # <<>> PROVE ListsInOrder(list, fewer)'
  BY DEF Series
<1>1. ListsInOrder(list, docs)
  BY DEF Series
<1>2. ASSUME NEW i \in fewer, NEW c PROVE After(i, c)' <=> After(i, c)
  BY DEF After
<1>3. ASSUME NEW i \in fewer, NEW j \in fewer PROVE Precedes(i, j)' <=> Precedes(i, j)
  BY DEF Precedes
<1>4. \A i \in fewer : i \in Shown(list)
         <=> (Last(list).next = NoMore \/ ~After(i, Last(list).next)')
  BY <1>1, <1>2 DEF ListsInOrder
<1>5. ASSUME NEW p \in DOMAIN list, NEW q \in DOMAIN list,
             NEW n \in DOMAIN list[p].items, NEW k \in DOMAIN list[q].items,
             p < q \/ (p = q /\ n < k),
             {list[p].items[n], list[q].items[k]} \subseteq fewer
      PROVE  Precedes(list[p].items[n], list[q].items[k])'
  <2>1. {list[p].items[n], list[q].items[k]} \subseteq docs
    BY <1>5
  <2>2. Precedes(list[p].items[n], list[q].items[k])
    BY <1>1, <1>5, <2>1 DEF ListsInOrder
  <2>3. QED BY <1>3, <1>5, <2>2
<1>6. QED BY <1>4, <1>5 DEF ListsInOrder, Shown

LEMMA EditKeeps ==
  ASSUME ListInv, NEW i \in Items, NEW date \in {Absent} \cup {<<d>> : d \in Dates}, Edit(i, date)
  PROVE  ListInv'
<1>1. /\ UNCHANGED <<direction, pages>> /\ at' = [at EXCEPT ![i] = date]
      /\ moved' = moved \cup {i}
      /\ loading'.pages = loading.pages /\ loading'.on = loading.on
      /\ loading'.moved = loading.moved \cup {i}
      /\ loading' = [loading EXCEPT !.moved = loading.moved \cup {i}]
  BY DEF Edit, ListInv, ListTyped, Requests
<1>2. ListTyped'
  <2>1. loading' \in Requests
    BY <1>1 DEF ListInv, ListTyped, Requests
  <2>2. at' \in [Items -> {Absent} \cup {<<d>> : d \in Dates}]
    BY <1>1 DEF ListInv, ListTyped
  <2>3. QED BY <1>1, <2>1, <2>2 DEF ListInv, ListTyped
<1>3. /\ \A j \in Items : j # i => at'[j] = at[j]
      /\ Here \subseteq Items /\ Here' \subseteq Items
  BY <1>1 DEF ListInv, ListTyped, Here
<1>4. \A j \in Here' : j # i => j \in Here
  BY <1>3 DEF Here
<1>5. Series(pages, Here \ moved)'
  <2>1. PICK list : list = pages
    OBVIOUS
  <2>2. PICK fewer : fewer = Here' \ moved'
    OBVIOUS
  <2>3. fewer \in SUBSET (Here \ moved) /\ \A j \in fewer : at'[j] = at[j]
    BY <1>1, <1>3, <1>4, <2>2
  <2>4. Series(list, Here \ moved)
    BY <2>1 DEF ListInv
  <2>5. Series(list, fewer)'
    BY <1>1, <2>3, <2>4, StaysShown
  <2>6. QED BY <1>1, <2>1, <2>2, <2>5 DEF Series, ListsInOrder, Shown
<1>6. Series(loading.pages, Here \ loading.moved)'
  <2>1. PICK list : list = loading.pages
    OBVIOUS
  <2>2. PICK fewer : fewer = Here' \ loading'.moved
    OBVIOUS
  <2>3. fewer \in SUBSET (Here \ loading.moved) /\ \A j \in fewer : at'[j] = at[j]
    BY <1>1, <1>3, <1>4, <2>2
  <2>4. Series(list, Here \ loading.moved)
    BY <2>1 DEF ListInv
  <2>5. Series(list, fewer)'
    BY <1>1, <2>3, <2>4, StaysShown
  <2>6. QED BY <1>1, <2>1, <2>2, <2>5 DEF Series, ListsInOrder, Shown
<1>7. QED BY <1>1, <1>2, <1>5, <1>6 DEF ListInv

\* For any documents, dates and page size: what stayed in a list and did not move is on
\* its pages once and in order, however the list changes between the requests and
\* whichever of them are overtaken (browse and pagination.ts; usePagedList).
THEOREM PagesHold == PagingSpec => []PagesShowEachOnce
<1>1. PagingInit => ListInv
  <2> SUFFICES ASSUME PagingInit PROVE ListInv
    OBVIOUS
  <2>1. pages = <<>> /\ loading.pages = <<>> /\ loading.on = FALSE /\ <<>> \in Seq(Page)
    BY DEF PagingInit, Quiet
  <2>2. ListTyped
    <3>1. Quiet \in Requests
      BY <2>1 DEF Quiet, Requests
    <3>2. QED BY <2>1, <3>1 DEF PagingInit, ListTyped
  <2>3. QED BY <2>1, <2>2 DEF ListInv, Series
<1>2. ListInv /\ [PagingNext]_pagingVars => ListInv'
  <2> SUFFICES ASSUME ListInv, [PagingNext]_pagingVars PROVE ListInv'
    OBVIOUS
  <2>1. CASE LoadMore
    BY <2>1, LoadMoreKeeps
  <2>2. CASE Refetch
    BY <2>2, RefetchKeeps
  <2>3. CASE Answered
    BY <2>3, AnsweredKeeps
  <2>4. ASSUME NEW i \in Items, NEW date \in {Absent} \cup {<<d>> : d \in Dates}, Edit(i, date)
        PROVE  ListInv'
    BY <2>4, EditKeeps
  <2>5. CASE UNCHANGED pagingVars
    <3>1. UNCHANGED <<direction, at, pages, loading, moved>>
      BY <2>5 DEF pagingVars
    <3>2. Here' = Here /\ ListTyped'
      BY <3>1 DEF ListInv, ListTyped, Here
    <3>3. Series(pages, Here \ moved)'
      BY <3>1, <3>2 DEF ListInv, Series, ListsInOrder, After, Precedes
    <3>4. Series(loading.pages, Here \ loading.moved)'
      BY <3>1, <3>2 DEF ListInv, Series, ListsInOrder, After, Precedes
    <3>5. QED BY <3>1, <3>2, <3>3, <3>4 DEF ListInv
  <2>6. QED BY <2>1, <2>2, <2>3, <2>4, <2>5 DEF PagingNext
<1>3. ListInv => PagesShowEachOnce
  BY DEF ListInv, Series, PagesShowEachOnce
<1>4. QED BY <1>1, <1>2, <1>3, PTL DEF PagingSpec

-----------------------------------------------------------------------------
(* The places of a contest *)

Scored == [id : Nat, score : Int, timeUsed : Int]

\* The lists that are ranked: each entry is in it once.
Scorings == {list \in Seq(Scored) : \A i, j \in DOMAIN list : list[i].id = list[j].id => i = j}

\* Nobody comes before one who is ahead.
InPlace(s) == \A k, l \in DOMAIN s : k < l => ~Ahead(s[l], s[k])

\* To be ahead is a strict order in which the tied stand together.
LEMMA AheadIs ==
  ASSUME NEW a \in Scored, NEW b \in Scored
  PROVE  /\ ~Ahead(a, a) /\ Tied(a, a)
         /\ Ahead(a, b) \/ Ahead(b, a) \/ Tied(a, b)
         /\ ~(Ahead(a, b) /\ Ahead(b, a)) /\ ~(Ahead(a, b) /\ Tied(a, b))
         /\ Tied(a, b) <=> Tied(b, a)
  BY DEF Scored, Ahead, Tied

LEMMA AheadOf ==
  ASSUME NEW a \in Scored, NEW b \in Scored, NEW c \in Scored
  PROVE  /\ Ahead(a, b) /\ Ahead(b, c) => Ahead(a, c)
         /\ Tied(a, b) => (Ahead(a, c) <=> Ahead(b, c)) /\ (Ahead(c, a) <=> Ahead(c, b))
                          /\ (Tied(a, c) <=> Tied(b, c))
  BY DEF Scored, Ahead, Tied

\* A part of 1 .. n that has all below its members is 1 up to their number.
LEMMA DownTo ==
  ASSUME NEW n \in Nat, NEW D \in SUBSET (1 .. n),
         \A j \in D, i \in 1 .. n : i < j => i \in D
  PROVE  Cardinality(D) \in 0 .. n /\ D = 1 .. Cardinality(D)
<1> DEFINE m == Cardinality(D)
<1>1. IsFiniteSet(1 .. n) /\ Cardinality(1 .. n) = n
  BY UpTo
<1>2. IsFiniteSet(D) /\ m \in Nat /\ m <= n
  BY <1>1, FS_Subset, FS_CardinalityType
<1>3. ASSUME NEW j \in D PROVE j \in 1 .. m
  <2>1. j \in Nat /\ 1 .. j \in SUBSET D
    OBVIOUS
  <2>2. IsFiniteSet(1 .. j) /\ Cardinality(1 .. j) = j
    BY <2>1, UpTo
  <2>3. j <= m
    BY <1>2, <2>1, <2>2, FS_Subset
  <2>4. QED BY <1>2, <2>1, <2>3
<1>4. IsFiniteSet(1 .. m) /\ Cardinality(1 .. m) = m
  BY <1>2, UpTo
<1>5. D = 1 .. m
  BY <1>2, <1>3, <1>4, FS_Subset
<1>6. QED BY <1>2, <1>5

\* The sort leaves nobody out, and puts no one before those ahead of them.
LEMMA SortedIs ==
  ASSUME NEW list \in Scorings
  PROVE  /\ Sorted(list) \in Scorings /\ Len(Sorted(list)) = Len(list)
         /\ InPlace(Sorted(list)) /\ ToSet(Sorted(list)) = ToSet(list)
<1> DEFINE n == Len(list)
           S == 1 .. n
           before == [i \in S |-> {j \in S : Before(list, j, i)}]
           At(k) == CHOOSE i \in S : Cardinality(before[i]) = k - 1
           p == [k \in S |-> At(k)]
<1>1. /\ list \in Seq(Scored) /\ DOMAIN list = S /\ n \in Nat /\ S \subseteq Int
      /\ \A i \in S : list[i] \in Scored
      /\ \A i, j \in S : list[i].id = list[j].id => i = j
  BY DEF Scorings
<1>2. IsFiniteSet(S) /\ Cardinality(S) = n
  BY <1>1, UpTo
<1>3. \A i \in S : i \notin before[i]
  BY <1>1, AheadIs DEF Before
<1>4. ASSUME NEW i \in S, NEW j \in S, Before(list, i, j)
      PROVE  i \in before[j] /\ before[i] \subseteq before[j]
  <2>1. ASSUME NEW k \in S, Before(list, k, i) PROVE Before(list, k, j)
    <3>1. list[i] \in Scored /\ list[j] \in Scored /\ list[k] \in Scored
      BY <1>1
    <3>2. Ahead(list[k], list[i]) \/ (Tied(list[k], list[i]) /\ k < i)
      BY <2>1 DEF Before
    <3>3. Ahead(list[i], list[j]) \/ (Tied(list[i], list[j]) /\ i < j)
      BY <1>4 DEF Before
    <3>4. k < i /\ i < j => k < j
      BY <1>1
    <3>5. Ahead(list[k], list[j]) \/ (Tied(list[k], list[j]) /\ k < j)
      BY <3>1, <3>2, <3>3, <3>4, AheadOf, AheadIs
    <3>6. QED BY <3>5 DEF Before
  <2>2. QED BY <1>4, <2>1
<1>5. ASSUME NEW i \in S, NEW j \in S, i # j PROVE Before(list, i, j) \/ Before(list, j, i)
  <2>1. i < j \/ j < i
    BY <1>1, <1>5
  <2>2. Ahead(list[i], list[j]) \/ Ahead(list[j], list[i])
        \/ (Tied(list[i], list[j]) /\ Tied(list[j], list[i]))
    BY <1>1, AheadIs
  <2>3. QED BY <2>1, <2>2 DEF Before
<1>6. before \in [S -> SUBSET S]
  OBVIOUS
<1>7. \A i, j \in S : i # j => \/ i \in before[j] /\ before[i] \subseteq before[j]
                               \/ j \in before[i] /\ before[j] \subseteq before[i]
  BY <1>4, <1>5
<1>8. \A i, j \in S : Before(list, i, j) <=> i \in before[j]
  OBVIOUS
<1>9. Sorted(list) = [k \in S |-> list[p[k]]]
  <2> DEFINE Pick(k) == CHOOSE i \in DOMAIN list :
             Cardinality({j \in DOMAIN list : Before(list, j, i)}) = k - 1
  <2>1. \A i \in S : before[i] = {j \in DOMAIN list : Before(list, j, i)}
    BY <1>1
  <2>2. \A k \in S : p[k] = Pick(k)
    BY <1>1, <2>1
  <2>3. Sorted(list) = [k \in DOMAIN list |-> list[Pick(k)]]
    BY DEF Sorted
  <2> HIDE DEF p, Pick
  <2>4. QED BY <1>1, <2>2, <2>3
<1> HIDE DEF before
<1>10. /\ \A i \in S : Cardinality(before[i]) \in 0 .. n - 1
       /\ \A i, j \in S : i \in before[j] => Cardinality(before[i]) < Cardinality(before[j])
       /\ \A k \in 1 .. n : \E i \in S : Cardinality(before[i]) = k - 1
  <2>1. /\ Cardinality(S) \in Nat
        /\ \A i \in S : Cardinality(before[i]) \in 0 .. Cardinality(S) - 1
        /\ \A i, j \in S : i \in before[j] => Cardinality(before[i]) < Cardinality(before[j])
        /\ \A k \in 1 .. Cardinality(S) : \E i \in S : Cardinality(before[i]) = k - 1
    <3> HIDE DEF S
    <3>1. QED BY <1>2, <1>3, <1>6, <1>7, OrderRanks
  <2>2. QED BY <1>2, <2>1
<1>11. \A k \in S : p[k] \in S /\ Cardinality(before[p[k]]) = k - 1
  BY <1>10
<1> HIDE DEF p
<1>12. p \in [S -> S]
  BY <1>11 DEF p
<1>13. \A k, l \in S : p[k] = p[l] => k = l
  BY <1>1, <1>11
<1>14. p \in Injection(S, S)
  BY <1>12, <1>13 DEF Injection, IsInjective
<1>15. p \in Surjection(S, S)
  BY <1>2, <1>14, FS_Injection
<1>16. \A i \in S : \E k \in S : p[k] = i
  BY <1>15 DEF Surjection
<1> HIDE DEF S
<1>17. Sorted(list) \in [S -> Scored] /\ \A k \in S : Sorted(list)[k] = list[p[k]]
  BY <1>1, <1>9, <1>11
<1>18. Sorted(list) \in Seq(Scored) /\ Len(Sorted(list)) = n /\ DOMAIN Sorted(list) = S
  BY <1>1, <1>17 DEF S
<1>19. \A k, l \in S : Sorted(list)[k].id = Sorted(list)[l].id => k = l
  <2> SUFFICES ASSUME NEW k \in S, NEW l \in S, Sorted(list)[k].id = Sorted(list)[l].id
               PROVE  k = l
    OBVIOUS
  <2>1. p[k] \in S /\ p[l] \in S /\ list[p[k]].id = list[p[l]].id
    BY <1>11, <1>17
  <2>2. p[k] = p[l]
    BY <1>1, <2>1
  <2>3. QED BY <1>13, <2>2
<1>20. Sorted(list) \in Scorings
  BY <1>18, <1>19 DEF Scorings
<1>21. InPlace(Sorted(list))
  <2> SUFFICES ASSUME NEW k \in S, NEW l \in S, k < l, Ahead(Sorted(list)[l], Sorted(list)[k])
               PROVE  FALSE
    BY <1>18 DEF InPlace
  <2>1. Before(list, p[l], p[k])
    BY <1>17 DEF Before
  <2>2. Cardinality(before[p[l]]) < Cardinality(before[p[k]])
    BY <1>8, <1>10, <1>11, <2>1
  <2>3. k \in Int /\ l \in Int
    BY <1>1
  <2>4. QED BY <1>11, <2>2, <2>3
<1>22. ToSet(Sorted(list)) = ToSet(list)
  <2>1. ToSet(Sorted(list)) = {list[p[k]] : k \in S}
    BY <1>17, <1>18 DEF ToSet
  <2>2. ToSet(list) = {list[i] : i \in S}
    BY <1>1 DEF ToSet
  <2>3. QED BY <1>11, <1>16, <2>1, <2>2
<1>23. QED BY <1>18, <1>20, <1>21, <1>22

\* Among those that are in it once, to count the entries is to count their places.
LEMMA CountPlaces ==
  ASSUME NEW n \in Nat, NEW s, DOMAIN s = 1 .. n, \A i, j \in 1 .. n : s[i] = s[j] => i = j,
         NEW T \in SUBSET ToSet(s)
  PROVE  Cardinality(T) = Cardinality({m \in 1 .. n : s[m] \in T})
<1> DEFINE D == {m \in 1 .. n : s[m] \in T}
           f == [m \in D |-> s[m]]
<1>1. \A i, j \in D : s[i] = s[j] => i = j
  OBVIOUS
<1>2. \A t \in T : \E m \in D : s[m] = t
  BY DEF ToSet
<1>3. f \in Bijection(D, T)
  BY <1>1, <1>2 DEF Bijection, Injection, Surjection, IsInjective
<1>4. IsFiniteSet(D)
  BY UpTo, FS_Subset
<1>5. ExistsBijection(D, T)
  BY <1>3 DEF ExistsBijection
<1>6. QED BY <1>4, <1>5, FS_Bijection

\* How many of s are ahead of a place, and how many it is not ahead of.
Above(s, k) == Cardinality({m \in DOMAIN s : Ahead(s[m], s[k])})
Through(s, k) == Cardinality({m \in DOMAIN s : ~Ahead(s[k], s[m])})

\* In a sorted list those ahead of a place come first, then the ones tied with it.
LEMMA Around ==
  ASSUME NEW s \in Scorings, InPlace(s), NEW k \in DOMAIN s
  PROVE  /\ Above(s, k) \in 0 .. k - 1 /\ Through(s, k) \in k .. Len(s)
         /\ \A m \in DOMAIN s : /\ Ahead(s[m], s[k]) <=> m <= Above(s, k)
                                /\ ~Ahead(s[k], s[m]) <=> m <= Through(s, k)
                                /\ Tied(s[m], s[k]) <=> Above(s, k) < m /\ m <= Through(s, k)
<1> DEFINE n == Len(s)
           A == {m \in 1 .. n : Ahead(s[m], s[k])}
           B == {m \in 1 .. n : ~Ahead(s[k], s[m])}
<1>1. DOMAIN s = 1 .. n /\ n \in Nat /\ k \in 1 .. n /\ \A m \in 1 .. n : s[m] \in Scored
  BY DEF Scorings
<1>2. \A i, j \in 1 .. n : i < j => ~Ahead(s[j], s[i])
  BY <1>1 DEF InPlace
<1>3. Above(s, k) = Cardinality(A) /\ Through(s, k) = Cardinality(B)
  BY <1>1 DEF Above, Through
<1>4. ASSUME NEW j \in A, NEW i \in 1 .. n, i < j PROVE i \in A
  <2>1. s[i] \in Scored /\ s[j] \in Scored /\ s[k] \in Scored /\ ~Ahead(s[j], s[i]) /\ Ahead(s[j], s[k])
    BY <1>1, <1>2, <1>4
  <2>2. Ahead(s[i], s[j]) \/ Tied(s[i], s[j])
    BY <2>1, AheadIs
  <2>3. Ahead(s[i], s[k])
    BY <2>1, <2>2, AheadOf
  <2>4. QED BY <2>3
<1>5. ASSUME NEW j \in B, NEW i \in 1 .. n, i < j PROVE i \in B
  <2>1. s[i] \in Scored /\ s[j] \in Scored /\ s[k] \in Scored /\ ~Ahead(s[j], s[i]) /\ ~Ahead(s[k], s[j])
    BY <1>1, <1>2, <1>5
  <2>2. Ahead(s[i], s[j]) \/ Tied(s[i], s[j])
    BY <2>1, AheadIs
  <2>3. ~Ahead(s[k], s[i])
    BY <2>1, <2>2, AheadOf
  <2>4. QED BY <2>3
<1>6. Cardinality(A) \in 0 .. n /\ A = 1 .. Cardinality(A)
  BY <1>1, <1>4, DownTo
<1>7. Cardinality(B) \in 0 .. n /\ B = 1 .. Cardinality(B)
  BY <1>1, <1>5, DownTo
<1>8. k \notin A /\ k \in B
  BY <1>1, AheadIs
<1>9. \A m \in 1 .. n : Tied(s[m], s[k]) <=> m \notin A /\ m \in B
  BY <1>1, AheadIs
<1>10. \A m \in 1 .. n : /\ Ahead(s[m], s[k]) <=> m \in A
                         /\ ~Ahead(s[k], s[m]) <=> m \in B
  OBVIOUS
<1> HIDE DEF A, B
<1>11. \A m \in 1 .. n : (m \in A <=> m <= Cardinality(A)) /\ (m \in B <=> m <= Cardinality(B))
  BY <1>1, <1>6, <1>7
<1>12. Cardinality(A) \in 0 .. k - 1 /\ Cardinality(B) \in k .. n
  BY <1>1, <1>6, <1>7, <1>8, <1>11
<1>13. \A m \in 1 .. n : Tied(s[m], s[k]) <=> Cardinality(A) < m /\ m <= Cardinality(B)
  BY <1>1, <1>6, <1>7, <1>9, <1>11
<1>14. QED BY <1>1, <1>3, <1>10, <1>11, <1>12, <1>13

\* The loops find one group for a place: all that are tied with it.
LEMMA GroupIs ==
  ASSUME NEW s \in Scorings, InPlace(s), NEW k \in DOMAIN s
  PROVE  (CHOOSE g \in (1 .. k) \X (k + 1 .. Len(s) + 1) : IsGroup(s, g[1], g[2]))
            = <<Above(s, k) + 1, Through(s, k) + 1>>
<1> DEFINE n == Len(s)
           a == Above(s, k)
           b == Through(s, k)
<1>1. /\ DOMAIN s = 1 .. n /\ n \in Nat /\ k \in 1 .. n
      /\ \A m \in 1 .. n : s[m] \in Scored
  BY DEF Scorings
<1>2. a \in 0 .. k - 1 /\ b \in k .. n
      /\ \A m \in 1 .. n : Tied(s[m], s[k]) <=> a < m /\ m <= b
  BY <1>1, Around
<1> HIDE DEF n, a, b
<1>3. IsGroup(s, a + 1, b + 1)
  <2>1. PICK c : c = a + 1
    OBVIOUS
  <2>2. PICK d : d = b + 1
    OBVIOUS
  <2>3. c \in 1 .. n /\ Tied(s[c], s[k])
    BY <1>1, <1>2, <2>1
  <2>4. \A m \in 1 .. n : Tied(s[m], s[c]) <=> Tied(s[m], s[k])
    <3> TAKE m \in 1 .. n
    <3>1. s[c] \in Scored /\ s[k] \in Scored /\ s[m] \in Scored
      BY <1>1, <2>3
    <3>2. QED BY <2>3, <3>1, AheadOf, AheadIs
  <2>5. \A m \in c .. d - 1 : Tied(s[m], s[c])
    BY <1>1, <1>2, <2>1, <2>2, <2>4
  <2>6. c = 1 \/ ~Tied(s[c - 1], s[c])
    BY <1>1, <1>2, <2>1, <2>4
  <2>7. d = n + 1 \/ ~Tied(s[d], s[c])
    BY <1>1, <1>2, <2>2, <2>4
  <2>8. IsGroup(s, c, d)
    BY <2>5, <2>6, <2>7 DEF IsGroup, n
  <2>9. QED BY <2>1, <2>2, <2>8
<1>4. ASSUME NEW i \in 1 .. k, NEW j \in k + 1 .. n + 1, IsGroup(s, i, j)
      PROVE  i = a + 1 /\ j = b + 1
  <2>1. i \in 1 .. n /\ k \in i .. j - 1 /\ i \in Int /\ j \in Int /\ k \in Int
    BY <1>1
  <2>2. /\ \A m \in i .. j - 1 : Tied(s[m], s[i])
        /\ i = 1 \/ ~Tied(s[i - 1], s[i])
        /\ j = n + 1 \/ ~Tied(s[j], s[i])
    BY <1>4 DEF IsGroup, n
  <2>3. \A m \in 1 .. n : Tied(s[m], s[i]) <=> Tied(s[m], s[k])
    <3> TAKE m \in 1 .. n
    <3>1. s[i] \in Scored /\ s[k] \in Scored /\ s[m] \in Scored /\ Tied(s[k], s[i])
      BY <1>1, <2>1, <2>2
    <3>2. QED BY <3>1, AheadOf, AheadIs
  <2>4. \A m \in 1 .. n : Tied(s[m], s[i]) <=> a < m /\ m <= b
    BY <1>2, <2>3
  <2>5. a < i
    BY <2>1, <2>2, <2>4
  <2>6. i = 1 \/ ~(a < i - 1)
    <3>1. i - 1 \in 1 .. n \/ i = 1
      BY <1>1, <2>1
    <3>2. i - 1 <= b
      BY <1>1, <1>2, <2>1
    <3>3. QED BY <2>2, <2>4, <3>1, <3>2
  <2>7. i = a + 1
    BY <1>2, <2>1, <2>5, <2>6
  <2>8. j - 1 \in 1 .. n /\ Tied(s[j - 1], s[i])
    BY <1>1, <2>1, <2>2
  <2>9. j - 1 <= b
    BY <2>4, <2>8
  <2>10. j = n + 1 \/ ~(j <= b)
    <3>1. j \in 1 .. n \/ j = n + 1
      BY <1>1, <2>1
    <3>2. a < j
      BY <1>2, <2>1
    <3>3. QED BY <2>2, <2>4, <3>1, <3>2
  <2>11. j = b + 1
    BY <1>1, <1>2, <2>1, <2>9, <2>10
  <2>12. QED BY <2>7, <2>11
<1> DEFINE G == (1 .. k) \X (k + 1 .. n + 1)
<1>5. <<a + 1, b + 1>> \in G
  BY <1>1, <1>2
<1>6. \A g \in G : IsGroup(s, g[1], g[2]) => g = <<a + 1, b + 1>>
  <2> TAKE g \in G
  <2> HAVE IsGroup(s, g[1], g[2])
  <2>1. g[1] \in 1 .. k /\ g[2] \in k + 1 .. n + 1 /\ g = <<g[1], g[2]>>
    OBVIOUS
  <2>2. QED BY <1>4, <2>1
<1> HIDE DEF G
<1>7. IsGroup(s, <<a + 1, b + 1>>[1], <<a + 1, b + 1>>[2])
  BY <1>3
<1>8. (CHOOSE g \in G : IsGroup(s, g[1], g[2])) = <<a + 1, b + 1>>
  BY <1>5, <1>6, <1>7
<1>9. QED BY <1>8 DEF G, a, b, n

\* Where an entry is placed is told by how many are ahead of it and tied with it.
LEMMA PlacesCounted ==
  ASSUME NEW s \in Scorings, InPlace(s), NEW k \in DOMAIN s
  PROVE  /\ PlaceIn(s[k], ToSet(s)) = Above(s, k) + 1
         /\ PercentileIn(s[k], ToSet(s)) =
               Percentile(Len(s), Above(s, k) + 1, Through(s, k) + 1)
<1> DEFINE n == Len(s)
           a == Above(s, k)
           b == Through(s, k)
           S == ToSet(s)
           Better == {o \in S : Ahead(o, s[k])}
           Worse == {o \in S : Ahead(s[k], o)}
           Even == {o \in S : Tied(o, s[k])}
<1>1. DOMAIN s = 1 .. n /\ n \in Nat /\ k \in 1 .. n
  BY DEF Scorings
<1>2. \A m \in 1 .. n : s[m] \in S
  BY <1>1 DEF ToSet
<1>3. a \in 0 .. k - 1 /\ b \in k .. n
      /\ \A m \in 1 .. n : /\ Ahead(s[m], s[k]) <=> m <= a
                           /\ ~Ahead(s[k], s[m]) <=> m <= b
                           /\ Tied(s[m], s[k]) <=> a < m /\ m <= b
  BY <1>1, Around
<1>4. /\ Cardinality(Better) = Cardinality({m \in DOMAIN s : s[m] \in Better})
      /\ Cardinality(Worse) = Cardinality({m \in DOMAIN s : s[m] \in Worse})
      /\ Cardinality(Even) = Cardinality({m \in DOMAIN s : s[m] \in Even})
      /\ Cardinality(S) = n
  <2>1. \A i, j \in 1 .. n : s[i] = s[j] => i = j
    BY <1>1 DEF Scorings
  <2>2. \A T \in SUBSET S : Cardinality(T) = Cardinality({m \in 1 .. n : s[m] \in T})
    BY <1>1, <2>1, CountPlaces
  <2>3. Better \in SUBSET S /\ Worse \in SUBSET S /\ Even \in SUBSET S /\ S \in SUBSET S
    OBVIOUS
  <2> HIDE DEF Better, Worse, Even, S
  <2>4. {m \in 1 .. n : s[m] \in S} = 1 .. n /\ Cardinality(1 .. n) = n
    <3>1. {m \in 1 .. n : s[m] \in S} = 1 .. n
      BY <1>2
    <3>2. Cardinality(1 .. n) = IF 1 > n THEN 0 ELSE n - 1 + 1
      BY <1>1, FS_Interval
    <3>3. QED BY <1>1, <3>1, <3>2
  <2>5. QED BY <1>1, <2>2, <2>3, <2>4
<1> HIDE DEF n, a, b, S
<1>5. /\ {m \in DOMAIN s : s[m] \in Better} = 1 .. a
      /\ {m \in DOMAIN s : s[m] \in Worse} = b + 1 .. n
      /\ {m \in DOMAIN s : s[m] \in Even} = a + 1 .. b
  <2>1. /\ {m \in DOMAIN s : s[m] \in Better} = {m \in 1 .. n : m <= a}
        /\ {m \in DOMAIN s : s[m] \in Worse} = {m \in 1 .. n : ~(m <= b)}
        /\ {m \in DOMAIN s : s[m] \in Even} = {m \in 1 .. n : a < m /\ m <= b}
    BY <1>1, <1>2, <1>3
  <2>2. /\ {m \in 1 .. n : m <= a} = 1 .. a
        /\ {m \in 1 .. n : ~(m <= b)} = b + 1 .. n
        /\ {m \in 1 .. n : a < m /\ m <= b} = a + 1 .. b
    BY <1>1, <1>3
  <2>3. QED BY <2>1, <2>2
<1>6. /\ Cardinality(1 .. a) = a
      /\ Cardinality(b + 1 .. n) = n - b
      /\ Cardinality(a + 1 .. b) = b - a
  <2>1. a \in Int /\ b \in Int /\ n \in Int /\ a + 1 \in Int /\ b + 1 \in Int /\ 1 \in Int
    BY <1>1, <1>3
  <2>2. /\ Cardinality(1 .. a) = IF 1 > a THEN 0 ELSE a - 1 + 1
        /\ Cardinality(b + 1 .. n) = IF b + 1 > n THEN 0 ELSE n - (b + 1) + 1
        /\ Cardinality(a + 1 .. b) = IF a + 1 > b THEN 0 ELSE b - (a + 1) + 1
    BY <2>1, FS_Interval
  <2>3. QED BY <1>1, <1>3, <2>2
<1>7. Cardinality(Better) = a /\ Cardinality(Worse) = n - b /\ Cardinality(Even) = b - a
  BY <1>4, <1>5, <1>6
<1>8. PlaceIn(s[k], S) = 1 + Cardinality(Better)
      /\ BeatenIn(s[k], S) = 2 * Cardinality(Worse) + Cardinality(Even) - 1
  BY DEF PlaceIn, BeatenIn
<1>9. PlaceIn(s[k], S) = a + 1 /\ BeatenIn(s[k], S) = 2 * n - (a + 1 + (b + 1) - 1)
  BY <1>1, <1>3, <1>7, <1>8
<1>10. S = {s[k]} <=> n = 1
  <2>1. \A m \in 1 .. n : s[m] = s[k] => m = k
    BY <1>1 DEF Scorings
  <2>2. S = {s[m] : m \in 1 .. n}
    BY <1>1 DEF S, ToSet
  <2>3. ASSUME S = {s[k]} PROVE n = 1
    <3>1. 1 \in 1 .. n /\ n \in 1 .. n
      BY <1>1
    <3>2. QED BY <1>2, <2>1, <2>3, <3>1
  <2>4. ASSUME n = 1 PROVE S = {s[k]}
    <3>1. 1 .. n = {k}
      BY <1>1, <2>4
    <3>2. QED BY <2>2, <3>1
  <2>5. QED BY <2>3, <2>4
<1>11. PercentileIn(s[k], S) = Percentile(n, a + 1, b + 1)
  BY <1>4, <1>9, <1>10 DEF PercentileIn, Percentile
<1>12. QED BY <1>9, <1>11 DEF n, a, b, S

\* For every list of entries: rank gives each its place and its percentile.
LEMMA RankIs ==
  ASSUME NEW list \in Scorings
  PROVE  /\ Len(Rank(list)) = Len(list)
         /\ \A e \in ToSet(list) : \E k \in DOMAIN Rank(list) :
               Rank(list)[k] = [id |-> e.id, rank |-> PlaceIn(e, ToSet(list)),
                                percentile |-> PercentileIn(e, ToSet(list))]
         /\ \A k \in 1 .. Len(Rank(list)) - 1 : Rank(list)[k].rank <= Rank(list)[k + 1].rank
<1> DEFINE s == Sorted(list)
           n == Len(s)
           Group(k) == CHOOSE g \in (1 .. k) \X (k + 1 .. Len(s) + 1) : IsGroup(s, g[1], g[2])
<1>1. s \in Scorings /\ n = Len(list) /\ InPlace(s) /\ ToSet(s) = ToSet(list)
  BY SortedIs
<1>2. DOMAIN s = 1 .. n /\ n \in Nat
  BY <1>1 DEF Scorings
<1>3. Rank(list) = [k \in DOMAIN s |-> Placed(s, Group(k)[1], Group(k)[2], k)]
  BY DEF Rank
<1> HIDE DEF s
<1>4. \A k \in DOMAIN s : Group(k) = <<Above(s, k) + 1, Through(s, k) + 1>>
  BY <1>1, GroupIs
<1> HIDE DEF Group
<1>5. \A k \in DOMAIN s : Rank(list)[k] = Placed(s, Above(s, k) + 1, Through(s, k) + 1, k)
  BY <1>3, <1>4
<1>6. Len(Rank(list)) = n /\ DOMAIN Rank(list) = 1 .. n
  BY <1>2, <1>3
<1>7. ASSUME NEW k \in DOMAIN s
      PROVE  /\ Above(s, k) \in Int /\ Rank(list)[k].rank = Above(s, k) + 1
             /\ Rank(list)[k] = [id |-> s[k].id, rank |-> PlaceIn(s[k], ToSet(s)),
                                 percentile |-> PercentileIn(s[k], ToSet(s))]
  <2>1. Above(s, k) \in 0 .. k - 1 /\ Through(s, k) \in k .. n
    BY <1>1, Around
  <2>2. /\ PlaceIn(s[k], ToSet(s)) = Above(s, k) + 1
        /\ PercentileIn(s[k], ToSet(s)) = Percentile(n, Above(s, k) + 1, Through(s, k) + 1)
    BY <1>1, PlacesCounted
  <2>3. Rank(list)[k] = [id |-> s[k].id, rank |-> Above(s, k) + 1,
                         percentile |-> Percentile(n, Above(s, k) + 1, Through(s, k) + 1)]
    BY <1>5 DEF Placed
  <2>4. QED BY <1>2, <2>1, <2>2, <2>3
<1>8. \A e \in ToSet(list) : \E k \in DOMAIN Rank(list) :
         Rank(list)[k] = [id |-> e.id, rank |-> PlaceIn(e, ToSet(list)),
                          percentile |-> PercentileIn(e, ToSet(list))]
  <2> TAKE e \in ToSet(list)
  <2>1. PICK k \in DOMAIN s : s[k] = e
    BY <1>1 DEF ToSet
  <2>2. QED BY <1>1, <1>2, <1>6, <1>7, <2>1
<1>9. ASSUME NEW k \in 1 .. n - 1 PROVE Rank(list)[k].rank <= Rank(list)[k + 1].rank
  <2>1. k \in DOMAIN s /\ k + 1 \in DOMAIN s /\ k < k + 1
    BY <1>2
  <2>2. /\ Above(s, k) \in 0 .. k - 1 /\ Above(s, k + 1) \in 0 .. k + 1 - 1
        /\ \A m \in DOMAIN s : /\ Ahead(s[m], s[k]) <=> m <= Above(s, k)
                               /\ Ahead(s[m], s[k + 1]) <=> m <= Above(s, k + 1)
    BY <1>1, <2>1, Around
  <2>3. ASSUME NEW m \in DOMAIN s, Ahead(s[m], s[k]) PROVE Ahead(s[m], s[k + 1])
    <3>1. s[m] \in Scored /\ s[k] \in Scored /\ s[k + 1] \in Scored
      BY <1>1, <2>1 DEF Scorings
    <3>2. ~Ahead(s[k + 1], s[k])
      BY <1>1, <2>1 DEF InPlace
    <3>3. Ahead(s[k], s[k + 1]) \/ Tied(s[k], s[k + 1])
      BY <3>1, <3>2, AheadIs
    <3>4. QED BY <2>3, <3>1, <3>3, AheadOf, AheadIs
  <2>4. Above(s, k) <= Above(s, k + 1)
    <3>1. Above(s, k) = 0 \/ Above(s, k) \in DOMAIN s
      BY <1>2, <2>2
    <3>2. Above(s, k) \in DOMAIN s => Above(s, k) <= Above(s, k + 1)
      BY <2>2, <2>3
    <3>3. QED BY <2>2, <3>1, <3>2
  <2>5. Rank(list)[k].rank = Above(s, k) + 1 /\ Rank(list)[k + 1].rank = Above(s, k + 1) + 1
    BY <1>7, <2>1
  <2>6. QED BY <2>2, <2>4, <2>5
<1>10. QED BY <1>1, <1>6, <1>8, <1>9

-----------------------------------------------------------------------------
(* The board *)

Row == [id : Nat, rank : Nat \ {0}, percentile : Int \X Int]

\* Lists of rows, each with its own name, where a rank is the place of the first
\* of those who share it.
Rankings ==
    {ranked \in Seq(Row) :
       /\ \A i, j \in DOMAIN ranked : ranked[i].id = ranked[j].id => i = j
       /\ \A k \in DOMAIN ranked :
             {m \in DOMAIN ranked : ranked[m].rank < ranked[k].rank} = 1 .. ranked[k].rank - 1}

LEMMA LeastIs ==
  ASSUME NEW D \in SUBSET Nat, D # {}
  PROVE  \E i \in D : \A j \in D : i <= j
<1> DEFINE R == OpToRel(<, Nat)
<1>1. IsWellFoundedOn(R, Nat)
  BY NatLessThanWellFounded
<1>2. \A i, j \in Nat : <<i, j>> \in R <=> i < j
  BY DEF OpToRel
<1> HIDE DEF R
<1>3. PICK i \in D : \A j \in D : <<j, i>> \notin R
  BY <1>1, WFMin
<1>4. ASSUME NEW j \in D PROVE i <= j
  <2>1. ~(j < i)
    BY <1>2, <1>3
  <2>2. i \in Nat /\ j \in Nat
    OBVIOUS
  <2>3. QED BY <2>1, <2>2
<1>5. QED BY <1>4

\* The pages together are the board: each goes on where the one before it ended.
LEMMA LeaderboardIs ==
  ASSUME NEW S, NEW board \in Seq(S)
  PROVE  Leaderboard(board) = board
<1> DEFINE n == Len(board)
           D == 0 .. n + PageLimit
           rows(o) == SubSeq(board, o + 1, n)
           Onward(f, o) == FirstOf(rows(o), PageLimit)
                              \o (IF Len(rows(o)) > PageLimit THEN f[o + PageLimit] ELSE <<>>)
           rest == [o \in D |-> rows(o)]
           From == CHOOSE f : f = [o \in D |-> Onward(f, o)]
<1>1. n \in Nat /\ PageLimit \in Nat /\ PageLimit > 0
  BY BoardAssumption
<1>2. Leaderboard(board) = From[0]
  BY DEF Leaderboard
<1>3. ASSUME NEW o \in D
      PROVE  /\ Len(rows(o)) = IF o < n THEN n - o ELSE 0
             /\ rows(o) \in Seq(S)
             /\ Len(rows(o)) > PageLimit => o + PageLimit \in D /\ o + PageLimit < n
  <2>1. \A i \in o + 1 .. n : board[i] \in S
    BY <1>1
  <2>2. /\ rows(o) \in Seq(S)
        /\ Len(rows(o)) = IF o + 1 <= n THEN n - (o + 1) + 1 ELSE 0
    BY <1>1, <2>1, SubSeqProperties
  <2>3. QED BY <1>1, <2>2
<1>4. ASSUME NEW f, NEW o \in D, Len(rows(o)) > PageLimit => f[o + PageLimit] = rows(o + PageLimit)
      PROVE  Onward(f, o) = rows(o)
  <2>1. CASE Len(rows(o)) > PageLimit
    <3>1. FirstOf(rows(o), PageLimit) = SubSeq(rows(o), 1, PageLimit)
      BY <1>1, <1>3, <2>1 DEF FirstOf
    <3>2. o \in 0 .. n /\ o + PageLimit \in 0 .. n /\ n - o > PageLimit
      BY <1>1, <1>3, <2>1
    <3>3. SubSeq(rows(o), 1, PageLimit) = SubSeq(board, o + 1, o + PageLimit)
      <4>1. o + 1 \in 1 .. n /\ n \in 1 .. n /\ 1 \in 1 .. n - (o + 1) + 1
            /\ PageLimit \in 1 .. n - (o + 1) + 1
        BY <1>1, <3>2
      <4>2. SubSeq(SubSeq(board, o + 1, n), 1, PageLimit)
              = SubSeq(board, o + 1 + 1 - 1, o + 1 + PageLimit - 1)
        BY <4>1, SubSeqOfSubSeq
      <4>3. o + 1 + 1 - 1 = o + 1 /\ o + 1 + PageLimit - 1 = o + PageLimit
        BY <1>1
      <4>4. QED BY <4>2, <4>3
    <3>4. SubSeq(board, o + 1, o + PageLimit) \o SubSeq(board, o + PageLimit + 1, n)
            = SubSeq(board, o + 1, n)
      <4>1. o + 1 \in 1 .. n + 1 /\ o + PageLimit \in (o + 1) - 1 .. n /\ n \in o + PageLimit .. n
        BY <1>1, <3>2
      <4>2. QED BY <4>1, ConcatAdjacentSubSeq
    <3>5. QED BY <1>4, <2>1, <3>1, <3>3, <3>4
  <2>2. CASE ~(Len(rows(o)) > PageLimit)
    <3>1. FirstOf(rows(o), PageLimit) = SubSeq(rows(o), 1, Len(rows(o)))
      <4>1. Len(rows(o)) \in Nat
        BY <1>3
      <4>2. Len(rows(o)) < PageLimit \/ Len(rows(o)) = PageLimit
        BY <1>1, <2>2, <4>1
      <4>3. QED BY <4>2 DEF FirstOf
    <3>2. FirstOf(rows(o), PageLimit) = rows(o)
      BY <1>3, <3>1, SubSeqFull
    <3>3. rows(o) \o <<>> = rows(o)
      BY <1>3, ConcatEmptySeq
    <3>4. QED BY <2>2, <3>2, <3>3
  <2>3. QED BY <2>1, <2>2
<1> HIDE DEF rows
<1>5. rest = [o \in D |-> Onward(rest, o)]
  <2>1. \A o \in D : Onward(rest, o) = rows(o)
    BY <1>3, <1>4
  <2> HIDE DEF Onward
  <2>2. QED BY <2>1
<1>6. From = [o \in D |-> Onward(From, o)]
  <2> DEFINE Eq(f) == f = [o \in D |-> Onward(f, o)]
  <2>1. Eq(rest)
    BY <1>5
  <2> HIDE DEF Eq, rest
  <2>2. Eq(CHOOSE f : Eq(f))
    BY <2>1
  <2>3. QED BY <2>2 DEF Eq
<1> HIDE DEF From
<1>7. \A o \in D : From[o] = Onward(From, o)
  BY <1>6
<1> DEFINE bad == {d \in 0 .. n + PageLimit : From[n + PageLimit - d] # rows(n + PageLimit - d)}
<1>8. bad = {}
  <2> SUFFICES ASSUME bad # {} PROVE FALSE
    OBVIOUS
  <2>1. PICK d \in bad : \A e \in bad : d <= e
    <3>1. bad \in SUBSET Nat
      OBVIOUS
    <3> HIDE DEF bad
    <3>2. QED BY <3>1, LeastIs
  <2>2. PICK o \in D : o = n + PageLimit - d
    BY <1>1, <2>1
  <2>3. From[o] # rows(o)
    BY <2>1, <2>2
  <2>4. ASSUME Len(rows(o)) > PageLimit PROVE From[o + PageLimit] = rows(o + PageLimit)
    <3>1. o + PageLimit \in D
      BY <1>3, <2>4
    <3>2. d - PageLimit \in 0 .. n + PageLimit /\ n + PageLimit - (d - PageLimit) = o + PageLimit
          /\ d - PageLimit < d
      BY <1>1, <2>1, <2>2, <3>1
    <3>3. d - PageLimit \notin bad
      BY <2>1, <3>2
    <3>4. QED BY <3>2, <3>3
  <2>5. Onward(From, o) = rows(o)
    BY <1>4, <2>4
  <2>6. QED BY <1>7, <2>3, <2>5
<1>9. From[0] = rows(0)
  <2>1. n + PageLimit \in 0 .. n + PageLimit /\ n + PageLimit - (n + PageLimit) = 0
    BY <1>1
  <2>2. n + PageLimit \notin bad
    BY <1>8
  <2>3. QED BY <2>1, <2>2
<1>10. rows(0) = board
  BY <1>1, SubSeqFull DEF rows
<1>11. QED BY <1>2, <1>9, <1>10

\* The board is sorted, and has every row once.
LEMMA BoardIs ==
  ASSUME NEW ranked \in Rankings
  PROVE  /\ DOMAIN Board(ranked) = 1 .. Len(ranked) /\ Board(ranked) \in Seq(Row)
         /\ Len(Board(ranked)) = Len(ranked) /\ ToSet(Board(ranked)) = ToSet(ranked)
         /\ \A i, j \in 1 .. Len(ranked) : Board(ranked)[i] = Board(ranked)[j] => i = j
         /\ \A i, j \in 1 .. Len(ranked) : i < j => ~Outranks(Board(ranked)[j], Board(ranked)[i])
<1> DEFINE n == Len(ranked)
           S == ToSet(ranked)
           above == [r \in S |-> {o \in S : Outranks(o, r)}]
           At(k) == CHOOSE r \in S : Cardinality(above[r]) = k - 1
           b == [k \in 1 .. n |-> At(k)]
<1>1. /\ ranked \in Seq(Row) /\ DOMAIN ranked = 1 .. n /\ n \in Nat
      /\ \A i, j \in 1 .. n : ranked[i].id = ranked[j].id => i = j
  BY DEF Rankings
<1>2. S = {ranked[i] : i \in 1 .. n} /\ S \subseteq Row
  BY <1>1 DEF ToSet
<1>3. \A o, r \in S : o # r => o.id # r.id
  BY <1>1, <1>2
<1>4. IsFiniteSet(S) /\ Cardinality(S) = n
  <2>1. \A i, j \in 1 .. n : ranked[i] = ranked[j] => i = j
    BY <1>1
  <2>2. \A r \in S : \E i \in 1 .. n : ranked[i] = r
    BY <1>2
  <2>3. ranked \in [1 .. n -> S]
    BY <1>1, <1>2
  <2>4. ranked \in Bijection(1 .. n, S)
    BY <2>1, <2>2, <2>3 DEF Bijection, Injection, Surjection, IsInjective
  <2>5. ExistsBijection(1 .. n, S)
    BY <2>4 DEF ExistsBijection
  <2>6. QED BY <1>1, <2>5, UpTo, FS_Bijection
<1>5. \A o, r \in S : /\ o.rank \in Int /\ o.id \in Int
                      /\ o # r => Outranks(o, r) \/ Outranks(r, o)
                      /\ ~Outranks(o, o)
  <2>1. \A o \in S : o.rank \in Int /\ o.id \in Int
    BY <1>2 DEF Row
  <2>2. QED BY <1>3, <2>1 DEF Outranks
<1>6. \A o, r, q \in S : Outranks(o, r) /\ Outranks(r, q) => Outranks(o, q)
  <2>1. \A o \in S : o.rank \in Int /\ o.id \in Int
    BY <1>5
  <2>2. QED BY <2>1 DEF Outranks
<1>7. above \in [S -> SUBSET S]
  OBVIOUS
<1>8. \A o, r \in S : Outranks(o, r) <=> o \in above[r]
  OBVIOUS
<1>9. ASSUME NEW o \in S, NEW r \in S, Outranks(o, r)
      PROVE  o \in above[r] /\ above[o] \subseteq above[r]
  BY <1>6, <1>9
<1>10. Board(ranked) = b
  <2> DEFINE Pick(k) == CHOOSE row \in S : Cardinality({o \in S : Outranks(o, row)}) = k - 1
  <2>1. \A k : Pick(k) = At(k)
    OBVIOUS
  <2>2. Board(ranked) = [k \in 1 .. Cardinality(S) |-> Pick(k)]
    BY DEF Board
  <2> HIDE DEF Pick, At
  <2>3. QED BY <1>4, <2>1, <2>2
<1> HIDE DEF above, S
<1>11. /\ \A i, j \in S : i \in above[j] => Cardinality(above[i]) < Cardinality(above[j])
       /\ \A k \in 1 .. n : \E i \in S : Cardinality(above[i]) = k - 1
       /\ \A i \in S : Cardinality(above[i]) \in 0 .. n - 1
  <2>1. \A i \in S : i \notin above[i]
    BY <1>5, <1>8
  <2>2. \A i, j \in S : i # j => \/ i \in above[j] /\ above[i] \subseteq above[j]
                                 \/ j \in above[i] /\ above[j] \subseteq above[i]
    BY <1>5, <1>9
  <2>3. /\ Cardinality(S) \in Nat
        /\ \A i \in S : Cardinality(above[i]) \in 0 .. Cardinality(S) - 1
        /\ \A i, j \in S : i \in above[j] => Cardinality(above[i]) < Cardinality(above[j])
        /\ \A k \in 1 .. Cardinality(S) : \E i \in S : Cardinality(above[i]) = k - 1
    BY <1>4, <1>7, <2>1, <2>2, OrderRanks
  <2>4. QED BY <1>4, <2>3
<1>12. \A k \in 1 .. n : b[k] \in S /\ Cardinality(above[b[k]]) = k - 1
  BY <1>11
<1> HIDE DEF b
<1>13. \A i, j \in 1 .. n : b[i] = b[j] => i = j
  BY <1>1, <1>12
<1>14. DOMAIN b = 1 .. n /\ b \in [1 .. n -> S]
  BY <1>12 DEF b
<1>15. b \in Seq(Row) /\ Len(b) = n
  BY <1>1, <1>2, <1>14
<1>16. ToSet(b) = S
  <2>1. b \in Injection(1 .. n, S)
    BY <1>13, <1>14 DEF Injection, IsInjective
  <2>2. b \in Surjection(1 .. n, S)
    BY <1>1, <1>4, <2>1, UpTo, FS_Injection
  <2>3. \A r \in S : \E k \in 1 .. n : b[k] = r
    BY <2>2 DEF Surjection
  <2>4. QED BY <1>12, <1>14, <2>3 DEF ToSet
<1>17. ASSUME NEW i \in 1 .. n, NEW j \in 1 .. n, i < j PROVE ~Outranks(b[j], b[i])
  <2>1. i \in Int /\ j \in Int
    BY <1>1
  <2>2. b[i] \in S /\ b[j] \in S /\ Cardinality(above[b[i]]) = i - 1
        /\ Cardinality(above[b[j]]) = j - 1
    BY <1>12
  <2>3. QED BY <1>8, <1>11, <1>17, <2>1, <2>2
<1>18. QED BY <1>10, <1>13, <1>14, <1>15, <1>16, <1>17 DEF S

\* Who is ranked but not in the top is below it, or tied with one in the top.
MeOnce(ranked) ==
    \A me \in ToSet(ranked) :
       LET top == me \in ToSet(TopRows(ranked))
           below == MeOutside(me, ranked)
       IN /\ ~(top /\ below)
          /\ top \/ below \/ (me.rank <= Top /\ \E o \in ToSet(TopRows(ranked)) : o.rank = me.rank)

LEMMA ViewerShown ==
  ASSUME NEW ranked \in Rankings
  PROVE  MeOnce(ranked)
<1> SUFFICES ASSUME NEW me \in ToSet(ranked), me \notin ToSet(TopRows(ranked)), me.rank <= Top
             PROVE  \E o \in ToSet(TopRows(ranked)) : o.rank = me.rank
  <2>1. ASSUME NEW me \in ToSet(ranked) PROVE me.rank <= Top \/ me.rank > Top
    <3>1. ranked \in Seq(Row)
      BY DEF Rankings
    <3>2. me \in Row
      BY <3>1 DEF ToSet
    <3>3. QED BY <3>2, BoardAssumption DEF Row
  <2>2. QED BY <2>1 DEF MeOnce, MeOutside
<1> DEFINE n == Len(ranked)
           b == Board(ranked)
           m == IF n < Top THEN n ELSE Top
           r == me.rank
<1>1. /\ ranked \in Seq(Row) /\ DOMAIN ranked = 1 .. n /\ n \in Nat
      /\ \A i, j \in 1 .. n : ranked[i].id = ranked[j].id => i = j
      /\ \A k \in 1 .. n : {i \in 1 .. n : ranked[i].rank < ranked[k].rank}
                              = 1 .. ranked[k].rank - 1
  BY DEF Rankings
<1>2. /\ DOMAIN b = 1 .. n /\ b \in Seq(Row) /\ Len(b) = n /\ ToSet(b) = ToSet(ranked)
      /\ \A i, j \in 1 .. n : b[i] = b[j] => i = j
      /\ \A i, j \in 1 .. n : i < j => ~Outranks(b[j], b[i])
  BY BoardIs
<1> HIDE DEF b
<1>3. m \in 0 .. n /\ Top \in Nat
  BY <1>1, BoardAssumption
<1>4. /\ DOMAIN TopRows(ranked) = 1 .. m
      /\ \A i \in 1 .. m : TopRows(ranked)[i] = b[i]
  <2>1. TopRows(ranked) = SubSeq(b, 1, m)
    BY <1>2 DEF TopRows, FirstOf, b
  <2>2. \A i \in 1 .. m : b[i] \in Row
    BY <1>2, <1>3
  <2>3. /\ SubSeq(b, 1, m) \in Seq(Row)
        /\ Len(SubSeq(b, 1, m)) = IF 1 <= m THEN m - 1 + 1 ELSE 0
        /\ \A i \in 1 .. m - 1 + 1 : SubSeq(b, 1, m)[i] = b[1 + i - 1]
    <3> HIDE DEF m
    <3>1. 1 \in Int /\ m \in Int
      BY <1>3
    <3>2. QED BY <2>2, <3>1, SubSeqProperties
  <2> HIDE DEF m
  <2>4. Len(SubSeq(b, 1, m)) = m /\ DOMAIN SubSeq(b, 1, m) = 1 .. m
    BY <1>3, <2>3
  <2>5. ASSUME NEW i \in 1 .. m PROVE SubSeq(b, 1, m)[i] = b[i]
    <3>1. i \in 1 .. m - 1 + 1 /\ 1 + i - 1 = i
      BY <1>3
    <3>2. QED BY <2>3, <3>1
  <2>6. QED BY <2>1, <2>4, <2>5
<1>5. \A i \in 1 .. m : b[i] \in ToSet(TopRows(ranked))
  BY <1>4 DEF ToSet
<1>6. PICK p \in 1 .. n : b[p] = me
  BY <1>2 DEF ToSet
<1>7. m = Top /\ p > Top
  <2>1. p \notin 1 .. m
    BY <1>5, <1>6
  <2>2. n < Top => m = n
    OBVIOUS
  <2>3. ~(n < Top) => m = Top
    OBVIOUS
  <2> HIDE DEF m
  <2>4. p \in Nat /\ 1 <= p /\ p <= n /\ n \in Nat
    BY <1>1
  <2>5. m < p
    BY <1>3, <2>1, <2>4
  <2> HIDE DEF n
  <2>6. QED BY <1>3, <2>2, <2>3, <2>4, <2>5
<1> HIDE DEF m
<1>8. PICK k \in 1 .. n : ranked[k] = me
  BY <1>1 DEF ToSet
<1>9. r \in 1 .. Top /\ r \in 1 .. n
  <2>1. me \in Row
    BY <1>1, <1>8
  <2>2. r \in Nat \ {0}
    BY <2>1 DEF Row
  <2>3. QED BY <1>1, <1>3, <1>7, <2>2
<1> DEFINE T == {o \in ToSet(ranked) : o.rank < r}
           E == {i \in 1 .. n : b[i] \in T}
<1>10. Cardinality(T) = r - 1
  <2>1. Cardinality(T) = Cardinality({i \in 1 .. n : ranked[i] \in T})
    <3>1. \A i, j \in 1 .. n : ranked[i] = ranked[j] => i = j
      BY <1>1
    <3>2. T \in SUBSET ToSet(ranked)
      OBVIOUS
    <3> HIDE DEF T
    <3>3. QED BY <1>1, <3>1, <3>2, CountPlaces
  <2>2. {i \in 1 .. n : ranked[i] \in T} = {i \in 1 .. n : ranked[i].rank < r}
    BY <1>1 DEF ToSet
  <2>3. {i \in 1 .. n : ranked[i] \in T} = 1 .. r - 1
    BY <1>1, <1>8, <2>2
  <2>4. r - 1 \in Nat
    BY <1>9
  <2>5. QED BY <2>1, <2>3, <2>4, UpTo
<1>11. Cardinality(T) = Cardinality(E)
  <2>1. T \in SUBSET ToSet(b)
    BY <1>2
  <2> HIDE DEF T
  <2>2. QED BY <1>1, <1>2, <2>1, CountPlaces
<1>12. \A i \in 1 .. n : i \in E <=> b[i].rank < r
  BY <1>2 DEF ToSet
<1>13. \A i \in 1 .. n : b[i].rank \in Int /\ b[i] \in Row
  <2>1. \A i \in 1 .. n : b[i] \in Row
    BY <1>2
  <2>2. QED BY <2>1 DEF Row
<1>14. \A j \in E, i \in 1 .. n : i < j => i \in E
  <2> SUFFICES ASSUME NEW j \in E, NEW i \in 1 .. n, i < j PROVE i \in E
    OBVIOUS
  <2>1. j \in 1 .. n /\ b[j].rank < r
    BY <1>12
  <2>2. ~(b[j].rank < b[i].rank)
    BY <1>2, <2>1 DEF Outranks
  <2>3. b[i].rank < r
    BY <1>9, <1>13, <2>1, <2>2
  <2>4. QED BY <1>12, <2>3
<1>15. E = 1 .. r - 1
  <2>1. E \in SUBSET (1 .. n)
    OBVIOUS
  <2> HIDE DEF E, T
  <2>2. E = 1 .. Cardinality(E)
    BY <1>1, <1>14, <2>1, DownTo
  <2>3. QED BY <1>10, <1>11, <2>2
<1>16. ~(b[r].rank < r)
  BY <1>9, <1>12, <1>15
<1>17. ~(r < b[r].rank)
  <2>1. r < p
    BY <1>3, <1>7, <1>9
  <2>2. ~Outranks(b[p], b[r])
    BY <1>2, <1>9, <2>1
  <2>3. QED BY <1>6, <2>2 DEF Outranks
<1>18. b[r].rank = r
  BY <1>9, <1>13, <1>16, <1>17
<1>19. b[r] \in ToSet(TopRows(ranked))
  BY <1>5, <1>7, <1>9
<1>20. QED BY <1>18, <1>19

\* What rank returns is such a list.
LEMMA RankRanks ==
  ASSUME NEW list \in Scorings
  PROVE  Rank(list) \in Rankings
<1> DEFINE s == Sorted(list)
           n == Len(s)
           ranked == Rank(list)
<1>1. s \in Scorings /\ InPlace(s)
  BY SortedIs
<1>2. DOMAIN s = 1 .. n /\ n \in Nat /\ \A k \in 1 .. n : s[k] \in Scored
  BY <1>1 DEF Scorings
<1>3. DOMAIN ranked = 1 .. n
  BY <1>2 DEF Rank
<1>4. \A k \in 1 .. n : ranked[k] = Placed(s, Above(s, k) + 1, Through(s, k) + 1, k)
  <2> DEFINE Group(k) == CHOOSE g \in (1 .. k) \X (k + 1 .. Len(s) + 1) : IsGroup(s, g[1], g[2])
  <2>1. ranked = [k \in DOMAIN s |-> Placed(s, Group(k)[1], Group(k)[2], k)]
    BY DEF Rank
  <2>2. \A k \in DOMAIN s : Group(k) = <<Above(s, k) + 1, Through(s, k) + 1>>
    BY <1>1, GroupIs
  <2> HIDE DEF Group, s, ranked
  <2>3. QED BY <1>2, <2>1, <2>2
<1> HIDE DEF s, ranked
<1>5. ASSUME NEW k \in 1 .. n
      PROVE  /\ Above(s, k) \in Nat /\ Above(s, k) < k /\ Above(s, k) < n /\ Through(s, k) \in Nat
             /\ \A m \in 1 .. n : Ahead(s[m], s[k]) <=> m <= Above(s, k)
  <2>1. /\ Above(s, k) \in 0 .. k - 1 /\ Through(s, k) \in k .. n
        /\ \A m \in 1 .. n : Ahead(s[m], s[k]) <=> m <= Above(s, k)
    BY <1>1, <1>2, Around
  <2>2. k \in Nat /\ 1 <= k /\ k <= n /\ n \in Nat
    BY <1>2
  <2>3. QED BY <2>1, <2>2
<1>6. ASSUME NEW k \in 1 .. n
      PROVE  ranked[k] \in Row /\ ranked[k].id = s[k].id /\ ranked[k].rank = Above(s, k) + 1
  <2>1. ranked[k] = [id |-> s[k].id, rank |-> Above(s, k) + 1,
                     percentile |-> Percentile(n, Above(s, k) + 1, Through(s, k) + 1)]
    BY <1>4 DEF Placed
  <2>2. s[k].id \in Nat
    BY <1>2 DEF Scored
  <2>3. Above(s, k) + 1 \in Nat \ {0}
        /\ Percentile(n, Above(s, k) + 1, Through(s, k) + 1) \in Int \X Int
    <3>1. Above(s, k) \in Nat /\ Through(s, k) \in Nat /\ n \in Nat
      BY <1>2, <1>5
    <3>2. PICK i, j \in Int : i = Above(s, k) + 1 /\ j = Through(s, k) + 1
      BY <3>1
    <3>3. 2 * n - (i + j - 1) \in Int /\ 2 * (n - 1) \in Int
      BY <3>1
    <3>4. Percentile(n, i, j) \in Int \X Int
      BY <3>3 DEF Percentile
    <3>5. QED BY <3>1, <3>2, <3>4
  <2>4. QED BY <2>1, <2>2, <2>3 DEF Row
<1>7. \A k, m \in 1 .. n : ranked[k].id = ranked[m].id => k = m
  BY <1>1, <1>2, <1>6 DEF Scorings
<1>8. ASSUME NEW k \in 1 .. n, NEW m \in 1 .. n
      PROVE  ranked[m].rank < ranked[k].rank <=> m <= Above(s, k)
  <2>1. /\ Above(s, k) \in Int /\ Above(s, m) \in Int /\ m \in Int /\ Above(s, m) < m
        /\ ranked[k].rank = Above(s, k) + 1 /\ ranked[m].rank = Above(s, m) + 1
    BY <1>2, <1>5, <1>6
  <2>2. ASSUME ~(m <= Above(s, k)) PROVE Above(s, k) <= Above(s, m)
    <3>1. ~Ahead(s[m], s[k])
      BY <1>5, <2>2
    <3>2. \A i \in 1 .. n : Ahead(s[i], s[k]) => Ahead(s[i], s[m])
      <4> TAKE i \in 1 .. n
      <4>1. s[i] \in Scored /\ s[k] \in Scored /\ s[m] \in Scored
        BY <1>2
      <4>2. Ahead(s[k], s[m]) \/ Tied(s[k], s[m])
        BY <3>1, <4>1, AheadIs
      <4>3. QED BY <4>1, <4>2, AheadOf, AheadIs
    <3>3. PICK a : a = Above(s, k)
      OBVIOUS
    <3>4. a = 0 \/ a \in 1 .. n
      BY <1>2, <1>5, <3>3
    <3>5. a \in 1 .. n => Ahead(s[a], s[m])
      <4>1. \A i \in 1 .. n : Ahead(s[i], s[k]) <=> i <= a
        BY <1>5, <3>3
      <4>2. a \in 1 .. n => a <= a
        OBVIOUS
      <4>3. QED BY <3>2, <4>1, <4>2
    <3>6. a \in 1 .. n => a <= Above(s, m)
      BY <1>5, <3>5
    <3>7. Above(s, m) \in Nat
      BY <1>5
    <3>8. QED BY <3>3, <3>4, <3>6, <3>7
  <2>3. QED BY <2>1, <2>2
<1>9. ASSUME NEW k \in 1 .. n
      PROVE  {m \in 1 .. n : ranked[m].rank < ranked[k].rank} = 1 .. ranked[k].rank - 1
  <2>1. {m \in 1 .. n : ranked[m].rank < ranked[k].rank} = {m \in 1 .. n : m <= Above(s, k)}
    BY <1>8
  <2>2. Above(s, k) \in 0 .. n /\ ranked[k].rank - 1 = Above(s, k)
    BY <1>2, <1>5, <1>6
  <2>3. {m \in 1 .. n : m <= Above(s, k)} = 1 .. Above(s, k)
    BY <1>2, <2>2
  <2>4. QED BY <2>1, <2>2, <2>3
<1>10. ranked \in Seq(Row)
  <2>1. ranked \in [1 .. n -> Row]
    <3>1. ranked = [k \in 1 .. n |-> ranked[k]]
      BY <1>2, <1>3 DEF ranked, Rank, s
    <3>2. QED BY <1>6, <3>1
  <2>2. QED BY <1>2, <2>1
<1>11. ranked \in Rankings
  BY <1>3, <1>7, <1>9, <1>10 DEF Rankings
<1>12. QED BY <1>11 DEF ranked

-----------------------------------------------------------------------------

\* The sheet numbers the entries as they are scored.
SheetInv ==
    /\ entries \in Seq(Scored)
    /\ \A i \in DOMAIN entries : entries[i].id = i

LEMMA TimeIs ==
  ASSUME NEW a \in Int, NEW b \in Int, NEW c \in Int, NEW d \in Int
  PROVE  TimeUsed(a, b, c, d) \in Int
  BY DEF TimeUsed

LEMMA ScoreKeeps ==
  ASSUME SheetInv, NEW points \in Scores, NEW joined \in 0 .. Spans, NEW done \in 0 .. Spans,
         Score(points, joined, done)
  PROVE  SheetInv'
<1> DEFINE n == Len(entries)
           entry == [id |-> n + 1, score |-> points, timeUsed |-> TimeUsed(0, Spans, joined, done)]
<1>1. n \in Nat /\ DOMAIN entries = 1 .. n
  BY DEF SheetInv
<1>2. points \in Int /\ TimeUsed(0, Spans, joined, done) \in Int
  BY EntriesAssumption, TimeIs
<1>3. entry \in Scored /\ entry.id = n + 1
  BY <1>1, <1>2 DEF Scored
<1>4. entries' = Append(entries, entry)
  BY DEF Score
<1> HIDE DEF entry
<1>5. entries' \in Seq(Scored)
  BY <1>3, <1>4 DEF SheetInv
<1>6. ASSUME NEW i \in DOMAIN entries' PROVE entries'[i].id = i
  <2>1. i \in 1 .. n + 1
    BY <1>1, <1>4, <1>6 DEF SheetInv
  <2>2. CASE i = n + 1
    <3>1. entries'[i] = entry
      BY <1>1, <1>4, <2>2 DEF SheetInv
    <3>2. QED BY <1>3, <2>2, <3>1
  <2>3. CASE i # n + 1
    <3>1. i \in 1 .. n
      BY <1>1, <2>1, <2>3
    <3>2. entries'[i] = entries[i]
      BY <1>1, <1>4, <3>1 DEF SheetInv
    <3>3. QED BY <1>1, <3>1, <3>2 DEF SheetInv
  <2>4. QED BY <2>2, <2>3
<1>7. QED BY <1>5, <1>6 DEF SheetInv

LEMMA SheetStep == ASSUME SheetInv, [Next]_vars PROVE SheetInv'
<1>1. CASE UNCHANGED entries
  BY <1>1 DEF SheetInv
<1>2. ASSUME NEW points \in Scores, NEW joined \in 0 .. Spans, NEW done \in 0 .. Spans,
             Score(points, joined, done)
      PROVE  SheetInv'
  BY <1>2, ScoreKeeps
<1>3. ASSUME NEW q \in Questions, NEW picked \in OptionLists \ {<<>>}, Answer(q, picked)
      PROVE  UNCHANGED entries
  BY <1>3 DEF Answer
<1>4. ASSUME Sheet PROVE SheetInv'
  BY <1>1, <1>2, <1>3, <1>4 DEF Sheet
<1>5. ASSUME Shape \/ Offer \/ List \/ Watch \/ Type \/ UNCHANGED vars PROVE UNCHANGED entries
  BY <1>5 DEF Shape, Offer, List, Watch, Type, vars, sheetVars
<1>6. QED BY <1>1, <1>4, <1>5 DEF Next

\* For any scores and times: everyone is ranked once, one place below all who are ahead
\* of them, with those they tied, and with the share of the others they beat
\* (scoring.ts, rank).
THEOREM RanksHold == Spec => []RankIsPlace
<1>1. Init => SheetInv
  BY DEF Init, SheetRest, SheetInv
<1>2. SheetInv /\ [Next]_vars => SheetInv'
  BY SheetStep
<1>3. SheetInv => RankIsPlace
  <2> SUFFICES ASSUME SheetInv PROVE RankIsPlace
    OBVIOUS
  <2>1. entries \in Scorings
    BY DEF SheetInv, Scorings
  <2>2. PICK list \in Scorings : list = entries
    BY <2>1
  <2>3. QED BY <2>2, RankIs DEF RankIsPlace
<1>4. QED BY <1>1, <1>2, <1>3, PTL DEF Spec

\* For a top and pages of any size: the pages of the leaderboard together are the board,
\* and a ranked viewer is in the top, below it, or tied with one in the top
\* (contests.service.ts, results and leaderboard; ContestResults.tsx, Leaderboard).
THEOREM BoardHolds == Spec => []BoardShowsMe
<1>1. Init => SheetInv
  BY DEF Init, SheetRest, SheetInv
<1>2. SheetInv /\ [Next]_vars => SheetInv'
  BY SheetStep
<1>3. SheetInv => BoardShowsMe
  <2> SUFFICES ASSUME SheetInv PROVE BoardShowsMe
    OBVIOUS
  <2>1. entries \in Scorings
    BY DEF SheetInv, Scorings
  <2>2. PICK ranked \in Rankings : ranked = Rank(entries)
    BY <2>1, RankRanks
  <2>3. Leaderboard(Board(ranked)) = Board(ranked)
    BY BoardIs, LeaderboardIs
  <2>4. MeOnce(ranked)
    BY ViewerShown
  <2>5. QED BY <2>2, <2>3, <2>4 DEF BoardShowsMe, MeOnce
<1>4. QED BY <1>1, <1>2, <1>3, PTL DEF Spec

-----------------------------------------------------------------------------
(* The points of an entry *)

\* From 0 on, up to n.
LEMMA Upward ==
  ASSUME NEW n \in Nat, NEW D, 0 \in D, \A i \in 0 .. n - 1 : i \in D => i + 1 \in D
  PROVE  0 .. n \subseteq D
<1> DEFINE bad == (0 .. n) \ D
<1> SUFFICES ASSUME bad # {} PROVE FALSE
  OBVIOUS
<1>1. PICK i \in bad : \A j \in bad : i <= j
  <2>1. bad \in SUBSET Nat
    OBVIOUS
  <2> HIDE DEF bad
  <2>2. QED BY <2>1, LeastIs
<1>2. i \in 0 .. n /\ i \notin D /\ i # 0
  BY <1>1
<1>3. i - 1 \in 0 .. n - 1 /\ i - 1 + 1 = i
  BY <1>2
<1>4. i - 1 \notin D
  BY <1>2, <1>3
<1>5. i - 1 \in bad
  BY <1>3, <1>4
<1>6. i <= i - 1
  BY <1>1, <1>5
<1>7. QED BY <1>2, <1>6

\* g is what a loop over 1 .. n holds after each of its steps.
Loops(g, n, base, step) == g[0] = base /\ \A i \in 1 .. n : g[i] = step[<<g[i - 1], i>>]

\* A loop over the places of a list has a value after each of them.
LEMMA LoopIs ==
  ASSUME NEW n \in Nat, NEW T, NEW base \in T, NEW step \in [T \X (1 .. n) -> T]
  PROVE  \E g \in [0 .. n -> T] : Loops(g, n, base, step)
<1> DEFINE D == {m \in 0 .. n : \E g \in [0 .. m -> T] : Loops(g, m, base, step)}
<1>1. 0 \in D
  <2> DEFINE g == [i \in 0 .. 0 |-> base]
  <2>1. g \in [0 .. 0 -> T] /\ Loops(g, 0, base, step)
    BY DEF Loops
  <2> HIDE DEF g
  <2>2. 0 \in 0 .. n
    OBVIOUS
  <2>3. QED BY <2>1, <2>2
<1>2. ASSUME NEW m \in 0 .. n - 1, m \in D PROVE m + 1 \in D
  <2>1. PICK g \in [0 .. m -> T] : Loops(g, m, base, step)
    BY <1>2
  <2>2. m + 1 \in 1 .. n /\ m + 1 \in 0 .. n /\ g[m] \in T
    OBVIOUS
  <2>3. PICK last \in T : last = step[<<g[m], m + 1>>]
    BY <2>2
  <2> DEFINE h == [i \in 0 .. m + 1 |-> IF i = m + 1 THEN last ELSE g[i]]
  <2>4. h \in [0 .. m + 1 -> T]
    OBVIOUS
  <2>5. /\ \A i \in 0 .. m : h[i] = g[i]
        /\ h[m + 1] = last
    OBVIOUS
  <2> HIDE DEF h
  <2>6. ASSUME NEW i \in 1 .. m + 1 PROVE h[i] = step[<<h[i - 1], i>>]
    <3>1. CASE i = m + 1
      <4>1. i - 1 = m /\ h[i - 1] = g[m]
        BY <2>5, <3>1
      <4>2. QED BY <2>3, <2>5, <3>1, <4>1
    <3>2. CASE i # m + 1
      <4>1. i \in 1 .. m /\ i \in 0 .. m /\ i - 1 \in 0 .. m
        BY <3>2
      <4>2. QED BY <2>1, <2>5, <4>1 DEF Loops
    <3>3. QED BY <3>1, <3>2
  <2>7. h[0] = base
    BY <2>1, <2>5 DEF Loops
  <2>8. Loops(h, m + 1, base, step)
    BY <2>6, <2>7 DEF Loops
  <2>9. QED BY <2>2, <2>4, <2>8
<1>3. n \in D
  <2> HIDE DEF D
  <2>1. 0 .. n \subseteq D
    BY <1>1, <1>2, Upward
  <2>2. QED BY <2>1
<1>4. QED BY <1>3

-----------------------------------------------------------------------------

\* SumOf adds the numbers one by one.
LEMMA SumIs ==
  ASSUME NEW list \in Seq(Int)
  PROVE  \E g \in [0 .. Len(list) -> Int] :
            /\ g[0] = 0 /\ g[Len(list)] = SumOf(list)
            /\ \A i \in 1 .. Len(list) : g[i] = g[i - 1] + list[i]
<1> DEFINE n == Len(list)
           Onward(f, i) == IF i = 0 THEN 0 ELSE f[i - 1] + list[i]
           upTo == CHOOSE f : f = [i \in 0 .. n |-> Onward(f, i)]
           step == [x \in Int \X (1 .. n) |-> x[1] + list[x[2]]]
<1>1. n \in Nat /\ \A i \in 1 .. n : list[i] \in Int
  OBVIOUS
<1>2. SumOf(list) = upTo[n]
  BY DEF SumOf
<1>3. step \in [Int \X (1 .. n) -> Int]
  BY <1>1
<1>4. \A x \in Int, i \in 1 .. n : step[<<x, i>>] = x + list[i]
  OBVIOUS
<1>5. PICK g \in [0 .. n -> Int] : Loops(g, n, 0, step)
  <2> HIDE DEF n, step
  <2>1. 0 \in Int
    OBVIOUS
  <2>2. QED BY <1>1, <1>3, <2>1, LoopIs
<1>6. ASSUME NEW i \in 1 .. n PROVE g[i] = g[i - 1] + list[i]
  <2>1. i - 1 \in 0 .. n
    OBVIOUS
  <2>2. g[i - 1] \in Int
    BY <2>1
  <2> HIDE DEF step
  <2>3. QED BY <1>4, <1>5, <2>2 DEF Loops
<1> HIDE DEF step
<1>7. ASSUME NEW i \in 0 .. n PROVE g[i] = Onward(g, i)
  <2>1. CASE i = 0
    BY <1>5, <2>1 DEF Loops
  <2>2. CASE i # 0
    <3>1. i \in 1 .. n
      BY <2>2
    <3>2. QED BY <1>6, <2>2, <3>1
  <2>3. QED BY <2>1, <2>2
<1> DEFINE Eq(f) == f = [i \in 0 .. n |-> Onward(f, i)]
<1>8. Eq(g)
  <2> HIDE DEF Onward
  <2>1. QED BY <1>7
<1>9. Eq(upTo)
  <2> HIDE DEF Eq
  <2>1. Eq(CHOOSE f : Eq(f))
    BY <1>8
  <2>2. QED BY <2>1 DEF Eq
<1> HIDE DEF upTo
<1>10. \A i \in 0 .. n : upTo[i] = Onward(upTo, i)
  BY <1>9
<1> DEFINE D == {i \in 0 .. n : upTo[i] = g[i]}
<1>11. 0 \in D
  BY <1>1, <1>5, <1>10 DEF Loops
<1>12. ASSUME NEW i \in 0 .. n - 1, i \in D PROVE i + 1 \in D
  <2>1. i + 1 \in 1 .. n /\ i + 1 \in 0 .. n /\ i + 1 - 1 = i /\ i + 1 # 0
    BY <1>1
  <2>2. upTo[i + 1] = upTo[i] + list[i + 1]
    BY <1>10, <2>1
  <2>3. g[i + 1] = g[i] + list[i + 1]
    BY <1>6, <2>1
  <2>4. QED BY <1>12, <2>1, <2>2, <2>3
<1>13. n \in D
  <2> HIDE DEF D
  <2>1. 0 .. n \subseteq D
    BY <1>1, <1>11, <1>12, Upward
  <2>2. QED BY <1>1, <2>1
<1>14. QED BY <1>2, <1>5, <1>6, <1>13 DEF Loops

LEMMA SumTyped == ASSUME NEW list \in Seq(Int) PROVE SumOf(list) \in Int
<1>1. PICK g \in [0 .. Len(list) -> Int] : g[Len(list)] = SumOf(list)
  BY SumIs
<1>2. Len(list) \in 0 .. Len(list)
  OBVIOUS
<1>3. QED BY <1>1, <1>2

LEMMA SumZero ==
  ASSUME NEW list \in Seq(Int), \A i \in DOMAIN list : list[i] = 0
  PROVE  SumOf(list) = 0
<1> DEFINE n == Len(list)
<1>1. n \in Nat /\ DOMAIN list = 1 .. n
  OBVIOUS
<1>2. PICK g \in [0 .. n -> Int] :
        /\ g[0] = 0 /\ g[n] = SumOf(list)
        /\ \A i \in 1 .. n : g[i] = g[i - 1] + list[i]
  BY SumIs
<1> DEFINE D == {i \in 0 .. n : g[i] = 0}
<1>3. 0 \in D
  BY <1>2
<1>4. ASSUME NEW i \in 0 .. n - 1, i \in D PROVE i + 1 \in D
  <2>1. i + 1 \in 1 .. n /\ i + 1 - 1 = i
    OBVIOUS
  <2>2. g[i + 1] = g[i] + list[i + 1]
    BY <1>2, <2>1
  <2>3. QED BY <1>1, <1>4, <2>1, <2>2
<1>5. n \in D
  <2> HIDE DEF D
  <2>1. 0 .. n \subseteq D
    BY <1>1, <1>3, <1>4, Upward
  <2>2. QED BY <1>1, <2>1
<1>6. QED BY <1>2, <1>5

\* A number of the list that grows makes the sum grow as much.
LEMMA SumGrows ==
  ASSUME NEW a \in Seq(Int), NEW b \in Seq(Int), Len(a) = Len(b),
         NEW k \in DOMAIN a, NEW d \in Int, b[k] = a[k] + d,
         \A i \in DOMAIN a : i # k => b[i] = a[i]
  PROVE  SumOf(b) = SumOf(a) + d
<1> DEFINE n == Len(a)
<1>1. n \in Nat /\ DOMAIN a = 1 .. n /\ DOMAIN b = 1 .. n
  OBVIOUS
<1>2. PICK f \in [0 .. n -> Int] :
        /\ f[0] = 0 /\ f[n] = SumOf(a)
        /\ \A i \in 1 .. n : f[i] = f[i - 1] + a[i]
  BY SumIs
<1>3. PICK g \in [0 .. n -> Int] :
        /\ g[0] = 0 /\ g[n] = SumOf(b)
        /\ \A i \in 1 .. n : g[i] = g[i - 1] + b[i]
  <2>1. PICK g \in [0 .. Len(b) -> Int] :
          /\ g[0] = 0 /\ g[Len(b)] = SumOf(b)
          /\ \A i \in 1 .. Len(b) : g[i] = g[i - 1] + b[i]
    BY SumIs
  <2>2. QED BY <2>1
<1>4. k \in 1 .. n /\ a \in [1 .. n -> Int]
  BY <1>1
<1> DEFINE D == {i \in 0 .. n : g[i] = f[i] + (IF i < k THEN 0 ELSE d)}
<1>5. 0 \in D
  BY <1>2, <1>3, <1>4
<1>6. ASSUME NEW i \in 0 .. n - 1, i \in D PROVE i + 1 \in D
  <2>1. i + 1 \in 1 .. n /\ i + 1 - 1 = i
    OBVIOUS
  <2>2. f[i + 1] = f[i] + a[i + 1] /\ g[i + 1] = g[i] + b[i + 1]
    <3> HIDE DEF n
    <3>1. PICK j \in 1 .. n : j = i + 1 /\ j - 1 = i
      BY <2>1
    <3>2. f[j] = f[j - 1] + a[j] /\ g[j] = g[j - 1] + b[j]
      BY <1>2, <1>3
    <3>3. QED BY <3>1, <3>2
  <2>3. f[i] \in Int /\ g[i] \in Int /\ a[i + 1] \in Int
    <3> HIDE DEF n
    <3>1. i \in 0 .. n
      BY <1>1
    <3>2. f[i] \in Int /\ g[i] \in Int
      BY <3>1
    <3>3. a[i + 1] \in Int
      BY <1>4, <2>1
    <3>4. QED BY <3>2, <3>3
  <2>4. g[i] = f[i] + (IF i < k THEN 0 ELSE d)
    BY <1>6
  <2>5. g[i + 1] = f[i + 1] + (IF i + 1 < k THEN 0 ELSE d)
    <3>1. CASE i + 1 = k
      <4>1. b[i + 1] = a[i + 1] + d /\ g[i] = f[i]
        BY <1>1, <1>4, <2>3, <2>4, <3>1
      <4>2. QED BY <2>2, <2>3, <3>1, <4>1
    <3>2. CASE i + 1 # k
      <4>1. b[i + 1] = a[i + 1]
        BY <1>1, <2>1, <3>2
      <4>2. i < k <=> i + 1 < k
        BY <1>4, <3>2
      <4>3. PICK e \in Int : e = IF i < k THEN 0 ELSE d
        OBVIOUS
      <4>4. g[i] = f[i] + e /\ e = IF i + 1 < k THEN 0 ELSE d
        BY <2>4, <4>2, <4>3
      <4>5. g[i + 1] = f[i + 1] + e
        <5>1. PICK x \in Int : x = f[i]
          BY <2>3
        <5>2. PICK y \in Int : y = a[i + 1]
          BY <2>3
        <5>3. f[i + 1] = x + y /\ g[i + 1] = x + e + y
          BY <2>2, <4>1, <4>4, <5>1, <5>2
        <5>4. QED BY <5>3
      <4>6. QED BY <4>4, <4>5
    <3>3. QED BY <3>1, <3>2
  <2>6. QED BY <2>1, <2>5
<1>7. n \in D
  <2> HIDE DEF D
  <2>1. 0 .. n \subseteq D
    BY <1>1, <1>5, <1>6, Upward
  <2>2. QED BY <1>1, <2>1
<1>8. QED BY <1>2, <1>3, <1>4, <1>7

-----------------------------------------------------------------------------

\* Picked options, and the correct ones of a question: some, and none twice.
Picks == {p \in Seq(Options) : IsInjective(p) /\ p # <<>>}

Asked == [id : Nat, points : Nat \ {0}, correctOptionIds : Picks]
KeyLists == {k \in Seq(Asked) : \A i \in DOMAIN k : k[i].id = i}

\* At most one answer to a question.
Replies == [questionId : Questions, optionIds : Picks]
AnswerLists == {a \in Seq(Replies) : \A i, j \in DOMAIN a : a[i].questionId = a[j].questionId => i = j}

\* The questions that the first m answers are about, and those they answer right.
SeenBy(list, k, m) == {q \in DOMAIN k : \E i \in 1 .. m : list[i].questionId = q}
RightBy(list, k, m) ==
    {q \in DOMAIN k : \E i \in 1 .. m :
        list[i].questionId = q /\ ToSet(list[i].optionIds) = ToSet(k[q].correctOptionIds)}

PointsOf(k, right) == [q \in DOMAIN k |-> IF q \in right THEN k[q].points ELSE 0]

ScoredBy(list, k, m) ==
    [score |-> SumOf(PointsOf(k, RightBy(list, k, m))),
     answered |-> SeenBy(list, k, m), correct |-> RightBy(list, k, m)]

LEMMA PicksCounted ==
  ASSUME NEW p \in Picks
  PROVE  IsFiniteSet(ToSet(p)) /\ Cardinality(ToSet(p)) = Len(p)
<1>1. PICK n \in Nat : n = Len(p) /\ DOMAIN p = 1 .. n
  BY DEF Picks
<1>2. \A i, j \in 1 .. n : p[i] = p[j] => i = j
  BY <1>1 DEF Picks, IsInjective
<1>3. Cardinality(ToSet(p)) = Cardinality({m \in 1 .. n : p[m] \in ToSet(p)})
  BY <1>1, <1>2, CountPlaces
<1>4. {m \in 1 .. n : p[m] \in ToSet(p)} = 1 .. n
  BY <1>1 DEF ToSet
<1>5. IsFiniteSet(ToSet(p))
  <2>1. p \in Surjection(1 .. n, ToSet(p))
    BY <1>1 DEF ToSet, Surjection, Picks
  <2>2. QED BY <1>1, <2>1, UpTo, FS_Surjection
<1>6. QED BY <1>1, <1>3, <1>4, <1>5, UpTo

\* As many options as there are correct ones, all correct: the same set.
LEMMA CorrectIs ==
  ASSUME NEW picked \in Picks, NEW correct \in Picks
  PROVE  IsCorrect(picked, correct) <=> ToSet(picked) = ToSet(correct)
<1>1. Len(picked) = Cardinality(ToSet(picked)) /\ Len(correct) = Cardinality(ToSet(correct))
  BY PicksCounted
<1>2. ASSUME IsCorrect(picked, correct) PROVE ToSet(picked) = ToSet(correct)
  <2>1. ToSet(picked) \in SUBSET ToSet(correct)
    BY <1>2 DEF IsCorrect, ToSet
  <2>2. Cardinality(ToSet(picked)) = Cardinality(ToSet(correct))
    BY <1>1, <1>2 DEF IsCorrect
  <2>3. QED BY <2>1, <2>2, PicksCounted, FS_Subset
<1>3. ASSUME ToSet(picked) = ToSet(correct) PROVE IsCorrect(picked, correct)
  <2>1. Len(picked) = Len(correct)
    BY <1>1, <1>3
  <2>2. \A i \in DOMAIN picked : picked[i] \in ToSet(correct)
    <3>1. \A i \in DOMAIN picked : picked[i] \in ToSet(picked)
      BY DEF ToSet
    <3>2. QED BY <1>3, <3>1
  <2>3. QED BY <2>1, <2>2 DEF IsCorrect
<1>4. QED BY <1>2, <1>3

\* An answer finds its question in the key, if it is there.
LEMMA KeyOfIs ==
  ASSUME NEW k \in KeyLists, NEW answer
  PROVE  KeyOf(answer, k) = IF answer.questionId \in DOMAIN k THEN {k[answer.questionId]} ELSE {}
<1>1. /\ \A q \in ToSet(k) : \E i \in DOMAIN k : q = k[i] /\ q.id = i
      /\ \A i \in DOMAIN k : k[i] \in ToSet(k) /\ k[i].id = i
  BY DEF KeyLists, ToSet
<1>2. QED BY <1>1 DEF KeyOf

LEMMA PointsAdd ==
  ASSUME NEW k \in KeyLists, NEW right \in SUBSET DOMAIN k
  PROVE  /\ PointsOf(k, right) \in Seq(Int) /\ Len(PointsOf(k, right)) = Len(k)
         /\ SumOf(PointsOf(k, {})) = 0
         /\ \A q \in DOMAIN k \ right :
              SumOf(PointsOf(k, right \cup {q})) = SumOf(PointsOf(k, right)) + k[q].points
<1>1. /\ Len(k) \in Nat /\ DOMAIN k = 1 .. Len(k)
      /\ \A q \in DOMAIN k : k[q].points \in Nat
  <2>1. k \in Seq(Asked)
    BY DEF KeyLists
  <2>2. \A q \in DOMAIN k : k[q] \in Asked
    BY <2>1
  <2>3. QED BY <2>1, <2>2 DEF Asked
<1>2. ASSUME NEW r
      PROVE  /\ PointsOf(k, r) \in Seq(Int) /\ Len(PointsOf(k, r)) = Len(k)
             /\ DOMAIN PointsOf(k, r) = DOMAIN k
             /\ \A q \in DOMAIN k : PointsOf(k, r)[q] = IF q \in r THEN k[q].points ELSE 0
  <2>1. PointsOf(k, r) \in [1 .. Len(k) -> Int]
    BY <1>1 DEF PointsOf
  <2>2. QED BY <1>1, <2>1 DEF PointsOf
<1>3. SumOf(PointsOf(k, {})) = 0
  BY <1>2, SumZero
<1>4. ASSUME NEW q \in DOMAIN k \ right
      PROVE  SumOf(PointsOf(k, right \cup {q})) = SumOf(PointsOf(k, right)) + k[q].points
  <2>1. PICK a \in Seq(Int) : a = PointsOf(k, right)
    BY <1>2
  <2>2. PICK b \in Seq(Int) : b = PointsOf(k, right \cup {q})
    BY <1>2
  <2>3. PICK d \in Int : d = k[q].points
    BY <1>1
  <2>4. /\ Len(a) = Len(b) /\ q \in DOMAIN a /\ b[q] = a[q] + d
        /\ \A i \in DOMAIN a : i # q => b[i] = a[i]
    <3>1. /\ \A i \in DOMAIN k : a[i] = IF i \in right THEN k[i].points ELSE 0
          /\ \A i \in DOMAIN k : b[i] = IF i \in right \/ i = q THEN k[i].points ELSE 0
          /\ Len(a) = Len(b) /\ DOMAIN a = DOMAIN k
      BY <1>2, <2>1, <2>2
    <3>2. a[q] = 0 /\ b[q] = d
      BY <2>3, <3>1
    <3>3. b[q] = a[q] + d
      BY <3>2
    <3>4. \A i \in DOMAIN a : i # q => b[i] = a[i]
      BY <3>1
    <3>5. QED BY <3>1, <3>3, <3>4
  <2>5. SumOf(b) = SumOf(a) + d
    BY <2>4, SumGrows
  <2>6. QED BY <2>1, <2>2, <2>3, <2>5
<1>5. QED BY <1>2, <1>3, <1>4

\* The next answer: it counts for its own question only, and for the first time.
LEMMA SeenNext ==
  ASSUME NEW k \in KeyLists, NEW list \in AnswerLists, NEW m \in 1 .. Len(list)
  PROVE  LET q == list[m].questionId
             right == ToSet(list[m].optionIds) = ToSet(k[q].correctOptionIds)
         IN /\ SeenBy(list, k, m) = SeenBy(list, k, m - 1) \cup (IF q \in DOMAIN k THEN {q} ELSE {})
            /\ RightBy(list, k, m) = RightBy(list, k, m - 1)
                                       \cup (IF q \in DOMAIN k /\ right THEN {q} ELSE {})
            /\ q \notin RightBy(list, k, m - 1)
<1> DEFINE q == list[m].questionId
           right == ToSet(list[m].optionIds) = ToSet(k[q].correctOptionIds)
<1>1. /\ Len(list) \in Nat /\ DOMAIN list = 1 .. Len(list)
      /\ \A i \in 1 .. m - 1 : i \in DOMAIN list /\ i # m
  BY DEF AnswerLists
<1>2. \A i \in 1 .. m - 1 : list[i].questionId # q
  BY <1>1 DEF AnswerLists
<1>3. \A i : i \in 1 .. m <=> i \in 1 .. m - 1 \/ i = m
  BY <1>1
<1> HIDE DEF q
<1>4. SeenBy(list, k, m) = SeenBy(list, k, m - 1) \cup (IF q \in DOMAIN k THEN {q} ELSE {})
  BY <1>3 DEF SeenBy, q
<1>5. RightBy(list, k, m) = RightBy(list, k, m - 1) \cup (IF q \in DOMAIN k /\ right THEN {q} ELSE {})
  BY <1>3 DEF RightBy, q
<1>6. q \notin RightBy(list, k, m - 1)
  BY <1>2 DEF RightBy
<1>7. QED BY <1>4, <1>5, <1>6 DEF q

\* The loop of scoreAnswers adds up the points of the right answers.
LEMMA ScoreIs ==
  ASSUME NEW k \in KeyLists, NEW list \in AnswerLists
  PROVE  ScoreAnswers(list, k) = ScoredBy(list, k, Len(list))
<1> DEFINE n == Len(list)
           Count(acc, answer) ==
             IF KeyOf(answer, k) = {} \/ answer.optionIds = <<>> THEN acc
             ELSE LET q == CHOOSE q \in KeyOf(answer, k) : TRUE
                      right == IsCorrect(answer.optionIds, q.correctOptionIds)
                  IN [score |-> acc.score + (IF right THEN q.points ELSE 0),
                      answered |-> acc.answered \cup {q.id},
                      correct |-> acc.correct \cup (IF right THEN {q.id} ELSE {})]
           Onward(f, i) == IF i = 0 THEN [score |-> 0, answered |-> {}, correct |-> {}]
                           ELSE Count(f[i - 1], list[i])
           after == CHOOSE f : f = [i \in 0 .. n |-> Onward(f, i)]
           g == [i \in 0 .. n |-> ScoredBy(list, k, i)]
<1>1. ScoreAnswers(list, k) = after[n]
  BY DEF ScoreAnswers
<1>2. /\ n \in Nat /\ DOMAIN list = 1 .. n
      /\ \A i \in 1 .. n : list[i].optionIds \in Picks
  <2>1. list \in Seq(Replies)
    BY DEF AnswerLists
  <2>2. n \in Nat /\ DOMAIN list = 1 .. n /\ \A i \in 1 .. n : list[i] \in Replies
    BY <2>1
  <2>3. QED BY <2>2 DEF Replies
<1>3. \A q \in DOMAIN k : k[q].id = q /\ k[q].correctOptionIds \in Picks
  <2>1. k \in Seq(Asked) /\ \A q \in DOMAIN k : k[q].id = q
    BY DEF KeyLists
  <2>2. \A q \in DOMAIN k : k[q] \in Asked
    BY <2>1
  <2>3. QED BY <2>1, <2>2 DEF Asked
<1>4. ASSUME NEW i \in 1 .. n
      PROVE  Count(ScoredBy(list, k, i - 1), list[i]) = ScoredBy(list, k, i)
  <2> DEFINE q == list[i].questionId
             right == ToSet(list[i].optionIds) = ToSet(k[q].correctOptionIds)
             before == RightBy(list, k, i - 1)
  <2>1. /\ SeenBy(list, k, i) = SeenBy(list, k, i - 1) \cup (IF q \in DOMAIN k THEN {q} ELSE {})
        /\ RightBy(list, k, i) = before \cup (IF q \in DOMAIN k /\ right THEN {q} ELSE {})
        /\ q \notin before
    BY SeenNext
  <2>2. KeyOf(list[i], k) = IF q \in DOMAIN k THEN {k[q]} ELSE {}
    BY KeyOfIs
  <2>3. list[i].optionIds # <<>>
    BY <1>2 DEF Picks
  <2>4. CASE q \notin DOMAIN k
    <3>1. Count(ScoredBy(list, k, i - 1), list[i]) = ScoredBy(list, k, i - 1)
      BY <2>2, <2>4
    <3>2. SeenBy(list, k, i) = SeenBy(list, k, i - 1) /\ RightBy(list, k, i) = before
      BY <2>1, <2>4
    <3>3. QED BY <3>1, <3>2 DEF ScoredBy
  <2>5. CASE q \in DOMAIN k
    <3>1. (CHOOSE x \in KeyOf(list[i], k) : TRUE) = k[q] /\ KeyOf(list[i], k) # {}
      BY <2>2, <2>5
    <3>2. k[q].id = q
      BY <1>3, <2>5
    <3>3. IsCorrect(list[i].optionIds, k[q].correctOptionIds) <=> right
      BY <1>2, <1>3, <2>5, CorrectIs
    <3>4. before \in SUBSET DOMAIN k /\ PointsOf(k, before) \in Seq(Int)
      BY PointsAdd DEF RightBy
    <3>5. SumOf(PointsOf(k, before)) \in Int
      BY <3>4, SumTyped
    <3>6. SumOf(PointsOf(k, RightBy(list, k, i)))
            = SumOf(PointsOf(k, before)) + (IF right THEN k[q].points ELSE 0)
      <4>1. CASE right
        BY <2>1, <2>5, <3>4, <4>1, PointsAdd
      <4>2. CASE ~right
        <5>1. RightBy(list, k, i) = before
          BY <2>1, <4>2
        <5>2. QED BY <3>5, <4>2, <5>1
      <4>3. QED BY <4>1, <4>2
    <3> DEFINE old == ScoredBy(list, k, i - 1)
    <3>7. Count(old, list[i])
            = [score |-> old.score + (IF right THEN k[q].points ELSE 0),
               answered |-> old.answered \cup {q},
               correct |-> old.correct \cup (IF right THEN {q} ELSE {})]
      <4> HIDE DEF old, q
      <4>1. QED BY <2>3, <3>1, <3>2, <3>3
    <3>8. /\ old.score = SumOf(PointsOf(k, before)) /\ old.answered = SeenBy(list, k, i - 1)
          /\ old.correct = before
      BY DEF ScoredBy
    <3>9. /\ SeenBy(list, k, i) = SeenBy(list, k, i - 1) \cup {q}
          /\ RightBy(list, k, i) = before \cup (IF right THEN {q} ELSE {})
      BY <2>1, <2>5
    <3> HIDE DEF old, q, right, before, Count
    <3>10. Count(old, list[i])
             = [score |-> SumOf(PointsOf(k, RightBy(list, k, i))),
                answered |-> SeenBy(list, k, i), correct |-> RightBy(list, k, i)]
      BY <3>6, <3>7, <3>8, <3>9
    <3>11. Count(old, list[i]) = ScoredBy(list, k, i)
      BY <3>10 DEF ScoredBy
    <3>12. QED BY <3>11 DEF old
  <2>6. QED BY <2>4, <2>5
<1>5. ScoredBy(list, k, 0) = [score |-> 0, answered |-> {}, correct |-> {}]
  <2>1. SeenBy(list, k, 0) = {} /\ RightBy(list, k, 0) = {}
    BY DEF SeenBy, RightBy
  <2>2. {} \in SUBSET DOMAIN k
    OBVIOUS
  <2>3. SumOf(PointsOf(k, {})) = 0
    BY <2>2, PointsAdd
  <2>4. QED BY <2>1, <2>3 DEF ScoredBy
<1> HIDE DEF Count
<1>6. ASSUME NEW i \in 0 .. n, NEW f, i # 0 => f[i - 1] = ScoredBy(list, k, i - 1)
      PROVE  Onward(f, i) = ScoredBy(list, k, i)
  <2>1. CASE i = 0
    BY <1>5, <2>1
  <2>2. CASE i # 0
    <3>1. i \in 1 .. n
      BY <1>2, <2>2
    <3>2. QED BY <1>4, <1>6, <2>2, <3>1
  <2>3. QED BY <2>1, <2>2
<1> HIDE DEF Onward
<1> DEFINE Eq(f) == f = [i \in 0 .. n |-> Onward(f, i)]
<1>7. Eq(g)
  <2>1. ASSUME NEW i \in 0 .. n PROVE Onward(g, i) = ScoredBy(list, k, i)
    <3>1. i # 0 => i - 1 \in 0 .. n
      BY <1>2
    <3>2. i # 0 => g[i - 1] = ScoredBy(list, k, i - 1)
      BY <3>1
    <3>3. QED BY <1>6, <3>2
  <2>2. QED BY <2>1
<1>8. Eq(after)
  <2> HIDE DEF Eq
  <2>1. Eq(CHOOSE f : Eq(f))
    BY <1>7
  <2>2. QED BY <2>1 DEF Eq
<1> HIDE DEF after
<1>9. \A i \in 0 .. n : after[i] = Onward(after, i)
  BY <1>8
<1> DEFINE D == {i \in 0 .. n : after[i] = ScoredBy(list, k, i)}
<1>10. 0 \in D
  BY <1>2, <1>6, <1>9
<1>11. ASSUME NEW i \in 0 .. n - 1, i \in D PROVE i + 1 \in D
  <2>1. i + 1 \in 0 .. n /\ i + 1 - 1 = i
    BY <1>2
  <2>2. QED BY <1>6, <1>9, <1>11, <2>1
<1>12. n \in D
  <2> HIDE DEF D, n
  <2>1. 0 .. n \subseteq D
    BY <1>2, <1>10, <1>11, Upward
  <2>2. QED BY <1>2, <2>1
<1>13. QED BY <1>1, <1>12

\* What a question earns in the review is what it earned when it was scored.
LEMMA ReviewedIs ==
  ASSUME NEW k \in KeyLists, NEW list \in AnswerLists, NEW q \in DOMAIN k
  PROVE  /\ Reviewed(k[q], list).earned = PointsOf(k, RightBy(list, k, Len(list)))[q]
         /\ Reviewed(k[q], list).picked = <<>> <=> q \notin SeenBy(list, k, Len(list))
<1> DEFINE n == Len(list)
           its == {i \in DOMAIN list : list[i].questionId = q}
           last == CHOOSE i \in its : \A j \in its : j <= i
           picked == IF its = {} THEN <<>> ELSE list[last].optionIds
<1>1. /\ n \in Nat /\ DOMAIN list = 1 .. n
      /\ \A i \in 1 .. n : list[i].optionIds \in Picks
      /\ \A i, j \in 1 .. n : list[i].questionId = list[j].questionId => i = j
  <2>1. list \in Seq(Replies)
    BY DEF AnswerLists
  <2>2. n \in Nat /\ DOMAIN list = 1 .. n /\ \A i \in 1 .. n : list[i] \in Replies
    BY <2>1
  <2>3. \A i, j \in 1 .. n : list[i].questionId = list[j].questionId => i = j
    BY <2>2 DEF AnswerLists
  <2>4. QED BY <2>2, <2>3 DEF Replies
<1>2. k[q].id = q /\ k[q].correctOptionIds \in Picks
  <2>1. k \in Seq(Asked) /\ k[q].id = q
    BY DEF KeyLists
  <2>2. k[q] \in Asked
    BY <2>1
  <2>3. QED BY <2>1, <2>2 DEF Asked
<1>3. Reviewed(k[q], list)
        = [picked |-> picked,
           earned |-> IF picked # <<>> /\ IsCorrect(picked, k[q].correctOptionIds)
                      THEN k[q].points ELSE 0]
  BY <1>2 DEF Reviewed
<1>4. PointsOf(k, RightBy(list, k, n))[q]
        = IF q \in RightBy(list, k, n) THEN k[q].points ELSE 0
  BY DEF PointsOf
<1>5. CASE its = {}
  <2>1. \A i \in 1 .. n : list[i].questionId # q
    BY <1>1, <1>5
  <2>2. q \notin SeenBy(list, k, n) /\ q \notin RightBy(list, k, n)
    BY <2>1 DEF SeenBy, RightBy
  <2>3. picked = <<>>
    BY <1>5
  <2> HIDE DEF picked
  <2>4. QED BY <1>3, <1>4, <2>2, <2>3
<1>6. CASE its # {}
  <2>1. PICK i \in 1 .. n : list[i].questionId = q
    BY <1>1, <1>6
  <2>2. \A j \in its : j = i
    BY <1>1, <2>1
  <2>3. i \in its /\ \A j \in its : j <= i
    BY <1>1, <2>1, <2>2
  <2>4. last = i
    <3> HIDE DEF its
    <3>1. QED BY <2>2, <2>3
  <2>5. picked = list[i].optionIds /\ picked \in Picks /\ picked # <<>>
    <3>1. picked = list[i].optionIds
      BY <1>6, <2>4
    <3> HIDE DEF picked
    <3>2. QED BY <1>1, <3>1 DEF Picks
  <2>6. IsCorrect(picked, k[q].correctOptionIds)
          <=> ToSet(picked) = ToSet(k[q].correctOptionIds)
    <3> HIDE DEF picked
    <3>1. QED BY <1>2, <2>5, CorrectIs
  <2>7. /\ q \in SeenBy(list, k, n)
        /\ q \in RightBy(list, k, n) <=> ToSet(list[i].optionIds) = ToSet(k[q].correctOptionIds)
    BY <1>1, <2>1 DEF SeenBy, RightBy
  <2> HIDE DEF picked
  <2>8. QED BY <1>3, <1>4, <2>5, <2>6, <2>7
<1>7. QED BY <1>5, <1>6

\* What every behaviour of the sheet keeps: a sound key, and one answer to a question.
AnswersInv == key \in KeyLists /\ answers \in AnswerLists

LEMMA PicksAre == OptionLists \ {<<>>} \subseteq Picks
<1>1. ASSUME NEW n \in 0 .. MaxPicked, NEW p \in [1 .. n -> Options]
      PROVE  p \in Seq(Options)
  <2>1. n \in Nat
    BY SheetAssumption
  <2>2. QED BY <2>1
<1>2. QED BY <1>1 DEF OptionLists, Picks

LEMMA KeysAre == Keys \subseteq KeyLists
<1>1. ASSUME NEW q \in 1 .. 2, NEW row \in Question(q) PROVE row \in Asked
  <2>1. PICK lists : lists = OptionLists \ {<<>>}
    OBVIOUS
  <2>2. lists \subseteq Picks /\ q \in Nat /\ Points \subseteq Nat \ {0}
    BY <2>1, PicksAre, SheetAssumption
  <2>3. row \in [id : {q}, points : Points, correctOptionIds : lists]
    BY <2>1 DEF Question
  <2>4. QED BY <2>2, <2>3 DEF Asked
<1>2. ASSUME NEW n \in 0 .. 2, NEW k \in [1 .. n -> UNION {Question(q) : q \in 1 .. 2}]
      PROVE  k \in Seq(Asked) /\ DOMAIN k = 1 .. n
  <2>1. \A i \in 1 .. n : k[i] \in Asked
    BY <1>1
  <2>2. QED BY <2>1
<1>3. QED BY <1>2 DEF Keys, KeyLists

LEMMA AnswerKeeps ==
  ASSUME AnswersInv, NEW q \in Questions, NEW picked \in OptionLists \ {<<>>}, Answer(q, picked)
  PROVE  AnswersInv'
<1> DEFINE n == Len(answers)
           reply == [questionId |-> q, optionIds |-> picked]
<1>1. answers \in Seq(Replies) /\ n \in Nat /\ DOMAIN answers = 1 .. n
  BY DEF AnswersInv, AnswerLists
<1>2. reply \in Replies /\ reply.questionId = q
  BY PicksAre DEF Replies
<1>3. answers' = Append(answers, reply) /\ key' = key
      /\ \A i \in DOMAIN answers : answers[i].questionId # q
  BY DEF Answer
<1> HIDE DEF reply
<1>4. answers' \in Seq(Replies) /\ DOMAIN answers' = 1 .. n + 1
  BY <1>1, <1>2, <1>3
<1>5. /\ \A i \in 1 .. n : answers'[i] = answers[i]
      /\ answers'[n + 1] = reply
  BY <1>1, <1>3
<1>6. ASSUME NEW i \in DOMAIN answers', NEW j \in DOMAIN answers',
             answers'[i].questionId = answers'[j].questionId
      PROVE  i = j
  <2>1. /\ i \in 1 .. n \/ i = n + 1
        /\ j \in 1 .. n \/ j = n + 1
    BY <1>1, <1>4
  <2>2. \A m \in 1 .. n : answers'[m].questionId = answers[m].questionId
                          /\ answers[m].questionId # q
    BY <1>1, <1>3, <1>5
  <2>3. \A m, l \in 1 .. n : answers[m].questionId = answers[l].questionId => m = l
    BY <1>1 DEF AnswersInv, AnswerLists
  <2>4. answers'[n + 1].questionId = q
    BY <1>2, <1>5
  <2>5. QED BY <1>6, <2>1, <2>2, <2>3, <2>4
<1>7. answers' \in AnswerLists
  BY <1>4, <1>6 DEF AnswerLists
<1>8. QED BY <1>3, <1>7 DEF AnswersInv

LEMMA AnswersStep == AnswersInv /\ [Next]_vars => AnswersInv'
<1> SUFFICES ASSUME AnswersInv, [Next]_vars PROVE AnswersInv'
  OBVIOUS
<1>1. CASE UNCHANGED <<key, answers>>
  BY <1>1 DEF AnswersInv
<1>2. ASSUME NEW points \in Scores, NEW joined \in 0 .. Spans, NEW done \in 0 .. Spans,
             Score(points, joined, done)
      PROVE  UNCHANGED <<key, answers>>
  BY <1>2 DEF Score
<1>3. ASSUME Sheet PROVE AnswersInv'
  BY <1>1, <1>2, <1>3, AnswerKeeps DEF Sheet
<1>4. ASSUME Shape \/ Offer \/ List \/ Watch \/ Type \/ UNCHANGED vars
      PROVE  UNCHANGED <<key, answers>>
  BY <1>4 DEF Shape, Offer, List, Watch, Type, vars, sheetVars
<1>5. QED BY <1>1, <1>3, <1>4 DEF Next

LEMMA AnswersInit == Init => AnswersInv
<1> SUFFICES ASSUME Init PROVE AnswersInv
  OBVIOUS
<1>1. <<>> \in KeyLists /\ <<>> \in AnswerLists
  BY DEF KeyLists, AnswerLists
<1>2. key \in KeyLists
  BY <1>1, KeysAre DEF Init
<1>3. QED BY <1>1, <1>2 DEF Init, SheetRest, AnswersInv

\* For any key and any answers: what is right earns the points of its question, what is
\* wrong earns nothing, and what the key does not ask counts for nothing (scoring.ts,
\* scoreAnswers).
THEOREM ScoresHold == Spec => []ScoreIsPointsOfRightAnswers
<1>1. AnswersInv => ScoreIsPointsOfRightAnswers
  <2> SUFFICES ASSUME AnswersInv PROVE ScoreIsPointsOfRightAnswers
    OBVIOUS
  <2> DEFINE n == Len(answers)
             S == ToSet(answers)
             right == RightBy(answers, key, n)
             rightOnes == {q \in ToSet(key) : \E a \in S :
                             /\ a.questionId = q.id
                             /\ ToSet(a.optionIds) = ToSet(q.correctOptionIds)}
  <2>1. /\ key \in KeyLists /\ answers \in AnswerLists
        /\ n \in Nat /\ DOMAIN answers = 1 .. n
        /\ \A i \in DOMAIN key : key[i].id = i
    BY DEF AnswersInv, AnswerLists, KeyLists
  <2>2. ScoreAnswers(answers, key) = ScoredBy(answers, key, n)
    BY <2>1, ScoreIs
  <2>3. ASSUME NEW i \in DOMAIN key PROVE key[i] \in rightOnes <=> i \in right
    <3>1. key[i] \in ToSet(key) /\ key[i].id = i
      BY <2>1 DEF ToSet
    <3>2. i \in right
            <=> \E j \in 1 .. n : /\ answers[j].questionId = i
                                  /\ ToSet(answers[j].optionIds) = ToSet(key[i].correctOptionIds)
      BY DEF RightBy
    <3>3. S = {answers[j] : j \in 1 .. n}
      BY <2>1 DEF ToSet
    <3> HIDE DEF S, right, n
    <3>4. QED BY <3>1, <3>2, <3>3
  <2>4. right = {q.id : q \in rightOnes}
    <3>1. right \subseteq DOMAIN key
      BY DEF RightBy
    <3>2. \A q \in rightOnes : \E i \in DOMAIN key : q = key[i]
      BY DEF ToSet
    <3> HIDE DEF right, rightOnes
    <3>3. QED BY <2>1, <2>3, <3>1, <3>2
  <2>5. SeenBy(answers, key, n)
          = {q.id : q \in ToSet(key)} \cap {a.questionId : a \in S}
    BY <2>1 DEF SeenBy, ToSet
  <2>6. PointsOf(key, right)
          = [i \in DOMAIN key |-> IF key[i] \in rightOnes THEN key[i].points ELSE 0]
    <3> HIDE DEF right, rightOnes
    <3>1. QED BY <2>3 DEF PointsOf
  <2>7. /\ ScoreAnswers(answers, key).score = SumOf(PointsOf(key, right))
        /\ ScoreAnswers(answers, key).answered = SeenBy(answers, key, n)
        /\ ScoreAnswers(answers, key).correct = right
    BY <2>2 DEF ScoredBy
  <2> HIDE DEF right
  <2>8. QED BY <2>4, <2>5, <2>6, <2>7 DEF ScoreIsPointsOfRightAnswers
<1>2. QED BY <1>1, AnswersInit, AnswersStep, PTL DEF Spec

\* For any key and any answers: the review's points, right, wrong and open questions are
\* those that finalizing counted (contests.service.ts, results; ContestResults.tsx,
\* Review; scoring.ts).
THEOREM ReviewHolds == Spec => []ReviewAddsUp
<1>1. AnswersInv => ReviewAddsUp
  <2> SUFFICES ASSUME AnswersInv PROVE ReviewAddsUp
    OBVIOUS
  <2> DEFINE n == Len(answers)
             right == RightBy(answers, key, n)
             seen == SeenBy(answers, key, n)
             Of(status) == {i \in DOMAIN key : StatusOf(key[i], answers) = status}
  <2>1. /\ key \in KeyLists /\ answers \in AnswerLists
        /\ \A i \in DOMAIN key : key[i].id = i
    BY DEF AnswersInv, KeyLists
  <2>2. ScoreAnswers(answers, key) = ScoredBy(answers, key, n)
    BY <2>1, ScoreIs
  <2>3. /\ ScoreAnswers(answers, key).score = SumOf(PointsOf(key, right))
        /\ ScoreAnswers(answers, key).answered = seen
        /\ ScoreAnswers(answers, key).correct = right
    BY <2>2 DEF ScoredBy
  <2>4. /\ right \subseteq seen /\ seen \subseteq DOMAIN key
    BY DEF RightBy, SeenBy
  <2>5. \A i \in DOMAIN key : key[i].points \in Nat \ {0}
    <3>1. key \in Seq(Asked)
      BY <2>1 DEF KeyLists
    <3>2. \A i \in DOMAIN key : key[i] \in Asked
      BY <3>1
    <3>3. QED BY <3>2 DEF Asked
  <2>6. ASSUME NEW i \in DOMAIN key
        PROVE  /\ Reviewed(key[i], answers).earned = IF i \in right THEN key[i].points ELSE 0
               /\ Reviewed(key[i], answers).picked = <<>> <=> i \notin seen
    BY <2>1, ReviewedIs DEF PointsOf
  <2>7. PointsOf(key, right) = [i \in DOMAIN key |-> Reviewed(key[i], answers).earned]
    <3> HIDE DEF right
    <3>1. QED BY <2>6 DEF PointsOf
  <2>8. ASSUME NEW i \in DOMAIN key
        PROVE  StatusOf(key[i], answers)
                 = IF i \notin seen THEN "unanswered" ELSE IF i \in right THEN "correct" ELSE "wrong"
    <3> HIDE DEF right, seen
    <3>1. QED BY <2>5, <2>6 DEF StatusOf
  <2>9. ASSUME NEW status
        PROVE  {q.id : q \in Counted(status, answers, key)} = Of(status)
    <3>1. Counted(status, answers, key) = {key[i] : i \in Of(status)}
      BY DEF Counted, ToSet
    <3>2. Of(status) \subseteq DOMAIN key
      OBVIOUS
    <3> HIDE DEF Of
    <3>3. QED BY <2>1, <3>1, <3>2
  <2>10. {q.id : q \in ToSet(key)} = DOMAIN key
    BY <2>1 DEF ToSet
  <2> HIDE DEF right, seen
  <2>11. Of("correct") = right /\ Of("wrong") = seen \ right
         /\ Of("unanswered") = DOMAIN key \ seen
    BY <2>4, <2>8
  <2> HIDE DEF Of
  <2>12. QED BY <2>3, <2>7, <2>9, <2>10, <2>11 DEF ReviewAddsUp
<1>2. QED BY <1>1, AnswersInit, AnswersStep, PTL DEF Spec

=============================================================================
