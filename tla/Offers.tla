------------------------------- MODULE Offers -------------------------------
(***************************************************************************)
(* What the pages offer one signed-in user to do with one contest, beside  *)
(* what the server accepts: the buttons and links of the browse page, the  *)
(* dashboard, the contest page, the editor, the workspace and the results  *)
(* page, each with the phase it works out for itself.                      *)
(*                                                                         *)
(* The contest changes by the requests of whoever may send them; time      *)
(* passes between the moment the pages were read and the moment they are   *)
(* looked at.  Pages that are out of date otherwise are not judged.        *)
(***************************************************************************)
EXTENDS Integers

CONSTANTS
    Capacity,       \* the contest's capacity
    Starts,         \* the starts its host can choose
    Length,         \* how long it runs
    LeadTime,       \* LIMITS.contest.publishLeadMinutes
    LastTime,       \* bound: the clock
    Unset           \* no start, never read

ASSUME OffersAssumption ==
    /\ Capacity \in Nat /\ LeadTime \in Nat /\ Length \in Nat \ {0}
    /\ Starts \subseteq Nat /\ Unset \notin Nat

VARIABLES
    time,       \* the clock of the servers and, for the pages, of the device
    held,       \* the contest's document
    mine,       \* the user's entry: none, joined, started, submitted
    user,       \* role, whether the user hosts the contest, free contests left
    read        \* when the pages were read; Unset once something has changed since

offersVars == <<time, held, mine, user, read>>

-----------------------------------------------------------------------------
(* Phases: phaseOf on the server, livePhase and its kin on the pages *)

EndOf(c) == c.startAt + Length

PhaseOf(c, now) ==
    IF c.status # "published" THEN c.status
    ELSE IF c.startAt = Unset \/ now < c.startAt THEN "upcoming"
    ELSE IF now < EndOf(c) THEN "live"
    ELSE IF c.finalized THEN "ended" ELSE "pending"

\* Mutant: only a draft or a cancelled contest keeps the phase it was sent with.
LivePhaseForgetful(phase, c, now) ==
    IF phase \in {"draft", "cancelled"} \/ c.startAt = Unset THEN phase
    ELSE IF now < c.startAt THEN "upcoming"
    ELSE IF now < EndOf(c) THEN "live" ELSE "pending"

\* The phase as of now, from the phase the server sent.
LivePhase(phase, c, now) ==
    IF phase \in {"draft", "cancelled", "ended"} \/ c.startAt = Unset THEN phase
    ELSE IF now < c.startAt THEN "upcoming"
    ELSE IF now < EndOf(c) THEN "live" ELSE "pending"

\* The phase of a stored contest, in the list of your own.
PhaseOfContest(c, now) ==
    IF c.status # "published" THEN c.status
    ELSE LivePhase(IF c.finalized THEN "ended" ELSE "upcoming", c, now)

PageEditableAt(c, now) ==
    c.status = "draft" \/ (c.status = "published" /\ c.startAt # Unset /\ now < c.startAt)

\* The editor's own: it does not tell pending from ended.
EditorPhase(c, now) ==
    IF c.status \in {"draft", "cancelled"} THEN c.status
    ELSE IF PageEditableAt(c, now) THEN "upcoming"
    ELSE IF now < EndOf(c) THEN "live" ELSE "ended"

-----------------------------------------------------------------------------
(* What the server accepts, now *)

Manages == user.hosting \/ user.role = "admin"      \* findManaged, isHost
Visible == held.status # "deleted" /\ (held.status = "draft" => Manages)
Phase == PhaseOf(held, time)
Full == held.entrants >= Capacity

\* publishChecks, with the title, description, length and questions as one.
PassesChecks(startAt) == held.sound /\ startAt # Unset /\ startAt >= time + LeadTime

Joins == /\ Visible /\ ~user.hosting
         /\ mine = "none" => held.status = "published" /\ time < EndOf(held) /\ ~Full
Leaves == Visible /\ Phase = "upcoming" /\ mine # "none"
Plays == Visible /\ Phase = "live" /\ mine # "none"
Answers == Plays /\ mine = "started"
SeesResults == Visible /\ held.finalized
OpensEditor == Manages /\ held.status # "deleted"
Saves(startAt) ==
    /\ OpensEditor
    /\ held.status = "draft" \/ (Phase = "upcoming" /\ PassesChecks(startAt))
Publishes ==
    /\ user.hosting /\ held.status = "draft" /\ PassesChecks(held.startAt)
    /\ user.role # "admin" => user.free > 0
Cancels == /\ Manages /\ held.status = "published" /\ ~held.finalized
           /\ user.role # "admin" => time < held.startAt
Deletes == Manages /\ held.status = "draft"

\* A request is named for what it asks, and a page for the request that loads it.
Accepts(ask) ==
    CASE ask = "details" -> Visible
      [] ask = "workspace" -> Plays
      [] ask = "results" -> SeesResults
      [] ask = "editor" -> OpensEditor
      [] ask = "join" -> Joins
      [] ask = "leave" -> Leaves
      [] ask \in {"answer", "submit"} -> Answers
      [] ask = "save" -> Saves(held.startAt)
      [] ask = "publish" -> Publishes
      [] ask = "cancel" -> Cancels
      [] ask = "delete" -> Deletes

-----------------------------------------------------------------------------
(* What the pages offer, from what they read *)

Pages == {"browse", "dashboard", "details", "editor", "workspace", "results"}
Joined == mine # "none"
SentPhase == PhaseOf(held, read)
CanHost == user.role \in {"interviewer", "admin"}

\* A running contest: one link to it, one button.
LiveAction == IF user.hosting THEN "details" ELSE IF Joined THEN "workspace" ELSE "join"
LiveCard == {"details", LiveAction}
UpcomingRow == {"details"}
PastTable == {IF SentPhase = "ended" THEN "results" ELSE "details"}

\* The tabs filter by the clock of the request, and know published contests only.
BrowseOffers ==
    IF held.status # "published" THEN {}
    ELSE CASE SentPhase = "live" -> LiveCard
           [] SentPhase = "upcoming" -> UpcomingRow
           [] OTHER -> PastTable

\* Your contests, each by its phase.
ContestHref(phase) ==
    IF phase = "draft" THEN "editor" ELSE IF phase = "ended" THEN "results" ELSE "details"

\* A running contest of yours, on the dashboard, in the sidebar and in the search.
LiveContestCard == {IF user.hosting THEN "details" ELSE "workspace"}
SidebarLive == {"details"}
CommandMenuLive == {"details"}

DashboardOffers ==
    IF held.status = "deleted" \/ ~(user.hosting \/ Joined) THEN {}
    ELSE {ContestHref(PhaseOfContest(held, read))}
         \cup (IF SentPhase = "live"
               THEN LiveContestCard \cup SidebarLive \cup CommandMenuLive
               ELSE {})

PagePhase == LivePhase(SentPhase, held, time)
IfRoom(ask) == IF Full THEN {} ELSE {ask}

\* Mutant: whoever manages a running contest is offered to cancel it.
HostCardAlways(phase) ==
    CASE phase = "draft" -> {"editor"}
      [] phase = "upcoming" -> {"editor", "cancel"}
      [] phase = "live" -> {"editor", "cancel"}
      [] phase = "pending" -> {}
      [] phase = "ended" -> {"results"}

\* ActionCard for the host and admins; only an admin who is not the host may cancel
\* a running contest there.
HostCard(phase) ==
    CASE phase = "draft" -> {"editor"}
      [] phase = "upcoming" -> {"editor", "cancel"}
      [] phase = "live" -> {"editor"} \cup (IF user.hosting THEN {} ELSE {"cancel"})
      [] phase = "pending" -> {}
      [] phase = "ended" -> {"results"}

\* Mutant: a full contest disables the button that leaves it too.
EntrantCardFullStays(phase) ==
    CASE phase = "upcoming" -> IfRoom(IF Joined THEN "leave" ELSE "join")
      [] phase = "live" -> IF mine = "submitted" THEN {}
                           ELSE IF Joined THEN {"workspace"} ELSE IfRoom("join")
      [] phase = "ended" -> {"results"}
      [] OTHER -> {}

\* ActionCard for everyone else.
EntrantCard(phase) ==
    CASE phase = "upcoming" -> IF Joined THEN {"leave"} ELSE IfRoom("join")
      [] phase = "live" -> IF mine = "submitted" THEN {}
                           ELSE IF Joined THEN {"workspace"} ELSE IfRoom("join")
      [] phase = "ended" -> {"results"}
      [] OTHER -> {}

EditLink(phase) == IF Manages /\ phase \in {"upcoming", "draft"} THEN {"editor"} ELSE {}
ResultsTeaser(phase) == IF phase = "ended" THEN {"results"} ELSE {}

DetailsOffers ==
    IF PagePhase = "cancelled" THEN {}
    ELSE (IF Manages THEN HostCard(PagePhase) ELSE EntrantCard(PagePhase))
         \cup EditLink(PagePhase) \cup ResultsTeaser(PagePhase)

\* The form while editable, the buttons of a draft, the link when it is not.
EditorOffers ==
    IF ~PageEditableAt(held, time) THEN {"details"}
    ELSE {"save"} \cup
         (IF held.status = "draft"
          THEN {"delete"} \cup (IF held.sound /\ held.startAt # Unset
                                   /\ held.startAt >= read + LeadTime THEN {"publish"} ELSE {})
          ELSE {})

\* Open since the start request; done once submitted or out of time.
WorkspaceOffers ==
    IF mine = "submitted" \/ time >= EndOf(held) THEN {"details"} ELSE {"answer", "submit", "details"}

OffersOn(page) ==
    CASE page = "browse" -> BrowseOffers
      [] page = "dashboard" -> DashboardOffers
      [] page = "details" -> DetailsOffers
      [] page = "editor" -> EditorOffers
      [] page = "workspace" -> WorkspaceOffers
      [] page = "results" -> {"details"}

\* The pages whose own request was answered when they were read.
Loaded(page) ==
    CASE page \in {"browse", "dashboard"} -> TRUE
      [] page = "details" -> Visible
      [] page = "editor" -> CanHost /\ OpensEditor
      [] page = "workspace" -> mine \in {"started", "submitted"} /\ SentPhase = "live"
      [] page = "results" -> SeesResults

-----------------------------------------------------------------------------
(* The contest and the entry change *)

Changed(c, e) == held' = c /\ mine' = e /\ read' = Unset

OffersInit ==
    /\ time = 0
    /\ held = [status |-> "draft", startAt |-> Unset, sound |-> FALSE,
               finalized |-> FALSE, entrants |-> 0]
    /\ mine = "none"
    /\ user \in {u \in [role : {"candidate", "interviewer", "admin"},
                        hosting : BOOLEAN, free : 0 .. 1] :
                    u.hosting => u.role # "candidate"}
    /\ read = Unset

\* The pages are read.
Look ==
    /\ read' = time
    /\ UNCHANGED <<time, held, mine, user>>

Ticks ==
    /\ time < LastTime
    /\ time' = time + 1
    /\ UNCHANGED <<held, mine, user, read>>

\* The host or an admin saves the details or the questions.
HostSaves(startAt, sound) ==
    /\ \/ held.status = "draft"
       \/ /\ held.status = "published" /\ time < held.startAt
          /\ sound /\ startAt # Unset /\ startAt >= time + LeadTime
    /\ Changed([held EXCEPT !.startAt = startAt, !.sound = sound], mine)
    /\ UNCHANGED <<time, user>>

\* The host publishes; a free contest of the user's is used up if that is the host.
HostPublishes ==
    /\ held.status = "draft" /\ PassesChecks(held.startAt)
    /\ user.hosting => Publishes
    /\ Changed([held EXCEPT !.status = "published"], mine)
    /\ user' = IF user.hosting /\ user.role # "admin" THEN [user EXCEPT !.free = @ - 1] ELSE user
    /\ UNCHANGED time

\* The host before the start, an admin until the results; the slot comes back if
\* nobody had joined before the start.
Cancelled ==
    /\ held.status = "published" /\ ~held.finalized
    /\ Changed([held EXCEPT !.status = "cancelled"], mine)
    /\ user' = IF user.hosting /\ user.role # "admin" /\ held.entrants = 0 /\ time < held.startAt
               THEN [user EXCEPT !.free = @ + 1] ELSE user
    /\ UNCHANGED time

Deleted ==
    /\ held.status = "draft"
    /\ Changed([held EXCEPT !.status = "deleted"], mine)
    /\ UNCHANGED <<time, user>>

Finalized ==
    /\ Phase = "pending"
    /\ Changed([held EXCEPT !.finalized = TRUE], mine)
    /\ UNCHANGED <<time, user>>

\* The user joins, leaves, opens the workspace and submits.
IJoin == /\ Joins /\ mine = "none"
         /\ Changed([held EXCEPT !.entrants = @ + 1], "joined") /\ UNCHANGED <<time, user>>
ILeave == /\ Leaves
          /\ Changed([held EXCEPT !.entrants = @ - 1], "none") /\ UNCHANGED <<time, user>>
IPlay == /\ Plays /\ mine = "joined"
         /\ Changed(held, "started") /\ UNCHANGED <<time, user>>
ISubmit == /\ Answers
           /\ Changed(held, "submitted") /\ UNCHANGED <<time, user>>

\* Others join, and leave before the start.
OthersJoin ==
    /\ Phase \in {"upcoming", "live"} /\ ~Full
    /\ Changed([held EXCEPT !.entrants = @ + 1], mine) /\ UNCHANGED <<time, user>>
OthersLeave ==
    /\ Phase = "upcoming" /\ held.entrants > (IF Joined THEN 1 ELSE 0)
    /\ Changed([held EXCEPT !.entrants = @ - 1], mine) /\ UNCHANGED <<time, user>>

OffersNext ==
    \/ Look \/ Ticks
    \/ \E startAt \in Starts \cup {Unset}, sound \in BOOLEAN : HostSaves(startAt, sound)
    \/ HostPublishes \/ Cancelled \/ Deleted \/ Finalized
    \/ IJoin \/ ILeave \/ IPlay \/ ISubmit \/ OthersJoin \/ OthersLeave

OffersSpec == OffersInit /\ [][OffersNext]_offersVars

-----------------------------------------------------------------------------

\* However long a page has been open, the phase it shows is the one the server
\* would send, when nothing but the clock has changed (contest-phase.ts, "so a page
\* moves from upcoming to live to pending on time without a reload"; the editor
\* calls a pending contest ended).
PagePhasesAgree ==
    read # Unset /\ held.status # "deleted" =>
       /\ PagePhase = Phase
       /\ PhaseOfContest(held, time) = Phase
       /\ EditorPhase(held, time) = (IF Phase = "pending" THEN "ended" ELSE Phase)

\* The offers that are known to be refused: a list keeps a contest in the tab it was
\* read in; its Join now does not look at the capacity; the editor offers an admin to
\* publish another's draft, a host to publish without a free contest or too late for
\* the start, and a published contest to be edited in the last minutes before it.
KnownRefusal(page, ask) ==
    \/ page \in {"browse", "dashboard"} /\ Phase # SentPhase
    \/ page = "browse" /\ ask = "join" /\ Full
    \/ ask = "publish" /\ (~user.hosting \/ user.free = 0 \/ held.startAt < time + LeadTime)
    \/ ask = "save" /\ held.status = "published" /\ held.startAt < time + LeadTime

\* What a page offers the server accepts, when nothing but the clock has changed
\* since the page was read, but for the offers named above (ContestDetails.tsx,
\* ContestsBrowse.tsx, ContestEditor.tsx, ContestsList.tsx against the guards of the
\* three contest services).
OffersAccepted ==
    read # Unset => \A page \in Pages : Loaded(page) =>
       \A ask \in OffersOn(page) : Accepts(ask) \/ KnownRefusal(page, ask)

\* The pages that links lead to from the lists.
LinkedFrom(pages) ==
    pages \cup {p \in Pages \ {"browse", "dashboard"} :
                  /\ Loaded(p) \/ (p = "workspace" /\ Plays)
                  /\ \E q \in pages : p \in OffersOn(q)}
Linked == LinkedFrom(LinkedFrom(LinkedFrom({"browse", "dashboard"})))

\* What no page leads to: an admin does not find another's draft, cannot join on the
\* contest page, nor leave; and may not cancel there a contest of his own that runs,
\* or any that is being scored, although the server would.
KnownGap(ask) ==
    /\ user.role = "admin"
    /\ \/ ~user.hosting /\ held.status = "draft"
       \/ ask \in {"join", "leave"} /\ Phase = "upcoming"
       \/ ask = "cancel" /\ (Phase = "pending" \/ (user.hosting /\ Phase = "live"))

\* Whatever the server would accept of the user, some page that links lead to offers,
\* but for the gaps named above.
NothingHidden ==
    read = time =>
       \A ask \in {"leave", "workspace", "results", "save", "publish", "cancel", "delete"}
                  \cup (IF Joined THEN {} ELSE {"join"}) :
          Accepts(ask) => (\E page \in Linked : ask \in OffersOn(page)) \/ KnownGap(ask)

\* "Drafts, and published contests before their start, can be edited"; the editor
\* says so too: "You can still edit it until" the start.  In the last minutes before
\* it every save is refused, since the start is no longer far enough away
\* (contest-hosting.service.ts, assertEditable and publishChecks).
EditableUntilStart ==
    OpensEditor /\ Phase = "upcoming" /\ held.sound => Saves(held.startAt)

=============================================================================
