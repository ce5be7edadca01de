------------------------- MODULE AnswerSheet_proof -------------------------
(***************************************************************************)
(* Theorems about AnswerSheet, for any number of screens, questions,       *)
(* options, picks and failures.  What the writes do to the entry depends   *)
(* on their filters alone, so the first two proofs need no invariant; what *)
(* a screen shows, and what a hand-in covers, needs to be followed from    *)
(* the pick through its line and the writes of its save.                   *)
(***************************************************************************)
EXTENDS AnswerSheet, TLAPS

\* The only steps that touch the entry: a write of a save, or a hand-in.
EntryStep ==
    \/ \E s \in Screens, q \in Questions : PullWrite(s, q) \/ SetWrite(s, q) \/ PushWrite(s, q)
    \/ \E s \in Screens : WriteSubmit(s)
    \/ SubmitByClock

\* Every other step of the screens, the requests and the clock leaves it alone.
LEMMA OthersLeaveEntry ==
    [Next]_vars => EntryStep \/ UNCHANGED <<sheet, submitted>>
<1> SUFFICES ASSUME [Next]_vars PROVE EntryStep \/ UNCHANGED <<sheet, submitted>>
  OBVIOUS
<1>1. ASSUME NEW s \in Screens,
             \/ Load(s) \/ Show(s) \/ Submit(s) \/ HandIn(s) \/ LoseSubmit(s)
             \/ \E o \in Screens : Reopen(s, o)
      PROVE  EntryStep \/ UNCHANGED <<sheet, submitted>>
  BY <1>1 DEF EntryStep, Load, Show, Reopen, Submit, HandIn, LoseSubmit,
              SendSubmit, CheckSubmit, AcceptedSubmit, Submitting
<1>2. ASSUME NEW s \in Screens, NEW q \in Questions,
             \/ \E pick \in Picks : Pick(s, q, pick)
             \/ Retry(s, q)
      PROVE  UNCHANGED <<sheet, submitted>>
  BY <1>2 DEF Pick, Retry, Enqueue
<1>3. ASSUME NEW s \in Screens, NEW q \in Questions, Server(s, q) \/ LoseSave(s, q)
      PROVE  EntryStep \/ UNCHANGED <<sheet, submitted>>
  BY <1>3 DEF EntryStep, Server, LoseSave, Check, Respond, Serving, Settle
<1>4. CASE End \/ SubmitByClock \/ UNCHANGED vars
  BY <1>4 DEF EntryStep, End, vars
<1> QED BY <1>1, <1>2, <1>3, <1>4 DEF Next

-----------------------------------------------------------------------------

LEMMA OneAnswerKept ==
  ASSUME OneAnswerEach, [Next]_vars
  PROVE  OneAnswerEach'
<1> SUFFICES ASSUME EntryStep PROVE OneAnswerEach'
  BY OthersLeaveEntry DEF OneAnswerEach
<1>1. ASSUME NEW s \in Screens, NEW q \in Questions, PullWrite(s, q)
      PROVE  OneAnswerEach'
  BY <1>1 DEF PullWrite, OneAnswerEach
<1>2. ASSUME NEW s \in Screens, NEW q \in Questions, SetWrite(s, q)
      PROVE  OneAnswerEach'
  BY <1>2 DEF SetWrite, OneAnswerEach, Answer
<1>3. ASSUME NEW s \in Screens, NEW q \in Questions, PushWrite(s, q)
      PROVE  OneAnswerEach'
  BY <1>3 DEF PushWrite, OneAnswerEach, FirstAnswer, HasAnswer, Answer
<1>4. CASE SubmitByClock \/ \E s \in Screens : WriteSubmit(s)
  BY <1>4 DEF SubmitByClock, WriteSubmit, Submitting, OneAnswerEach
<1>5. QED BY <1>1, <1>2, <1>3, <1>4 DEF EntryStep

\* Whatever screens and requests interleave, the entry has one answer to a
\* question at most: a push adds one only where the document has none, and a set
\* replaces (saveAnswer).
THEOREM OneAnswerEachHolds == Spec => []OneAnswerEach
<1>1. Init => OneAnswerEach
  BY DEF Init, OneAnswerEach
<1>2. OneAnswerEach /\ [Next]_vars => OneAnswerEach'
  BY OneAnswerKept
<1> QED BY <1>1, <1>2, PTL DEF Spec

\* "Answers are final from here": once the entry is handed in, by the entrant or by
\* the clock, no step changes its answers or hands it in again (saveAnswer, submit).
THEOREM SheetIsFinalHolds == Spec => SheetIsFinal
<1>1. [Next]_vars => (submitted # "no" => UNCHANGED <<sheet, submitted>>)
  <2> SUFFICES ASSUME EntryStep, submitted # "no" PROVE UNCHANGED <<sheet, submitted>>
    BY OthersLeaveEntry
  <2> QED
    BY DEF EntryStep, PullWrite, SetWrite, PushWrite, WriteSubmit, SubmitByClock,
           Serving, Submitting, OpenEntry
<1> QED BY <1>1, PTL DEF Spec, SheetIsFinal

-----------------------------------------------------------------------------
(* What a lone tab shows *)

Steps == {"none", "sent", "pull", "set", "push", "kept", "dropped", "refused"}
ScreenType ==
    [at : {"closed", "loading", "open", "gone"}, shown : Answers, done : BOOLEAN,
     got : Answers, gotDone : BOOLEAN, missed : SUBSET Questions,
     status : {"idle", "saving", "saved"} \cup Questions,
     line : [Questions -> Seq(Picks)],
     submit : {"none", "waiting", "sent", "write", "accepted", "done"},
     waits : [Questions -> Nat], claim : [Questions -> SUBSET Picks]]

TypeOK ==
    /\ sheet \subseteq [questionId : Questions, optionIds : Picks]
    /\ submitted \in {"no", "entrant", "clock"} /\ ended \in BOOLEAN
    /\ screen \in [Screens -> ScreenType]
    /\ save \in [Screens -> [Questions -> Steps]]
    /\ failures \in Nat

Active(s) == screen[s].at \in {"loading", "open"}

\* A save is on its way as long as its line has one, and clears or sets as picked.
SaveOK(s, q) ==
    /\ screen[s].line[q] = <<>> <=> save[s][q] = "none"
    /\ save[s][q] = "pull" => screen[s].line[q][1] = NoPick
    /\ save[s][q] \in {"set", "push"} => screen[s].line[q][1] # NoPick
SavesOK == \A s \in Screens, q \in Questions : SaveOK(s, q)

ClosedOK == \A s \in Screens : screen[s].at = "closed" => screen[s] = Closed
GoneOK == (\E s \in Screens : screen[s].at = "gone") => \E s \in Screens : Active(s)

\* No other visit has a save of the question on its way.
AloneInLine(s, q) == \A o \in Screens \ {s} : screen[o].line[q] = <<>>

\* The save at the head of the line ends up as the answer.
Proper(s, q) ==
    /\ save[s][q] \in {"sent", "pull", "set", "push", "kept"}
    /\ save[s][q] = "push" => ~HasAnswer(q)
    /\ save[s][q] = "kept" => Saved[q] = screen[s].line[q][1]

\* What is shown is what was picked last.
Right(s, q) ==
    /\ screen[s].line[q] = <<>> => Saved[q] = screen[s].shown[q]
    /\ screen[s].line[q] # <<>> => screen[s].shown[q] = screen[s].line[q][Len(screen[s].line[q])]
    /\ Len(screen[s].line[q]) = 1 => Proper(s, q)

\* What is claimed is the answer, or the last of the saves that are waited for.
Covered(s, q) ==
    /\ screen[s].shown[q] \in screen[s].claim[q]
    /\ screen[s].waits[q] <= Len(screen[s].line[q])
    /\ \A i \in 1 .. Len(screen[s].line[q]) :
          i >= screen[s].waits[q] => screen[s].line[q][i] \in screen[s].claim[q]
    /\ screen[s].waits[q] = 1 => Proper(s, q)
    /\ screen[s].waits[q] = 0 => Saved[q] \in screen[s].claim[q]

Claimed(s, q) ==
    /\ screen[s].submit = "sent" => screen[s].waits[q] = 0
    /\ screen[s].submit \in {"waiting", "sent"} /\ ~ended /\ OpenEntry => Covered(s, q)
    /\ screen[s].submit = "write" /\ OpenEntry => Covered(s, q) /\ screen[s].waits[q] = 0
    /\ screen[s].submit \in {"accepted", "done"} => ~OpenEntry /\ Saved[q] \in screen[s].claim[q]

Fine(s, q) ==
    /\ AloneInLine(s, q)
    /\ ~ended /\ OpenEntry => Right(s, q)
    /\ Claimed(s, q)

LoneOK == \A s \in Screens : Alone(s) /\ Active(s) =>
             \A q \in Questions \ screen[s].missed : Fine(s, q)

IInv == TypeOK /\ OneAnswerEach /\ SavesOK /\ ClosedOK /\ GoneOK /\ LoneOK

-----------------------------------------------------------------------------
(* The answers, as read from the sheet *)

LEMMA SavedIs ==
  ASSUME OneAnswerEach, NEW q \in Questions, NEW a \in sheet, a.questionId = q
  PROVE  Saved[q] = a.optionIds /\ HasAnswer(q)
<1>1. HasAnswer(q)
  BY DEF HasAnswer
<1>2. (CHOOSE b \in sheet : b.questionId = q) = a
  BY DEF OneAnswerEach
<1>3. QED BY <1>1, <1>2 DEF Saved

LEMMA SavedIsNext ==
  ASSUME OneAnswerEach', NEW q \in Questions, NEW pick, Answer(q, pick) \in sheet'
  PROVE  Saved'[q] = pick
<1> DEFINE a == Answer(q, pick)
<1>1. a \in sheet' /\ a.questionId = q /\ a.optionIds = pick
  BY DEF Answer
<1>2. (CHOOSE b \in sheet' : b.questionId = q) = a
  BY <1>1 DEF OneAnswerEach
<1>3. QED BY <1>1, <1>2 DEF Saved, HasAnswer

LEMMA SavedNone ==
  ASSUME NEW q \in Questions, ~HasAnswer(q)
  PROVE  Saved[q] = NoPick
  BY DEF Saved

\* Of a question whose answers the step leaves alone.
LEMMA SavedKept ==
  ASSUME OneAnswerEach, OneAnswerEach', NEW q \in Questions,
         \A a : a.questionId = q => (a \in sheet <=> a \in sheet')
  PROVE  Saved'[q] = Saved[q] /\ (HasAnswer(q)' <=> HasAnswer(q))
<1>1. HasAnswer(q)' <=> HasAnswer(q)
  BY DEF HasAnswer
<1>2. CASE HasAnswer(q)
  <2>1. PICK a \in sheet : a.questionId = q
    BY <1>2 DEF HasAnswer
  <2>2. (CHOOSE b \in sheet : b.questionId = q) = a
    BY <2>1 DEF OneAnswerEach
  <2>3. (CHOOSE b \in sheet' : b.questionId = q) = a
    BY <2>1 DEF OneAnswerEach
  <2>4. Saved[q] = a.optionIds
    BY <1>2, <2>2 DEF Saved
  <2>5. Saved'[q] = a.optionIds
    BY <2>1, <2>3 DEF Saved, HasAnswer
  <2>6. QED BY <1>1, <2>4, <2>5
<1>3. CASE ~HasAnswer(q)
  <2>1. Saved[q] = NoPick
    BY <1>3 DEF Saved
  <2>2. Saved'[q] = NoPick
    BY <1>3 DEF Saved, HasAnswer
  <2>3. QED BY <1>1, <2>1, <2>2
<1>4. QED BY <1>1, <1>2, <1>3

-----------------------------------------------------------------------------
(* The steps of the server *)

Serve(s, q) == Check(s, q) \/ PullWrite(s, q) \/ SetWrite(s, q) \/ PushWrite(s, q)

LEMMA ServeFrame ==
  ASSUME IInv, NEW s \in Screens, NEW q \in Questions, Serve(s, q)
  PROVE  /\ UNCHANGED <<submitted, ended, screen, failures>>
         /\ save' \in [Screens -> [Questions -> Steps]]
         /\ \A o \in Screens, p \in Questions : o # s \/ p # q => save'[o][p] = save[o][p]
         /\ screen[s].line[q] # <<>> /\ screen[s].line[q] \in Seq(Picks)
         /\ screen[s].line[q][1] \in Picks
<1>1. save \in [Screens -> [Questions -> Steps]] /\ SaveOK(s, q)
  BY DEF IInv, TypeOK, SavesOK
<1>2. screen[s].line[q] # <<>>
  BY <1>1 DEF Serve, Check, PullWrite, SetWrite, PushWrite, Serving, SaveOK
<1>3. screen[s].line[q] \in Seq(Picks)
  BY DEF IInv, TypeOK, ScreenType
<1>4. UNCHANGED <<submitted, ended, screen, failures>>
  BY DEF Serve, Check, PullWrite, SetWrite, PushWrite, Serving
<1>5. \E step \in Steps : save' = [save EXCEPT ![s][q] = step]
  BY DEF Serve, Check, PullWrite, SetWrite, PushWrite, To, Steps
<1>6. save' \in [Screens -> [Questions -> Steps]]
      /\ \A o \in Screens, p \in Questions : o # s \/ p # q => save'[o][p] = save[o][p]
  BY <1>1, <1>5
<1>7. screen[s].line[q][1] \in Picks
  BY <1>2, <1>3
<1>8. QED BY <1>2, <1>3, <1>4, <1>6, <1>7

LEMMA ServeSheet ==
  ASSUME IInv, OneAnswerEach', NEW s \in Screens, NEW q \in Questions, Serve(s, q)
  PROVE  /\ sheet' \subseteq [questionId : Questions, optionIds : Picks]
         /\ \A p \in Questions \ {q} : Saved'[p] = Saved[p] /\ (HasAnswer(p)' <=> HasAnswer(p))
         /\ ~OpenEntry => Saved'[q] = Saved[q]
         /\ Saved'[q] = Saved[q] \/ Saved'[q] = screen[s].line[q][1]
<1> DEFINE pick == screen[s].line[q][1]
<1>1. pick \in Picks /\ screen[s].line[q] # <<>> /\ screen[s].line[q] \in Seq(Picks)
  BY ServeFrame
<1>2. Head(screen[s].line[q]) = pick
  BY <1>1
<1>3. sheet \subseteq [questionId : Questions, optionIds : Picks] /\ OneAnswerEach /\ SaveOK(s, q)
  BY DEF IInv, TypeOK, SavesOK
<1>4. ASSUME sheet' = sheet
      PROVE  Saved' = Saved /\ \A p \in Questions : HasAnswer(p)' <=> HasAnswer(p)
  BY <1>4 DEF Saved, HasAnswer
<1>5. CASE sheet' = sheet
  BY <1>3, <1>4, <1>5
<1>6. CASE PullWrite(s, q) /\ OpenEntry
  <2>1. sheet' = {a \in sheet : a.questionId # q} /\ pick = NoPick
    BY <1>3, <1>6 DEF PullWrite, Serving, SaveOK
  <2>2. Saved'[q] = NoPick
    BY <2>1 DEF Saved, HasAnswer
  <2>3. ASSUME NEW p \in Questions \ {q}
        PROVE  Saved'[p] = Saved[p] /\ (HasAnswer(p)' <=> HasAnswer(p))
    BY <1>3, <2>1, SavedKept
  <2>4. QED BY <1>3, <1>6, <2>1, <2>2, <2>3
<1>7. CASE SetWrite(s, q) /\ OpenEntry /\ HasAnswer(q)
  <2>1. sheet' = {IF a.questionId = q THEN Answer(q, pick) ELSE a : a \in sheet}
    BY <1>2, <1>7 DEF SetWrite
  <2>2. Answer(q, pick) \in sheet'
    BY <1>7, <2>1 DEF HasAnswer
  <2>3. Saved'[q] = pick
    BY <2>2, SavedIsNext
  <2>4. ASSUME NEW p \in Questions \ {q}
        PROVE  Saved'[p] = Saved[p] /\ (HasAnswer(p)' <=> HasAnswer(p))
    <3>1. \A a : a.questionId = p => (a \in sheet <=> a \in sheet')
      BY <2>1 DEF Answer
    <3>2. QED BY <1>3, <3>1, SavedKept
  <2>5. sheet' \subseteq [questionId : Questions, optionIds : Picks]
    BY <1>1, <1>3, <2>1 DEF Answer
  <2>6. QED BY <1>7, <2>3, <2>4, <2>5
<1>8. CASE PushWrite(s, q) /\ OpenEntry /\ FirstAnswer(q)
  <2>1. sheet' = sheet \cup {Answer(q, pick)}
    BY <1>2, <1>8 DEF PushWrite
  <2>2. Answer(q, pick) \in sheet'
    BY <2>1
  <2>3. Saved'[q] = pick
    BY <2>2, SavedIsNext
  <2>4. ASSUME NEW p \in Questions \ {q}
        PROVE  Saved'[p] = Saved[p] /\ (HasAnswer(p)' <=> HasAnswer(p))
    <3>1. \A a : a.questionId = p => (a \in sheet <=> a \in sheet')
      BY <2>1 DEF Answer
    <3>2. QED BY <1>3, <3>1, SavedKept
  <2>5. sheet' \subseteq [questionId : Questions, optionIds : Picks]
    BY <1>1, <1>3, <2>1 DEF Answer
  <2>6. QED BY <1>8, <2>3, <2>4, <2>5
<1>9. QED
  BY <1>5, <1>6, <1>7, <1>8 DEF Serve, Check, PullWrite, SetWrite, PushWrite

\* While the tab is alone with the question, its save goes the way of its pick.
LEMMA ServeProper ==
  ASSUME IInv, OneAnswerEach', NEW s \in Screens, NEW q \in Questions, Serve(s, q),
         Proper(s, q), ~ended, OpenEntry
  PROVE  Proper(s, q)'
<1> DEFINE pick == screen[s].line[q][1]
<1>1. /\ pick \in Picks /\ screen[s].line[q] # <<>> /\ screen[s].line[q] \in Seq(Picks)
      /\ screen' = screen
  BY ServeFrame
<1>2. Head(screen[s].line[q]) = pick
  BY <1>1
<1>3. save \in [Screens -> [Questions -> Steps]] /\ OneAnswerEach /\ SaveOK(s, q)
  BY DEF IInv, TypeOK, SavesOK
<1>4. CASE Check(s, q)
  BY <1>1, <1>2, <1>3, <1>4 DEF Check, To, Proper
<1>5. CASE PullWrite(s, q)
  <2>1. sheet' = {a \in sheet : a.questionId # q} /\ pick = NoPick /\ save'[s][q] = "kept"
    BY <1>3, <1>5 DEF PullWrite, Serving, SaveOK, To
  <2>2. Saved'[q] = NoPick
    BY <2>1 DEF Saved, HasAnswer
  <2>3. QED BY <1>1, <2>1, <2>2 DEF Proper
<1>6. CASE SetWrite(s, q) /\ HasAnswer(q)
  <2>1. /\ sheet' = {IF a.questionId = q THEN Answer(q, pick) ELSE a : a \in sheet}
        /\ save'[s][q] = "kept"
    BY <1>2, <1>3, <1>6 DEF SetWrite, To
  <2>2. Answer(q, pick) \in sheet'
    BY <1>6, <2>1 DEF HasAnswer
  <2>3. Saved'[q] = pick
    BY <2>2, SavedIsNext
  <2>4. QED BY <1>1, <2>1, <2>3 DEF Proper
<1>7. CASE SetWrite(s, q) /\ ~HasAnswer(q)
  <2>1. sheet' = sheet /\ save'[s][q] = "push"
    BY <1>3, <1>7 DEF SetWrite, To
  <2>2. QED BY <1>7, <2>1 DEF Proper, HasAnswer
<1>8. CASE PushWrite(s, q)
  <2>1. sheet' = sheet \cup {Answer(q, pick)} /\ save'[s][q] = "kept"
    BY <1>2, <1>3, <1>8 DEF PushWrite, To, Proper, Serving, FirstAnswer
  <2>2. Answer(q, pick) \in sheet'
    BY <2>1
  <2>3. Saved'[q] = pick
    BY <2>2, SavedIsNext
  <2>4. QED BY <1>1, <2>1, <2>3 DEF Proper
<1>9. QED BY <1>4, <1>5, <1>6, <1>7, <1>8 DEF Serve

LEMMA ServeStep ==
  ASSUME IInv, OneAnswerEach', NEW t \in Screens, NEW p \in Questions, Serve(t, p)
  PROVE  IInv'
<1>1. /\ UNCHANGED <<submitted, ended, screen, failures>>
      /\ save' \in [Screens -> [Questions -> Steps]]
      /\ \A o \in Screens, r \in Questions : o # t \/ r # p => save'[o][r] = save[o][r]
      /\ screen[t].line[p] # <<>> /\ screen[t].line[p] \in Seq(Picks)
  BY ServeFrame
<1>2. /\ sheet' \subseteq [questionId : Questions, optionIds : Picks]
      /\ \A r \in Questions \ {p} : Saved'[r] = Saved[r] /\ (HasAnswer(r)' <=> HasAnswer(r))
      /\ ~OpenEntry => Saved'[p] = Saved[p]
      /\ Saved'[p] = Saved[p] \/ Saved'[p] = screen[t].line[p][1]
  BY ServeSheet
<1>3. TypeOK'
  BY <1>1, <1>2 DEF IInv, TypeOK
<1>4. SavesOK'
  <2>1. SaveOK(t, p)'
    <3>1. Head(screen[t].line[p]) = screen[t].line[p][1] /\ SaveOK(t, p)
      BY <1>1 DEF IInv, SavesOK
    <3>2. save \in [Screens -> [Questions -> Steps]]
      BY DEF IInv, TypeOK
    <3>3. QED BY <1>1, <3>1, <3>2
      DEF Serve, Check, PullWrite, SetWrite, PushWrite, Serving, To, SaveOK
  <2>2. ASSUME NEW o \in Screens, NEW r \in Questions, o # t \/ r # p
        PROVE  SaveOK(o, r)'
    BY <1>1, <2>2 DEF IInv, SavesOK, SaveOK
  <2>3. QED BY <2>1, <2>2 DEF SavesOK
<1>5. ClosedOK' /\ GoneOK'
  BY <1>1 DEF IInv, ClosedOK, GoneOK, Active
<1>6. LoneOK'
  <2> SUFFICES ASSUME NEW s \in Screens, Alone(s)', Active(s)',
                      NEW q \in Questions \ screen'[s].missed
               PROVE  Fine(s, q)'
    BY DEF LoneOK
  <2>1. Fine(s, q)
    BY <1>1 DEF IInv, LoneOK, Alone, Active
  <2>2. AloneInLine(s, q)' /\ (OpenEntry' <=> OpenEntry) /\ screen'[s] = screen[s] /\ ended' = ended
    BY <1>1, <2>1 DEF Fine, AloneInLine, OpenEntry
  <2>3. CASE s = t /\ q = p
    <3>1. ~ended /\ OpenEntry /\ Proper(s, q) => Proper(s, q)'
      BY <2>3, ServeProper
    <3>2. ~ended /\ OpenEntry => Right(s, q)'
      BY <1>1, <2>1, <2>2, <2>3, <3>1 DEF Fine, Right
    <3>3. screen[s].line[q] # <<>> /\ Len(screen[s].line[q]) \in Nat \ {0}
      BY <1>1, <2>3
    <3>4. screen[s].waits[q] \in Nat
      BY DEF IInv, TypeOK, ScreenType
    <3>5. Covered(s, q) /\ screen[s].waits[q] = 0 => Saved'[q] \in screen[s].claim[q]
      BY <1>2, <2>3, <3>3 DEF Covered
    <3>6. Covered(s, q) /\ (screen[s].waits[q] = 0 \/ (~ended /\ OpenEntry)) => Covered(s, q)'
      BY <2>2, <3>1, <3>4, <3>5 DEF Covered
    <3>7. Claimed(s, q)'
      BY <1>2, <2>1, <2>2, <2>3, <3>6 DEF Fine, Claimed
    <3>8. QED BY <2>2, <3>2, <3>7 DEF Fine
  <2>4. CASE s # t \/ q # p
    <3>1. q # p
      BY <1>1, <2>1, <2>4 DEF Fine, AloneInLine
    <3>2. save'[s][q] = save[s][q] /\ Saved'[q] = Saved[q] /\ (HasAnswer(q)' <=> HasAnswer(q))
      BY <1>1, <1>2, <3>1
    <3>3. Proper(s, q) => Proper(s, q)'
      BY <2>2, <3>2 DEF Proper
    <3>4. (Right(s, q) => Right(s, q)') /\ (Covered(s, q) => Covered(s, q)')
      BY <2>2, <3>2, <3>3 DEF Right, Covered
    <3>5. QED BY <2>1, <2>2, <3>2, <3>4 DEF Fine, Claimed
  <2>5. QED BY <2>3, <2>4
<1>7. QED BY <1>3, <1>4, <1>5, <1>6 DEF IInv

-----------------------------------------------------------------------------
(* The answers to the requests *)

LEMMA SettleFrame ==
  ASSUME IInv, NEW t \in Screens, NEW p \in Questions, save[t][p] # "none",
         NEW how, NEW status \in {"idle", "saving", "saved"} \cup Questions,
         Settle(t, p, how, status), failures' \in Nat
  PROVE  /\ TypeOK' /\ SavesOK' /\ ClosedOK' /\ GoneOK'
         /\ screen[t].line[p] # <<>> /\ screen[t].line[p] \in Seq(Picks)
         /\ screen[t].waits[p] \in Nat
         /\ \A o \in Screens \ {t} : screen'[o] = screen[o]
         /\ \A o \in Screens, r \in Questions : o # t \/ r # p =>
               /\ save'[o][r] = save[o][r]
               /\ screen'[o].line[r] = screen[o].line[r]
               /\ screen'[o].waits[r] = screen[o].waits[r]
         /\ screen'[t].line[p] = Tail(screen[t].line[p])
         /\ screen'[t].waits[p] = IF screen[t].waits[p] = 0 THEN 0 ELSE screen[t].waits[p] - 1
         /\ save'[t][p] = IF Tail(screen[t].line[p]) = <<>> THEN "none" ELSE "sent"
         /\ screen'[t].at = screen[t].at /\ screen'[t].shown = screen[t].shown
         /\ screen'[t].claim = screen[t].claim /\ screen'[t].submit = screen[t].submit
         /\ screen'[t].missed = screen[t].missed
<1> DEFINE line == screen[t].line[p]
           waits == screen[t].waits[p]
           m == [screen[t] EXCEPT !.line[p] = Tail(line), !.status = status,
                                  !.waits[p] = IF waits = 0 THEN 0 ELSE waits - 1]
           step == IF Tail(line) = <<>> THEN "none" ELSE "sent"
<1>1. screen \in [Screens -> ScreenType] /\ save \in [Screens -> [Questions -> Steps]]
  BY DEF IInv, TypeOK
<1>2. screen[t] \in ScreenType /\ line \in Seq(Picks) /\ waits \in Nat
  BY <1>1 DEF ScreenType
<1>3. line # <<>>
  BY DEF IInv, SavesOK, SaveOK
<1>4. Tail(line) \in Seq(Picks) /\ Len(line) - Len(Tail(line)) = 1
  BY <1>2, <1>3
<1>5. m \in ScreenType
  <2>1. [screen[t].line EXCEPT ![p] = Tail(line)] \in [Questions -> Seq(Picks)]
    BY <1>2, <1>4 DEF ScreenType
  <2>2. [screen[t].waits EXCEPT ![p] = IF waits = 0 THEN 0 ELSE waits - 1] \in [Questions -> Nat]
    BY <1>2 DEF ScreenType
  <2>3. QED BY <1>2, <2>1, <2>2 DEF ScreenType
<1>6. screen' = [screen EXCEPT ![t] = m] /\ save' = [save EXCEPT ![t][p] = step]
  <2>1. /\ screen' = [screen EXCEPT ![t].line[p] = Tail(line), ![t].status = status,
                                    ![t].waits[p] = Left(@, Len(line) - Len(Tail(line)))]
        /\ save' = [save EXCEPT ![t][p] = step]
    BY DEF Settle, Settled, To
  <2>2. screen' = [screen EXCEPT ![t] =
                      [screen[t] EXCEPT !.line[p] = Tail(line), !.status = status,
                                        !.waits[p] = Left(@, Len(line) - Len(Tail(line)))]]
    BY <1>1, <2>1
  <2>3. Left(waits, Len(line) - Len(Tail(line))) = IF waits = 0 THEN 0 ELSE waits - 1
    BY <1>4 DEF Left
  <2>4. QED BY <1>2, <2>1, <2>2, <2>3 DEF ScreenType
<1>7. /\ m.line[p] = Tail(line) /\ m.waits[p] = IF waits = 0 THEN 0 ELSE waits - 1
      /\ \A r \in Questions \ {p} : m.line[r] = screen[t].line[r] /\ m.waits[r] = screen[t].waits[r]
      /\ m.at = screen[t].at /\ m.shown = screen[t].shown /\ m.claim = screen[t].claim
      /\ m.submit = screen[t].submit /\ m.missed = screen[t].missed
  BY <1>2 DEF ScreenType
<1>8. step \in Steps
  BY DEF Steps
<1> HIDE DEF m, step
<1>9. /\ screen'[t] = m /\ \A o \in Screens \ {t} : screen'[o] = screen[o]
      /\ screen' \in [Screens -> ScreenType]
  BY <1>1, <1>5, <1>6
<1>10. /\ save'[t][p] = step /\ save' \in [Screens -> [Questions -> Steps]]
       /\ \A o \in Screens, r \in Questions : o # t \/ r # p => save'[o][r] = save[o][r]
  BY <1>1, <1>6, <1>8
<1>11. TypeOK'
  BY <1>9, <1>10 DEF IInv, TypeOK, Settle
<1>12. \A o \in Screens, r \in Questions : o # t \/ r # p =>
               /\ screen'[o].line[r] = screen[o].line[r]
               /\ screen'[o].waits[r] = screen[o].waits[r]
  BY <1>7, <1>9
<1>13. SavesOK'
  <2>1. SaveOK(t, p)'
    BY <1>7, <1>9, <1>10 DEF SaveOK, step
  <2>2. ASSUME NEW o \in Screens, NEW r \in Questions, o # t \/ r # p
        PROVE  SaveOK(o, r)'
    BY <1>10, <1>12, <2>2 DEF IInv, SavesOK, SaveOK
  <2>3. QED BY <2>1, <2>2 DEF SavesOK
<1>14. screen[t].at # "closed"
  <2>1. screen[t] # Closed
    BY <1>3 DEF Closed
  <2>2. QED BY <2>1 DEF IInv, ClosedOK
<1>15. ClosedOK' /\ GoneOK'
  BY <1>7, <1>9, <1>14 DEF IInv, ClosedOK, GoneOK, Active
<1>16. QED BY <1>2, <1>3, <1>7, <1>9, <1>10, <1>11, <1>12, <1>13, <1>15 DEF step

\* A question that the step leaves alone, on a screen that it leaves as it was.
LEMMA FineKept ==
  ASSUME NEW s \in Screens, NEW q \in Questions, Fine(s, q), AloneInLine(s, q)',
         sheet' = sheet, submitted' = submitted, ended' = ended,
         save'[s][q] = save[s][q], screen'[s].line[q] = screen[s].line[q],
         screen'[s].waits[q] = screen[s].waits[q], screen'[s].shown[q] = screen[s].shown[q],
         screen'[s].claim[q] = screen[s].claim[q], screen'[s].submit = screen[s].submit
  PROVE  Fine(s, q)'
<1>1. (OpenEntry' <=> OpenEntry) /\ Saved' = Saved /\ (HasAnswer(q)' <=> HasAnswer(q))
  BY DEF OpenEntry, Saved, HasAnswer
<1>2. Proper(s, q)' <=> Proper(s, q)
  BY <1>1 DEF Proper
<1>3. (Right(s, q)' <=> Right(s, q)) /\ (Covered(s, q)' <=> Covered(s, q))
  BY <1>1, <1>2 DEF Right, Covered
<1>4. QED BY <1>1, <1>3 DEF Fine, Claimed

LEMMA TailIs ==
  ASSUME NEW S, NEW seq \in Seq(S), seq # <<>>
  PROVE  /\ Tail(seq) \in Seq(S) /\ Len(seq) \in Nat \ {0} /\ Len(Tail(seq)) = Len(seq) - 1
         /\ \A i \in 1 .. Len(seq) - 1 : Tail(seq)[i] = seq[i + 1]
         /\ Tail(seq) = <<>> <=> Len(seq) = 1
         /\ Tail(seq) # <<>> => Tail(seq)[Len(Tail(seq))] = seq[Len(seq)]
<1>1. Len(seq) \in Nat \ {0} /\ Tail(seq) \in Seq(S) /\ Len(Tail(seq)) = Len(seq) - 1
  OBVIOUS
<1>2. \A i \in 1 .. Len(seq) - 1 : Tail(seq)[i] = seq[i + 1]
  OBVIOUS
<1>3. Tail(seq) = <<>> <=> Len(Tail(seq)) = 0
  <2>1. \A rest \in Seq(S) : rest = <<>> <=> Len(rest) = 0
    OBVIOUS
  <2>2. QED BY <1>1, <2>1
<1>4. Tail(seq) = <<>> <=> Len(seq) = 1
  BY <1>1, <1>3
<1>5. ASSUME Tail(seq) # <<>> PROVE Tail(seq)[Len(Tail(seq))] = seq[Len(seq)]
  <2>1. Len(seq) - 1 \in 1 .. Len(seq) - 1
    BY <1>1, <1>4, <1>5
  <2>2. QED BY <1>1, <1>2, <2>1
<1>6. QED BY <1>1, <1>2, <1>4, <1>5

\* A save that is kept takes its pick out of the line, and the next one is sent.
LEMMA RespondStep ==
  ASSUME IInv, OneAnswerEach', NEW t \in Screens, NEW p \in Questions, Respond(t, p)
  PROVE  IInv'
<1> DEFINE line == screen[t].line[p]
<1>1. /\ save[t][p] \in {"kept", "dropped", "refused"} /\ failures' = failures
      /\ UNCHANGED <<sheet, submitted, ended>>
      /\ \E status \in {"idle", "saving", "saved"} \cup Questions :
            Settle(t, p, save[t][p], status)
  <2>1. screen[t].status \in {"idle", "saving", "saved"} \cup Questions
    BY DEF IInv, TypeOK, ScreenType
  <2>2. QED BY <2>1 DEF Respond, Settle
<1>2. /\ TypeOK' /\ SavesOK' /\ ClosedOK' /\ GoneOK'
      /\ line # <<>> /\ line \in Seq(Picks) /\ screen[t].waits[p] \in Nat
      /\ \A o \in Screens \ {t} : screen'[o] = screen[o]
      /\ \A o \in Screens, r \in Questions : o # t \/ r # p =>
            /\ save'[o][r] = save[o][r]
            /\ screen'[o].line[r] = screen[o].line[r]
            /\ screen'[o].waits[r] = screen[o].waits[r]
      /\ screen'[t].line[p] = Tail(line)
      /\ screen'[t].waits[p] = IF screen[t].waits[p] = 0 THEN 0 ELSE screen[t].waits[p] - 1
      /\ save'[t][p] = IF Tail(line) = <<>> THEN "none" ELSE "sent"
      /\ screen'[t].at = screen[t].at /\ screen'[t].shown = screen[t].shown
      /\ screen'[t].claim = screen[t].claim /\ screen'[t].submit = screen[t].submit
      /\ screen'[t].missed = screen[t].missed
  <2>1. failures' \in Nat /\ save[t][p] # "none"
    BY <1>1 DEF IInv, TypeOK
  <2>2. PICK status \in {"idle", "saving", "saved"} \cup Questions :
               Settle(t, p, save[t][p], status)
    BY <1>1
  <2> HIDE DEF line
  <2>3. QED BY <2>1, <2>2, SettleFrame DEF line
<1>3. LoneOK'
  <2> SUFFICES ASSUME NEW s \in Screens, Alone(s)', Active(s)',
                      NEW q \in Questions \ screen'[s].missed
               PROVE  Fine(s, q)'
    BY DEF LoneOK
  <2>1. Fine(s, q)
    <3>1. \A o \in Screens : screen'[o].at = screen[o].at /\ screen'[o].missed = screen[o].missed
      BY <1>2
    <3>2. QED BY <1>1, <3>1 DEF IInv, LoneOK, Alone, Active
  <2>2. s = t \/ q # p
    BY <1>2, <2>1 DEF Fine, AloneInLine
  <2>3. AloneInLine(s, q)'
    BY <1>2, <2>1, <2>2 DEF Fine, AloneInLine
  <2>4. CASE s # t \/ q # p
    <3>1. save'[s][q] = save[s][q]
      BY <1>2, <2>4
    <3>2. screen'[s].line[q] = screen[s].line[q] /\ screen'[s].waits[q] = screen[s].waits[q]
      BY <1>2, <2>4
    <3>3. /\ screen'[s].shown[q] = screen[s].shown[q] /\ screen'[s].claim[q] = screen[s].claim[q]
          /\ screen'[s].submit = screen[s].submit
      BY <1>2
    <3>4. QED BY <1>1, <2>1, <2>3, <3>1, <3>2, <3>3, FineKept
  <2>5. CASE s = t /\ q = p
    <3> DEFINE waits == screen[t].waits[p]
               claim == screen[t].claim[p]
    <3>1. (OpenEntry' <=> OpenEntry) /\ Saved' = Saved /\ ended' = ended
      BY <1>1 DEF OpenEntry, Saved, HasAnswer
    <3> DEFINE rest == Tail(line)
    <3>2. /\ rest \in Seq(Picks) /\ Len(line) \in Nat \ {0} /\ Len(rest) = Len(line) - 1
          /\ \A i \in 1 .. Len(line) - 1 : rest[i] = line[i + 1]
          /\ rest = <<>> <=> Len(line) = 1
          /\ rest # <<>> => rest[Len(rest)] = line[Len(line)]
      <4> HIDE DEF line
      <4>1. QED BY <1>2, TailIs
    <3>3. Proper(t, p) => Saved[p] = line[1]
      BY <1>1 DEF Proper
    <3>4. Tail(line) # <<>> => Proper(t, p)'
      BY <1>2 DEF Proper
    <3>9. /\ screen'[t].line[p] = rest /\ screen'[t].claim[p] = claim
          /\ screen'[t].shown[p] = screen[t].shown[p]
          /\ screen'[t].waits[p] = IF waits = 0 THEN 0 ELSE waits - 1
          /\ line # <<>> /\ waits \in Nat
      BY <1>2
    <3> HIDE DEF rest, line, claim, waits
    <3>5. ~ended /\ OpenEntry => Right(t, p)'
      <4> HAVE ~ended /\ OpenEntry
      <4>1. Right(t, p)
        BY <2>1, <2>5 DEF Fine
      <4>2. screen[t].shown[p] = line[Len(line)]
        BY <3>9, <4>1 DEF Right, line
      <4>3. CASE Len(line) = 1
        <5>1. rest = <<>> /\ Saved[p] = screen[t].shown[p]
          BY <3>2, <3>3, <4>1, <4>2, <4>3 DEF Right, line
        <5>2. QED BY <3>1, <3>9, <5>1 DEF Right
      <4>4. CASE Len(line) # 1
        <5>1. rest # <<>> /\ rest[Len(rest)] = line[Len(line)]
          BY <3>2, <4>4
        <5>2. QED BY <3>2, <3>4, <3>9, <4>2, <5>1 DEF Right
      <4>5. QED BY <4>3, <4>4
    <3>6. Covered(t, p) => Covered(t, p)' /\ (waits = 0 => screen'[t].waits[p] = 0)
      <4> HAVE Covered(t, p)
      <4>1. /\ screen[t].shown[p] \in claim /\ waits <= Len(line) /\ waits \in Nat
            /\ \A i \in 1 .. Len(line) : i >= waits => line[i] \in claim
            /\ waits = 1 => Proper(t, p)
            /\ waits = 0 => Saved[p] \in claim
        BY <3>9 DEF Covered, line, claim, waits
      <4> DEFINE waits1 == screen'[t].waits[p]
      <4>2. waits1 = IF waits = 0 THEN 0 ELSE waits - 1
        BY <3>9
      <4>3. waits1 <= Len(rest) /\ waits1 \in Nat
        BY <3>2, <4>1, <4>2
      <4>4. ASSUME NEW i \in 1 .. Len(rest), i >= waits1 PROVE rest[i] \in claim
        <5>1. i + 1 \in 1 .. Len(line) /\ i + 1 >= waits /\ rest[i] = line[i + 1]
          BY <3>2, <4>1, <4>2, <4>4
        <5>2. QED BY <4>1, <5>1
      <4>5. waits1 = 1 => Proper(t, p)'
        BY <3>2, <3>4, <4>3
      <4>6. waits1 = 0 => Saved[p] \in claim
        <5>1. CASE waits = 0
          BY <4>1, <5>1
        <5>2. CASE waits = 1
          BY <3>2, <3>3, <4>1, <5>2
        <5>3. QED BY <4>1, <4>2, <5>1, <5>2
      <4>7. Covered(t, p)'
        BY <3>1, <3>9, <4>1, <4>3, <4>4, <4>5, <4>6 DEF Covered
      <4>8. QED BY <4>2, <4>7
    <3>7. Claimed(t, p)'
      <4>1. Claimed(t, p)
        BY <2>1, <2>5 DEF Fine
      <4>2. screen'[t].submit = screen[t].submit /\ screen'[t].claim = screen[t].claim
        BY <1>2
      <4>3. screen[t].waits[p] = 0 => screen'[t].waits[p] = 0
        BY <3>9 DEF waits
      <4>4. Covered(t, p) /\ screen[t].waits[p] = 0 => Covered(t, p)' /\ screen'[t].waits[p] = 0
        BY <3>6, <4>3
      <4>5. QED BY <3>1, <3>6, <4>1, <4>2, <4>3, <4>4 DEF Claimed
    <3>8. QED BY <2>3, <2>5, <3>1, <3>5, <3>7 DEF Fine
  <2>6. QED BY <2>4, <2>5
<1>4. QED BY <1>2, <1>3 DEF IInv

\* A lost answer counts as a failure: no screen is alone after it.
LEMMA LoseSaveStep ==
  ASSUME IInv, OneAnswerEach', NEW t \in Screens, NEW p \in Questions, LoseSave(t, p)
  PROVE  IInv'
<1>1. failures' \in Nat /\ failures' # 0 /\ save[t][p] # "none" /\ Settle(t, p, "failed", p)
  BY DEF LoseSave, IInv, TypeOK
<1>2. TypeOK' /\ SavesOK' /\ ClosedOK' /\ GoneOK'
  BY <1>1, SettleFrame
<1>3. LoneOK'
  BY <1>1 DEF LoneOK, Alone
<1>4. QED BY <1>2, <1>3 DEF IInv

-----------------------------------------------------------------------------
(* Picking *)

LEMMA AppendIs ==
  ASSUME NEW S, NEW seq \in Seq(S), NEW e \in S
  PROVE  /\ Append(seq, e) \in Seq(S) /\ Append(seq, e) # <<>> /\ Len(seq) \in Nat
         /\ Len(Append(seq, e)) = Len(seq) + 1 /\ Append(seq, e)[Len(seq) + 1] = e
         /\ \A i \in 1 .. Len(seq) : Append(seq, e)[i] = seq[i]
         /\ seq = <<>> <=> Len(seq) = 0
  OBVIOUS

\* A pick, or a retry, of an open screen: what it shows goes to the end of the line.
LEMMA EnqueueStep ==
  ASSUME IInv, OneAnswerEach', NEW t \in Screens, NEW p \in Questions, NEW pick \in Picks,
         NEW scr \in ScreenType, Enqueue(t, p, pick, scr), screen[t].at = "open",
         scr.at = "open", scr.line = screen[t].line, scr.submit = screen[t].submit,
         scr.waits = screen[t].waits, scr.shown = [screen[t].shown EXCEPT ![p] = pick],
         \A r \in Questions \ {p} : scr.claim[r] = screen[t].claim[r],
         screen[t].claim[p] \subseteq scr.claim[p],
         screen[t].submit # "none" /\ Covered(t, p) => pick \in scr.claim[p],
         \A r \in Questions : r \in scr.missed => r \in screen[t].missed,
         \A r \in Questions : r \in screen[t].missed /\ r \notin scr.missed =>
            r = p /\ SettledElsewhere(t, p) /\ screen[t].submit = "none"
  PROVE  IInv'
<1> DEFINE line == screen[t].line[p]
           line1 == Append(line, pick)
           m == [scr EXCEPT !.status = "saving", !.line[p] = line1]
           step == IF line = <<>> THEN "sent" ELSE save[t][p]
<1>1. screen \in [Screens -> ScreenType] /\ save \in [Screens -> [Questions -> Steps]]
  BY DEF IInv, TypeOK
<1>2. screen[t] \in ScreenType /\ line \in Seq(Picks)
  BY <1>1 DEF ScreenType
<1>3. /\ line1 \in Seq(Picks) /\ line1 # <<>> /\ Len(line) \in Nat
      /\ Len(line1) = Len(line) + 1 /\ line1[Len(line) + 1] = pick
      /\ \A i \in 1 .. Len(line) : line1[i] = line[i]
      /\ line = <<>> <=> Len(line) = 0
  <2> HIDE DEF line
  <2>1. QED BY <1>2, AppendIs
<1> HIDE DEF line1
<1>4. m \in ScreenType
  <2>1. [scr.line EXCEPT ![p] = line1] \in [Questions -> Seq(Picks)]
    BY <1>3 DEF ScreenType
  <2>2. QED BY <2>1 DEF ScreenType
<1>5. screen' = [screen EXCEPT ![t] = m] /\ UNCHANGED <<sheet, submitted, ended, failures>>
  BY DEF Enqueue, Queued, line1
<1>6. save' = [save EXCEPT ![t][p] = step]
  BY <1>1 DEF Enqueue
<1>7. /\ m.line[p] = line1
      /\ \A r \in Questions \ {p} : m.line[r] = screen[t].line[r]
      /\ m.at = "open" /\ m.shown = scr.shown /\ m.claim = scr.claim
      /\ m.submit = screen[t].submit /\ m.waits = screen[t].waits /\ m.missed = scr.missed
  BY <1>2 DEF ScreenType
<1>8. step \in Steps
  BY <1>1 DEF Steps
<1> HIDE DEF m, step
<1>9. /\ screen'[t] = m /\ \A o \in Screens \ {t} : screen'[o] = screen[o]
      /\ screen' \in [Screens -> ScreenType]
  BY <1>1, <1>4, <1>5
<1>10. /\ save'[t][p] = step /\ save' \in [Screens -> [Questions -> Steps]]
       /\ \A o \in Screens, r \in Questions : o # t \/ r # p => save'[o][r] = save[o][r]
  BY <1>1, <1>6, <1>8
<1>11. TypeOK'
  BY <1>5, <1>9, <1>10 DEF IInv, TypeOK
<1>12. \A o \in Screens, r \in Questions : o # t \/ r # p =>
          screen'[o].line[r] = screen[o].line[r]
  BY <1>7, <1>9
<1>13. ASSUME line # <<>> PROVE line1[1] = line[1]
  <2>1. 1 \in 1 .. Len(line)
    BY <1>3, <1>13
  <2>2. QED BY <1>3, <2>1
<1>14. SavesOK'
  <2>1. SaveOK(t, p)'
    <3>1. SaveOK(t, p)
      BY DEF IInv, SavesOK
    <3>2. QED BY <1>3, <1>7, <1>9, <1>10, <1>13, <3>1 DEF SaveOK, step
  <2>2. ASSUME NEW o \in Screens, NEW r \in Questions, o # t \/ r # p
        PROVE  SaveOK(o, r)'
    BY <1>10, <1>12, <2>2 DEF IInv, SavesOK, SaveOK
  <2>3. QED BY <2>1, <2>2 DEF SavesOK
<1>15. ClosedOK' /\ GoneOK'
  BY <1>7, <1>9 DEF IInv, ClosedOK, GoneOK, Active
<1>16. LoneOK'
  <2> SUFFICES ASSUME NEW s \in Screens, Alone(s)', Active(s)',
                      NEW q \in Questions \ screen'[s].missed
               PROVE  Fine(s, q)'
    BY DEF LoneOK
  <2>1. s = t
    BY <1>7, <1>9 DEF Alone
  <2>2. Alone(t) /\ Active(t)
    BY <1>5, <1>9, <2>1 DEF Alone, Active
  <2>3. q \notin screen[t].missed => Fine(t, q)
    BY <2>2 DEF IInv, LoneOK
  <2>4. q \notin scr.missed
    BY <1>7, <1>9, <2>1
  <2>5. AloneInLine(t, q)
    BY <2>3, <2>4 DEF Fine, AloneInLine, SettledElsewhere
  <2>6. AloneInLine(t, q)'
    BY <1>9, <2>5 DEF AloneInLine
  <2>7. (OpenEntry' <=> OpenEntry) /\ Saved' = Saved /\ ended' = ended
    BY <1>5 DEF OpenEntry, Saved, HasAnswer
  <2>8. CASE q # p
    <3>1. Fine(t, q)
      BY <2>3, <2>4, <2>8
    <3>2. save'[t][q] = save[t][q] /\ screen'[t].line[q] = screen[t].line[q]
      BY <1>10, <1>12, <2>8
    <3>3. scr.shown[q] = screen[t].shown[q]
      BY <1>2, <2>8 DEF ScreenType, Answers
    <3>4. /\ screen'[t].shown[q] = screen[t].shown[q] /\ screen'[t].claim[q] = screen[t].claim[q]
          /\ screen'[t].submit = screen[t].submit /\ screen'[t].waits[q] = screen[t].waits[q]
      BY <1>7, <1>9, <2>8, <3>3
    <3>5. QED BY <1>5, <2>1, <2>6, <3>1, <3>2, <3>4, FineKept
  <2>9. CASE q = p
    <3> DEFINE waits == screen[t].waits[p]
               claim == scr.claim[p]
    <3>1. scr.shown[p] = pick
      BY <1>2 DEF ScreenType, Answers
    <3>2. /\ screen'[t].line[p] = line1 /\ screen'[t].shown[p] = pick
          /\ screen'[t].claim[p] = claim /\ screen'[t].waits[p] = waits
          /\ screen'[t].submit = screen[t].submit
      BY <1>7, <1>9, <3>1
    <3>3. waits \in Nat
      BY <1>2 DEF ScreenType
    <3>4. ASSUME Len(line1) = 1 PROVE Proper(t, p)'
      <4>1. line = <<>>
        <5> HIDE DEF line
        <5>1. Len(line) \in Nat /\ Len(line1) = Len(line) + 1
          BY <1>3
        <5>2. Len(line) = 0
          BY <3>4, <5>1
        <5>3. QED BY <1>3, <5>2
      <4>2. save'[t][p] = "sent"
        BY <1>10, <4>1 DEF step
      <4>3. QED BY <4>2 DEF Proper
    <3>5. Right(t, p)'
      BY <1>3, <3>2, <3>4 DEF Right
    <3>6. screen[t].submit # "none" /\ Covered(t, p) => Covered(t, p)'
      <4> HAVE screen[t].submit # "none" /\ Covered(t, p)
      <4>1. /\ waits <= Len(line)
            /\ \A i \in 1 .. Len(line) : i >= waits => line[i] \in screen[t].claim[p]
            /\ waits = 1 => Proper(t, p)
            /\ waits = 0 => Saved[p] \in screen[t].claim[p]
        BY DEF Covered
      <4>2. pick \in claim /\ screen[t].claim[p] \subseteq claim
        OBVIOUS
      <4> HIDE DEF claim, waits
      <4>3. ASSUME NEW i \in 1 .. Len(line1), i >= waits PROVE line1[i] \in claim
        <5>1. CASE i = Len(line) + 1
          BY <1>3, <4>2, <5>1
        <5>2. CASE i # Len(line) + 1
          <6>1. i \in 1 .. Len(line)
            BY <1>3, <4>3, <5>2
          <6>2. QED BY <1>3, <4>1, <4>2, <4>3, <6>1
        <5>3. QED BY <5>1, <5>2
      <4>4. ASSUME waits = 1 PROVE Proper(t, p)'
        <5>1. line # <<>> /\ Proper(t, p)
          BY <1>3, <4>1, <4>4
        <5>2. save'[t][p] = save[t][p] /\ line1[1] = line[1]
          BY <1>10, <1>13, <5>1 DEF step
        <5>3. HasAnswer(p)' <=> HasAnswer(p)
          BY <1>5 DEF HasAnswer
        <5>4. QED BY <2>7, <3>2, <5>1, <5>2, <5>3 DEF Proper
      <4>5. waits <= Len(line1)
        BY <1>3, <3>3, <4>1
      <4>6. QED BY <2>7, <3>2, <4>1, <4>2, <4>3, <4>4, <4>5 DEF Covered
    <3>7. Claimed(t, p)'
      <4>1. CASE p \in screen[t].missed
        <5>1. screen[t].submit = "none"
          BY <2>4, <2>9, <4>1
        <5>2. QED BY <3>2, <5>1 DEF Claimed
      <4>2. CASE p \notin screen[t].missed
        <5>1. Claimed(t, p)
          BY <2>3, <2>9, <4>2 DEF Fine
        <5>2. QED BY <2>7, <3>2, <3>6, <5>1 DEF Claimed
      <4>3. QED BY <4>1, <4>2
    <3>8. QED BY <2>1, <2>6, <2>9, <3>5, <3>7 DEF Fine
  <2>10. QED BY <2>8, <2>9
<1>17. QED BY <1>11, <1>14, <1>15, <1>16 DEF IInv

LEMMA PickStep ==
  ASSUME IInv, OneAnswerEach', NEW t \in Screens, NEW p \in Questions, NEW pick \in Picks,
         Pick(t, p, pick)
  PROVE  IInv'
<1> DEFINE missed == IF SettledElsewhere(t, p) /\ screen[t].submit = "none"
                     THEN screen[t].missed \ {p} ELSE screen[t].missed
           claim == IF screen[t].submit = "none" THEN screen[t].claim[p]
                    ELSE screen[t].claim[p] \cup {pick}
           scr == [screen[t] EXCEPT !.shown[p] = pick, !.missed = missed, !.claim[p] = claim]
<1>1. screen[t] \in ScreenType
  BY DEF IInv, TypeOK
<1>2. screen[t].at = "open" /\ Enqueue(t, p, pick, scr)
  BY DEF Pick
<1>3. missed \subseteq Questions /\ claim \subseteq Picks /\ screen[t].claim[p] \subseteq claim
      /\ (screen[t].submit # "none" => pick \in claim)
  BY <1>1 DEF ScreenType
<1>4. /\ \A r \in Questions : r \in missed => r \in screen[t].missed
      /\ \A r \in Questions : r \in screen[t].missed /\ r \notin missed =>
            r = p /\ SettledElsewhere(t, p) /\ screen[t].submit = "none"
  OBVIOUS
<1> HIDE DEF missed, claim
<1>5. scr \in ScreenType
  <2>1. [screen[t].shown EXCEPT ![p] = pick] \in Answers
    BY <1>1 DEF ScreenType, Answers
  <2>2. [screen[t].claim EXCEPT ![p] = claim] \in [Questions -> SUBSET Picks]
    BY <1>1, <1>3 DEF ScreenType
  <2>3. QED BY <1>1, <1>3, <2>1, <2>2 DEF ScreenType
<1>6. /\ scr.at = "open" /\ scr.line = screen[t].line /\ scr.submit = screen[t].submit
      /\ scr.waits = screen[t].waits /\ scr.shown = [screen[t].shown EXCEPT ![p] = pick]
      /\ scr.missed = missed /\ scr.claim[p] = claim
      /\ \A r \in Questions \ {p} : scr.claim[r] = screen[t].claim[r]
  BY <1>1, <1>2 DEF ScreenType
<1> HIDE DEF scr
<1>7. QED BY <1>2, <1>3, <1>4, <1>5, <1>6, EnqueueStep

LEMMA RetryStep ==
  ASSUME IInv, OneAnswerEach', NEW t \in Screens, NEW p \in Questions, Retry(t, p)
  PROVE  IInv'
<1> DEFINE pick == screen[t].shown[p]
           scr == screen[t]
<1>1. scr \in ScreenType
  BY DEF IInv, TypeOK
<1>2. pick \in Picks /\ scr.shown = [scr.shown EXCEPT ![p] = pick]
  BY <1>1 DEF ScreenType, Answers
<1>3. screen[t].at = "open" /\ Enqueue(t, p, pick, scr)
  BY DEF Retry
<1>4. Covered(t, p) => pick \in scr.claim[p]
  BY DEF Covered
<1>5. QED BY <1>1, <1>2, <1>3, <1>4, EnqueueStep

-----------------------------------------------------------------------------
(* The visits *)

\* A step that changes nothing but one screen, and of that neither the line, nor
\* what is shown, claimed, waited for and submitted.
LEMMA VisitFrame ==
  ASSUME IInv, NEW t \in Screens, NEW m \in ScreenType, m.line = screen[t].line,
         screen' = [screen EXCEPT ![t] = m], UNCHANGED <<sheet, save>>,
         submitted' \in {"no", "entrant", "clock"}, ended' \in BOOLEAN, failures' \in Nat,
         screen[t].at # "closed" \/ screen[t].line = Closed.line, m.at # "closed",
         m.at = "gone" => screen[t].at = "gone"
  PROVE  /\ TypeOK' /\ SavesOK' /\ ClosedOK' /\ GoneOK'
         /\ screen'[t] = m /\ \A o \in Screens \ {t} : screen'[o] = screen[o]
         /\ \A o \in Screens : screen'[o].line = screen[o].line
<1>1. screen \in [Screens -> ScreenType]
  BY DEF IInv, TypeOK
<1>2. /\ screen'[t] = m /\ \A o \in Screens \ {t} : screen'[o] = screen[o]
      /\ screen' \in [Screens -> ScreenType]
  BY <1>1
<1>3. TypeOK'
  BY <1>2 DEF IInv, TypeOK
<1>4. \A o \in Screens : screen'[o].line = screen[o].line
  BY <1>2
<1>5. SavesOK'
  BY <1>4 DEF IInv, SavesOK, SaveOK
<1>6. ClosedOK'
  BY <1>2 DEF IInv, ClosedOK
<1>7. m.at \in {"closed", "loading", "open", "gone"}
  BY DEF ScreenType
<1>8. GoneOK'
  <2>1. CASE m.at = "gone"
    <3>1. \A o \in Screens : screen'[o].at = screen[o].at
      BY <1>2, <2>1
    <3>2. QED BY <3>1 DEF IInv, GoneOK, Active
  <2>2. CASE m.at # "gone"
    BY <1>2, <1>7, <2>2 DEF GoneOK, Active
  <2>3. QED BY <2>1, <2>2
<1>9. QED BY <1>2, <1>3, <1>4, <1>5, <1>6, <1>8

LEMMA LoadStep ==
  ASSUME IInv, OneAnswerEach', NEW t \in Screens, Load(t)
  PROVE  IInv'
<1> DEFINE m == [screen[t] EXCEPT !.at = "loading", !.shown = Saved, !.got = Saved,
                                  !.done = ~OpenEntry, !.gotDone = ~OpenEntry]
<1>1. screen[t].at = "closed" /\ screen[t] = Closed /\ screen[t] \in ScreenType
  BY DEF Load, IsNext, IInv, ClosedOK, TypeOK
<1>2. Saved \in Answers
  <2>1. ASSUME NEW q \in Questions PROVE Saved[q] \in Picks
    <3>1. CASE HasAnswer(q)
      <4>1. PICK a \in sheet : a.questionId = q
        BY <3>1 DEF HasAnswer
      <4>2. Saved[q] = a.optionIds
        BY <4>1, SavedIs DEF IInv
      <4>3. QED BY <4>1, <4>2 DEF IInv, TypeOK
    <3>2. CASE ~HasAnswer(q)
      BY <3>2, SavedNone DEF Picks
    <3>3. QED BY <3>1, <3>2
  <2>2. Saved = [q \in Questions |-> Saved[q]]
    BY DEF Saved
  <2>3. QED BY <2>1, <2>2 DEF Answers
<1>3. m \in ScreenType
  BY <1>1, <1>2 DEF ScreenType
<1>4. /\ m.line = screen[t].line /\ m.at = "loading" /\ m.shown = Saved
      /\ m.submit = screen[t].submit /\ m.missed = screen[t].missed
  BY <1>1 DEF ScreenType
<1>5. screen' = [screen EXCEPT ![t] = m] /\ UNCHANGED <<sheet, submitted, ended, save, failures>>
  <2>1. screen \in [Screens -> ScreenType]
    BY DEF IInv, TypeOK
  <2>2. QED BY <2>1 DEF Load
<1> HIDE DEF m
<1>6. /\ TypeOK' /\ SavesOK' /\ ClosedOK' /\ GoneOK'
      /\ screen'[t] = m /\ \A o \in Screens \ {t} : screen'[o] = screen[o]
      /\ \A o \in Screens : screen'[o].line = screen[o].line
  <2>1. /\ submitted' \in {"no", "entrant", "clock"} /\ ended' \in BOOLEAN /\ failures' \in Nat
        /\ screen[t].line = Closed.line
    BY <1>1, <1>5 DEF IInv, TypeOK
  <2>2. QED BY <1>3, <1>4, <1>5, <2>1, VisitFrame
<1>7. LoneOK'
  <2> SUFFICES ASSUME NEW s \in Screens, Alone(s)', Active(s)',
                      NEW q \in Questions \ screen'[s].missed
               PROVE  Fine(s, q)'
    BY DEF LoneOK
  <2>1. s = t
    BY <1>4, <1>6 DEF Alone
  <2>2. \A o \in Screens : ~Active(o)
    BY <1>1, <1>6, <2>1 DEF Alone, Active
  <2>3. \A o \in Screens : screen[o].at # "gone"
    BY <2>2 DEF IInv, GoneOK
  <2>4. \A o \in Screens : screen[o].at = "closed"
    BY <2>2, <2>3 DEF IInv, TypeOK, ScreenType, Active
  <2>5. \A o \in Screens : screen[o].line[q] = <<>>
    BY <2>4 DEF IInv, ClosedOK, Closed
  <2>6. AloneInLine(t, q)'
    BY <1>6, <2>5 DEF AloneInLine
  <2>7. Saved' = Saved
    BY <1>5 DEF Saved, HasAnswer
  <2>8. screen'[t].line[q] = <<>> /\ screen'[t].shown[q] = Saved'[q] /\ Len(<<>>) = 0
    BY <1>4, <1>6, <2>5, <2>7
  <2>9. Right(t, q)'
    BY <2>8 DEF Right
  <2>10. Claimed(t, q)'
    BY <1>1, <1>4, <1>6 DEF Claimed, Closed
  <2>11. QED BY <2>1, <2>6, <2>9, <2>10 DEF Fine
<1>8. QED BY <1>6, <1>7 DEF IInv

LEMMA ShowStep ==
  ASSUME IInv, OneAnswerEach', NEW t \in Screens, Show(t)
  PROVE  IInv'
<1> DEFINE m == [screen[t] EXCEPT !.at = "open"]
<1>1. screen[t].at = "loading" /\ screen[t] \in ScreenType
  BY DEF Show, IInv, TypeOK
<1>2. /\ m \in ScreenType /\ m.at = "open" /\ m.line = screen[t].line
      /\ m.shown = screen[t].shown /\ m.claim = screen[t].claim /\ m.waits = screen[t].waits
      /\ m.submit = screen[t].submit /\ m.missed = screen[t].missed
  BY <1>1 DEF ScreenType
<1>3. screen' = [screen EXCEPT ![t] = m] /\ UNCHANGED <<sheet, submitted, ended, save, failures>>
  BY DEF Show
<1> HIDE DEF m
<1>4. /\ TypeOK' /\ SavesOK' /\ ClosedOK' /\ GoneOK'
      /\ screen'[t] = m /\ \A o \in Screens \ {t} : screen'[o] = screen[o]
      /\ \A o \in Screens : screen'[o].line = screen[o].line
  <2>1. /\ submitted' \in {"no", "entrant", "clock"} /\ ended' \in BOOLEAN /\ failures' \in Nat
    BY <1>3 DEF IInv, TypeOK
  <2>2. QED BY <1>1, <1>2, <1>3, <2>1, VisitFrame
<1>5. LoneOK'
  <2> SUFFICES ASSUME NEW s \in Screens, Alone(s)', Active(s)',
                      NEW q \in Questions \ screen'[s].missed
               PROVE  Fine(s, q)'
    BY DEF LoneOK
  <2>1. Alone(s) /\ Active(s) /\ q \notin screen[s].missed
    BY <1>1, <1>2, <1>3, <1>4 DEF Alone, Active
  <2>2. Fine(s, q)
    BY <2>1 DEF IInv, LoneOK
  <2>3. AloneInLine(s, q)'
    BY <1>4, <2>2 DEF Fine, AloneInLine
  <2>4. /\ save'[s][q] = save[s][q] /\ screen'[s].line[q] = screen[s].line[q]
        /\ screen'[s].waits[q] = screen[s].waits[q] /\ screen'[s].shown[q] = screen[s].shown[q]
        /\ screen'[s].claim[q] = screen[s].claim[q] /\ screen'[s].submit = screen[s].submit
    BY <1>2, <1>3, <1>4
  <2>5. QED BY <1>3, <2>2, <2>3, <2>4, FineKept
<1>6. QED BY <1>4, <1>5 DEF IInv

\* A page opened again starts from what its predecessor got: what was answered there
\* since is missed, and the rest it shows as the predecessor did.
LEMMA ReopenStep ==
  ASSUME IInv, OneAnswerEach', NEW t \in Screens, NEW o \in Screens, Reopen(t, o)
  PROVE  IInv'
<1>1. /\ screen[t].at = "closed" /\ screen[t] = Closed /\ screen[t] \in ScreenType
      /\ screen[o].at = "open" /\ screen[o] \in ScreenType /\ t # o
  BY DEF Reopen, IsNext, IInv, ClosedOK, TypeOK
<1>2. Saved \in Answers
  <2>1. ASSUME NEW q \in Questions PROVE Saved[q] \in Picks
    <3>1. CASE HasAnswer(q)
      <4>1. PICK a \in sheet : a.questionId = q
        BY <3>1 DEF HasAnswer
      <4>2. Saved[q] = a.optionIds
        BY <4>1, SavedIs DEF IInv
      <4>3. QED BY <4>1, <4>2 DEF IInv, TypeOK
    <3>2. CASE ~HasAnswer(q)
      BY <3>2, SavedNone DEF Picks
    <3>3. QED BY <3>1, <3>2
  <2>2. Saved = [q \in Questions |-> Saved[q]]
    BY DEF Saved
  <2>3. QED BY <2>1, <2>2 DEF Answers
<1>3. PICK again \in BOOLEAN :
        /\ again => screen[o].submit = "done"
        /\ LET got == IF again THEN Saved ELSE screen[o].got
               done == again \/ screen[o].gotDone
           IN screen' = [screen EXCEPT
                 ![o].at = "gone",
                 ![t].at = "open", ![t].shown = got, ![t].got = got,
                 ![t].done = done, ![t].gotDone = done, ![t].missed = AnsweredSince(o)]
  BY DEF Reopen
<1> DEFINE got == IF again THEN Saved ELSE screen[o].got
           done == again \/ screen[o].gotDone
           left == [screen[o] EXCEPT !.at = "gone"]
           m == [screen[t] EXCEPT !.at = "open", !.shown = got, !.got = got,
                                  !.done = done, !.gotDone = done, !.missed = AnsweredSince(o)]
<1>4. screen' = [screen EXCEPT ![o] = left, ![t] = m]
  <2>1. screen \in [Screens -> ScreenType]
    BY DEF IInv, TypeOK
  <2>2. QED BY <1>1, <1>3, <2>1
<1>5. got \in Answers /\ done \in BOOLEAN /\ AnsweredSince(o) \subseteq Questions
  BY <1>1, <1>2 DEF AnsweredSince, ScreenType
<1> HIDE DEF got, done
<1>6. left \in ScreenType /\ m \in ScreenType
  BY <1>1, <1>5 DEF ScreenType
<1>7. /\ left.at = "gone" /\ left.line = screen[o].line
      /\ m.at = "open" /\ m.line = screen[t].line /\ m.shown = got
      /\ m.submit = screen[t].submit /\ m.missed = AnsweredSince(o)
  BY <1>1 DEF ScreenType
<1> HIDE DEF left, m
<1>8. /\ screen'[t] = m /\ screen'[o] = left
      /\ \A r \in Screens \ {t, o} : screen'[r] = screen[r]
      /\ screen' \in [Screens -> ScreenType]
  <2>1. screen \in [Screens -> ScreenType]
    BY DEF IInv, TypeOK
  <2>2. QED BY <1>1, <1>4, <1>6, <2>1
<1>9. UNCHANGED <<sheet, submitted, ended, save, failures>>
  BY DEF Reopen
<1>10. \A r \in Screens : screen'[r].line = screen[r].line
  BY <1>7, <1>8
<1>11. TypeOK' /\ SavesOK'
  BY <1>8, <1>9, <1>10 DEF IInv, TypeOK, SavesOK, SaveOK
<1>12. ClosedOK' /\ GoneOK'
  BY <1>7, <1>8 DEF IInv, ClosedOK, GoneOK, Active
<1>13. LoneOK'
  <2> SUFFICES ASSUME NEW s \in Screens, Alone(s)', Active(s)',
                      NEW q \in Questions \ screen'[s].missed
               PROVE  Fine(s, q)'
    BY DEF LoneOK
  <2>1. s = t
    BY <1>7, <1>8 DEF Alone
  <2>2. Alone(o) /\ Active(o)
    BY <1>1, <1>8, <1>9, <2>1 DEF Alone, Active
  <2>3. q \notin AnsweredSince(o)
    BY <1>7, <1>8, <2>1
  <2>4. q \notin screen[o].missed /\ screen[o].shown[q] = screen[o].got[q] /\ screen[o].line[q] = <<>>
    BY <2>3 DEF AnsweredSince
  <2>5. Fine(o, q)
    BY <2>2, <2>4 DEF IInv, LoneOK
  <2>6. screen[t].line[q] = <<>>
    BY <1>1 DEF Closed
  <2>7. AloneInLine(t, q)'
    BY <1>10, <2>4, <2>5 DEF Fine, AloneInLine
  <2>8. Saved' = Saved /\ (OpenEntry' <=> OpenEntry) /\ ended' = ended
    BY <1>9 DEF Saved, HasAnswer, OpenEntry
  <2>9. ~ended /\ OpenEntry => got[q] = Saved[q]
    <3>1. again => ~OpenEntry
      BY <1>3, <2>5 DEF Fine, Claimed
    <3>2. ~ended /\ OpenEntry => screen[o].shown[q] = Saved[q]
      BY <2>4, <2>5 DEF Fine, Right
    <3>3. QED BY <2>4, <3>1, <3>2 DEF got
  <2>10. screen'[t].line[q] = <<>> /\ screen'[t].shown[q] = got[q] /\ Len(<<>>) = 0
    BY <1>7, <1>8, <2>6
  <2>11. ~ended /\ OpenEntry => Right(t, q)'
    BY <2>8, <2>9, <2>10 DEF Right
  <2>12. Claimed(t, q)'
    BY <1>1, <1>7, <1>8 DEF Claimed, Closed
  <2>13. QED BY <2>1, <2>7, <2>8, <2>11, <2>12 DEF Fine
<1>14. QED BY <1>11, <1>12, <1>13 DEF IInv

-----------------------------------------------------------------------------
(* Handing in *)

\* A step of a screen's submit: of the screen it changes the submit alone, and what
\* the submit waits for and claims.
SubmitFrame(t, m) ==
    /\ m \in ScreenType
    /\ m.at = screen[t].at /\ m.line = screen[t].line /\ m.shown = screen[t].shown
    /\ m.missed = screen[t].missed
    /\ screen' = [screen EXCEPT ![t] = m]
    /\ UNCHANGED <<sheet, save, ended>>
    /\ submitted' \in {submitted, "entrant"} /\ failures' \in Nat

LEMMA SubmitFrameStep ==
  ASSUME IInv, OneAnswerEach', NEW t \in Screens, NEW m, SubmitFrame(t, m),
         screen[t].at # "closed",
         failures' = failures => \A q \in Questions : Fine(t, q) => Claimed(t, q)',
         failures' \in {failures, failures + 1},
         submitted' # submitted => ~OpenEntry'
  PROVE  IInv'
<1>1. screen[t].at # "closed" /\ m.at # "closed"
  BY DEF SubmitFrame
<1>2. /\ TypeOK' /\ SavesOK' /\ ClosedOK' /\ GoneOK'
      /\ screen'[t] = m /\ \A o \in Screens \ {t} : screen'[o] = screen[o]
      /\ \A o \in Screens : screen'[o].line = screen[o].line
  <2>1. /\ submitted' \in {"no", "entrant", "clock"} /\ ended' \in BOOLEAN /\ failures' \in Nat
        /\ UNCHANGED <<sheet, save>> /\ m.line = screen[t].line
        /\ (m.at = "gone" => screen[t].at = "gone")
        /\ screen' = [screen EXCEPT ![t] = m] /\ m \in ScreenType
    BY DEF SubmitFrame, IInv, TypeOK
  <2>2. QED BY <1>1, <2>1, VisitFrame
<1>3. LoneOK'
  <2> SUFFICES ASSUME NEW s \in Screens, Alone(s)', Active(s)',
                      NEW q \in Questions \ screen'[s].missed
               PROVE  Fine(s, q)'
    BY DEF LoneOK
  <2>1. failures' = failures
    BY DEF Alone, IInv, TypeOK
  <2>2. \A o \in Screens : screen'[o].at = screen[o].at /\ screen'[o].missed = screen[o].missed
    BY <1>2 DEF SubmitFrame
  <2>3. Alone(s) /\ Active(s) /\ q \notin screen[s].missed
    BY <2>1, <2>2 DEF Alone, Active
  <2>4. Fine(s, q)
    BY <2>3 DEF IInv, LoneOK
  <2>5. AloneInLine(s, q)'
    BY <1>2, <2>4 DEF Fine, AloneInLine
  <2>6. Saved' = Saved /\ ended' = ended /\ save' = save /\ (HasAnswer(q)' <=> HasAnswer(q))
    BY DEF SubmitFrame, Saved, HasAnswer
  <2>7. OpenEntry' => OpenEntry
    BY DEF SubmitFrame, OpenEntry
  <2>8. screen'[s].line = screen[s].line /\ screen'[s].shown = screen[s].shown
    BY <1>2 DEF SubmitFrame
  <2>9. Proper(s, q)' <=> Proper(s, q)
    BY <2>6, <2>8 DEF Proper
  <2>10. ~ended' /\ OpenEntry' => Right(s, q)'
    BY <2>4, <2>6, <2>7, <2>8, <2>9 DEF Fine, Right
  <2>11. Claimed(s, q)'
    <3>1. CASE s = t
      BY <2>1, <2>4, <3>1
    <3>2. CASE s # t
      <4>1. screen'[s] = screen[s]
        BY <1>2, <3>2
      <4>2. Covered(s, q)' <=> Covered(s, q)
        BY <2>6, <2>9, <4>1 DEF Covered
      <4>3. ~OpenEntry => ~OpenEntry'
        BY <2>7
      <4>4. QED BY <2>4, <2>6, <2>7, <4>1, <4>2, <4>3 DEF Fine, Claimed
    <3>3. QED BY <3>1, <3>2
  <2>12. QED BY <2>5, <2>10, <2>11 DEF Fine
<1>4. QED BY <1>2, <1>3 DEF IInv

\* What the submit is asked to cover is what is shown, or, with a line, its last pick.
LEMMA SubmitStep ==
  ASSUME IInv, OneAnswerEach', NEW t \in Screens, Submit(t)
  PROVE  IInv'
<1> DEFINE waits == [q \in Questions |-> Len(screen[t].line[q])]
           claim == [q \in Questions |-> {screen[t].shown[q]}]
           m == [screen[t] EXCEPT !.submit = "waiting", !.waits = waits, !.claim = claim]
<1>1. screen[t].at = "open" /\ screen[t] \in ScreenType
  BY DEF Submit, IInv, TypeOK
<1>2. \A q \in Questions : screen[t].line[q] \in Seq(Picks) /\ screen[t].shown[q] \in Picks
  BY <1>1 DEF ScreenType, Answers
<1>3. waits \in [Questions -> Nat] /\ claim \in [Questions -> SUBSET Picks]
  BY <1>2
<1>4. m \in ScreenType
  BY <1>1, <1>3 DEF ScreenType
<1>5. /\ m.at = screen[t].at /\ m.line = screen[t].line /\ m.shown = screen[t].shown
      /\ m.missed = screen[t].missed /\ m.submit = "waiting" /\ m.waits = waits /\ m.claim = claim
  BY <1>1 DEF ScreenType
<1>6. screen' = [screen EXCEPT ![t] = m]
  BY DEF Submit
<1> HIDE DEF m
<1>7. SubmitFrame(t, m) /\ failures' = failures /\ submitted' = submitted
  BY <1>4, <1>5, <1>6 DEF SubmitFrame, Submit, IInv, TypeOK
<1>8. ASSUME NEW q \in Questions, Fine(t, q) PROVE Claimed(t, q)'
  <2> DEFINE line == screen[t].line[q]
  <2>1. screen'[t] = m
    BY <1>6 DEF IInv, TypeOK
  <2>2. /\ screen'[t].line[q] = line /\ screen'[t].shown[q] = screen[t].shown[q]
        /\ screen'[t].waits[q] = Len(line) /\ screen'[t].claim[q] = {screen[t].shown[q]}
        /\ screen'[t].submit = "waiting"
    BY <1>5, <2>1
  <2>3. (OpenEntry' <=> OpenEntry) /\ ended' = ended /\ Saved' = Saved /\ save' = save
        /\ (HasAnswer(q)' <=> HasAnswer(q))
    BY <1>7 DEF SubmitFrame, OpenEntry, Saved, HasAnswer
  <2>4. line \in Seq(Picks)
    BY <1>2
  <2>5. ~ended /\ OpenEntry => Covered(t, q)'
    <3> HAVE ~ended /\ OpenEntry
    <3>1. /\ line = <<>> => Saved[q] = screen[t].shown[q]
          /\ line # <<>> => screen[t].shown[q] = line[Len(line)]
          /\ Len(line) = 1 => Proper(t, q)
      BY <1>8 DEF Fine, Right
    <3> HIDE DEF line
    <3>2. Len(line) \in Nat /\ (line = <<>> <=> Len(line) = 0)
      BY <2>4
    <3>3. ASSUME NEW i \in 1 .. Len(line), i >= Len(line)
          PROVE  line[i] \in {screen[t].shown[q]}
      <4>1. i = Len(line) /\ line # <<>>
        BY <3>2, <3>3
      <4>2. QED BY <3>1, <4>1
    <3>4. Len(line) = 1 => Proper(t, q)'
      BY <2>2, <2>3, <3>1 DEF Proper, line
    <3>5. Len(line) = 0 => Saved[q] \in {screen[t].shown[q]}
      BY <3>1, <3>2
    <3>6. QED BY <2>2, <2>3, <3>2, <3>3, <3>4, <3>5 DEF Covered
  <2>6. QED BY <2>2, <2>3, <2>5 DEF Claimed
<1>9. QED BY <1>1, <1>7, <1>8, SubmitFrameStep

\* A submit that moves on to another step.
LEMMA SubmitMoves ==
  ASSUME IInv, OneAnswerEach', NEW t \in Screens, screen[t].submit # "none",
         NEW step \in {"none", "sent", "write", "accepted", "done"}, NEW done \in BOOLEAN,
         screen' = [screen EXCEPT ![t].submit = step, ![t].done = done],
         UNCHANGED <<sheet, save, ended>>,
         submitted' \in {submitted, "entrant"}, submitted' # submitted => ~OpenEntry',
         failures' \in {failures, failures + 1},
         \A q \in Questions : Claimed(t, q) /\ failures' = failures =>
            /\ step = "sent" => screen[t].submit = "waiting" /\ screen[t].waits[q] = 0
            /\ step = "write" => screen[t].submit = "sent" /\ ~ended
            /\ step \in {"accepted", "done"} =>
                  ~OpenEntry' /\ Saved[q] \in screen[t].claim[q]
  PROVE  IInv'
<1> DEFINE m == [screen[t] EXCEPT !.submit = step, !.done = done]
<1>1. screen[t] \in ScreenType /\ screen \in [Screens -> ScreenType] /\ failures \in Nat
  BY DEF IInv, TypeOK
<1>2. screen[t].at # "closed"
  BY DEF IInv, ClosedOK, Closed
<1>3. /\ m \in ScreenType /\ m.submit = step /\ m.waits = screen[t].waits
      /\ m.claim = screen[t].claim /\ m.at = screen[t].at /\ m.line = screen[t].line
      /\ m.shown = screen[t].shown /\ m.missed = screen[t].missed
  BY <1>1 DEF ScreenType
<1>4. screen' = [screen EXCEPT ![t] = m]
  BY <1>1
<1> HIDE DEF m
<1>5. SubmitFrame(t, m)
  <2>1. submitted' \in {submitted, "entrant"} /\ failures' \in Nat
    BY <1>1
  <2>2. QED BY <1>3, <1>4, <2>1 DEF SubmitFrame
<1>6. ASSUME NEW q \in Questions, Fine(t, q), failures' = failures PROVE Claimed(t, q)'
  <2>1. screen'[t] = m
    BY <1>1, <1>4
  <2>2. /\ screen'[t].line = screen[t].line /\ screen'[t].shown = screen[t].shown
        /\ screen'[t].waits = screen[t].waits /\ screen'[t].claim = screen[t].claim
        /\ screen'[t].submit = step
    BY <1>3, <2>1
  <2>3. ended' = ended /\ Saved' = Saved /\ save' = save /\ (HasAnswer(q)' <=> HasAnswer(q))
    BY DEF Saved, HasAnswer
  <2>4. OpenEntry' => OpenEntry
    BY DEF OpenEntry
  <2>5. Covered(t, q)' <=> Covered(t, q)
    <3>1. Proper(t, q)' <=> Proper(t, q)
      BY <2>2, <2>3 DEF Proper
    <3>2. QED BY <2>2, <2>3, <3>1 DEF Covered
  <2>6. Claimed(t, q)
    BY <1>6 DEF Fine
  <2>7. /\ step = "sent" => screen[t].submit = "waiting" /\ screen[t].waits[q] = 0
        /\ step = "write" => screen[t].submit = "sent" /\ ~ended
        /\ step \in {"accepted", "done"} => ~OpenEntry' /\ Saved[q] \in screen[t].claim[q]
    BY <1>6, <2>6
  <2>8. QED BY <2>2, <2>3, <2>4, <2>5, <2>6, <2>7 DEF Claimed
<1>7. QED BY <1>2, <1>5, <1>6, SubmitFrameStep

LEMMA HandInStep ==
  ASSUME IInv, OneAnswerEach', NEW t \in Screens, HandIn(t) \/ LoseSubmit(t)
  PROVE  IInv'
<1> DEFINE done == screen[t].done
<1>1. screen[t] \in ScreenType /\ screen \in [Screens -> ScreenType] /\ failures \in Nat
  BY DEF IInv, TypeOK
<1>2. done \in BOOLEAN
  BY <1>1 DEF ScreenType
<1>3. ASSUME NEW step, screen' = [screen EXCEPT ![t].submit = step]
      PROVE  screen' = [screen EXCEPT ![t].submit = step, ![t].done = done]
  <2>1. [screen[t] EXCEPT !.submit = step] = [screen[t] EXCEPT !.submit = step, !.done = done]
    BY <1>1 DEF ScreenType
  <2>2. QED BY <1>1, <1>3, <2>1
<1>4. CASE SendSubmit(t)
  <2>1. /\ screen[t].submit = "waiting" /\ screen' = [screen EXCEPT ![t].submit = "sent"]
        /\ UNCHANGED <<sheet, save, ended, submitted, failures>>
        /\ \A q \in Questions : screen[t].waits[q] = 0
    BY <1>4 DEF SendSubmit, Submitting, AllSettled
  <2>2. screen' = [screen EXCEPT ![t].submit = "sent", ![t].done = done]
    BY <1>3, <2>1
  <2> HIDE DEF done
  <2>3. QED BY <1>2, <2>1, <2>2, SubmitMoves
<1>5. CASE CheckSubmit(t)
  <2> DEFINE step == IF ended THEN "none" ELSE "write"
  <2>1. /\ screen[t].submit = "sent" /\ screen' = [screen EXCEPT ![t].submit = step]
        /\ UNCHANGED <<sheet, save, ended, submitted, failures>>
    BY <1>5 DEF CheckSubmit, Submitting
  <2>2. step \in {"none", "write"} /\ (step = "write" => ~ended)
    OBVIOUS
  <2> HIDE DEF step
  <2>3. screen' = [screen EXCEPT ![t].submit = step, ![t].done = done]
    BY <1>3, <2>1
  <2> HIDE DEF done
  <2>4. QED BY <1>2, <2>1, <2>2, <2>3, SubmitMoves
<1>6. CASE WriteSubmit(t)
  <2> DEFINE step == IF OpenEntry THEN "accepted" ELSE "none"
  <2>1. /\ screen[t].submit = "write" /\ screen' = [screen EXCEPT ![t].submit = step]
        /\ UNCHANGED <<sheet, save, ended, failures>>
        /\ submitted' = IF OpenEntry THEN "entrant" ELSE submitted
    BY <1>6 DEF WriteSubmit, Submitting
  <2>2. step \in {"none", "accepted"} /\ (step = "accepted" => OpenEntry)
    OBVIOUS
  <2>3. ~OpenEntry'
    BY <2>1 DEF OpenEntry
  <2>4. ASSUME NEW q \in Questions, Claimed(t, q), OpenEntry
        PROVE  Saved[q] \in screen[t].claim[q]
    BY <2>1, <2>4 DEF Claimed, Covered
  <2>5. submitted' \in {submitted, "entrant"}
    BY <2>1
  <2> HIDE DEF step
  <2>6. screen' = [screen EXCEPT ![t].submit = step, ![t].done = done]
    BY <1>3, <2>1
  <2> HIDE DEF done
  <2>7. QED BY <1>2, <2>1, <2>2, <2>3, <2>4, <2>5, <2>6, SubmitMoves
<1>7. CASE AcceptedSubmit(t)
  <2>1. /\ screen[t].submit = "accepted"
        /\ screen' = [screen EXCEPT ![t].submit = "done", ![t].done = TRUE]
        /\ UNCHANGED <<sheet, save, ended, submitted, failures>>
    BY <1>7 DEF AcceptedSubmit, Submitting
  <2>2. ASSUME NEW q \in Questions, Claimed(t, q)
        PROVE  ~OpenEntry' /\ Saved[q] \in screen[t].claim[q]
    BY <2>1, <2>2 DEF Claimed, OpenEntry
  <2>3. QED BY <2>1, <2>2, SubmitMoves
<1>8. CASE LoseSubmit(t)
  <2>1. /\ screen[t].submit \in {"sent", "accepted"}
        /\ screen' = [screen EXCEPT ![t].submit = "none"]
        /\ UNCHANGED <<sheet, save, ended, submitted>> /\ failures' = failures + 1
    BY <1>8 DEF LoseSubmit, Submitting
  <2>2. screen' = [screen EXCEPT ![t].submit = "none", ![t].done = done]
    BY <1>3, <2>1
  <2> HIDE DEF done
  <2>3. QED BY <1>2, <2>1, <2>2, SubmitMoves
<1>9. QED BY <1>4, <1>5, <1>6, <1>7, <1>8 DEF HandIn

\* The end of the contest, and the clock that hands in what is open.
LEMMA ClockStep ==
  ASSUME IInv, OneAnswerEach', End \/ SubmitByClock \/ UNCHANGED vars
  PROVE  IInv'
<1>1. /\ UNCHANGED <<sheet, screen, save, failures>>
      /\ submitted' \in {submitted, "clock"} /\ ended' \in {ended, TRUE}
      /\ (submitted' # submitted => submitted' = "clock")
  BY DEF End, SubmitByClock, vars
<1>2. (ended => ended') /\ (OpenEntry' => OpenEntry) /\ Saved' = Saved
  <2>1. ended => ended'
    BY <1>1 DEF IInv, TypeOK
  <2>2. OpenEntry' => OpenEntry
    BY <1>1 DEF OpenEntry
  <2>3. Saved' = Saved
    BY <1>1 DEF Saved, HasAnswer
  <2>4. QED BY <2>1, <2>2, <2>3
<1>3. TypeOK' /\ SavesOK' /\ ClosedOK' /\ GoneOK'
  BY <1>1 DEF IInv, TypeOK, SavesOK, SaveOK, ClosedOK, GoneOK, Active
<1>4. LoneOK'
  <2> SUFFICES ASSUME NEW s \in Screens, Alone(s)', Active(s)',
                      NEW q \in Questions \ screen'[s].missed
               PROVE  Fine(s, q)'
    BY DEF LoneOK
  <2>1. Fine(s, q)
    BY <1>1 DEF IInv, LoneOK, Alone, Active
  <2>2. AloneInLine(s, q)'
    BY <1>1, <2>1 DEF Fine, AloneInLine
  <2>3. Proper(s, q)' <=> Proper(s, q)
    BY <1>1, <1>2 DEF Proper, HasAnswer
  <2>4. (Right(s, q)' <=> Right(s, q)) /\ (Covered(s, q)' <=> Covered(s, q))
    BY <1>1, <1>2, <2>3 DEF Right, Covered
  <2>5. QED BY <1>1, <1>2, <2>1, <2>2, <2>4 DEF Fine, Claimed
<1>5. QED BY <1>3, <1>4 DEF IInv

-----------------------------------------------------------------------------

LEMMA InitHolds == Init => IInv
<1> SUFFICES ASSUME Init PROVE IInv
  OBVIOUS
<1>1. Closed \in ScreenType
  BY DEF Closed, NoAnswers, ScreenType, Answers, Picks
<1>2. \A s \in Screens : screen[s] = Closed
  BY DEF Init
<1>3. \A s \in Screens, q \in Questions : save[s][q] = "none" /\ screen[s].line[q] = <<>>
  BY <1>2 DEF Init, Closed
<1>4. TypeOK
  BY <1>1 DEF Init, TypeOK, Steps
<1>5. SavesOK
  BY <1>3 DEF SavesOK, SaveOK
<1>6. OneAnswerEach
  BY DEF Init, OneAnswerEach
<1>7. ClosedOK /\ GoneOK /\ LoneOK
  <2>1. \A s \in Screens : screen[s].at = "closed"
    <3>1. Closed.at = "closed"
      BY DEF Closed
    <3>2. QED BY <1>2, <3>1
  <2>2. \A s \in Screens : ~Active(s)
    BY <2>1 DEF Active
  <2>3. QED BY <1>2, <2>1, <2>2 DEF ClosedOK, GoneOK, LoneOK
<1>8. QED BY <1>4, <1>5, <1>6, <1>7 DEF IInv

LEMMA NextKeeps == IInv /\ [Next]_vars => IInv'
<1> SUFFICES ASSUME IInv, [Next]_vars PROVE IInv'
  OBVIOUS
<1>1. OneAnswerEach'
  BY OneAnswerKept DEF IInv
<1>2. ASSUME NEW s \in Screens, Load(s) \/ Show(s) \/ \E o \in Screens : Reopen(s, o)
      PROVE  IInv'
  BY <1>1, <1>2, LoadStep, ShowStep, ReopenStep
<1>3. ASSUME NEW s \in Screens, Submit(s) \/ HandIn(s) \/ LoseSubmit(s)
      PROVE  IInv'
  BY <1>1, <1>3, SubmitStep, HandInStep
<1>4. ASSUME NEW s \in Screens, NEW q \in Questions, NEW pick \in Picks, Pick(s, q, pick)
      PROVE  IInv'
  BY <1>1, <1>4, PickStep
<1>5. ASSUME NEW s \in Screens, NEW q \in Questions, Retry(s, q) \/ LoseSave(s, q)
      PROVE  IInv'
  BY <1>1, <1>5, RetryStep, LoseSaveStep
<1>6. ASSUME NEW s \in Screens, NEW q \in Questions, Server(s, q)
      PROVE  IInv'
  BY <1>1, <1>6, ServeStep, RespondStep DEF Server, Serve
<1>7. CASE End \/ SubmitByClock \/ UNCHANGED vars
  BY <1>1, <1>7, ClockStep
<1>8. QED BY <1>2, <1>3, <1>4, <1>5, <1>6, <1>7 DEF Next

LEMMA Invariance == Spec => []IInv
  BY InitHolds, NextKeeps, PTL DEF Spec

\* What a lone tab shows is what the server holds, once its saves have settled in a
\* running contest, for any number of questions, picks and visits: the line keeps the
\* order of the picks, and a save that is kept was the last (save in ContestWorkspace).
THEOREM ShownIsSavedHolds == Spec => []ShownIsSaved
<1>1. IInv => ShownIsSaved
  <2> SUFFICES ASSUME IInv, NEW s \in Screens, Alone(s), screen[s].at = "open",
                      ~ended, OpenEntry,
                      \A o \in Screens, q \in Questions : screen[o].line[q] = <<>>,
                      NEW q \in Questions \ screen[s].missed
               PROVE  Saved[q] = screen[s].shown[q]
    BY DEF ShownIsSaved
  <2>1. Fine(s, q)
    BY DEF IInv, LoneOK, Active
  <2>2. QED BY <2>1 DEF Fine, Right
<1>2. QED BY <1>1, Invariance, PTL

\* A hand-in of a lone tab covers what it showed when it was asked for, or what was
\* picked since: the submit goes out only when the saves before it are settled (submit).
THEOREM HandInCoversShownHolds == Spec => []HandInCoversShown
<1>1. IInv => HandInCoversShown
  <2> SUFFICES ASSUME IInv, NEW s \in Screens, Alone(s), screen[s].submit \in {"accepted", "done"},
                      NEW q \in Questions \ screen[s].missed
               PROVE  Saved[q] \in screen[s].claim[q]
    BY DEF HandInCoversShown
  <2>1. screen[s].at # "closed"
    BY DEF IInv, ClosedOK, Closed
  <2>2. CASE Active(s)
    <3>1. Fine(s, q)
      BY <2>2 DEF IInv, LoneOK
    <3>2. QED BY <3>1 DEF Fine, Claimed
  <2>3. CASE ~Active(s)
    <3>1. screen[s].at = "gone"
      BY <2>1, <2>3 DEF IInv, TypeOK, ScreenType, Active
    <3>2. PICK o \in Screens : Active(o)
      BY <3>1 DEF IInv, GoneOK
    <3>3. QED BY <2>3, <3>2 DEF Alone, Active
  <2>4. QED BY <2>2, <2>3
<1>2. QED BY <1>1, Invariance, PTL

=============================================================================
