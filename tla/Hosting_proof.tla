--------------------------- MODULE Hosting_proof ---------------------------
(***************************************************************************)
(* Proofs about Hosting and Editor: what a host's overlapping requests     *)
(* leave, for any number of requests, questions and details, and any clock;*)
(* that the editor makes no others; and what its "saved" means.            *)
(***************************************************************************)
EXTENDS Editor, FiniteSetTheorems, SequenceTheorems, TLAPS

GoodDetails(d) == Sound(d) /\ d.start # None

\* The records of requests on their way.
Documents == UNION {[orders -> Questions] : orders \in SUBSET Orders}
Checked == {"draft", "published"}
SaveCall == [step : {"write", "trim", "count"}, list : Lists, next : Nat \ {0},
             was : Checked, now : Nat, alone : BOOLEAN]
UpdateCall == [step : {"check", "set"}, details : Details, was : Checked, now : Nat]
JudgeCall == [step : {"judge"}, details : Details, now : Nat]
CommitCall == [step : {"commit"}, details : Details, questions : Documents, now : Nat]
ClearCall == [step : {"clear"}, now : Nat]

SaveSteps == {"write", "trim", "count"}

\* What a request carries from the steps that read to the steps that write.
SaveOK(c) ==
    /\ c \in SaveCall
    /\ c.next <= Len(c.list) + 1
    /\ c.step \in {"trim", "count"} => c.next = Len(c.list) + 1
    /\ c.was = "published" =>
          DOMAIN c.list # {} /\ \A i \in DOMAIN c.list : c.list[i] \in Complete

CallOK(c) ==
    /\ c.step \in SaveSteps => SaveOK(c)
    /\ c.step \in {"check", "set"} => c \in UpdateCall
    /\ c.step = "set" /\ c.was = "published" => GoodDetails(c.details)
    /\ c.step = "judge" => c \in JudgeCall
    /\ c.step = "commit" => c \in CommitCall /\ ChecksPass(c.details, c.questions, c.now)
    /\ c.step = "clear" => c \in ClearCall

Typed == /\ TypeOK
         /\ call = [k \in Calls |-> call[k]]

\* A published contest is sound, and so are the saves that go on writing.
Publishable ==
    contest.status = "published" /\ ~raced =>
       /\ GoodDetails(contest.details)
       /\ \E o \in Orders : slot[o] # None
       /\ \A o \in Orders : slot[o] # None => slot[o] \in Complete
       /\ \A k \in Calls : Saving(k) =>
             /\ call[k].was = "published"
             /\ call[k].next > 1 => slot[1] # None

\* A save that is alone has written what is before its next slot, and trimmed what
\* is past its end.
AloneOK ==
    /\ ~torn => \A k \in Calls : ~Saving(k)
    /\ \A k \in Calls : Saving(k) /\ call[k].alone =>
          \A j \in Calls \ {k} : ~Saving(j)
    /\ contest.status # "deleted" => \A k \in Calls : Saving(k) /\ call[k].alone =>
          /\ \A o \in Orders : o < call[k].next => slot[o] # None
          /\ At(k, "count") => \A o \in Orders : o > Len(call[k].list) => slot[o] = None

\* Deleting cleans up, and nothing else writes.
Deleting ==
    /\ \A k \in Calls : At(k, "clear") => contest.status = "deleted"
    /\ contest.status = "deleted" /\ ~raced =>
          /\ \A k \in Calls : ~Saving(k)
          /\ (\E k \in Calls : At(k, "clear")) \/ (\A o \in Orders : slot[o] = None)

CallsOK == \A k \in Calls : CallOK(call[k])

IInv == Typed /\ CallsOK /\ Publishable /\ AloneOK /\ SavingAgainRepairs /\ Deleting

-----------------------------------------------------------------------------
(* Facts about the values *)

LEMMA Numbers == /\ Lead \in Nat /\ MaxQuestions \in Nat \ {0} /\ 1 \in Orders
                 /\ Orders \subseteq Nat
  BY NumbersAssumption DEF Orders

LEMMA ListFacts ==
  ASSUME NEW list \in Lists
  PROVE  /\ Len(list) \in 0 .. MaxQuestions
         /\ DOMAIN list = 1 .. Len(list)
         /\ \A i \in 1 .. Len(list) : list[i] \in Questions /\ i \in Orders
<1>1. PICK n \in 0 .. MaxQuestions : list \in [1 .. n -> Questions]
  BY DEF Lists
<1>2. list \in Seq(Questions) /\ Len(list) = n
  BY <1>1, Numbers
<1>3. QED BY <1>1, <1>2, Numbers DEF Orders

\* What is sent is put on what is there.
LEMMA MergedTyped ==
  ASSUME NEW d \in Details, NEW body \in Inputs
  PROVE  Merged(d, body) \in Details
<1>1. /\ Given(body.title, d.title) \in Titles
      /\ Given(body.description, d.description) \in Descriptions
      /\ Given(body.start, d.start) \in Starts \cup {None}
      /\ Given(body.length, d.length) \in Lengths \cup {None}
      /\ Given(body.capacity, d.capacity) \in Capacities \cup {None}
  BY DEF Given, Details, Inputs
<1>2. QED BY <1>1 DEF Merged, Details

LEMMA StoredFacts ==
  /\ DOMAIN Stored = {o \in Orders : slot[o] # None}
  /\ \A o \in DOMAIN Stored : Stored[o] = slot[o]
  BY DEF Stored

\* What passes the checks has sound details with a start, and complete questions.
LEMMA ChecksGive ==
  ASSUME NEW d, NEW questions, NEW now, ChecksPass(d, questions, now)
  PROVE  /\ GoodDetails(d) /\ DOMAIN questions # {}
         /\ \A i \in DOMAIN questions : questions[i] \in Complete
  BY DEF ChecksPass, GoodDetails

LEMMA BecomesSet ==
  ASSUME Typed, NEW k \in Calls, NEW c, Becomes(k, c)
  PROVE  /\ call' = [j \in Calls |-> call'[j]]
         /\ call'[k] = c
         /\ \A j \in Calls \ {k} : call'[j] = call[j]
  BY DEF Typed, Becomes

LEMMA GotoSet ==
  ASSUME Typed, NEW k \in Calls, NEW step, Goto(k, step)
  PROVE  /\ call' = [j \in Calls |-> call'[j]]
         /\ call'[k] = [call[k] EXCEPT !.step = step]
         /\ \A j \in Calls \ {k} : call'[j] = call[j]
  BY DEF Typed, Becomes, Goto

\* Where no question changes and no save begins or moves, what saves have done stays.
LEMMA AloneKept ==
  ASSUME IInv, UNCHANGED <<slot, torn>>,
         \A j \in Calls : Saving(j)' => Saving(j) /\ call'[j] = call[j],
         contest'.status # "deleted" => contest.status # "deleted"
  PROVE  AloneOK'
<1>1. ~torn' => \A j \in Calls : ~Saving(j)'
  BY DEF IInv, AloneOK
<1>2. \A j \in Calls : Saving(j)' /\ call'[j].alone =>
         \A i \in Calls \ {j} : ~Saving(i)'
  BY DEF IInv, AloneOK
<1>3. \A j \in Calls : Saving(j)' /\ At(j, "count")' => At(j, "count")
  BY DEF At
<1>4. contest'.status # "deleted" => \A j \in Calls : Saving(j)' /\ call'[j].alone =>
         /\ \A o \in Orders : o < call'[j].next => slot'[o] # None
         /\ At(j, "count")' => \A o \in Orders : o > Len(call'[j].list) => slot'[o] = None
  BY <1>3 DEF IInv, AloneOK
<1>5. QED BY <1>1, <1>2, <1>4 DEF AloneOK

\* The steps that change neither the contest nor its questions, nor begin a save.
LEMMA CallAlone ==
  ASSUME IInv, NEW k \in Calls, NEW c,
         call' = [j \in Calls |-> call'[j]], call'[k] = c,
         \A j \in Calls \ {k} : call'[j] = call[j],
         CallOK(c), c.step \notin SaveSteps \cup {"clear"},
         clock' \in Nat, UNCHANGED <<contest, slot, torn>>,
         raced' \in BOOLEAN, raced => raced', At(k, "clear") => raced'
  PROVE  IInv'
<1>1. \A j \in Calls : Saving(j)' => Saving(j) /\ call'[j] = call[j] /\ j # k
  BY DEF Saving, SaveSteps
<1>2. \A j \in Calls : At(j, "clear")' => At(j, "clear") /\ j # k
  BY DEF At
<1>3. \A j \in Calls : At(j, "clear") => At(j, "clear")' \/ raced'
  BY DEF At
<1>4. Typed'
  BY DEF IInv, Typed, TypeOK
<1>5. CallsOK'
  <2>1. \A j \in Calls : CallOK(call'[j])
    BY DEF IInv, CallsOK
  <2>2. QED BY <2>1 DEF CallsOK, CallOK
<1>6. Publishable'
  BY <1>1 DEF IInv, Publishable
<1>7. AloneOK'
  BY <1>1, AloneKept
<1>8. SavingAgainRepairs'
  BY DEF IInv, SavingAgainRepairs
<1>9. Deleting'
  BY <1>1, <1>2, <1>3 DEF IInv, Deleting
<1>10. QED BY <1>4, <1>5, <1>6, <1>7, <1>8, <1>9 DEF IInv

-----------------------------------------------------------------------------
(* Requests that begin, are checked, refused, answered or lost *)

\* A request that is refused.
LEMMA RefusedStep ==
  ASSUME IInv, NEW k \in Calls, ~At(k, "clear"), Becomes(k, Refused),
         UNCHANGED <<clock, contest, slot, raced, torn>>
  PROVE  IInv'
<1>1. /\ call' = [j \in Calls |-> call'[j]] /\ call'[k] = Refused
      /\ \A j \in Calls \ {k} : call'[j] = call[j]
  BY BecomesSet DEF IInv
<1>2. CallOK(Refused) /\ Refused.step \notin SaveSteps \cup {"clear"}
  BY DEF Refused, CallOK, SaveSteps
<1>3. clock' \in Nat /\ raced' \in BOOLEAN /\ (raced => raced')
  BY DEF IInv, Typed, TypeOK
<1>4. QED BY <1>1, <1>2, <1>3, CallAlone

LEMMA UpdateBeginStep ==
  ASSUME IInv, NEW k \in Calls, NEW body \in Inputs, At(k, "idle"), UpdateBegin(k, body)
  PROVE  IInv'
<1> DEFINE c == [step |-> IF contest.status = "published" THEN "check" ELSE "set",
                 details |-> Merged(contest.details, body), was |-> contest.status, now |-> clock]
<1>1. CASE ~Editable(clock)
  BY <1>1, RefusedStep DEF UpdateBegin, At
<1>2. CASE Editable(clock)
  <2>1. contest.status \in Checked /\ clock \in Nat
    BY <1>2 DEF Editable, Checked, IInv, Typed, TypeOK
  <2>2. c \in UpdateCall
    <3>1. Merged(contest.details, body) \in Details
      BY MergedTyped DEF IInv, Typed, TypeOK
    <3>2. QED BY <2>1, <3>1 DEF UpdateCall
  <2>3. CallOK(c) /\ c.step \notin SaveSteps \cup {"clear"}
    BY <2>2 DEF CallOK, SaveSteps
  <2>4. Becomes(k, c) /\ UNCHANGED <<clock, contest, slot, raced, torn>>
    BY <1>2 DEF UpdateBegin
  <2> HIDE DEF c
  <2>5. /\ call' = [j \in Calls |-> call'[j]] /\ call'[k] = c
        /\ \A j \in Calls \ {k} : call'[j] = call[j]
    BY <2>4, BecomesSet DEF IInv
  <2>6. clock' \in Nat /\ raced' \in BOOLEAN /\ (raced => raced') /\ ~At(k, "clear")
    BY <2>4 DEF IInv, Typed, TypeOK, At
  <2>7. QED BY <2>3, <2>4, <2>5, <2>6, CallAlone
<1>3. QED BY <1>1, <1>2

LEMMA UpdateCheckStep ==
  ASSUME IInv, NEW k \in Calls, UpdateCheck(k)
  PROVE  IInv'
<1> DEFINE c == [call[k] EXCEPT !.step = "set"]
<1>1. At(k, "check") /\ ~At(k, "clear") /\ call[k] \in UpdateCall
      /\ UNCHANGED <<clock, contest, slot, raced, torn>>
  BY DEF UpdateCheck, At, IInv, CallsOK, CallOK
<1>2. CASE Becomes(k, Refused)
  BY <1>1, <1>2, RefusedStep
<1>3. CASE ChecksPass(call[k].details, Stored, call[k].now) /\ Goto(k, "set")
  <2>1. GoodDetails(call[k].details)
    BY <1>3, ChecksGive
  <2>2. c \in UpdateCall /\ c.details = call[k].details /\ c.step = "set"
    BY <1>1 DEF UpdateCall
  <2>3. CallOK(c) /\ c.step \notin SaveSteps \cup {"clear"}
    BY <2>1, <2>2 DEF CallOK, SaveSteps
  <2>4. Becomes(k, c)
    BY <1>3 DEF Goto
  <2> HIDE DEF c
  <2>5. /\ call' = [j \in Calls |-> call'[j]] /\ call'[k] = c
        /\ \A j \in Calls \ {k} : call'[j] = call[j]
    BY <2>4, BecomesSet DEF IInv
  <2>6. clock' \in Nat /\ raced' \in BOOLEAN /\ (raced => raced')
    BY <1>1 DEF IInv, Typed, TypeOK
  <2>7. QED BY <1>1, <2>3, <2>5, <2>6, CallAlone
<1>4. QED BY <1>2, <1>3 DEF UpdateCheck

LEMMA PublishBeginStep ==
  ASSUME IInv, NEW k \in Calls, At(k, "idle"), PublishBegin(k)
  PROVE  IInv'
<1> DEFINE c == [step |-> "judge", details |-> contest.details, now |-> clock]
<1>1. CASE contest.status # "draft"
  BY <1>1, RefusedStep DEF PublishBegin, At
<1>2. CASE contest.status = "draft"
  <2>1. contest.details \in Details /\ clock \in Nat
    BY DEF IInv, Typed, TypeOK
  <2>2. CallOK(c) /\ c.step \notin SaveSteps \cup {"clear"}
    BY <2>1 DEF CallOK, SaveSteps, JudgeCall
  <2>3. Becomes(k, c) /\ UNCHANGED <<clock, contest, slot, raced, torn>>
    BY <1>2 DEF PublishBegin
  <2> HIDE DEF c
  <2>4. /\ call' = [j \in Calls |-> call'[j]] /\ call'[k] = c
        /\ \A j \in Calls \ {k} : call'[j] = call[j]
    BY <2>3, BecomesSet DEF IInv
  <2>5. clock' \in Nat /\ raced' \in BOOLEAN /\ (raced => raced') /\ ~At(k, "clear")
    BY <2>3 DEF IInv, Typed, TypeOK, At
  <2>6. QED BY <2>2, <2>3, <2>4, <2>5, CallAlone
<1>3. QED BY <1>1, <1>2

LEMMA PublishJudgeStep ==
  ASSUME IInv, NEW k \in Calls, PublishJudge(k)
  PROVE  IInv'
<1> DEFINE c == [step |-> "commit", details |-> call[k].details, questions |-> Stored,
                 now |-> call[k].now]
<1>1. At(k, "judge") /\ ~At(k, "clear") /\ call[k] \in JudgeCall
      /\ UNCHANGED <<clock, contest, slot, raced, torn>>
  BY DEF PublishJudge, At, IInv, CallsOK, CallOK
<1>2. CASE ~ChecksPass(call[k].details, Stored, call[k].now)
  BY <1>1, <1>2, RefusedStep DEF PublishJudge
<1>3. CASE ChecksPass(call[k].details, Stored, call[k].now)
  <2>1. Stored \in Documents
    <3> DEFINE D == {o \in Orders : slot[o] # None}
    <3>1. \A o \in D : slot[o] \in Questions
      BY DEF IInv, Typed, TypeOK
    <3>2. Stored \in [D -> Questions]
      BY <3>1 DEF Stored
    <3>3. D \in SUBSET Orders
      OBVIOUS
    <3> HIDE DEF D
    <3>4. QED BY <3>2, <3>3 DEF Documents
  <2>2. c \in CommitCall
    BY <1>1, <2>1 DEF CommitCall, JudgeCall
  <2>3. CallOK(c) /\ c.step \notin SaveSteps \cup {"clear"}
    BY <1>3, <2>2 DEF CallOK, SaveSteps
  <2>4. Becomes(k, c)
    BY <1>3 DEF PublishJudge
  <2> HIDE DEF c
  <2>5. /\ call' = [j \in Calls |-> call'[j]] /\ call'[k] = c
        /\ \A j \in Calls \ {k} : call'[j] = call[j]
    BY <2>4, BecomesSet DEF IInv
  <2>6. clock' \in Nat /\ raced' \in BOOLEAN /\ (raced => raced')
    BY <1>1 DEF IInv, Typed, TypeOK
  <2>7. QED BY <1>1, <2>3, <2>5, <2>6, CallAlone
<1>4. QED BY <1>2, <1>3

LEMMA FailStep ==
  ASSUME IInv, NEW k \in Calls, Fail(k)
  PROVE  IInv'
<1>1. /\ call' = [j \in Calls |-> call'[j]] /\ call'[k] = Refused
      /\ \A j \in Calls \ {k} : call'[j] = call[j]
  BY BecomesSet DEF IInv, Fail
<1>2. CallOK(Refused) /\ Refused.step \notin SaveSteps \cup {"clear"}
  BY DEF Refused, CallOK, SaveSteps
<1>3. clock' \in Nat /\ raced' \in BOOLEAN /\ (raced => raced')
  BY DEF IInv, Typed, TypeOK, Fail
<1>4. At(k, "clear") => raced'
  BY DEF Fail
<1>5. QED BY <1>1, <1>2, <1>3, <1>4, CallAlone DEF Fail

LEMMA AnsweredStep ==
  ASSUME IInv, NEW k \in Calls, Answered(k)
  PROVE  IInv'
<1>1. /\ call' = [j \in Calls |-> call'[j]] /\ call'[k] = Idle
      /\ \A j \in Calls \ {k} : call'[j] = call[j]
  BY BecomesSet DEF IInv, Answered
<1>2. CallOK(Idle) /\ Idle.step \notin SaveSteps \cup {"clear"}
  BY DEF Idle, CallOK, SaveSteps
<1>3. clock' \in Nat /\ raced' \in BOOLEAN /\ (raced => raced') /\ ~At(k, "clear")
  BY DEF IInv, Typed, TypeOK, Answered, At
<1>4. QED BY <1>1, <1>2, <1>3, CallAlone DEF Answered

LEMMA QuietStep ==
  ASSUME IInv, clock' \in Nat, UNCHANGED <<contest, slot, call, raced, torn>>
  PROVE  IInv'
<1>1. \A j \in Calls : (Saving(j)' <=> Saving(j)) /\ (\A x : At(j, x)' <=> At(j, x))
  BY DEF Saving, At
<1>2. Typed' /\ CallsOK'
  BY DEF IInv, Typed, TypeOK, CallsOK, CallOK
<1>3. Publishable' /\ Deleting'
  BY <1>1 DEF IInv, Publishable, Deleting
<1>4. AloneOK' /\ SavingAgainRepairs'
  BY <1>1 DEF IInv, AloneOK, SavingAgainRepairs
<1>5. QED BY <1>2, <1>3, <1>4 DEF IInv

-----------------------------------------------------------------------------
(* Saves *)

LEMMA SaveBeginStep ==
  ASSUME IInv, NEW k \in Calls, NEW list \in Lists, At(k, "idle"), SaveBegin(k, list)
  PROVE  IInv'
<1> DEFINE c == [step |-> "write", list |-> list, next |-> 1, was |-> contest.status,
                 now |-> clock, alone |-> \A i \in Calls \ {k} : ~Saving(i)]
<1>1. CASE ~(/\ Editable(clock)
             /\ contest.status = "published" => ChecksPass(contest.details, list, clock))
  BY <1>1, RefusedStep DEF SaveBegin, At
<1>2. CASE /\ Editable(clock)
           /\ contest.status = "published" => ChecksPass(contest.details, list, clock)
  <2>1. contest.status \in Checked /\ clock \in Nat /\ raced \in BOOLEAN
    BY <1>2 DEF Editable, Checked, IInv, Typed, TypeOK
  <2>2. (\A i \in Calls \ {k} : ~Saving(i)) \in BOOLEAN
    OBVIOUS
  <2>3. c \in SaveCall /\ c.step = "write" /\ c.next = 1 /\ c.list = list
        /\ c.was = contest.status /\ (c.alone <=> \A i \in Calls \ {k} : ~Saving(i))
    BY <2>1, <2>2 DEF SaveCall
  <2>4. c.was = "published" =>
           DOMAIN c.list # {} /\ \A i \in DOMAIN c.list : c.list[i] \in Complete
    BY <1>2, <2>3, ChecksGive
  <2>5. SaveOK(c) /\ CallOK(c)
    BY <2>3, <2>4, ListFacts DEF SaveOK, CallOK, SaveSteps
  <2>6. /\ call' = [j \in Calls |-> IF j = k THEN c
                        ELSE IF Saving(j) THEN [call[j] EXCEPT !.alone = FALSE] ELSE call[j]]
        /\ torn' = TRUE /\ UNCHANGED <<clock, contest, slot, raced>>
    BY <1>2 DEF SaveBegin
  <2> HIDE DEF c
  <2>7. ASSUME NEW j \in Calls \ {k}
        PROVE  /\ call'[j].step = call[j].step
               /\ CallOK(call'[j])
               /\ ~Saving(j) => call'[j] = call[j]
               /\ Saving(j) => ~call'[j].alone /\ call'[j].was = call[j].was
                               /\ call'[j].next = call[j].next /\ call'[j].list = call[j].list
    <3>1. CASE ~Saving(j)
      BY <2>6, <3>1 DEF IInv, CallsOK
    <3>2. CASE Saving(j)
      <4> DEFINE m == [call[j] EXCEPT !.alone = FALSE]
      <4>1. SaveOK(call[j]) /\ call[j].step \in SaveSteps
        BY <3>2 DEF IInv, CallsOK, CallOK, Saving, SaveSteps
      <4>2. /\ m \in SaveCall /\ m.step = call[j].step /\ m.list = call[j].list
            /\ m.next = call[j].next /\ m.was = call[j].was /\ m.alone = FALSE
        BY <4>1 DEF SaveOK, SaveCall
      <4>3. call'[j] = m
        BY <2>6, <3>2
      <4> HIDE DEF m
      <4>4. SaveOK(m)
        BY <4>1, <4>2 DEF SaveOK
      <4>5. CallOK(m)
        BY <4>1, <4>2, <4>4 DEF CallOK, SaveSteps
      <4>6. QED BY <3>2, <4>2, <4>3, <4>5
    <3>3. QED BY <3>1, <3>2
  <2>8. call'[k] = c /\ call' = [j \in Calls |-> call'[j]]
    BY <2>6
  <2>9. \A j \in Calls \ {k} : Saving(j)' <=> Saving(j)
    BY <2>7 DEF Saving
  <2>10. \A j \in Calls \ {k}, x \in {"clear", "count"} : At(j, x)' <=> At(j, x)
    BY <2>7 DEF At
  <2>11. ~At(k, "clear") /\ ~At(k, "clear")' /\ ~At(k, "count")' /\ ~Saving(k) /\ Saving(k)'
    BY <2>3, <2>8 DEF At, Saving
  <2>12. Typed'
    BY <2>6, <2>8 DEF IInv, Typed, TypeOK
  <2>13. CallsOK'
    BY <2>5, <2>7, <2>8 DEF CallsOK, CallOK
  <2>14. Publishable'
    <3>1. contest.status = "published" => call'[k].was = "published" /\ call'[k].next = 1
      BY <2>3, <2>8
    <3>2. \A j \in Calls \ {k} : Saving(j)' =>
             Saving(j) /\ call'[j].was = call[j].was /\ call'[j].next = call[j].next
      BY <2>7, <2>9
    <3>3. QED BY <2>6, <3>1, <3>2 DEF IInv, Publishable
  <2>15. AloneOK'
    <3>1. \A j \in Calls : Saving(j)' /\ call'[j].alone => j = k
      BY <2>7, <2>9
    <3>2. call'[k].alone => \A i \in Calls \ {k} : ~Saving(i)'
      BY <2>3, <2>8, <2>9
    <3>3. \A o \in Orders : ~(o < call'[k].next)
      BY <2>3, <2>8, Numbers DEF Orders
    <3>4. QED BY <2>6, <2>11, <3>1, <3>2, <3>3 DEF AloneOK
  <2>16. SavingAgainRepairs'
    BY <2>6 DEF SavingAgainRepairs
  <2>17. Deleting'
    BY <1>2, <2>6, <2>10, <2>11 DEF IInv, Deleting, Editable
  <2>18. QED BY <2>12, <2>13, <2>14, <2>15, <2>16, <2>17 DEF IInv
<1>3. QED BY <1>1, <1>2

\* A step of save k that leaves the contest alone, and of the questions keeps what the
\* invariant says of them.
LEMMA SaveAdvances ==
  ASSUME IInv, NEW k \in Calls, Saving(k), NEW c,
         call' = [j \in Calls |-> call'[j]], call'[k] = c,
         \A j \in Calls \ {k} : call'[j] = call[j],
         SaveOK(c), c.step \in SaveSteps, c.was = call[k].was, c.alone = call[k].alone,
         UNCHANGED <<clock, contest, raced, torn>>,
         slot' \in [Orders -> Questions \cup {None}],
         contest.status = "published" /\ ~raced =>
            /\ \A o \in Orders : slot'[o] # None => slot'[o] \in Complete
            /\ slot[1] # None \/ c.next > 1 => slot'[1] # None
            /\ \E o \in Orders : slot'[o] # None,
         (\A o \in Orders : o < call[k].next => slot[o] # None) =>
            \A o \in Orders : o < c.next => slot'[o] # None,
         c.step = "count" => \A o \in Orders : o > Len(c.list) => slot'[o] = None
  PROVE  IInv'
<1>1. \A j \in Calls : Saving(j)' <=> Saving(j)
  BY DEF Saving, SaveSteps
<1>2. ~At(k, "clear")' /\ ~At(k, "clear")
      /\ \A j \in Calls \ {k}, x \in {"clear", "count"} : At(j, x)' <=> At(j, x)
  BY DEF At, SaveSteps, Saving
<1>3. Typed' /\ CallsOK'
  <2>1. CallOK(c)
    BY DEF CallOK, SaveSteps
  <2>2. \A j \in Calls : CallOK(call'[j])
    BY <2>1 DEF IInv, CallsOK
  <2>3. QED BY <2>2 DEF IInv, Typed, TypeOK, CallsOK, CallOK
<1>4. Publishable'
  <2>1. SUFFICES ASSUME contest.status = "published", ~raced PROVE Publishable'
    BY DEF Publishable
  <2>2. c.was = "published" /\ GoodDetails(contest.details)
    BY <2>1 DEF IInv, Publishable
  <2>3. \A j \in Calls : Saving(j)' =>
           call'[j].was = "published" /\ (call'[j].next > 1 => slot'[1] # None)
    BY <1>1, <2>1, <2>2 DEF IInv, Publishable
  <2>4. QED BY <2>1, <2>2, <2>3 DEF Publishable
<1>5. AloneOK'
  <2>1. torn /\ (~torn' => \A j \in Calls : ~Saving(j)')
    BY DEF IInv, AloneOK
  <2>2. \A j \in Calls : Saving(j)' /\ call'[j].alone => \A i \in Calls \ {j} : ~Saving(i)'
    BY <1>1 DEF IInv, AloneOK
  <2>3. \A j \in Calls : Saving(j)' /\ call'[j].alone => j = k
    BY <1>1, <2>2
  <2>4. ASSUME contest'.status # "deleted", c.alone
        PROVE  \A o \in Orders : o < c.next => slot'[o] # None
    BY <2>4 DEF IInv, AloneOK
  <2>5. QED BY <2>1, <2>2, <2>3, <2>4 DEF AloneOK, At
<1>6. SavingAgainRepairs'
  BY DEF IInv, AloneOK, SavingAgainRepairs
<1>7. Deleting'
  BY <1>1, <1>2 DEF IInv, Deleting
<1>8. QED BY <1>3, <1>4, <1>5, <1>6, <1>7 DEF IInv

LEMMA SaveFacts ==
  ASSUME IInv, NEW k \in Calls, Saving(k)
  PROVE  /\ SaveOK(call[k]) /\ call[k] \in SaveCall /\ call[k].list \in Lists
         /\ call[k].next \in Nat \ {0} /\ Len(call[k].list) \in Nat
         /\ slot \in [Orders -> Questions \cup {None}]
<1>1. SaveOK(call[k])
  BY DEF IInv, CallsOK, CallOK, Saving, SaveSteps
<1>2. call[k] \in SaveCall /\ call[k].list \in Lists /\ call[k].next \in Nat \ {0}
  BY <1>1 DEF SaveOK, SaveCall
<1>3. QED BY <1>1, <1>2, ListFacts, Numbers DEF IInv, Typed, TypeOK

\* A save that goes on from a sound published contest has complete questions.
LEMMA SavePublished ==
  ASSUME IInv, NEW k \in Calls, Saving(k), contest.status = "published", ~raced
  PROVE  /\ Len(call[k].list) >= 1
         /\ \A i \in 1 .. Len(call[k].list) : call[k].list[i] \in Complete
         /\ \A o \in Orders : slot[o] # None => slot[o] \in Complete
         /\ \E o \in Orders : slot[o] # None
         /\ call[k].next > 1 => slot[1] # None
<1>1. call[k].was = "published"
  BY DEF IInv, Publishable
<1>2. /\ DOMAIN call[k].list = 1 .. Len(call[k].list)
      /\ DOMAIN call[k].list # {}
      /\ \A i \in DOMAIN call[k].list : call[k].list[i] \in Complete
  BY <1>1, SaveFacts, ListFacts DEF SaveOK
<1>3. Len(call[k].list) >= 1
  BY <1>2, SaveFacts
<1>4. QED BY <1>2, <1>3 DEF IInv, Publishable

LEMMA SaveWriteStep ==
  ASSUME IInv, NEW k \in Calls, SaveWrite(k)
  PROVE  IInv'
<1>1. Saving(k) /\ call[k].step = "write" /\ UNCHANGED <<clock, contest, raced, torn>>
  BY DEF SaveWrite, At, Saving
<1>2. CASE call[k].next > Len(call[k].list)
  <2> DEFINE c == [call[k] EXCEPT !.step = "trim"]
  <2>1. /\ c \in SaveCall /\ c.step = "trim" /\ c.list = call[k].list /\ c.was = call[k].was
        /\ c.next = call[k].next /\ c.alone = call[k].alone
    BY <1>1, SaveFacts DEF SaveCall
  <2>2. Becomes(k, c) /\ slot' = slot
    BY <1>2 DEF SaveWrite, Goto
  <2> HIDE DEF c
  <2>3. SaveOK(c) /\ c.step \in SaveSteps
    BY <1>1, <1>2, <2>1, SaveFacts DEF SaveOK, SaveSteps
  <2>4. /\ call' = [j \in Calls |-> call'[j]] /\ call'[k] = c
        /\ \A j \in Calls \ {k} : call'[j] = call[j]
    BY <2>2, BecomesSet DEF IInv
  <2>5. slot' \in [Orders -> Questions \cup {None}]
    BY <1>1, <2>2, SaveFacts
  <2>6. contest.status = "published" /\ ~raced =>
           /\ \A o \in Orders : slot'[o] # None => slot'[o] \in Complete
           /\ slot[1] # None \/ c.next > 1 => slot'[1] # None
           /\ \E o \in Orders : slot'[o] # None
    BY <1>1, <2>1, <2>2, SavePublished
  <2>7. (\A o \in Orders : o < call[k].next => slot[o] # None) =>
            \A o \in Orders : o < c.next => slot'[o] # None
    BY <2>1, <2>2
  <2>8. QED BY <1>1, <2>1, <2>3, <2>4, <2>5, <2>6, <2>7, SaveAdvances
<1>3. CASE call[k].next <= Len(call[k].list)
  <2> DEFINE c == [call[k] EXCEPT !.next = @ + 1]
             n == call[k].next
  <2>1. /\ c \in SaveCall /\ c.step = "write" /\ c.list = call[k].list /\ c.was = call[k].was
        /\ c.next = n + 1 /\ c.alone = call[k].alone
    BY <1>1, SaveFacts DEF SaveCall
  <2>2. Becomes(k, c) /\ slot' = [slot EXCEPT ![n] = call[k].list[n]]
    BY <1>1, <1>3, SaveFacts DEF SaveWrite
  <2>3. n \in Nat \ {0} /\ n \in 1 .. Len(call[k].list)
    BY <1>1, <1>3, SaveFacts
  <2>4. n \in Orders /\ call[k].list[n] \in Questions /\ call[k].list[n] # None
    BY <1>1, <2>3, SaveFacts, ListFacts, ValuesAssumption
  <2> HIDE DEF c, n
  <2>5. SaveOK(c) /\ c.step \in SaveSteps
    BY <1>1, <2>1, <2>3, SaveFacts DEF SaveOK, SaveSteps
  <2>6. /\ call' = [j \in Calls |-> call'[j]] /\ call'[k] = c
        /\ \A j \in Calls \ {k} : call'[j] = call[j]
    BY <2>2, BecomesSet DEF IInv
  <2>7. slot' \in [Orders -> Questions \cup {None}]
        /\ slot'[n] = call[k].list[n] /\ \A o \in Orders \ {n} : slot'[o] = slot[o]
    BY <1>1, <2>2, <2>4, SaveFacts
  <2>8. contest.status = "published" /\ ~raced =>
           /\ \A o \in Orders : slot'[o] # None => slot'[o] \in Complete
           /\ slot[1] # None \/ c.next > 1 => slot'[1] # None
           /\ \E o \in Orders : slot'[o] # None
    <3>1. SUFFICES ASSUME contest.status = "published", ~raced
                   PROVE  /\ \A o \in Orders : slot'[o] # None => slot'[o] \in Complete
                          /\ slot'[1] # None
      BY Numbers
    <3>2. call[k].list[n] \in Complete
      BY <1>1, <2>3, <3>1, SavePublished
    <3>3. slot'[1] # None
      <4>1. CASE n = 1
        BY <2>4, <2>7, <4>1
      <4>2. CASE n # 1
        BY <1>1, <2>3, <2>7, <3>1, <4>2, SavePublished, Numbers DEF n
      <4>3. QED BY <4>1, <4>2
    <3>4. QED BY <1>1, <2>7, <3>1, <3>2, <3>3, SavePublished
  <2>9. (\A o \in Orders : o < call[k].next => slot[o] # None) =>
            \A o \in Orders : o < c.next => slot'[o] # None
    <3>1. SUFFICES ASSUME \A o \in Orders : o < n => slot[o] # None,
                          NEW o \in Orders, o < c.next
                   PROVE  slot'[o] # None
      BY DEF n
    <3>2. o = n \/ o < n
      BY <2>1, <2>3, <3>1, Numbers
    <3>3. QED BY <2>4, <2>7, <3>1, <3>2
  <2>10. c.step # "count"
    BY <2>1
  <2>11. QED BY <1>1, <2>1, <2>5, <2>6, <2>7, <2>8, <2>9, <2>10, SaveAdvances
<1>4. QED BY <1>1, <1>2, <1>3, SaveFacts

LEMMA SaveTrimStep ==
  ASSUME IInv, NEW k \in Calls, SaveTrim(k)
  PROVE  IInv'
<1> DEFINE c == [call[k] EXCEPT !.step = "count"]
           len == Len(call[k].list)
<1>1. Saving(k) /\ call[k].step = "trim" /\ UNCHANGED <<clock, contest, raced, torn>>
  BY DEF SaveTrim, At, Saving
<1>2. /\ c \in SaveCall /\ c.step = "count" /\ c.list = call[k].list /\ c.was = call[k].was
      /\ c.next = call[k].next /\ c.alone = call[k].alone
  BY <1>1, SaveFacts DEF SaveCall
<1>3. Becomes(k, c) /\ slot' = [o \in Orders |-> IF o > len THEN None ELSE slot[o]]
  BY DEF SaveTrim, Goto
<1>4. call[k].next = len + 1 /\ len \in Nat
  BY <1>1, SaveFacts DEF SaveOK
<1> HIDE DEF c, len
<1>5. SaveOK(c) /\ c.step \in SaveSteps
  BY <1>1, <1>2, <1>4, SaveFacts DEF SaveOK, SaveSteps, len
<1>6. /\ call' = [j \in Calls |-> call'[j]] /\ call'[k] = c
      /\ \A j \in Calls \ {k} : call'[j] = call[j]
  BY <1>3, BecomesSet DEF IInv
<1>7. slot' \in [Orders -> Questions \cup {None}]
  BY <1>1, <1>3, SaveFacts
<1>8. contest.status = "published" /\ ~raced =>
         /\ \A o \in Orders : slot'[o] # None => slot'[o] \in Complete
         /\ slot[1] # None \/ c.next > 1 => slot'[1] # None
         /\ \E o \in Orders : slot'[o] # None
  <2>1. SUFFICES ASSUME contest.status = "published", ~raced
                 PROVE  /\ \A o \in Orders : slot'[o] # None => slot'[o] \in Complete
                        /\ slot'[1] # None
    BY Numbers
  <2>2. len >= 1 /\ slot[1] # None
    BY <1>1, <1>4, <2>1, SavePublished DEF len
  <2>3. QED BY <1>1, <1>3, <1>4, <2>1, <2>2, SavePublished, Numbers
<1>9. (\A o \in Orders : o < call[k].next => slot[o] # None) =>
          \A o \in Orders : o < c.next => slot'[o] # None
  <2>1. SUFFICES ASSUME \A o \in Orders : o < call[k].next => slot[o] # None,
                        NEW o \in Orders, o < c.next
                 PROVE  slot'[o] # None
    OBVIOUS
  <2>2. slot[o] # None
    BY <1>2, <2>1
  <2>3. o \in Nat /\ o < len + 1
    BY <1>2, <1>4, <2>1, Numbers
  <2>4. ~(o > len)
    BY <1>4, <2>3
  <2>5. QED BY <1>3, <2>2, <2>4
<1>10. \A o \in Orders : o > Len(c.list) => slot'[o] = None
  BY <1>2, <1>3 DEF len
<1>11. QED BY <1>1, <1>2, <1>5, <1>6, <1>7, <1>8, <1>9, <1>10, SaveAdvances

\* Only a save that ran alone clears torn; its list is then what there is.
LEMMA SaveCountStep ==
  ASSUME IInv, NEW k \in Calls, SaveCount(k)
  PROVE  IInv'
<1> DEFINE c == [call[k] EXCEPT !.step = "done"]
           len == Len(call[k].list)
<1>1. Saving(k) /\ call[k].step = "count" /\ UNCHANGED <<clock, slot, raced>>
  BY DEF SaveCount, At, Saving
<1>2. c.step = "done"
  BY <1>1, SaveFacts DEF SaveCall
<1>3. Becomes(k, c) /\ torn' = (torn /\ ~call[k].alone)
  BY DEF SaveCount, Goto
<1>4. contest' = IF contest.status = "deleted" THEN contest ELSE [contest EXCEPT !.count = len]
  BY DEF SaveCount
<1>5. call[k].next = len + 1 /\ len \in 0 .. MaxQuestions
  BY <1>1, SaveFacts, ListFacts DEF SaveOK
<1>6. /\ contest' \in [status : Statuses, details : Details, count : 0 .. MaxQuestions]
      /\ contest'.status = contest.status /\ contest'.details = contest.details
      /\ contest.status # "deleted" => contest'.count = len
  BY <1>4, <1>5 DEF IInv, Typed, TypeOK
<1>7. CallOK(c)
  BY <1>2 DEF CallOK, SaveSteps
<1> HIDE DEF c
<1>8. /\ call' = [j \in Calls |-> call'[j]] /\ call'[k] = c
      /\ \A j \in Calls \ {k} : call'[j] = call[j]
  BY <1>3, BecomesSet DEF IInv
<1>9. \A j \in Calls : Saving(j)' <=> Saving(j) /\ j # k
  BY <1>2, <1>8 DEF Saving
<1>10. ~At(k, "clear")' /\ ~At(k, "clear") /\ ~At(k, "count")'
       /\ \A j \in Calls \ {k}, x \in {"clear", "count"} : At(j, x)' <=> At(j, x)
  BY <1>1, <1>2, <1>8 DEF At
<1>11. Typed' /\ CallsOK'
  <2>1. torn' \in BOOLEAN
    BY <1>3
  <2>2. \A j \in Calls : CallOK(call'[j])
    BY <1>7, <1>8 DEF IInv, CallsOK
  <2>3. QED BY <1>1, <1>6, <1>8, <2>1, <2>2 DEF IInv, Typed, TypeOK, CallsOK, CallOK
<1>12. Publishable'
  BY <1>1, <1>6, <1>8, <1>9 DEF IInv, Publishable
<1>13. AloneOK'
  <2>1. ~torn' => \A j \in Calls : ~Saving(j)'
    BY <1>1, <1>3, <1>9 DEF IInv, AloneOK
  <2>2. \A j \in Calls : Saving(j)' /\ call'[j].alone => \A i \in Calls \ {j} : ~Saving(i)'
    BY <1>8, <1>9 DEF IInv, AloneOK
  <2>3. ASSUME contest'.status # "deleted", NEW j \in Calls, Saving(j)', call'[j].alone
        PROVE  /\ \A o \in Orders : o < call'[j].next => slot'[o] # None
               /\ At(j, "count")' => \A o \in Orders : o > Len(call'[j].list) => slot'[o] = None
    BY <1>1, <1>6, <1>8, <1>9, <1>10, <2>3 DEF IInv, AloneOK
  <2>4. QED BY <2>1, <2>2, <2>3 DEF AloneOK
<1>14. SavingAgainRepairs'
  <2>1. SUFFICES ASSUME contest'.status # "deleted", ~torn', NEW o \in Orders
                 PROVE  (slot'[o] # None) <=> (o <= contest'.count)
    BY DEF SavingAgainRepairs
  <2>2. call[k].alone
    BY <1>1, <1>3, <2>1 DEF IInv, AloneOK
  <2>3. At(k, "count")
    BY <1>1 DEF At
  <2>4. (o < len + 1 => slot[o] # None) /\ (o > len => slot[o] = None)
    BY <1>1, <1>5, <1>6, <2>1, <2>2, <2>3 DEF IInv, AloneOK
  <2>5. o \in Nat /\ len \in Nat /\ contest'.count = len /\ slot' = slot
    BY <1>1, <1>5, <1>6, <2>1, Numbers
  <2> HIDE DEF len
  <2>6. QED BY <2>4, <2>5
<1>15. Deleting'
  BY <1>1, <1>6, <1>9, <1>10 DEF IInv, Deleting
<1>16. QED BY <1>11, <1>12, <1>13, <1>14, <1>15 DEF IInv

-----------------------------------------------------------------------------
(* Details, publish and delete *)

\* A step that changes the document and ends call k, without a save.
LEMMA UpdateSetStep ==
  ASSUME IInv, NEW k \in Calls, UpdateSet(k)
  PROVE  IInv'
<1> DEFINE c == [call[k] EXCEPT !.step = "done"]
<1>1. /\ call[k].step = "set" /\ call[k] \in UpdateCall /\ ~At(k, "clear") /\ ~Saving(k)
      /\ call[k].was = "published" => GoodDetails(call[k].details)
      /\ UNCHANGED <<clock, slot, raced, torn>>
  BY DEF UpdateSet, At, Saving, IInv, CallsOK, CallOK
<1>2. CASE contest.status # call[k].was
  BY <1>1, <1>2, RefusedStep DEF UpdateSet
<1>3. CASE contest.status = call[k].was
  <2>1. c.step = "done" /\ Becomes(k, c)
    BY <1>1, <1>3 DEF UpdateSet, Goto, UpdateCall
  <2>2. contest' = [contest EXCEPT !.details = call[k].details]
    BY <1>3 DEF UpdateSet
  <2>3. /\ contest' \in [status : Statuses, details : Details, count : 0 .. MaxQuestions]
        /\ contest'.status = contest.status /\ contest'.count = contest.count
        /\ contest.status = "published" => GoodDetails(contest'.details)
        /\ contest.status # "deleted"
    BY <1>1, <1>3, <2>2 DEF IInv, Typed, TypeOK, UpdateCall, Checked
  <2>4. CallOK(c)
    BY <2>1 DEF CallOK, SaveSteps
  <2> HIDE DEF c
  <2>5. /\ call' = [j \in Calls |-> call'[j]] /\ call'[k] = c
        /\ \A j \in Calls \ {k} : call'[j] = call[j]
    BY <2>1, BecomesSet DEF IInv
  <2>6. /\ \A j \in Calls : (Saving(j)' <=> Saving(j)) /\ (Saving(j) => j # k)
        /\ \A j \in Calls, x \in {"clear", "count"} : At(j, x)' <=> At(j, x)
    BY <1>1, <2>1, <2>5 DEF Saving, At
  <2>7. Typed' /\ CallsOK'
    <3>1. \A j \in Calls : CallOK(call'[j])
      BY <2>4, <2>5 DEF IInv, CallsOK
    <3>2. QED BY <1>1, <2>3, <2>5, <3>1 DEF IInv, Typed, TypeOK, CallsOK, CallOK
  <2>8. Publishable'
    BY <1>1, <2>3, <2>5, <2>6 DEF IInv, Publishable
  <2>9. AloneOK'
    BY <1>1, <2>3, <2>5, <2>6, AloneKept
  <2>10. SavingAgainRepairs' /\ Deleting'
    BY <1>1, <2>3, <2>6 DEF IInv, SavingAgainRepairs, Deleting
  <2>11. QED BY <2>7, <2>8, <2>9, <2>10 DEF IInv
<1>4. QED BY <1>2, <1>3

\* A contest is published while nothing is under way that was not checked, or the race
\* is recorded.
LEMMA PublishCommitStep ==
  ASSUME IInv, NEW k \in Calls, PublishCommit(k)
  PROVE  IInv'
<1> DEFINE c == [call[k] EXCEPT !.step = "done"]
<1>1. /\ call[k].step = "commit" /\ call[k] \in CommitCall /\ ~At(k, "clear") /\ ~Saving(k)
      /\ ChecksPass(call[k].details, call[k].questions, call[k].now)
      /\ UNCHANGED <<clock, slot, torn>>
  BY DEF PublishCommit, At, Saving, IInv, CallsOK, CallOK
<1>2. CASE contest.status # "draft"
  BY <1>1, <1>2, RefusedStep DEF PublishCommit
<1>3. CASE contest.status = "draft"
  <2>1. c.step = "done" /\ Becomes(k, c)
    BY <1>1, <1>3 DEF PublishCommit, Goto, CommitCall
  <2>2. /\ contest' = [contest EXCEPT !.status = "published"]
        /\ raced' = \/ raced
                    \/ contest.details # call[k].details \/ Stored # call[k].questions
                    \/ \E j \in Calls : Saving(j)
    BY <1>3 DEF PublishCommit
  <2>3. /\ contest' \in [status : Statuses, details : Details, count : 0 .. MaxQuestions]
        /\ contest'.status = "published" /\ contest'.count = contest.count
        /\ contest'.details = contest.details /\ raced' \in BOOLEAN
    BY <2>2 DEF IInv, Typed, TypeOK, Statuses
  <2>4. CallOK(c)
    BY <2>1 DEF CallOK, SaveSteps
  <2> HIDE DEF c
  <2>5. /\ call' = [j \in Calls |-> call'[j]] /\ call'[k] = c
        /\ \A j \in Calls \ {k} : call'[j] = call[j]
    BY <2>1, BecomesSet DEF IInv
  <2>6. \A j \in Calls : (Saving(j)' <=> Saving(j)) /\ (Saving(j) => j # k)
    BY <1>1, <2>1, <2>5 DEF Saving
  <2>7. \A j \in Calls : At(j, "clear")' => At(j, "clear")
    BY <2>1, <2>5 DEF At
  <2>8. Typed' /\ CallsOK'
    <3>1. \A j \in Calls : CallOK(call'[j])
      BY <2>4, <2>5 DEF IInv, CallsOK
    <3>2. QED BY <1>1, <2>3, <2>5, <3>1 DEF IInv, Typed, TypeOK, CallsOK, CallOK
  <2>9. Publishable'
    <3>1. SUFFICES ASSUME ~raced' PROVE Publishable'
      BY DEF Publishable
    <3>2. /\ contest.details = call[k].details /\ Stored = call[k].questions
          /\ \A j \in Calls : ~Saving(j)'
      BY <2>2, <2>6, <3>1
    <3>3. /\ GoodDetails(contest.details) /\ DOMAIN Stored # {}
          /\ \A o \in DOMAIN Stored : Stored[o] \in Complete
      BY <1>1, <3>2, ChecksGive
    <3>4. /\ \E o \in Orders : slot[o] # None
          /\ \A o \in Orders : slot[o] # None => slot[o] \in Complete
      BY <3>3, StoredFacts
    <3>5. QED BY <1>1, <2>3, <3>2, <3>3, <3>4 DEF Publishable
  <2>10. AloneOK'
    BY <1>1, <1>3, <2>5, <2>6, AloneKept
  <2>11. SavingAgainRepairs'
    BY <1>1, <1>3, <2>3 DEF IInv, SavingAgainRepairs
  <2>12. Deleting'
    BY <1>3, <2>3, <2>7 DEF IInv, Deleting
  <2>13. QED BY <2>8, <2>9, <2>10, <2>11, <2>12 DEF IInv
<1>4. QED BY <1>2, <1>3

LEMMA DeleteBeginStep ==
  ASSUME IInv, NEW k \in Calls, At(k, "idle"), DeleteBegin(k)
  PROVE  IInv'
<1> DEFINE c == [step |-> "clear", now |-> clock]
<1>1. ~At(k, "clear") /\ ~Saving(k) /\ UNCHANGED <<clock, slot, torn>>
  BY DEF DeleteBegin, At, Saving
<1>2. CASE contest.status # "draft"
  BY <1>1, <1>2, RefusedStep DEF DeleteBegin
<1>3. CASE contest.status = "draft"
  <2>1. /\ contest' = [contest EXCEPT !.status = "deleted"]
        /\ raced' = (raced \/ \E j \in Calls : Saving(j))
        /\ Becomes(k, c)
    BY <1>3 DEF DeleteBegin
  <2>2. /\ contest' \in [status : Statuses, details : Details, count : 0 .. MaxQuestions]
        /\ contest'.status = "deleted" /\ raced' \in BOOLEAN
    BY <2>1 DEF IInv, Typed, TypeOK, Statuses
  <2>3. c.step = "clear" /\ CallOK(c)
    BY DEF CallOK, SaveSteps, ClearCall, IInv, Typed, TypeOK
  <2> HIDE DEF c
  <2>4. /\ call' = [j \in Calls |-> call'[j]] /\ call'[k] = c
        /\ \A j \in Calls \ {k} : call'[j] = call[j]
    BY <2>1, BecomesSet DEF IInv
  <2>5. \A j \in Calls : (Saving(j)' <=> Saving(j)) /\ (Saving(j) => j # k)
    BY <1>1, <2>3, <2>4 DEF Saving
  <2>6. At(k, "clear")'
    BY <2>3, <2>4 DEF At
  <2>7. Typed' /\ CallsOK'
    <3>1. \A j \in Calls : CallOK(call'[j])
      BY <2>3, <2>4 DEF IInv, CallsOK
    <3>2. QED BY <1>1, <2>2, <2>4, <3>1 DEF IInv, Typed, TypeOK, CallsOK, CallOK
  <2>8. Publishable' /\ SavingAgainRepairs'
    BY <2>2 DEF Publishable, SavingAgainRepairs
  <2>9. AloneOK'
    BY <1>1, <1>3, <2>4, <2>5, AloneKept
  <2>10. Deleting'
    BY <2>1, <2>2, <2>5, <2>6 DEF Deleting
  <2>11. QED BY <2>7, <2>8, <2>9, <2>10 DEF IInv
<1>4. QED BY <1>2, <1>3

LEMMA DeleteQuestionsStep ==
  ASSUME IInv, NEW k \in Calls, DeleteQuestions(k)
  PROVE  IInv'
<1> DEFINE c == [call[k] EXCEPT !.step = "done"]
<1>1. /\ call[k].step = "clear" /\ call[k] \in ClearCall /\ ~Saving(k)
      /\ contest.status = "deleted"
      /\ UNCHANGED <<clock, contest, raced, torn>>
  BY DEF DeleteQuestions, At, Saving, IInv, CallsOK, CallOK, Deleting
<1>2. c.step = "done" /\ Becomes(k, c) /\ slot' = [o \in Orders |-> None]
  BY <1>1 DEF DeleteQuestions, Goto, ClearCall
<1>3. CallOK(c)
  BY <1>2 DEF CallOK, SaveSteps
<1> HIDE DEF c
<1>4. /\ call' = [j \in Calls |-> call'[j]] /\ call'[k] = c
      /\ \A j \in Calls \ {k} : call'[j] = call[j]
  BY <1>2, BecomesSet DEF IInv
<1>5. \A j \in Calls : (Saving(j)' <=> Saving(j)) /\ (Saving(j) => j # k)
  BY <1>1, <1>2, <1>4 DEF Saving
<1>6. Typed' /\ CallsOK'
  <2>1. \A j \in Calls : CallOK(call'[j])
    BY <1>3, <1>4 DEF IInv, CallsOK
  <2>2. slot' \in [Orders -> Questions \cup {None}]
    BY <1>2
  <2>3. QED BY <1>1, <1>4, <2>1, <2>2 DEF IInv, Typed, TypeOK, CallsOK, CallOK
<1>7. Publishable' /\ SavingAgainRepairs'
  BY <1>1 DEF Publishable, SavingAgainRepairs
<1>8. AloneOK'
  BY <1>1, <1>4, <1>5 DEF IInv, AloneOK
<1>9. Deleting'
  BY <1>1, <1>2, <1>5 DEF IInv, Deleting
<1>10. QED BY <1>6, <1>7, <1>8, <1>9 DEF IInv

-----------------------------------------------------------------------------

LEMMA InitOK == Init => IInv
<1> SUFFICES ASSUME Init PROVE IInv
  OBVIOUS
<1> DEFINE c == Idle
<1>1. c.step = "idle" /\ CallOK(c)
  BY DEF Idle, CallOK, SaveSteps
<1>2. call = [k \in Calls |-> c]
  BY DEF Init
<1> HIDE DEF c
<1>3. /\ call = [k \in Calls |-> call[k]]
      /\ \A k \in Calls : ~Saving(k) /\ ~At(k, "clear") /\ CallOK(call[k])
  BY <1>1, <1>2 DEF Saving, At
<1>4. Typed /\ CallsOK
  <2>1. /\ clock \in Nat /\ raced \in BOOLEAN /\ torn \in BOOLEAN
        /\ slot \in [Orders -> Questions \cup {None}]
    BY DEF Init
  <2>2. contest \in [status : Statuses, details : Details, count : 0 .. MaxQuestions]
    BY ValuesAssumption, Numbers DEF Init, Statuses
  <2>3. QED BY <1>3, <2>1, <2>2 DEF Typed, TypeOK, CallsOK
<1>5. Publishable /\ AloneOK /\ Deleting
  BY <1>3 DEF Publishable, AloneOK, Deleting, Init
<1>6. SavingAgainRepairs
  BY Numbers DEF SavingAgainRepairs, Init, Orders
<1>7. QED BY <1>4, <1>5, <1>6 DEF IInv

LEMMA StepOK == IInv /\ [Next]_hosting => IInv'
<1> SUFFICES ASSUME IInv, [Next]_hosting PROVE IInv'
  OBVIOUS
<1>1. clock \in Nat
  BY DEF IInv, Typed, TypeOK
<1>2. ASSUME NEW k \in Calls, Request(k, Inputs) PROVE IInv'
  BY <1>2, SaveBeginStep, UpdateBeginStep, PublishBeginStep, DeleteBeginStep DEF Request
<1>3. ASSUME NEW k \in Calls, Advance(k) PROVE IInv'
  BY <1>3, SaveWriteStep, SaveTrimStep, SaveCountStep, UpdateCheckStep, UpdateSetStep,
     PublishJudgeStep, PublishCommitStep, DeleteQuestionsStep DEF Advance
<1>4. ASSUME NEW k \in Calls, Fail(k) \/ Answered(k) PROVE IInv'
  BY <1>4, FailStep, AnsweredStep
<1>5. CASE Tick
  BY <1>1, <1>5, QuietStep DEF Tick
<1>6. CASE UNCHANGED hosting
  BY <1>1, <1>6, QuietStep DEF hosting
<1>7. QED BY <1>2, <1>3, <1>4, <1>5, <1>6 DEF Next

THEOREM Invariance == Spec => []IInv
<1>1. QED BY InitOK, StepOK, PTL DEF Spec

\* Types: requests that overlap or stop half way leave documents of their types.
THEOREM TypesHold == Spec => []TypeOK
<1>1. IInv => TypeOK
  BY DEF IInv, Typed
<1>2. QED BY <1>1, Invariance, PTL

\* The promise of updateDetails and saveQuestions to a published contest, for any
\* number of requests, of questions and of details.
THEOREM PublishedPublishable == Spec => []PublishedStaysPublishable
<1>1. IInv => PublishedStaysPublishable
  <2>1. ASSUME IInv, contest.status = "published", ~raced
        PROVE  /\ GoodDetails(contest.details) /\ DOMAIN Stored # {}
               /\ \A o \in DOMAIN Stored : Stored[o] \in Complete
    BY <2>1, StoredFacts DEF IInv, Publishable
  <2>2. QED BY <2>1 DEF PublishedStaysPublishable, GoodDetails
<1>2. QED BY <1>1, Invariance, PTL

\* "saving again repairs it": a save that runs alone leaves exactly its questions.
THEOREM SavesRepair == Spec => []SavingAgainRepairs
<1>1. IInv => SavingAgainRepairs
  BY DEF IInv
<1>2. QED BY <1>1, Invariance, PTL

\* deleteDraft takes the questions with it.
THEOREM DeletesAll == Spec => []DeletedLeavesNothing
<1>1. IInv => DeletedLeavesNothing
  <2>1. SUFFICES ASSUME IInv, contest.status = "deleted", ~raced,
                        \A k \in Calls : ~At(k, "clear")
                 PROVE  Stored = <<>>
    BY DEF DeletedLeavesNothing
  <2>2. \A o \in Orders : slot[o] = None
    BY <2>1 DEF IInv, Deleting
  <2>3. {o \in Orders : slot[o] # None} = {}
    BY <2>2
  <2>4. QED BY <2>3 DEF Stored
<1>2. QED BY <1>1, Invariance, PTL

-----------------------------------------------------------------------------
(* The editor on top of the server *)

\* What a card holds, and what it sends.
Held(f) == IF f = "details" THEN Cards ELSE Lists
Value(f) == IF f = "details" THEN Inputs ELSE Lists
Views == [status : Statuses, details : Details, questions : Documents, ok : BOOLEAN]
Hook(f) == [lastSaved : Value(f), shown : {"saved", "pending", "saving", "failed"},
            timer : BOOLEAN]
Left == [visits : 0 .. MaxVisits, edits : Nat, length : Nat, others : Nat, fails : Nat,
         cards : SUBSET DOMAIN CardValues, draft : Drafts]

EditorTyped ==
    /\ page \in [open : 0 .. MaxVisits, last : 0 .. MaxVisits]
    /\ Mounted => page.open = page.last
    /\ view = NoView \/ view \in Views
    /\ form = [f \in Fields |-> form[f]] /\ \A f \in Fields : form[f] \in Held(f)
    /\ hook = [f \in Fields |-> hook[f]] /\ \A f \in Fields : hook[f] \in Hook(f)
    /\ chain = [v \in Visits |-> [f \in Fields |-> chain[v][f]]]
    /\ \A v \in Visits, f \in Fields : chain[v][f] \in Seq(Value(f))
    /\ clean \in [Fields -> BOOLEAN] /\ dropped \in [Fields -> BOOLEAN]
    /\ left \in Left

\* Which request does what: the autosave of a card only saves it, the button
\* publishes or deletes, and anyone else's request comes from elsewhere.
StepsOf(f) == IF f = "details" THEN {"check", "set"} ELSE SaveSteps
Roles ==
    /\ \A v \in Visits, f \in Fields :
          call[<<v, f>>].step \in StepsOf(f) \cup {"idle", "refused", "done"}
    /\ call[Act].step \in {"idle", "judge", "commit", "clear", "refused", "done"}
    /\ \A k \in Calls \ (Saves \cup {Act, Elsewhere}) : At(k, "idle")

\* What the server has of a card, and whether a value is all there.
Kept(f) == IF f = "details" THEN contest.details ELSE ListOf(Fresh)
Suits(f, has, value) == IF f = "details" THEN Holds(has, value) ELSE has = value

\* What a request of a card carries is the first value of its chain.
Carried(c, f) == IF f = "details" THEN c.details ELSE c.list
ChainsOK ==
    \A v \in Visits, f \in Fields :
       /\ v > page.last => chain[v][f] = <<>>
       /\ ~At(<<v, f>>, "idle") => chain[v][f] # <<>>
       /\ call[<<v, f>>].step \in StepsOf(f) \cup {"done"} =>
             Suits(f, Carried(call[<<v, f>>], f), Head(chain[v][f]))

\* A card that says saved has nothing on its way; what it shows is the last value
\* that is, unless it let go of an edit.
CardsOK ==
    Mounted => \A f \in Fields :
       LET queue == chain[page.open][f] IN
       /\ hook[f].shown = "saved" => queue = <<>>
       /\ ~dropped[f] /\ ~hook[f].timer =>
             /\ queue # <<>> => InputOf(f, form[f]) = queue[Len(queue)]
             /\ queue = <<>> /\ hook[f].shown = "saved" => InputOf(f, form[f]) = hook[f].lastSaved

\* How far the one save of the questions that is under way has come.
Written(c) ==
    /\ c.step \in SaveSteps => \A o \in Orders : o < c.next => slot[o] = c.list[o]
    /\ c.step \in {"count", "done"} =>
          \A o \in Orders : slot[o] = IF o <= Len(c.list) THEN c.list[o] ELSE None
WrittenDetails(c) == c.step = "done" => contest.details = c.details

\* Nobody else writes a field of a visit that began clean: what its save has
\* written stays, and what was saved last is what the server has.
OneWriter ==
    Mounted /\ contest.status # "deleted" => \A f \in Fields : clean[f] =>
       /\ At(Elsewhere, "idle")
       /\ \A v \in Visits \ {page.open} : chain[v][f] = <<>>
       /\ hook[f].shown = "saved" => Suits(f, Kept(f), hook[f].lastSaved)
       /\ IF f = "details" THEN WrittenDetails(call[<<page.open, f>>])
                           ELSE Written(call[<<page.open, f>>])
-----------------------------------------------------------------------------
(* What a card shows and sends *)

\* What was put on the details is all there.
LEMMA MergedHolds ==
  ASSUME NEW d \in Details, NEW body \in Inputs
  PROVE  Holds(Merged(d, body), body)
<1> DEFINE m == Merged(d, body)
<1>1. m \in Details
  BY MergedTyped
<1>2. /\ m.title = Given(body.title, d.title)
      /\ m.description = Given(body.description, d.description)
      /\ m.start = Given(body.start, d.start) /\ m.length = Given(body.length, d.length)
      /\ m.capacity = Given(body.capacity, d.capacity)
  BY DEF Merged
<1> HIDE DEF m
<1>3. Shown(m) = [title |-> m.title, description |-> m.description, start |-> m.start,
                  length |-> Or(m.length, DefaultLength), capacity |-> m.capacity]
  BY <1>1 DEF Shown, Details
<1>4. Given(body.length, Or(m.length, DefaultLength)) = Or(m.length, DefaultLength)
  <2>1. body.length # Unsent => body.length \in Lengths
    BY DEF Inputs
  <2>2. QED BY <1>2, <2>1, ValuesAssumption DEF Given, Or
<1>5. /\ Given(body.title, m.title) = m.title
      /\ Given(body.description, m.description) = m.description
      /\ Given(body.start, m.start) = m.start /\ Given(body.capacity, m.capacity) = m.capacity
  BY <1>2 DEF Given
<1>6. Merged(Shown(m), body) = Shown(m)
  BY <1>3, <1>4, <1>5 DEF Merged
<1>7. QED BY <1>6 DEF Holds, m

\* What a card shows of the details would, sent again, change nothing that is shown.
LEMMA CardHolds ==
  ASSUME NEW d \in Details
  PROVE  CardOf(d) \in Cards /\ Holds(d, DetailsInput(CardOf(d)))
<1> DEFINE card == CardOf(d)
<1>1. /\ d.title \in Titles /\ d.description \in Descriptions
      /\ d.start \in Starts \cup {None} /\ d.length \in Lengths \cup {None}
      /\ d.capacity \in Capacities \cup {None}
  BY DEF Details
<1>2. /\ card.title = d.title /\ card.description = d.description
      /\ card.date = d.start /\ card.timed = (d.start # None)
      /\ card.length = Or(d.length, DefaultLength)
      /\ card.capacityOn = (d.capacity # None) /\ card.capacity = Or(d.capacity, DefaultCapacity)
  BY DEF CardOf
<1>3. card \in Cards
  <2>1. /\ d.title \in TypedTitles /\ Or(d.length, DefaultLength) \in Lengths
        /\ Or(d.capacity, DefaultCapacity) \in TypedNumbers
    BY <1>1, TypingAssumption DEF Or
  <2>2. QED BY <1>1, <2>1 DEF CardOf, Cards
<1> DEFINE sent == DetailsInput(card)
<1>4. /\ sent.title = d.title /\ sent.description = d.description /\ sent.start = d.start
      /\ sent.length = Or(d.length, DefaultLength)
  BY <1>1, <1>2, TypingAssumption DEF DetailsInput
<1>5. sent.capacity = d.capacity
  <2>1. CASE d.capacity = None
    BY <1>2, <2>1 DEF DetailsInput
  <2>2. CASE d.capacity # None
    <3>1. d.capacity \in 1 .. MaxCapacity /\ MaxCapacity \in Nat
      BY <1>1, <2>2, NumbersAssumption DEF Capacities
    <3>2. Clamped(d.capacity) = d.capacity
      BY <3>1 DEF Clamped
    <3>3. QED BY <1>2, <2>2, <3>2 DEF DetailsInput, Or
  <2>3. QED BY <2>1, <2>2
<1> HIDE DEF card, sent
<1>6. Shown(d) = [title |-> d.title, description |-> d.description, start |-> d.start,
                  length |-> Or(d.length, DefaultLength), capacity |-> d.capacity]
  BY DEF Shown, Details
<1>7. Merged(Shown(d), sent) = Shown(d)
  BY <1>4, <1>5, <1>6 DEF Merged, Given
<1>8. QED BY <1>3, <1>7 DEF Holds, card, sent

LEMMA CardSends ==
  ASSUME NEW card \in Cards
  PROVE  DetailsInput(card) \in Inputs
<1>1. /\ SentTitle[card.title] \in Titles \cup {Unsent}
      /\ card.description \in Descriptions /\ card.length \in Lengths
      /\ (IF card.timed THEN card.date ELSE None) \in Starts \cup {None}
  BY TypingAssumption DEF Cards
<1>2. (IF card.capacityOn THEN Clamped(card.capacity) ELSE None) \in Capacities \cup {None}
  <2>1. card.capacity \in Int /\ MaxCapacity \in Nat \ {0}
    BY TypingAssumption, NumbersAssumption DEF Cards
  <2>2. Clamped(card.capacity) \in 1 .. MaxCapacity
    BY <2>1 DEF Clamped
  <2>3. QED BY <2>2 DEF Capacities
<1>3. QED BY <1>1, <1>2 DEF DetailsInput, Inputs

\* What is sent of what a card holds, and what it starts from.
LEMMA InputTyped ==
  ASSUME NEW f \in Fields, NEW held \in Held(f)
  PROVE  InputOf(f, held) \in Value(f)
<1>1. CASE f = "details"
  BY <1>1, CardSends DEF Held, Value, InputOf
<1>2. CASE f # "details"
  BY <1>2 DEF Held, Value, InputOf
<1>3. QED BY <1>1, <1>2

-----------------------------------------------------------------------------
(* A view's questions as a list *)

LEMMA UpTo ==
  ASSUME NEW n \in Nat
  PROVE  IsFiniteSet(1 .. n) /\ Cardinality(1 .. n) = n
<1>1. IsFiniteSet(1 .. n) /\ Cardinality(1 .. n) = IF 1 > n THEN 0 ELSE n - 1 + 1
  BY FS_Interval
<1>2. QED BY <1>1

LEMMA OrdersFinite ==
  ASSUME NEW orders \in SUBSET Orders
  PROVE  /\ IsFiniteSet(orders) /\ Cardinality(orders) \in 0 .. MaxQuestions
         /\ orders \subseteq Nat
<1>1. IsFiniteSet(Orders) /\ Cardinality(Orders) = MaxQuestions
  BY NumbersAssumption, UpTo DEF Orders
<1>2. IsFiniteSet(orders) /\ Cardinality(orders) <= Cardinality(Orders)
  BY <1>1, FS_Subset
<1>3. Cardinality(orders) \in Nat
  BY <1>2, FS_CardinalityType
<1>4. QED BY <1>1, <1>2, <1>3, Numbers

\* The documents have the places 1, 2, ... in the list, one each.
LEMMA PlaceTaken ==
  ASSUME NEW orders \in SUBSET Orders, NEW i \in 1 .. Cardinality(orders)
  PROVE  \E o \in orders : Cardinality({p \in orders : p <= o}) = i
<1> DEFINE upto(o) == {p \in orders : p <= o}
           n == Cardinality(orders)
           rank == [o \in orders |-> Cardinality(upto(o))]
<1>1. IsFiniteSet(orders) /\ n \in Nat /\ orders \subseteq Nat
  BY OrdersFinite
<1>2. \A o \in orders : IsFiniteSet(upto(o)) /\ Cardinality(upto(o)) \in 1 .. n
  <2> SUFFICES ASSUME NEW o \in orders
               PROVE  IsFiniteSet(upto(o)) /\ Cardinality(upto(o)) \in 1 .. n
    OBVIOUS
  <2>1. upto(o) \in SUBSET orders /\ o \in upto(o)
    BY <1>1
  <2> HIDE DEF upto
  <2>2. IsFiniteSet(upto(o)) /\ Cardinality(upto(o)) <= n
    BY <1>1, <2>1, FS_Subset
  <2>3. Cardinality(upto(o)) \in Nat /\ Cardinality(upto(o)) # 0
    BY <2>1, <2>2, FS_CardinalityType, FS_EmptySet
  <2> HIDE DEF n
  <2>4. QED BY <1>1, <2>2, <2>3
<1>3. ASSUME NEW o \in orders, NEW p \in orders, o < p
      PROVE  Cardinality(upto(o)) < Cardinality(upto(p))
  <2>1. upto(o) \in SUBSET upto(p) /\ p \in upto(p) /\ p \notin upto(o)
    <3>1. o \in Nat /\ p \in Nat /\ \A q \in orders : q \in Nat
      BY <1>1
    <3>2. p <= p /\ ~(p <= o) /\ \A q \in orders : q <= o => q <= p
      BY <1>3, <3>1
    <3>3. QED BY <3>2
  <2> HIDE DEF upto
  <2>2. upto(o) # upto(p)
    BY <2>1
  <2>3. Cardinality(upto(o)) <= Cardinality(upto(p))
        /\ Cardinality(upto(o)) # Cardinality(upto(p))
    BY <1>2, <2>1, <2>2, FS_Subset
  <2>4. Cardinality(upto(o)) \in Nat /\ Cardinality(upto(p)) \in Nat
    BY <1>2
  <2>5. QED BY <2>3, <2>4
<1> HIDE DEF upto, n
<1>4. rank \in [orders -> 1 .. n]
  BY <1>2
<1>5. \A o, p \in orders : rank[o] = rank[p] => o = p
  BY <1>1, <1>2, <1>3
<1>6. rank \in Injection(orders, 1 .. n)
  BY <1>4, <1>5 DEF Injection, IsInjective
<1>7. IsFiniteSet(1 .. n) /\ Cardinality(1 .. n) = n
  BY <1>1, UpTo
<1>8. rank \in Surjection(orders, 1 .. n)
  BY <1>6, <1>7, FS_Injection DEF n
<1>9. \E o \in orders : rank[o] = i
  BY <1>8 DEF Surjection, n
<1>10. QED BY <1>9 DEF upto

LEMMA ListTyped ==
  ASSUME NEW v, v.questions \in Documents
  PROVE  ListOf(v) \in Lists
<1> DEFINE orders == DOMAIN v.questions
           at(i) == CHOOSE o \in orders : Cardinality({p \in orders : p <= o}) = i
<1>1. orders \in SUBSET Orders /\ \A o \in orders : v.questions[o] \in Questions
  BY DEF Documents
<1> HIDE DEF orders
<1>2. \A i \in 1 .. Cardinality(orders) : at(i) \in orders
  BY <1>1, PlaceTaken
<1>3. ListOf(v) = [i \in 1 .. Cardinality(orders) |-> v.questions[at(i)]]
  BY DEF ListOf, orders
<1> HIDE DEF at
<1>4. ListOf(v) \in [1 .. Cardinality(orders) -> Questions]
  BY <1>1, <1>2, <1>3
<1>5. QED BY <1>1, <1>4, OrdersFinite DEF Lists

\* Documents that are a list, place by place, are read as that list.
LEMMA ListWhole ==
  ASSUME NEW list \in Lists, NEW v, DOMAIN v.questions = 1 .. Len(list),
         \A o \in 1 .. Len(list) : v.questions[o] = list[o]
  PROVE  ListOf(v) = list
<1> DEFINE n == Len(list)
           orders == DOMAIN v.questions
           at(i) == CHOOSE o \in orders : Cardinality({p \in orders : p <= o}) = i
<1>1. n \in Nat /\ DOMAIN list = 1 .. n /\ orders = 1 .. n
  BY ListFacts
<1>2. list = [i \in 1 .. n |-> list[i]]
  <2>1. PICK m \in 0 .. MaxQuestions : list \in [1 .. m -> Questions]
    BY DEF Lists
  <2>2. QED BY <1>1, <2>1
<1> HIDE DEF n
<1>3. Cardinality(orders) = n
  BY <1>1, UpTo
<1>4. \A o \in orders : Cardinality({p \in orders : p <= o}) = o
  <2> SUFFICES ASSUME NEW o \in 1 .. n PROVE Cardinality({p \in 1 .. n : p <= o}) = o
    BY <1>1
  <2>1. {p \in 1 .. n : p <= o} = 1 .. o
    BY <1>1
  <2>2. o \in Nat
    BY <1>1
  <2>3. Cardinality(1 .. o) = o
    BY <2>2, UpTo
  <2>4. QED BY <2>1, <2>3
<1> HIDE DEF orders
<1>5. \A i \in 1 .. n : at(i) = i
  <2> SUFFICES ASSUME NEW i \in 1 .. n PROVE at(i) = i
    OBVIOUS
  <2>1. i \in orders /\ Cardinality({p \in orders : p <= i}) = i
    BY <1>1, <1>4
  <2>2. at(i) \in orders /\ Cardinality({p \in orders : p <= at(i)}) = i
    BY <2>1
  <2>3. QED BY <2>2, <1>4
<1>6. ListOf(v) = [i \in 1 .. n |-> v.questions[at(i)]]
  BY <1>3 DEF ListOf, orders
<1> HIDE DEF at
<1>7. \A i \in 1 .. n : v.questions[at(i)] = list[i]
  BY <1>5 DEF n
<1>8. QED BY <1>2, <1>6, <1>7

-----------------------------------------------------------------------------
(* What the requests of the editor carry and change *)

LEMMA Requests ==
  /\ \A v \in Visits, f \in Fields :
        <<v, f>> \in Calls /\ <<v, f>> # Act /\ <<v, f>> # Elsewhere
  /\ Act \in Calls /\ Elsewhere \in Calls /\ Act # Elsewhere
  /\ \A k \in Saves : \E v \in Visits, f \in Fields : k = <<v, f>>
  /\ Fields = {"details", "questions"} /\ "details" # "questions"
<1>1. Visits \subseteq Nat \ {0} /\ MaxVisits \in Nat
  BY BudgetsAssumption DEF Visits
<1>2. ASSUME NEW v \in Visits, NEW f \in Fields
      PROVE  <<v, f>> \in Calls /\ <<v, f>> # Act /\ <<v, f>> # Elsewhere
  <2>1. <<v, f>> \in Saves /\ v # 0
    BY <1>1 DEF Saves
  <2>2. QED BY <2>1, CallsAssumption DEF Act, Elsewhere
<1>3. Act # Elsewhere
  BY DEF Act, Elsewhere
<1>4. QED BY <1>2, <1>3, CallsAssumption DEF Saves, Fields

\* Another request stands still; a save that is under way may stop being alone.
Stands(j) ==
    \/ call'[j] = call[j]
    \/ /\ Saving(j) /\ call'[j].step = call[j].step
       /\ call'[j].list = call[j].list /\ call'[j].next = call[j].next

LEMMA StandsStep ==
  ASSUME NEW j, Stands(j)
  PROVE  call'[j].step = call[j].step
  BY DEF Stands

LEMMA AdvanceMoves ==
  ASSUME IInv, NEW k \in Calls, Advance(k) \/ Fail(k)
  PROVE  /\ \A j \in Calls \ {k} : call'[j] = call[j]
         /\ Running(k)
         /\ call[k].step \in SaveSteps =>
               /\ call'[k].step \in SaveSteps \cup {"done", "refused"}
               /\ call'[k].step # "refused" => call'[k].list = call[k].list
         /\ call[k].step \in {"check", "set"} =>
               /\ call'[k].step \in {"set", "done", "refused"}
               /\ call'[k].step # "refused" => call'[k].details = call[k].details
         /\ call[k].step \in {"judge", "commit", "clear"} =>
               call'[k].step \in {"commit", "done", "refused"}
<1>1. Typed /\ CallOK(call[k])
  BY DEF IInv, CallsOK
<1>2. Refused.step = "refused"
  BY DEF Refused
<1>3. CASE Fail(k)
  BY <1>1, <1>2, <1>3, BecomesSet DEF Fail
<1>4. CASE SaveWrite(k) \/ SaveTrim(k) \/ SaveCount(k)
  <2>1. call[k] \in SaveCall /\ call[k].step \in SaveSteps /\ Running(k)
    BY <1>1, <1>4 DEF SaveWrite, SaveTrim, SaveCount, At, CallOK, SaveOK, SaveSteps, Running
  <2>2. \E c : Becomes(k, c) /\ c.list = call[k].list /\ c.step \in SaveSteps \cup {"done"}
    <3>1. \A step : /\ [call[k] EXCEPT !.step = step].list = call[k].list
                    /\ [call[k] EXCEPT !.step = step].step = step
      BY <2>1 DEF SaveCall
    <3>2. /\ [call[k] EXCEPT !.next = @ + 1].list = call[k].list
          /\ [call[k] EXCEPT !.next = @ + 1].step = call[k].step
      BY <2>1 DEF SaveCall
    <3>3. CASE SaveWrite(k)
      BY <3>1, <3>2, <3>3, <2>1 DEF SaveWrite, Goto, SaveSteps
    <3>4. CASE SaveTrim(k) \/ SaveCount(k)
      BY <3>1, <3>4 DEF SaveTrim, SaveCount, Goto, SaveSteps
    <3>5. QED BY <1>4, <3>3, <3>4
  <2>3. PICK c : Becomes(k, c) /\ c.list = call[k].list /\ c.step \in SaveSteps \cup {"done"}
    BY <2>2
  <2>4. call'[k] = c /\ \A j \in Calls \ {k} : call'[j] = call[j]
    BY <1>1, <2>3, BecomesSet
  <2>5. QED BY <2>1, <2>3, <2>4 DEF SaveSteps
<1>5. CASE UpdateCheck(k) \/ UpdateSet(k)
  <2>1. call[k] \in UpdateCall /\ call[k].step \in {"check", "set"} /\ Running(k)
    BY <1>1, <1>5 DEF UpdateCheck, UpdateSet, At, CallOK, Running
  <2>2. \A step : /\ [call[k] EXCEPT !.step = step].details = call[k].details
                  /\ [call[k] EXCEPT !.step = step].step = step
    BY <2>1 DEF UpdateCall
  <2>3. \E c : /\ Becomes(k, c)
               /\ c.step \in {"set", "done", "refused"}
               /\ c.step # "refused" => c.details = call[k].details
    BY <1>2, <1>5, <2>2 DEF UpdateCheck, UpdateSet, Goto
  <2>4. PICK c : /\ Becomes(k, c)
                 /\ c.step \in {"set", "done", "refused"}
                 /\ c.step # "refused" => c.details = call[k].details
    BY <2>3
  <2>5. call'[k] = c /\ \A j \in Calls \ {k} : call'[j] = call[j]
    BY <1>1, <2>4, BecomesSet
  <2>6. QED BY <2>1, <2>4, <2>5 DEF SaveSteps
<1>6. CASE PublishJudge(k) \/ PublishCommit(k) \/ DeleteQuestions(k)
  <2>1. call[k].step \in {"judge", "commit", "clear"} /\ Running(k)
    BY <1>6 DEF PublishJudge, PublishCommit, DeleteQuestions, At, Running
  <2>2. \E c : Becomes(k, c) /\ c.step \in {"commit", "done", "refused"}
    <3>1. CASE PublishJudge(k)
      BY <1>2, <3>1 DEF PublishJudge
    <3>2. CASE PublishCommit(k)
      <4>1. call[k] \in CommitCall
        BY <1>1, <3>2 DEF PublishCommit, At, CallOK
      <4>2. [call[k] EXCEPT !.step = "done"].step = "done"
        BY <4>1 DEF CommitCall
      <4>3. QED BY <1>2, <3>2, <4>2 DEF PublishCommit, Goto
    <3>3. CASE DeleteQuestions(k)
      <4>1. call[k] \in ClearCall
        BY <1>1, <3>3 DEF DeleteQuestions, At, CallOK
      <4>2. [call[k] EXCEPT !.step = "done"].step = "done"
        BY <4>1 DEF ClearCall
      <4>3. QED BY <3>3, <4>2 DEF DeleteQuestions, Goto
    <3>4. QED BY <1>6, <3>1, <3>2, <3>3
  <2>3. PICK c : Becomes(k, c) /\ c.step \in {"commit", "done", "refused"}
    BY <2>2
  <2>4. call'[k] = c /\ \A j \in Calls \ {k} : call'[j] = call[j]
    BY <1>1, <2>3, BecomesSet
  <2>5. QED BY <2>1, <2>3, <2>4 DEF SaveSteps
<1>7. QED BY <1>3, <1>4, <1>5, <1>6 DEF Advance

\* Only these steps write what the editor shows; and no step revives a contest.
LEMMA AdvanceWrites ==
  ASSUME IInv, NEW k \in Calls, Advance(k) \/ Fail(k)
  PROVE  /\ contest.status = "deleted" => contest'.status = "deleted"
         /\ contest'.details # contest.details => call[k].step = "set"
         /\ slot' # slot => call[k].step \in {"write", "trim", "clear"}
<1>1. contest \in [status : Statuses, details : Details, count : 0 .. MaxQuestions]
  BY DEF IInv, Typed, TypeOK
<1>2. CASE Fail(k) \/ SaveWrite(k) \/ SaveTrim(k) \/ UpdateCheck(k) \/ PublishJudge(k)
           \/ DeleteQuestions(k)
  BY <1>2 DEF Fail, SaveWrite, SaveTrim, UpdateCheck, PublishJudge, DeleteQuestions, At
<1>3. CASE SaveCount(k)
  BY <1>1, <1>3 DEF SaveCount
<1>4. CASE UpdateSet(k)
  BY <1>1, <1>4 DEF UpdateSet, At
<1>5. CASE PublishCommit(k)
  BY <1>1, <1>5 DEF PublishCommit
<1>6. QED BY <1>2, <1>3, <1>4, <1>5 DEF Advance

\* The one save of the questions writes its list slot by slot, then trims.
LEMMA SaveWrites ==
  ASSUME IInv, NEW k \in Calls, Advance(k) \/ Fail(k),
         call[k].step \in SaveSteps, Written(call[k])
  PROVE  Written(call[k])'
<1>1. /\ Typed /\ call[k] \in SaveCall /\ call[k].next \in Nat \ {0}
      /\ slot \in [Orders -> Questions \cup {None}] /\ call[k].list \in Lists
      /\ Len(call[k].list) \in Nat /\ call[k].next <= Len(call[k].list) + 1
      /\ call[k].step \in {"trim", "count"} => call[k].next = Len(call[k].list) + 1
  <2>1. SaveOK(call[k]) /\ Typed
    BY DEF IInv, CallsOK, CallOK
  <2>2. QED BY <2>1, ListFacts DEF SaveOK, SaveCall, Typed, TypeOK
<1>2. \A o \in Orders : o < call[k].next => slot[o] = call[k].list[o]
  BY DEF Written
<1>3. \A step : /\ [call[k] EXCEPT !.step = step].list = call[k].list
                /\ [call[k] EXCEPT !.step = step].next = call[k].next
                /\ [call[k] EXCEPT !.step = step].step = step
  BY <1>1 DEF SaveCall
<1>4. CASE Fail(k)
  <2>1. call'[k] = Refused
    BY <1>1, <1>4, BecomesSet DEF Fail
  <2>2. Refused.step = "refused"
    BY DEF Refused
  <2>3. QED BY <2>1, <2>2 DEF Written, SaveSteps
<1>5. CASE SaveWrite(k)
  <2>1. CASE call[k].next > Len(call[k].list)
    <3>1. call'[k] = [call[k] EXCEPT !.step = "trim"] /\ slot' = slot
      BY <1>1, <1>5, <2>1, GotoSet DEF SaveWrite
    <3>2. QED BY <3>1, <1>2, <1>3 DEF Written, SaveSteps
  <2>2. CASE call[k].next <= Len(call[k].list)
    <3>1. SUFFICES ASSUME NEW c, NEW n, c = [call[k] EXCEPT !.next = @ + 1], n = call[k].next
                   PROVE  Written(call[k])'
      OBVIOUS
    <3>2. c.list = call[k].list /\ c.next = n + 1 /\ c.step = call[k].step
      BY <1>1, <3>1 DEF SaveCall
    <3>3. Becomes(k, c) /\ slot' = [slot EXCEPT ![n] = call[k].list[n]]
          /\ call[k].step = "write"
      BY <1>1, <1>5, <2>2, <3>1 DEF SaveWrite, At
    <3>4. call'[k] = c
      BY <1>1, <3>3, BecomesSet
    <3>5. n \in Orders
      BY <1>1, <2>2, <3>1, ListFacts
    <3>6. slot'[n] = call[k].list[n] /\ \A o \in Orders \ {n} : slot'[o] = slot[o]
      BY <1>1, <3>3, <3>5
    <3>7. ASSUME NEW o \in Orders, o < c.next PROVE slot'[o] = c.list[o]
      <4>1. o = n \/ o < n
        BY <1>1, <3>1, <3>2, <3>7, Numbers
      <4>2. QED BY <4>1, <3>1, <3>2, <3>6, <1>2
    <3>8. QED BY <3>2, <3>3, <3>4, <3>7 DEF Written
  <2>3. QED BY <1>1, <2>1, <2>2
<1>6. CASE SaveTrim(k)
  <2>1. call'[k] = [call[k] EXCEPT !.step = "count"] /\ call[k].step = "trim"
        /\ slot' = [o \in Orders |-> IF o > Len(call[k].list) THEN None ELSE slot[o]]
    BY <1>1, <1>6, GotoSet DEF SaveTrim, At
  <2>2. \A o \in Orders : slot'[o] = IF o <= Len(call[k].list) THEN call[k].list[o] ELSE None
    <3> SUFFICES ASSUME NEW o \in Orders
                 PROVE  slot'[o] = IF o <= Len(call[k].list) THEN call[k].list[o] ELSE None
      OBVIOUS
    <3>1. o \in Nat /\ call[k].next = Len(call[k].list) + 1
      BY <1>1, <2>1, Numbers
    <3>2. CASE o > Len(call[k].list)
      BY <3>1, <3>2, <2>1, <1>1
    <3>3. CASE o <= Len(call[k].list)
      <4>1. slot'[o] = slot[o]
        BY <3>1, <3>3, <2>1, <1>1
      <4>2. slot[o] = call[k].list[o]
        BY <3>1, <3>3, <1>1, <1>2
      <4>3. QED BY <3>3, <4>1, <4>2
    <3>4. QED BY <1>1, <3>1, <3>2, <3>3
  <2>3. call[k].next = Len(call[k].list) + 1
    BY <1>1, <2>1
  <2>4. \A o \in Orders : o < call[k].next => o <= Len(call[k].list)
    <3>1. Len(call[k].list) \in Nat /\ call[k].next \in Nat
      BY <1>1
    <3>2. \A o \in Nat : o < call[k].next => o <= Len(call[k].list)
      BY <2>3, <3>1
    <3>3. QED BY <3>2, Numbers
  <2>5. \A o \in Orders : o < call[k].next => slot'[o] = call[k].list[o]
    BY <2>2, <2>4
  <2>6. call'[k].list = call[k].list /\ call'[k].next = call[k].next /\ call'[k].step = "count"
    BY <2>1, <1>3
  <2>7. QED BY <2>2, <2>5, <2>6 DEF Written
<1>7. CASE SaveCount(k)
  <2>1. call'[k] = [call[k] EXCEPT !.step = "done"] /\ call[k].step = "count" /\ slot' = slot
    BY <1>1, <1>7, GotoSet DEF SaveCount, At
  <2>2. QED BY <2>1, <1>3 DEF Written, SaveSteps
<1>8. CASE UpdateCheck(k) \/ UpdateSet(k) \/ PublishJudge(k) \/ PublishCommit(k)
           \/ DeleteQuestions(k)
  BY <1>8 DEF UpdateCheck, UpdateSet, PublishJudge, PublishCommit, DeleteQuestions, At, SaveSteps
<1>9. QED BY <1>4, <1>5, <1>6, <1>7, <1>8 DEF Advance

-----------------------------------------------------------------------------
(* What the server has of a field *)

StoredView == [questions |-> [i \in DOMAIN Stored |-> Stored[i]]]

LEMMA ServerHas ==
  Kept("details") = contest.details /\ Kept("questions") = ListOf(StoredView)
<1>1. Fresh.details = contest.details
      /\ Fresh.questions = [i \in DOMAIN Stored |-> Stored[i]]
  BY DEF Fresh
<1>2. StoredView.questions = [i \in DOMAIN Stored |-> Stored[i]]
  BY DEF StoredView
<1>3. \A v, w : v.questions = w.questions => ListOf(v) = ListOf(w)
  BY DEF ListOf
<1>4. ListOf(Fresh) = ListOf(StoredView)
  BY <1>1, <1>2, <1>3
<1>5. QED BY <1>4 DEF Kept

\* What the page says is on the server, in the terms of this module.
LEMMA ServerSuits ==
  ASSUME NEW f, NEW value
  PROVE  OnServer(f, value) <=> Suits(f, Kept(f), value)
  BY DEF OnServer, Suits, Kept

LEMMA ServerStays ==
  /\ contest'.details = contest.details => Kept("details")' = Kept("details")
  /\ slot' = slot => Kept("questions")' = Kept("questions")
<1>1. (Kept("details") = contest.details /\ Kept("questions") = ListOf(StoredView))'
  BY ServerHas, PTL
<1>2. slot' = slot => StoredView' = StoredView
  BY DEF StoredView, Stored
<1>3. slot' = slot => ListOf(StoredView)' = ListOf(StoredView)
  BY <1>2
<1>4. QED BY <1>1, <1>3, ServerHas

LEMMA ViewTyped ==
  ASSUME IInv
  PROVE  /\ Fresh \in Views
         /\ Kept("details") \in Details /\ Kept("questions") \in Lists
         /\ \A v \in Views : /\ FormOf(v)["details"] = CardOf(v.details)
                             /\ FormOf(v)["details"] \in Cards /\ FormOf(v)["questions"] \in Lists
         /\ \A v : FormOf(v) = [f \in Fields |-> FormOf(v)[f]]
<1>1. TypeOK
  BY DEF IInv, Typed
<1>2. [i \in DOMAIN Stored |-> Stored[i]] \in Documents
  <2>1. DOMAIN Stored \in SUBSET Orders /\ \A i \in DOMAIN Stored : Stored[i] \in Questions
    BY <1>1, StoredFacts DEF TypeOK
  <2> DEFINE orders == DOMAIN Stored
  <2>2. [i \in orders |-> Stored[i]] \in [orders -> Questions]
    BY <2>1
  <2>3. QED BY <2>1, <2>2 DEF Documents
<1>3. Fresh \in Views
  <2>1. ChecksPass(contest.details, Stored, clock) \in BOOLEAN
    BY DEF ChecksPass
  <2>2. contest.status \in Statuses /\ contest.details \in Details
    BY <1>1 DEF TypeOK
  <2>3. QED BY <2>1, <2>2, <1>2 DEF Fresh, Views
<1>4. ASSUME NEW v \in Views
      PROVE  /\ FormOf(v)["details"] = CardOf(v.details)
             /\ FormOf(v)["details"] \in Cards /\ FormOf(v)["questions"] \in Lists
  <2>1. v.details \in Details /\ v.questions \in Documents
    BY DEF Views
  <2>2. ListOf(v) \in Lists
    BY <2>1, ListTyped
  <2>3. QED BY <2>1, <2>2, CardHolds DEF FormOf
<1>5. \A v : FormOf(v) = [f \in Fields |-> FormOf(v)[f]]
  <2> SUFFICES ASSUME NEW v PROVE FormOf(v) = [f \in Fields |-> FormOf(v)[f]]
    OBVIOUS
  <2>1. DOMAIN FormOf(v) = Fields
    BY DEF FormOf, Fields
  <2>2. FormOf(v) = [f \in DOMAIN FormOf(v) |-> FormOf(v)[f]]
    BY DEF FormOf
  <2>3. QED BY <2>1, <2>2
<1>6. Kept("details") \in Details /\ Kept("questions") \in Lists
  <2>1. contest.details \in Details
    BY <1>1 DEF TypeOK
  <2>2. Fresh.questions \in Documents
    BY <1>3 DEF Views
  <2>3. QED BY <2>1, <2>2, ListTyped DEF Kept
<1>7. QED BY <1>3, <1>4, <1>5, <1>6

\* A save that is done has put its list on the server.
LEMMA DoneSaved ==
  ASSUME NEW c, c.step = "done", Written(c), c.list \in Lists
  PROVE  Kept("questions") = c.list
<1>1. /\ Len(c.list) \in 0 .. MaxQuestions /\ DOMAIN c.list = 1 .. Len(c.list)
      /\ \A i \in 1 .. Len(c.list) : c.list[i] \in Questions /\ i \in Orders
  BY ListFacts
<1>2. \A o \in Orders : slot[o] = IF o <= Len(c.list) THEN c.list[o] ELSE None
  BY DEF Written
<1>3. {o \in Orders : slot[o] # None} = 1 .. Len(c.list)
  <2>1. ASSUME NEW o \in Orders, slot[o] # None PROVE o \in 1 .. Len(c.list)
    <3>1. o \in Nat \ {0} /\ o <= Len(c.list)
      BY <1>2, <2>1, NumbersAssumption DEF Orders
    <3>2. QED BY <3>1, <1>1
  <2>2. ASSUME NEW o \in 1 .. Len(c.list) PROVE o \in Orders /\ slot[o] # None
    <3>1. o \in Orders /\ o <= Len(c.list) /\ c.list[o] \in Questions
      BY <1>1
    <3>2. slot[o] = c.list[o]
      BY <1>2, <3>1
    <3>3. QED BY <3>1, <3>2, ValuesAssumption
  <2>3. QED BY <2>1, <2>2
<1>4. DOMAIN Stored = 1 .. Len(c.list)
      /\ \A o \in 1 .. Len(c.list) : Stored[o] = c.list[o]
  <2>1. DOMAIN Stored = 1 .. Len(c.list)
    BY <1>3, StoredFacts
  <2>2. ASSUME NEW o \in 1 .. Len(c.list) PROVE Stored[o] = c.list[o]
    <3>1. o \in Orders /\ o <= Len(c.list)
      BY <1>1
    <3>2. Stored[o] = slot[o]
      BY <2>1, StoredFacts
    <3>3. QED BY <1>2, <3>1, <3>2
  <2>3. QED BY <2>1, <2>2
<1>5. StoredView.questions = [i \in DOMAIN Stored |-> Stored[i]]
  BY DEF StoredView
<1>6. DOMAIN StoredView.questions = 1 .. Len(c.list)
      /\ \A o \in 1 .. Len(c.list) : StoredView.questions[o] = c.list[o]
  BY <1>4, <1>5
<1>7. QED BY <1>6, ListWhole, ServerHas

LEMMA DoneSet ==
  ASSUME IInv, NEW k \in Calls, Advance(k) \/ Fail(k),
         call[k].step \in {"check", "set"}, WrittenDetails(call[k])
  PROVE  WrittenDetails(call[k])'
<1>1. /\ Typed /\ call[k] \in UpdateCall
      /\ contest \in [status : Statuses, details : Details, count : 0 .. MaxQuestions]
  BY DEF IInv, CallsOK, CallOK, Typed, TypeOK
<1>2. CASE UpdateSet(k)
  <2>1. CASE contest.status = call[k].was
    <3>1. contest' = [contest EXCEPT !.details = call[k].details]
          /\ call'[k] = [call[k] EXCEPT !.step = "done"]
      BY <1>1, <1>2, <2>1, GotoSet DEF UpdateSet
    <3>2. contest'.details = call[k].details /\ call'[k].details = call[k].details
      BY <1>1, <3>1 DEF UpdateCall
    <3>3. QED BY <3>2 DEF WrittenDetails
  <2>2. CASE contest.status # call[k].was
    <3>1. call'[k] = Refused /\ Refused.step = "refused"
      BY <1>1, <1>2, <2>2, BecomesSet DEF UpdateSet, Refused
    <3>2. QED BY <3>1 DEF WrittenDetails
  <2>3. QED BY <2>1, <2>2
<1>3. CASE UpdateCheck(k) \/ Fail(k)
  <2>1. call'[k].step \in {"set", "refused"}
    <3>1. [call[k] EXCEPT !.step = "set"].step = "set" /\ Refused.step = "refused"
      BY <1>1 DEF UpdateCall, Refused
    <3>2. CASE UpdateCheck(k)
      BY <1>1, <3>1, <3>2, BecomesSet, GotoSet DEF UpdateCheck
    <3>3. CASE Fail(k)
      BY <1>1, <3>1, <3>3, BecomesSet DEF Fail
    <3>4. QED BY <1>3, <3>2, <3>3
  <2>2. QED BY <2>1 DEF WrittenDetails
<1>4. CASE SaveWrite(k) \/ SaveTrim(k) \/ SaveCount(k) \/ PublishJudge(k) \/ PublishCommit(k)
           \/ DeleteQuestions(k)
  BY <1>4 DEF SaveWrite, SaveTrim, SaveCount, PublishJudge, PublishCommit, DeleteQuestions, At
<1>5. QED BY <1>2, <1>3, <1>4 DEF Advance

-----------------------------------------------------------------------------
(* Requests that begin, and answers *)

LEMMA Begins ==
  ASSUME IInv, NEW k \in Calls, At(k, "idle"),
         \/ \E list \in Lists : SaveBegin(k, list)
         \/ \E body \in Inputs : UpdateBegin(k, body)
         \/ PublishBegin(k) \/ DeleteBegin(k)
  PROVE  /\ \A j \in Calls \ {k} : Stands(j)
         /\ contest'.details = contest.details /\ slot' = slot
         /\ contest.status = "deleted" => contest'.status = "deleted"
         /\ \A list \in Lists : SaveBegin(k, list) =>
               \/ call'[k].step = "refused"
               \/ call'[k].step = "write" /\ call'[k].list = list /\ call'[k].next = 1
         /\ \A body : UpdateBegin(k, body) =>
               \/ call'[k].step = "refused"
               \/ /\ call'[k].step \in {"check", "set"}
                  /\ call'[k].details = Merged(contest.details, body)
         /\ PublishBegin(k) \/ DeleteBegin(k) => call'[k].step \in {"judge", "clear", "refused"}
<1>1. /\ Typed /\ Refused.step = "refused"
      /\ contest \in [status : Statuses, details : Details, count : 0 .. MaxQuestions]
  BY DEF IInv, Typed, TypeOK, Refused
<1>2. ASSUME NEW list \in Lists, SaveBegin(k, list)
      PROVE  /\ \A j \in Calls \ {k} : Stands(j)
             /\ UNCHANGED <<contest, slot>>
             /\ \/ call'[k].step = "refused"
                \/ call'[k].step = "write" /\ call'[k].list = list /\ call'[k].next = 1
  <2>1. UNCHANGED <<contest, slot>>
    BY <1>2 DEF SaveBegin
  <2>2. CASE Becomes(k, Refused)
    <3>1. call'[k] = Refused /\ \A j \in Calls \ {k} : call'[j] = call[j]
      BY <1>1, <2>2, BecomesSet
    <3>2. QED BY <1>1, <2>1, <3>1 DEF Stands
  <2>3. CASE call' = [j \in Calls |->
                  IF j = k
                  THEN [step |-> "write", list |-> list, next |-> 1, was |-> contest.status,
                        now |-> clock, alone |-> \A i \in Calls \ {k} : ~Saving(i)]
                  ELSE IF Saving(j) THEN [call[j] EXCEPT !.alone = FALSE] ELSE call[j]]
    <3>1. ASSUME NEW j \in Calls \ {k} PROVE Stands(j)
      <4>1. call'[j] = IF Saving(j) THEN [call[j] EXCEPT !.alone = FALSE] ELSE call[j]
        BY <2>3
      <4>2. CASE Saving(j)
        <5>1. call[j] \in SaveCall
          BY <4>2 DEF IInv, CallsOK, CallOK, SaveOK, Saving, SaveSteps
        <5>2. call'[j] = [call[j] EXCEPT !.alone = FALSE]
          BY <4>1, <4>2
        <5>3. call'[j].step = call[j].step /\ call'[j].list = call[j].list
              /\ call'[j].next = call[j].next
          BY <5>1, <5>2 DEF SaveCall
        <5>4. QED BY <4>2, <5>3 DEF Stands
      <4>3. CASE ~Saving(j)
        BY <4>1, <4>3 DEF Stands
      <4>4. QED BY <4>2, <4>3
    <3>2. call'[k] = [step |-> "write", list |-> list, next |-> 1, was |-> contest.status,
                      now |-> clock, alone |-> \A i \in Calls \ {k} : ~Saving(i)]
      BY <2>3
    <3>3. call'[k].step = "write" /\ call'[k].list = list /\ call'[k].next = 1
      BY <3>2
    <3>4. QED BY <2>1, <3>1, <3>3
  <2>4. QED BY <1>2, <2>2, <2>3 DEF SaveBegin
<1>3. ASSUME NEW body, UpdateBegin(k, body), NEW next, next = Merged(contest.details, body)
      PROVE  /\ \A j \in Calls \ {k} : Stands(j)
             /\ UNCHANGED <<contest, slot>>
             /\ \/ call'[k].step = "refused"
                \/ call'[k].step \in {"check", "set"} /\ call'[k].details = next
  <2>1. \E c : /\ Becomes(k, c)
               /\ \/ c.step = "refused"
                  \/ c.step \in {"check", "set"} /\ c.details = next
    BY <1>1, <1>3 DEF UpdateBegin
  <2>2. PICK c : /\ Becomes(k, c)
                 /\ \/ c.step = "refused"
                    \/ c.step \in {"check", "set"} /\ c.details = next
    BY <2>1
  <2>3. call'[k] = c /\ \A j \in Calls \ {k} : call'[j] = call[j]
    BY <1>1, <2>2, BecomesSet
  <2>4. UNCHANGED <<contest, slot>>
    BY <1>3 DEF UpdateBegin
  <2>5. QED BY <2>2, <2>3, <2>4 DEF Stands
<1>4. ASSUME PublishBegin(k) \/ DeleteBegin(k)
      PROVE  /\ \A j \in Calls \ {k} : Stands(j)
             /\ contest'.details = contest.details /\ slot' = slot
             /\ contest.status = "deleted" => contest'.status = "deleted"
             /\ call'[k].step \in {"judge", "clear", "refused"}
  <2>1. \E c : Becomes(k, c) /\ c.step \in {"judge", "clear", "refused"}
    <3>1. CASE PublishBegin(k)
      BY <1>1, <3>1 DEF PublishBegin
    <3>2. CASE DeleteBegin(k)
      BY <1>1, <3>2 DEF DeleteBegin
    <3>3. QED BY <1>4, <3>1, <3>2
  <2>2. PICK c : Becomes(k, c) /\ c.step \in {"judge", "clear", "refused"}
    BY <2>1
  <2>3. call'[k] = c /\ \A j \in Calls \ {k} : call'[j] = call[j]
    BY <1>1, <2>2, BecomesSet
  <2>4. contest'.details = contest.details /\ slot' = slot
        /\ (contest.status = "deleted" => contest'.status = "deleted")
    BY <1>1, <1>4 DEF PublishBegin, DeleteBegin
  <2>5. QED BY <2>2, <2>3, <2>4 DEF Stands
<1>5. \A list \in Lists : SaveBegin(k, list) =>
         \/ call'[k].step = "refused"
         \/ call'[k].step = "write" /\ call'[k].list = list /\ call'[k].next = 1
  BY <1>2
<1>6. \A body : UpdateBegin(k, body) =>
         \/ call'[k].step = "refused"
         \/ /\ call'[k].step \in {"check", "set"}
            /\ call'[k].details = Merged(contest.details, body)
  BY <1>3
<1>7. /\ \A j \in Calls \ {k} : Stands(j)
      /\ contest'.details = contest.details /\ slot' = slot
      /\ contest.status = "deleted" => contest'.status = "deleted"
  BY <1>2, <1>3, <1>4
<1>8. QED BY <1>4, <1>5, <1>6, <1>7

LEMMA Answers ==
  ASSUME IInv, NEW k \in Calls, Answered(k)
  PROVE  /\ call'[k].step = "idle" /\ \A j \in Calls \ {k} : call'[j] = call[j]
         /\ UNCHANGED <<clock, contest, slot>>
<1>1. Typed /\ Becomes(k, Idle) /\ Idle.step = "idle"
  BY DEF Answered, IInv, Idle
<1>2. QED BY <1>1, BecomesSet DEF Answered

-----------------------------------------------------------------------------
(* The editor makes no step that the server does not know *)

LEMMA QueueFacts ==
  ASSUME NEW S, NEW s \in Seq(S)
  PROVE  /\ Len(s) \in Nat /\ (s = <<>> <=> Len(s) = 0)
         /\ s # <<>> => /\ Head(s) \in S /\ Tail(s) \in Seq(S) /\ Head(s) = s[1]
                        /\ Len(Tail(s)) = Len(s) - 1
                        /\ Tail(s) = <<>> => Head(s) = s[Len(s)]
                        /\ Tail(s) # <<>> => Tail(s)[Len(Tail(s))] = s[Len(s)]
         /\ \A x \in S : /\ Append(s, x) \in Seq(S) /\ Append(s, x) # <<>>
                         /\ Append(s, x)[Len(Append(s, x))] = x
                         /\ s # <<>> => Head(Append(s, x)) = Head(s)
<1>1. Len(s) \in Nat /\ (s = <<>> <=> Len(s) = 0)
  BY EmptySeq, LenProperties
<1>2. ASSUME s # <<>>
      PROVE  /\ Head(s) \in S /\ Tail(s) \in Seq(S) /\ Head(s) = s[1]
             /\ Len(Tail(s)) = Len(s) - 1
             /\ Tail(s) = <<>> => Head(s) = s[Len(s)]
             /\ Tail(s) # <<>> => Tail(s)[Len(Tail(s))] = s[Len(s)]
  <2>1. /\ Head(s) \in S /\ Tail(s) \in Seq(S) /\ Len(Tail(s)) = Len(s) - 1
        /\ \A i \in 1 .. Len(Tail(s)) : Tail(s)[i] = s[i + 1]
    BY <1>2, HeadTailProperties
  <2>2. Head(s) = s[1]
    BY <1>2
  <2>3. Tail(s) = <<>> => Len(s) = 1
    <3>1. Len(<<>>) = 0
      BY EmptySeq
    <3>2. Tail(s) = <<>> => Len(Tail(s)) = 0
      BY <3>1, Zenon
    <3>3. QED BY <2>1, <3>2, <1>1
  <2>4. Tail(s) # <<>> => Len(Tail(s)) \in 1 .. Len(Tail(s)) /\ Len(Tail(s)) + 1 = Len(s)
    <3>1. Tail(s) # <<>> => Len(Tail(s)) \in Nat \ {0}
      BY <2>1, EmptySeq
    <3>2. QED BY <3>1, <2>1, <1>1
  <2>5. Tail(s) # <<>> => Tail(s)[Len(Tail(s))] = s[Len(s)]
    BY <2>1, <2>4
  <2>6. QED BY <2>1, <2>2, <2>3, <2>5
<1>3. ASSUME NEW x \in S
      PROVE  /\ Append(s, x) \in Seq(S) /\ Append(s, x) # <<>>
             /\ Append(s, x)[Len(Append(s, x))] = x
             /\ s # <<>> => Head(Append(s, x)) = Head(s)
  BY AppendProperties, HeadTailAppend
<1>4. QED BY <1>1, <1>2, <1>3

LEMMA QueuesTyped ==
  ASSUME EditorTyped, NEW v \in Visits, NEW f \in Fields
  PROVE  /\ chain[v][f] \in Seq(Value(f)) /\ form[f] \in Held(f) /\ hook[f] \in Hook(f)
         /\ chain[v][f] # <<>> => Head(chain[v][f]) \in Value(f)
  BY QueueFacts DEF EditorTyped

LEMMA ServerStep == IInv /\ EditorTyped /\ EditorNext => [Next]_hosting
<1> SUFFICES ASSUME IInv, EditorTyped, EditorNext PROVE [Next]_hosting
  OBVIOUS
<1>1. ASSUME NEW v \in Visits, NEW f \in Fields, Arrive(v, f) PROVE Next
  <2>1. <<v, f>> \in Calls /\ chain[v][f] # <<>> /\ At(<<v, f>>, "idle")
    BY <1>1, Requests DEF Arrive
  <2>2. Head(chain[v][f]) \in Value(f)
    BY <2>1, QueuesTyped
  <2>3. Request(<<v, f>>, Inputs)
    <3>1. CASE f = "details"
      BY <3>1, <1>1, <2>1, <2>2 DEF Arrive, Request, Value
    <3>2. CASE f # "details"
      BY <3>2, <1>1, <2>1, <2>2 DEF Arrive, Request, Value
    <3>3. QED BY <3>1, <3>2
  <2>4. QED BY <2>1, <2>3 DEF Next
<1>2. ASSUME NEW v \in Visits, NEW f \in Fields, NEW heard \in BOOLEAN, Settle(v, f, heard)
      PROVE  Next
  BY <1>2, Requests DEF Settle, Next
<1>3. ASSUME ActArrives PROVE Next
  BY <1>3, Requests DEF ActArrives, Request, Next
<1>4. ASSUME ActSettles \/ Other PROVE Next
  <2>1. CASE ActSettles \/ Answered(Elsewhere)
    BY <2>1, Requests DEF ActSettles, Next
  <2>2. CASE Request(Elsewhere, Bodies)
    <3>1. Request(Elsewhere, Inputs)
      BY <2>2, BudgetsAssumption DEF Request
    <3>2. QED BY <3>1, Requests DEF Next
  <2>3. QED BY <1>4, <2>1, <2>2 DEF Other
<1>5. ASSUME NEW k \in Calls, Advance(k) \/ Dies(k) PROVE Next
  BY <1>5 DEF Dies, Next
<1>6. ASSUME NEW f \in Fields, Disabled(f) \/ Fire(f) PROVE UNCHANGED hosting
  BY <1>6 DEF Disabled, Fire
<1>7. ASSUME EditDetails \/ EditQuestions PROVE UNCHANGED hosting
  BY <1>7 DEF EditDetails, EditQuestions, Edit
<1>8. ASSUME Open \/ Refetch \/ Leave \/ Reload \/ PublishClick \/ DeleteClick
      PROVE  UNCHANGED hosting
  BY <1>8 DEF Open, Refetch, Leave, Reload, PublishClick, DeleteClick
<1>9. ASSUME Tick PROVE Next
  BY <1>9 DEF Next
<1>10. QED BY <1>1, <1>2, <1>3, <1>4, <1>5, <1>6, <1>7, <1>8, <1>9 DEF EditorNext

-----------------------------------------------------------------------------
(* Types of the editor's state *)

LEMMA NewHookTyped ==
  ASSUME NEW held, \A f \in Fields : held[f] \in Held(f)
  PROVE  /\ NewHook(held) = [f \in Fields |-> NewHook(held)[f]]
         /\ \A f \in Fields : /\ NewHook(held)[f] \in Hook(f)
                              /\ NewHook(held)[f].lastSaved = InputOf(f, held[f])
                              /\ NewHook(held)[f].shown = "saved" /\ ~NewHook(held)[f].timer
<1>1. \A f \in Fields : InputOf(f, held[f]) \in Value(f)
  BY InputTyped
<1>2. QED BY <1>1 DEF NewHook, Hook

\* What a card that starts from what the server has would send is all there.
LEMMA FreshSuits ==
  ASSUME IInv, NEW f \in Fields
  PROVE  Suits(f, Kept(f), InputOf(f, FormOf(Fresh)[f]))
<1>1. Fresh.details = contest.details /\ contest.details \in Details
  BY DEF Fresh, IInv, Typed, TypeOK
<1>2. CASE f = "details"
  BY <1>1, <1>2, CardHolds DEF Suits, Kept, InputOf, FormOf
<1>3. CASE f # "details"
  BY <1>3 DEF Suits, Kept, InputOf, FormOf, Fields
<1>4. QED BY <1>2, <1>3

LEMMA InitTypedEditor == EditorInit => EditorTyped /\ Roles /\ ChainsOK /\ CardsOK /\ OneWriter
<1> SUFFICES ASSUME EditorInit PROVE EditorTyped /\ Roles /\ ChainsOK /\ CardsOK /\ OneWriter
  OBVIOUS
<1>1. MaxVisits \in Nat /\ Visits \subseteq Nat \ {0}
  BY BudgetsAssumption DEF Visits
<1>2. page = [open |-> 0, last |-> 0] /\ ~Mounted
  BY DEF EditorInit, Mounted
<1>3. \A k \in Calls : call[k].step = "idle"
  BY DEF EditorInit, Init, Idle
<1>4. form = [f \in Fields |-> form[f]] /\ \A f \in Fields : form[f] \in Held(f)
  <2>1. form = FormOf(Fresh) /\ IInv
    BY InitOK DEF EditorInit
  <2>2. form["details"] \in Cards /\ form["questions"] \in Lists
    BY <2>1, ViewTyped
  <2>3. form = [f \in Fields |-> form[f]]
    BY <2>1, ViewTyped
  <2>4. QED BY <2>2, <2>3 DEF Held, Fields
<1>5. hook = [f \in Fields |-> hook[f]] /\ \A f \in Fields : hook[f] \in Hook(f)
  BY <1>4, NewHookTyped DEF EditorInit
<1>6. \A v \in Visits, f \in Fields : chain[v][f] = <<>> /\ <<>> \in Seq(Value(f))
  BY DEF EditorInit
<1>7. page \in [open : 0 .. MaxVisits, last : 0 .. MaxVisits]
  BY <1>1, <1>2
<1>8. left \in Left
  BY BudgetsAssumption DEF EditorInit, Left
<1>9. chain = [v \in Visits |-> [f \in Fields |-> chain[v][f]]]
      /\ clean \in [Fields -> BOOLEAN] /\ dropped \in [Fields -> BOOLEAN] /\ view = NoView
  <2>1. chain = [v \in Visits |-> [f \in Fields |-> chain[v][f]]]
    BY DEF EditorInit
  <2>2. QED BY <2>1 DEF EditorInit
<1>10. EditorTyped
  <2>1. \A v \in Visits, f \in Fields : chain[v][f] \in Seq(Value(f))
    BY <1>6, Zenon
  <2>2. QED BY <1>2, <1>4, <1>5, <1>7, <1>8, <1>9, <2>1, Zenon DEF EditorTyped
<1>11. Roles
  BY <1>3, Requests DEF Roles, At
<1>12. ChainsOK
  <2>1. \A v \in Visits, f \in Fields : call[<<v, f>>].step = "idle"
    BY <1>3, Requests
  <2>2. "idle" \notin SaveSteps \cup {"check", "set"} \cup {"done"}
    BY DEF SaveSteps
  <2>3. QED BY <1>6, <2>1, <2>2 DEF ChainsOK, At, StepsOf
<1>13. CardsOK /\ OneWriter
  BY <1>2 DEF CardsOK, OneWriter
<1>14. QED BY <1>10, <1>11, <1>12, <1>13

-----------------------------------------------------------------------------
(* What a step leaves of the invariant of the editor *)

EditorParts == EditorTyped /\ Roles /\ ChainsOK /\ CardsOK /\ OneWriter
EInv == IInv /\ EditorParts

LEMMA OpenVisit ==
  ASSUME EditorTyped, Mounted
  PROVE  page.open \in Visits /\ page.open = page.last
  BY DEF EditorTyped, Mounted, Visits

\* Steps of the page alone leave the server's part as it is.
LEMMA PageOnly ==
  ASSUME EditorParts, UNCHANGED hosting
  PROVE  /\ Roles'
         /\ \A f \in Fields : Kept(f)' = Kept(f)
         /\ UNCHANGED <<contest, slot, call>>
         /\ \A c : (Written(c) => Written(c)') /\ (WrittenDetails(c) => WrittenDetails(c)')
<1>1. UNCHANGED <<clock, contest, slot, call>>
  BY DEF hosting
<1>2. Roles'
  BY <1>1 DEF EditorParts, Roles, At
<1>3. \A f \in Fields : Kept(f)' = Kept(f)
  BY <1>1, ServerStays, Requests
<1>4. \A c : (Written(c) => Written(c)') /\ (WrittenDetails(c) => WrittenDetails(c)')
  BY <1>1 DEF Written, WrittenDetails
<1>5. QED BY <1>1, <1>2, <1>3, <1>4

LEMMA ChainsFrame ==
  ASSUME EditorParts, UNCHANGED <<page, chain>>,
         \A v \in Visits, f \in Fields : Stands(<<v, f>>)
  PROVE  ChainsOK'
<1> SUFFICES ASSUME NEW v \in Visits, NEW f \in Fields
             PROVE  /\ v > page'.last => chain'[v][f] = <<>>
                    /\ ~At(<<v, f>>, "idle")' => chain'[v][f] # <<>>
                    /\ call'[<<v, f>>].step \in StepsOf(f) \cup {"done"} =>
                          Suits(f, Carried(call'[<<v, f>>], f), Head(chain'[v][f]))
  BY DEF ChainsOK
<1>1. Stands(<<v, f>>) /\ call'[<<v, f>>].step = call[<<v, f>>].step
  BY StandsStep
<1>2. Carried(call'[<<v, f>>], f) = Carried(call[<<v, f>>], f)
  <2>1. CASE f = "details"
    <3>1. ~Saving(<<v, f>>)
      BY <2>1 DEF EditorParts, Roles, StepsOf, Saving
    <3>2. QED BY <3>1, <1>1 DEF Stands
  <2>2. CASE f # "details"
    BY <2>2, <1>1 DEF Stands, Carried
  <2>3. QED BY <2>1, <2>2
<1>3. QED BY <1>1, <1>2 DEF EditorParts, ChainsOK, At

LEMMA RolesFrame ==
  ASSUME IInv, EditorParts, NEW k \in Calls, \A j \in Calls \ {k} : Stands(j),
         \A f \in Fields, v \in Visits : k = <<v, f>> =>
            call'[k].step \in StepsOf(f) \cup {"idle", "refused", "done"},
         k = Act => call'[k].step \in {"idle", "judge", "commit", "clear", "refused", "done"},
         k \in Saves \cup {Act, Elsewhere}
  PROVE  Roles'
<1>1. \A j \in Calls \ {k} : call'[j].step = call[j].step
  BY StandsStep
<1>2. ASSUME NEW v \in Visits, NEW f \in Fields
      PROVE  call'[<<v, f>>].step \in StepsOf(f) \cup {"idle", "refused", "done"}
  <2>1. CASE k = <<v, f>>
    BY <2>1
  <2>2. CASE k # <<v, f>>
    BY <1>1, <2>2, Requests DEF EditorParts, Roles
  <2>3. QED BY <2>1, <2>2
<1>3. call'[Act].step \in {"idle", "judge", "commit", "clear", "refused", "done"}
  BY <1>1, Requests DEF EditorParts, Roles
<1>4. \A j \in Calls \ (Saves \cup {Act, Elsewhere}) : At(j, "idle")'
  BY <1>1 DEF EditorParts, Roles, At
<1>5. QED BY <1>2, <1>3, <1>4 DEF Roles

\* A field that began clean has no writer but its own save.
LEMMA NoOtherWriter ==
  ASSUME IInv, EditorParts, Mounted, contest.status # "deleted",
         NEW f \in Fields, clean[f], NEW k \in Calls, k # <<page.open, f>>,
         Advance(k) \/ Fail(k)
  PROVE  IF f = "details" THEN contest'.details = contest.details ELSE slot' = slot
<1>1. Running(k)
  BY AdvanceMoves
<1>2. At(Elsewhere, "idle") /\ \A v \in Visits \ {page.open} : chain[v][f] = <<>>
  BY DEF EditorParts, OneWriter
<1>3. call[k].step # (IF f = "details" THEN "set" ELSE "write")
      /\ (f # "details" => call[k].step # "trim" /\ call[k].step # "clear")
  <2>1. ASSUME NEW v \in Visits, NEW g \in Fields, k = <<v, g>>, g # f
        PROVE  call[k].step \in StepsOf(g) /\ f \in Fields /\ g # f
    BY <2>1, <1>1 DEF EditorParts, Roles, Running
  <2>2. ASSUME NEW v \in Visits, k = <<v, f>> PROVE FALSE
    <3>1. v # page.open
      BY <2>2
    <3>2. chain[v][f] = <<>>
      BY <1>2, <3>1
    <3>3. At(<<v, f>>, "idle")
      BY <3>2 DEF EditorParts, ChainsOK
    <3>4. QED BY <3>3, <2>2, <1>1 DEF At, Running
  <2>3. CASE k \in Saves
    <3>1. PICK v \in Visits, g \in Fields : k = <<v, g>>
      BY <2>3, Requests
    <3>2. g # f /\ call[k].step \in StepsOf(g)
      BY <3>1, <2>1, <2>2
    <3>3. QED BY <3>2, Requests DEF StepsOf, SaveSteps
  <2>4. CASE k = Act
    <3>1. call[k].step \in {"judge", "commit", "clear"}
      BY <2>4, <1>1 DEF EditorParts, Roles, Running
    <3>2. call[k].step # "clear"
      BY DEF IInv, Deleting, At
    <3>3. QED BY <3>1, <3>2
  <2>5. CASE k \notin Saves \cup {Act}
    BY <2>5, <1>1, <1>2 DEF EditorParts, Roles, At, Running
  <2>6. QED BY <2>3, <2>4, <2>5
<1>4. QED BY <1>3, AdvanceWrites

LEMMA WriterFrame ==
  ASSUME EditorParts, UNCHANGED <<page, chain, hook, clean>>,
         contest.status = "deleted" => contest'.status = "deleted",
         \A f \in Fields : Mounted /\ contest.status # "deleted" /\ clean[f] =>
            /\ At(Elsewhere, "idle")'
            /\ hook[f].shown = "saved" => Kept(f)' = Kept(f)
            /\ IF f = "details" THEN WrittenDetails(call[<<page.open, f>>])'
                                ELSE Written(call[<<page.open, f>>])'
  PROVE  OneWriter'
  BY DEF EditorParts, OneWriter, Mounted

LEMMA TabStill ==
  ASSUME EditorParts, UNCHANGED tab
  PROVE  EditorTyped' /\ CardsOK'
  BY DEF EditorParts, EditorTyped, CardsOK, tab, Mounted, Views, Hook, Held

LEMMA AdvanceEditor ==
  ASSUME EInv, NEW k \in Calls, Advance(k) \/ Fail(k),
         UNCHANGED <<page, chain, hook, clean>>
  PROVE  Roles' /\ ChainsOK' /\ OneWriter'
<1>1. IInv /\ EditorParts
  BY DEF EInv
<1>2. Running(k) /\ \A j \in Calls \ {k} : call'[j] = call[j]
  BY <1>1, AdvanceMoves
<1>3. \A j \in Calls \ {k} : Stands(j)
  BY <1>2 DEF Stands
<1>4. k \in Saves \cup {Act, Elsewhere}
  BY <1>1, <1>2 DEF EditorParts, Roles, At, Running
<1>5. ASSUME NEW v \in Visits, NEW f \in Fields, k = <<v, f>>
      PROVE  /\ call[k].step \in StepsOf(f)
             /\ call'[k].step \in StepsOf(f) \cup {"refused", "done"}
             /\ call'[k].step # "refused" => Carried(call'[k], f) = Carried(call[k], f)
  <2>1. call[k].step \in StepsOf(f)
    BY <1>1, <1>2, <1>5 DEF EditorParts, Roles, Running
  <2>2. CASE f = "details"
    BY <1>1, <2>1, <2>2, AdvanceMoves DEF StepsOf, Carried
  <2>3. CASE f # "details"
    BY <1>1, <2>1, <2>3, AdvanceMoves DEF StepsOf, Carried
  <2>4. QED BY <2>1, <2>2, <2>3
<1>6. Roles'
  <2>1. k = Act => call'[k].step \in {"idle", "judge", "commit", "clear", "refused", "done"}
    <3>1. k = Act => call[k].step \in {"judge", "commit", "clear"}
      BY <1>1, <1>2 DEF EditorParts, Roles, Running
    <3>2. QED BY <1>1, <3>1, AdvanceMoves
  <2>2. QED BY <1>1, <1>3, <1>4, <1>5, <2>1, RolesFrame
<1>7. ChainsOK'
  <2> SUFFICES ASSUME NEW v \in Visits, NEW f \in Fields
               PROVE  /\ v > page'.last => chain'[v][f] = <<>>
                      /\ ~At(<<v, f>>, "idle")' => chain'[v][f] # <<>>
                      /\ call'[<<v, f>>].step \in StepsOf(f) \cup {"done"} =>
                            Suits(f, Carried(call'[<<v, f>>], f), Head(chain'[v][f]))
    BY DEF ChainsOK
  <2>1. /\ v > page.last => chain[v][f] = <<>>
        /\ ~At(<<v, f>>, "idle") => chain[v][f] # <<>>
        /\ call[<<v, f>>].step \in StepsOf(f) \cup {"done"} =>
              Suits(f, Carried(call[<<v, f>>], f), Head(chain[v][f]))
    BY <1>1 DEF EditorParts, ChainsOK
  <2>2. CASE k = <<v, f>>
    <3>1. ~At(<<v, f>>, "idle")
      BY <1>2, <2>2 DEF At, Running
    <3>2. "refused" \notin StepsOf(f) \cup {"done"}
      BY DEF StepsOf, SaveSteps
    <3>3. QED BY <1>5, <2>1, <2>2, <3>1, <3>2
  <2>3. CASE k # <<v, f>>
    BY <1>2, <2>1, <2>3, Requests DEF At
  <2>4. QED BY <2>2, <2>3
<1>8. OneWriter'
  <2>1. ASSUME NEW f \in Fields, Mounted, contest.status # "deleted", clean[f]
        PROVE  /\ At(Elsewhere, "idle")'
               /\ hook[f].shown = "saved" => Kept(f)' = Kept(f)
               /\ IF f = "details" THEN WrittenDetails(call[<<page.open, f>>])'
                                   ELSE Written(call[<<page.open, f>>])'
    <3>1. /\ At(Elsewhere, "idle")
          /\ IF f = "details" THEN WrittenDetails(call[<<page.open, f>>])
                              ELSE Written(call[<<page.open, f>>])
      BY <1>1, <2>1 DEF EditorParts, OneWriter
    <3>2. At(Elsewhere, "idle")'
      <4>1. k # Elsewhere
        BY <1>2, <3>1 DEF At, Running
      <4>2. QED BY <1>2, <3>1, <4>1, Requests DEF At
    <3>3. page.open \in Visits
      BY <1>1, <2>1, OpenVisit DEF EditorParts
    <3>4. CASE k = <<page.open, f>>
      <4>1. hook[f].shown # "saved"
        <5>1. chain[page.open][f] # <<>>
          BY <1>1, <1>2, <3>3, <3>4 DEF EditorParts, ChainsOK, At, Running
        <5>2. QED BY <1>1, <2>1, <5>1 DEF EditorParts, CardsOK
      <4>2. call[k].step \in StepsOf(f)
        BY <1>5, <3>3, <3>4
      <4>3. CASE f = "details"
        <5>1. WrittenDetails(call[k])'
          BY <1>1, <3>1, <3>4, <4>2, <4>3, DoneSet DEF StepsOf
        <5>2. call'[<<page.open, f>>] = call'[k]
          BY <3>4
        <5>3. QED BY <3>2, <3>4, <4>1, <4>3, <5>1 DEF WrittenDetails
      <4>4. CASE f # "details"
        <5>1. Written(call[k])'
          BY <1>1, <3>1, <3>4, <4>2, <4>4, SaveWrites DEF StepsOf
        <5>2. QED BY <3>2, <3>4, <4>1, <4>4, <5>1 DEF Written
      <4>5. QED BY <4>3, <4>4
    <3>5. CASE k # <<page.open, f>>
      <4>1. IF f = "details" THEN contest'.details = contest.details ELSE slot' = slot
        BY <1>1, <2>1, <3>5, NoOtherWriter
      <4>2. call'[<<page.open, f>>] = call[<<page.open, f>>]
        BY <1>2, <3>3, <3>5, Requests
      <4>3. Kept(f)' = Kept(f)
        BY <4>1, ServerStays, Requests
      <4>4. IF f = "details" THEN WrittenDetails(call[<<page.open, f>>])'
                             ELSE Written(call[<<page.open, f>>])'
        BY <3>1, <4>1, <4>2 DEF WrittenDetails, Written
      <4>5. QED BY <3>2, <4>3, <4>4
    <3>6. QED BY <3>4, <3>5
  <2>2. contest.status = "deleted" => contest'.status = "deleted"
    BY <1>1, AdvanceWrites
  <2>3. QED BY <1>1, <2>1, <2>2, WriterFrame
<1>9. QED BY <1>6, <1>7, <1>8


-----------------------------------------------------------------------------
(* Steps of the server, and requests that reach it *)

\* A budget is spent, and nothing else of the tab changes.
LEMMA OnlySpent ==
  ASSUME EditorParts, UNCHANGED <<page, view, form, hook, chain, dropped>>,
         clean' \in [Fields -> BOOLEAN],
         left' \in Left
  PROVE  EditorTyped' /\ CardsOK'
<1>1. EditorTyped'
  BY DEF EditorParts, EditorTyped, Mounted, Views, Hook, Held
<1>2. CardsOK'
  BY DEF EditorParts, CardsOK, Mounted
<1>3. QED BY <1>1, <1>2

LEMMA Spent ==
  ASSUME EditorTyped
  PROVE  /\ left.fails > 0 => [left EXCEPT !.fails = @ - 1] \in Left
         /\ left.others > 0 => [left EXCEPT !.others = @ - 1] \in Left
         /\ left.edits > 0 => [left EXCEPT !.edits = @ - 1] \in Left
<1>1. left \in Left
  BY DEF EditorTyped
<1>2. \A n \in Nat : n > 0 => n - 1 \in Nat
  OBVIOUS
<1>3. QED BY <1>1, <1>2 DEF Left

LEMMA AdvanceKeeps ==
  ASSUME EInv, NEW k \in Calls, Advance(k), UNCHANGED tab
  PROVE  EditorParts'
  BY AdvanceEditor, TabStill DEF EInv, EditorParts, tab

LEMMA DiesKeeps ==
  ASSUME EInv, NEW k \in Calls, Dies(k)
  PROVE  EditorParts'
<1>1. EditorParts /\ EditorTyped /\ Fail(k) /\ UNCHANGED <<page, view, form, hook, chain, act, clean, dropped>>
      /\ left.fails > 0 /\ left' = [left EXCEPT !.fails = @ - 1]
  BY DEF EInv, EditorParts, Dies
<1>2. Roles' /\ ChainsOK' /\ OneWriter'
  BY <1>1, AdvanceEditor
<1>3. clean' \in [Fields -> BOOLEAN]
  BY <1>1 DEF EditorTyped
<1>4. EditorTyped' /\ CardsOK'
  BY <1>1, <1>3, Spent, OnlySpent
<1>5. QED BY <1>2, <1>4 DEF EditorParts

LEMMA WrittenStays ==
  ASSUME EditorParts, NEW v \in Visits, NEW f \in Fields, Stands(<<v, f>>),
         contest'.details = contest.details, slot' = slot,
         IF f = "details" THEN WrittenDetails(call[<<v, f>>]) ELSE Written(call[<<v, f>>])
  PROVE  IF f = "details" THEN WrittenDetails(call[<<v, f>>])' ELSE Written(call[<<v, f>>])'
<1>1. CASE f = "details"
  <2>1. ~Saving(<<v, f>>)
    BY <1>1 DEF EditorParts, Roles, StepsOf, Saving
  <2>2. call'[<<v, f>>] = call[<<v, f>>]
    BY <2>1 DEF Stands
  <2>3. QED BY <1>1, <2>2 DEF WrittenDetails
<1>2. CASE f # "details"
  <2>1. CASE call'[<<v, f>>] = call[<<v, f>>]
    BY <1>2, <2>1 DEF Written
  <2>2. CASE /\ call'[<<v, f>>].step = call[<<v, f>>].step
             /\ call'[<<v, f>>].list = call[<<v, f>>].list
             /\ call'[<<v, f>>].next = call[<<v, f>>].next
    BY <1>2, <2>2 DEF Written
  <2>3. QED BY <2>1, <2>2 DEF Stands
<1>3. QED BY <1>1, <1>2

\* What another request's begin leaves of the writers of clean fields.
LEMMA WritersStay ==
  ASSUME EditorParts, NEW k \in Calls, k # Elsewhere, \A j \in Calls \ {k} : Stands(j),
         contest'.details = contest.details, slot' = slot,
         contest.status = "deleted" => contest'.status = "deleted",
         UNCHANGED tab,
         \A f \in Fields : Mounted /\ clean[f] /\ k = <<page.open, f>> =>
            IF f = "details" THEN WrittenDetails(call[k])' ELSE Written(call[k])'
  PROVE  OneWriter'
<1>1. ASSUME NEW f \in Fields, Mounted, contest.status # "deleted", clean[f]
      PROVE  /\ At(Elsewhere, "idle")'
             /\ hook[f].shown = "saved" => Kept(f)' = Kept(f)
             /\ IF f = "details" THEN WrittenDetails(call[<<page.open, f>>])'
                                 ELSE Written(call[<<page.open, f>>])'
  <2>1. /\ At(Elsewhere, "idle")
        /\ IF f = "details" THEN WrittenDetails(call[<<page.open, f>>])
                            ELSE Written(call[<<page.open, f>>])
    BY <1>1 DEF EditorParts, OneWriter
  <2>2. page.open \in Visits
    BY <1>1, OpenVisit DEF EditorParts
  <2>3. At(Elsewhere, "idle")'
    BY <2>1, StandsStep, Requests DEF At
  <2>4. Kept(f)' = Kept(f)
    BY ServerStays, Requests
  <2>5. CASE k = <<page.open, f>>
    <3>1. IF f = "details" THEN WrittenDetails(call[k])' ELSE Written(call[k])'
      BY <1>1, <2>5
    <3>2. call'[<<page.open, f>>] = call'[k]
      BY <2>5
    <3>3. CASE f = "details"
      BY <2>3, <2>4, <3>1, <3>2, <3>3 DEF WrittenDetails, tab
    <3>4. CASE f # "details"
      BY <2>3, <2>4, <3>1, <3>2, <3>4 DEF Written, tab
    <3>5. QED BY <3>3, <3>4
  <2>6. CASE k # <<page.open, f>>
    <3>1. Stands(<<page.open, f>>)
      BY <2>2, <2>6, Requests
    <3>2. IF f = "details" THEN WrittenDetails(call[<<page.open, f>>])'
                           ELSE Written(call[<<page.open, f>>])'
      <4>1. SUFFICES ASSUME NEW v \in Visits, v = page.open, page' = page
                     PROVE  IF f = "details" THEN WrittenDetails(call[<<v, f>>])'
                                             ELSE Written(call[<<v, f>>])'
        BY <2>2 DEF tab, WrittenDetails, Written
      <4>2. Stands(<<v, f>>)
           /\ IF f = "details" THEN WrittenDetails(call[<<v, f>>]) ELSE Written(call[<<v, f>>])
        BY <2>1, <3>1, <4>1
      <4>3. QED BY <4>2, WrittenStays
    <3>3. QED BY <2>3, <2>4, <3>2
  <2>7. QED BY <2>5, <2>6
<1>2. UNCHANGED <<page, chain, hook, clean>>
  BY DEF tab
<1>3. QED BY <1>1, <1>2, WriterFrame

LEMMA ArriveKeeps ==
  ASSUME EInv, NEW v \in Visits, NEW f \in Fields, Arrive(v, f)
  PROVE  EditorParts'
<1> DEFINE k == <<v, f>>
<1>1. /\ IInv /\ EditorParts /\ EditorTyped /\ k \in Calls
      /\ k # Act /\ k # Elsewhere /\ k \in Saves
      /\ chain[v][f] # <<>> /\ At(k, "idle") /\ UNCHANGED tab
      /\ Head(chain[v][f]) \in Value(f)
  BY Requests, QueuesTyped DEF EInv, EditorParts, Arrive, Saves
<1> HIDE DEF k
<1>2. /\ \A j \in Calls \ {k} : Stands(j)
      /\ contest'.details = contest.details /\ slot' = slot
      /\ contest.status = "deleted" => contest'.status = "deleted"
      /\ \/ call'[k].step = "refused"
         \/ f = "details" /\ call'[k].step \in {"check", "set"}
            /\ call'[k].details = Merged(contest.details, Head(chain[v][f]))
         \/ f # "details" /\ call'[k].step = "write"
            /\ call'[k].list = Head(chain[v][f]) /\ call'[k].next = 1
  <2>1. CASE f = "details"
    <3>1. UpdateBegin(k, Head(chain[v][f])) /\ Head(chain[v][f]) \in Inputs
      BY <1>1, <2>1 DEF Arrive, k, Value
    <3>2. QED BY <1>1, <2>1, <3>1, Begins
  <2>2. CASE f # "details"
    <3>1. SaveBegin(k, Head(chain[v][f])) /\ Head(chain[v][f]) \in Lists
      BY <1>1, <2>2 DEF Arrive, k, Value
    <3>2. QED BY <1>1, <2>2, <3>1, Begins
  <2>3. QED BY <2>1, <2>2
<1>3. EditorTyped' /\ CardsOK'
  BY <1>1, TabStill
<1>4. Roles'
  <2>1. call'[k].step \in StepsOf(f) \cup {"refused"}
    BY <1>2 DEF StepsOf, SaveSteps
  <2>2. \A w \in Visits, g \in Fields : k = <<w, g>> => g = f
    BY DEF k
  <2>3. QED BY <1>1, <1>2, <2>1, <2>2, RolesFrame
<1>5. ChainsOK'
  <2>1. UNCHANGED <<page, chain>>
    BY <1>1 DEF tab
  <2> SUFFICES ASSUME NEW w \in Visits, NEW g \in Fields
               PROVE  /\ w > page.last => chain[w][g] = <<>>
                      /\ ~At(<<w, g>>, "idle")' => chain[w][g] # <<>>
                      /\ call'[<<w, g>>].step \in StepsOf(g) \cup {"done"} =>
                            Suits(g, Carried(call'[<<w, g>>], g), Head(chain[w][g]))
    BY <2>1 DEF ChainsOK
  <2>2. /\ w > page.last => chain[w][g] = <<>>
        /\ ~At(<<w, g>>, "idle") => chain[w][g] # <<>>
        /\ call[<<w, g>>].step \in StepsOf(g) \cup {"done"} =>
              Suits(g, Carried(call[<<w, g>>], g), Head(chain[w][g]))
    BY <1>1 DEF EditorParts, ChainsOK
  <2>3. CASE <<w, g>> = k
    <3>1. w = v /\ g = f
      BY <2>3 DEF k
    <3>2. "refused" \notin StepsOf(f) \cup {"done"}
      BY DEF StepsOf, SaveSteps
    <3>3. call'[k].step # "refused" => Suits(f, Carried(call'[k], f), Head(chain[v][f]))
      <4>1. CASE f = "details"
        <5>1. Head(chain[v][f]) \in Inputs /\ contest.details \in Details
          BY <1>1, <4>1 DEF Value, IInv, Typed, TypeOK
        <5>2. Holds(Merged(contest.details, Head(chain[v][f])), Head(chain[v][f]))
          BY <5>1, MergedHolds
        <5>3. QED BY <1>2, <4>1, <5>2 DEF Carried, Suits
      <4>2. CASE f # "details"
        BY <1>2, <4>2 DEF Carried, Suits
      <4>3. QED BY <4>1, <4>2
    <3>4. QED BY <1>1, <2>2, <2>3, <3>1, <3>2, <3>3
  <2>4. CASE <<w, g>> # k
    <3>1. Stands(<<w, g>>) /\ call'[<<w, g>>].step = call[<<w, g>>].step
      BY <1>2, <2>4, Requests, StandsStep
    <3>2. Carried(call'[<<w, g>>], g) = Carried(call[<<w, g>>], g)
      <4>1. CASE g = "details"
        <5>1. ~Saving(<<w, g>>)
          BY <1>1, <4>1 DEF EditorParts, Roles, StepsOf, Saving
        <5>2. QED BY <5>1, <3>1 DEF Stands
      <4>2. CASE g # "details"
        BY <4>2, <3>1 DEF Stands, Carried
      <4>3. QED BY <4>1, <4>2
    <3>3. QED BY <2>2, <3>1, <3>2 DEF At
  <2>5. QED BY <2>3, <2>4
<1>6. OneWriter'
  <2>1. ASSUME NEW g \in Fields, k = <<page.open, g>>
        PROVE  IF g = "details" THEN WrittenDetails(call[k])' ELSE Written(call[k])'
    <3>1. g = f
      BY <2>1 DEF k
    <3>2. CASE call'[k].step \in {"refused", "check", "set"}
      BY <3>2 DEF WrittenDetails, Written, SaveSteps
    <3>3. CASE f # "details" /\ call'[k].step = "write" /\ call'[k].next = 1
      <4>1. \A o \in Orders : ~(o < 1)
        BY NumbersAssumption DEF Orders
      <4>2. QED BY <3>1, <3>3, <4>1 DEF Written
    <3>4. QED BY <1>2, <3>2, <3>3
  <2>2. QED BY <1>1, <1>2, <2>1, WritersStay
<1>7. QED BY <1>3, <1>4, <1>5, <1>6 DEF EditorParts

LEMMA ActArrivesKeeps ==
  ASSUME EInv, ActArrives
  PROVE  EditorParts'
<1>1. /\ IInv /\ EditorParts /\ Act \in Calls /\ Act # Elsewhere
      /\ At(Act, "idle") /\ UNCHANGED tab
      /\ PublishBegin(Act) \/ DeleteBegin(Act)
  BY Requests DEF EInv, EditorParts, ActArrives
<1>2. /\ \A j \in Calls \ {Act} : Stands(j)
      /\ contest'.details = contest.details /\ slot' = slot
      /\ contest.status = "deleted" => contest'.status = "deleted"
      /\ call'[Act].step \in {"judge", "clear", "refused"}
  BY <1>1, Begins
<1>3. EditorTyped' /\ CardsOK'
  BY <1>1, TabStill
<1>4. Roles'
  BY <1>1, <1>2, RolesFrame, Requests
<1>5. \A v \in Visits, f \in Fields : Stands(<<v, f>>)
  BY <1>2, Requests
<1>6. ChainsOK'
  BY <1>1, <1>5, ChainsFrame DEF tab
<1>7. ASSUME Mounted, NEW f \in Fields PROVE Act # <<page.open, f>>
  BY <1>1, <1>7, OpenVisit, Requests DEF EditorParts
<1>8. OneWriter'
  BY <1>1, <1>2, <1>7, WritersStay
<1>9. QED BY <1>3, <1>4, <1>6, <1>8 DEF EditorParts

LEMMA TickKeeps ==
  ASSUME EInv, Tick, UNCHANGED tab
  PROVE  EditorParts'
<1>1. EditorParts /\ UNCHANGED <<contest, slot, call>>
  BY DEF EInv, Tick
<1>2. EditorTyped' /\ CardsOK'
  BY <1>1, TabStill
<1>3. Roles'
  BY <1>1 DEF EditorParts, Roles, At
<1>4. ChainsOK'
  BY <1>1 DEF EditorParts, ChainsOK, At, tab
<1>5. \A f \in Fields : Kept(f)' = Kept(f)
  BY <1>1, ServerStays, Requests
<1>6. \A c : (Written(c) => Written(c)') /\ (WrittenDetails(c) => WrittenDetails(c)')
  BY <1>1 DEF Written, WrittenDetails
<1>7. OneWriter'
  BY <1>1, <1>5, <1>6 DEF EditorParts, OneWriter, At, tab, Mounted
<1>8. QED BY <1>2, <1>3, <1>4, <1>7 DEF EditorParts

LEMMA OtherKeeps ==
  ASSUME EInv, Other
  PROVE  EditorParts'
<1>1. /\ IInv /\ EditorParts /\ EditorTyped /\ Elsewhere \in Calls /\ Elsewhere # Act
      /\ UNCHANGED <<page, view, form, hook, chain, act, dropped>>
      /\ clean' = [f \in Fields |-> FALSE]
  BY Requests DEF EInv, EditorParts, Other
<1>2. left' \in Left
  BY <1>1, Spent DEF Other, EditorTyped
<1>3. EditorTyped' /\ CardsOK'
  BY <1>1, <1>2, OnlySpent
<1>4. \A j \in Calls \ {Elsewhere} : Stands(j)
  <2>1. CASE Request(Elsewhere, Bodies)
    BY <1>1, <2>1, Begins, BudgetsAssumption DEF Request
  <2>2. CASE Answered(Elsewhere)
    BY <1>1, <2>2, Answers DEF Stands
  <2>3. QED BY <2>1, <2>2 DEF Other
<1>5. Roles'
  BY <1>1, <1>4, RolesFrame, Requests
<1>6. \A v \in Visits, f \in Fields : Stands(<<v, f>>)
  BY <1>4, Requests
<1>7. ChainsOK'
  BY <1>1, <1>6, ChainsFrame
<1>8. OneWriter'
  BY <1>1 DEF OneWriter
<1>9. QED BY <1>3, <1>5, <1>7, <1>8 DEF EditorParts

-----------------------------------------------------------------------------
(* Steps of the page alone *)

LEMMA TypedAs ==
  ASSUME page' \in [open : 0 .. MaxVisits, last : 0 .. MaxVisits],
         page'.open # 0 => page'.open = page'.last,
         view' = NoView \/ view' \in Views,
         form' = [f \in Fields |-> form'[f]], \A f \in Fields : form'[f] \in Held(f),
         hook' = [f \in Fields |-> hook'[f]], \A f \in Fields : hook'[f] \in Hook(f),
         chain' = [v \in Visits |-> [f \in Fields |-> chain'[v][f]]],
         \A v \in Visits, f \in Fields : chain'[v][f] \in Seq(Value(f)),
         clean' \in [Fields -> BOOLEAN], dropped' \in [Fields -> BOOLEAN],
         left' \in Left
  PROVE  EditorTyped'
  BY DEF EditorTyped, Mounted, Views, Hook, Held

LEMMA OpenKeeps ==
  ASSUME EInv, Open
  PROVE  EditorParts'
<1>1. /\ IInv /\ EditorParts /\ EditorTyped /\ UNCHANGED hosting
      /\ ~Mounted /\ page.last < left.visits
      /\ page' = [open |-> page.last + 1, last |-> page.last + 1]
      /\ view' = (IF view = NoView THEN Fresh ELSE view)
      /\ form' = FormOf(view')
      /\ hook' = NewHook(form')
      /\ clean' = [f \in Fields |-> /\ form'[f] = FormOf(Fresh)[f] /\ Quiet(f)
                                  /\ \A k \in Calls : At(k, "idle")]
      /\ dropped' = [f \in Fields |-> FALSE]
      /\ UNCHANGED <<chain, act, left>>
  BY DEF EInv, EditorParts, Open
<1>2. /\ page' \in [open : 0 .. MaxVisits, last : 0 .. MaxVisits]
      /\ page'.open = page'.last /\ page'.open \in Visits
      /\ page.last \in Nat /\ page'.open > page.last /\ Mounted'
  <2>1. page.last \in Nat /\ left.visits \in 0 .. MaxVisits /\ MaxVisits \in Nat
    BY <1>1, BudgetsAssumption DEF EditorTyped, Left
  <2>2. page.last + 1 \in 0 .. MaxVisits /\ page.last + 1 \in 1 .. MaxVisits /\ page.last + 1 # 0
    BY <1>1, <2>1
  <2>3. QED BY <1>1, <2>1, <2>2 DEF Visits, Mounted
<1>3. view' \in Views
  BY <1>1, ViewTyped DEF EditorTyped
<1>4. form' = [f \in Fields |-> form'[f]] /\ \A f \in Fields : form'[f] \in Held(f)
  <2>1. form'["details"] \in Cards /\ form'["questions"] \in Lists
    BY <1>1, <1>3, ViewTyped
  <2>2. form' = [f \in Fields |-> form'[f]]
    BY <1>1, ViewTyped
  <2>3. QED BY <2>1, <2>2 DEF Held, Fields
<1>5. /\ hook' = [f \in Fields |-> hook'[f]]
      /\ \A f \in Fields : hook'[f] \in Hook(f) /\ hook'[f].lastSaved = InputOf(f, form'[f])
  BY <1>1, <1>4, NewHookTyped
<1>6. clean' \in [Fields -> BOOLEAN] /\ dropped' \in [Fields -> BOOLEAN]
  BY <1>1 DEF Quiet
<1>7. EditorTyped'
  <2>1. UNCHANGED <<chain, left>>
    BY <1>1
  <2>2. /\ chain' = [v \in Visits |-> [f \in Fields |-> chain'[v][f]]]
        /\ \A v \in Visits, f \in Fields : chain'[v][f] \in Seq(Value(f))
        /\ left' \in Left
    BY <1>1, <2>1 DEF EditorTyped
  <2>3. QED BY <1>2, <1>3, <1>4, <1>5, <1>6, <2>2, TypedAs
<1>8. Roles' /\ \A f \in Fields : Kept(f)' = Kept(f)
  BY <1>1, PageOnly
<1>9. UNCHANGED <<contest, slot, call>>
  BY <1>1 DEF hosting
<1>10. ChainsOK'
  <2>1. \A v \in Visits : v > page'.last => v > page.last
    BY <1>1, <1>2 DEF Visits
  <2>2. QED BY <1>1, <1>9, <2>1 DEF EditorParts, ChainsOK, At
<1>11. \A f \in Fields : chain'[page'.open][f] = <<>>
  BY <1>1, <1>2 DEF EditorParts, ChainsOK
<1>12. CardsOK'
  <2> SUFFICES ASSUME NEW f \in Fields
               PROVE  /\ chain'[page'.open][f] = <<>>
                      /\ InputOf(f, form'[f]) = hook'[f].lastSaved
    BY DEF CardsOK
  <2>1. QED BY <1>1, <1>5, <1>11
<1>13. OneWriter'
  <2> SUFFICES ASSUME NEW f \in Fields, clean'[f]
               PROVE  /\ At(Elsewhere, "idle")'
                      /\ \A v \in Visits \ {page'.open} : chain'[v][f] = <<>>
                      /\ Suits(f, Kept(f)', hook'[f].lastSaved)
                      /\ IF f = "details" THEN WrittenDetails(call[<<page.open, f>>])'
                                          ELSE Written(call[<<page.open, f>>])'
    BY DEF OneWriter
  <2>1. form'[f] = FormOf(Fresh)[f] /\ Quiet(f) /\ \A k \in Calls : At(k, "idle")
    BY <1>1
  <2>2. \A k \in Calls : call'[k].step = "idle"
    BY <2>1, <1>9 DEF At
  <2>3. call'[<<page'.open, f>>].step = "idle"
    BY <1>2, <2>2, Requests
  <2>4. WrittenDetails(call[<<page.open, f>>])' /\ Written(call[<<page.open, f>>])'
    BY <2>3 DEF WrittenDetails, Written, SaveSteps
  <2>5. At(Elsewhere, "idle")'
    BY <2>2, Requests DEF At
  <2>6. Suits(f, Kept(f)', hook'[f].lastSaved)
    <3>1. Suits(f, Kept(f), InputOf(f, form'[f]))
      BY <1>1, <2>1, FreshSuits
    <3>2. QED BY <1>5, <1>8, <3>1
  <2>7. \A v \in Visits : chain'[v][f] = <<>>
    BY <1>1, <2>1 DEF Quiet
  <2>8. QED BY <2>4, <2>5, <2>6, <2>7
<1>14. QED BY <1>7, <1>8, <1>10, <1>12, <1>13 DEF EditorParts

\* Neither a newer view nor a click changes what the invariant reads.
LEMMA LookKeeps ==
  ASSUME EInv, Refetch \/ PublishClick \/ DeleteClick
  PROVE  EditorParts'
<1>1. /\ IInv /\ EditorParts /\ EditorTyped /\ UNCHANGED hosting
      /\ UNCHANGED <<page, form, hook, chain, clean, dropped, left>>
      /\ view' \in {view, Fresh}
  BY DEF EInv, EditorParts, Refetch, PublishClick, DeleteClick
<1>2. view' = NoView \/ view' \in Views
  BY <1>1, ViewTyped DEF EditorTyped
<1>3. EditorTyped'
  BY <1>1, <1>2 DEF EditorTyped, Mounted, Views, Hook, Held
<1>4. /\ Roles' /\ \A f \in Fields : Kept(f)' = Kept(f)
      /\ UNCHANGED <<contest, slot, call>>
      /\ \A c : (Written(c) => Written(c)') /\ (WrittenDetails(c) => WrittenDetails(c)')
  BY <1>1, PageOnly
<1>5. ChainsOK' /\ CardsOK'
  BY <1>1, <1>4 DEF EditorParts, ChainsOK, CardsOK, At, Mounted
<1>6. OneWriter'
  BY <1>1, <1>4 DEF EditorParts, OneWriter, At, Mounted
<1>7. QED BY <1>3, <1>4, <1>5, <1>6 DEF EditorParts

LEMMA StoppedTyped ==
  ASSUME EditorTyped, hook' = Stopped
  PROVE  /\ hook' = [f \in Fields |-> hook'[f]] /\ \A f \in Fields : hook'[f] \in Hook(f)
<1>1. \A f \in Fields : hook[f] \in Hook(f)
  BY DEF EditorTyped
<1>2. \A f \in Fields : [hook[f] EXCEPT !.timer = FALSE] \in Hook(f)
  BY <1>1 DEF Hook
<1>3. QED BY <1>2 DEF Stopped

LEMMA LeaveKeeps ==
  ASSUME EInv, Leave
  PROVE  EditorParts'
<1>1. /\ EditorParts /\ EditorTyped /\ UNCHANGED hosting
      /\ page' = [page EXCEPT !.open = 0] /\ hook' = Stopped
      /\ UNCHANGED <<view, form, chain, clean, dropped, left>>
  BY DEF EInv, EditorParts, Leave
<1>2. /\ page' \in [open : 0 .. MaxVisits, last : 0 .. MaxVisits]
      /\ page'.open = 0 /\ page'.last = page.last /\ ~Mounted'
  <2>1. 0 \in 0 .. MaxVisits
    BY BudgetsAssumption
  <2>2. page \in [open : 0 .. MaxVisits, last : 0 .. MaxVisits]
    BY <1>1 DEF EditorTyped
  <2>3. QED BY <1>1, <2>1, <2>2 DEF Mounted
<1>3. EditorTyped'
  <2>1. hook' = [f \in Fields |-> hook'[f]] /\ \A f \in Fields : hook'[f] \in Hook(f)
    BY <1>1, StoppedTyped
  <2>2. QED BY <1>1, <1>2, <2>1 DEF EditorTyped, Views, Hook, Held
<1>4. Roles' /\ UNCHANGED call
  BY <1>1, PageOnly
<1>5. ChainsOK'
  BY <1>1, <1>2, <1>4 DEF EditorParts, ChainsOK, At
<1>6. CardsOK' /\ OneWriter'
  BY <1>2 DEF CardsOK, OneWriter
<1>7. QED BY <1>3, <1>4, <1>5, <1>6 DEF EditorParts

LEMMA ReloadKeeps ==
  ASSUME EInv, Reload
  PROVE  EditorParts'
<1>1. /\ EditorParts /\ EditorTyped /\ UNCHANGED hosting
      /\ ~Mounted /\ view' = NoView
      /\ \A v \in Visits, f \in Fields :
            chain'[v][f] = IF chain[v][f] = <<>> THEN <<>> ELSE <<Head(chain[v][f])>>
      /\ chain' = [v \in Visits |-> [f \in Fields |-> chain'[v][f]]]
      /\ UNCHANGED <<page, form, hook, clean, dropped, left>>
  BY DEF EInv, EditorParts, Reload
<1>2. ASSUME NEW v \in Visits, NEW f \in Fields
      PROVE  /\ chain'[v][f] \in Seq(Value(f))
             /\ chain'[v][f] = <<>> <=> chain[v][f] = <<>>
             /\ chain[v][f] # <<>> => Head(chain'[v][f]) = Head(chain[v][f])
  <2>1. CASE chain[v][f] = <<>>
    <3>1. chain'[v][f] = <<>> /\ <<>> \in Seq(Value(f))
      BY <1>1, <2>1, EmptySeq
    <3>2. QED BY <2>1, <3>1, Zenon
  <2>2. CASE chain[v][f] # <<>>
    <3>1. SUFFICES ASSUME NEW x \in Value(f), x = Head(chain[v][f]), chain'[v][f] = <<x>>
                   PROVE  /\ chain'[v][f] \in Seq(Value(f)) /\ chain'[v][f] # <<>>
                          /\ Head(chain'[v][f]) = x
      BY <1>1, <2>2, QueuesTyped
    <3>2. QED BY <3>1
  <2>3. QED BY <2>1, <2>2
<1>3. EditorTyped'
  <2>1. \A v \in Visits, f \in Fields : chain'[v][f] \in Seq(Value(f))
    BY <1>2
  <2>2. QED BY <1>1, <2>1 DEF EditorTyped, Mounted, Views, Hook, Held
<1>4. Roles' /\ UNCHANGED call
  BY <1>1, PageOnly
<1>5. ChainsOK'
  <2> SUFFICES ASSUME NEW v \in Visits, NEW f \in Fields
               PROVE  /\ v > page'.last => chain'[v][f] = <<>>
                      /\ ~At(<<v, f>>, "idle")' => chain'[v][f] # <<>>
                      /\ call'[<<v, f>>].step \in StepsOf(f) \cup {"done"} =>
                            Suits(f, Carried(call'[<<v, f>>], f), Head(chain'[v][f]))
    BY DEF ChainsOK
  <2>1. /\ v > page.last => chain[v][f] = <<>>
        /\ ~At(<<v, f>>, "idle") => chain[v][f] # <<>>
        /\ call[<<v, f>>].step \in StepsOf(f) \cup {"done"} =>
              Suits(f, Carried(call[<<v, f>>], f), Head(chain[v][f]))
    BY <1>1 DEF EditorParts, ChainsOK
  <2>2. "idle" \notin StepsOf(f) \cup {"done"}
    BY DEF StepsOf, SaveSteps
  <2>3. QED BY <1>1, <1>2, <1>4, <2>1, <2>2 DEF At
<1>6. CardsOK' /\ OneWriter'
  BY <1>1 DEF CardsOK, OneWriter, Mounted
<1>7. QED BY <1>3, <1>4, <1>5, <1>6 DEF EditorParts

-----------------------------------------------------------------------------
(* Edits of the cards *)

LEMMA ListsAreShort ==
  /\ \A s \in Lists : s \in Seq(Questions) /\ Len(s) \in Nat /\ Len(s) <= MaxQuestions
  /\ \A s \in Seq(Questions) : Len(s) <= MaxQuestions => s \in Lists
<1>1. ASSUME NEW s \in Lists
      PROVE  s \in Seq(Questions) /\ Len(s) \in Nat /\ Len(s) <= MaxQuestions
  <2>1. PICK n \in 0 .. MaxQuestions : s \in [1 .. n -> Questions]
    BY DEF Lists
  <2>2. s \in Seq(Questions) /\ Len(s) = n
    BY <2>1, Numbers
  <2>3. QED BY <2>1, <2>2, Numbers
<1>2. ASSUME NEW s \in Seq(Questions), Len(s) <= MaxQuestions PROVE s \in Lists
  <2>1. Len(s) \in 0 .. MaxQuestions /\ s \in [1 .. Len(s) -> Questions]
    BY <1>2, Numbers, LenProperties
  <2>2. QED BY <2>1 DEF Lists
<1>3. QED BY <1>1, <1>2

LEMMA EditsTyped ==
  ASSUME NEW list \in Lists,
         NEW next \in Add(list) \cup Update(list) \cup Move(list) \cup Duplicate(list) \cup Delete(list)
  PROVE  next \in Lists
<1> DEFINE n == Len(list)
<1>1. list \in Seq(Questions) /\ n \in Nat /\ n <= MaxQuestions
      /\ \A i \in 1 .. n : list[i] \in Questions
  BY ListsAreShort, ListFacts
<1>2. MaxQuestions \in Nat /\ DOMAIN list = 1 .. n
  BY Numbers, ListFacts
<1>3. CASE next \in Add(list)
  <2>1. PICK q \in Questions : next = Append(list, q) /\ n < MaxQuestions
    BY <1>3 DEF Add, Longer
  <2>2. next \in Seq(Questions) /\ Len(next) = n + 1
    BY <1>1, <2>1, AppendProperties
  <2>3. Len(next) <= MaxQuestions
    BY <1>1, <1>2, <2>1, <2>2
  <2>4. QED BY <2>2, <2>3, ListsAreShort
<1>4. CASE next \in Update(list)
  <2>1. PICK i \in 1 .. n, q \in Questions : next = [list EXCEPT ![i] = q]
    BY <1>2, <1>4 DEF Update
  <2>2. next \in Seq(Questions) /\ Len(next) = n
    BY <1>1, <2>1, ExceptSeq
  <2>3. QED BY <1>1, <2>2, ListsAreShort
<1>5. CASE next \in Move(list)
  <2>1. PICK i \in 1 .. n - 1 : next = [list EXCEPT ![i] = list[i + 1], ![i + 1] = list[i]]
    BY <1>5 DEF Move
  <2>2. i \in 1 .. n /\ i + 1 \in 1 .. n /\ list[i] \in Questions /\ list[i + 1] \in Questions
    BY <1>1, <2>1
  <2>3. list \in [1 .. n -> Questions]
    BY <1>1, LenProperties
  <2>4. next \in [1 .. n -> Questions]
    BY <2>1, <2>2, <2>3
  <2>5. QED BY <1>1, <1>2, <2>4 DEF Lists
<1>6. CASE next \in Duplicate(list)
  <2>1. PICK i \in 1 .. n : /\ next = SubSeq(list, 1, i) \o SubSeq(list, i, n)
                            /\ n < MaxQuestions
    BY <1>2, <1>6 DEF Duplicate, Longer
  <2>2. /\ i \in Int /\ 1 \in Int /\ n \in Int /\ 1 <= i /\ i <= n
        /\ \A j \in 1 .. i : list[j] \in Questions
        /\ \A j \in i .. n : list[j] \in Questions
    BY <1>1, <2>1
  <2> DEFINE a == SubSeq(list, 1, i)
             b == SubSeq(list, i, n)
  <2>3. a \in Seq(Questions) /\ Len(a) = i
    BY <2>2, SubSeqProperties
  <2>4. b \in Seq(Questions) /\ Len(b) = n - i + 1
    BY <2>2, SubSeqProperties
  <2>5. next = a \o b
    BY <2>1
  <2> HIDE DEF a, b
  <2>6. next \in Seq(Questions) /\ Len(next) = i + (n - i + 1)
    BY <2>3, <2>4, <2>5, ConcatProperties
  <2>7. Len(next) <= MaxQuestions
    BY <1>1, <1>2, <2>1, <2>2, <2>6
  <2>8. QED BY <2>6, <2>7, ListsAreShort
<1>7. CASE next \in Delete(list)
  <2>1. PICK i \in 1 .. n : next = SubSeq(list, 1, i - 1) \o SubSeq(list, i + 1, n)
    BY <1>2, <1>7 DEF Delete, Without
  <2>2. /\ i \in Int /\ 1 \in Int /\ n \in Int /\ i - 1 \in Int /\ i + 1 \in Int
        /\ 1 <= i /\ i <= n
        /\ \A j \in 1 .. i - 1 : list[j] \in Questions
        /\ \A j \in i + 1 .. n : list[j] \in Questions
    BY <1>1, <2>1
  <2> DEFINE a == SubSeq(list, 1, i - 1)
             b == SubSeq(list, i + 1, n)
  <2>3. a \in Seq(Questions) /\ Len(a) = IF 1 <= i - 1 THEN i - 1 - 1 + 1 ELSE 0
    BY <2>2, SubSeqProperties
  <2>4. b \in Seq(Questions) /\ Len(b) = IF i + 1 <= n THEN n - (i + 1) + 1 ELSE 0
    BY <2>2, SubSeqProperties
  <2>5. next = a \o b
    BY <2>1
  <2> HIDE DEF a, b
  <2>6. next \in Seq(Questions) /\ Len(next) = Len(a) + Len(b)
    BY <2>3, <2>4, <2>5, ConcatProperties
  <2>7. Len(next) <= MaxQuestions
    <3>1. Len(a) = i - 1 /\ Len(b) = n - i
      BY <2>2, <2>3, <2>4
    <3>2. QED BY <1>1, <1>2, <2>2, <2>6, <3>1
  <2>8. QED BY <2>6, <2>7, ListsAreShort
<1>8. QED BY <1>3, <1>4, <1>5, <1>6, <1>7

\* An edit or a stopped timer touches one card, and neither says saved nor takes
\* it back without a timer or a mark that an edit was let go of, unless what would be
\* sent is still the same.
LEMMA CardKeeps ==
  ASSUME EInv, UNCHANGED <<hosting, page, view, chain, clean>>, Mounted,
         NEW f \in Fields, NEW held \in Held(f), NEW h \in Hook(f), NEW d \in BOOLEAN,
         form' = [form EXCEPT ![f] = held], hook' = [hook EXCEPT ![f] = h],
         dropped' = [dropped EXCEPT ![f] = d],
         h.shown = "saved" => hook[f].shown = "saved",
         h.lastSaved = hook[f].lastSaved,
         \/ d \/ h.timer
         \/ InputOf(f, held) = InputOf(f, form[f]) /\ h = hook[f] /\ d = dropped[f],
         left' \in Left
  PROVE  EditorParts'
<1>1. EditorParts /\ EditorTyped
  BY DEF EInv, EditorParts
<1>2. /\ form'[f] = held /\ hook'[f] = h /\ dropped'[f] = d
      /\ \A g \in Fields \ {f} :
            form'[g] = form[g] /\ hook'[g] = hook[g] /\ dropped'[g] = dropped[g]
      /\ form' = [g \in Fields |-> form'[g]] /\ hook' = [g \in Fields |-> hook'[g]]
      /\ dropped' \in [Fields -> BOOLEAN]
  BY <1>1 DEF EditorTyped
<1>3. EditorTyped'
  <2>1. \A g \in Fields : form'[g] \in Held(g) /\ hook'[g] \in Hook(g)
    BY <1>1, <1>2 DEF EditorTyped
  <2>2. /\ view' = NoView \/ view' \in Views
        /\ page' \in [open : 0 .. MaxVisits, last : 0 .. MaxVisits]
        /\ page'.open # 0 => page'.open = page'.last
        /\ clean' \in [Fields -> BOOLEAN]
    BY <1>1 DEF EditorTyped, Mounted
  <2>3. /\ chain' = [v \in Visits |-> [g \in Fields |-> chain'[v][g]]]
        /\ \A v \in Visits, g \in Fields : chain'[v][g] \in Seq(Value(g))
    BY <1>1 DEF EditorTyped
  <2>4. QED BY <1>2, <2>1, <2>2, <2>3, TypedAs
<1>4. /\ Roles' /\ \A g \in Fields : Kept(g)' = Kept(g)
      /\ UNCHANGED <<contest, slot, call>>
      /\ \A c : (Written(c) => Written(c)') /\ (WrittenDetails(c) => WrittenDetails(c)')
  BY <1>1, PageOnly
<1>5. ChainsOK'
  BY <1>1, <1>4 DEF EditorParts, ChainsOK, At
<1>6. CardsOK'
  <2> SUFFICES ASSUME NEW g \in Fields
               PROVE  /\ hook'[g].shown = "saved" => chain[page.open][g] = <<>>
                      /\ ~dropped'[g] /\ ~hook'[g].timer =>
                            /\ chain[page.open][g] # <<>> =>
                                  InputOf(g, form'[g]) = chain[page.open][g][Len(chain[page.open][g])]
                            /\ chain[page.open][g] = <<>> /\ hook'[g].shown = "saved" =>
                                  InputOf(g, form'[g]) = hook'[g].lastSaved
    BY DEF CardsOK
  <2>1. /\ hook[g].shown = "saved" => chain[page.open][g] = <<>>
        /\ ~dropped[g] /\ ~hook[g].timer =>
              /\ chain[page.open][g] # <<>> =>
                    InputOf(g, form[g]) = chain[page.open][g][Len(chain[page.open][g])]
              /\ chain[page.open][g] = <<>> /\ hook[g].shown = "saved" =>
                    InputOf(g, form[g]) = hook[g].lastSaved
    BY <1>1 DEF EditorParts, CardsOK
  <2>2. CASE g = f
    BY <1>2, <2>1, <2>2
  <2>3. CASE g # f
    <3>1. form'[g] = form[g] /\ hook'[g] = hook[g] /\ dropped'[g] = dropped[g]
      BY <1>2, <2>3
    <3>2. QED BY <2>1, <3>1
  <2>4. QED BY <2>2, <2>3
<1>7. OneWriter'
  <2>1. \A g \in Fields : /\ hook'[g].shown = "saved" => hook[g].shown = "saved"
                          /\ hook'[g].lastSaved = hook[g].lastSaved
    BY <1>2
  <2>2. QED BY <1>1, <1>4, <2>1 DEF EditorParts, OneWriter, At, Mounted
<1>8. QED BY <1>3, <1>4, <1>5, <1>6, <1>7 DEF EditorParts

LEMMA EditKeeps ==
  ASSUME EInv, NEW f \in Fields, NEW held \in Held(f), Edit(f, held)
  PROVE  EditorParts'
<1>1. /\ EditorTyped /\ hook[f] \in Hook(f) /\ dropped[f] \in BOOLEAN
      /\ hook = [g \in Fields |-> hook[g]] /\ dropped \in [Fields -> BOOLEAN]
  BY DEF EInv, EditorParts, EditorTyped
<1>2. SUFFICES ASSUME NEW same \in BOOLEAN, same = (InputOf(f, held) = InputOf(f, form[f])),
                      NEW back \in BOOLEAN, back = (InputOf(f, held) = hook[f].lastSaved),
                      NEW h, h = (IF same THEN hook[f]
                                  ELSE IF back THEN [hook[f] EXCEPT !.timer = FALSE]
                                  ELSE [hook[f] EXCEPT !.timer = TRUE, !.shown = "pending"]),
                      NEW d, d = (dropped[f] \/ (~same /\ back))
               PROVE  EditorParts'
  OBVIOUS
<1>3. h \in Hook(f) /\ h.lastSaved = hook[f].lastSaved
      /\ (h.shown = "saved" => hook[f].shown = "saved")
      /\ (~same /\ ~back => h.timer)
  BY <1>1, <1>2 DEF Hook
<1>4. /\ d \in BOOLEAN
      /\ \/ d \/ h.timer
         \/ InputOf(f, held) = InputOf(f, form[f]) /\ h = hook[f] /\ d = dropped[f]
  <2>1. CASE same
    BY <1>1, <1>2, <2>1
  <2>2. CASE ~same
    BY <1>1, <1>2, <1>3, <2>2
  <2>3. QED BY <2>1, <2>2
<1>5. hook' = [hook EXCEPT ![f] = h]
  <2>1. CASE same
    <3>1. hook' = hook /\ h = hook[f]
      BY <1>2, <2>1 DEF Edit
    <3>2. QED BY <1>1, <3>1
  <2>2. CASE ~same
    <3>1. hook' = [hook EXCEPT ![f] = IF back THEN [@ EXCEPT !.timer = FALSE]
                                     ELSE [@ EXCEPT !.timer = TRUE, !.shown = "pending"]]
      BY <1>2, <2>2 DEF Edit
    <3>2. QED BY <1>1, <1>2, <2>2, <3>1
  <2>3. QED BY <2>1, <2>2
<1>6. dropped' = [dropped EXCEPT ![f] = d] /\ form' = [form EXCEPT ![f] = held]
  <2>1. dropped' = [dropped EXCEPT ![f] = @ \/ (~same /\ back)]
    BY <1>2 DEF Edit
  <2>2. form' = [form EXCEPT ![f] = held]
    BY DEF Edit
  <2>3. QED BY <1>1, <1>2, <2>1, <2>2
<1>7. left' \in Left
  BY <1>1, Spent DEF Edit
<1>8. UNCHANGED <<hosting, page, view, chain, clean>> /\ Mounted
  BY DEF Edit
<1>9. QED BY <1>3, <1>4, <1>5, <1>6, <1>7, <1>8, CardKeeps

LEMMA DisabledKeeps ==
  ASSUME EInv, NEW f \in Fields, Disabled(f)
  PROVE  EditorParts'
<1>1. /\ EditorTyped /\ hook[f] \in Hook(f) /\ form[f] \in Held(f)
      /\ form = [g \in Fields |-> form[g]] /\ hook = [g \in Fields |-> hook[g]]
      /\ UNCHANGED <<hosting, page, view, form, chain, clean, left>> /\ Mounted
  BY DEF EInv, EditorParts, EditorTyped, Disabled
<1>2. SUFFICES ASSUME NEW h, h = [hook[f] EXCEPT !.timer = FALSE] PROVE EditorParts'
  OBVIOUS
<1>3. h \in Hook(f) /\ h.lastSaved = hook[f].lastSaved /\ h.shown = hook[f].shown
  BY <1>1, <1>2 DEF Hook
<1>4. hook' = [hook EXCEPT ![f] = h] /\ dropped' = [dropped EXCEPT ![f] = TRUE]
  BY <1>1, <1>2 DEF Disabled
<1>5. form' = [form EXCEPT ![f] = form[f]]
  BY <1>1
<1>6. left' \in Left
  BY <1>1 DEF EditorTyped
<1>7. QED BY <1>1, <1>3, <1>4, <1>5, <1>6, CardKeeps

LEMMA CardTyped ==
  ASSUME NEW card \in Cards, NEW x \in DOMAIN CardValues, NEW value \in CardValues[x]
  PROVE  [card EXCEPT ![x] = value] \in Cards
<1>1. x \in {"title", "description", "date", "timed", "length", "capacityOn", "capacity"}
  BY DEF CardValues
<1>2. CASE x = "title"
  BY <1>2 DEF CardValues, Cards
<1>3. CASE x = "description"
  BY <1>3 DEF CardValues, Cards
<1>4. CASE x = "date"
  BY <1>4 DEF CardValues, Cards
<1>5. CASE x = "timed"
  BY <1>5 DEF CardValues, Cards
<1>6. CASE x = "length"
  BY <1>6 DEF CardValues, Cards
<1>7. CASE x = "capacityOn"
  BY <1>7 DEF CardValues, Cards
<1>8. CASE x = "capacity"
  BY <1>8 DEF CardValues, Cards
<1>9. QED BY <1>1, <1>2, <1>3, <1>4, <1>5, <1>6, <1>7, <1>8

LEMMA EditsKeep ==
  ASSUME EInv, EditDetails \/ EditQuestions
  PROVE  EditorParts'
<1>1. CASE EditDetails
  <2>1. "details" \in Fields /\ Held("details") = Cards /\ form["details"] \in Cards
        /\ left.cards \subseteq DOMAIN CardValues
    BY DEF EInv, EditorParts, EditorTyped, Held, Fields, Left
  <2>2. PICK x \in left.cards : \E value \in CardValues[x] :
               Edit("details", [form["details"] EXCEPT ![x] = value])
    BY <1>1 DEF EditDetails
  <2>3. PICK value \in CardValues[x] : Edit("details", [form["details"] EXCEPT ![x] = value])
    BY <2>2
  <2>4. [form["details"] EXCEPT ![x] = value] \in Cards
    BY <2>1, CardTyped
  <2>5. QED BY <2>1, <2>3, <2>4, EditKeeps
<1>2. CASE EditQuestions
  <2>1. "questions" \in Fields /\ form["questions"] \in Held("questions")
        /\ Held("questions") = Lists
    BY DEF EInv, EditorParts, EditorTyped, Held, Fields
  <2>2. SUFFICES ASSUME NEW list \in Lists, list = form["questions"] PROVE EditorParts'
    BY <2>1
  <2>3. PICK next \in Add(list) \cup Update(list) \cup Move(list) \cup Duplicate(list) \cup Delete(list) :
               Edit("questions", next)
    BY <1>2, <2>2 DEF EditQuestions
  <2>4. next \in Lists
    BY <2>3, EditsTyped
  <2>5. QED BY <2>1, <2>3, <2>4, EditKeeps
<1>3. QED BY <1>1, <1>2

-----------------------------------------------------------------------------
(* The chains move on *)

LEMMA FireKeeps ==
  ASSUME EInv, NEW f \in Fields, Fire(f)
  PROVE  EditorParts'
<1>1. /\ EditorParts /\ EditorTyped /\ Mounted /\ page.open \in Visits
      /\ page.open = page.last
      /\ UNCHANGED <<hosting, page, view, form, act, clean, dropped, left>>
  BY OpenVisit DEF EInv, EditorParts, Fire
<1>2. SUFFICES ASSUME NEW v \in Visits, v = page.open, NEW queue, queue = chain[v][f],
                      NEW sent, sent = InputOf(f, form[f]),
                      NEW h, h = [hook[f] EXCEPT !.timer = FALSE,
                                  !.shown = IF queue = <<>> THEN "saving" ELSE hook[f].shown]
               PROVE  EditorParts'
  BY <1>1
<1>3. /\ queue \in Seq(Value(f)) /\ sent \in Value(f) /\ hook[f] \in Hook(f)
      /\ hook = [g \in Fields |-> hook[g]]
      /\ chain = [w \in Visits |-> [g \in Fields |-> chain[w][g]]]
  BY <1>1, <1>2, QueuesTyped, InputTyped DEF EditorTyped
<1>4. chain' = [chain EXCEPT ![v][f] = Append(queue, sent)] /\ hook' = [hook EXCEPT ![f] = h]
  <2>1. chain' = [chain EXCEPT ![v][f] = Append(@, sent)]
    BY <1>2 DEF Fire
  <2>2. hook' = [hook EXCEPT ![f] = h]
    <3>1. hook' = [hook EXCEPT ![f] =
                     [@ EXCEPT !.timer = FALSE,
                               !.shown = IF chain[page.open][f] = <<>> THEN "saving"
                                         ELSE hook[f].shown]]
      BY DEF Fire
    <3>2. QED BY <1>2, <1>3, <3>1
  <2>3. QED BY <1>2, <1>3, <2>1, <2>2
<1>5. /\ chain'[v][f] = Append(queue, sent) /\ hook'[f] = h
      /\ \A w \in Visits, g \in Fields : w # v \/ g # f => chain'[w][g] = chain[w][g]
      /\ \A g \in Fields \ {f} : hook'[g] = hook[g]
      /\ hook' = [g \in Fields |-> hook'[g]]
      /\ chain' = [w \in Visits |-> [g \in Fields |-> chain'[w][g]]]
  <2>1. /\ hook'[f] = h /\ \A g \in Fields \ {f} : hook'[g] = hook[g]
        /\ hook' = [g \in Fields |-> hook'[g]]
    BY <1>3, <1>4
  <2>2. /\ chain'[v][f] = Append(queue, sent)
        /\ \A w \in Visits, g \in Fields : w # v \/ g # f => chain'[w][g] = chain[w][g]
        /\ chain' = [w \in Visits |-> [g \in Fields |-> chain'[w][g]]]
    BY <1>3, <1>4
  <2>3. QED BY <2>1, <2>2
<1>6. /\ Append(queue, sent) \in Seq(Value(f)) /\ Append(queue, sent) # <<>>
      /\ Append(queue, sent)[Len(Append(queue, sent))] = sent
      /\ queue # <<>> => Head(Append(queue, sent)) = Head(queue)
  BY <1>3, QueueFacts
<1>7. h \in Hook(f) /\ h.shown # "saved"
  <2>1. queue # <<>> => hook[f].shown # "saved"
    BY <1>1, <1>2 DEF EditorParts, CardsOK
  <2>2. QED BY <1>2, <1>3, <2>1 DEF Hook
<1>8. EditorTyped'
  <2>1. \A g \in Fields : form'[g] \in Held(g) /\ hook'[g] \in Hook(g)
    BY <1>1, <1>5, <1>7 DEF EditorTyped
  <2>2. /\ view' = NoView \/ view' \in Views
        /\ page' \in [open : 0 .. MaxVisits, last : 0 .. MaxVisits]
        /\ page'.open # 0 => page'.open = page'.last
        /\ clean' \in [Fields -> BOOLEAN] /\ dropped' \in [Fields -> BOOLEAN]
        /\ form' = [g \in Fields |-> form'[g]]
        /\ left' \in Left
    BY <1>1 DEF EditorTyped, Mounted
  <2>3. \A w \in Visits, g \in Fields : chain'[w][g] \in Seq(Value(g))
    BY <1>1, <1>5, <1>6 DEF EditorTyped
  <2>4. QED BY <1>5, <2>1, <2>2, <2>3, TypedAs
<1>9. /\ Roles' /\ \A g \in Fields : Kept(g)' = Kept(g)
      /\ UNCHANGED <<contest, slot, call>>
      /\ \A c : (Written(c) => Written(c)') /\ (WrittenDetails(c) => WrittenDetails(c)')
  BY <1>1, PageOnly
<1>10. ChainsOK'
  <2> SUFFICES ASSUME NEW w \in Visits, NEW g \in Fields
               PROVE  /\ w > page.last => chain'[w][g] = <<>>
                      /\ ~At(<<w, g>>, "idle") => chain'[w][g] # <<>>
                      /\ call[<<w, g>>].step \in StepsOf(g) \cup {"done"} =>
                            Suits(g, Carried(call[<<w, g>>], g), Head(chain'[w][g]))
    BY <1>1, <1>9 DEF ChainsOK, At
  <2>1. /\ w > page.last => chain[w][g] = <<>>
        /\ ~At(<<w, g>>, "idle") => chain[w][g] # <<>>
        /\ call[<<w, g>>].step \in StepsOf(g) \cup {"done"} =>
              Suits(g, Carried(call[<<w, g>>], g), Head(chain[w][g]))
    BY <1>1 DEF EditorParts, ChainsOK
  <2>2. CASE w = v /\ g = f
    <3>1. ~(w > page.last)
      BY <1>1, <1>2, <2>2, BudgetsAssumption DEF Visits
    <3>2. "idle" \notin StepsOf(g) \cup {"done"}
      BY DEF StepsOf, SaveSteps
    <3>3. QED BY <1>2, <1>5, <1>6, <2>1, <2>2, <3>1, <3>2 DEF At
  <2>3. CASE ~(w = v /\ g = f)
    BY <1>5, <2>1, <2>3
  <2>4. QED BY <2>2, <2>3
<1>11. CardsOK'
  <2> SUFFICES ASSUME NEW g \in Fields
               PROVE  /\ hook'[g].shown = "saved" => chain'[v][g] = <<>>
                      /\ ~dropped[g] /\ ~hook'[g].timer =>
                            /\ chain'[v][g] # <<>> => InputOf(g, form[g]) = chain'[v][g][Len(chain'[v][g])]
                            /\ chain'[v][g] = <<>> /\ hook'[g].shown = "saved" =>
                                  InputOf(g, form[g]) = hook'[g].lastSaved
    BY <1>1, <1>2 DEF CardsOK
  <2>1. CASE g = f
    BY <1>2, <1>5, <1>6, <1>7, <2>1
  <2>2. CASE g # f
    <3>1. chain'[v][g] = chain[v][g] /\ hook'[g] = hook[g]
      BY <1>5, <2>2
    <3>2. QED BY <1>1, <1>2, <3>1 DEF EditorParts, CardsOK
  <2>3. QED BY <2>1, <2>2
<1>12. OneWriter'
  <2>1. \A g \in Fields : hook'[g].shown = "saved" => hook'[g] = hook[g]
    BY <1>5, <1>7
  <2>2. \A g \in Fields : \A w \in Visits \ {page.open} : chain'[w][g] = chain[w][g]
    BY <1>2, <1>5
  <2>3. QED BY <1>1, <1>9, <2>1, <2>2 DEF EditorParts, OneWriter, At, Mounted
<1>13. QED BY <1>8, <1>9, <1>10, <1>11, <1>12 DEF EditorParts

LEMMA ActSettlesKeeps ==
  ASSUME EInv, ActSettles
  PROVE  EditorParts'
<1>1. /\ IInv /\ EditorParts /\ EditorTyped /\ Act \in Calls /\ Act # Elsewhere
      /\ UNCHANGED <<view, form, chain, clean, dropped, left>>
      /\ call'[Act].step = "idle" /\ \A j \in Calls \ {Act} : call'[j] = call[j]
      /\ UNCHANGED <<contest, slot>>
  BY Requests, Answers DEF EInv, EditorParts, ActSettles
<1>2. Roles'
  BY <1>1, RolesFrame, Requests DEF Stands
<1>3. page'.last = page.last /\ page' \in [open : 0 .. MaxVisits, last : 0 .. MaxVisits]
      /\ (Mounted' => Mounted /\ page' = page /\ hook' = hook)
      /\ hook' = [f \in Fields |-> hook'[f]] /\ \A f \in Fields : hook'[f] \in Hook(f)
  <2>1. CASE page' = [page EXCEPT !.open = 0] /\ hook' = Stopped
    <3>1. 0 \in 0 .. MaxVisits /\ page \in [open : 0 .. MaxVisits, last : 0 .. MaxVisits]
      BY <1>1, BudgetsAssumption DEF EditorTyped
    <3>2. /\ page'.last = page.last /\ page'.open = 0
          /\ page' \in [open : 0 .. MaxVisits, last : 0 .. MaxVisits]
      BY <2>1, <3>1
    <3>3. QED BY <1>1, <2>1, <3>2, StoppedTyped DEF Mounted
  <2>2. CASE UNCHANGED <<page, hook>>
    BY <1>1, <2>2 DEF EditorTyped, Mounted
  <2>3. QED BY <2>1, <2>2 DEF ActSettles
<1>4. EditorTyped'
  <2>1. /\ view' = NoView \/ view' \in Views
        /\ page'.open # 0 => page'.open = page'.last
        /\ clean' \in [Fields -> BOOLEAN] /\ dropped' \in [Fields -> BOOLEAN]
        /\ form' = [g \in Fields |-> form'[g]] /\ \A g \in Fields : form'[g] \in Held(g)
        /\ left' \in Left
    BY <1>1, <1>3 DEF EditorTyped, Mounted
  <2>2. /\ chain' = [w \in Visits |-> [g \in Fields |-> chain'[w][g]]]
        /\ \A w \in Visits, g \in Fields : chain'[w][g] \in Seq(Value(g))
    BY <1>1 DEF EditorTyped
  <2>3. QED BY <1>3, <2>1, <2>2, TypedAs
<1>5. \A v \in Visits, f \in Fields : call'[<<v, f>>] = call[<<v, f>>]
  BY <1>1, Requests
<1>6. ChainsOK'
  <2> SUFFICES ASSUME NEW v \in Visits, NEW f \in Fields
               PROVE  /\ v > page.last => chain[v][f] = <<>>
                      /\ call'[<<v, f>>].step # "idle" => chain[v][f] # <<>>
                      /\ call'[<<v, f>>].step \in StepsOf(f) \cup {"done"} =>
                            Suits(f, Carried(call'[<<v, f>>], f), Head(chain[v][f]))
    BY <1>1, <1>3 DEF ChainsOK, At
  <2>1. call'[<<v, f>>] = call[<<v, f>>]
    BY <1>5
  <2>2. /\ v > page.last => chain[v][f] = <<>>
        /\ ~At(<<v, f>>, "idle") => chain[v][f] # <<>>
        /\ call[<<v, f>>].step \in StepsOf(f) \cup {"done"} =>
              Suits(f, Carried(call[<<v, f>>], f), Head(chain[v][f]))
    BY <1>1 DEF EditorParts, ChainsOK
  <2>3. At(<<v, f>>, "idle") <=> call[<<v, f>>].step = "idle"
    BY DEF At
  <2>4. QED BY <2>1, <2>2, <2>3
<1>7. CardsOK'
  BY <1>1, <1>3 DEF EditorParts, CardsOK
<1>8. OneWriter'
  <2> SUFFICES ASSUME Mounted', contest.status # "deleted", NEW f \in Fields, clean[f]
               PROVE  /\ At(Elsewhere, "idle")'
                      /\ \A v \in Visits \ {page.open} : chain[v][f] = <<>>
                      /\ hook[f].shown = "saved" => Suits(f, Kept(f)', hook[f].lastSaved)
                      /\ IF f = "details" THEN WrittenDetails(call[<<page.open, f>>])'
                                          ELSE Written(call[<<page.open, f>>])'
    BY <1>1, <1>3 DEF OneWriter
  <2>1. Mounted /\ UNCHANGED <<page, hook>> /\ page.open \in Visits
    BY <1>1, <1>3, OpenVisit
  <2>2. /\ At(Elsewhere, "idle")
        /\ \A v \in Visits \ {page.open} : chain[v][f] = <<>>
        /\ hook[f].shown = "saved" => Suits(f, Kept(f), hook[f].lastSaved)
        /\ IF f = "details" THEN WrittenDetails(call[<<page.open, f>>])
                            ELSE Written(call[<<page.open, f>>])
    BY <1>1, <2>1 DEF EditorParts, OneWriter
  <2>3. At(Elsewhere, "idle")'
    BY <1>1, <2>2, Requests DEF At
  <2>4. Kept(f)' = Kept(f)
    BY <1>1, ServerStays, Requests
  <2>5. IF f = "details" THEN WrittenDetails(call[<<page.open, f>>])'
                         ELSE Written(call[<<page.open, f>>])'
    <3>1. call'[<<page.open, f>>] = call[<<page.open, f>>]
      BY <1>5, <2>1
    <3>2. CASE f = "details"
      BY <1>1, <2>1, <2>2, <3>1, <3>2 DEF WrittenDetails
    <3>3. CASE f # "details"
      BY <1>1, <2>1, <2>2, <3>1, <3>3 DEF Written
    <3>4. QED BY <3>2, <3>3
  <2>6. QED BY <2>2, <2>3, <2>4, <2>5
<1>9. QED BY <1>2, <1>4, <1>6, <1>7, <1>8 DEF EditorParts

LEMMA SettleChain ==
  ASSUME EInv, NEW v \in Visits, NEW f \in Fields, NEW heard \in BOOLEAN, Settle(v, f, heard)
  PROVE  /\ chain[v][f] # <<>> /\ Tail(chain[v][f]) \in Seq(Value(f))
         /\ chain'[v][f] = Tail(chain[v][f])
         /\ \A w \in Visits, g \in Fields : w # v \/ g # f => chain'[w][g] = chain[w][g]
         /\ chain' = [w \in Visits |-> [g \in Fields |-> chain'[w][g]]]
<1>1. SUFFICES ASSUME NEW rest, rest = Tail(chain[v][f])
               PROVE  /\ chain[v][f] # <<>> /\ rest \in Seq(Value(f))
                      /\ chain'[v][f] = rest
                      /\ \A w \in Visits, g \in Fields : w # v \/ g # f => chain'[w][g] = chain[w][g]
                      /\ chain' = [w \in Visits |-> [g \in Fields |-> chain'[w][g]]]
  OBVIOUS
<1>2. chain = [w \in Visits |-> [g \in Fields |-> chain[w][g]]]
      /\ chain[v][f] \in Seq(Value(f))
  BY QueuesTyped DEF EInv, EditorParts, EditorTyped
<1>3. chain[v][f] # <<>> /\ chain' = [chain EXCEPT ![v][f] = rest]
  BY <1>1 DEF Settle
<1>4. rest \in Seq(Value(f))
  BY <1>1, <1>2, <1>3, QueueFacts
<1>5. /\ chain'[v][f] = rest
      /\ \A w \in Visits, g \in Fields : w # v \/ g # f => chain'[w][g] = chain[w][g]
      /\ chain' = [w \in Visits |-> [g \in Fields |-> chain'[w][g]]]
  BY <1>2, <1>3
<1>6. QED BY <1>3, <1>4, <1>5

LEMMA SettleFacts ==
  ASSUME EInv, NEW v \in Visits, NEW f \in Fields, NEW heard \in BOOLEAN, Settle(v, f, heard)
  PROVE  /\ UNCHANGED <<contest, slot, page, form, clean, dropped>>
         /\ call'[<<v, f>>].step = "idle"
         /\ \A j \in Calls \ {<<v, f>>} : call'[j] = call[j]
         /\ \A g \in Fields : page.open # v \/ g # f => hook'[g] = hook[g]
         /\ hook' = [g \in Fields |-> hook'[g]]
         /\ page.open = v =>
               /\ hook'[f] \in Hook(f) /\ hook'[f].timer = hook[f].timer
               /\ hook'[f].shown = "saved" =>
                     /\ Tail(chain[v][f]) = <<>> /\ At(<<v, f>>, "done")
                     /\ hook'[f].lastSaved = Head(chain[v][f])
         /\ view' = NoView \/ view' \in Views
         /\ left' \in Left
<1>1. /\ IInv /\ EditorTyped /\ <<v, f>> \in Calls
      /\ chain = [w \in Visits |-> [g \in Fields |-> chain[w][g]]]
      /\ hook = [g \in Fields |-> hook[g]]
      /\ chain[v][f] \in Seq(Value(f)) /\ hook[f] \in Hook(f)
  BY Requests, QueuesTyped DEF EInv, EditorParts, EditorTyped
<1>2. Answered(<<v, f>>) /\ UNCHANGED <<page, form, clean, dropped>> /\ chain[v][f] # <<>>
  BY DEF Settle
<1>3. /\ UNCHANGED <<contest, slot>> /\ call'[<<v, f>>].step = "idle"
      /\ \A j \in Calls \ {<<v, f>>} : call'[j] = call[j]
  BY <1>1, <1>2, Answers
<1>4. SUFFICES ASSUME NEW rest, rest = Tail(chain[v][f]), NEW first, first = Head(chain[v][f]),
                      NEW saved, saved = (heard /\ At(<<v, f>>, "done")),
                      NEW h, h = [hook[f] EXCEPT !.lastSaved = IF saved THEN first ELSE hook[f].lastSaved,
                                                 !.shown = IF rest # <<>> THEN "saving"
                                                           ELSE IF saved THEN "saved" ELSE "failed"]
               PROVE  /\ \A g \in Fields : page.open # v \/ g # f => hook'[g] = hook[g]
                      /\ hook' = [g \in Fields |-> hook'[g]]
                      /\ page.open = v =>
                            /\ hook'[f] \in Hook(f) /\ hook'[f].timer = hook[f].timer
                            /\ hook'[f].shown = "saved" =>
                                  /\ rest = <<>> /\ At(<<v, f>>, "done")
                                  /\ hook'[f].lastSaved = first
                      /\ view' = NoView \/ view' \in Views
                      /\ left' \in Left
  BY <1>2, <1>3
<1>5. first \in Value(f)
  BY <1>1, <1>2, <1>4, QueueFacts
<1>8. page.open # v => hook' = hook
  BY DEF Settle
<1>9. page.open = v => hook' = [hook EXCEPT ![f] = h]
  <2> SUFFICES ASSUME page.open = v PROVE hook' = [hook EXCEPT ![f] = h]
    OBVIOUS
  <2>1. hook' = [hook EXCEPT ![f] =
                   [@ EXCEPT !.lastSaved = IF saved THEN first ELSE hook[f].lastSaved,
                             !.shown = IF rest # <<>> THEN "saving"
                                       ELSE IF saved THEN "saved" ELSE "failed"]]
    BY <1>4 DEF Settle
  <2>2. QED BY <1>1, <1>4, <2>1
<1>10. /\ h \in Hook(f) /\ h.timer = hook[f].timer
       /\ h.shown = "saved" => rest = <<>> /\ At(<<v, f>>, "done") /\ h.lastSaved = first
  <2>1. saved => At(<<v, f>>, "done")
    BY <1>4
  <2>2. h.timer = hook[f].timer
    BY <1>1, <1>4 DEF Hook
  <2>3. h.lastSaved = (IF saved THEN first ELSE hook[f].lastSaved)
    BY <1>1, <1>4 DEF Hook
  <2>4. h.shown = (IF rest # <<>> THEN "saving" ELSE IF saved THEN "saved" ELSE "failed")
    BY <1>1, <1>4 DEF Hook
  <2>5. h \in Hook(f)
    BY <1>1, <1>4, <1>5 DEF Hook
  <2>6. QED BY <2>1, <2>2, <2>3, <2>4, <2>5
<1>11. /\ \A g \in Fields : page.open # v \/ g # f => hook'[g] = hook[g]
       /\ hook' = [g \in Fields |-> hook'[g]]
       /\ page.open = v => hook'[f] = h
  <2>1. CASE page.open # v
    BY <1>1, <1>8, <2>1
  <2>2. CASE page.open = v
    BY <1>1, <1>9, <2>2
  <2>3. QED BY <2>1, <2>2
<1>12. view' = NoView \/ view' \in Views
  <2>1. view' \in {view, Fresh}
    BY DEF Settle
  <2>2. QED BY <1>1, <2>1, ViewTyped DEF EditorTyped
<1>13. left' \in Left
  <2>1. left' = left \/ (left.fails > 0 /\ left' = [left EXCEPT !.fails = @ - 1])
    BY DEF Settle
  <2>2. QED BY <1>1, <2>1, Spent DEF EditorTyped
<1>14. QED BY <1>10, <1>11, <1>12, <1>13

LEMMA SettleKeeps ==
  ASSUME EInv, NEW v \in Visits, NEW f \in Fields, NEW heard \in BOOLEAN, Settle(v, f, heard)
  PROVE  EditorParts'
<1>1. /\ IInv /\ EditorParts /\ EditorTyped /\ <<v, f>> \in Calls /\ <<v, f>> \in Saves
      /\ <<v, f>> # Act /\ <<v, f>> # Elsewhere
      /\ UNCHANGED <<contest, slot, page, form, clean, dropped>>
      /\ call'[<<v, f>>].step = "idle"
      /\ \A j \in Calls \ {<<v, f>>} : call'[j] = call[j]
      /\ chain[v][f] # <<>>
      /\ chain'[v][f] = Tail(chain[v][f]) /\ Tail(chain[v][f]) \in Seq(Value(f))
      /\ \A w \in Visits, g \in Fields : w # v \/ g # f => chain'[w][g] = chain[w][g]
      /\ \A g \in Fields : page.open # v \/ g # f => hook'[g] = hook[g]
      /\ page.open = v =>
            /\ hook'[f] \in Hook(f) /\ hook'[f].timer = hook[f].timer
            /\ hook'[f].shown = "saved" =>
                  /\ Tail(chain[v][f]) = <<>> /\ At(<<v, f>>, "done")
                  /\ hook'[f].lastSaved = Head(chain[v][f])
  <2>1. /\ IInv /\ EditorParts /\ EditorTyped /\ <<v, f>> \in Calls /\ <<v, f>> \in Saves
        /\ <<v, f>> # Act /\ <<v, f>> # Elsewhere
    BY Requests DEF EInv, EditorParts, Saves
  <2>2. /\ UNCHANGED <<contest, slot, page, form, clean, dropped>>
        /\ call'[<<v, f>>].step = "idle"
        /\ \A j \in Calls \ {<<v, f>>} : call'[j] = call[j]
    BY SettleFacts
  <2>3. /\ chain[v][f] # <<>>
        /\ chain'[v][f] = Tail(chain[v][f]) /\ Tail(chain[v][f]) \in Seq(Value(f))
    BY SettleChain
  <2>6. \A w \in Visits, g \in Fields : w # v \/ g # f => chain'[w][g] = chain[w][g]
    BY SettleChain
  <2>4. /\ \A g \in Fields : page.open # v \/ g # f => hook'[g] = hook[g]
        /\ page.open = v =>
              /\ hook'[f] \in Hook(f) /\ hook'[f].timer = hook[f].timer
              /\ hook'[f].shown = "saved" =>
                    /\ Tail(chain[v][f]) = <<>> /\ At(<<v, f>>, "done")
                    /\ hook'[f].lastSaved = Head(chain[v][f])
    BY SettleFacts
  <2>5. QED BY <2>1, <2>2, <2>3, <2>4, <2>6, Zenon
<1>2. EditorTyped'
  <2>1. /\ chain' = [w \in Visits |-> [g \in Fields |-> chain'[w][g]]]
        /\ hook' = [g \in Fields |-> hook'[g]]
        /\ view' = NoView \/ view' \in Views
        /\ left' \in Left
    <3>1. chain' = [w \in Visits |-> [g \in Fields |-> chain'[w][g]]]
      BY SettleChain
    <3>2. /\ hook' = [g \in Fields |-> hook'[g]]
          /\ view' = NoView \/ view' \in Views
          /\ left' \in Left
      BY SettleFacts
    <3>3. QED BY <3>1, <3>2, Zenon
  <2>2. /\ page' \in [open : 0 .. MaxVisits, last : 0 .. MaxVisits]
        /\ page'.open # 0 => page'.open = page'.last
        /\ form' = [g \in Fields |-> form'[g]] /\ \A g \in Fields : form'[g] \in Held(g)
        /\ clean' \in [Fields -> BOOLEAN] /\ dropped' \in [Fields -> BOOLEAN]
    BY <1>1 DEF EditorTyped, Mounted
  <2>3. \A g \in Fields : hook'[g] \in Hook(g)
    BY <1>1 DEF EditorTyped
  <2>4. ASSUME NEW w \in Visits, NEW g \in Fields PROVE chain'[w][g] \in Seq(Value(g))
    <3>1. CASE w = v /\ g = f
      <4>1. chain'[v][f] = Tail(chain[v][f]) /\ Tail(chain[v][f]) \in Seq(Value(f))
        BY <1>1
      <4>2. QED BY <3>1, <4>1
    <3>2. CASE w # v \/ g # f
      <4>1. chain'[w][g] = chain[w][g]
        BY <1>1, <3>2
      <4>2. chain[w][g] \in Seq(Value(g))
        BY <1>1, QueuesTyped
      <4>3. QED BY <4>1, <4>2
    <3>3. QED BY <3>1, <3>2
  <2>5. QED BY <2>1, <2>2, <2>3, <2>4, TypedAs
<1>3. Roles'
  <2>1. \A w \in Visits, g \in Fields : <<v, f>> = <<w, g>> => g = f
    OBVIOUS
  <2>2. QED BY <1>1, <2>1, RolesFrame DEF Stands
<1>4. \A w \in Visits, g \in Fields : w # v \/ g # f => call'[<<w, g>>] = call[<<w, g>>]
  BY <1>1, Requests
<1>5. ChainsOK'
  <2> SUFFICES ASSUME NEW w \in Visits, NEW g \in Fields
               PROVE  /\ w > page.last => chain'[w][g] = <<>>
                      /\ call'[<<w, g>>].step # "idle" => chain'[w][g] # <<>>
                      /\ call'[<<w, g>>].step \in StepsOf(g) \cup {"done"} =>
                            Suits(g, Carried(call'[<<w, g>>], g), Head(chain'[w][g]))
    BY <1>1 DEF ChainsOK, At
  <2>1. /\ w > page.last => chain[w][g] = <<>>
        /\ call[<<w, g>>].step # "idle" => chain[w][g] # <<>>
        /\ call[<<w, g>>].step \in StepsOf(g) \cup {"done"} =>
              Suits(g, Carried(call[<<w, g>>], g), Head(chain[w][g]))
    BY <1>1 DEF EditorParts, ChainsOK, At
  <2>2. CASE w = v /\ g = f
    <3>1. "idle" \notin StepsOf(g) \cup {"done"}
      BY DEF StepsOf, SaveSteps
    <3>2. QED BY <1>1, <2>1, <2>2, <3>1
  <2>3. CASE w # v \/ g # f
    BY <1>1, <1>4, <2>1, <2>3
  <2>4. QED BY <2>2, <2>3
<1>6. CardsOK'
  <2> SUFFICES ASSUME Mounted, NEW g \in Fields, NEW w \in Visits, w = page.open
               PROVE  /\ hook'[g].shown = "saved" => chain'[w][g] = <<>>
                      /\ ~dropped[g] /\ ~hook'[g].timer =>
                            /\ chain'[w][g] # <<>> => InputOf(g, form[g]) = chain'[w][g][Len(chain'[w][g])]
                            /\ chain'[w][g] = <<>> /\ hook'[g].shown = "saved" =>
                                  InputOf(g, form[g]) = hook'[g].lastSaved
    BY <1>1, OpenVisit DEF CardsOK, Mounted
  <2>1. /\ hook[g].shown = "saved" => chain[w][g] = <<>>
        /\ ~dropped[g] /\ ~hook[g].timer =>
              /\ chain[w][g] # <<>> => InputOf(g, form[g]) = chain[w][g][Len(chain[w][g])]
              /\ chain[w][g] = <<>> /\ hook[g].shown = "saved" =>
                    InputOf(g, form[g]) = hook[g].lastSaved
    BY <1>1 DEF EditorParts, CardsOK
  <2>2. CASE w = v /\ g = f
    <3>1. /\ Tail(chain[v][f]) = <<>> => Head(chain[v][f]) = chain[v][f][Len(chain[v][f])]
          /\ Tail(chain[v][f]) # <<>> =>
                Tail(chain[v][f])[Len(Tail(chain[v][f]))] = chain[v][f][Len(chain[v][f])]
      <4>1. chain[v][f] \in Seq(Value(f)) /\ chain[v][f] # <<>>
        BY <1>1, QueuesTyped
      <4>2. QED BY <4>1, QueueFacts
    <3>2. /\ chain'[w][g] = Tail(chain[v][f]) /\ hook'[g].timer = hook[g].timer
          /\ hook'[g].shown = "saved" =>
                Tail(chain[v][f]) = <<>> /\ hook'[g].lastSaved = Head(chain[v][f])
          /\ chain[w][g] = chain[v][f] /\ chain[v][f] # <<>>
      BY <1>1, <2>2
    <3>3. QED BY <2>1, <3>1, <3>2
  <2>3. CASE w # v \/ g # f
    <3>1. chain'[w][g] = chain[w][g] /\ hook'[g] = hook[g]
      BY <1>1, <2>3
    <3>2. QED BY <2>1, <3>1
  <2>4. QED BY <2>2, <2>3
<1>7. OneWriter'
  <2> SUFFICES ASSUME Mounted, contest.status # "deleted", NEW g \in Fields, clean[g],
                      NEW o \in Visits, o = page.open
               PROVE  /\ At(Elsewhere, "idle")'
                      /\ \A w \in Visits \ {o} : chain'[w][g] = <<>>
                      /\ hook'[g].shown = "saved" => Suits(g, Kept(g)', hook'[g].lastSaved)
                      /\ IF g = "details" THEN WrittenDetails(call[<<page.open, g>>])'
                                          ELSE Written(call[<<page.open, g>>])'
    BY <1>1, OpenVisit DEF OneWriter, Mounted
  <2>1. /\ At(Elsewhere, "idle")
        /\ \A w \in Visits \ {o} : chain[w][g] = <<>>
        /\ hook[g].shown = "saved" => Suits(g, Kept(g), hook[g].lastSaved)
        /\ IF g = "details" THEN WrittenDetails(call[<<o, g>>]) ELSE Written(call[<<o, g>>])
    BY <1>1 DEF EditorParts, OneWriter
  <2>2. At(Elsewhere, "idle")'
    BY <1>1, <2>1, Requests DEF At
  <2>3. \A w \in Visits \ {o} : chain'[w][g] = <<>>
    BY <1>1, <2>1
  <2>4. Kept(g)' = Kept(g)
    BY <1>1, ServerStays, Requests
  <2>5. hook'[g].shown = "saved" => Suits(g, Kept(g), hook'[g].lastSaved)
    <3>1. CASE o = v /\ g = f
      <4> SUFFICES ASSUME hook'[f].shown = "saved" PROVE Suits(f, Kept(f), hook'[f].lastSaved)
        BY <3>1
      <4>1. At(<<v, f>>, "done") /\ hook'[f].lastSaved = Head(chain[v][f])
        BY <1>1, <3>1
      <4>2. Suits(f, Carried(call[<<v, f>>], f), Head(chain[v][f])) /\ Head(chain[v][f]) \in Value(f)
        BY <1>1, <4>1, QueuesTyped DEF EditorParts, ChainsOK, At
      <4>3. CASE f = "details"
        <5>1. WrittenDetails(call[<<v, f>>]) /\ call[<<v, f>>].step = "done"
          BY <2>1, <3>1, <4>1, <4>3 DEF At
        <5>2. contest.details = call[<<v, f>>].details
          BY <5>1 DEF WrittenDetails
        <5>3. Kept(f) = Carried(call[<<v, f>>], f)
          BY <4>3, <5>2 DEF Kept, Carried
        <5>4. QED BY <4>1, <4>2, <5>3
      <4>4. CASE f # "details"
        <5>1. f = "questions"
          BY <4>4, Requests
        <5>2. call[<<v, f>>].step = "done" /\ Written(call[<<v, f>>])
              /\ call[<<v, f>>].list = Head(chain[v][f]) /\ call[<<v, f>>].list \in Lists
          BY <2>1, <3>1, <4>1, <4>2, <4>4 DEF At, Carried, Suits, Value
        <5>3. Kept(f) = Head(chain[v][f])
          BY <5>1, <5>2, DoneSaved
        <5>4. QED BY <4>1, <4>4, <5>3 DEF Suits
      <4>5. QED BY <4>3, <4>4
    <3>2. CASE o # v \/ g # f
      BY <1>1, <2>1, <3>2
    <3>3. QED BY <3>1, <3>2
  <2>6. IF g = "details" THEN WrittenDetails(call[<<page.open, g>>])'
                         ELSE Written(call[<<page.open, g>>])'
    <3>1. CASE o = v /\ g = f
      <4>1. call'[<<page'.open, g>>].step = "idle"
        BY <1>1, <3>1
      <4>2. QED BY <4>1 DEF WrittenDetails, Written, SaveSteps
    <3>2. CASE o # v \/ g # f
      <4>1. call'[<<page'.open, g>>] = call[<<o, g>>] /\ page'.open = o
        BY <1>1, <1>4, <3>2
      <4>2. CASE g = "details"
        <5>1. WrittenDetails(call[<<o, g>>]) /\ contest' = contest
          BY <1>1, <2>1, <4>2
        <5>2. WrittenDetails(call[<<page.open, g>>])'
          BY <4>1, <5>1 DEF WrittenDetails
        <5>3. QED BY <4>2, <5>2
      <4>3. CASE g # "details"
        <5>1. Written(call[<<o, g>>]) /\ slot' = slot
          BY <1>1, <2>1, <4>3
        <5>2. Written(call[<<page.open, g>>])'
          BY <4>1, <5>1 DEF Written
        <5>3. QED BY <4>3, <5>2
      <4>4. QED BY <4>2, <4>3
    <3>3. QED BY <3>1, <3>2
  <2>7. QED BY <2>2, <2>3, <2>4, <2>5, <2>6
<1>8. QED BY <1>2, <1>3, <1>5, <1>6, <1>7 DEF EditorParts

-----------------------------------------------------------------------------
(* The editor *)

LEMMA EditorStepOK == EInv /\ [EditorNext]_vars => EInv'
<1> SUFFICES ASSUME EInv, [EditorNext]_vars PROVE EInv'
  OBVIOUS
<1>1. IInv /\ EditorParts /\ EditorTyped
  BY DEF EInv, EditorParts
<1>2. CASE EditorNext
  <2>1. IInv'
    <3>1. [Next]_hosting
      BY <1>1, <1>2, ServerStep, Zenon
    <3>2. QED BY <1>1, <3>1, StepOK, Zenon
  <2>2. EditorParts'
    <3>1. CASE Open
      BY <3>1, OpenKeeps
    <3>2. CASE Refetch \/ PublishClick \/ DeleteClick
      BY <3>2, LookKeeps
    <3>3. CASE Leave
      BY <3>3, LeaveKeeps
    <3>4. CASE Reload
      BY <3>4, ReloadKeeps
    <3>5. CASE EditDetails \/ EditQuestions
      BY <3>5, EditsKeep
    <3>6. ASSUME NEW f \in Fields, Disabled(f) \/ Fire(f) PROVE EditorParts'
      BY <3>6, DisabledKeeps, FireKeeps
    <3>7. ASSUME NEW v \in Visits, NEW f \in Fields,
                 Arrive(v, f) \/ \E heard \in BOOLEAN : Settle(v, f, heard)
          PROVE  EditorParts'
      BY <3>7, ArriveKeeps, SettleKeeps
    <3>8. CASE ActArrives
      BY <3>8, ActArrivesKeeps
    <3>9. CASE ActSettles
      BY <3>9, ActSettlesKeeps
    <3>10. CASE Other
      BY <3>10, OtherKeeps
    <3>11. ASSUME NEW k \in Calls, (Advance(k) /\ UNCHANGED tab) \/ Dies(k) PROVE EditorParts'
      BY <3>11, AdvanceKeeps, DiesKeeps
    <3>12. CASE Tick /\ UNCHANGED tab
      BY <3>12, TickKeeps
    <3>13. QED BY <1>2, <3>1, <3>2, <3>3, <3>4, <3>5, <3>6, <3>7, <3>8, <3>9, <3>10, <3>11, <3>12
           DEF EditorNext
  <2>3. QED BY <2>1, <2>2 DEF EInv
<1>3. CASE UNCHANGED vars
  <2>1. UNCHANGED hosting /\ UNCHANGED tab
    BY <1>3 DEF vars
  <2>2. IInv'
    BY <1>1, <2>1, StepOK, Zenon
  <2>3. EditorTyped' /\ CardsOK'
    BY <1>1, <2>1, TabStill
  <2>4. /\ Roles' /\ \A f \in Fields : Kept(f)' = Kept(f)
        /\ UNCHANGED <<contest, slot, call>>
        /\ \A c : (Written(c) => Written(c)') /\ (WrittenDetails(c) => WrittenDetails(c)')
    BY <1>1, <2>1, PageOnly
  <2>5. ChainsOK'
    BY <1>1, <2>1, <2>4 DEF EditorParts, ChainsOK, At, tab
  <2>6. OneWriter'
    BY <1>1, <2>1, <2>4 DEF EditorParts, OneWriter, At, Mounted, tab
  <2>7. QED BY <2>2, <2>3, <2>4, <2>5, <2>6 DEF EInv, EditorParts
<1>4. QED BY <1>2, <1>3

LEMMA InitEditor == EditorInit => EInv
<1>1. EditorInit => Init
  BY DEF EditorInit
<1>2. QED BY <1>1, InitOK, InitTypedEditor DEF EInv, EditorParts

\* The invariant of the server and of the tab on top of it.
THEOREM EditorInvariance == EditorSpec => []EInv
<1>1. QED BY InitEditor, EditorStepOK, PTL DEF EditorSpec

\* Every behaviour of the editor is one of the server alone: whatever the tab does,
\* at whatever moment, and however many visits overlap, the server sees requests
\* that it takes from anywhere (ContestEditor.tsx on contest-hosting.service.ts).
THEOREM EditorImplementsHosting == EditorSpec => Spec
<1>1. EditorInit => Init
  BY DEF EditorInit
<1>2. EInv /\ [EditorNext]_vars => [Next]_hosting
  <2>1. UNCHANGED vars => UNCHANGED hosting
    BY DEF vars
  <2>2. QED BY <2>1, ServerStep DEF EInv, EditorParts
<1>3. QED BY <1>1, <1>2, EditorInvariance, PTL DEF EditorSpec, Spec

\* What a card calls saved is on the server and is what it would send of what it
\* shows, for a visit that began from what the server has and has no other writer
\* (useAutosave.ts, ContestEditor.tsx); RestMeansSaved names what a card shows and
\* never sends.
THEOREM SavedIsOnTheServer == EditorSpec => []RestMeansSaved
<1>1. EInv => RestMeansSaved
  <2> SUFFICES ASSUME EInv, contest.status # "deleted", NEW f \in Fields,
                      Mounted, clean[f], Quiet(f), ~hook[f].timer, hook[f].shown = "saved"
               PROVE  /\ OnServer(f, hook[f].lastSaved)
                      /\ dropped[f] \/ InputOf(f, form[f]) = hook[f].lastSaved
    BY DEF RestMeansSaved
  <2>1. EditorTyped /\ CardsOK /\ OneWriter
    BY DEF EInv, EditorParts
  <2>2. chain[page.open][f] = <<>>
    BY <2>1, OpenVisit DEF Quiet
  <2>3. dropped[f] \/ InputOf(f, form[f]) = hook[f].lastSaved
    BY <2>1, <2>2 DEF CardsOK
  <2>4. Suits(f, Kept(f), hook[f].lastSaved)
    BY <2>1 DEF OneWriter
  <2>5. QED BY <2>3, <2>4, ServerSuits
<1>2. QED BY <1>1, EditorInvariance, PTL

\* What the server promises of a published, a saved and a deleted contest holds
\* under the editor too (contest-hosting.service.ts).
THEOREM PromisesUnderTheEditor ==
  EditorSpec => [](PublishedStaysPublishable /\ SavingAgainRepairs /\ DeletedLeavesNothing)
<1>1. QED BY EditorImplementsHosting, PublishedPublishable, SavesRepair, DeletesAll, PTL

=============================================================================
