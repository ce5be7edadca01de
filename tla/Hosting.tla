------------------------------- MODULE Hosting -------------------------------
(***************************************************************************)
(* One contest as its host edits it: the requests of ContestHostingService *)
(* that change a draft, its questions and its status, step by step between *)
(* their database calls.  Requests of any number of pages overlap, and any *)
(* of them may stop after any step.                                        *)
(*                                                                         *)
(* A question is told apart by whether publishChecks accepts it.  The free *)
(* slots of publish are module FreeSlots, the places of updateDetails      *)
(* ContestPlaces.                                                          *)
(***************************************************************************)
EXTENDS Integers, Sequences

CONSTANTS
    Calls,          \* requests that can be in flight at once
    Questions,      \* what a question can be
    Complete,       \* the questions that pass the checks
    Titles,         \* that are long enough
    Descriptions,
    Blank,          \* the descriptions that are empty once trimmed
    Starts,
    Lengths,        \* between the limits
    MaxCapacity,    \* LIMITS.contest.capacity
    Lead,           \* LIMITS.contest.publishLeadMinutes
    MaxQuestions,   \* LIMITS.contest.questions.max
    Drafts,         \* details a draft begins with: what createDraft left, or editing since
    None,           \* null, a slot without a question
    Unsent,         \* undefined: a field that is not sent
    MaxTime, MaxAge \* bounds: the clock, how long a request may be in flight

Times == 0 .. MaxTime
Orders == 1 .. MaxQuestions
Lists == UNION {[1 .. n -> Questions] : n \in 0 .. MaxQuestions}
Capacities == 1 .. MaxCapacity

\* A draft may lack a start, a length and a capacity; a null capacity is no limit.
Details == [title : Titles, description : Descriptions, start : Starts \cup {None},
            length : Lengths \cup {None}, capacity : Capacities \cup {None}]

\* UpdateContestDto: null clears a start or a capacity.
Inputs == [title : Titles \cup {Unsent}, description : Descriptions \cup {Unsent},
           start : Starts \cup {None, Unsent}, length : Lengths \cup {Unsent},
           capacity : Capacities \cup {None, Unsent}]

ASSUME ValuesAssumption ==
    /\ Complete \subseteq Questions /\ Starts \subseteq Nat /\ Lengths \subseteq Nat
    /\ Drafts \subseteq Details
    /\ None \notin Questions \cup Nat
    /\ Unsent \notin Titles \cup Descriptions \cup Nat \cup {None}
ASSUME NumbersAssumption ==
    /\ {Lead, MaxTime, MaxAge} \subseteq Nat
    /\ MaxQuestions \in Nat \ {0} /\ MaxCapacity \in Nat \ {0}

VARIABLES
    clock,      \* the time every server agrees on
    contest,    \* its document: status, details, questionCount
    slot,       \* the question documents, by their order
    call,       \* what each request is doing
    raced,      \* history: an edit that was under way outlived publish or delete
    torn        \* history: no save has run alone to its end since another began

hosting == <<clock, contest, slot, call, raced, torn>>

-----------------------------------------------------------------------------

Idle == [step |-> "idle"]
Refused == [step |-> "refused"]

Init ==
    /\ clock = 0
    /\ \E d \in Drafts : contest = [status |-> "draft", details |-> d, count |-> 0]
    /\ slot = [o \in Orders |-> None]
    /\ call = [k \in Calls |-> Idle]
    /\ raced = FALSE /\ torn = FALSE

At(k, step) == call[k].step = step
Becomes(k, c) == call' = [call EXCEPT ![k] = c]
Goto(k, step) == Becomes(k, [call[k] EXCEPT !.step = step])

\* questionsOf: whatever documents there are, by their order.
Stored == [o \in {o \in Orders : slot[o] # None} |-> slot[o]]

\* assertEditable: a draft, or published and before its start.
Editable(now) ==
    \/ contest.status = "draft"
    \/ /\ contest.status = "published"
       /\ contest.details.start # None /\ now < contest.details.start

\* Description and Length; a title and a length that are stored are within the limits.
Sound(d) == d.description \notin Blank /\ d.length # None

\* Mutant: no test for a first question.
ChecksPassEmpty(d, questions, now) ==
    /\ Sound(d)
    /\ d.start # None /\ d.start >= now + Lead
    /\ \A i \in DOMAIN questions : questions[i] \in Complete

\* publishChecks: of a list, or of the stored questions by their order; neither
\* can be longer than MaxQuestions.
ChecksPass(d, questions, now) ==
    /\ Sound(d)
    /\ d.start # None /\ d.start >= now + Lead
    /\ DOMAIN questions # {}
    /\ \A i \in DOMAIN questions : questions[i] \in Complete

-----------------------------------------------------------------------------
(* saveQuestions *)

Saving(k) == call[k].step \in {"write", "trim", "count"}

\* The contest is read and checked once, at the start.
SaveBegin(k, list) ==
    /\ IF /\ Editable(clock)
          /\ contest.status = "published" => ChecksPass(contest.details, list, clock)
         THEN /\ call' = [j \in Calls |->
                  IF j = k
                  THEN [step |-> "write", list |-> list, next |-> 1, was |-> contest.status,
                        now |-> clock, alone |-> \A i \in Calls \ {k} : ~Saving(i)]
                  ELSE IF Saving(j) THEN [call[j] EXCEPT !.alone = FALSE] ELSE call[j]]
              /\ torn' = TRUE
         ELSE Becomes(k, Refused) /\ UNCHANGED torn
    /\ UNCHANGED <<clock, contest, slot, raced>>

\* bulkWrite: one slot after the other.
SaveWrite(k) ==
    /\ At(k, "write")
    /\ LET c == call[k] IN
         IF c.next > Len(c.list)
         THEN Goto(k, "trim") /\ UNCHANGED slot
         ELSE /\ slot' = [slot EXCEPT ![c.next] = c.list[c.next]]
              /\ Becomes(k, [c EXCEPT !.next = @ + 1])
    /\ UNCHANGED <<clock, contest, raced, torn>>

\* Mutant: the first slot past the new end is kept.
SaveTrimOneShort(k) ==
    /\ At(k, "trim")
    /\ slot' = [o \in Orders |-> IF o > Len(call[k].list) + 1 THEN None ELSE slot[o]]
    /\ Goto(k, "count")
    /\ UNCHANGED <<clock, contest, raced, torn>>

\* deleteMany: the slots past the new end.
SaveTrim(k) ==
    /\ At(k, "trim")
    /\ slot' = [o \in Orders |-> IF o > Len(call[k].list) THEN None ELSE slot[o]]
    /\ Goto(k, "count")
    /\ UNCHANGED <<clock, contest, raced, torn>>

\* questionCount and totalPoints, whatever the contest has become; nothing if it
\* is gone.
SaveCount(k) ==
    /\ At(k, "count")
    /\ contest' = IF contest.status = "deleted" THEN contest
                  ELSE [contest EXCEPT !.count = Len(call[k].list)]
    /\ torn' = (torn /\ ~call[k].alone)
    /\ Goto(k, "done")
    /\ UNCHANGED <<clock, slot, raced>>

-----------------------------------------------------------------------------
(* updateDetails *)

Given(sent, old) == IF sent = Unsent THEN old ELSE sent

\* next: a field that is not sent stays as it was read.
Merged(d, body) ==
    [title |-> Given(body.title, d.title),
     description |-> Given(body.description, d.description),
     start |-> Given(body.start, d.start), length |-> Given(body.length, d.length),
     capacity |-> Given(body.capacity, d.capacity)]

UpdateBegin(k, body) ==
    /\ Becomes(k, IF Editable(clock)
                  THEN [step |-> IF contest.status = "published" THEN "check" ELSE "set",
                        details |-> Merged(contest.details, body), was |-> contest.status,
                        now |-> clock]
                  ELSE Refused)
    /\ UNCHANGED <<clock, contest, slot, raced, torn>>

\* A published contest must stay publishable with the questions it has now; and as
\* many as have entered must fit, which is any number here.
UpdateCheck(k) ==
    /\ At(k, "check")
    /\ \/ ChecksPass(call[k].details, Stored, call[k].now) /\ Goto(k, "set")
       \/ /\ \/ ~ChecksPass(call[k].details, Stored, call[k].now)
             \/ call[k].details.capacity # None
          /\ Becomes(k, Refused)
    /\ UNCHANGED <<clock, contest, slot, raced, torn>>

\* The filter tests that the status is still the one that was read.
UpdateSet(k) ==
    /\ At(k, "set")
    /\ IF contest.status = call[k].was
         THEN /\ contest' = [contest EXCEPT !.details = call[k].details]
              /\ Goto(k, "done")
         ELSE Becomes(k, Refused) /\ UNCHANGED contest
    /\ UNCHANGED <<clock, slot, raced, torn>>

-----------------------------------------------------------------------------
(* publish and deleteDraft *)

PublishBegin(k) ==
    /\ Becomes(k, IF contest.status = "draft"
                  THEN [step |-> "judge", details |-> contest.details, now |-> clock]
                  ELSE Refused)
    /\ UNCHANGED <<clock, contest, slot, raced, torn>>

\* The questions are read after the contest.
PublishJudge(k) ==
    /\ At(k, "judge")
    /\ LET c == call[k] IN
         Becomes(k, IF ChecksPass(c.details, Stored, c.now)
                    THEN [step |-> "commit", details |-> c.details, questions |-> Stored,
                          now |-> c.now]
                    ELSE Refused)
    /\ UNCHANGED <<clock, contest, slot, raced, torn>>

\* The filter tests the status alone.
PublishCommit(k) ==
    /\ At(k, "commit")
    /\ IF contest.status = "draft"
         THEN /\ contest' = [contest EXCEPT !.status = "published"]
              /\ raced' = \/ raced
                          \/ contest.details # call[k].details \/ Stored # call[k].questions
                          \/ \E j \in Calls : Saving(j)
              /\ Goto(k, "done")
         ELSE Becomes(k, Refused) /\ UNCHANGED <<contest, raced>>
    /\ UNCHANGED <<clock, slot, torn>>

\* Mutant: the questions are left where they are.
DeleteDocumentAlone(k) ==
    /\ IF contest.status = "draft"
         THEN /\ contest' = [contest EXCEPT !.status = "deleted"]
              /\ raced' = (raced \/ \E j \in Calls : Saving(j))
              /\ Goto(k, "done")
         ELSE Becomes(k, Refused) /\ UNCHANGED <<contest, raced>>
    /\ UNCHANGED <<clock, slot, torn>>

\* The document goes first, if it is still a draft.
DeleteBegin(k) ==
    /\ IF contest.status = "draft"
         THEN /\ contest' = [contest EXCEPT !.status = "deleted"]
              /\ raced' = (raced \/ \E j \in Calls : Saving(j))
              /\ Becomes(k, [step |-> "clear", now |-> clock])
         ELSE Becomes(k, Refused) /\ UNCHANGED <<contest, raced>>
    /\ UNCHANGED <<clock, slot, torn>>

DeleteQuestions(k) ==
    /\ At(k, "clear")
    /\ slot' = [o \in Orders |-> None]
    /\ Goto(k, "done")
    /\ UNCHANGED <<clock, contest, raced, torn>>

-----------------------------------------------------------------------------

Running(k) == call[k].step \notin {"idle", "refused", "done"}

\* A request dies with its server or a failed database call.
Fail(k) ==
    /\ Running(k)
    /\ raced' = (raced \/ At(k, "clear"))
    /\ Becomes(k, Refused)
    /\ UNCHANGED <<clock, contest, slot, torn>>

\* The answer arrives.
Answered(k) ==
    /\ call[k].step \in {"refused", "done"}
    /\ Becomes(k, Idle)
    /\ UNCHANGED <<clock, contest, slot, raced, torn>>

Tick ==
    /\ clock < MaxTime
    /\ \A k \in Calls : Running(k) => clock < call[k].now + MaxAge
    /\ clock' = clock + 1
    /\ UNCHANGED <<contest, slot, call, raced, torn>>

Advance(k) ==
    \/ SaveWrite(k) \/ SaveTrim(k) \/ SaveCount(k)
    \/ UpdateCheck(k) \/ UpdateSet(k)
    \/ PublishJudge(k) \/ PublishCommit(k) \/ DeleteQuestions(k)

\* Requests from anywhere, with any of these bodies.
Request(k, bodies) ==
    /\ At(k, "idle")
    /\ \/ \E list \in Lists : SaveBegin(k, list)
       \/ \E body \in bodies : UpdateBegin(k, body)
       \/ PublishBegin(k) \/ DeleteBegin(k)

Next ==
    \/ \E k \in Calls : Request(k, Inputs) \/ Advance(k) \/ Fail(k) \/ Answered(k)
    \/ Tick

Spec == Init /\ [][Next]_hosting

-----------------------------------------------------------------------------

Statuses == {"draft", "published", "deleted"}

TypeOK ==
    /\ clock \in Nat
    /\ contest \in [status : Statuses, details : Details, count : 0 .. MaxQuestions]
    /\ slot \in [Orders -> Questions \cup {None}]
    /\ raced \in BOOLEAN /\ torn \in BOOLEAN

\* The promise of updateDetails, "A published contest must stay publishable after
\* every edit", kept through requests that overlap or stop half way, unless one of
\* them was under way when publish or deleteDraft changed the status
\* (contest-hosting.service.ts, updateDetails, saveQuestions and publish).
PublishedStaysPublishable ==
    contest.status = "published" /\ ~raced =>
       /\ Sound(contest.details) /\ contest.details.start # None
       /\ DOMAIN Stored # {}
       /\ \A o \in DOMAIN Stored : Stored[o] \in Complete

\* "a failure part-way never leaves the contest without questions; saving again
\* repairs it": once a save has run alone to its end, the contest has exactly the
\* questions it counts, whatever the saves before it left (contest-hosting.service.ts,
\* saveQuestions).
SavingAgainRepairs ==
    contest.status # "deleted" /\ ~torn =>
       \A o \in Orders : (slot[o] # None) <=> (o <= contest.count)

\* A deleted draft leaves no questions behind, unless a save was under way or the
\* deletion stopped half way (contest-hosting.service.ts, deleteDraft).
DeletedLeavesNothing ==
    contest.status = "deleted" /\ ~raced /\ (\A k \in Calls : ~At(k, "clear")) =>
       Stored = <<>>

=============================================================================
