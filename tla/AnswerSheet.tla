---------------------------- MODULE AnswerSheet ----------------------------
(***************************************************************************)
(* One entrant's answers: the workspace screens that pick them, in one tab *)
(* or several, the requests in flight, and the server's saveAnswer and     *)
(* submit, write by write, against the entry's document.                   *)
(*                                                                         *)
(* A screen sends its saves of one question one after another and those of *)
(* different questions at once; a submit first waits for the saves made so *)
(* far.  A save is up to two writes, each of which matches only while the  *)
(* entry is not submitted.                                                 *)
(*                                                                         *)
(* A screen is one visit of the page.  A visit that is left goes on with   *)
(* what it has to send; the next one in its tab starts from the response   *)
(* that the first one got, and from a line of its own.                     *)
(***************************************************************************)
EXTENDS Integers, Sequences

CONSTANTS
    Screens,        \* the workspace pages the entrant opens, in their order
    Questions,      \* the contest's questions
    Options,        \* what can be picked: the sets of options, but the empty one
    NoPick,         \* the empty pick
    MaxPicks,       \* bound: picks and retries in a behaviour
    MaxFailures     \* bound: requests that fail

ASSUME NoPickIsNoOption == NoPick \notin Options
ASSUME ScreensInOrder == Screens \subseteq Nat

VARIABLES
    sheet,      \* entry.answers; their order does not matter
    submitted,  \* entry.submittedAt: "no", or set by the "entrant" or by the "clock"
    ended,      \* contest.endAt has passed
    screen,     \* the workspace pages
    save,       \* the server's side of each screen's oldest save of a question
    picks, failures

vars == <<sheet, submitted, ended, screen, save, picks, failures>>

Picks == Options \cup {NoPick}
Answers == [Questions -> Picks]

Answer(q, pick) == [questionId |-> q, optionIds |-> pick]
HasAnswer(q) == \E a \in sheet : a.questionId = q

\* The answers as the workspace response and the screen hold them.
Saved == [q \in Questions |->
            IF HasAnswer(q)
            THEN (CHOOSE a \in sheet : a.questionId = q).optionIds
            ELSE NoPick]

\* Mutants: the writes that go by the check alone; the push without its filter;
\* the pick dropped while a save is running; the submit that does not wait; the refused save
\* that never settles.
AlwaysOpen == TRUE
NeverAnswered(q) == TRUE
QueuedIfIdle(line, pick) == IF line = <<>> THEN <<pick>> ELSE line
NoWait(s) == TRUE
SettledIfKept(line, how) == IF how = "refused" THEN line ELSE Tail(line)

\* The filters of the writes: the entry is not submitted, and $ne on the push.
OpenEntry == submitted = "no"

FirstAnswer(q) == ~HasAnswer(q)

Queued(line, pick) == Append(line, pick)

\* Whatever a save came to, the next one of its question follows.
Settled(line, how) == Tail(line)

\* A submit waits for the saves made before it, not for those made since.
Left(waits, settled) == IF waits = 0 THEN 0 ELSE waits - settled

NoAnswers == [q \in Questions |-> NoPick]
Closed == [at |-> "closed", shown |-> NoAnswers, done |-> FALSE,
           got |-> NoAnswers, gotDone |-> FALSE, missed |-> {},
           status |-> "idle", line |-> [q \in Questions |-> <<>>], submit |-> "none",
           waits |-> [q \in Questions |-> 0], claim |-> [q \in Questions |-> {}]]

Init ==
    /\ sheet = {}
    /\ submitted = "no"
    /\ ended = FALSE
    /\ screen = [s \in Screens |-> Closed]
    /\ save = [s \in Screens |-> [q \in Questions |-> "none"]]
    /\ picks = 0
    /\ failures = 0

-----------------------------------------------------------------------------
(* Opening the workspace, leaving it and coming back *)

\* The visits in their order.
IsNext(s) == screen[s].at = "closed" /\ \A o \in Screens : o < s => screen[o].at # "closed"

\* start, its read of the entry; a finished contest opens no workspace.
Load(s) ==
    /\ IsNext(s)
    /\ ~ended
    /\ screen' = [screen EXCEPT ![s].at = "loading", ![s].shown = Saved,
                                ![s].got = Saved, ![s].done = ~OpenEntry, ![s].gotDone = ~OpenEntry]
    /\ UNCHANGED <<sheet, submitted, ended, save, picks, failures>>

\* Its response: the screen takes its answers from it, once.
Show(s) ==
    /\ screen[s].at = "loading"
    /\ screen' = [screen EXCEPT ![s].at = "open"]
    /\ UNCHANGED <<sheet, submitted, ended, save, picks, failures>>

\* History: what was answered in a tab since its response, and is not shown when the
\* page is opened again.
AnsweredSince(o) ==
    screen[o].missed \cup
       {q \in Questions : screen[o].shown[q] # screen[o].got[q] \/ screen[o].line[q] # <<>>}

\* "Back to contest page", and into the workspace again: a page that is left acts as one
\* where nothing is clicked.  The query never gets stale, so the next visit starts from
\* the response of the one before, unless it was fetched again when a submit was accepted.
Reopen(s, o) ==
    /\ IsNext(s) /\ screen[o].at = "open"
    /\ \E again \in IF screen[o].submit = "done" THEN BOOLEAN ELSE {FALSE} :
         LET got == IF again THEN Saved ELSE screen[o].got
             done == again \/ screen[o].gotDone
         IN screen' = [screen EXCEPT
               ![o].at = "gone",
               ![s].at = "open", ![s].shown = got, ![s].got = got,
               ![s].done = done, ![s].gotDone = done, ![s].missed = AnsweredSince(o)]
    /\ UNCHANGED <<sheet, submitted, ended, save, picks, failures>>

-----------------------------------------------------------------------------
(* Picking an answer *)

\* save: to the end of the question's line, sent when those before it settled.
Enqueue(s, q, pick, scr) ==
    /\ picks < MaxPicks
    /\ screen' = [screen EXCEPT ![s] = [scr EXCEPT !.status = "saving",
                                                   !.line[q] = Queued(@, pick)]]
    /\ save' = IF screen[s].line[q] = <<>> THEN [save EXCEPT ![s][q] = "sent"] ELSE save
    /\ picks' = picks + 1
    /\ UNCHANGED <<sheet, submitted, ended, failures>>

SettledElsewhere(s, q) == \A o \in Screens \ {s} : screen[o].line[q] = <<>>

\* An option of several is put in or taken out; the only option is saved again when it
\* is picked again.
Pick(s, q, pick) ==
    /\ screen[s].at = "open" /\ ~screen[s].done
    /\ pick = NoPick => screen[s].shown[q] # NoPick
    /\ Enqueue(s, q, pick,
               [screen[s] EXCEPT !.shown[q] = pick,
                                 !.missed = IF SettledElsewhere(s, q) /\ screen[s].submit = "none"
                                            THEN @ \ {q} ELSE @,
                                 !.claim[q] = IF screen[s].submit = "none" THEN @
                                              ELSE @ \cup {pick}])

\* "Not saved. Retry", for the question whose save failed last.
Retry(s, q) ==
    /\ screen[s].at = "open" /\ ~screen[s].done
    /\ screen[s].status = q
    /\ Enqueue(s, q, screen[s].shown[q], screen[s])

-----------------------------------------------------------------------------
(* saveAnswer on the server *)

Serving(s, q, step) ==
    /\ save[s][q] = step
    /\ UNCHANGED <<submitted, ended, screen, picks, failures>>

To(s, q, step) == save' = [save EXCEPT ![s][q] = step]

\* The checks, on the contest and the entry as read here.
Check(s, q) ==
    /\ Serving(s, q, "sent")
    /\ To(s, q, IF ended \/ ~OpenEntry THEN "refused"
                ELSE IF Head(screen[s].line[q]) = NoPick THEN "pull" ELSE "set")
    /\ UNCHANGED sheet

\* An empty pick clears the answer.
PullWrite(s, q) ==
    /\ Serving(s, q, "pull")
    /\ \/ /\ OpenEntry
          /\ sheet' = {a \in sheet : a.questionId # q}
          /\ To(s, q, "kept")
       \/ ~OpenEntry /\ To(s, q, "dropped") /\ UNCHANGED sheet

\* In place, if the question has an answer ...
SetWrite(s, q) ==
    /\ Serving(s, q, "set")
    /\ LET pick == Head(screen[s].line[q])
       IN \/ /\ OpenEntry /\ HasAnswer(q)
             /\ sheet' = {IF a.questionId = q THEN Answer(q, pick) ELSE a : a \in sheet}
             /\ To(s, q, "kept")
          \/ ~(OpenEntry /\ HasAnswer(q)) /\ To(s, q, "push") /\ UNCHANGED sheet

\* ... and added if the first write matched nothing.  Either way the answer is 200.
PushWrite(s, q) ==
    /\ Serving(s, q, "push")
    /\ LET pick == Head(screen[s].line[q])
       IN \/ /\ OpenEntry /\ FirstAnswer(q)
             /\ sheet' = sheet \cup {Answer(q, pick)}
             /\ To(s, q, "kept")
          \/ ~(OpenEntry /\ FirstAnswer(q)) /\ To(s, q, "dropped") /\ UNCHANGED sheet

\* The answer reaches the screen: the line moves on, a submit waits for one less.
Settle(s, q, how, status) ==
    /\ LET rest == Settled(screen[s].line[q], how)
           settled == Len(screen[s].line[q]) - Len(rest)
       IN /\ screen' = [screen EXCEPT ![s].line[q] = rest, ![s].status = status,
                                      ![s].waits[q] = Left(@, settled)]
          /\ To(s, q, IF rest = <<>> THEN "none" ELSE "sent")
    /\ UNCHANGED <<sheet, submitted, ended, picks>>

Respond(s, q) ==
    /\ save[s][q] \in {"kept", "dropped", "refused"}
    /\ Settle(s, q, save[s][q],
              IF save[s][q] = "refused" THEN screen[s].status ELSE "saved")
    /\ UNCHANGED failures

\* The request never arrives, or its answer is lost.  (One that breaks off while
\* the server still works on it is left out: no property speaks of failed saves.)
LoseSave(s, q) ==
    /\ save[s][q] \in {"sent", "kept", "dropped", "refused"}
    /\ failures < MaxFailures
    /\ failures' = failures + 1
    /\ Settle(s, q, "failed", q)

-----------------------------------------------------------------------------
(* Handing in *)

\* The submit button; the dialog can be closed and picking goes on meanwhile.
Submit(s) ==
    /\ screen[s].at = "open" /\ ~screen[s].done /\ screen[s].submit = "none"
    /\ screen' = [screen EXCEPT ![s].submit = "waiting",
                                ![s].waits = [q \in Questions |-> Len(screen[s].line[q])],
                                ![s].claim = [q \in Questions |-> {screen[s].shown[q]}]]
    /\ UNCHANGED <<sheet, submitted, ended, save, picks, failures>>

AllSettled(s) == \A q \in Questions : screen[s].waits[q] = 0

Submitting(s, step) ==
    /\ screen[s].submit = step
    /\ UNCHANGED <<sheet, ended, save, picks>>

SendSubmit(s) ==
    /\ Submitting(s, "waiting")
    /\ AllSettled(s)
    /\ screen' = [screen EXCEPT ![s].submit = "sent"]
    /\ UNCHANGED <<submitted, failures>>

\* submit's check; refused, the screen shows why and can try again.
CheckSubmit(s) ==
    /\ Submitting(s, "sent")
    /\ screen' = [screen EXCEPT ![s].submit = IF ended THEN "none" ELSE "write"]
    /\ UNCHANGED <<submitted, failures>>

WriteSubmit(s) ==
    /\ Submitting(s, "write")
    /\ submitted' = IF OpenEntry THEN "entrant" ELSE submitted
    /\ screen' = [screen EXCEPT ![s].submit = IF OpenEntry THEN "accepted" ELSE "none"]
    /\ UNCHANGED failures

AcceptedSubmit(s) ==
    /\ Submitting(s, "accepted")
    /\ screen' = [screen EXCEPT ![s].submit = "done", ![s].done = TRUE]
    /\ UNCHANGED <<submitted, failures>>

LoseSubmit(s) ==
    /\ screen[s].submit \in {"sent", "accepted"}
    /\ Submitting(s, screen[s].submit)
    /\ failures < MaxFailures
    /\ failures' = failures + 1
    /\ screen' = [screen EXCEPT ![s].submit = "none"]
    /\ UNCHANGED submitted

-----------------------------------------------------------------------------
(* The end of the contest *)

End ==
    /\ ~ended
    /\ ended' = TRUE
    /\ UNCHANGED <<sheet, submitted, screen, save, picks, failures>>

\* The finalize run hands in the entries that are still open (see Finalize).
SubmitByClock ==
    /\ ended /\ submitted = "no"
    /\ submitted' = "clock"
    /\ UNCHANGED <<sheet, ended, screen, save, picks, failures>>

Server(s, q) == \/ Check(s, q) \/ PullWrite(s, q) \/ SetWrite(s, q) \/ PushWrite(s, q)
                \/ Respond(s, q)
HandIn(s) == SendSubmit(s) \/ CheckSubmit(s) \/ WriteSubmit(s) \/ AcceptedSubmit(s)

Next ==
    \/ \E s \in Screens :
         \/ Load(s) \/ Show(s) \/ (\E o \in Screens : Reopen(s, o)) \/ Submit(s) \/ HandIn(s) \/ LoseSubmit(s)
         \/ \E q \in Questions :
              \/ \E pick \in Picks : Pick(s, q, pick)
              \/ Retry(s, q) \/ Server(s, q) \/ LoseSave(s, q)
    \/ End
    \/ SubmitByClock

Spec == Init /\ [][Next]_vars

\* A request is served and answered; nothing is assumed of the entrant.
FairSpec ==
    /\ Spec
    /\ \A s \in Screens : WF_vars(HandIn(s)) /\ \A q \in Questions : WF_vars(Server(s, q))

-----------------------------------------------------------------------------
(* Properties *)

\* The entry has one answer to a question at most, however many screens make
\* their first picks of it at the same moment (saveAnswer, the $ne filter).
OneAnswerEach ==
    \A a, b \in sheet : a.questionId = b.questionId => a = b

\* "Answers are final from here": no save that is in flight at the hand-in, from
\* any screen, changes a sheet that is handed in (saveAnswer and submit).
SheetIsFinal == [][submitted # "no" => UNCHANGED <<sheet, submitted>>]_vars

\* The screen is of the only tab the entrant uses, and no request of it failed.
Alone(s) == failures = 0 /\ \A o \in Screens \ {s} : screen[o].at \in {"closed", "gone"}

\* When the saves of a lone tab have settled in a running contest, its screen shows what
\* the server holds, whatever was clicked how quickly (the chains of ContestWorkspace);
\* but a page that was left and opened again does not show what was answered before, until
\* it is answered again, when the older saves have settled.
ShownIsSaved ==
    \A s \in Screens :
       /\ Alone(s) /\ screen[s].at = "open" /\ ~ended /\ OpenEntry
       /\ \A o \in Screens, q \in Questions : screen[o].line[q] = <<>>
       => \A q \in Questions \ screen[s].missed : Saved[q] = screen[s].shown[q]

\* A hand-in covers what the lone screen showed when the entrant asked for it: of
\* each question the sheet has that answer or one picked since (submit's wait); but for
\* the questions that were answered before the page was left and opened again.
HandInCoversShown ==
    \A s \in Screens : Alone(s) /\ screen[s].submit \in {"accepted", "done"} =>
       \A q \in Questions \ screen[s].missed : Saved[q] \in screen[s].claim[q]

\* "Your N saved answers go in automatically": the N answers that a lone tab shows, with
\* no save on its way, are those that go in.  Violated: a page opened again shows the
\* answers of its first visit's response (ContestWorkspace.tsx, staleTime: Infinity).
ShownWhenBack ==
    \A s \in Screens :
       /\ Alone(s) /\ screen[s].at = "open" /\ ~ended /\ OpenEntry
       /\ \A o \in Screens, q \in Questions : screen[o].line[q] = <<>>
       => Saved = screen[s].shown

\* A submit is answered or refused in the end: the saves it waits for settle,
\* refused and failed ones too (submit's Promise.allSettled).
SubmitIsAnswered ==
    \A s \in Screens : screen[s].submit = "waiting" ~> screen[s].submit \in {"none", "done"}

\* "Refused once the entry is submitted or the contest has ended": a save that is
\* answered with success is in the sheet.  Violated: the two writes match nothing
\* when a hand-in or another screen's first pick comes between, and say so to nobody.
SuccessMeansWritten == \A s \in Screens, q \in Questions : save[s][q] # "dropped"

\* "Your N saved answers go in automatically": a lone screen whose saves have settled
\* and that shows no failure has its answers saved.  Violated: the
\* one status is overwritten by another question's success.
NoFailureShownMeansSaved ==
    \A s \in Screens :
       /\ screen[s].at = "open" /\ screen[s].status = "saved" /\ ~ended /\ OpenEntry
       /\ \A o \in Screens \ {s} : screen[o].at = "closed"
       /\ \A q \in Questions : screen[s].line[q] = <<>>
       => Saved = screen[s].shown

=============================================================================
