----------------------------- MODULE ContestPage -----------------------------
(***************************************************************************)
(* Live updates of a contest: ContestsGateway on every server, which sends *)
(* the counts at most once a second and the end of scoring once, and one   *)
(* tab that goes between the contest's page and its results page.          *)
(*                                                                         *)
(* The counts are told apart by how many changes they include.  A server   *)
(* may stop at any moment, a connection may drop, and a broadcast is as    *)
(* late as its Emit.                                                       *)
(***************************************************************************)
EXTENDS Integers, Sequences

CONSTANTS
    Servers,
    Home,           \* the server the tab is connected to
    MaxChanges,     \* bound: joins, leaves, starts and submits
    MaxMoves,       \* bound: visits, drops, stops and failed fetches, together
    Nothing         \* not read, not received

ASSUME HomeAssumption == Home \in Servers

VARIABLES
    counts,     \* the contest's counters, by version
    course,     \* whether it is over, cancelled, finalized; the last broadcast due
    timer,      \* pending: servers whose timer of a second runs
    owed,       \* servers that changed the counters and have yet to call countsChanged
    reading,    \* servers whose sendCounts has started to read
    sends,      \* what sendCounts has read and not yet broadcast
    lastSent,   \* history: the newest version broadcast
    raced,      \* history: a broadcast was lost, overtaken, or met a watch half way
    shows,      \* the page of the tab
    data,       \* per page: what its query holds
    want,       \* pages whose query is to fetch
    failed,     \* pages whose query failed, but for the 409 of results not out
    live,       \* the counts of useContestSocket
    sock,       \* the socket: state, joined the room, the watch and what it saw, inbox
    moves       \* bound: what is left of MaxMoves

serverVars == <<counts, course, timer, owed, reading, sends, lastSent>>
tabVars == <<shows, data, want, failed, live, sock>>
pageVars == <<serverVars, raced, tabVars, moves>>

TabPages == {"contest", "results"}
Off == [state |-> "off", joined |-> FALSE, watch |-> "none", saw |-> 0, inbox |-> <<>>]
Dialled == [Off EXCEPT !.state = "open", !.watch = "asked"]

PageInit ==
    /\ counts = 0
    /\ course = [over |-> FALSE, cancelled |-> FALSE, out |-> FALSE, due |-> FALSE]
    /\ timer = {} /\ owed = {} /\ reading = {} /\ sends = {}
    /\ lastSent = 0 /\ raced = FALSE
    /\ shows \in TabPages
    /\ data = [p \in TabPages |-> Nothing]
    /\ want = {shows} /\ failed = {}
    /\ live = Nothing
    /\ sock = Off
    /\ moves = MaxMoves

-----------------------------------------------------------------------------
(* The servers *)

\* A join, leave, start or submit: $inc, and the gateway is told after it.
Change(s) ==
    /\ counts < MaxChanges /\ ~course.over /\ ~course.cancelled /\ s \notin owed
    /\ counts' = counts + 1
    /\ owed' = owed \cup {s}
    /\ raced' = FALSE
    /\ UNCHANGED <<course, timer, reading, sends, lastSent, tabVars, moves>>

\* Mutant: the contest stays pending until its counts have been broadcast.
CountsChangedBusy(s) ==
    /\ s \in owed
    /\ owed' = owed \ {s}
    /\ timer' = IF \E send \in sends : send[1] = s THEN timer ELSE timer \cup {s}
    /\ UNCHANGED <<counts, course, reading, sends, lastSent, raced, tabVars, moves>>

\* One timer per contest and server.
CountsChanged(s) ==
    /\ s \in owed
    /\ owed' = owed \ {s}
    /\ timer' = timer \cup {s}
    /\ UNCHANGED <<counts, course, reading, sends, lastSent, raced, tabVars, moves>>

\* After a second: pending is cleared, then the counts are read.
SendCounts(s) ==
    /\ s \in timer /\ s \notin reading
    /\ timer' = timer \ {s}
    /\ reading' = reading \cup {s}
    /\ UNCHANGED <<counts, course, owed, sends, lastSent, raced, tabVars, moves>>

ReadCounts(s) ==
    /\ s \in reading
    /\ reading' = reading \ {s}
    /\ sends' = sends \cup {<<s, counts>>}
    /\ UNCHANGED <<counts, course, timer, owed, lastSent, raced, tabVars, moves>>

\* To whoever is in the room at that moment.
Broadcast(message) ==
    sock' = IF sock.joined THEN [sock EXCEPT !.inbox = Append(@, message)] ELSE sock

Emit(send) ==
    /\ send \in sends
    /\ sends' = sends \ {send}
    /\ Broadcast([kind |-> "counts", version |-> send[2]])
    /\ lastSent' = IF send[2] > lastSent THEN send[2] ELSE lastSent
    /\ raced' = (raced \/ send[2] < lastSent \/ sock.watch = "read")
    /\ UNCHANGED <<counts, course, timer, owed, reading, shows, data, want, failed, live, moves>>

\* The contest is cancelled, its end comes, its results are out, which is broadcast.
Cancel ==
    /\ ~course.cancelled /\ ~course.out
    /\ course' = [course EXCEPT !.cancelled = TRUE]
    /\ UNCHANGED <<counts, timer, owed, reading, sends, lastSent, raced, tabVars, moves>>
End ==
    /\ ~course.over
    /\ course' = [course EXCEPT !.over = TRUE]
    /\ UNCHANGED <<counts, timer, owed, reading, sends, lastSent, raced, tabVars, moves>>
Finalize ==
    /\ course.over /\ ~course.cancelled /\ ~course.out
    /\ course' = [course EXCEPT !.out = TRUE, !.due = TRUE]
    /\ UNCHANGED <<counts, timer, owed, reading, sends, lastSent, raced, tabVars, moves>>
EmitFinalized ==
    /\ course.due
    /\ course' = [course EXCEPT !.due = FALSE]
    /\ Broadcast([kind |-> "finalized", version |-> counts])
    /\ UNCHANGED <<counts, timer, owed, reading, sends, lastSent, raced, shows, data, want,
                   failed, live, moves>>

\* A server stops: onModuleDestroy clears its timers, what it was doing is lost, and
\* its sockets drop.
Stop(s) ==
    /\ moves > 0 /\ moves' = moves - 1
    /\ raced' = (raced \/ s \in timer \cup owed \cup reading \/ \E v \in 0 .. counts : <<s, v>> \in sends)
    /\ timer' = timer \ {s} /\ owed' = owed \ {s} /\ reading' = reading \ {s}
    /\ sends' = {send \in sends : send[1] # s}
    /\ sock' = IF s = Home /\ sock.state = "open" THEN [Off EXCEPT !.state = "lost"] ELSE sock
    /\ course' = [course EXCEPT !.due = @ /\ s # Home]
    /\ UNCHANGED <<counts, lastSent, shows, data, want, failed, live>>

\* onWatch: the counts are read, the socket joins the room, and the counts are sent.
WatchReads ==
    /\ sock.watch = "asked"
    /\ sock' = [sock EXCEPT !.watch = "read", !.saw = counts]
    /\ UNCHANGED <<serverVars, raced, shows, data, want, failed, live, moves>>
WatchJoins ==
    /\ sock.watch = "read"
    /\ sock' = [sock EXCEPT !.joined = TRUE, !.watch = "none",
                            !.inbox = Append(@, [kind |-> "counts", version |-> sock.saw])]
    /\ UNCHANGED <<serverVars, raced, shows, data, want, failed, live, moves>>

-----------------------------------------------------------------------------
(* The tab *)

\* Mutant: the phase that was sent, not the phase as of now.
WantsPollAsSent(page) ==
    /\ data[page] # Nothing /\ ~data[page].out
    /\ page = "contest" => ~data[page].cancelled /\ data[page].over

\* refetchInterval: the contest's page while it is pending as of now, the results page
\* while it is refused with 409.
WantsPoll(page) ==
    /\ data[page] # Nothing /\ ~data[page].out
    /\ page = "contest" => ~data[page].cancelled /\ course.over

\* A query that failed drops its error while it fetches again, so the results page
\* disconnects until the answer.
Refetches(pages) ==
    /\ want' = want \cup pages
    /\ sock' = IF shows = "results" THEN Off ELSE sock

Poll ==
    /\ WantsPoll(shows)
    /\ Refetches({shows})
    /\ UNCHANGED <<serverVars, raced, shows, data, failed, live, moves>>

\* The button of the error state, or the connection is back.
Retry ==
    /\ shows \in failed
    /\ Refetches({shows})
    /\ UNCHANGED <<serverVars, raced, shows, data, failed, live, moves>>

\* What the results page holds is the refusal with 409.
Refused(d) == d # Nothing /\ ~d.out

\* enabled: a published contest; results that are not out.
Watches(page, d) ==
    \/ page = "contest" /\ ~d.cancelled
    \/ page = "results" /\ ~d.out

\* The query of the page answers.  The hook connects when it is enabled by that, and
\* disconnects when it no longer is.
Fetched ==
    /\ shows \in want
    /\ data' = [data EXCEPT ![shows] =
          [over |-> course.over, cancelled |-> course.cancelled, out |-> course.out]]
    /\ want' = want \ {shows} /\ failed' = failed \ {shows}
    /\ sock' = IF ~Watches(shows, data'[shows]) THEN Off
               ELSE IF sock.state = "off" THEN Dialled ELSE sock
    /\ UNCHANGED <<serverVars, raced, shows, live, moves>>

\* It fails, and so does its one retry.  What the query had stays; a refusal with 409
\* is not data, and another error takes its place.
FetchFails ==
    /\ shows \in want /\ moves > 0 /\ moves' = moves - 1
    /\ want' = want \ {shows} /\ failed' = failed \cup {shows}
    /\ data' = [data EXCEPT ![shows] = IF shows = "results" /\ Refused(@) THEN Nothing ELSE @]
    /\ UNCHANGED <<serverVars, raced, shows, live, sock>>

\* Another page, with a hook of its own.  A query that is stale, failed, or has no data
\* fetches again.
Visit(page, stale) ==
    /\ page # shows /\ moves > 0 /\ moves' = moves - 1
    /\ shows' = page
    /\ want' = IF \/ stale \/ page \in failed \/ data[page] = Nothing
                  \/ page = "results" /\ Refused(data[page])
               THEN want \cup {page} ELSE want
    /\ live' = Nothing
    /\ sock' = IF page = "contest" /\ data[page] # Nothing /\ Watches(page, data[page])
               THEN Dialled ELSE Off
    /\ UNCHANGED <<serverVars, raced, data, failed>>

Drop ==
    /\ sock.state = "open" /\ moves > 0 /\ moves' = moves - 1
    /\ sock' = [Off EXCEPT !.state = "lost"]
    /\ UNCHANGED <<serverVars, raced, shows, data, want, failed, live>>

\* Within five attempts, or not at all.
Reconnect ==
    /\ sock.state = "lost"
    /\ sock' = Dialled
    /\ UNCHANGED <<serverVars, raced, shows, data, want, failed, live, moves>>
GiveUp ==
    /\ sock.state = "lost"
    /\ sock' = [sock EXCEPT !.state = "failed"]
    /\ UNCHANGED <<serverVars, raced, shows, data, want, failed, live, moves>>

\* onCounts, and the counts of the ack; onFinalized makes the contest's queries fetch.
Receive ==
    /\ sock.inbox # <<>>
    /\ \/ /\ Head(sock.inbox).kind = "counts"
          /\ live' = Head(sock.inbox).version
          /\ sock' = [sock EXCEPT !.inbox = Tail(@)]
          /\ UNCHANGED want
       \/ /\ Head(sock.inbox).kind = "finalized"
          /\ want' = TabPages
          /\ sock' = IF shows = "results" THEN Off ELSE [sock EXCEPT !.inbox = Tail(@)]
          /\ UNCHANGED live
    /\ UNCHANGED <<serverVars, raced, shows, data, failed, moves>>

PageNext ==
    \/ \E s \in Servers : Change(s) \/ CountsChanged(s) \/ SendCounts(s) \/ ReadCounts(s) \/ Stop(s)
    \/ \E send \in sends : Emit(send)
    \/ Cancel \/ End \/ Finalize \/ EmitFinalized
    \/ WatchReads \/ WatchJoins
    \/ Poll \/ Fetched \/ FetchFails \/ Retry
    \/ \E page \in TabPages, stale \in BOOLEAN : Visit(page, stale)
    \/ Drop \/ Reconnect \/ GiveUp \/ Receive

PageSpec == PageInit /\ [][PageNext]_pageVars

\* The interval comes round, and requests are answered; not all of them with success,
\* but no more than MaxMoves fail.
PageFairness == WF_pageVars(Poll) /\ WF_pageVars(Fetched)

-----------------------------------------------------------------------------

\* Nothing about the counts is on its way to a tab that watches.
CountsAtRest ==
    /\ timer = {} /\ owed = {} /\ reading = {} /\ sends = {}
    /\ sock.joined /\ sock.inbox = <<>>

\* "Coalesces bursts into one update per second, read fresh from the database so it is
\* always right": at rest a page that watches shows the counts as they are, unless a
\* broadcast was lost with its server, overtaken by an older one, or sent while the
\* watch was being answered (contests.gateway.ts, countsChanged and onWatch).
CountsRight ==
    shows = "contest" /\ CountsAtRest /\ ~raced => live = counts

ResultsShown(page) == data[page] # Nothing /\ data[page].out /\ page \notin failed

\* An error state that neither the interval nor the socket leaves: "Could not load
\* results" over what is not a 409, "Contest not found" without a contest, and either
\* one over results that are out.
Stuck(page) ==
    /\ page \in failed \ want
    /\ data[page] = Nothing \/ data[page].out

\* Once results are out, a page that stays open shows them, whatever the socket missed
\* and however often the contest's page failed to load again, unless it is stuck on an
\* error; from there it shows them when it is tried again and answered (ContestDetails.tsx
\* and ContestResults.tsx, refetchInterval; "This page updates by itself" makes no
\* exception).
ResultsShow ==
    \A page \in TabPages :
       (course.out /\ shows = page) ~> (shows # page \/ Stuck(page) \/ ResultsShown(page))

=============================================================================
