------------------------------- MODULE RoomPin -------------------------------
(***************************************************************************)
(* The pinned question of one room and one page that shows it: the page    *)
(* starts from the room as the query has it, then from the answer to       *)
(* room:join, and then follows the broadcasts.  Pins and unpins come from  *)
(* the owner's and admins' pages.                                          *)
(***************************************************************************)
EXTENDS Naturals

CONSTANTS
    Pinners,        \* pin and unpin requests that can run at once
    Asked,          \* the questions that are pinned
    NoPin,          \* null: nothing pinned, nothing in the cache
    MaxPins, MaxDrops   \* bounds: requests; visits, drops and stops

VARIABLES
    pinned,     \* pinnedQuestion of the room document
    pinning,    \* what each request is doing
    pinWay,     \* broadcasts on their way
    visit,      \* the page: open, seeded by the room, the pin it shows
    link,       \* its socket: how far room:join is, the pin to be acknowledged
    query,      \* ['room', id]: the request, the pin it read, the cached pin
    outdated,   \* history: a pin was written while an older one was still to arrive
    budget      \* bounds: what is left of them

pinVars == <<pinned, pinning, pinWay, visit, link, query, outdated, budget>>

Resting == [step |-> "free"]
NoLink == [step |-> "off", ack |-> NoPin]
Closed == [open |-> FALSE, seeded |-> FALSE, shows |-> NoPin]

PinInit ==
    /\ pinned = NoPin
    /\ pinning = [p \in Pinners |-> Resting]
    /\ pinWay = {}
    /\ visit = Closed
    /\ link = NoLink
    /\ query = [step |-> "idle", got |-> NoPin, known |-> FALSE, cached |-> NoPin]
    /\ outdated = FALSE
    /\ budget = [pins |-> MaxPins, drops |-> MaxDrops]

Spend(what) == budget[what] > 0 /\ budget' = [budget EXCEPT ![what] = @ - 1]

-----------------------------------------------------------------------------
(* question:pin and question:unpin *)

\* The owner is checked and the room read.
PinBegin(p, question) ==
    /\ pinning[p] = Resting /\ Spend("pins")
    /\ pinning' = [pinning EXCEPT ![p] = [step |-> "save", pin |-> question, seen |-> pinned]]
    /\ UNCHANGED <<pinned, pinWay, visit, link, query, outdated>>

\* What an older pin may still reach the page by, when p writes.
OthersOnTheWay(p) ==
    \/ \E o \in Pinners \ {p} : pinning[o] # Resting
    \/ pinWay # {}
    \/ link.step \in {"read", "joined"} \/ query.step = "read"

\* save writes only what it changed of the room as it was read.
PinSave(p) ==
    /\ pinning[p].step = "save"
    /\ pinned' = IF pinning[p].pin # pinning[p].seen THEN pinning[p].pin ELSE pinned
    /\ outdated' = (OthersOnTheWay(p) \/ pinning[p].seen # pinned)
    /\ pinning' = [pinning EXCEPT ![p].step = "tell"]
    /\ UNCHANGED <<pinWay, visit, link, query, budget>>

\* The pin as it was saved is broadcast, or the server stops before.
PinTell(p) ==
    /\ pinning[p].step = "tell"
    /\ pinWay' = pinWay \cup {pinning[p].pin}
    /\ pinning' = [pinning EXCEPT ![p] = Resting]
    /\ UNCHANGED <<pinned, visit, link, query, outdated, budget>>
PinDies(p) ==
    /\ pinning[p].step = "tell" /\ Spend("drops")
    /\ pinning' = [pinning EXCEPT ![p] = Resting]
    /\ outdated' = TRUE
    /\ UNCHANGED <<pinned, pinWay, visit, link, query>>

\* onPinned and onUnpinned, on a socket in the channel.
PinArrives(question) ==
    /\ question \in pinWay
    /\ pinWay' = pinWay \ {question}
    /\ visit' = IF link.step \in {"joined", "ready"} THEN [visit EXCEPT !.shows = question] ELSE visit
    /\ UNCHANGED <<pinned, pinning, link, query, outdated, budget>>

-----------------------------------------------------------------------------
(* room:join *)

Connects ==
    /\ visit.open /\ link.step = "off"
    /\ link' = [NoLink EXCEPT !.step = "asked"]
    /\ UNCHANGED <<pinned, pinning, pinWay, visit, query, outdated, budget>>

\* The room is read; nothing older is on its way if no pin is being made.
JoinReads ==
    /\ link.step = "asked"
    /\ link' = [step |-> "read", ack |-> pinned]
    /\ outdated' = (outdated /\ (query.step = "read" \/ pinWay # {}
                                 \/ \E p \in Pinners : pinning[p] # Resting))
    /\ UNCHANGED <<pinned, pinning, pinWay, visit, query, budget>>
JoinEnters ==
    /\ link.step = "read"
    /\ link' = [link EXCEPT !.step = "joined"]
    /\ UNCHANGED <<pinned, pinning, pinWay, visit, query, outdated, budget>>

\* Mutant: the answer says nothing of the pin.
JoinAcksAlone ==
    /\ link.step = "joined"
    /\ link' = [NoLink EXCEPT !.step = "ready"]
    /\ UNCHANGED <<pinned, pinning, pinWay, visit, query, outdated, budget>>

\* The answer carries the pin of the room as it was read, after the history.
JoinAcks ==
    /\ link.step = "joined"
    /\ link' = [NoLink EXCEPT !.step = "ready"]
    /\ visit' = [visit EXCEPT !.shows = link.ack]
    /\ UNCHANGED <<pinned, pinning, pinWay, query, outdated, budget>>

Disconnects ==
    /\ link.step # "off" /\ Spend("drops")
    /\ link' = NoLink
    /\ UNCHANGED <<pinned, pinning, pinWay, visit, query, outdated>>

-----------------------------------------------------------------------------
(* The page and its query *)

\* The effect seeds the pin once for a room: from the cache, if there is one.
OpenRoom(stale) ==
    /\ ~visit.open /\ Spend("drops")
    /\ visit' = [open |-> TRUE, seeded |-> query.known,
                 shows |-> IF query.known THEN query.cached ELSE NoPin]
    /\ query' = IF (stale \/ ~query.known) /\ query.step = "idle"
                THEN [query EXCEPT !.step = "sent"] ELSE query
    /\ UNCHANGED <<pinned, pinning, pinWay, link, outdated>>

CloseRoom ==
    /\ visit.open
    /\ visit' = Closed
    /\ link' = NoLink
    /\ UNCHANGED <<pinned, pinning, pinWay, query, outdated, budget>>

RoomRead ==
    /\ query.step = "sent"
    /\ query' = [query EXCEPT !.step = "read", !.got = pinned]
    /\ UNCHANGED <<pinned, pinning, pinWay, visit, link, outdated, budget>>

RoomArrives ==
    /\ query.step = "read"
    /\ query' = [step |-> "idle", got |-> NoPin, known |-> TRUE, cached |-> query.got]
    /\ visit' = IF visit.open /\ ~visit.seeded
                THEN [visit EXCEPT !.seeded = TRUE, !.shows = query.got] ELSE visit
    /\ UNCHANGED <<pinned, pinning, pinWay, link, outdated, budget>>

PinNext ==
    \/ \E p \in Pinners :
          \/ PinSave(p) \/ PinTell(p) \/ PinDies(p)
          \/ \E question \in Asked \cup {NoPin} : PinBegin(p, question)
    \/ \E question \in Asked \cup {NoPin} : PinArrives(question)
    \/ Connects \/ JoinReads \/ JoinEnters \/ JoinAcks \/ Disconnects
    \/ \E stale \in BOOLEAN : OpenRoom(stale)
    \/ CloseRoom \/ RoomRead \/ RoomArrives

PinSpec == PinInit /\ [][PinNext]_pinVars

-----------------------------------------------------------------------------

\* Once nothing is on its way, a connected page shows the room's pin, whichever of its
\* three sources came last: unless a pin was written while an older one was still to
\* reach the page, by another request, the answer to a join or the query, or over a
\* room that had changed since it was read, or its broadcast was lost.  Joining again
\* repairs all of these (chat.gateway.ts, onPin and onJoin; Room.tsx; useChatSocket.ts).
PinRight ==
    /\ visit.open /\ link.step = "ready" /\ query.step = "idle"
    /\ pinWay = {} /\ \A p \in Pinners : pinning[p] = Resting
    /\ ~outdated
    => visit.shows = pinned

=============================================================================
