------------------------------ MODULE RoomPages ------------------------------
(***************************************************************************)
(* What one tab shows of a room and offers to do with it: the dashboard    *)
(* with its table of rooms, the live rooms of the sidebar, the room's page *)
(* and the page to enter a join code, all from cached queries, while the   *)
(* room changes by this tab's requests and by those of others.             *)
(*                                                                         *)
(* An answer of the server is told apart by how many changes of the state  *)
(* it has seen.  The pinned question comes by the socket: see RoomPin.     *)
(***************************************************************************)
EXTENDS Naturals

CONSTANTS
    Slots,          \* requests that can run at once
    Unread,         \* the state in a query that was never answered
    MaxAsks, MaxVisits  \* bounds: requests; visits and ageing of what is cached

ASSUME UnreadAssumption == Unread \notin {"waiting", "active", "ended", "refused", "absent"}

VARIABLES
    theRoom,    \* its document: state, and how often that was written
    who,        \* the user: role, owns the room, is a participant
    shown,      \* the page of the tab
    cached,     \* what each query holds: state, version, fresh
    fetching,   \* the fetch of each query
    asked,      \* requests on their way: whose, what, from where, how far
    told,       \* history: the newest version a query has been told of
    overlapped, \* history: queries told while something older was on its way
    left        \* bounds: what is left of them

roomPageVars == <<theRoom, who, shown, cached, fetching, asked, told, overlapped, left>>

RoomQueries == {"room", "list", "active"}
QueriesOf(page) ==
    {"active"} \cup (IF page = "room" THEN {"room"} ELSE IF page = "dashboard" THEN {"list"} ELSE {})

NoFetch == [step |-> "idle", state |-> Unread, version |-> 0]
NoAsk == [step |-> "free"]

RoomPagesInit ==
    /\ theRoom = [state |-> "waiting", version |-> 0]
    /\ who \in {w \in [role : {"candidate", "interviewer", "admin"}, owns : BOOLEAN, joined : BOOLEAN] :
                   w.owns => w.role # "candidate" /\ ~w.joined}
    /\ shown \in {"dashboard", "join"}
    /\ cached = [q \in RoomQueries |-> [state |-> Unread, version |-> 0, fresh |-> FALSE]]
    /\ fetching = [q \in RoomQueries |->
          IF q \in QueriesOf(shown) THEN [NoFetch EXCEPT !.step = "asked"] ELSE NoFetch]
    /\ asked = [s \in Slots |-> NoAsk]
    /\ told = [q \in RoomQueries |-> 0]
    /\ overlapped = {}
    /\ left = [asks |-> MaxAsks, visits |-> MaxVisits]

Uses(what) == left[what] > 0 /\ left' = [left EXCEPT ![what] = @ - 1]

-----------------------------------------------------------------------------
(* The server *)

OwnsRoom == who.owns \/ who.role = "admin"          \* isOwnedBy
MemberOfRoom == OwnsRoom \/ who.joined              \* isMember
Listed == who.owns \/ who.joined                    \* listForUser

MayBecome(from, to) ==
    \/ from = "waiting" /\ to \in {"active", "ended"}
    \/ from = "active" /\ to = "ended"

TargetOf(ask) == IF ask = "start" THEN "active" ELSE "ended"

\* What the server answers now, were nothing to come in between.
RoomAccepts(ask) ==
    CASE ask \in {"start", "end"} ->
            OwnsRoom /\ (theRoom.state = TargetOf(ask) \/ MayBecome(theRoom.state, TargetOf(ask)))
      [] ask = "send" -> MemberOfRoom /\ theRoom.state # "ended"
      [] ask = "pin" -> OwnsRoom
      [] ask = "open" -> MemberOfRoom
      [] ask = "create" -> who.role # "candidate"
      [] ask = "join" -> theRoom.state # "ended"

\* A query reads: the room itself, or the list of the user's rooms, or of the active ones.
ReadBy(q) ==
    IF q = "room" THEN IF MemberOfRoom THEN theRoom.state ELSE "refused"
    ELSE IF Listed /\ (q = "active" => theRoom.state = "active") THEN theRoom.state ELSE "absent"

-----------------------------------------------------------------------------
(* What the pages offer *)

\* Room: the buttons, the menu and the composer, while the socket is connected.
RoomOffers ==
    LET state == cached["room"].state IN
    IF state \in {Unread, "refused"} THEN {}
    ELSE (IF OwnsRoom /\ state # "ended" THEN {"pin", "end"} ELSE {})
         \cup (IF OwnsRoom /\ state = "waiting" THEN {"start"} ELSE {})
         \cup (IF state # "ended" THEN {"send"} ELSE {})

RoomRow ==
    LET state == cached["list"].state IN
    IF state \in {Unread, "absent"} THEN {}
    ELSE {"open"} \cup (IF who.owns /\ state # "ended" THEN {"end"} ELSE {})

LiveRoomLink == IF cached["active"].state = "active" THEN {"open"} ELSE {}

\* The dashboard asks a host to create a room, and anyone for a code.
DashboardRoomOffers ==
    RoomRow \cup LiveRoomLink \cup {"join"} \cup (IF who.role # "candidate" THEN {"create"} ELSE {})

OffersShown ==
    LiveRoomLink \cup (CASE shown = "room" -> RoomOffers
                         [] shown = "dashboard" -> DashboardRoomOffers
                         [] shown = "join" -> {"join"})

-----------------------------------------------------------------------------
(* The queries *)

\* A query that is shown fetches: first, when it is stale, or when it is told to.
Fetches(q) == [fetching EXCEPT ![q] = IF @.step = "idle" THEN [NoFetch EXCEPT !.step = "asked"] ELSE @]

\* A page that is left forgets what it waits for, although the answer is handled.
WaitedFor(s) == asked[s].step # "free" /\ asked[s].mine /\ asked[s].here
Forgotten == [s \in Slots |-> IF WaitedFor(s) THEN [asked[s] EXCEPT !.here = FALSE] ELSE asked[s]]

GoTo(page) ==
    /\ shown' = page
    /\ asked' = Forgotten
    /\ fetching' = [q \in RoomQueries |->
          IF q \in QueriesOf(page) \ QueriesOf(shown) /\ ~cached[q].fresh THEN Fetches(q)[q] ELSE fetching[q]]

VisitPage(page) ==
    /\ page # shown /\ Uses("visits")
    /\ page = "room" => "open" \in OffersShown
    /\ GoTo(page)
    /\ UNCHANGED <<theRoom, who, cached, told, overlapped>>

\* Thirty seconds.
Ages(q) ==
    /\ cached[q].fresh /\ Uses("visits")
    /\ cached' = [cached EXCEPT ![q].fresh = FALSE]
    /\ UNCHANGED <<theRoom, who, shown, fetching, asked, told, overlapped>>

InFlight(others) == \E s \in others : asked[s].step # "free" /\ asked[s].mine

FetchReads(q) ==
    /\ fetching[q].step = "asked"
    /\ fetching' = [fetching EXCEPT ![q] =
          [step |-> "read", state |-> ReadBy(q), version |-> theRoom.version]]
    /\ overlapped' = IF InFlight(Slots) THEN overlapped ELSE overlapped \ {q}
    /\ UNCHANGED <<theRoom, who, shown, cached, asked, told, left>>

FetchArrives(q) ==
    /\ fetching[q].step = "read"
    /\ cached' = [cached EXCEPT ![q] = [state |-> fetching[q].state, version |-> fetching[q].version,
                                        fresh |-> fetching[q].state # "refused"]]
    /\ fetching' = [fetching EXCEPT ![q] = NoFetch]
    /\ UNCHANGED <<theRoom, who, shown, asked, told, overlapped, left>>

-----------------------------------------------------------------------------
(* The requests *)

\* Start waits for the page's other requests, and a code for its own; End does not.
IsPending(ask) ==
    \E s \in Slots : WaitedFor(s) /\ (ask = "start" \/ (ask = "join" /\ asked[s].ask = "join"))

\* The user presses a button or enters a code; or someone else does elsewhere.
Asks(s, ask) ==
    /\ asked[s] = NoAsk /\ Uses("asks")
    /\ ask \in OffersShown /\ ~IsPending(ask)
    /\ asked' = [asked EXCEPT ![s] =
          [step |-> "sent", mine |-> TRUE, ask |-> ask, page |-> shown, here |-> TRUE]]
    /\ UNCHANGED <<theRoom, who, shown, cached, fetching, told, overlapped>>
OthersAsk(s, ask) ==
    /\ asked[s] = NoAsk /\ Uses("asks")
    /\ asked' = [asked EXCEPT ![s] = [step |-> "sent", mine |-> FALSE, ask |-> ask, page |-> "room"]]
    /\ UNCHANGED <<theRoom, who, shown, cached, fetching, told, overlapped>>

AnsweredWith(s, state, version) ==
    asked' = [asked EXCEPT ![s] =
        IF @.mine THEN [step |-> "answered", mine |-> TRUE, ask |-> @.ask, page |-> @.page,
                        here |-> @.here, state |-> state, version |-> version] ELSE NoAsk]

\* setState: a room that is in the state already is answered as it is; an illegal
\* change is refused; else the state is written over whatever it is by then.
SetChecks(s) ==
    /\ asked[s].step = "sent" /\ asked[s].ask \in {"start", "end"}
    /\ LET to == TargetOf(asked[s].ask) IN
         IF theRoom.state = to THEN AnsweredWith(s, to, theRoom.version)
         ELSE asked' = [asked EXCEPT ![s] = IF MayBecome(theRoom.state, to) THEN [@ EXCEPT !.step = "checked"]
                                            ELSE NoAsk]
    /\ UNCHANGED <<theRoom, who, shown, cached, fetching, told, overlapped, left>>
SetWrites(s) ==
    /\ asked[s].step = "checked"
    /\ theRoom' = [state |-> TargetOf(asked[s].ask), version |-> theRoom.version + 1]
    /\ AnsweredWith(s, theRoom'.state, theRoom'.version)
    /\ UNCHANGED <<who, shown, cached, fetching, told, overlapped, left>>

\* joinByCode; the owner may enter the code too.
Enters(s) ==
    /\ asked[s].step = "sent" /\ asked[s].ask = "join"
    /\ IF theRoom.state = "ended"
       THEN asked' = [asked EXCEPT ![s] = NoAsk] /\ UNCHANGED who
       ELSE AnsweredWith(s, theRoom.state, theRoom.version) /\ who' = [who EXCEPT !.joined = TRUE]
    /\ UNCHANGED <<theRoom, shown, cached, fetching, told, overlapped, left>>

\* invalidateQueries(['rooms']): what is shown is fetched anew, the rest is stale.
Invalidated == {"list", "active"}
Refetching == [q \in RoomQueries |-> IF q \in Invalidated \cap QueriesOf(shown)
                                     THEN [NoFetch EXCEPT !.step = "asked"] ELSE fetching[q]]
Staled == [q \in RoomQueries |-> IF q \in Invalidated THEN [cached[q] EXCEPT !.fresh = FALSE] ELSE cached[q]]

\* Mutant: the room's page forgets what it holds of the room itself.
WithAnswerAlone(answer) == Staled

\* The room's page puts the answer in the place of what it holds; the table does not.
WithAnswer(answer) ==
    IF answer.page = "room"
    THEN [Staled EXCEPT !["room"] = [state |-> answer.state, version |-> answer.version, fresh |-> TRUE]]
    ELSE Staled

\* onSuccess of Room's stateMutation and of RoomsTable's endRoom.
SetArrives(s) ==
    /\ asked[s].step = "answered" /\ asked[s].ask \in {"start", "end"}
    /\ LET tells == Invalidated \cup (IF asked[s].page = "room" THEN {"room"} ELSE {}) IN
         /\ told' = [q \in RoomQueries |-> IF q \in tells /\ told[q] < asked[s].version
                                           THEN asked[s].version ELSE told[q]]
         /\ overlapped' = overlapped \cup
               {q \in tells : \/ InFlight(Slots \ {s})
                              \/ fetching[q].step = "read" /\ Refetching[q].step = "read"}
    /\ cached' = WithAnswer(asked[s])
    /\ fetching' = Refetching
    /\ asked' = [asked EXCEPT ![s] = NoAsk]
    /\ UNCHANGED <<theRoom, who, shown, left>>

\* onSuccess of JoinRoom and of JoinWithCode: on to the room.
EnterArrives(s) ==
    /\ asked[s].step = "answered" /\ asked[s].ask = "join"
    /\ cached' = Staled
    /\ shown' = "room"
    /\ fetching' = [q \in RoomQueries |->
          IF q = "active" THEN [NoFetch EXCEPT !.step = "asked"]
          ELSE IF q = "room" /\ shown # "room" /\ ~cached[q].fresh THEN Fetches(q)[q] ELSE fetching[q]]
    /\ asked' = [Forgotten EXCEPT ![s] = NoAsk]
    /\ overlapped' = overlapped \cup {q \in Invalidated : fetching[q].step = "read"}
    /\ UNCHANGED <<theRoom, who, told, left>>

RoomPagesNext ==
    \/ \E page \in {"dashboard", "room", "join"} : VisitPage(page)
    \/ \E q \in RoomQueries : Ages(q) \/ FetchReads(q) \/ FetchArrives(q)
    \/ \E s \in Slots :
          \/ \E ask \in {"start", "end", "join"} : Asks(s, ask)
          \/ \E ask \in {"start", "end"} : OthersAsk(s, ask)
          \/ SetChecks(s) \/ SetWrites(s) \/ Enters(s) \/ SetArrives(s) \/ EnterArrives(s)

RoomPagesSpec == RoomPagesInit /\ [][RoomPagesNext]_roomPageVars

-----------------------------------------------------------------------------

AtRestShowing(q) ==
    q \in QueriesOf(shown) /\ fetching[q].step = "idle" /\ cached[q].state # Unread

\* A page at rest shows the room no older than this tab's own changes of it, as far as
\* the page was told of them, unless another request or a fetch was on its way just
\* then.  The table of rooms tells nothing to the room's own page: "End room" there
\* leaves the room open in the other for up to thirty seconds.  And a page that shows
\* the present state offers what the server accepts, and the room's page all that
\* would change something (Room.tsx, RoomsTable.tsx, JoinRoom.tsx; rooms.service.ts).
RoomPagesRight ==
    \A q \in RoomQueries : AtRestShowing(q) =>
       /\ q \notin overlapped => cached[q].version >= told[q]
       /\ cached[q].version = theRoom.version =>
             /\ q = "room" => \A ask \in RoomOffers : RoomAccepts(ask)
             /\ q = "list" => \A ask \in RoomRow : RoomAccepts(ask)
             /\ q = "active" => \A ask \in LiveRoomLink : RoomAccepts(ask)
             /\ q = "room" /\ cached[q].state # "refused" =>
                   {ask \in {"start", "end", "send"} :
                       RoomAccepts(ask) /\ (ask \in {"start", "end"} => theRoom.state # TargetOf(ask))}
                   \subseteq RoomOffers

=============================================================================
