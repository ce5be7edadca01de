------------------------------ MODULE RoomChat ------------------------------
(***************************************************************************)
(* One room with its chat: the room document (rooms.service), the messages *)
(* collection (chat.service), the handlers of chat.gateway on any number   *)
(* of servers, and the message list of each open room page (useChatSocket).*)
(*                                                                         *)
(* Handlers await the database between steps, so requests interleave; one  *)
(* that fails, or whose server stops, is one that takes no more steps.  A  *)
(* broadcast reaches each socket's server later, in any order (the Redis   *)
(* adapter), and goes to the sockets that are in the channel then.         *)
(* Typing, the pinned question and the rest of the pages have modules of   *)
(* their own.                                                              *)
(***************************************************************************)
EXTENDS Integers, Sequences, FiniteSets, Functions

CONSTANTS
    Users,
    Owner,          \* the user who made the room; an admin may do the same
    Tabs,           \* the room pages whose list is followed
    UserOf,         \* whose page each of them is
    Requests,       \* request handlers that can run at once
    HistoryLimit,   \* the newest messages that history returns
    MaxMessages, MaxConnects    \* bounds: messages, sockets of each tab

ASSUME UserOfAssumption == UserOf \in [Tabs -> Users] /\ Owner \in Users
ASSUME HistoryAssumption == HistoryLimit \in Nat \ {0}

VARIABLES
    state,      \* of the room
    members,    \* how often each user is among the participants
    announced,  \* announcedUserIds
    messages,   \* the messages, oldest first; a message's id is its place
    req,        \* what each handler is doing
    online,     \* the tabs whose socket is connected
    conn,       \* the socket of each tab, counted
    joined,     \* the tabs whose socket is in the room's channel
    ready,      \* the tabs that got the history on this socket
    view,       \* the ids each page shows
    transit,    \* broadcasts on their way, as <<id, tab>>
    missed      \* ids that the history wiped from a page (history)

room == <<state, members, announced>>
sockets == <<online, conn, joined>>
pages == <<ready, view, missed>>
chat == <<messages, transit>>
vars == <<room, sockets, pages, chat, req>>

Free == [step |-> "free"]

Init ==
    /\ state = "waiting"
    /\ members = [u \in Users |-> 0]
    /\ announced = {}
    /\ messages = <<>>
    /\ req = [r \in Requests |-> Free]
    /\ online = {} /\ joined = {} /\ ready = {}
    /\ conn = [t \in Tabs |-> 0]
    /\ view = [t \in Tabs |-> <<>>]
    /\ missed = [t \in Tabs |-> {}]
    /\ transit = {}

\* How many of n messages history finds.
Found(n) == IF n < HistoryLimit THEN n ELSE HistoryLimit

\* Mutants: history with the oldest; an announcement that is not atomic; a save of the
\* whole document.
Oldest(n) == [i \in 1 .. Found(n) |-> i]
Anytime(u) == TRUE
PushedAsRead(seen, u) == [seen EXCEPT ![u] = @ + 1]

\* The ids that history finds among n messages.
Newest(n) == [i \in 1 .. Found(n) |-> n - Found(n) + i]

\* onMessage of the page.
Shown(list, id) == IF id \in Range(list) THEN list ELSE Append(list, id)

IsMember(u) == u = Owner \/ members[u] > 0

-----------------------------------------------------------------------------
(* The room document, over HTTP *)

\* joinByCode: the room as read, then the push of the participant.
EnterBegin(r, u) ==
    /\ req[r] = Free
    /\ state # "ended"
    /\ members[u] = 0
    /\ req' = [req EXCEPT ![r] = [step |-> "enter", user |-> u, seen |-> members]]
    /\ UNCHANGED <<room, sockets, pages, chat>>

\* save writes what changed and not the room as read: one participant is pushed.
Pushed(seen, u) == [members EXCEPT ![u] = @ + 1]

EnterSave(r) ==
    /\ req[r].step = "enter"
    /\ members' = Pushed(req[r].seen, req[r].user)
    /\ req' = [req EXCEPT ![r] = Free]
    /\ UNCHANGED <<state, announced, sockets, pages, chat>>

CanTransition(from, to) ==
    \/ from = "waiting" /\ to \in {"active", "ended"}
    \/ from = "active" /\ to = "ended"

SetStateBegin(r, to) ==
    /\ req[r] = Free
    /\ CanTransition(state, to)
    /\ req' = [req EXCEPT ![r] = [step |-> "state", to |-> to]]
    /\ UNCHANGED <<room, sockets, pages, chat>>

SetStateSave(r) ==
    /\ req[r].step = "state"
    /\ state' = req[r].to
    /\ req' = [req EXCEPT ![r] = Free]
    /\ UNCHANGED <<members, announced, sockets, pages, chat>>

-----------------------------------------------------------------------------
(* Sockets *)

\* The page sends room:join on every connect; the handler runs even if the socket
\* is gone again.
Connect(r, t) ==
    /\ req[r] = Free
    /\ t \notin online /\ conn[t] < MaxConnects[t]
    /\ online' = online \cup {t}
    /\ conn' = [conn EXCEPT ![t] = @ + 1]
    /\ req' = [req EXCEPT ![r] = [step |-> "join", tab |-> t, conn |-> conn[t] + 1]]
    /\ UNCHANGED <<room, joined, pages, chat>>

\* The connection is lost; the page keeps its list.  A page that is closed is one that
\* does not connect again.
Disconnect(t) ==
    /\ t \in online
    /\ online' = online \ {t}
    /\ joined' = joined \ {t}
    /\ ready' = ready \ {t}
    /\ missed' = [missed EXCEPT ![t] = {}]
    /\ UNCHANGED <<room, conn, view, chat, req>>

SameSocket(r) == req[r].tab \in online /\ req[r].conn = conn[req[r].tab]

-----------------------------------------------------------------------------
(* room:join *)

\* The room is read, membership checked and the channel joined.
JoinBegin(r) ==
    /\ req[r].step = "join"
    /\ \/ /\ IsMember(UserOf[req[r].tab])
          /\ joined' = IF SameSocket(r) THEN joined \cup {req[r].tab} ELSE joined
          /\ req' = [req EXCEPT ![r] = [step |-> "history", tab |-> req[r].tab, conn |-> req[r].conn,
                                        ended |-> state = "ended"]]
       \/ /\ ~IsMember(UserOf[req[r].tab])
          /\ req' = [req EXCEPT ![r] = Free]
          /\ UNCHANGED joined
    /\ UNCHANGED <<room, online, conn, pages, chat>>

ReadHistory(r) ==
    /\ req[r].step = "history"
    /\ req' = [req EXCEPT ![r] = [step |-> "emit", tab |-> req[r].tab, conn |-> req[r].conn,
                                  ended |-> req[r].ended, count |-> Len(messages)]]
    /\ UNCHANGED <<room, sockets, pages, chat>>

\* The page replaces its list; a message stored after the read and shown before the
\* history arrives is wiped.
EmitHistory(r) ==
    /\ req[r].step = "emit"
    /\ LET t == req[r].tab IN
         /\ IF SameSocket(r)
            THEN /\ view' = [view EXCEPT ![t] = Newest(req[r].count)]
                 /\ missed' = [missed EXCEPT ![t] = {id \in Range(view[t]) : id > req[r].count}]
                 /\ ready' = ready \cup {t}
            ELSE UNCHANGED pages
         /\ req' = [req EXCEPT ![r] = IF req[r].ended THEN Free
                                      ELSE [step |-> "announce", user |-> UserOf[t]]]
    /\ UNCHANGED <<room, sockets, chat>>

\* The filter of markAnnounced, tested with the write.
FirstTime(u) == u \notin announced

MarkAnnounced(r) ==
    /\ req[r].step = "announce"
    /\ LET u == req[r].user IN
         IF FirstTime(u)
         THEN /\ announced' = announced \cup {u}
              /\ req' = [req EXCEPT ![r] = [step |-> "post", user |-> u]]
         ELSE /\ req' = [req EXCEPT ![r] = Free]
              /\ UNCHANGED announced
    /\ UNCHANGED <<state, members, sockets, pages, chat>>

-----------------------------------------------------------------------------
(* Messages *)

\* The message is stored and then broadcast.
Store(r, type) ==
    /\ Len(messages) < MaxMessages
    /\ messages' = Append(messages, [type |-> type, user |-> req[r].user])
    /\ req' = [req EXCEPT ![r] = [step |-> "tell", id |-> Len(messages) + 1]]
    /\ UNCHANGED <<room, sockets, pages, transit>>

PostJoined(r) == req[r].step = "post" /\ Store(r, "system")

\* chat:send, from any socket of the user: the room as read, then the message.
SendBegin(r, u) ==
    /\ req[r] = Free
    /\ IsMember(u) /\ state # "ended"
    /\ req' = [req EXCEPT ![r] = [step |-> "send", user |-> u]]
    /\ UNCHANGED <<room, sockets, pages, chat>>

SendCreate(r) == req[r].step = "send" /\ Store(r, "user")

Broadcast(r) ==
    /\ req[r].step = "tell"
    /\ transit' = transit \cup ({req[r].id} \X Tabs)
    /\ req' = [req EXCEPT ![r] = Free]
    /\ UNCHANGED <<room, sockets, pages, messages>>

\* A broadcast reaches a tab's server, which passes it on to a socket in the channel.
Deliver(id, t) ==
    /\ <<id, t>> \in transit
    /\ transit' = transit \ {<<id, t>>}
    /\ view' = IF t \in joined THEN [view EXCEPT ![t] = Shown(@, id)] ELSE view
    /\ UNCHANGED <<room, sockets, ready, missed, messages, req>>

Next ==
    \/ \E r \in Requests :
         \/ \E u \in Users : EnterBegin(r, u) \/ SendBegin(r, u)
         \/ \E to \in {"active", "ended"} : SetStateBegin(r, to)
         \/ \E t \in Tabs : Connect(r, t)
         \/ EnterSave(r) \/ SetStateSave(r)
         \/ JoinBegin(r) \/ ReadHistory(r) \/ EmitHistory(r) \/ MarkAnnounced(r) \/ PostJoined(r)
         \/ SendCreate(r) \/ Broadcast(r)
    \/ \E t \in Tabs : Disconnect(t) \/ \E id \in 1 .. MaxMessages : Deliver(id, t)

Spec == Init /\ [][Next]_vars

-----------------------------------------------------------------------------
(* Properties *)

\* "Announced once per user", however many tabs, reconnects and handlers that outlive
\* their socket there are (markAnnounced tests and writes in one step).
AnnouncedOnce ==
    \A i, j \in DOMAIN messages :
       messages[i].type = "system" /\ messages[j].type = "system"
       /\ messages[i].user = messages[j].user => i = j

\* A page never shows a message twice, although the history and the broadcast of a
\* message race to it (onMessage looks for the id).  And one that got the history has
\* every one of the newest messages, or it is on its way (a handler that stops there
\* never sends it), or it came between the read of the history and its arrival: joining
\* the channel before the read leaves no other gap (onJoin).
EachShownOnce ==
    /\ \A t \in Tabs : \A i, j \in DOMAIN view[t] : view[t][i] = view[t][j] => i = j
    /\ \A t \in ready : \A id \in DOMAIN messages :
          id > Len(messages) - HistoryLimit =>
              \/ id \in Range(view[t]) \cup missed[t]
              \/ <<id, t>> \in transit
              \/ \E r \in Requests : req[r].step = "tell" /\ req[r].id = id

\* Whoever entered stays a participant, whatever saves of the room overlap.
MembersStay == [][\A u \in Users : members'[u] >= members[u]]_vars

\* "ended: []".  Violated: a start that read the room before it ended writes after it.
EndedIsFinal == [][state = "ended" => state' = "ended"]_vars

=============================================================================
