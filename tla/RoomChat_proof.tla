--------------------------- MODULE RoomChat_proof ---------------------------
(***************************************************************************)
(* Theorems about RoomChat, RoomPin and RoomPages, for any number of       *)
(* users, pages, handlers, messages and requests: nobody is announced      *)
(* twice, nobody who entered stops being a participant, no page shows a    *)
(* message twice or lacks one of the newest, a page at rest shows the pin, *)
(* and what a page shows and offers of the room is right.                  *)
(***************************************************************************)
EXTENDS RoomChat, RoomPin, RoomPages, TLAPS

Message == [type : {"system", "user"}, user : Users]

\* The types the theorems need.
Typed ==
    /\ messages \in Seq(Message)
    /\ req = [r \in Requests |-> req[r]]
    /\ members \in [Users -> Nat]
    /\ \A r \in Requests : req[r].step \in {"post", "send", "announce", "enter"} => req[r].user \in Users
    /\ \A r \in Requests : req[r].step \in {"join", "history", "emit"} => req[r].tab \in Tabs

\* Some message says that u joined.
Told(u) == \E i \in DOMAIN messages : messages[i].type = "system" /\ messages[i].user = u

\* Whoever has been announced is on the list, and one handler at most is about to
\* announce a user whom no message has announced yet.
OnTheList ==
    /\ \A u \in Users : Told(u) => u \in announced
    /\ \A r \in Requests : req[r].step = "post" => req[r].user \in announced /\ ~Told(req[r].user)
    /\ \A r, q \in Requests :
         req[r].step = "post" /\ req[q].step = "post" /\ req[r].user = req[q].user => r = q

Inv == Typed /\ OnTheList /\ AnnouncedOnce

LEMMA InitInv == Init => Inv
<1> SUFFICES ASSUME Init PROVE Inv OBVIOUS
<1>1. Typed
  BY DEF Init, Typed, Message, Free
<1>2. OnTheList /\ AnnouncedOnce
  BY DEF Init, OnTheList, Told, AnnouncedOnce, Free
<1> QED BY <1>1, <1>2 DEF Inv

\* The steps that leave the list and the messages alone start no announcement.
Quiet ==
    /\ UNCHANGED <<messages, announced>>
    /\ \A q \in Requests : req'[q].step = "post" => req[q].step = "post" /\ req'[q].user = req[q].user

LEMMA QuietSteps ==
  ASSUME Typed, NEW r \in Requests,
         \/ \E u \in Users : EnterBegin(r, u) \/ SendBegin(r, u)
         \/ \E to \in {"active", "ended"} : SetStateBegin(r, to)
         \/ \E t \in Tabs : Connect(r, t)
         \/ EnterSave(r) \/ SetStateSave(r) \/ JoinBegin(r) \/ ReadHistory(r) \/ EmitHistory(r)
         \/ Broadcast(r)
  PROVE  Quiet
<1>1. CASE \E u \in Users : EnterBegin(r, u) \/ SendBegin(r, u)
  BY <1>1 DEF Typed, EnterBegin, SendBegin, Quiet, room, chat
<1>2. CASE \E to \in {"active", "ended"} : SetStateBegin(r, to)
  BY <1>2 DEF Typed, SetStateBegin, Quiet, room, chat
<1>3. CASE \E t \in Tabs : Connect(r, t)
  BY <1>3 DEF Typed, Connect, Quiet, room, chat
<1>4. CASE EnterSave(r) \/ SetStateSave(r) \/ Broadcast(r)
  BY <1>4 DEF Typed, EnterSave, SetStateSave, Broadcast, Quiet, room, chat, Free
<1>5. CASE JoinBegin(r) \/ ReadHistory(r)
  BY <1>5 DEF Typed, JoinBegin, ReadHistory, Quiet, room, chat, Free
<1>6. CASE EmitHistory(r)
  BY <1>6 DEF Typed, EmitHistory, Quiet, room, chat, Free
<1> QED BY <1>1, <1>2, <1>3, <1>4, <1>5, <1>6

\* Types are kept.
RequestUsers ==
    /\ req = [r \in Requests |-> req[r]]
    /\ \A r \in Requests : req[r].step \in {"post", "send", "announce", "enter"} => req[r].user \in Users
    /\ \A r \in Requests : req[r].step \in {"join", "history", "emit"} => req[r].tab \in Tabs

LEMMA TypedStays == ASSUME Typed, [Next]_vars PROVE Typed'
<1>0. RequestUsers
  BY DEF Typed, RequestUsers
<1>1. ASSUME NEW r \in Requests, NEW u \in Users, EnterBegin(r, u) \/ SendBegin(r, u) PROVE Typed'
  <2>1. RequestUsers'
    BY <1>0, <1>1 DEF RequestUsers, EnterBegin, SendBegin
  <2> QED BY <1>1, <2>1 DEF Typed, RequestUsers, EnterBegin, SendBegin, room, chat
<1>2. ASSUME NEW r \in Requests, NEW to, SetStateBegin(r, to) PROVE Typed'
  <2>1. RequestUsers'
    BY <1>0, <1>2 DEF RequestUsers, SetStateBegin
  <2> QED BY <1>2, <2>1 DEF Typed, RequestUsers, SetStateBegin, room, chat
<1>3. ASSUME NEW r \in Requests, NEW t \in Tabs, Connect(r, t) PROVE Typed'
  <2>1. RequestUsers'
    BY <1>0, <1>3 DEF RequestUsers, Connect
  <2> QED BY <1>3, <2>1 DEF Typed, RequestUsers, Connect, room, chat
<1>4. ASSUME NEW r \in Requests, EnterSave(r) PROVE Typed'
  <2>1. RequestUsers'
    BY <1>0, <1>4 DEF RequestUsers, EnterSave, Free
  <2>2. members' \in [Users -> Nat]
    BY <1>4 DEF Typed, EnterSave, Pushed
  <2> QED BY <1>4, <2>1, <2>2 DEF Typed, RequestUsers, EnterSave, chat
<1>5. ASSUME NEW r \in Requests, SetStateSave(r) \/ Broadcast(r) PROVE Typed'
  <2>1. RequestUsers'
    BY <1>0, <1>5 DEF RequestUsers, SetStateSave, Broadcast, Free
  <2> QED BY <1>5, <2>1 DEF Typed, RequestUsers, SetStateSave, Broadcast, room, chat
<1>6. ASSUME NEW r \in Requests, JoinBegin(r) \/ ReadHistory(r) PROVE Typed'
  <2>1. RequestUsers'
    BY <1>0, <1>6 DEF RequestUsers, JoinBegin, ReadHistory, Free
  <2> QED BY <1>6, <2>1 DEF Typed, RequestUsers, JoinBegin, ReadHistory, room, chat
<1>7. ASSUME NEW r \in Requests, EmitHistory(r) PROVE Typed'
  <2>1. req[r].tab \in Tabs
    BY <1>0, <1>7 DEF RequestUsers, EmitHistory
  <2>2. RequestUsers'
    BY <1>0, <1>7, <2>1, UserOfAssumption DEF RequestUsers, EmitHistory, Free
  <2> QED BY <1>7, <2>2 DEF Typed, RequestUsers, EmitHistory, room, chat
<1>8. ASSUME NEW r \in Requests, MarkAnnounced(r) PROVE Typed'
  <2>1. RequestUsers'
    BY <1>0, <1>8 DEF RequestUsers, MarkAnnounced, Free
  <2> QED BY <1>8, <2>1 DEF Typed, RequestUsers, MarkAnnounced, chat
<1>9. ASSUME NEW r \in Requests, PostJoined(r) \/ SendCreate(r) PROVE Typed'
  <2>1. RequestUsers'
    BY <1>0, <1>9 DEF RequestUsers, PostJoined, SendCreate, Store
  <2>2. req[r].user \in Users
    BY <1>0, <1>9 DEF RequestUsers, PostJoined, SendCreate
  <2>3. ASSUME NEW type \in {"system", "user"}, Store(r, type) PROVE messages' \in Seq(Message)
    <3> DEFINE m == [type |-> type, user |-> req[r].user]
    <3>1. m \in Message
      BY <2>2 DEF Message
    <3>2. messages' = Append(messages, m) /\ messages \in Seq(Message)
      BY <2>3 DEF Store, Typed
    <3> HIDE DEF m
    <3> QED BY <3>1, <3>2
  <2>4. messages' \in Seq(Message) /\ members' = members
    BY <1>9, <2>3 DEF PostJoined, SendCreate, Store, room
  <2> QED BY <2>1, <2>4 DEF Typed, RequestUsers
<1>10. ASSUME NEW t \in Tabs, Disconnect(t) \/ \E id \in 1 .. MaxMessages : Deliver(id, t) PROVE Typed'
  BY <1>10 DEF Typed, Disconnect, Deliver, room, chat
<1>11. CASE UNCHANGED vars
  BY <1>11 DEF Typed, vars, room, chat
<1> QED BY <1>1, <1>2, <1>3, <1>4, <1>5, <1>6, <1>7, <1>8, <1>9, <1>10, <1>11 DEF Next

LEMMA QuietKeepsInv ==
  ASSUME OnTheList, AnnouncedOnce, Quiet PROVE OnTheList' /\ AnnouncedOnce'
<1>1. \A u : Told(u)' <=> Told(u)
  BY DEF Quiet, Told
<1> QED BY <1>1 DEF OnTheList, AnnouncedOnce, Quiet

LEMMA AnnouncementsStay ==
  ASSUME Inv, [Next]_vars PROVE OnTheList' /\ AnnouncedOnce'
<1> USE DEF Inv
<1>1. ASSUME NEW r \in Requests, MarkAnnounced(r) PROVE OnTheList' /\ AnnouncedOnce'
  <2>1. messages' = messages /\ \A u : Told(u)' <=> Told(u)
    BY <1>1 DEF MarkAnnounced, chat, Told
  <2>2. \A q \in Requests \ {r} : req'[q] = req[q]
    BY <1>1 DEF MarkAnnounced, Typed
  <2>3. CASE req[r].user \notin announced
    <3>1. announced' = announced \cup {req[r].user} /\ req'[r] = [step |-> "post", user |-> req[r].user]
      BY <1>1, <2>3 DEF MarkAnnounced, FirstTime, Typed
    <3>2. req[r].user \in Users
      BY <1>1 DEF MarkAnnounced, Typed
    <3> QED BY <2>1, <2>2, <2>3, <3>1, <3>2 DEF OnTheList, AnnouncedOnce
  <2>4. CASE req[r].user \in announced
    <3>1. announced' = announced /\ req'[r] = Free
      BY <1>1, <2>4 DEF MarkAnnounced, FirstTime, Typed
    <3> QED BY <2>1, <2>2, <3>1 DEF OnTheList, AnnouncedOnce, Free
  <2> QED BY <2>3, <2>4
<1>2. ASSUME NEW r \in Requests, PostJoined(r) PROVE OnTheList' /\ AnnouncedOnce'
  <2> DEFINE m == [type |-> "system", user |-> req[r].user]
  <2>1. messages' = Append(messages, m) /\ announced' = announced /\ messages \in Seq(Message)
    BY <1>2 DEF PostJoined, Store, room, Typed
  <2>2. \A q \in Requests \ {r} : req'[q] = req[q]
    BY <1>2 DEF PostJoined, Store, Typed
  <2>3. req'[r].step = "tell" /\ req[r].step = "post"
    BY <1>2 DEF PostJoined, Store, Typed
  <2>4. m.type = "system" /\ m.user = req[r].user
    OBVIOUS
  <2> HIDE DEF m
  <2>5. /\ DOMAIN messages' = 1 .. Len(messages) + 1
        /\ DOMAIN messages = 1 .. Len(messages)
        /\ messages'[Len(messages) + 1] = m
        /\ \A i \in 1 .. Len(messages) : messages'[i] = messages[i]
    BY <2>1
  <2>6. \A u : Told(u)' => Told(u) \/ u = req[r].user
    BY <2>4, <2>5 DEF Told
  <2>7. ~Told(req[r].user) /\ req[r].user \in announced
    BY <2>3 DEF OnTheList
  <2>8. AnnouncedOnce'
    BY <2>4, <2>5, <2>7 DEF AnnouncedOnce, Told
  <2>9. OnTheList'
    BY <2>1, <2>2, <2>3, <2>6, <2>7 DEF OnTheList
  <2> QED BY <2>8, <2>9
<1>3. ASSUME NEW r \in Requests, SendCreate(r) PROVE OnTheList' /\ AnnouncedOnce'
  <2> DEFINE m == [type |-> "user", user |-> req[r].user]
  <2>1. messages' = Append(messages, m) /\ announced' = announced /\ messages \in Seq(Message)
    BY <1>3 DEF SendCreate, Store, room, Typed
  <2>2. \A q \in Requests : req'[q].step = "post" => req'[q] = req[q]
    BY <1>3 DEF SendCreate, Store, Typed
  <2>3. m.type # "system"
    OBVIOUS
  <2> HIDE DEF m
  <2>4. /\ DOMAIN messages' = 1 .. Len(messages) + 1
        /\ DOMAIN messages = 1 .. Len(messages)
        /\ messages'[Len(messages) + 1] = m
        /\ \A i \in 1 .. Len(messages) : messages'[i] = messages[i]
    BY <2>1
  <2>5. \A u : Told(u)' <=> Told(u)
    BY <2>3, <2>4 DEF Told
  <2>6. AnnouncedOnce'
    BY <2>3, <2>4 DEF AnnouncedOnce
  <2>7. OnTheList'
    BY <2>1, <2>2, <2>5 DEF OnTheList
  <2> QED BY <2>6, <2>7
<1>4. ASSUME NEW t \in Tabs, Disconnect(t) \/ \E id \in 1 .. MaxMessages : Deliver(id, t) PROVE Quiet
  BY <1>4 DEF Disconnect, Deliver, Quiet, room, chat
<1>5. CASE UNCHANGED vars
  BY <1>5, QuietKeepsInv DEF vars, Quiet, room, chat
<1> QED BY <1>1, <1>2, <1>3, <1>4, <1>5, QuietSteps, QuietKeepsInv DEF Next

\* A user is announced in a room at most once, however many tabs, reconnects and
\* handlers that outlive their socket there are (markAnnounced).
THEOREM AnnouncedOnceHolds == Spec => []AnnouncedOnce
<1>1. Inv /\ [Next]_vars => Inv'
  BY TypedStays, AnnouncementsStay DEF Inv
<1>2. Inv => AnnouncedOnce
  BY DEF Inv
<1> QED BY InitInv, <1>1, <1>2, PTL DEF Spec

\* Overlapping saves of the room never remove a participant (joinByCode pushes one).
THEOREM MembersStayHolds == Spec => MembersStay
<1>1. Typed /\ [Next]_vars => \A u \in Users : members'[u] >= members[u]
  <2> SUFFICES ASSUME Typed, [Next]_vars, NEW u \in Users PROVE members'[u] >= members[u]
    OBVIOUS
  <2>0. members[u] \in Nat
    BY DEF Typed
  <2>1. ASSUME NEW r \in Requests, EnterSave(r) PROVE members'[u] >= members[u]
    BY <2>0, <2>1 DEF Typed, EnterSave, Pushed
  <2>2. CASE UNCHANGED members
    BY <2>0, <2>2
  <2> QED BY <2>1, <2>2 DEF Next, EnterBegin, SendBegin, SetStateBegin, Connect, SetStateSave,
       JoinBegin, ReadHistory, EmitHistory, MarkAnnounced, PostJoined, SendCreate, Store, Broadcast,
       Disconnect, Deliver, room, vars
<1>2. Inv => Typed
  BY DEF Inv
<1>3. Inv /\ [Next]_vars => Inv'
  BY TypedStays, AnnouncementsStay DEF Inv
<1> QED BY InitInv, <1>1, <1>2, <1>3, PTL DEF Spec, MembersStay

-----------------------------------------------------------------------------
(* What the pages show *)

Joining(r) == req[r].step \in {"join", "history", "emit"}

\* The handlers of room:join are each of a socket of their own, and one that has joined
\* the channel is in it as long as its socket is there.
PagesTyped ==
    /\ view \in [Tabs -> Seq(Nat)] /\ missed \in [Tabs -> SUBSET Nat] /\ conn \in [Tabs -> Nat]
    /\ transit \subseteq Nat \X Tabs
    /\ ready \subseteq joined /\ joined \subseteq Tabs
    /\ \A r \in Requests : req[r].step = "tell" => req[r].id \in Nat
    /\ \A r \in Requests : req[r].step = "emit" => req[r].count \in 0 .. Len(messages)
OwnSocket ==
    /\ \A r \in Requests : Joining(r) => req[r].conn \in Nat /\ req[r].conn <= conn[req[r].tab]
    /\ \A r, q \in Requests :
          Joining(r) /\ Joining(q) /\ req[r].tab = req[q].tab /\ req[r].conn = req[q].conn => r = q
InChannel ==
    \A r \in Requests : req[r].step \in {"history", "emit"} /\ SameSocket(r) => req[r].tab \in joined

LinkInv == Typed /\ PagesTyped /\ OwnSocket /\ InChannel

Telling(id) == \E r \in Requests : req[r].step = "tell" /\ req[r].id = id

\* The tab shows the message, or will.
Cover(t, id) == id \in Range(view[t]) \/ <<id, t>> \in transit \/ Telling(id)

Distinct(list) == \A i, j \in DOMAIN list : list[i] = list[j] => i = j

\* While a history is on its way, what it misses is shown or will be; and so is, once
\* it is there, every one of the newest messages that it did not wipe.
Covered(t, after) == \A id \in DOMAIN messages : id > after => Cover(t, id)
Complete(t) ==
    \A id \in DOMAIN messages : id > Len(messages) - HistoryLimit => Cover(t, id) \/ id \in missed[t]

CoverInv ==
    /\ \A t \in Tabs : Distinct(view[t])
    /\ \A r \in Requests : req[r].step = "emit" /\ SameSocket(r) => Covered(req[r].tab, req[r].count)
    /\ \A t \in ready : Complete(t)

LEMMA NewestIs ==
  ASSUME NEW n \in Nat
  PROVE  /\ Newest(n) \in Seq(Nat) /\ Distinct(Newest(n))
         /\ \A id \in 1 .. n : id > n - HistoryLimit => id \in Range(Newest(n))
<1>1. Found(n) \in Nat /\ Found(n) <= n /\ Found(n) <= HistoryLimit
      /\ (Found(n) = n \/ Found(n) = HistoryLimit)
  BY HistoryAssumption DEF Found
<1>2. Newest(n) = [i \in 1 .. Found(n) |-> n - Found(n) + i]
  BY DEF Newest
<1>3. \A i \in 1 .. Found(n) : n - Found(n) + i \in Nat
  BY <1>1
<1>4. Newest(n) \in Seq(Nat)
  BY <1>1, <1>2, <1>3
<1>5. Distinct(Newest(n))
  BY <1>1, <1>2 DEF Distinct
<1>6. ASSUME NEW id \in 1 .. n, id > n - HistoryLimit PROVE id \in Range(Newest(n))
  <2> DEFINE i == id - (n - Found(n))
  <2>1. i \in 1 .. Found(n) /\ n - Found(n) + i = id
    BY <1>1, <1>6, HistoryAssumption
  <2>2. i \in DOMAIN Newest(n) /\ Newest(n)[i] = id
    BY <1>2, <2>1
  <2>3. QED BY <2>2 DEF Range
<1>7. QED BY <1>4, <1>5, <1>6

LEMMA ShownIs ==
  ASSUME NEW list \in Seq(Nat), NEW id \in Nat, Distinct(list)
  PROVE  /\ Shown(list, id) \in Seq(Nat) /\ Distinct(Shown(list, id))
         /\ Range(list) \subseteq Range(Shown(list, id)) /\ id \in Range(Shown(list, id))
<1>1. CASE id \in Range(list)
  BY <1>1 DEF Shown
<1>2. CASE id \notin Range(list)
  <2> DEFINE more == Append(list, id)
  <2>1. Shown(list, id) = more
    BY <1>2 DEF Shown
  <2>2. /\ more \in Seq(Nat) /\ Len(list) \in Nat /\ DOMAIN list = 1 .. Len(list)
        /\ DOMAIN more = 1 .. Len(list) + 1
        /\ more[Len(list) + 1] = id /\ \A i \in 1 .. Len(list) : more[i] = list[i]
    OBVIOUS
  <2> HIDE DEF more
  <2>3. \A i \in 1 .. Len(list) : list[i] # id
    BY <1>2, <2>2 DEF Range
  <2>4. Distinct(more)
    <3>1. ASSUME NEW i \in DOMAIN more, NEW j \in DOMAIN more, more[i] = more[j] PROVE i = j
      <4>1. \A k \in DOMAIN more : k \in 1 .. Len(list) \/ k = Len(list) + 1
        BY <2>2
      <4>2. CASE i \in 1 .. Len(list) /\ j \in 1 .. Len(list)
        BY <2>2, <3>1, <4>2 DEF Distinct
      <4>3. CASE i = Len(list) + 1 /\ j \in 1 .. Len(list)
        BY <2>2, <2>3, <3>1, <4>3
      <4>4. CASE j = Len(list) + 1 /\ i \in 1 .. Len(list)
        BY <2>2, <2>3, <3>1, <4>4
      <4>5. QED BY <4>1, <4>2, <4>3, <4>4
    <3>2. QED BY <3>1 DEF Distinct
  <2>5. Range(list) \subseteq Range(more) /\ id \in Range(more)
    <3>1. Len(list) + 1 \in DOMAIN more /\ \A i \in DOMAIN list : i \in DOMAIN more
      BY <2>2
    <3>2. \A i \in DOMAIN list : list[i] = more[i]
      BY <2>2
    <3>3. more[Len(list) + 1] \in Range(more)
      BY <3>1 DEF Range
    <3>4. \A i \in DOMAIN list : list[i] \in Range(more)
      BY <3>1, <3>2 DEF Range
    <3>5. QED BY <2>2, <3>3, <3>4 DEF Range
  <2>6. QED BY <2>1, <2>2, <2>4, <2>5
<1>3. QED BY <1>1, <1>2

\* A handler's step that changes neither sockets nor pages nor messages.
LEMMA StillStep ==
  ASSUME LinkInv, CoverInv, NEW r \in Requests, UNCHANGED <<sockets, pages, chat>>,
         \A q \in Requests \ {r} : req'[q] = req[q], req[r].step # "tell",
         \/ req'[r].step \notin {"join", "history", "emit", "tell"}
         \/ /\ req[r].step = "history" /\ req'[r].step = "emit"
            /\ req'[r].tab = req[r].tab /\ req'[r].conn = req[r].conn
            /\ req'[r].count = Len(messages)
  PROVE  PagesTyped' /\ OwnSocket' /\ InChannel' /\ CoverInv'
<1>1. UNCHANGED <<online, conn, joined, ready, view, missed, messages, transit>>
  BY DEF sockets, pages, chat
<1>2. ASSUME NEW q \in Requests, Joining(q)'
      PROVE  /\ Joining(q) /\ req'[q].tab = req[q].tab /\ req'[q].conn = req[q].conn
             /\ (SameSocket(q)' => SameSocket(q))
             /\ (req'[q].step \in {"history", "emit"} => req[q].step \in {"history", "emit"})
  BY <1>1, <1>2 DEF Joining, SameSocket
<1>3. \A id : Telling(id)' <=> Telling(id)
  BY DEF Telling
<1>4. \A t, id : Cover(t, id)' <=> Cover(t, id)
  BY <1>1, <1>3 DEF Cover
<1>5. ASSUME NEW q \in Requests, req'[q].step = "emit"
      PROVE  \/ req[q].step = "emit" /\ req'[q].count = req[q].count
             \/ req'[q].count = Len(messages)
  <2>1. CASE q = r
    BY <1>5, <2>1
  <2>2. CASE q # r
    BY <1>5, <2>2
  <2>3. QED BY <2>1, <2>2
<1>6. Len(messages) \in Nat /\ DOMAIN messages = 1 .. Len(messages)
  BY DEF LinkInv, Typed
<1>7. PagesTyped'
  <2>1. \A q \in Requests : req'[q].step = "tell" => req'[q].id \in Nat
    BY DEF LinkInv, PagesTyped
  <2>2. \A q \in Requests : req'[q].step = "emit" => req'[q].count \in 0 .. Len(messages)
    BY <1>5, <1>6 DEF LinkInv, PagesTyped
  <2>3. QED BY <1>1, <2>1, <2>2 DEF LinkInv, PagesTyped
<1>8. OwnSocket' /\ InChannel'
  BY <1>1, <1>2 DEF LinkInv, OwnSocket, InChannel, Joining
<1>9. CoverInv'
  <2>1. ASSUME NEW q \in Requests, req'[q].step = "emit", SameSocket(q)'
        PROVE  Covered(req[q].tab, req[q].count)'
    <3>1. req'[q].tab = req[q].tab /\ SameSocket(q)
      BY <1>2, <2>1 DEF Joining
    <3>2. CASE req[q].step = "emit" /\ req'[q].count = req[q].count
      BY <1>1, <1>4, <3>1, <3>2 DEF CoverInv, Covered
    <3>3. CASE req'[q].count = Len(messages)
      BY <1>1, <1>6, <3>3 DEF Covered
    <3>4. QED BY <1>5, <2>1, <3>2, <3>3
  <2>2. ASSUME NEW t \in ready' PROVE Complete(t)'
    BY <1>1, <1>4, <2>2 DEF CoverInv, Complete
  <2>3. QED BY <1>1, <2>1, <2>2 DEF CoverInv
<1>10. QED BY <1>7, <1>8, <1>9

LEMMA ConnectStep ==
  ASSUME LinkInv, CoverInv, NEW r \in Requests, NEW t \in Tabs, Connect(r, t)
  PROVE  PagesTyped' /\ OwnSocket' /\ InChannel' /\ CoverInv'
<1>1. /\ UNCHANGED <<joined, ready, view, missed, messages, transit>>
      /\ conn' = [conn EXCEPT ![t] = conn[t] + 1] /\ req[r] = Free /\ t \notin online
  BY DEF Connect, pages, chat
<1>2. /\ \A q \in Requests \ {r} : req'[q] = req[q]
      /\ req'[r] = [step |-> "join", tab |-> t, conn |-> conn[t] + 1]
  BY DEF Connect, LinkInv, Typed
<1>3. conn \in [Tabs -> Nat] /\ conn' \in [Tabs -> Nat] /\ conn'[t] = conn[t] + 1
      /\ \A o \in Tabs \ {t} : conn'[o] = conn[o]
  BY <1>1 DEF LinkInv, PagesTyped
<1>4. req[r].step = "free"
  BY <1>1 DEF Free
<1>5. ASSUME NEW q \in Requests \ {r}, Joining(q)
      PROVE  req[q].tab \in Tabs /\ req[q].conn \in Nat /\ req[q].conn <= conn[req[q].tab]
  BY <1>5 DEF LinkInv, OwnSocket, Typed, Joining
<1>6. ASSUME NEW q \in Requests \ {r}, Joining(q), SameSocket(q)' PROVE SameSocket(q)
  <2>1. req'[q] = req[q] /\ online' = online \cup {t}
    BY <1>2 DEF Connect
  <2>2. req[q].tab # t
    BY <1>2, <1>3, <1>5, <1>6, <2>1 DEF SameSocket
  <2>3. QED BY <1>3, <1>5, <1>6, <2>1, <2>2 DEF SameSocket
<1>7. \A id : Telling(id)' <=> Telling(id)
  BY <1>2, <1>4 DEF Telling
<1>8. \A o, id : Cover(o, id)' <=> Cover(o, id)
  BY <1>1, <1>7 DEF Cover
<1>9. PagesTyped'
  <2>1. \A q \in Requests : req'[q].step \in {"tell", "emit"} => req'[q] = req[q]
    BY <1>2
  <2>2. QED BY <1>1, <1>3, <2>1 DEF LinkInv, PagesTyped
<1>10. OwnSocket'
  <2>1. ASSUME NEW q \in Requests, Joining(q)'
        PROVE  req'[q].conn \in Nat /\ req'[q].conn <= conn'[req'[q].tab]
    <3>1. CASE q = r
      BY <1>2, <1>3, <3>1
    <3>2. CASE q # r
      BY <1>2, <1>3, <1>5, <2>1, <3>2 DEF Joining
    <3>3. QED BY <3>1, <3>2
  <2>2. ASSUME NEW q \in Requests \ {r}, Joining(q)', req'[q].tab = t
        PROVE  req'[q].conn # conn[t] + 1
    BY <1>2, <1>3, <1>5, <2>2 DEF Joining
  <2>3. \A q, o \in Requests \ {r} :
          Joining(q)' /\ Joining(o)' /\ req'[q].tab = req'[o].tab /\ req'[q].conn = req'[o].conn => q = o
    BY <1>2 DEF LinkInv, OwnSocket, Joining
  <2>4. QED BY <1>2, <2>1, <2>2, <2>3 DEF OwnSocket
<1>11. InChannel'
  BY <1>1, <1>2, <1>6 DEF LinkInv, InChannel, Joining
<1>12. CoverInv'
  <2>1. ASSUME NEW q \in Requests, req'[q].step = "emit", SameSocket(q)'
        PROVE  Covered(req[q].tab, req[q].count)'
    <3>1. q # r /\ req'[q] = req[q]
      BY <1>2, <2>1
    <3>2. SameSocket(q)
      BY <1>6, <2>1, <3>1 DEF Joining
    <3>3. QED BY <1>1, <1>8, <2>1, <3>1, <3>2 DEF CoverInv, Covered
  <2>2. ASSUME NEW o \in ready' PROVE Complete(o)'
    BY <1>1, <1>8, <2>2 DEF CoverInv, Complete
  <2>3. QED BY <1>1, <2>1, <2>2 DEF CoverInv
<1>13. QED BY <1>9, <1>10, <1>11, <1>12

LEMMA JoinStep ==
  ASSUME LinkInv, CoverInv, NEW r \in Requests, JoinBegin(r)
  PROVE  PagesTyped' /\ OwnSocket' /\ InChannel' /\ CoverInv'
<1>1. /\ UNCHANGED <<online, conn, ready, view, missed, messages, transit>>
      /\ req[r].step = "join" /\ req[r].tab \in Tabs
      /\ \A q \in Requests \ {r} : req'[q] = req[q]
  BY DEF JoinBegin, pages, chat, LinkInv, Typed
<1>2. CASE ~IsMember(UserOf[req[r].tab])
  <2>1. req'[r] = Free /\ joined' = joined
    BY <1>1, <1>2 DEF JoinBegin, LinkInv, Typed
  <2>2. req'[r].step = "free"
    BY <2>1 DEF Free
  <2>3. UNCHANGED <<sockets, pages, chat>>
    BY <1>1, <2>1 DEF sockets, pages, chat
  <2>4. QED BY <1>1, <2>2, <2>3, StillStep
<1>3. CASE IsMember(UserOf[req[r].tab])
  <2>1. /\ joined' = IF SameSocket(r) THEN joined \cup {req[r].tab} ELSE joined
        /\ req'[r].step = "history" /\ req'[r].tab = req[r].tab /\ req'[r].conn = req[r].conn
    BY <1>1, <1>3 DEF JoinBegin, LinkInv, Typed
  <2>2. ASSUME NEW q \in Requests, Joining(q)'
        PROVE  /\ Joining(q) /\ req'[q].tab = req[q].tab /\ req'[q].conn = req[q].conn
               /\ (SameSocket(q)' <=> SameSocket(q))
    BY <1>1, <2>1, <2>2 DEF Joining, SameSocket
  <2>3. \A id : Telling(id)' <=> Telling(id)
    BY <1>1, <2>1 DEF Telling
  <2>4. \A o, id : Cover(o, id)' <=> Cover(o, id)
    BY <1>1, <2>3 DEF Cover
  <2>5. PagesTyped'
    BY <1>1, <2>1 DEF LinkInv, PagesTyped
  <2>6. OwnSocket' /\ InChannel'
    BY <1>1, <2>1, <2>2 DEF LinkInv, OwnSocket, InChannel, Joining
  <2>7. CoverInv'
    <3>1. ASSUME NEW q \in Requests, req'[q].step = "emit", SameSocket(q)'
          PROVE  Covered(req[q].tab, req[q].count)'
      <4>1. q # r /\ req'[q] = req[q] /\ SameSocket(q)
        BY <1>1, <2>1, <2>2, <3>1 DEF Joining
      <4>2. QED BY <1>1, <2>4, <3>1, <4>1 DEF CoverInv, Covered
    <3>2. ASSUME NEW o \in ready' PROVE Complete(o)'
      BY <1>1, <2>4, <3>2 DEF CoverInv, Complete
    <3>3. QED BY <1>1, <3>1, <3>2 DEF CoverInv
  <2>8. QED BY <2>5, <2>6, <2>7
<1>4. QED BY <1>2, <1>3

\* The history takes the place of the list: what it has not, it wipes, or it is to come.
LEMMA EmitStep ==
  ASSUME LinkInv, CoverInv, NEW r \in Requests, EmitHistory(r)
  PROVE  PagesTyped' /\ OwnSocket' /\ InChannel' /\ CoverInv'
<1>0. PICK t \in Tabs, n \in Nat :
         t = req[r].tab /\ n = req[r].count /\ n \in 0 .. Len(messages)
  <2>1. req[r].step = "emit" /\ req[r].tab \in Tabs /\ req[r].count \in 0 .. Len(messages)
    BY DEF EmitHistory, LinkInv, Typed, PagesTyped
  <2>2. QED BY <2>1
<1>1. /\ UNCHANGED <<online, conn, joined, messages, transit>>
      /\ req[r].step = "emit"
      /\ \A q \in Requests \ {r} : req'[q] = req[q]
  BY DEF EmitHistory, sockets, chat, LinkInv, Typed, PagesTyped
<1>2. req'[r].step \notin {"join", "history", "emit", "tell"}
  BY DEF EmitHistory, Free, LinkInv, Typed
<1>3. CASE ~SameSocket(r)
  <2>1. UNCHANGED <<sockets, pages, chat>>
    BY <1>3 DEF EmitHistory
  <2>2. QED BY <1>1, <1>2, <2>1, StillStep
<1>4. CASE SameSocket(r)
  <2>1. /\ view' = [view EXCEPT ![t] = Newest(n)]
        /\ missed' = [missed EXCEPT ![t] = {id \in Range(view[t]) : id > n}]
        /\ ready' = ready \cup {t}
    BY <1>0, <1>4 DEF EmitHistory
  <2>2. Len(messages) \in Nat /\ DOMAIN messages = 1 .. Len(messages)
    BY DEF LinkInv, Typed
  <2>3. /\ Newest(n) \in Seq(Nat) /\ Distinct(Newest(n))
        /\ \A id \in 1 .. n : id > n - HistoryLimit => id \in Range(Newest(n))
    BY <2>2, NewestIs
  <2>4. {id \in Range(view[t]) : id > n} \subseteq Nat
    <3>1. view[t] \in Seq(Nat)
      BY DEF LinkInv, PagesTyped
    <3>2. Range(view[t]) \subseteq Nat
      BY <3>1 DEF Range
    <3>3. QED BY <3>2
  <2>5. /\ view' \in [Tabs -> Seq(Nat)] /\ view'[t] = Newest(n)
        /\ missed' \in [Tabs -> SUBSET Nat] /\ missed'[t] = {id \in Range(view[t]) : id > n}
        /\ \A o \in Tabs \ {t} : view'[o] = view[o] /\ missed'[o] = missed[o]
    BY <1>1, <2>1, <2>3, <2>4 DEF LinkInv, PagesTyped
  <2>6. t \in joined
    BY <1>0, <1>1, <1>4 DEF LinkInv, InChannel
  <2>7. ASSUME NEW q \in Requests, Joining(q)'
        PROVE  q # r /\ req'[q] = req[q] /\ Joining(q) /\ (SameSocket(q)' <=> SameSocket(q))
    BY <1>1, <1>2, <2>7 DEF Joining, SameSocket
  <2>8. \A id : Telling(id)' <=> Telling(id)
    BY <1>1, <1>2 DEF Telling
  <2>9. \A o \in Tabs \ {t}, id \in Nat : Cover(o, id)' <=> Cover(o, id)
    BY <1>1, <2>5, <2>8 DEF Cover
  <2>10. PagesTyped'
    <3>1. \A q \in Requests : req'[q].step = "tell" => req'[q] = req[q]
      BY <1>1, <1>2
    <3>2. \A q \in Requests : req'[q].step = "emit" => req'[q] = req[q]
      BY <1>1, <1>2
    <3>3. QED BY <1>1, <2>1, <2>5, <2>6, <3>1, <3>2 DEF LinkInv, PagesTyped
  <2>11. OwnSocket' /\ InChannel'
    BY <1>1, <2>7 DEF LinkInv, OwnSocket, InChannel, Joining
  <2>12. CoverInv'
    <3>1. ASSUME NEW q \in Requests, req'[q].step = "emit", SameSocket(q)'
          PROVE  Covered(req[q].tab, req[q].count)'
      <4>1. q # r /\ req'[q] = req[q] /\ SameSocket(q) /\ Joining(q) /\ Joining(r)
        BY <1>1, <2>7, <3>1 DEF Joining
      <4>2. req[q].tab # t
        BY <1>0, <1>1, <1>4, <4>1 DEF LinkInv, OwnSocket, SameSocket
      <4>3. req[q].tab \in Tabs
        BY <3>1, <4>1 DEF LinkInv, Typed
      <4>4. QED BY <1>1, <2>2, <2>9, <3>1, <4>1, <4>2, <4>3 DEF CoverInv, Covered
    <3>2. Complete(t)'
      <4> SUFFICES ASSUME NEW id \in 1 .. Len(messages), id > Len(messages) - HistoryLimit
                   PROVE  Cover(t, id)' \/ id \in missed'[t]
        BY <1>1, <2>2 DEF Complete
      <4>1. CASE id <= n
        <5>1. id \in 1 .. n /\ id > n - HistoryLimit
          BY <1>0, <2>2, <4>1, HistoryAssumption
        <5>2. QED BY <2>3, <2>5, <5>1 DEF Cover
      <4>2. CASE id > n
        <5>1. Cover(t, id)
          BY <1>0, <1>1, <1>4, <2>2, <4>2 DEF CoverInv, Covered
        <5>2. id \in Range(view[t]) => id \in missed'[t]
          BY <2>5, <4>2
        <5>3. QED BY <1>1, <2>8, <5>1, <5>2 DEF Cover
      <4>3. QED BY <4>1, <4>2
    <3>3. ASSUME NEW o \in ready, o # t PROVE Complete(o)'
      <4>1. o \in Tabs /\ \A id \in 1 .. Len(messages) : id \in Nat
        BY <2>2 DEF LinkInv, PagesTyped
      <4>2. QED BY <1>1, <2>2, <2>5, <2>9, <3>3, <4>1 DEF CoverInv, Complete
    <3>4. \A o \in Tabs : Distinct(view'[o])
      BY <2>3, <2>5 DEF CoverInv
    <3>5. QED BY <2>1, <3>1, <3>2, <3>3, <3>4 DEF CoverInv
  <2>13. QED BY <2>10, <2>11, <2>12
<1>5. QED BY <1>3, <1>4

LEMMA StoreStep ==
  ASSUME LinkInv, CoverInv, NEW r \in Requests, NEW type, Store(r, type),
         req[r].step \in {"post", "send"}
  PROVE  PagesTyped' /\ OwnSocket' /\ InChannel' /\ CoverInv'
<1>0. PICK n \in Nat : n = Len(messages)
  BY DEF LinkInv, Typed
<1> DEFINE m == [type |-> type, user |-> req[r].user]
<1>1. /\ UNCHANGED <<online, conn, joined, ready, view, missed, transit>>
      /\ messages' = Append(messages, m)
      /\ \A q \in Requests \ {r} : req'[q] = req[q]
      /\ req'[r].step = "tell" /\ req'[r].id = n + 1
  BY <1>0 DEF Store, sockets, pages, LinkInv, Typed
<1> HIDE DEF m
<1>2. /\ Len(messages) = n /\ DOMAIN messages = 1 .. n
      /\ Len(messages') = n + 1 /\ DOMAIN messages' = 1 .. n + 1
  <2>1. messages \in Seq(Message)
    BY DEF LinkInv, Typed
  <2>2. QED BY <1>0, <1>1, <2>1
<1>3. ASSUME NEW q \in Requests, Joining(q)'
      PROVE  q # r /\ req'[q] = req[q] /\ Joining(q) /\ (SameSocket(q)' <=> SameSocket(q))
  BY <1>1, <1>3 DEF Joining, SameSocket
<1>4. \A id : Telling(id) => Telling(id)'
  BY <1>1 DEF Telling
<1>5. \A o, id : Cover(o, id) => Cover(o, id)'
  BY <1>1, <1>4 DEF Cover
<1>6. \A o : Cover(o, n + 1)'
  BY <1>1 DEF Cover, Telling
<1>7. PagesTyped'
  <2>1. \A q \in Requests : req'[q].step = "tell" => req'[q].id \in Nat
    <3>1. n + 1 \in Nat
      BY <1>0
    <3>2. QED BY <1>1, <3>1 DEF LinkInv, PagesTyped
  <2>2. ASSUME NEW q \in Requests, req'[q].step = "emit"
        PROVE  req'[q].count \in 0 .. Len(messages')
    <3>1. req'[q] = req[q]
      BY <1>1, <2>2
    <3>2. req[q].count \in 0 .. Len(messages)
      BY <2>2, <3>1 DEF LinkInv, PagesTyped
    <3>3. QED BY <1>2, <3>1, <3>2
  <2>3. QED BY <1>1, <2>1, <2>2 DEF LinkInv, PagesTyped
<1>8. OwnSocket' /\ InChannel'
  BY <1>1, <1>3 DEF LinkInv, OwnSocket, InChannel, Joining
<1>9. CoverInv'
  <2>1. ASSUME NEW q \in Requests, req'[q].step = "emit", SameSocket(q)'
        PROVE  Covered(req[q].tab, req[q].count)'
    <3>1. req'[q] = req[q] /\ SameSocket(q)
      BY <1>3, <2>1 DEF Joining
    <3>2. Covered(req[q].tab, req[q].count)
      BY <2>1, <3>1 DEF CoverInv
    <3>3. ASSUME NEW id \in 1 .. n + 1, id > req[q].count
          PROVE  Cover(req[q].tab, id)'
      <4>1. CASE id = n + 1
        BY <1>6, <4>1
      <4>2. CASE id # n + 1
        <5>1. id \in 1 .. n
          BY <1>2, <4>2
        <5>2. Cover(req[q].tab, id)
          BY <1>2, <3>2, <3>3, <5>1 DEF Covered
        <5>3. QED BY <1>5, <3>1, <5>2
      <4>3. QED BY <4>1, <4>2
    <3>4. QED BY <1>2, <3>1, <3>3 DEF Covered
  <2>2. ASSUME NEW o \in ready PROVE Complete(o)'
    <3>1. ASSUME NEW id \in 1 .. n + 1, id > n + 1 - HistoryLimit
          PROVE  Cover(o, id)' \/ id \in missed[o]
      <4>1. CASE id = n + 1
        BY <1>6, <4>1
      <4>2. CASE id # n + 1
        <5>1. id \in 1 .. n /\ id > n - HistoryLimit
          BY <1>2, <3>1, <4>2, HistoryAssumption
        <5>2. Cover(o, id) \/ id \in missed[o]
          BY <1>2, <5>1 DEF CoverInv, Complete
        <5>3. QED BY <1>5, <5>2
      <4>3. QED BY <4>1, <4>2
    <3>2. ASSUME NEW id \in DOMAIN messages', id > Len(messages') - HistoryLimit
          PROVE  Cover(o, id)' \/ id \in missed'[o]
      <4>1. id \in 1 .. n + 1 /\ id > n + 1 - HistoryLimit
        BY <1>2, <3>2, HistoryAssumption
      <4>2. QED BY <1>1, <3>1, <4>1
    <3>3. QED BY <3>2 DEF Complete
  <2>3. QED BY <1>1, <2>1, <2>2 DEF CoverInv
<1>10. QED BY <1>7, <1>8, <1>9

\* A broadcast, its arrival and the end of a connection: whatever the step does to the
\* way of a message, a tab in the channel is covered as before.
LEMMA WayStep ==
  ASSUME LinkInv, CoverInv, PagesTyped', UNCHANGED <<conn, messages>>,
         joined' \subseteq joined, ready' \subseteq ready,
         \A q \in Requests : Joining(q)' =>
            /\ req'[q] = req[q]
            /\ SameSocket(q)' => SameSocket(q) /\ (req[q].tab \in joined => req[q].tab \in joined'),
         \A t \in joined', id \in Nat : Cover(t, id) => Cover(t, id)',
         \A t \in ready' : missed'[t] = missed[t],
         \A t \in Tabs : Distinct(view'[t])
  PROVE  PagesTyped' /\ OwnSocket' /\ InChannel' /\ CoverInv'
<1>1. DOMAIN messages' = 1 .. Len(messages) /\ Len(messages) \in Nat /\ messages' = messages
      /\ DOMAIN messages = 1 .. Len(messages)
  BY DEF LinkInv, Typed
<1>2. \A q \in Requests : Joining(q)' => Joining(q)
  BY DEF Joining
<1>3. OwnSocket' /\ InChannel'
  BY <1>2 DEF LinkInv, OwnSocket, InChannel, Joining
<1>4. ASSUME NEW q \in Requests, req'[q].step = "emit", SameSocket(q)'
      PROVE  Covered(req[q].tab, req[q].count)'
  <2>1. req'[q] = req[q] /\ SameSocket(q)
    BY <1>4 DEF Joining
  <2>2. req[q].tab \in joined'
    BY <1>3, <1>4, <2>1 DEF InChannel
  <2>3. Covered(req[q].tab, req[q].count)
    BY <1>4, <2>1 DEF CoverInv
  <2>4. QED BY <1>1, <2>1, <2>2, <2>3 DEF Covered
<1>5. ASSUME NEW o \in ready' PROVE Complete(o)'
  <2>1. o \in joined' /\ Complete(o)
    BY DEF PagesTyped, CoverInv
  <2>2. QED BY <1>1, <2>1 DEF Complete
<1>6. QED BY <1>3, <1>4, <1>5 DEF CoverInv

LEMMA BroadcastStep ==
  ASSUME LinkInv, CoverInv, NEW r \in Requests, Broadcast(r)
  PROVE  PagesTyped' /\ OwnSocket' /\ InChannel' /\ CoverInv'
<1>1. /\ UNCHANGED <<online, conn, joined, ready, view, missed, messages>>
      /\ transit' = transit \cup ({req[r].id} \X Tabs)
      /\ \A q \in Requests \ {r} : req'[q] = req[q]
      /\ req'[r].step = "free" /\ req[r].step = "tell" /\ req[r].id \in Nat
  BY DEF Broadcast, sockets, pages, LinkInv, Typed, PagesTyped, Free
<1>2. PagesTyped'
  <2>1. transit' \subseteq Nat \X Tabs
    BY <1>1 DEF LinkInv, PagesTyped
  <2>2. QED BY <1>1, <2>1 DEF LinkInv, PagesTyped
<1>3. \A id : Telling(id) => Telling(id)' \/ id = req[r].id
  BY <1>1 DEF Telling
<1>4. \A t \in Tabs, id \in Nat : Cover(t, id) => Cover(t, id)'
  BY <1>1, <1>3 DEF Cover
<1>5. \A q \in Requests : Joining(q)' => req'[q] = req[q] /\ (SameSocket(q)' => SameSocket(q))
  BY <1>1 DEF Joining, SameSocket
<1>6. \A t \in Tabs : Distinct(view'[t])
  BY <1>1 DEF CoverInv
<1>7. joined' \subseteq Tabs
  BY <1>2 DEF PagesTyped
<1>8. QED BY <1>1, <1>2, <1>4, <1>5, <1>6, <1>7, WayStep

LEMMA DeliverStep ==
  ASSUME LinkInv, CoverInv, NEW t \in Tabs, NEW n, Deliver(n, t)
  PROVE  PagesTyped' /\ OwnSocket' /\ InChannel' /\ CoverInv'
<1>1. /\ UNCHANGED <<online, conn, joined, ready, missed, messages, req>>
      /\ transit' = transit \ {<<n, t>>} /\ n \in Nat
      /\ view' = IF t \in joined THEN [view EXCEPT ![t] = Shown(view[t], n)] ELSE view
  BY DEF Deliver, sockets, LinkInv, PagesTyped
<1>2. view[t] \in Seq(Nat) /\ Distinct(view[t]) /\ view \in [Tabs -> Seq(Nat)]
  BY DEF LinkInv, PagesTyped, CoverInv
<1>3. /\ Shown(view[t], n) \in Seq(Nat) /\ Distinct(Shown(view[t], n))
      /\ Range(view[t]) \subseteq Range(Shown(view[t], n)) /\ n \in Range(Shown(view[t], n))
  BY <1>1, <1>2, ShownIs
<1>4. /\ view' \in [Tabs -> Seq(Nat)] /\ \A o \in Tabs \ {t} : view'[o] = view[o]
      /\ view'[t] \in {view[t], Shown(view[t], n)}
      /\ (t \in joined => view'[t] = Shown(view[t], n))
  BY <1>1, <1>2, <1>3
<1>5. PagesTyped'
  BY <1>1, <1>4 DEF LinkInv, PagesTyped
<1>6. \A id : Telling(id)' <=> Telling(id)
  BY <1>1 DEF Telling
<1>7. \A o \in joined, id \in Nat : Cover(o, id) => Cover(o, id)'
  <2> SUFFICES ASSUME NEW o \in joined, NEW id \in Nat, Cover(o, id) PROVE Cover(o, id)'
    OBVIOUS
  <2>1. o \in Tabs
    BY DEF LinkInv, PagesTyped
  <2>2. Range(view[o]) \subseteq Range(view'[o])
    BY <1>3, <1>4, <2>1
  <2>3. <<id, o>> \in transit => <<id, o>> \in transit' \/ id \in Range(view'[o])
    BY <1>1, <1>3, <1>4
  <2>4. QED BY <1>6, <2>2, <2>3 DEF Cover
<1>8. \A q \in Requests : SameSocket(q)' <=> SameSocket(q)
  BY <1>1 DEF SameSocket
<1>9. \A o \in Tabs : Distinct(view'[o])
  BY <1>2, <1>3, <1>4 DEF CoverInv
<1>10. QED BY <1>1, <1>5, <1>7, <1>8, <1>9, WayStep

LEMMA DisconnectStep ==
  ASSUME LinkInv, CoverInv, NEW t \in Tabs, Disconnect(t)
  PROVE  PagesTyped' /\ OwnSocket' /\ InChannel' /\ CoverInv'
<1>1. /\ UNCHANGED <<conn, view, messages, transit, req>>
      /\ online' = online \ {t} /\ joined' = joined \ {t} /\ ready' = ready \ {t}
      /\ missed' = [missed EXCEPT ![t] = {}]
  BY DEF Disconnect, chat
<1>2. missed' \in [Tabs -> SUBSET Nat] /\ \A o \in Tabs \ {t} : missed'[o] = missed[o]
  BY <1>1 DEF LinkInv, PagesTyped
<1>3. PagesTyped'
  BY <1>1, <1>2 DEF LinkInv, PagesTyped
<1>4. \A o, id : Cover(o, id)' <=> Cover(o, id)
  BY <1>1 DEF Cover, Telling
<1>5. \A q \in Requests : SameSocket(q)' => SameSocket(q) /\ req[q].tab # t
  BY <1>1 DEF SameSocket
<1>6. \A o \in Tabs : Distinct(view'[o])
  BY <1>1 DEF CoverInv
<1>7. \A o \in ready' : missed'[o] = missed[o]
  BY <1>1, <1>2 DEF LinkInv, PagesTyped
<1>8. QED BY <1>1, <1>3, <1>4, <1>5, <1>6, <1>7, WayStep

LEMMA InitLink == Init => LinkInv /\ CoverInv
<1> SUFFICES ASSUME Init PROVE LinkInv /\ CoverInv
  OBVIOUS
<1>1. Typed
  BY InitInv DEF Inv
<1>2. \A r \in Requests : req[r].step = "free"
  BY DEF Init, Free
<1>3. /\ view \in [Tabs -> Seq(Nat)] /\ missed \in [Tabs -> SUBSET Nat] /\ conn \in [Tabs -> Nat]
      /\ \A t \in Tabs : view[t] = <<>>
  BY DEF Init
<1>4. Distinct(<<>>)
  BY DEF Distinct
<1>5. PagesTyped /\ OwnSocket /\ InChannel /\ CoverInv
  BY <1>2, <1>3, <1>4 DEF Init, PagesTyped, OwnSocket, InChannel, CoverInv, Joining
<1>6. QED BY <1>1, <1>5 DEF LinkInv

LEMMA NextLink == LinkInv /\ CoverInv /\ [Next]_vars => LinkInv' /\ CoverInv'
<1> SUFFICES ASSUME LinkInv, CoverInv, [Next]_vars
             PROVE  PagesTyped' /\ OwnSocket' /\ InChannel' /\ CoverInv'
  BY TypedStays DEF LinkInv
<1>1. ASSUME NEW r \in Requests,
             \/ \E u \in Users : EnterBegin(r, u) \/ SendBegin(r, u)
             \/ \E to \in {"active", "ended"} : SetStateBegin(r, to)
             \/ EnterSave(r) \/ SetStateSave(r) \/ MarkAnnounced(r) \/ ReadHistory(r)
      PROVE  PagesTyped' /\ OwnSocket' /\ InChannel' /\ CoverInv'
  <2>1. UNCHANGED <<sockets, pages, chat>>
    BY <1>1 DEF EnterBegin, SendBegin, SetStateBegin, EnterSave, SetStateSave, MarkAnnounced, ReadHistory
  <2>2. \A q \in Requests \ {r} : req'[q] = req[q]
    BY <1>1 DEF EnterBegin, SendBegin, SetStateBegin, EnterSave, SetStateSave, MarkAnnounced,
                ReadHistory, LinkInv, Typed
  <2>3. req[r].step # "tell"
    BY <1>1 DEF EnterBegin, SendBegin, SetStateBegin, EnterSave, SetStateSave, MarkAnnounced,
                ReadHistory, Free
  <2>4. CASE ReadHistory(r)
    <3>1. /\ req[r].step = "history" /\ req'[r].step = "emit" /\ req'[r].tab = req[r].tab
          /\ req'[r].conn = req[r].conn /\ req'[r].count = Len(messages)
      BY <2>4 DEF ReadHistory, LinkInv, Typed
    <3>2. QED BY <2>1, <2>2, <2>3, <3>1, StillStep
  <2>5. CASE ~ReadHistory(r)
    <3>1. req'[r].step \notin {"join", "history", "emit", "tell"}
      BY <1>1, <2>5 DEF EnterBegin, SendBegin, SetStateBegin, EnterSave, SetStateSave, MarkAnnounced,
                        Free, LinkInv, Typed
    <3>2. QED BY <2>1, <2>2, <2>3, <3>1, StillStep
  <2>6. QED BY <2>4, <2>5
<1>2. ASSUME NEW r \in Requests, PostJoined(r) \/ SendCreate(r)
      PROVE  PagesTyped' /\ OwnSocket' /\ InChannel' /\ CoverInv'
  BY <1>2, StoreStep DEF PostJoined, SendCreate
<1>3. CASE UNCHANGED vars
  <2>1. UNCHANGED <<online, conn, joined, ready, view, missed, messages, transit, req>>
    BY <1>3 DEF vars, sockets, pages, chat
  <2>2. PagesTyped'
    BY <2>1 DEF LinkInv, PagesTyped
  <2>3. \A o, id : Cover(o, id)' <=> Cover(o, id)
    BY <2>1 DEF Cover, Telling
  <2>4. \A q \in Requests : SameSocket(q)' <=> SameSocket(q)
    BY <2>1 DEF SameSocket
  <2>5. \A o \in Tabs : Distinct(view'[o])
    BY <2>1 DEF CoverInv
  <2>6. QED BY <2>1, <2>2, <2>3, <2>4, <2>5, WayStep
<1>4. QED
  BY <1>1, <1>2, <1>3, ConnectStep, JoinStep, EmitStep, BroadcastStep, DeliverStep, DisconnectStep
     DEF Next

\* However joins, histories, broadcasts and reconnects interleave, a page shows no message
\* twice, and one that got the history has every one of the newest messages, or it is on
\* its way, or the history wiped it: the channel is joined before the history is read,
\* and a list takes in no id it has (onJoin of chat.gateway, onMessage of useChatSocket).
THEOREM EachShownOnceHolds == Spec => []EachShownOnce
<1>1. LinkInv /\ CoverInv => EachShownOnce
  <2> SUFFICES ASSUME LinkInv, CoverInv PROVE EachShownOnce
    OBVIOUS
  <2>1. ASSUME NEW t \in ready, NEW id \in DOMAIN messages, id > Len(messages) - HistoryLimit
        PROVE  \/ id \in Range(view[t]) \cup missed[t]
               \/ <<id, t>> \in transit
               \/ \E r \in Requests : req[r].step = "tell" /\ req[r].id = id
    BY <2>1 DEF CoverInv, Complete, Cover, Telling
  <2>2. QED BY <2>1 DEF EachShownOnce, CoverInv, Distinct
<1>2. QED BY <1>1, InitLink, NextLink, PTL DEF Spec

-----------------------------------------------------------------------------
(* The pinned question *)

Pins == Asked \cup {NoPin}

PinTyped ==
    /\ pinned \in Pins /\ pinWay \subseteq Pins /\ outdated \in BOOLEAN
    /\ pinning = [p \in Pinners |-> pinning[p]]
    /\ \A p \in Pinners : pinning[p] = Resting
                          \/ pinning[p] \in [step : {"save", "tell"}, pin : Pins, seen : Pins]
    /\ visit \in [open : BOOLEAN, seeded : BOOLEAN, shows : Pins]
    /\ link \in [step : {"off", "asked", "read", "joined", "ready"}, ack : Pins]
    /\ query \in [step : {"idle", "sent", "read"}, got : Pins, known : BOOLEAN, cached : Pins]

\* Nothing older than the pin is on its way to the page, which shows it or will.
NothingOlder ==
    /\ pinWay \subseteq {pinned}
    /\ \A p \in Pinners : pinning[p].step = "tell" => pinning[p].pin = pinned
    /\ link.step \in {"read", "joined"} => link.ack = pinned
    /\ query.step = "read" => query.got = pinned
    /\ link.step = "ready" => \/ visit.shows = pinned \/ pinned \in pinWay
                              \/ \E p \in Pinners : pinning[p].step = "tell"

PinInv == PinTyped /\ (link.step # "off" => visit.open) /\ (~outdated => NothingOlder)

LEMMA PinInitHolds == PinInit => PinInv
<1> SUFFICES ASSUME PinInit PROVE PinInv
  OBVIOUS
<1>1. PinTyped
  BY DEF PinInit, PinTyped, Pins, Closed, NoLink
<1>2. \A p \in Pinners : pinning[p].step = "free"
  BY DEF PinInit, Resting
<1>3. NothingOlder /\ link.step = "off"
  BY <1>2 DEF PinInit, NothingOlder, NoLink
<1>4. QED BY <1>1, <1>3 DEF PinInv

LEMMA PinTypedStays == ASSUME PinTyped, [PinNext]_pinVars PROVE PinTyped'
<1> USE DEF PinTyped
<1>1. ASSUME NEW p \in Pinners, NEW pin \in Pins, PinBegin(p, pin) PROVE PinTyped'
  BY <1>1 DEF PinBegin, Resting
<1>2. ASSUME NEW p \in Pinners, PinSave(p) PROVE PinTyped'
  <2>1. pinning[p] \in [step : {"save", "tell"}, pin : Pins, seen : Pins]
    BY <1>2 DEF PinSave, Resting
  <2>2. outdated' \in BOOLEAN
    BY <1>2 DEF PinSave
  <2>3. pinned' \in Pins
    BY <1>2, <2>1 DEF PinSave
  <2>4. [pinning[p] EXCEPT !.step = "tell"] \in [step : {"save", "tell"}, pin : Pins, seen : Pins]
    BY <2>1
  <2>5. pinning' = [pinning EXCEPT ![p] = [pinning[p] EXCEPT !.step = "tell"]]
    BY <1>2 DEF PinSave
  <2>6. QED BY <1>2, <2>2, <2>3, <2>4, <2>5 DEF PinSave
<1>3. ASSUME NEW p \in Pinners, PinTell(p) \/ PinDies(p) PROVE PinTyped'
  <2>1. pinning[p] \in [step : {"save", "tell"}, pin : Pins, seen : Pins]
    BY <1>3 DEF PinTell, PinDies, Resting
  <2>2. QED BY <1>3, <2>1 DEF PinTell, PinDies, Resting
<1>4. ASSUME NEW pin \in Pins, PinArrives(pin) PROVE PinTyped'
  BY <1>4 DEF PinArrives
<1>5. CASE Connects \/ JoinEnters \/ JoinAcks \/ Disconnects
  BY <1>5 DEF Connects, JoinEnters, JoinAcks, Disconnects, NoLink, Pins
<1>6. CASE JoinReads
  BY <1>6 DEF JoinReads
<1>7. ASSUME NEW stale \in BOOLEAN, OpenRoom(stale) PROVE PinTyped'
  <2>1. visit' = [open |-> TRUE, seeded |-> query.known,
                  shows |-> IF query.known THEN query.cached ELSE NoPin]
    BY <1>7 DEF OpenRoom
  <2>2. visit' \in [open : BOOLEAN, seeded : BOOLEAN, shows : Pins]
    BY <2>1 DEF Pins
  <2>3. [query EXCEPT !.step = "sent"]
          \in [step : {"idle", "sent", "read"}, got : Pins, known : BOOLEAN, cached : Pins]
    OBVIOUS
  <2>4. query' \in [step : {"idle", "sent", "read"}, got : Pins, known : BOOLEAN, cached : Pins]
    BY <1>7, <2>3 DEF OpenRoom
  <2>5. QED BY <1>7, <2>2, <2>4 DEF OpenRoom
<1>8. CASE CloseRoom
  BY <1>8 DEF CloseRoom, Closed, NoLink, Pins
<1>9. CASE RoomRead
  <2>1. [query EXCEPT !.step = "read", !.got = pinned]
          \in [step : {"idle", "sent", "read"}, got : Pins, known : BOOLEAN, cached : Pins]
    OBVIOUS
  <2>2. QED BY <1>9, <2>1 DEF RoomRead
<1>10. CASE RoomArrives
  <2>1. [visit EXCEPT !.seeded = TRUE, !.shows = query.got]
          \in [open : BOOLEAN, seeded : BOOLEAN, shows : Pins]
    OBVIOUS
  <2>2. visit' \in [open : BOOLEAN, seeded : BOOLEAN, shows : Pins]
    BY <1>10, <2>1 DEF RoomArrives
  <2>3. query' \in [step : {"idle", "sent", "read"}, got : Pins, known : BOOLEAN, cached : Pins]
    BY <1>10 DEF RoomArrives, Pins
  <2>4. QED BY <1>10, <2>2, <2>3 DEF RoomArrives
<1>11. CASE UNCHANGED pinVars
  BY <1>11 DEF pinVars
<1>12. QED
  BY <1>1, <1>2, <1>3, <1>4, <1>5, <1>6, <1>7, <1>8, <1>9, <1>10, <1>11 DEF PinNext, Pins

LEMMA PinNextHolds == PinInv /\ [PinNext]_pinVars => PinInv'
<1> SUFFICES ASSUME PinInv, [PinNext]_pinVars
             PROVE  (link'.step # "off" => visit'.open) /\ (~outdated' => NothingOlder')
  BY PinTypedStays DEF PinInv
<1> USE DEF PinInv, PinTyped
<1>1. ASSUME NEW p \in Pinners, NEW pin \in Pins, PinBegin(p, pin)
      PROVE  UNCHANGED <<link, visit, outdated>> /\ (NothingOlder => NothingOlder')
  BY <1>1 DEF PinBegin, NothingOlder, Resting
<1>2. ASSUME NEW p \in Pinners, PinSave(p)
      PROVE  UNCHANGED <<link, visit>> /\ (~outdated' => NothingOlder')
  <2>1. pinning[p] \in [step : {"save", "tell"}, pin : Pins, seen : Pins]
    BY <1>2 DEF PinSave, Resting
  <2>2. pinning'[p].step = "tell" /\ pinning'[p].pin = pinning[p].pin
        /\ \A o \in Pinners \ {p} : pinning'[o] = pinning[o]
    BY <1>2, <2>1 DEF PinSave
  <2>3. ASSUME ~outdated'
        PROVE  /\ \A o \in Pinners \ {p} : pinning[o] = Resting
               /\ pinWay = {} /\ link.step \notin {"read", "joined"} /\ query.step # "read"
               /\ pinned' = pinning[p].pin
    BY <1>2, <2>3 DEF PinSave, OthersOnTheWay
  <2>4. QED BY <1>2, <2>2, <2>3 DEF PinSave, NothingOlder, Resting
<1>3. ASSUME NEW p \in Pinners, PinTell(p)
      PROVE  UNCHANGED <<link, visit, outdated>> /\ (NothingOlder => NothingOlder')
  BY <1>3 DEF PinTell, NothingOlder, Resting
<1>4. ASSUME NEW p \in Pinners, PinDies(p) PROVE UNCHANGED <<link, visit>> /\ outdated'
  BY <1>4 DEF PinDies
<1>5. ASSUME NEW pin \in Pins, PinArrives(pin)
      PROVE  /\ UNCHANGED <<link, outdated>> /\ visit'.open = visit.open
             /\ (NothingOlder => NothingOlder')
  BY <1>5 DEF PinArrives, NothingOlder
<1>6. CASE JoinReads
  <2>1. visit.open /\ visit' = visit
    BY <1>6 DEF JoinReads
  <2>2. link' = [step |-> "read", ack |-> pinned] /\ UNCHANGED <<pinned, pinning, pinWay, query>>
    BY <1>6 DEF JoinReads
  <2>3. ASSUME outdated, ~outdated'
        PROVE  query.step # "read" /\ pinWay = {} /\ \A p \in Pinners : pinning[p] = Resting
    BY <1>6, <2>3 DEF JoinReads
  <2>4. outdated' => outdated
    BY <1>6 DEF JoinReads
  <2>5. QED BY <2>1, <2>2, <2>3, <2>4 DEF NothingOlder, Resting
<1>7. CASE Connects \/ JoinEnters \/ JoinAcks \/ Disconnects
  BY <1>7 DEF Connects, JoinEnters, JoinAcks, Disconnects, NoLink, NothingOlder
<1>8. CASE CloseRoom \/ \E stale \in BOOLEAN : OpenRoom(stale)
  BY <1>8 DEF CloseRoom, OpenRoom, Closed, NoLink, NothingOlder
<1>9. CASE RoomRead
  <2>1. query'.got = pinned /\ UNCHANGED <<pinned, pinning, pinWay, visit, link, outdated>>
    BY <1>9 DEF RoomRead
  <2>2. QED BY <2>1 DEF NothingOlder
<1>10. CASE RoomArrives
  <2>1. /\ query'.step = "idle" /\ UNCHANGED <<pinned, pinning, pinWay, link, outdated>>
        /\ visit'.open = visit.open /\ visit'.shows \in {visit.shows, query.got}
    BY <1>10 DEF RoomArrives
  <2>2. NothingOlder => query.got = pinned
    BY <1>10 DEF RoomArrives, NothingOlder
  <2>3. QED BY <2>1, <2>2 DEF NothingOlder
<1>11. CASE UNCHANGED pinVars
  BY <1>11 DEF pinVars, NothingOlder
<1>12. QED
  BY <1>1, <1>2, <1>3, <1>4, <1>5, <1>6, <1>7, <1>8, <1>9, <1>10, <1>11 DEF PinNext, Pins

\* However pins, broadcasts, joins and fetches of the room overlap, a connected page with
\* nothing on its way shows the pin, unless an older pin was still to reach it when the
\* pin was written (onPin and onJoin of chat.gateway; Room.tsx; useChatSocket).
THEOREM PinRightHolds == PinSpec => []PinRight
<1>1. PinInv => PinRight
  <2> SUFFICES ASSUME PinInv, link.step = "ready", pinWay = {},
                      \A p \in Pinners : pinning[p] = Resting, ~outdated
               PROVE  visit.shows = pinned
    BY DEF PinRight
  <2>1. \A p \in Pinners : pinning[p].step = "free"
    BY DEF Resting
  <2>2. QED BY <2>1 DEF PinInv, NothingOlder
<1>2. QED BY <1>1, PinInitHolds, PinNextHolds, PTL DEF PinSpec

-----------------------------------------------------------------------------
(* The pages that list rooms and show one *)

RoomStates == {"waiting", "active", "ended"}
Elsewhere(q) == IF q = "room" THEN "refused" ELSE "absent"
Answers(q) == RoomStates \cup {Unread, Elsewhere(q)}
AskNames == {"start", "end", "join"}
RoomPageNames == {"dashboard", "room", "join"}

OwnAsks == [step : {"sent", "checked"}, mine : {TRUE}, ask : AskNames, page : RoomPageNames,
            here : BOOLEAN]
OthersAsks == [step : {"sent", "checked"}, mine : {FALSE}, ask : AskNames, page : RoomPageNames]
OwnAnswers == [step : {"answered"}, mine : {TRUE}, ask : AskNames, page : RoomPageNames,
               here : BOOLEAN, state : RoomStates, version : Nat]

AskTypes == {NoAsk} \cup OwnAsks \cup OthersAsks \cup OwnAnswers

CachedRooms(q) == [state : Answers(q), version : Nat, fresh : BOOLEAN]
RoomFetches(q) == [step : {"idle", "asked", "read"}, state : Answers(q), version : Nat]

PagesTypes ==
    /\ theRoom \in [state : RoomStates, version : Nat]
    /\ who \in [role : {"candidate", "interviewer", "admin"}, owns : BOOLEAN, joined : BOOLEAN]
    /\ shown \in RoomPageNames
    /\ cached = [q \in RoomQueries |-> cached[q]]
    /\ fetching = [q \in RoomQueries |-> fetching[q]]
    /\ \A q \in RoomQueries : cached[q] \in CachedRooms(q) /\ fetching[q] \in RoomFetches(q)
    /\ asked = [s \in Slots |-> asked[s]]
    /\ \A s \in Slots : asked[s] \in AskTypes
    /\ told \in [RoomQueries -> Nat]

\* What was read of the room: never later than it, the same if it is as late, and by
\* someone who could.
Fits(q, r) ==
    /\ r.version <= theRoom.version
    /\ r.state \in RoomStates =>
          /\ q = "room" => MemberOfRoom
          /\ q # "room" => Listed
          /\ r.version = theRoom.version => r.state = theRoom.state

\* A request of this tab; the room's page asks for its owner and admins alone.
AskFits(a) ==
    a \in OwnAsks \cup OwnAnswers =>
       /\ a.ask \in {"start", "end"} /\ a.page = "room" => OwnsRoom
       /\ a.step = "answered" =>
             /\ a.version <= theRoom.version
             /\ a.version = theRoom.version => a.state = theRoom.state

AllFit ==
    /\ \A q \in RoomQueries : Fits(q, cached[q]) /\ (fetching[q].step = "read" => Fits(q, fetching[q]))
    /\ \A s \in Slots : AskFits(asked[s])

\* A query that was told of a change has it, or fetches it, or will when it is shown.
UpToDate(q) ==
    /\ \/ cached[q].version >= told[q]
       \/ fetching[q].step = "asked"
       \/ fetching[q].step = "read" /\ fetching[q].version >= told[q]
       \/ q \in Invalidated \ QueriesOf(shown) /\ ~cached[q].fresh
    /\ fetching[q].step = "read" => fetching[q].version >= told[q]

ToldInv ==
    /\ \A q \in RoomQueries : told[q] <= theRoom.version
    /\ \A q \in RoomQueries \ overlapped : UpToDate(q)
    /\ "room" \notin overlapped =>
          \A s \in Slots : asked[s].step = "answered" => asked[s].version >= told["room"]

RoomPagesInv == PagesTypes /\ AllFit /\ ToldInv

LEMMA UnreadApart == Unread \notin RoomStates /\ Unread # "refused" /\ Unread # "absent"
  BY UnreadAssumption DEF RoomStates

LEMMA RoomPagesInitHolds == RoomPagesInit => RoomPagesInv
<1> SUFFICES ASSUME RoomPagesInit PROVE RoomPagesInv
  OBVIOUS
<1>1. /\ theRoom = [state |-> "waiting", version |-> 0]
      /\ who \in [role : {"candidate", "interviewer", "admin"}, owns : BOOLEAN, joined : BOOLEAN]
      /\ shown \in RoomPageNames
      /\ asked = [s \in Slots |-> NoAsk] /\ told = [q \in RoomQueries |-> 0] /\ overlapped = {}
  BY DEF RoomPagesInit, RoomPageNames
<1>2. /\ cached = [q \in RoomQueries |-> cached[q]]
      /\ \A q \in RoomQueries : cached[q] = [state |-> Unread, version |-> 0, fresh |-> FALSE]
  BY DEF RoomPagesInit
<1>3. /\ fetching = [q \in RoomQueries |-> fetching[q]]
      /\ \A q \in RoomQueries : /\ fetching[q] \in [step : {"idle", "asked"}, state : {Unread}, version : {0}]
  BY DEF RoomPagesInit, NoFetch
<1>4. ASSUME NEW q \in RoomQueries PROVE cached[q] \in CachedRooms(q) /\ fetching[q] \in RoomFetches(q)
  <2>1. Unread \in Answers(q)
    BY DEF Answers
  <2>2. [state |-> Unread, version |-> 0, fresh |-> FALSE] \in CachedRooms(q)
    BY <2>1 DEF CachedRooms
  <2>3. [step : {"idle", "asked"}, state : {Unread}, version : {0}] \subseteq RoomFetches(q)
    BY <2>1 DEF RoomFetches
  <2>4. QED BY <1>2, <1>3, <2>2, <2>3
<1>5. PagesTypes
  BY <1>1, <1>2, <1>3, <1>4 DEF PagesTypes, RoomStates, AskTypes
<1>6. AllFit
  <2>1. \A q \in RoomQueries : Fits(q, cached[q])
    BY <1>1, <1>2, UnreadApart DEF Fits
  <2>2. \A q \in RoomQueries : fetching[q].step # "read"
    BY <1>3
  <2>3. \A s \in Slots : asked[s].step = "free"
    BY <1>1 DEF NoAsk
  <2>4. \A s \in Slots : AskFits(asked[s])
    BY <2>3 DEF AskFits, OwnAsks, OwnAnswers
  <2>5. QED BY <2>1, <2>2, <2>4 DEF AllFit
<1>7. ToldInv
  <2>1. \A q \in RoomQueries : fetching[q].step # "read" /\ cached[q].version = 0 /\ told[q] = 0
    BY <1>1, <1>2, <1>3
  <2>2. \A s \in Slots : asked[s].step # "answered"
    BY <1>1 DEF NoAsk
  <2>3. QED BY <1>1, <2>1, <2>2 DEF ToldInv, UpToDate
<1>8. QED BY <1>5, <1>6, <1>7 DEF RoomPagesInv

\* Steps of the queries.
LEMMA QueryStep ==
  ASSUME RoomPagesInv, NEW q \in RoomQueries, Ages(q) \/ FetchReads(q) \/ FetchArrives(q)
  PROVE  RoomPagesInv'
<1> USE DEF RoomPagesInv
<1>1. UNCHANGED <<theRoom, who, shown, asked, told>>
  BY DEF Ages, FetchReads, FetchArrives
<1>2. \A s \in Slots : AskFits(asked[s])'
  BY <1>1 DEF AllFit, AskFits, OwnsRoom
<1>3. ASSUME NEW o \in RoomQueries, NEW r, Fits(o, r) PROVE (theRoom.version = theRoom'.version) /\ Fits(o, r)
  BY <1>1, <1>3
<1>4. \A o \in RoomQueries \ {q} : cached'[o] = cached[o] /\ fetching'[o] = fetching[o]
  BY DEF Ages, FetchReads, FetchArrives, PagesTypes
<1>5. \A o \in RoomQueries \ {q} : UpToDate(o) => UpToDate(o)'
  BY <1>1, <1>4 DEF UpToDate
<1>6. CASE Ages(q)
  <2>1. [cached[q] EXCEPT !.fresh = FALSE] \in CachedRooms(q)
    BY DEF PagesTypes, CachedRooms
  <2>2. /\ cached'[q] = [cached[q] EXCEPT !.fresh = FALSE] /\ fetching' = fetching
        /\ overlapped' = overlapped /\ cached' = [o \in RoomQueries |-> cached'[o]]
    BY <1>6 DEF Ages, PagesTypes
  <2>3. cached'[q].version = cached[q].version /\ cached'[q].state = cached[q].state
        /\ cached'[q].fresh = FALSE
    BY <2>2 DEF PagesTypes, CachedRooms
  <2>4. PagesTypes'
    BY <1>1, <1>4, <2>1, <2>2 DEF PagesTypes, CachedRooms, RoomFetches
  <2>5. AllFit'
    BY <1>1, <1>2, <1>4, <2>2, <2>3 DEF AllFit, Fits, MemberOfRoom, OwnsRoom, Listed
  <2>6. ToldInv'
    BY <1>1, <1>5, <2>2, <2>3 DEF ToldInv, UpToDate
  <2>7. QED BY <2>4, <2>5, <2>6
<1>7. CASE FetchReads(q)
  <2> DEFINE got == [step |-> "read", state |-> ReadBy(q), version |-> theRoom.version]
  <2>1. /\ fetching'[q] = got /\ cached' = cached /\ fetching' = [o \in RoomQueries |-> fetching'[o]]
        /\ overlapped' = (IF InFlight(Slots) THEN overlapped ELSE overlapped \ {q})
    BY <1>7 DEF FetchReads, PagesTypes
  <2>2. got \in RoomFetches(q) /\ Fits(q, got)
    BY DEF PagesTypes, RoomFetches, Answers, ReadBy, Fits, RoomStates, Elsewhere
  <2>3. PagesTypes'
    BY <1>1, <1>4, <2>1, <2>2 DEF PagesTypes, CachedRooms, RoomFetches
  <2>4. AllFit'
    BY <1>1, <1>2, <1>4, <2>1, <2>2 DEF AllFit, Fits, MemberOfRoom, OwnsRoom, Listed
  <2>5. UpToDate(q)'
    BY <1>1, <2>1 DEF UpToDate, ToldInv, PagesTypes
  <2>6. ASSUME ~InFlight(Slots), NEW s \in Slots PROVE asked[s].step # "answered"
    <3>1. CASE asked[s] = NoAsk
      BY <3>1 DEF NoAsk
    <3>2. CASE asked[s] \in OwnAsks \cup OthersAsks
      BY <3>2 DEF OwnAsks, OthersAsks
    <3>3. CASE asked[s] \in OwnAnswers
      <4>1. asked[s].mine = TRUE /\ asked[s].step # "free"
        BY <3>3 DEF OwnAnswers
      <4>2. QED BY <2>6, <4>1 DEF InFlight
    <3>4. QED BY <3>1, <3>2, <3>3 DEF PagesTypes, AskTypes
  <2>7. ToldInv'
    BY <1>1, <1>5, <2>1, <2>5, <2>6 DEF ToldInv
  <2>8. QED BY <2>3, <2>4, <2>7
<1>8. CASE FetchArrives(q)
  <2> DEFINE new == [state |-> fetching[q].state, version |-> fetching[q].version,
                     fresh |-> fetching[q].state # "refused"]
  <2>1. /\ cached'[q] = new /\ fetching'[q] = NoFetch /\ overlapped' = overlapped
        /\ fetching' = [o \in RoomQueries |-> fetching'[o]] /\ cached' = [o \in RoomQueries |-> cached'[o]]
    BY <1>8 DEF FetchArrives, PagesTypes
  <2>2. new \in CachedRooms(q) /\ NoFetch \in RoomFetches(q) /\ NoFetch.step = "idle"
    BY DEF PagesTypes, RoomFetches, CachedRooms, NoFetch, Answers
  <2>3. Fits(q, new)
    BY <1>8 DEF FetchArrives, AllFit, Fits
  <2>4. PagesTypes'
    BY <1>1, <1>4, <2>1, <2>2 DEF PagesTypes, CachedRooms, RoomFetches
  <2>5. AllFit'
    BY <1>1, <1>2, <1>4, <2>1, <2>2, <2>3 DEF AllFit, Fits, MemberOfRoom, OwnsRoom, Listed
  <2>6. UpToDate(q) => UpToDate(q)'
    BY <1>1, <1>8, <2>1, <2>2 DEF UpToDate, FetchArrives
  <2>7. ToldInv'
    BY <1>1, <1>5, <2>1, <2>6 DEF ToldInv
  <2>8. QED BY <2>4, <2>5, <2>7
<1>9. QED BY <1>6, <1>7, <1>8

\* An answer is one of this tab's own requests.
LEMMA AnsweredIsOwn ==
  ASSUME PagesTypes, NEW s \in Slots, asked[s].step = "answered"
  PROVE  asked[s] \in OwnAnswers /\ asked[s].mine = TRUE
<1>1. asked[s] \in AskTypes
  BY DEF PagesTypes
<1>2. asked[s] # NoAsk /\ asked[s] \notin OwnAsks /\ asked[s] \notin OthersAsks
  <2>1. NoAsk.step # "answered" /\ (\A a \in OwnAsks : a.step # "answered")
    BY DEF NoAsk, OwnAsks
  <2>2. \A a \in OthersAsks : a.step # "answered"
    BY DEF OthersAsks
  <2>3. QED BY <2>1, <2>2
<1>3. QED BY <1>1, <1>2 DEF AskTypes, OwnAnswers

\* A request takes a step, at which the room and the user's part in it may grow.
LEMMA AskStep ==
  ASSUME RoomPagesInv, NEW s \in Slots, NEW x \in AskTypes,
         asked' = [asked EXCEPT ![s] = x], AskFits(x)',
         x.step = "answered" => x.version >= told["room"],
         theRoom' \in [state : RoomStates, version : Nat],
         who' \in [role : {"candidate", "interviewer", "admin"}, owns : BOOLEAN, joined : BOOLEAN],
         theRoom' = theRoom \/ theRoom'.version > theRoom.version,
         OwnsRoom' = OwnsRoom, MemberOfRoom => MemberOfRoom', Listed => Listed',
         UNCHANGED <<shown, cached, fetching, told, overlapped>>
  PROVE  RoomPagesInv'
<1> USE DEF RoomPagesInv
<1>1. theRoom.version \in Nat /\ theRoom'.version \in Nat
  BY DEF PagesTypes
<1>2. /\ asked' = [o \in Slots |-> asked'[o]] /\ asked'[s] = x
      /\ \A o \in Slots \ {s} : asked'[o] = asked[o]
  BY DEF PagesTypes
<1>3. PagesTypes'
  BY <1>2 DEF PagesTypes, CachedRooms, RoomFetches
<1>4. AllFit'
  <2>1. ASSUME NEW q \in RoomQueries, NEW r, r.version \in Nat, Fits(q, r) PROVE Fits(q, r)'
    BY <1>1, <2>1 DEF Fits
  <2>2. ASSUME NEW q \in RoomQueries
        PROVE  Fits(q, cached[q])' /\ (fetching'[q].step = "read" => Fits(q, fetching[q])')
    <3>1. cached[q].version \in Nat /\ fetching[q].version \in Nat
      BY DEF PagesTypes, CachedRooms, RoomFetches
    <3>2. Fits(q, cached[q]) /\ (fetching[q].step = "read" => Fits(q, fetching[q]))
      BY DEF AllFit
    <3>3. QED BY <1>1, <3>1, <3>2 DEF Fits
  <2>3. ASSUME NEW o \in Slots \ {s} PROVE AskFits(asked[o])'
    <3>1. asked'[o] = asked[o] /\ AskFits(asked[o])
      BY <1>2 DEF AllFit
    <3>2. CASE asked[o] \in OwnAsks
      BY <3>1, <3>2 DEF AskFits, OwnAsks
    <3>3. CASE asked[o] \in OwnAnswers
      <4>1. asked[o].version \in Nat
        BY <3>3 DEF OwnAnswers
      <4>2. QED BY <1>1, <3>1, <3>3, <4>1 DEF AskFits
    <3>4. QED BY <3>1, <3>2, <3>3 DEF AskFits
  <2>4. QED BY <1>2, <2>2, <2>3 DEF AllFit
<1>5. ToldInv'
  <2>1. \A q \in RoomQueries : told'[q] <= theRoom'.version
    <3>1. \A q \in RoomQueries : told[q] \in Nat /\ told[q] <= theRoom.version
      BY DEF PagesTypes, ToldInv
    <3>2. QED BY <1>1, <3>1
  <2>2. \A q \in RoomQueries \ overlapped : UpToDate(q)'
    BY DEF ToldInv, UpToDate
  <2>3. "room" \notin overlapped' =>
           \A o \in Slots : asked'[o].step = "answered" => asked'[o].version >= told'["room"]
    BY <1>2 DEF ToldInv
  <2>4. QED BY <2>1, <2>2, <2>3 DEF ToldInv
<1>6. QED BY <1>3, <1>4, <1>5

LEMMA NoAskFits == AskFits(NoAsk) /\ NoAsk \in AskTypes /\ NoAsk.step # "answered"
  BY DEF NoAsk, AskFits, OwnAsks, OwnAnswers, AskTypes

LEMMA AsksStep ==
  ASSUME RoomPagesInv, NEW s \in Slots, NEW ask \in AskNames, Asks(s, ask) \/ OthersAsk(s, ask)
  PROVE  RoomPagesInv'
<1> DEFINE own == [step |-> "sent", mine |-> TRUE, ask |-> ask, page |-> shown, here |-> TRUE]
           other == [step |-> "sent", mine |-> FALSE, ask |-> ask, page |-> "room"]
<1>1. UNCHANGED <<theRoom, who, shown, cached, fetching, told, overlapped>>
  BY DEF Asks, OthersAsk
<1>2. OwnsRoom' = OwnsRoom /\ MemberOfRoom' = MemberOfRoom /\ Listed' = Listed
  BY <1>1 DEF OwnsRoom, MemberOfRoom, Listed
<1>3. CASE Asks(s, ask)
  <2> SUFFICES ASSUME NEW x, x = own PROVE RoomPagesInv'
    OBVIOUS
  <2>1. /\ x \in OwnAsks /\ x \in AskTypes
        /\ x.step = "sent" /\ x.ask = ask /\ x.page = shown
    BY DEF RoomPagesInv, PagesTypes, OwnAsks, AskTypes
  <2>2. ask \in {"start", "end"} /\ shown = "room" => OwnsRoom
    BY <1>3 DEF Asks, OffersShown, RoomOffers, LiveRoomLink
  <2>3. AskFits(x)'
    BY <1>2, <2>1, <2>2 DEF AskFits
  <2>4. asked' = [asked EXCEPT ![s] = x]
    BY <1>3 DEF Asks
  <2>5. QED BY <1>1, <1>2, <2>1, <2>3, <2>4, AskStep DEF RoomPagesInv, PagesTypes
<1>4. CASE OthersAsk(s, ask)
  <2>1. other \in OthersAsks /\ other \in AskTypes /\ other.step # "answered"
    BY DEF OthersAsks, AskTypes, RoomPageNames
  <2>2. other \notin OwnAsks \cup OwnAnswers
    BY DEF OwnAsks, OwnAnswers
  <2>3. AskFits(other)'
    BY <2>2 DEF AskFits
  <2>4. QED BY <1>1, <1>2, <1>4, <2>1, <2>3, AskStep DEF OthersAsk, RoomPagesInv, PagesTypes
<1>5. QED BY <1>3, <1>4

\* The answer to a request, of a room that was just read or written.
LEMMA AnswerStep ==
  ASSUME RoomPagesInv, NEW s \in Slots, asked[s] \in OwnAsks \cup OthersAsks,
         AnsweredWith(s, theRoom'.state, theRoom'.version),
         theRoom' \in [state : RoomStates, version : Nat],
         who' \in [role : {"candidate", "interviewer", "admin"}, owns : BOOLEAN, joined : BOOLEAN],
         theRoom' = theRoom \/ theRoom'.version > theRoom.version,
         OwnsRoom' = OwnsRoom, MemberOfRoom => MemberOfRoom', Listed => Listed',
         UNCHANGED <<shown, cached, fetching, told, overlapped>>
  PROVE  RoomPagesInv'
<1> DEFINE answer == [step |-> "answered", mine |-> TRUE, ask |-> asked[s].ask, page |-> asked[s].page,
                      here |-> asked[s].here, state |-> theRoom'.state, version |-> theRoom'.version]
<1>1. CASE asked[s] \in OwnAsks
  <2> SUFFICES ASSUME NEW x, x = answer PROVE RoomPagesInv'
    OBVIOUS
  <2>1. asked[s].mine = TRUE
    BY <1>1 DEF OwnAsks
  <2>2. asked' = [asked EXCEPT ![s] = x]
    BY <2>1 DEF AnsweredWith
  <2>3. /\ x \in OwnAnswers /\ x \in AskTypes
        /\ x.ask = asked[s].ask /\ x.page = asked[s].page
        /\ x.state = theRoom'.state /\ x.version = theRoom'.version
        /\ theRoom'.version \in Nat
    BY <1>1 DEF OwnAsks, OwnAnswers, AskTypes
  <2>4. asked[s].ask \in {"start", "end"} /\ asked[s].page = "room" => OwnsRoom
    BY <1>1 DEF RoomPagesInv, AllFit, AskFits
  <2>5. AskFits(x)'
    BY <2>3, <2>4 DEF AskFits
  <2>6. theRoom'.version >= told["room"]
    <3>1. told["room"] \in Nat /\ told["room"] <= theRoom.version /\ theRoom.version \in Nat
      BY DEF RoomPagesInv, PagesTypes, ToldInv, RoomQueries
    <3>2. QED BY <3>1
  <2>7. QED BY <2>2, <2>3, <2>5, <2>6, AskStep
<1>2. CASE asked[s] \in OthersAsks
  <2>1. asked[s].mine = FALSE
    BY <1>2 DEF OthersAsks
  <2>2. asked' = [asked EXCEPT ![s] = NoAsk]
    BY <2>1 DEF AnsweredWith
  <2>3. AskFits(NoAsk)'
    BY DEF NoAsk, AskFits, OwnAsks, OwnAnswers
  <2>4. QED BY <2>2, <2>3, NoAskFits, AskStep
<1>3. QED BY <1>1, <1>2

\* A request that was sent or checked, not answered.
LEMMA Underway ==
  ASSUME PagesTypes, NEW s \in Slots, asked[s].step \in {"sent", "checked"}
  PROVE  asked[s] \in OwnAsks \cup OthersAsks
<1>1. asked[s] \in AskTypes
  BY DEF PagesTypes
<1>2. asked[s] # NoAsk /\ asked[s] \notin OwnAnswers
  <2>1. NoAsk.step \notin {"sent", "checked"} /\ (\A a \in OwnAnswers : a.step \notin {"sent", "checked"})
    BY DEF NoAsk, OwnAnswers
  <2>2. QED BY <2>1
<1>3. QED BY <1>1, <1>2 DEF AskTypes

LEMMA SetStep ==
  ASSUME RoomPagesInv, NEW s \in Slots, SetChecks(s) \/ SetWrites(s) \/ Enters(s)
  PROVE  RoomPagesInv'
<1>1. asked[s] \in OwnAsks \cup OthersAsks
  BY Underway DEF SetChecks, SetWrites, Enters, RoomPagesInv
<1>2. /\ theRoom \in [state : RoomStates, version : Nat]
      /\ who \in [role : {"candidate", "interviewer", "admin"}, owns : BOOLEAN, joined : BOOLEAN]
  BY DEF RoomPagesInv, PagesTypes
<1>3. UNCHANGED <<shown, cached, fetching, told, overlapped>>
  BY DEF SetChecks, SetWrites, Enters
<1>4. AskFits(NoAsk)'
  BY DEF NoAsk, AskFits, OwnAsks, OwnAnswers
<1>5. CASE SetChecks(s)
  <2>1. UNCHANGED <<theRoom, who>>
    BY <1>5 DEF SetChecks
  <2>2. OwnsRoom' = OwnsRoom /\ MemberOfRoom' = MemberOfRoom /\ Listed' = Listed
    BY <2>1 DEF OwnsRoom, MemberOfRoom, Listed
  <2>3. CASE AnsweredWith(s, theRoom.state, theRoom.version)
    BY <1>1, <1>2, <1>3, <2>1, <2>2, <2>3, AnswerStep
  <2>4. CASE asked' = [asked EXCEPT ![s] = NoAsk]
    BY <1>2, <1>3, <1>4, <2>1, <2>2, <2>4, NoAskFits, AskStep
  <2>5. CASE asked' = [asked EXCEPT ![s] = [asked[s] EXCEPT !.step = "checked"]]
    <3> SUFFICES ASSUME NEW x, x = [asked[s] EXCEPT !.step = "checked"] PROVE RoomPagesInv'
      OBVIOUS
    <3>1. x \in OwnAsks \cup OthersAsks /\ x.step # "answered" /\ x.ask = asked[s].ask /\ x.page = asked[s].page
      BY <1>1 DEF OwnAsks, OthersAsks
    <3>2. x \in OwnAsks => asked[s] \in OwnAsks
      BY <1>1 DEF OwnAsks, OthersAsks
    <3>3. x \notin OwnAnswers
      BY <3>1 DEF OwnAnswers
    <3>4. AskFits(asked[s])
      BY DEF RoomPagesInv, AllFit
    <3>5. AskFits(x)'
      BY <2>2, <3>1, <3>2, <3>3, <3>4 DEF AskFits
    <3>6. x \in AskTypes
      BY <3>1 DEF AskTypes
    <3>7. QED BY <1>2, <1>3, <2>1, <2>2, <2>5, <3>1, <3>5, <3>6, AskStep
  <2>6. QED BY <1>5, <2>3, <2>4, <2>5 DEF SetChecks
<1>6. CASE SetWrites(s)
  <2>1. TargetOf(asked[s].ask) \in RoomStates
    BY DEF TargetOf, RoomStates
  <2>2. theRoom' \in [state : RoomStates, version : Nat] /\ theRoom'.version > theRoom.version
    BY <1>2, <1>6, <2>1 DEF SetWrites
  <2>3. who' = who /\ AnsweredWith(s, theRoom'.state, theRoom'.version)
    BY <1>6 DEF SetWrites
  <2>4. OwnsRoom' = OwnsRoom /\ MemberOfRoom' = MemberOfRoom /\ Listed' = Listed
    BY <2>3 DEF OwnsRoom, MemberOfRoom, Listed
  <2>5. QED BY <1>1, <1>2, <1>3, <2>2, <2>3, <2>4, AnswerStep
<1>7. CASE Enters(s)
  <2>1. theRoom' = theRoom
    BY <1>7 DEF Enters
  <2>2. CASE asked' = [asked EXCEPT ![s] = NoAsk] /\ who' = who
    <3>1. OwnsRoom' = OwnsRoom /\ MemberOfRoom' = MemberOfRoom /\ Listed' = Listed
      BY <2>2 DEF OwnsRoom, MemberOfRoom, Listed
    <3>2. QED BY <1>2, <1>3, <1>4, <2>1, <2>2, <3>1, NoAskFits, AskStep
  <2>3. CASE AnsweredWith(s, theRoom.state, theRoom.version) /\ who' = [who EXCEPT !.joined = TRUE]
    <3>1. /\ who' \in [role : {"candidate", "interviewer", "admin"}, owns : BOOLEAN, joined : BOOLEAN]
          /\ who'.role = who.role /\ who'.owns = who.owns /\ who'.joined = TRUE
      BY <1>2, <2>3
    <3>2. OwnsRoom' = OwnsRoom /\ (MemberOfRoom => MemberOfRoom') /\ (Listed => Listed')
      BY <3>1 DEF OwnsRoom, MemberOfRoom, Listed
    <3>3. QED BY <1>1, <1>2, <1>3, <2>1, <2>3, <3>1, <3>2, AnswerStep
  <2>4. QED BY <1>7, <2>2, <2>3 DEF Enters
<1>8. QED BY <1>5, <1>6, <1>7

\* A page that is left forgets no more than that it waited.
LEMMA ForgetsOnly ==
  ASSUME PagesTypes, AllFit, NEW s \in Slots
  PROVE  /\ Forgotten[s] \in AskTypes /\ AskFits(Forgotten[s])
         /\ Forgotten[s].step = "answered" => asked[s].step = "answered" /\ Forgotten[s].version = asked[s].version
<1>1. asked[s] \in AskTypes /\ AskFits(asked[s])
  BY DEF PagesTypes, AllFit
<1>2. CASE ~WaitedFor(s)
  BY <1>1, <1>2 DEF Forgotten
<1>3. CASE WaitedFor(s)
  <2> SUFFICES ASSUME NEW x, x = [asked[s] EXCEPT !.here = FALSE]
               PROVE  /\ x \in AskTypes /\ AskFits(x)
                      /\ x.step = "answered" => asked[s].step = "answered" /\ x.version = asked[s].version
    BY <1>3 DEF Forgotten
  <2>1. asked[s] \in OwnAsks \cup OwnAnswers
    <3>1. NoAsk.step = "free" /\ \A a \in OthersAsks : a.mine = FALSE
      BY DEF NoAsk, OthersAsks
    <3>2. asked[s].step # "free" /\ asked[s].mine
      BY <1>3 DEF WaitedFor
    <3>3. asked[s] # NoAsk /\ asked[s] \notin OthersAsks
      BY <3>1, <3>2
    <3>4. QED BY <1>1, <3>3 DEF AskTypes
  <2>2. /\ x \in OwnAsks \cup OwnAnswers
        /\ x.step = asked[s].step /\ x.ask = asked[s].ask /\ x.page = asked[s].page
    BY <2>1 DEF OwnAsks, OwnAnswers
  <2>3. x.step = "answered" => x.version = asked[s].version /\ x.state = asked[s].state
    BY <2>1 DEF OwnAsks, OwnAnswers
  <2>4. QED BY <1>1, <2>1, <2>2, <2>3 DEF AskTypes, AskFits
<1>4. QED BY <1>2, <1>3

\* A fetch that is asked for anew, or left as it is.
LEMMA AskedFetch ==
  ASSUME NEW q \in RoomQueries
  PROVE  [NoFetch EXCEPT !.step = "asked"] \in RoomFetches(q)
         /\ [NoFetch EXCEPT !.step = "asked"].step = "asked"
  BY DEF NoFetch, RoomFetches, Answers

LEMMA VisitStep ==
  ASSUME RoomPagesInv, NEW page \in RoomPageNames, VisitPage(page)
  PROVE  RoomPagesInv'
<1> USE DEF RoomPagesInv
<1>1. UNCHANGED <<theRoom, who, cached, told, overlapped>> /\ shown' = page /\ asked' = Forgotten
  BY DEF VisitPage, GoTo
<1>2. /\ fetching' = [q \in RoomQueries |-> fetching'[q]]
      /\ \A q \in RoomQueries :
            \/ fetching'[q] = fetching[q]
            \/ fetching'[q] = [NoFetch EXCEPT !.step = "asked"]
  BY DEF VisitPage, GoTo, Fetches, PagesTypes
<1>3. \A q \in RoomQueries :
         q \in QueriesOf(page) \ QueriesOf(shown) /\ ~cached[q].fresh =>
            fetching'[q].step = "asked" \/ (fetching'[q] = fetching[q] /\ fetching[q].step # "idle")
  BY AskedFetch DEF VisitPage, GoTo, Fetches, PagesTypes
<1>4. PagesTypes'
  <2>1. asked' = [s \in Slots |-> asked'[s]] /\ \A s \in Slots : asked'[s] \in AskTypes
    BY <1>1, ForgetsOnly DEF Forgotten
  <2>2. \A q \in RoomQueries : cached'[q] \in CachedRooms(q) /\ fetching'[q] \in RoomFetches(q)
    BY <1>1, <1>2, AskedFetch DEF PagesTypes
  <2>3. QED BY <1>1, <1>2, <2>1, <2>2 DEF PagesTypes, CachedRooms, RoomFetches
<1>5. AllFit'
  <2>1. \A s \in Slots : AskFits(asked[s])'
    BY <1>1, ForgetsOnly DEF AskFits, OwnsRoom
  <2>2. \A q \in RoomQueries : fetching'[q].step = "read" => fetching'[q] = fetching[q]
    BY <1>2, AskedFetch
  <2>3. QED BY <1>1, <2>1, <2>2 DEF AllFit, Fits, MemberOfRoom, OwnsRoom, Listed
<1>6. ToldInv'
  <2>1. ASSUME NEW q \in RoomQueries, UpToDate(q) PROVE UpToDate(q)'
    <3>1. fetching[q].step \in {"idle", "asked", "read"}
      BY DEF PagesTypes, RoomFetches
    <3>2. CASE fetching'[q].step = "asked"
      BY <3>2 DEF UpToDate
    <3>3. CASE fetching'[q] = fetching[q] /\ fetching[q].step # "asked"
      BY <1>1, <1>3, <2>1, <3>1, <3>3 DEF UpToDate
    <3>4. QED BY <1>2, <3>2, <3>3, AskedFetch
  <2>2. \A s \in Slots : asked'[s].step = "answered" =>
           asked[s].step = "answered" /\ asked'[s].version = asked[s].version
    BY <1>1, ForgetsOnly
  <2>3. QED BY <1>1, <2>1, <2>2 DEF ToldInv
<1>7. QED BY <1>4, <1>5, <1>6

\* What is held of the lists is stale now, and as it was otherwise.
LEMMA StaledOnly ==
  ASSUME PagesTypes, NEW q \in RoomQueries
  PROVE  /\ Staled[q] \in CachedRooms(q)
         /\ Staled[q].state = cached[q].state /\ Staled[q].version = cached[q].version
         /\ q \in Invalidated => Staled[q].fresh = FALSE
         /\ q \notin Invalidated => Staled[q] = cached[q]
<1>1. cached[q] \in CachedRooms(q)
  BY DEF PagesTypes
<1>2. CASE q \in Invalidated
  <2>1. Staled[q] = [cached[q] EXCEPT !.fresh = FALSE]
    BY <1>2 DEF Staled
  <2>2. QED BY <1>1, <1>2, <2>1 DEF CachedRooms
<1>3. CASE q \notin Invalidated
  BY <1>1, <1>3 DEF Staled
<1>4. QED BY <1>2, <1>3

LEMMA SetArrivesStep ==
  ASSUME RoomPagesInv, NEW s \in Slots, SetArrives(s)
  PROVE  RoomPagesInv'
<1> USE DEF RoomPagesInv
<1> DEFINE tells == Invalidated \cup (IF asked[s].page = "room" THEN {"room"} ELSE {})
           answer == [state |-> asked[s].state, version |-> asked[s].version, fresh |-> TRUE]
<1>1. UNCHANGED <<theRoom, who, shown>> /\ asked' = [asked EXCEPT ![s] = NoAsk]
      /\ fetching' = Refetching /\ cached' = WithAnswer(asked[s])
  BY DEF SetArrives
<1>2. /\ told' = [q \in RoomQueries |-> IF q \in tells /\ told[q] < asked[s].version
                                        THEN asked[s].version ELSE told[q]]
      /\ overlapped' = overlapped \cup
            {q \in tells : \/ InFlight(Slots \ {s})
                           \/ fetching[q].step = "read" /\ Refetching[q].step = "read"}
  BY DEF SetArrives
<1>3. asked[s] \in OwnAnswers /\ asked[s].ask \in {"start", "end"} /\ asked[s].step = "answered"
  BY AnsweredIsOwn DEF SetArrives
<1>4. asked[s].state \in RoomStates /\ asked[s].version \in Nat /\ asked[s].version <= theRoom.version
  BY <1>3 DEF OwnAnswers, AllFit, AskFits
<1>5. asked' = [o \in Slots |-> asked'[o]] /\ asked'[s] = NoAsk /\ \A o \in Slots \ {s} : asked'[o] = asked[o]
  BY <1>1 DEF PagesTypes
<1>6. /\ fetching' = [q \in RoomQueries |-> fetching'[q]]
      /\ \A q \in RoomQueries :
            \/ fetching'[q] = fetching[q] /\ q \notin Invalidated \cap QueriesOf(shown)
            \/ fetching'[q] = [NoFetch EXCEPT !.step = "asked"]
  BY <1>1 DEF Refetching
<1>7. /\ cached' = [q \in RoomQueries |-> cached'[q]]
      /\ \A q \in RoomQueries : cached'[q] = Staled[q] \/ (q = "room" /\ asked[s].page = "room")
      /\ asked[s].page = "room" => cached'["room"] = answer
  BY <1>1 DEF WithAnswer, Staled, RoomQueries
<1>8. answer \in CachedRooms("room") /\ answer.version = asked[s].version /\ answer.state = asked[s].state
  BY <1>4 DEF CachedRooms, Answers
<1>9. PagesTypes'
  <2>1. told' \in [RoomQueries -> Nat]
    BY <1>2, <1>4 DEF PagesTypes
  <2>2. \A o \in Slots : asked'[o] \in AskTypes
    BY <1>5, NoAskFits DEF PagesTypes
  <2>3. ASSUME NEW q \in RoomQueries
        PROVE  cached'[q] \in CachedRooms(q) /\ fetching'[q] \in RoomFetches(q)
    <3>1. Staled[q] \in CachedRooms(q) /\ fetching[q] \in RoomFetches(q)
      BY StaledOnly DEF PagesTypes
    <3>2. cached'[q] = Staled[q] \/ (q = "room" /\ cached'[q] = answer)
      BY <1>7
    <3>3. cached'[q] \in CachedRooms(q)
      BY <1>8, <3>1, <3>2
    <3>4. fetching'[q] \in RoomFetches(q)
      BY <1>6, <3>1, AskedFetch
    <3>5. QED BY <3>3, <3>4
  <2>4. QED BY <1>1, <1>5, <1>6, <1>7, <2>1, <2>2, <2>3 DEF PagesTypes, CachedRooms, RoomFetches
<1>10. AllFit'
  <2>1. \A o \in Slots : AskFits(asked[o])'
    BY <1>1, <1>5, NoAskFits DEF AllFit, AskFits, OwnsRoom
  <2>2. \A q \in RoomQueries : Fits(q, Staled[q]) /\ (fetching[q].step = "read" => Fits(q, fetching[q]))
    BY StaledOnly DEF AllFit, Fits
  <2>3. asked[s].page = "room" => Fits("room", answer)
    BY <1>3, <1>4, <1>8 DEF AllFit, AskFits, Fits, MemberOfRoom
  <2>4. \A q \in RoomQueries : Fits(q, cached'[q])
    BY <1>7, <2>2, <2>3
  <2>5. \A q \in RoomQueries : fetching'[q].step = "read" => Fits(q, fetching'[q])
    BY <1>6, <2>2, AskedFetch
  <2>6. QED BY <1>1, <2>1, <2>4, <2>5 DEF AllFit, Fits, MemberOfRoom, OwnsRoom, Listed
<1>11. ToldInv'
  <2>1. \A q \in RoomQueries : told[q] \in Nat /\ told[q] <= theRoom.version
    BY DEF PagesTypes, ToldInv
  <2>2. \A q \in RoomQueries : told'[q] <= theRoom'.version
    BY <1>1, <1>2, <1>4, <2>1
  <2>3. InFlight(Slots \ {s}) \/ \A o \in Slots : asked'[o].step # "answered"
    <3>1. ASSUME NEW o \in Slots \ {s}, asked[o].step = "answered" PROVE InFlight(Slots \ {s})
      BY <3>1, AnsweredIsOwn DEF InFlight
    <3>2. QED BY <1>5, <3>1, NoAskFits
  <2>4. "room" \notin overlapped' =>
           \A o \in Slots : asked'[o].step = "answered" => asked'[o].version >= told'["room"]
    <3>1. CASE asked[s].page = "room"
      BY <1>2, <2>3, <3>1
    <3>2. CASE asked[s].page # "room"
      <4>1. "room" \notin tells /\ "room" \in RoomQueries
        BY <3>2 DEF Invalidated, RoomQueries
      <4>2. told'["room"] = told["room"]
        BY <1>2, <4>1
      <4>3. QED BY <1>2, <1>5, <4>2, NoAskFits DEF ToldInv
    <3>3. QED BY <3>1, <3>2
  <2>5. ASSUME NEW q \in RoomQueries, q \notin overlapped' PROVE UpToDate(q)'
    <3>1. UpToDate(q) /\ q \notin overlapped
      BY <1>2, <2>5 DEF ToldInv
    <3>2. CASE q \in Invalidated
      <4>1. q \in tells
        BY <3>2
      <4>2. CASE q \in QueriesOf(shown)
        BY <1>6, <3>2, <4>2, AskedFetch DEF UpToDate
      <4>3. CASE q \notin QueriesOf(shown)
        <5>1. fetching'[q].step # "read"
          BY <1>1, <1>2, <1>6, <2>5, <4>1, AskedFetch
        <5>2. ~cached'[q].fresh
          BY <1>7, <3>2, StaledOnly DEF Invalidated
        <5>3. QED BY <1>1, <3>2, <4>3, <5>1, <5>2 DEF UpToDate
      <4>4. QED BY <4>2, <4>3
    <3>3. CASE q = "room" /\ asked[s].page = "room"
      <4>1. q \in tells
        BY <3>3
      <4>2. fetching'[q].step # "read"
        BY <1>1, <1>2, <1>6, <2>5, <4>1, AskedFetch
      <4>3. asked[s].version >= told["room"]
        BY <1>3, <3>1, <3>3 DEF ToldInv
      <4>4. told'[q] <= asked[s].version
        BY <1>2, <1>4, <2>1, <3>3, <4>3
      <4>5. cached'[q].version = asked[s].version
        BY <1>7, <1>8, <3>3
      <4>6. told'[q] \in Nat
        BY <1>9 DEF PagesTypes
      <4>7. QED BY <1>4, <4>2, <4>4, <4>5, <4>6 DEF UpToDate
    <3>4. CASE q = "room" /\ asked[s].page # "room"
      <4>1. q \notin tells /\ q \notin Invalidated
        BY <3>4 DEF Invalidated
      <4>2. told'[q] = told[q] /\ cached'[q] = cached[q]
        BY <1>2, <1>7, <3>4, <4>1, StaledOnly
      <4>3. fetching'[q] = fetching[q]
        BY <1>1, <4>1 DEF Refetching
      <4>4. QED BY <1>1, <3>1, <4>1, <4>2, <4>3 DEF UpToDate
    <3>5. QED BY <3>2, <3>3, <3>4 DEF RoomQueries, Invalidated
  <2>6. QED BY <2>2, <2>4, <2>5 DEF ToldInv
<1>12. QED BY <1>9, <1>10, <1>11

LEMMA EnterArrivesStep ==
  ASSUME RoomPagesInv, NEW s \in Slots, EnterArrives(s)
  PROVE  RoomPagesInv'
<1> USE DEF RoomPagesInv
<1>1. UNCHANGED <<theRoom, who, told>> /\ cached' = Staled /\ shown' = "room"
      /\ asked' = [Forgotten EXCEPT ![s] = NoAsk] /\ overlapped \subseteq overlapped'
  BY DEF EnterArrives
<1>2. /\ fetching' = [q \in RoomQueries |-> fetching'[q]]
      /\ \A q \in RoomQueries : \/ fetching'[q] = fetching[q] /\ q # "active"
                                \/ fetching'[q] = [NoFetch EXCEPT !.step = "asked"]
  BY DEF EnterArrives, Fetches
<1>3. /\ asked' = [o \in Slots |-> asked'[o]] /\ asked'[s] = NoAsk
      /\ \A o \in Slots \ {s} : asked'[o] = Forgotten[o]
  BY <1>1 DEF Forgotten
<1>4. cached' = [q \in RoomQueries |-> cached'[q]]
  BY <1>1 DEF Staled
<1>5. PagesTypes'
  <2>1. \A o \in Slots : asked'[o] \in AskTypes
    BY <1>3, NoAskFits, ForgetsOnly
  <2>2. \A q \in RoomQueries : cached'[q] \in CachedRooms(q) /\ fetching'[q] \in RoomFetches(q)
    BY <1>1, <1>2, StaledOnly, AskedFetch DEF PagesTypes
  <2>3. QED BY <1>1, <1>2, <1>3, <1>4, <2>1, <2>2 DEF PagesTypes, CachedRooms, RoomFetches, RoomPageNames
<1>6. AllFit'
  <2>1. \A o \in Slots : AskFits(asked[o])'
    BY <1>1, <1>3, NoAskFits, ForgetsOnly DEF AskFits, OwnsRoom
  <2>2. \A q \in RoomQueries : Fits(q, Staled[q]) /\ (fetching[q].step = "read" => Fits(q, fetching[q]))
    BY StaledOnly DEF AllFit, Fits
  <2>3. \A q \in RoomQueries : fetching'[q].step = "read" => Fits(q, fetching'[q])
    BY <1>2, <2>2, AskedFetch
  <2>4. QED BY <1>1, <2>1, <2>2, <2>3 DEF AllFit, Fits, MemberOfRoom, OwnsRoom, Listed
<1>7. ToldInv'
  <2>1. ASSUME NEW q \in RoomQueries, UpToDate(q) PROVE UpToDate(q)'
    <3>1. CASE fetching'[q].step = "asked"
      BY <3>1 DEF UpToDate
    <3>2. CASE fetching'[q] = fetching[q] /\ q # "active"
      <4>1. q \in Invalidated \ QueriesOf(shown) => q \in Invalidated \ QueriesOf("room") /\ ~Staled[q].fresh
        BY <3>2, StaledOnly DEF Invalidated, QueriesOf
      <4>2. QED BY <1>1, <2>1, <3>2, <4>1, StaledOnly DEF UpToDate
    <3>3. QED BY <1>2, <3>1, <3>2, AskedFetch
  <2>2. \A o \in Slots : asked'[o].step = "answered" =>
           asked[o].step = "answered" /\ asked'[o].version = asked[o].version
    BY <1>3, NoAskFits, ForgetsOnly
  <2>3. QED BY <1>1, <2>1, <2>2 DEF ToldInv
<1>8. QED BY <1>5, <1>6, <1>7

LEMMA RoomPagesStep == RoomPagesInv /\ [RoomPagesNext]_roomPageVars => RoomPagesInv'
<1> SUFFICES ASSUME RoomPagesInv, [RoomPagesNext]_roomPageVars PROVE RoomPagesInv'
  OBVIOUS
<1>1. CASE \E page \in {"dashboard", "room", "join"} : VisitPage(page)
  BY <1>1, VisitStep DEF RoomPageNames
<1>2. CASE \E q \in RoomQueries : Ages(q) \/ FetchReads(q) \/ FetchArrives(q)
  BY <1>2, QueryStep
<1>3. CASE \E s \in Slots : \/ \E ask \in {"start", "end", "join"} : Asks(s, ask)
                            \/ \E ask \in {"start", "end"} : OthersAsk(s, ask)
  BY <1>3, AsksStep DEF AskNames
<1>4. CASE \E s \in Slots : SetChecks(s) \/ SetWrites(s) \/ Enters(s)
  BY <1>4, SetStep
<1>5. CASE \E s \in Slots : SetArrives(s) \/ EnterArrives(s)
  BY <1>5, SetArrivesStep, EnterArrivesStep
<1>6. CASE UNCHANGED roomPageVars
  BY <1>6 DEF roomPageVars, RoomPagesInv, PagesTypes, CachedRooms, RoomFetches, AllFit, Fits, AskFits,
              OwnsRoom, MemberOfRoom, Listed, ToldInv, UpToDate
<1>7. QED BY <1>1, <1>2, <1>3, <1>4, <1>5, <1>6 DEF RoomPagesNext

LEMMA RightOfInv == RoomPagesInv => RoomPagesRight
<1> USE DEF RoomPagesInv
<1> SUFFICES ASSUME RoomPagesInv, NEW q \in RoomQueries, AtRestShowing(q)
             PROVE  /\ q \notin overlapped => cached[q].version >= told[q]
                    /\ cached[q].version = theRoom.version =>
                       /\ q = "room" => \A ask \in RoomOffers : RoomAccepts(ask)
                       /\ q = "list" => \A ask \in RoomRow : RoomAccepts(ask)
                       /\ q = "active" => \A ask \in LiveRoomLink : RoomAccepts(ask)
                       /\ q = "room" /\ cached[q].state # "refused" =>
                             {ask \in {"start", "end", "send"} :
                                RoomAccepts(ask) /\ (ask \in {"start", "end"} => theRoom.state # TargetOf(ask))}
                             \subseteq RoomOffers
  BY DEF RoomPagesRight
<1>1. q \notin overlapped => cached[q].version >= told[q]
  BY DEF ToldInv, UpToDate, AtRestShowing
<1>2. /\ cached[q].state \in Answers(q) /\ theRoom.state \in RoomStates
      /\ cached[q].state # Unread /\ Fits(q, cached[q])
  BY DEF PagesTypes, CachedRooms, AtRestShowing, AllFit
<1>3. ASSUME cached[q].version = theRoom.version, q = "room"
      PROVE  /\ \A ask \in RoomOffers : RoomAccepts(ask)
             /\ cached[q].state # "refused" =>
                   {ask \in {"start", "end", "send"} :
                      RoomAccepts(ask) /\ (ask \in {"start", "end"} => theRoom.state # TargetOf(ask))}
                   \subseteq RoomOffers
  <2>1. CASE cached["room"].state = "refused"
    BY <1>3, <2>1 DEF RoomOffers
  <2>2. CASE cached["room"].state # "refused"
    <3>1. MemberOfRoom /\ cached["room"].state = theRoom.state /\ theRoom.state # Unread
      BY <1>2, <1>3, <2>2 DEF Fits, Answers, Elsewhere
    <3>2. \A ask \in RoomOffers : RoomAccepts(ask)
      BY <1>2, <3>1 DEF RoomOffers, RoomAccepts, TargetOf, MayBecome, RoomStates
    <3>3. ASSUME NEW ask \in {"start", "end", "send"}, RoomAccepts(ask),
                 ask \in {"start", "end"} => theRoom.state # TargetOf(ask)
          PROVE  ask \in RoomOffers
      BY <1>2, <2>2, <3>1, <3>3 DEF RoomOffers, RoomAccepts, TargetOf, MayBecome, RoomStates
    <3>4. QED BY <3>2, <3>3
  <2>3. QED BY <2>1, <2>2
<1>4. ASSUME cached[q].version = theRoom.version, q = "list"
      PROVE  \A ask \in RoomRow : RoomAccepts(ask)
  <2>1. CASE cached["list"].state = "absent"
    BY <2>1 DEF RoomRow
  <2>2. CASE cached["list"].state # "absent"
    <3>1. Listed /\ cached["list"].state = theRoom.state
      BY <1>2, <1>4, <2>2 DEF Fits, Answers, Elsewhere
    <3>2. QED BY <1>2, <3>1 DEF RoomRow, RoomAccepts, TargetOf, MayBecome, RoomStates, Listed,
                                MemberOfRoom, OwnsRoom
  <2>3. QED BY <2>1, <2>2
<1>5. ASSUME q = "active"
      PROVE  \A ask \in LiveRoomLink : RoomAccepts(ask)
  <2>1. cached["active"].state = "active" => Listed
    BY <1>2, <1>5 DEF Fits, RoomStates
  <2>2. QED BY <2>1 DEF LiveRoomLink, RoomAccepts, Listed, MemberOfRoom, OwnsRoom
<1>6. QED BY <1>1, <1>3, <1>4, <1>5

\* What a page shows at rest of a room, and what it offers there, is right: for any number
\* of requests, visits and changes by others (Room.tsx, RoomsTable.tsx; rooms.service.ts).
THEOREM RoomPagesRightHolds == RoomPagesSpec => []RoomPagesRight
<1>1. RoomPagesInit => RoomPagesInv
  BY RoomPagesInitHolds
<1>2. RoomPagesInv /\ [RoomPagesNext]_roomPageVars => RoomPagesInv'
  BY RoomPagesStep
<1>3. RoomPagesInv => RoomPagesRight
  BY RightOfInv
<1>4. QED BY <1>1, <1>2, <1>3, PTL DEF RoomPagesSpec

=============================================================================
