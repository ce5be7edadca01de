----------------------------- MODULE MCRoomChat -----------------------------
(***************************************************************************)
(* RoomChat for TLC: the owner, a guest, and the guest's page.  And RoomPin *)
(* and RoomPages, which share nothing with it that any of them changes.    *)
(***************************************************************************)
EXTENDS RoomChat, RoomPin, RoomPages, TLC

CONSTANTS owner, guest, tab, r1, r2, p1, p2, q, other, a1, a2

VARIABLE topic      \* chat, pin or pages; the others stay as they are

UserOfDef == tab :> guest
MaxConnectsDef == tab :> 2
RequestSymmetry == Permutations(Requests) \cup Permutations(Slots)

RoomInit ==
    /\ topic \in {"chat", "pin", "pages"}
    /\ Init /\ PinInit /\ RoomPagesInit
    /\ topic # "pages" => ~who.owns /\ ~who.joined /\ who.role = "candidate" /\ shown = "join"

RoomNext ==
    /\ \/ topic = "chat" /\ Next /\ UNCHANGED <<pinVars, roomPageVars>>
       \/ topic = "pin" /\ PinNext /\ UNCHANGED <<vars, roomPageVars>>
       \/ topic = "pages" /\ RoomPagesNext /\ UNCHANGED <<vars, pinVars>>
    /\ UNCHANGED topic

RoomSpec == RoomInit /\ [][RoomNext]_<<vars, pinVars, roomPageVars, topic>>

=============================================================================
