---------------------------- MODULE OneFinalizer ----------------------------
(***************************************************************************)
(* What the lease of FinalizeService promises, seen from outside: at any   *)
(* time at most one server owns a contest that is due, a server may lose   *)
(* it to another or give up, only the owner closes it, and it is closed    *)
(* once.  Module Finalize implements it with a time in the contest         *)
(* document that serves both as the lease and as the owner's token.        *)
(***************************************************************************)
CONSTANTS Servers, NoOne

VARIABLES owner, closed

ownership == <<owner, closed>>

Init == owner = NoOne /\ closed = FALSE

\* A server takes the contest, from no one or from an owner that is too slow.
Take(s) == ~closed /\ owner' = s /\ UNCHANGED closed

\* The owner gives up or dies.
Lose == owner # NoOne /\ owner' = NoOne /\ UNCHANGED closed

\* Only the owner closes the contest.
Finish(s) == ~closed /\ owner = s /\ owner' = NoOne /\ closed' = TRUE

Next == Lose \/ \E s \in Servers : Take(s) \/ Finish(s)

Spec == Init /\ [][Next]_ownership

=============================================================================
