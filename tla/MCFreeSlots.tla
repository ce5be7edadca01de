---------------------------- MODULE MCFreeSlots ----------------------------
(* FreeSlots for TLC: a host, an admin, and two months.                   *)
EXTENDS FreeSlots, TLC

CONSTANTS ada, root, c1, c2, k1, k2

MCHosts == {ada, root}
MCAdmins == {root}
MCContests == {c1, c2}
MCCalls == {k1, k2}
MCMonths == {1, 2}
MCMonthOf == [t \in 0 .. MaxTime |-> IF t < 2 THEN 1 ELSE 2]
MCStartTimes == {3}

Symmetry == Permutations(Contests) \cup Permutations(Calls)

=============================================================================
