-------------------------- MODULE MCContestPlaces --------------------------
(* ContestPlaces for TLC: constants and symmetry.                           *)
EXTENDS ContestPlaces, TLC

CONSTANTS u1, u2, k1, k2

MCUsers == {u1, u2}
MCCalls == {k1, k2}
MCCapacities == {1, 2}
MCStartTimes == {1, 2}

Symmetry == Permutations(Users) \cup Permutations(Calls)

=============================================================================
