----------------------------- MODULE MCFinalize -----------------------------
(* Finalize for TLC: constants and symmetry.                                *)
EXTENDS Finalize

CONSTANTS e1, e2, s1, s2

OneEntrant == {e1}
TwoEntrants == {e1, e2}
MCServers == {s1, s2}

Symmetry == Permutations(Entrants) \cup Permutations(Servers)

=============================================================================
