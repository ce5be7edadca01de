----------------------------- MODULE MCSessions -----------------------------
(***************************************************************************)
(* Sessions for TLC: model values for the tabs.                            *)
(***************************************************************************)
EXTENDS Sessions

CONSTANTS t1, t2

=============================================================================
