---------------------------- MODULE MCAlertDispatch ----------------------------
(* Instances of AlertDispatch for TLC. *)
EXTENDS AlertDispatch, TLC

CONSTANTS a1, a2, k1, m1, r1

Alike == Permutations(Alert)
=============================================================================
