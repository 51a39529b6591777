------------------------------- MODULE MCTracking -------------------------------
(* Instances of Tracking for TLC. *)
EXTENDS Tracking, TLC

CONSTANTS own, other, r1, r2

Alike == Permutations(Request)
=============================================================================
