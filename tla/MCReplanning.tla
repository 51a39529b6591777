----------------------------- MODULE MCReplanning -----------------------------
(* Instances of Replanning for TLC. *)
EXTENDS Replanning, TLC

CONSTANTS x, y, d1, d2, d3

Users == Permutations(Request) \cup Permutations(Proposal)
=============================================================================
