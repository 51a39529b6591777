---------------------------- MODULE MCTripLifecycle ----------------------------
(* Instances of TripLifecycle for TLC. *)
EXTENDS TripLifecycle, TLC

CONSTANTS s1, s2, v1, d1, t1, t2, j1, j2

Alike == Permutations(Shipment) \cup Permutations(Trip) \cup Permutations(Job)
=============================================================================
