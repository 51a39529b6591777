-------------------------- MODULE MCEmergencyMissions --------------------------
(* Instances of EmergencyMissions for TLC. *)
EXTENDS EmergencyMissions, TLC

CONSTANTS o1, o2, r1, r2, i1, i2, m1, m2

Symmetric == Permutations({o1, o2}) \cup Permutations({r1, r2})
=============================================================================
