----------------------------- MODULE MCFieldSync -----------------------------
(* Instances of FieldSync for TLC. *)
EXTENDS FieldSync, TLC

CONSTANTS p1, p2, c1, g1, g2, h1, sos, s1, k1, t1, r1, r2

(* Two proofs for one consignment. *)
OneTarget == [p \in {p1, p2} |-> s1]
FirstTarget == [p \in {p1} |-> s1]
NoTarget == [p \in {} |-> s1]

(* A report under a deduplication key that other cabs use too. *)
OneKey == [h \in {h1} |-> sos]
NoKey == [h \in {} |-> sos]

OneStop == [c \in {c1} |-> k1]
NoStop == [c \in {} |-> k1]
OneTrip == [k \in {k1} |-> t1]
NoTrip == [k \in {} |-> t1]

(* The exchanges are interchangeable; for runs of safety properties only. *)
SlotSymmetry == Permutations(Slot)
=============================================================================
