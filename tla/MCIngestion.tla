------------------------------- MODULE MCIngestion -------------------------------
(* Instances of Ingestion for TLC. *)
EXTENDS Ingestion, TLC

CONSTANTS bro, r1, r2, a, b, bad, k1, k2

(* Two reports of one key, and one that fails validation.                  *)
Reports == [i \in {a, b, bad} |-> IF i = bad THEN k2 ELSE k1]
Payloads == {{a}, {a, b, bad}, {bad}}
=============================================================================
