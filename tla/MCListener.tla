------------------------------ MODULE MCListener ------------------------------
(* Listener on three keys in batches of two.                               *)
EXTENDS Listener, TLC

CONSTANTS k1, k2, k3, r1, r2

MCKeyOf   == [r \in Requests |-> IF r = r1 THEN k1 ELSE k2]
MCAheadOf == [r \in Requests |-> IF r = r1 THEN 2 ELSE -1]
=============================================================================
