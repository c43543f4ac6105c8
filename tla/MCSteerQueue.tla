---------------------------- MODULE MCSteerQueue ----------------------------
(* Instances of SteerQueue small enough for TLC. *)
EXTENDS SteerQueue

CONSTANTS t1, t2, w1, w2, w3, w4

OneThread  == [w \in Words |-> t1]
TwoThreads == [w \in Words |-> IF w \in {w1, w2} THEN t1 ELSE t2]
=============================================================================
