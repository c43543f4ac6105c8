--------------------------- MODULE MCChannelQueue ---------------------------
(* Instances of ChannelQueue small enough for TLC. *)
EXTENDS ChannelQueue

CONSTANTS t1, t2, w1, w2, w3

OneThread  == [w \in Words |-> t1]
TwoThreads == [w \in Words |-> IF w = w3 THEN t2 ELSE t1]
=============================================================================
