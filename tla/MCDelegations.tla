---------------------------- MODULE MCDelegations ----------------------------
(* Instances of Delegations small enough for TLC. *)
EXTENDS Delegations

CONSTANTS ana, ben
=============================================================================
