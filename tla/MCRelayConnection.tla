------------------------ MODULE MCRelayConnection ------------------------
(* Instances of RelayConnection for TLC. *)
EXTENDS RelayConnection

CONSTANTS p1, q1, l1, bye
=============================================================================
