------------------------- MODULE MCWorkerSession -------------------------
(* Instances of WorkerSession for TLC. *)
EXTENDS WorkerSession

CONSTANTS t1, t2, alice, bob
=============================================================================
