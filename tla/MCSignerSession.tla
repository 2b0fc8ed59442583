------------------------- MODULE MCSignerSession -------------------------
(* Instances of SignerSession for TLC. *)
EXTENDS SignerSession

CONSTANTS s1, s2, p1, p2, q1
=============================================================================
