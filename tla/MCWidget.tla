------------------------------- MODULE MCWidget -------------------------------
(* Instances of Widget for TLC. *)
EXTENDS Widget, TLC

CONSTANTS alice, bob

Accounts == Permutations({alice, bob})
=============================================================================
