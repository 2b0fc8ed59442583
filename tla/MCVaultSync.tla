---------------------------- MODULE MCVaultSync ----------------------------
(* Instances of VaultSync for TLC. *)
EXTENDS VaultSync, TLC

CONSTANTS r1, r2, r3, r4, k1, k2, c1, c2, s1

ThreeRelays   == {r1, r2, r3}
FourRelays    == {r1, r2, r3, r4}
RelaySymmetry == Permutations(Relay)

OnlyStore     == c1 :> s1
SharedStore   == (c1 :> s1) @@ (c2 :> s1)

\* Two tabs with one store are interchangeable.
TabSymmetry   == RelaySymmetry \cup {(c1 :> c2) @@ (c2 :> c1)}

\* What was listed is never read again.
WithoutShown  == <<sent, held, mark, legacy, job, confirmed>>

\* Every relay has everything to begin with, and no store has marks of an earlier version.
ReplicatedInit ==
  /\ Init
  /\ \A r \in Relay : held[r] = sent
  /\ \A s \in Store, k \in Conn : legacy[s][k] = NoEvent
ReplicatedSpec == ReplicatedInit /\ [][Next]_vars
=============================================================================
