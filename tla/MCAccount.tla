----------------------------- MODULE MCAccount -----------------------------
(* Instances of Account for TLC. *)
EXTENDS Account, TLC

CONSTANTS r1, r2, r3, p0, p1, p2, a0, a1, c1, c2, s1, s2

ThreeRelays == {r1, r2, r3}
RelaySymmetry == Permutations(Relay)

\* Two clients with a store each are interchangeable, and so are
\* the passwords nobody uses yet.
SwapClients ==
  [x \in {c1, c2, s1, s2} |-> CASE x = c1 -> c2 [] x = c2 -> c1 [] x = s1 -> s2 [] x = s2 -> s1]

DeviceSymmetry == RelaySymmetry \cup Permutations({p1, p2}) \cup {SwapClients}

OneStoreEach == (c1 :> s1) @@ (c2 :> s2)
OnlyStore    == c1 :> s1
SharedStore  == (c1 :> s1) @@ (c2 :> s1)

OneRegistered    == {[acct |-> a0, addr |-> p0, root |-> "minted"]}
LegacyRegistered == {[acct |-> a0, addr |-> p0, root |-> "none"]}

\* Every relay has everything to begin with.
ReplicatedInit == Init /\ \A r \in Relay : held[r] = sent
ReplicatedSpec == ReplicatedInit /\ [][Next]_vars
=============================================================================
