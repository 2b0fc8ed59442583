\* One device changes passwords, enables the vault, recovers and dies; relays act on deletion requests.
SPECIFICATION ReplicatedSpec
CONSTANTS
  r1 = r1  r2 = r2  r3 = r3
  p0 = p0  p1 = p1  p2 = p2
  a0 = a0  a1 = a1
  c1 = c1  c2 = c2
  s1 = s1  s2 = s2
  NoEvent = NoEvent
  Relay <- ThreeRelays
  Nip09Relay <- ThreeRelays
  MinAcks = 2
  MinReadbacks = 2
  Client = {c1}
  Store = {s1}
  StoreOf <- OnlyStore
  Password = {p0, p1, p2}
  Account = {a0}
  Clock = {1}
  Skewed = TRUE
  Registered <- LegacyRegistered
  Ops = {"enable", "change", "recover", "complete", "export", "crash"}
  MaxWrites = 2
  Acknowledge = {FALSE}
  Reuse = FALSE
SYMMETRY RelaySymmetry
INVARIANTS
  OneVaultRoot
  NeverLockedOut
CHECK_DEADLOCK FALSE
