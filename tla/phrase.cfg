\* One device registers, recovers, fails, dies and tries again.
SPECIFICATION FairSpec
CONSTANTS
  r1 = r1  r2 = r2  r3 = r3
  p0 = p0  p1 = p1  p2 = p2
  a0 = a0  a1 = a1
  c1 = c1  c2 = c2
  s1 = s1  s2 = s2
  NoEvent = NoEvent
  Relay <- ThreeRelays
  Nip09Relay = {}
  MinAcks = 2
  MinReadbacks = 2
  Client = {c1}
  Store = {s1}
  StoreOf <- OnlyStore
  Password = {p0, p1}
  Account = {a0, a1}
  Clock = {1, 2}
  Skewed = FALSE
  Registered <- OneRegistered
  Ops = {"register", "recover", "complete", "crash"}
  MaxWrites = 2
  Acknowledge = {FALSE}
  Reuse = FALSE
INVARIANTS
  TypeOK
  RecoveryBeforeCredential
  AddressHasOneOwner
  NoRecoverySiblings
PROPERTIES
  EveryFlowEnds
CHECK_DEADLOCK FALSE
