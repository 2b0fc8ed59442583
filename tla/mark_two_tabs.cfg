\* Two tabs of a browser raise the generation mark of an account at once.
SPECIFICATION ReplicatedSpec
CONSTANTS
  r1 = r1  r2 = r2  r3 = r3
  p0 = p0  p1 = p1  p2 = p2
  a0 = a0  a1 = a1
  c1 = c1  c2 = c2
  s1 = s1  s2 = s2
  NoEvent = NoEvent
  Relay <- ThreeRelays
  Nip09Relay = {}
  MinAcks = 2
  MinReadbacks = 2
  Client = {c1, c2}
  Store = {s1}
  StoreOf <- SharedStore
  Password = {p0, p1, p2}
  Account = {a0}
  Clock = {1}
  Skewed = TRUE
  Registered <- OneRegistered
  Ops = {"login", "change"}
  MaxWrites = 1
  Acknowledge = {FALSE}
  Reuse = FALSE
SYMMETRY RelaySymmetry
PROPERTIES
  MarkOnlyRises
CHECK_DEADLOCK FALSE
