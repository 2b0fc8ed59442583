\* Two devices change passwords and log in at the same time.
SPECIFICATION ReplicatedSpec
CONSTANTS
  r1 = r1  r2 = r2  r3 = r3
  p0 = p0  p1 = p1  p2 = p2
  a0 = a0  a1 = a1
  c1 = c1  c2 = c2
  s1 = s1  s2 = s2
  NoEvent = NoEvent
  Relay <- ThreeRelays
  Nip09Relay = {}
  MinAcks = 2
  MinReadbacks = 2
  Client = {c1, c2}
  Store = {s1, s2}
  StoreOf <- OneStoreEach
  Password = {p0, p1, p2}
  Account = {a0}
  Clock = {1}
  Skewed = TRUE
  Registered <- OneRegistered
  Ops = {"login", "change"}
  MaxWrites = 2
  Acknowledge = {FALSE, TRUE}
  Reuse = FALSE
SYMMETRY DeviceSymmetry
INVARIANTS
  NeverLockedOut
  SuccessorDurable
  RetiredStaysRetired
PROPERTIES
  MarkOnlyRises
CHECK_DEADLOCK FALSE
