\* Two tabs of a browser edit one connection at the same time.
SPECIFICATION ReplicatedSpec
CONSTANTS
  r1 = r1  r2 = r2  r3 = r3  r4 = r4
  k1 = k1  k2 = k2
  c1 = c1  c2 = c2  s1 = s1
  NoEvent = NoEvent
  Relay <- ThreeRelays
  Nip09Relay = {}
  MinAcks = 2
  MinReadbacks = 2
  Client = {c1, c2}
  Store = {s1}
  StoreOf <- SharedStore
  Writer = {c1, c2}
  Conn = {k1}
  Saved = {k1}
  Clock = {1}
  MaxEdits = 3
VIEW WithoutShown
SYMMETRY TabSymmetry
INVARIANTS
  EditsFollowTheirRead
CHECK_DEADLOCK FALSE
