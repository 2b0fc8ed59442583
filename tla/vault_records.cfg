\* One device lists and edits connections, fails, dies and tries again.
SPECIFICATION Spec
CONSTANTS
  r1 = r1  r2 = r2  r3 = r3  r4 = r4
  k1 = k1  k2 = k2
  c1 = c1  c2 = c2  s1 = s1
  NoEvent = NoEvent
  Relay <- ThreeRelays
  Nip09Relay <- ThreeRelays
  MinAcks = 2
  MinReadbacks = 2
  Client = {c1}
  Store = {s1}
  StoreOf <- OnlyStore
  Writer = {c1}
  Conn = {k1, k2}
  Saved = {k1}
  Clock = {1}
  MaxEdits = 3
SYMMETRY RelaySymmetry
INVARIANTS
  TypeOK
  LastEditDurable
  EditsFollowTheirRead
PROPERTIES
  NeverShownStale
  QuorumReadsEveryEdit
CHECK_DEADLOCK FALSE
