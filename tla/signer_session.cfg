\* Two QR codes, two pasted addresses and a signature request, in every order.
SPECIFICATION Spec
CONSTANTS
  s1 = s1  s2 = s2  p1 = p1  p2 = p2  q1 = q1
  None = None
  Scan = {s1, s2}
  Paste = {p1, p2}
  Request = {q1}
INVARIANTS
  TypeOK
  NoOrphanKey
  OwnKeyIntact
  OneClient
PROPERTIES
  OnlyTheCurrentIsAnswered
  EveryLegEnds
CHECK_DEADLOCK FALSE
