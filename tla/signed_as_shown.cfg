\* A QR code and a pasted address, both answered.
SPECIFICATION Spec
CONSTANTS
  s1 = s1  s2 = s2  p1 = p1  p2 = p2  q1 = q1
  None = None
  Scan = {s1}
  Paste = {p1}
  Request = {q1}
INVARIANTS
  SignedAsShown
CHECK_DEADLOCK FALSE
