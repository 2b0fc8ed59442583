\* A QR code and a pasted address, a signature request and a logout.
SPECIFICATION Spec
CONSTANTS
  s1 = s1  s2 = s2  p1 = p1  p2 = p2  q1 = q1
  None = None
  Scan = {s1}
  Paste = {p1}
  Request = {q1}
PROPERTIES
  OnlyTheCurrentSigns
CHECK_DEADLOCK FALSE
