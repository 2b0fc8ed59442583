\* One account and an extension; the restore of a page load answers late.
SPECIFICATION Spec
CONSTANTS
  alice = alice  bob = bob
  Ident = {alice}
  Extension = extension
  None = none
  MaxCalls = 2
  MaxEvents = 0
INVARIANTS
  ShownSigns
CHECK_DEADLOCK FALSE
