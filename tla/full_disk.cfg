\* One tab and one call: a login whose storage never settles, or a call like it.
SPECIFICATION Spec
CONSTANTS
  t1 = t1  t2 = t2  alice = alice  bob = bob
  None = None
  Tab = {t1}
  Ident = {alice}
  Earlier = {}
  MaxCalls = 1
  MaxFaults = 1
PROPERTIES
  SavingBreaksNoCall
CHECK_DEADLOCK FALSE
