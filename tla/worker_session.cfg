\* Two tabs of one origin, one identity, three calls in any order.
SPECIFICATION Spec
CONSTANTS
  t1 = t1  t2 = t2  alice = alice  bob = bob
  None = None
  Tab = {t1, t2}
  Ident = {alice}
  Earlier = {alice}
  MaxCalls = 3
  MaxFaults = 1
INVARIANTS
  TypeOK
  PageAgrees
  UnlockedIsSaved
  LoggedOutStaysOut
  RecordReadable
PROPERTIES
  ServesInOrder
  EveryCallEnds
CHECK_DEADLOCK FALSE
