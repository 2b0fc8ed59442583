\* A connection used for a publish, a query and a live subscription, closed, and used once more.
SPECIFICATION Spec
CONSTANTS
  p1 = p1  q1 = q1  l1 = l1  bye = bye
  Publish = {p1, bye}
  Query = {q1}
  Live = {l1}
  Courtesy = {bye}
  MaxSocket = 3
INVARIANTS
  TypeOK
  OneLiveSocket
  SubscriptionsAgree
  RegistrationsHaveOwners
PROPERTIES
  SilenceIsNoAnswer
  EveryCallEnds
CHECK_DEADLOCK FALSE
