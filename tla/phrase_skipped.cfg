\* One account; a wallet question asked while its phrase is shown.
SPECIFICATION Spec
CONSTANTS
  alice = alice  bob = bob
  Ident = {alice}
  Extension = extension
  None = none
  MaxCalls = 1
  MaxEvents = 1
INVARIANTS
  PhraseBeforeDashboard
CHECK_DEADLOCK FALSE
