\* Two accounts and an extension, two calls outstanding, two wallet promises or
\* one and a fault.
SPECIFICATION Spec
CONSTANTS
  alice = alice  bob = bob
  Ident = {alice, bob}
  Extension = extension
  None = none
  MaxCalls = 2
  MaxEvents = 2
INVARIANTS
  TypeOK
  PromisesKept
  NoOtherAccountSigns
  AskedFollowsSignIn
  PhraseUnlessAsked
SYMMETRY Accounts
CHECK_DEADLOCK FALSE
