CONSTANTS
  Threads = {t1}
  WowTeb <- MCWowTeb
  Contexts <- MCContexts
  GuestSteps <- MCGuestSteps
  MaxCalls = 2
SPECIFICATION Spec
INVARIANT
  TypeOK
PROPERTY
  ContextRoundTrip
