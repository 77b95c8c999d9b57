SPECIFICATION Spec
CONSTANTS
  Requests = {r1, r2, r3}
  NoRequest = NoRequest
  Ttl = 4
  ResendWait = 2
  MaxAttempts = 2
  DeliveryTime = 1
  MaxTime = 9
  MaxRestarts = 1
INVARIANTS
  CodeUsedOnce
  CodeFresh
  AttemptsHonoured
  PromisedCodeWorks
PROPERTIES
  ImplementsCode
SYMMETRY Symmetry
CHECK_DEADLOCK FALSE
