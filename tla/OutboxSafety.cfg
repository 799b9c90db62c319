SPECIFICATION Spec
CONSTANTS
  answer = answer
  hook = hook
  handoff = handoff
  Delivery = {answer, hook}
  Transport <- MCTransport
  Contracted = {hook}
  MaxAttempts = 2
  ClaimLimit = 1
  MaxRestarts = 1
  DbFaults = TRUE
INVARIANTS
  TypeOK
  OneLiveAttempt
  NoSilentDuplicate
PROPERTIES
  EffectUnderPolicy
  PromiseKept
CHECK_DEADLOCK FALSE
