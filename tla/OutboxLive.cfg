SPECIFICATION FairSpec
CONSTANTS
  answer = answer
  hook = hook
  handoff = handoff
  Delivery = {hook, handoff}
  Transport <- MCTransport
  Contracted = {hook}
  MaxAttempts = 2
  ClaimLimit = 1
  MaxRestarts = 2
  DbFaults = FALSE
INVARIANTS
  AttemptBudget
PROPERTIES
  EventuallySettled
CHECK_DEADLOCK FALSE
