SPECIFICATION FairSpec
CONSTANTS
  call = call
  stray = stray
  contracted = contracted
  Receipt = {call, contracted}
  Decision <- MCDecision
  Contracted = {contracted}
  Waiting = {call, contracted}
  Inline = {call}
  Correlation <- MCCorrelation
  Destination = {}
  Job = {j1, j2}
  MaxRestarts = 1
  MaxRuns = 6
  Drops = TRUE
  DbFaults = FALSE
PROPERTIES
  NothingForgotten
  AuthorityDecides
CHECK_DEADLOCK FALSE
