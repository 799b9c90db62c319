SPECIFICATION Spec
CONSTANTS
  call = call
  stray = stray
  contracted = contracted
  Receipt = {call, stray}
  Decision <- MCDecision
  Contracted = {}
  Waiting = {call, stray}
  Inline = {call, stray}
  Correlation <- MCCorrelation
  Destination = {}
  Job = {j1, j2}
  MaxRestarts = 1
  MaxRuns = 2
  Drops = FALSE
  DbFaults = FALSE
PROPERTIES
  OldWorkFirst
CHECK_DEADLOCK FALSE
