SPECIFICATION Spec
CONSTANTS
  call = call
  stray = stray
  contracted = contracted
  Receipt = {call, contracted, stray}
  Decision <- MCDecision
  Contracted = {contracted}
  Waiting = {call, contracted}
  Inline = {call}
  Correlation <- MCCorrelation
  Destination = {dest}
  Job = {j1, j2}
  MaxRestarts = 1
  MaxRuns = 2
  Drops = TRUE
  DbFaults = TRUE
SYMMETRY Symmetry
INVARIANTS
  TypeOK
  OneRunAtATime
  EffectsAreOfCompletedRuns
  AnswerIsOwed
CHECK_DEADLOCK FALSE
