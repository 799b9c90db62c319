SPECIFICATION Spec
CONSTANTS
  Repo = {repo}
  Board = {board}
  Content = {was, is}
  Blank = blank
  MaxMutations = 2
  MaxFaults = 1
INVARIANTS
  CompletedIsCurrent
CHECK_DEADLOCK FALSE
