SPECIFICATION Spec
CONSTANTS
  Repo = {repo}
  Board = {board}
  Content = {was, is}
  Blank = blank
  MaxMutations = 2
  MaxFaults = 1
INVARIANTS
  TypeOK
  OneRowPerRecord
  EveryWriteIsOnRecord
  CompletedIsShown
  StaleOnlyIfRaced
  StrandedByFaults
CHECK_DEADLOCK FALSE
