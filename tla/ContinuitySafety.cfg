SPECIFICATION FairSpec
CONSTANTS
  a = a
  b = b
  branching = branching
  single = single
  cyclic = cyclic
  End = End
  None = None
  Receipt = {r1, r2}
  Node = {a, b}
  Revision = {branching, single, cyclic}
  Drawing <- MCDrawing
  Workers = 1
  MaxCrashes = 1
INVARIANTS
  TypeOK
  PathOfProgram
  RepeatsAreInterrupted
  LateActs
  NothingProposedIsLost
PROPERTIES
  Ends
CHECK_DEADLOCK FALSE
