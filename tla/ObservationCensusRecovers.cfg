SPECIFICATION FairSpec
CONSTANTS
  a = a
  b = b
  c = c
  Repo = {1, 2}
  Name = {a, b, c}
  Names <- MCNames
  None = none
  PageSize = 1
  MaxEvents = 2
  MaxFaults = 0
PROPERTIES
  CensusRecovers
