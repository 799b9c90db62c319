SPECIFICATION Spec
CONSTANTS
  h1 = h1
  h2 = h2
  m = m
  w = w
  socket = socket
  shared = shared
  its = its
  Call = {h1, h2, m, w}
  Kind <- MCKind
  Socket = {socket}
  On <- MCOn
  Correlation = {shared, its}
  Cor <- MCCor
  Contracted = {h1, h2, w}
  Casts = {{h1, h2, m}, {h1, w}, {h2, w}, {m, w}}
  None = none
  MaxFaults = 2
INVARIANTS
  TypeOK
  AnsweredOnce
  IdComesBack
PROPERTIES
  GoneIfNobodyWaits
CHECK_DEADLOCK FALSE
SYMMETRY Symmetry
