SPECIFICATION FairSpec
CONSTANTS
  s1 = s1
  s2 = s2
  Sending = {s1, s2}
  None = none
  NaN = nan
  other = other
  Request <- MCRequest
  MaySend <- MCMaySend
  Limits = {2, 0}
  EventLimits = {1, 3}
  GithubSecret = github
  HandoffSecret = handoff
  Keys = {handoff, other, none}
  DigestSize = 2
  Sha <- MCSha
  Mac <- MCMac
  Json <- MCJson
  PerSecond = 2
  Skew = 1
  MaxAge = 1
  MaxTime = 3
  MaxFaults = 1
CHECK_DEADLOCK FALSE
INVARIANTS
  TypeOK
  AckIsDurable
  OneFirst
  OnlyVettedStored
  StatusIsEarned
PROPERTIES
  AckPromise
  AcceptedUnlessTroubled
