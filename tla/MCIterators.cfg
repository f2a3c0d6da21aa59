\* Fresh process ids, no stops: what the tools guarantee.
SPECIFICATION FairSpec
CONSTANTS
  Data <- MCData
  Empty <- MCEmpty
  Partial <- MCPartial
  Absent = Absent
  Inputs = {0}
  Pid = {1, 2}
  FailCodes = {1, 2}
  Stops = FALSE
  PidsCollide = FALSE
  ShortTransfers = TRUE
  MaxRuns = 4
  MaxNum = 4
INVARIANTS
  FixedPoint
  PrintsIterate
  InputInPlace
PROPERTIES
  Implements
  Terminates
