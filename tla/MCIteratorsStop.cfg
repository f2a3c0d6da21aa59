\* A stopped command is taken for one that succeeded.
SPECIFICATION Spec
CONSTANTS
  Data <- MCData
  Empty <- MCEmpty
  Partial <- MCPartial
  Absent = Absent
  Inputs = {0}
  Pid = {1, 2}
  FailCodes = {1}
  Stops = TRUE
  PidsCollide = FALSE
  ShortTransfers = FALSE
  MaxRuns = 3
  MaxNum = 2
INVARIANT FixedPoint
