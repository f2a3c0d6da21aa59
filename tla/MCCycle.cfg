\* Fresh process ids, no stops: what diag-cycle guarantees.
SPECIFICATION FairSpec
CONSTANTS
  Data <- MCData
  Empty <- MCEmpty
  Partial <- MCPartial
  Hash <- MCHash
  Absent = Absent
  Inputs = {0}
  Pid = {1, 2, 3}
  FailCodes = {1}
  Stops = FALSE
  ShortTransfers = TRUE
  PidsCollide = FALSE
  MaxRuns = 3
INVARIANTS
  LoopFound
  IteratesKept
  IndexComplete
  FilesInTheEnd
PROPERTIES
  Terminates
