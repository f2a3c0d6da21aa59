\* Stopped commands and recycled process ids: what still holds of the files.
SPECIFICATION Spec
CONSTANTS
  Data <- MCData2
  Empty <- MCEmpty
  Partial <- MCPartial2
  Absent = Absent
  Inputs = {0}
  Pid = {1, 2}
  FailCodes = {1}
  Stops = TRUE
  PidsCollide = TRUE
  ShortTransfers = TRUE
  MaxRuns = 4
  MaxNum = 3
INVARIANTS
  FilesInTheEnd
PROPERTIES
  UserInputKept
