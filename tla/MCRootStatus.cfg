\* The search gives up, and the exit status is that of the last evaluation.
SPECIFICATION Spec
CONSTANTS
  Data <- MCData
  Empty <- MCEmpty
  Partial <- MCPartial
  Num <- MCNum
  Zero = 0
  Atof <- MCAtof
  Fmt <- MCFmt
  Absent = Absent
  NumGuesses = 2
  Inputs = {0, 1}
  Pid = {1}
  FailCodes = {1}
  Stops = FALSE
  ShortTransfers = FALSE
  PidsCollide = FALSE
  MaxIter = 2
INVARIANT SucceedsWithRoot
