\* Fresh process ids, no stops, and a numeral that "%g" does not print in full.
SPECIFICATION FairSpec
CONSTANTS
  Data <- MCData
  Empty <- MCEmpty
  Partial <- MCPartial
  Num <- MCNum
  Zero = 0
  Atof <- MCAtof
  Fmt <- MCFmt
  Absent = Absent
  NumGuesses = 2
  Inputs = {0, 1}
  Pid = {1}
  FailCodes = {1}
  Stops = FALSE
  ShortTransfers = FALSE
  PidsCollide = FALSE
  MaxIter = 2
INVARIANTS
  PrintsRoot
  InputMatches
PROPERTY
  Terminates
