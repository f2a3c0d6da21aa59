\* A killed agent is never replaced.
SPECIFICATION Spec
CONSTANTS
  Pid = {1, 2, 3}
  Codes = {0, 1}
  Kills = TRUE
  N = 2
INVARIANT
  KeepsNum
