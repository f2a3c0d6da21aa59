\* Agents and children inherited from elsewhere that exit or are killed.
SPECIFICATION FairSpec
CONSTANTS
  Pid = {1, 2, 3}
  Codes = {0, 1, 2}
  Kills = TRUE
  MaxNum = 3
INVARIANTS
  StatusOfLastRun
  RunsAll
  NoOverlap
PROPERTY
  Terminates
