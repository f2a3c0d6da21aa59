\* Agents that exit or are killed, with process ids used again.
SPECIFICATION Spec
CONSTANTS
  Pid = {1, 2, 3, 4}
  Codes = {0, 1}
  Kills = TRUE
  N = 3
INVARIANTS
  TypeOK
  AllTracked
  PoolSize
