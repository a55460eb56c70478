SPECIFICATION FairSpec
CONSTANTS
  Types = {"m", "q"}
  Names = {"m", "q", "x"}
  Invokers = {"i1", "i2"}
  Settings <- MCSettings
  Waits = {"i1"}
  None = "none"
  KillAt = {"sendPid"}
  MaxPid = 4
  MaxDaemons = 2
  Backlog = 1
INVARIANTS TypeOK OnlyOwnListener ServedByItsType NoServiceFromTheDead
PROPERTIES QueuedMovesOn
CHECK_DEADLOCK FALSE
