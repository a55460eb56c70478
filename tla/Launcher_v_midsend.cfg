SPECIFICATION FairSpec
CONSTANTS
  Types = {"m"}
  Nul = "nul"
  Junk = "junk"
  Invokers = {"i1"}
  NoWait = {}
  NoInvoker = "0"
  Garbage = "garbage"
  WordBytes = 4
  MaxPid = 4
  Signals = {"TERM"}
  KillAt = {"sendPid"}
  MaxKills = 1
  MaxUsr1 = 0
  TermDaemon = FALSE
  BootMode = FALSE
PROPERTIES WaitingAgain
CHECK_DEADLOCK FALSE
