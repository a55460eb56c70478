SPECIFICATION FairSpec
CONSTANTS
  Types = {"m", "q"}
  Nul = "nul"
  Junk = "junk"
  Invokers = {"i1", "i2"}
  NoWait = {}
  NoInvoker = "0"
  Garbage = "garbage"
  WordBytes = 2
  MaxPid = 7
  Signals = {"TERM"}
  KillAt = {"default", "init", "waiting", "serving", "sendType", "sent", "app"}
  MaxKills = 1
  MaxUsr1 = 0
  TermDaemon = FALSE
  BootMode = FALSE
CONSTRAINTS Representative InStep FewEnd
PROPERTIES WaitingAgainInStep ZombiesReaped
CHECK_DEADLOCK FALSE
