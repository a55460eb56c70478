SPECIFICATION Spec
CONSTANTS
  Types = {"m"}
  Nul = "nul"
  Junk = "junk"
  Invokers = {}
  NoWait = {}
  NoInvoker = "0"
  Garbage = "garbage"
  WordBytes = 4
  MaxPid = 3
  Signals = {"TERM"}
  KillAt = {}
  MaxKills = 0
  MaxUsr1 = 1
  TermDaemon = FALSE
  BootMode = TRUE
INVARIANTS Usr1KeepsDaemon
CHECK_DEADLOCK FALSE
