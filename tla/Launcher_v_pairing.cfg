SPECIFICATION Spec
CONSTANTS
  Types = {"m"}
  Nul = "nul"
  Junk = "junk"
  Invokers = {"i1", "i2", "i3"}
  NoWait = {}
  NoInvoker = "0"
  Garbage = "garbage"
  WordBytes = 4
  MaxPid = 6
  Signals = {"TERM"}
  KillAt = {"waiting"}
  MaxKills = 1
  MaxUsr1 = 0
  TermDaemon = FALSE
  BootMode = FALSE
INVARIANTS InvokerOutlivesApp
CHECK_DEADLOCK FALSE
