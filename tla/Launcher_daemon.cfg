SPECIFICATION Spec
CONSTANTS
  Types = {m, q}
  Nul = nul
  Junk = junk
  Invokers = {i1, i2}
  NoWait = {}
  NoInvoker = none
  Garbage = garbage
  WordBytes = 4
  MaxPid = 4
  Signals = {"TERM"}
  KillAt = {"forked", "default", "init", "waiting", "serving", "sendType", "sendPid", "sendDelay", "sent", "app"}
  MaxKills = 0
  MaxUsr1 = 1
  TermDaemon = TRUE
  BootMode = TRUE
SYMMETRY Symmetry
INVARIANTS TypeOK BoosterOfEveryType NoStalePair NoForgottenZombie BootBoosterReplaced
CHECK_DEADLOCK FALSE
