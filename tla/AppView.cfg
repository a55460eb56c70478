SPECIFICATION Spec
CONSTANTS
  Bases = {"/", "bin", "gone", "home", "opt"}
  Rests = {"", "sub"}
  Rel = "."
  None = none
  Users <- MCUsers
  Numbers <- MCNumbers
  IntMod = 16
  MaxOptions = 3
  MaxFd = 24
  Starts <- MCStarts
  ARGV_LIMIT = 3
  MaxViews = 3
INVARIANTS TypeOK DelaysAsTyped OptionsHonoured RightProgram RunsAtItsPriority
           StdioHandedOver CacheAnswers
CHECK_DEADLOCK FALSE
