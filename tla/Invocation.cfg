SPECIFICATION FairSpec
CONSTANTS
  Statuses = {"0", "7"}
  Signals = {"TERM", "KILL"}
  Singles = {TRUE, FALSE}
  MaxSignals = 2
INVARIANTS TypeOK AckMeansComplete ForwardsToTheApp
PROPERTIES InvokerEndsToo BoosterMovesOn KeepsPromise
CHECK_DEADLOCK FALSE
