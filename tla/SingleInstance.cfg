SPECIFICATION FairSpec
CONSTANTS
  Launches = {"l1", "l2", "l3", "l4"}
  Plain = {"l4"}
  Boosted = {"l2", "l3", "l4"}
  Cut = {"l3"}
  MaxMishaps = 2
INVARIANTS TypeOK OneInstance SomebodyRuns RaisesTheApplication
PROPERTIES Resolved
CHECK_DEADLOCK FALSE
