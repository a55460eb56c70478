SPECIFICATION FairSpec
CONSTANTS
  Instances = {"a1", "a2", "a3"}
  Daemonized = {"a1"}
  Sockets = {"boostm", "boostq"}
  Nobody = "nobody"
INVARIANTS TypeOK OneForegroundDaemon Reachable
PROPERTIES Settles ParentsLeave
CHECK_DEADLOCK FALSE
