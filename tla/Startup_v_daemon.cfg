SPECIFICATION Spec
CONSTANTS
  Instances = {"a1", "a2", "a3"}
  Daemonized = {"a1"}
  Sockets = {"boostm", "boostq"}
  Nobody = "nobody"
INVARIANT OneDaemon
CHECK_DEADLOCK FALSE
