SPECIFICATION Spec
CONSTANTS
  Routers = {"turnip"}
  Hosts = {"zone1", "zone2"}
  Flows = {"f1"}
  Edges <- MCEdges
  Dnats <- MCDnats
  Procs = {"p", "q"}
INVARIANTS
  NeverRefused
PROPERTIES
  KeepsPromise
