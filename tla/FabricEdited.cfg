SPECIFICATION Spec
CONSTANTS
  NetCount = 2
  ContCount = 2
  Configs <- MCEdited
  Slots = 2
  MaxFaults = 1
INVARIANTS
  EdgeFree
  Complete
  TornDown
