SPECIFICATION Spec
CONSTANTS
  NetCount = 1
  ContCount = 1
  Configs <- MCSingle
  Slots = 2
  MaxFaults = 0
INVARIANTS
  SecondUpStable
