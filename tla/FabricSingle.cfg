SPECIFICATION Spec
CONSTANTS
  NetCount = 1
  ContCount = 1
  Configs <- MCSingle
  Slots = 3
  MaxFaults = 1
INVARIANTS
  TypeOK
  BornHardened
  Generations
  Complete
PROPERTIES
  KeepsOrder
  Converges
