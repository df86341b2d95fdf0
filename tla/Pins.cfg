SPECIFICATION Spec
CONSTANTS
  p1 = p1
  p2 = p2
  p3 = p3
  Procs = {p1, p2, p3}
  MaxFaults = 2
  MaxOverlaps = 3
INVARIANTS
  TypeOK
  OnlyOverlapsStack
  NoPileUp
  Reported
PROPERTIES
  Reclaims
