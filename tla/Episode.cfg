SPECIFICATION Spec
CONSTANTS
  Threads = {t1, t2, t3}
  Networks = 2
  Uplinked <- MCUplinked
  Pins = 2
INVARIANTS
  TypeOK
  InPlace
  Confined
  Complete
PROPERTIES
  StopsStranded
CHECK_DEADLOCK FALSE
