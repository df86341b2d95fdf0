SPECIFICATION Spec
CONSTANTS
  a = a
  b = b
  c = c
  d = d
  N = 4
  Cap = 2
  Names <- MCNames
  SpecName <- MCSpecName
  Wire <- MCWire
INVARIANTS
  TypeOK
  Delivered
  NoLeak
  Reaped
PROPERTIES
  StopsWhenAbandoned
  KeepsPromise
  Returns
  ChildEnds
CHECK_DEADLOCK FALSE
