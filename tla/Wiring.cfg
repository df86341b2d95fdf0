\* CHECK_DEADLOCK FALSE: a plan that is wired or refused is at its end.
SPECIFICATION Spec
CONSTANTS
  Name <- MCNames
  NameMax <- MCNameMax
  AddrBits = 4
  Configs <- MCConfigs
  Unusable = {"/"}
  Bridges <- MCBridges
INVARIANTS
  TypeOK
  DefaultUncontested
  Delivered
  Exact
CHECK_DEADLOCK FALSE
