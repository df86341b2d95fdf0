\* CHECK_DEADLOCK FALSE: a plan that is wired or refused is at its end.
SPECIFICATION Spec
CONSTANTS
  Name <- MCNames
  NameMax <- MCNameMax
  AddrBits = 4
  Configs <- MCAddresses
  Unusable = {"/"}
  Bridges <- MCBridges
INVARIANTS
  ApplyTotal
CHECK_DEADLOCK FALSE
