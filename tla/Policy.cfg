SPECIFICATION Spec
CONSTANTS
  Any = Any
  a = a
  b = b
  w = w
  h = h
  k = k
  Conts = {a, b}
  World = {w}
  Listens = {h, k}
  Ports = {1, 2}
  Files <- MCFiles
  MaxConns = 2
INVARIANTS
  TypeOK
  Faithful
  Directional
  Published
