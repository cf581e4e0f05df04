SPECIFICATION Spec
CONSTANTS
  Client = {c1, c2, c3}
  User = {u1, u2}
  Server = {s1}
  Row = {r1, r2, r3}
  Handler = {h1, h2}
  None = None
  MaxSerial = 2
SYMMETRY Symmetry
INVARIANTS
  RemovedStaysOut
  SinglePat
PROPERTIES
  OthersKeepPats
CHECK_DEADLOCK FALSE
