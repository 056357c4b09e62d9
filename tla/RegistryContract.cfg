CONSTANTS
  Proc = {p1, p2}
  Sess = {s1, s2}
  Zid = {z1, z2}
  Kind = {"publisher", "querier"}
  MaxEnt = 1
  None = None
  OpenPolicy = "fresh"
  Drops = "inline"
  KeepSession = FALSE
  WriterFirst = FALSE
SPECIFICATION Spec
CHECK_DEADLOCK FALSE
SYMMETRY Symmetry
PROPERTIES KeepsContract HeldSessionStays HeldEntityStays
