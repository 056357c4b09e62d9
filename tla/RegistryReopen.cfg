CONSTANTS
  Proc = {p1, p2}
  Sess = {s1, s2}
  Zid = {z1}
  Kind = {"publisher"}
  MaxEnt = 1
  None = None
  OpenPolicy = "reopen"
  Drops = "inline"
  KeepSession = FALSE
  WriterFirst = FALSE
SPECIFICATION Spec
CHECK_DEADLOCK FALSE
PROPERTY HeldSessionSurvivesGC
