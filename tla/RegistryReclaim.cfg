CONSTANTS
  Proc = {p1, p2}
  Sess = {s1}
  Zid = {z1}
  Kind = {"publisher", "subscriber", "querier", "queryable"}
  MaxEnt = 1
  None = None
  OpenPolicy = "fresh"
  Drops = "scheduled"
  KeepSession = FALSE
  WriterFirst = TRUE
SPECIFICATION LiveSpec
CHECK_DEADLOCK FALSE
PROPERTIES CallsReturn SessionReclaimed UnmappedGetsClosed EntityReclaimed
