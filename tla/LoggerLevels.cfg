CONSTANTS
  Pid = {p1}
  Server = {p1}
  Actor = {a1, a2}
  Setter = {a1, a2}
  Level = {1, 4}
  zenoh = zenoh
  zenohex_nif = zenohex_nif
  Origin <- MCOrigin
  Targets <- MCTargets
  MaxLog = 1
  None = None
  WriterFirst = FALSE
SPECIFICATION Spec
CHECK_DEADLOCK FALSE
INVARIANT GetLevelTellsTheTruth
