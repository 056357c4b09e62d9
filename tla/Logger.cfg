CONSTANTS
  Pid = {p1, p2, p3}
  Server = {p2, p3}
  Actor = {a1}
  Setter = {a1}
  Level = {4}
  zenoh = zenoh
  zenohex_nif = zenohex_nif
  Origin = {zenohex_nif}
  Targets = {{zenohex_nif}}
  MaxLog = 2
  None = None
  WriterFirst = TRUE
SPECIFICATION FairSpec
CHECK_DEADLOCK FALSE
INVARIANTS TypeOK InOrder NothingStranded
PROPERTIES CallsReturn EnabledIsForwarded ForwardersEnd Reconnects
