CONSTANTS
  Client = {c1, c2, c3}
  Sess = {s1, s2, s3}
  None = None
SPECIFICATION FairSpec
INVARIANT ClosedAtTheEnd
PROPERTY NothingStaysOpen
CHECK_DEADLOCK FALSE
