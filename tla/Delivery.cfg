CONSTANTS
  Incarnations <- MCIncarnations
  p1 = p1 p2 = p2
  Plain = {p1}
  Client = {c1, c2}
  MaxEvents = 2
  None = None
SPECIFICATION FairSpec
CHECK_DEADLOCK FALSE
INVARIANTS HandledOnce OkMeansUndeclared
PROPERTIES NoneLost ClientsAnswered
