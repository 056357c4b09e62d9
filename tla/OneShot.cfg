CONSTANTS
  token = token listener = listener scout = scout
  session = session publisher = publisher None = None
  Resource = {token, listener, scout}
  KindOf <- MCKindOf
  Parent = {session, publisher}
  ParentOf <- MCParentOf
  Caller = {c1, c2}
  TokenMayRefuse = TRUE
SPECIFICATION FairSpec
CHECK_DEADLOCK FALSE
INVARIANTS TypeOK AnsweredNeverPanics
PROPERTIES KeepsPromise UnreachableEnds
