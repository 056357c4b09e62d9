CONSTANTS
  Query = {q1, q2}
  Caller = {c1, c2}
  MaxSent = 1
  None = None
SPECIFICATION FairSpec
CHECK_DEADLOCK FALSE
INVARIANTS TypeOK NothingAfterFinal GoneMeansFinalSent GetComplete
PROPERTIES FinalSent GetEndsEarly
