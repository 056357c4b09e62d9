CONSTANTS
  NameOf <- MCNameOf
  Base <- MCNormal
  Given <- MCGiven
  Values <- MCValues
  Paths <- MCPaths
  Unsupported = {"pid"}
  BadKeys = {"1"}
  MaxCalls = 2
SPECIFICATION Spec
CHECK_DEADLOCK FALSE
INVARIANTS MergeOverwritesOrKeeps InsertChangesOnlyThere StaysNormal
