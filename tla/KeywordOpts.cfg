CONSTANTS
  MaxOpts = 2
  Wrong <- MCWrong
SPECIFICATION Spec
INVARIANTS RepeatedOpts FailsIfBad DocumentedOptsApply
CHECK_DEADLOCK FALSE
