SPECIFICATION Spec
CHECK_DEADLOCK FALSE
CONSTANTS
  MaxOutputs = 2
  MaxCalls = 2
  Values <- MCValues
  NonFinite <- MCNonFinite
  InputLists <- MCInputs
  Models <- OneModel
INVARIANTS
  EveryOutput
