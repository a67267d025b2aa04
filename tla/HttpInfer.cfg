SPECIFICATION Spec
CHECK_DEADLOCK FALSE
CONSTANTS
  MaxOutputs = 3
  MaxCalls = 3
  Values <- MCValues
  NonFinite <- MCNonFinite
  InputLists <- MCInputs
  Models <- MCModels
INVARIANTS
  TypeOK
  InputsArrive
  InferReturnsTensors
  SlicesTile
