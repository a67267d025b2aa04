SPECIFICATION Spec
CHECK_DEADLOCK FALSE
CONSTANTS
  IntMax = 4095
  Unit = 1
  NoNumber = NoNumber
  None = None
  Threw = Threw
  MaxCalls = 2
  Values = {1, 2, 3, 4, 5}
  Nearest <- MCNearest
  TooLarge = TooLarge
  Undefined = 1
  Builds = {TRUE, FALSE}
  Envs <- MCEnvs
  Codes <- MCCodes
  InputLists <- MCInputs
  TensorLists <- MCTensors
INVARIANTS
  TypeOK
  AnswerWasServed
  InferReturnsTensors
  InputsArrive
PROPERTIES
  ImplementsRetryLoop
  CallTerminates
