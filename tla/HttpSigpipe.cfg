SPECIFICATION Spec
CHECK_DEADLOCK FALSE
CONSTANTS
  IntMax = 4095
  Unit = 1
  NoNumber = NoNumber
  None = None
  Threw = Threw
  MaxCalls = 2
  NOutputs = 2
  Transports <- Plain
  Envs <- OneTry
  Shapes <- Ordinary
PROPERTIES
  SurvivesIdleClose
