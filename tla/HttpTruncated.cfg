SPECIFICATION SafeSpec
CHECK_DEADLOCK FALSE
CONSTANTS
  IntMax = 4095
  Unit = 1
  NoNumber = NoNumber
  None = None
  Threw = Threw
  MaxCalls = 1
  NOutputs = 2
  Transports <- Tls
  Envs <- MCEnvs
  Shapes <- Ordinary
PROPERTIES
  FramingDecides
