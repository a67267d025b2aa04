SPECIFICATION SafeSpec
CONSTANTS
  IntMax = 4095
  Unit = 5
  NoNumber = NoNumber
  None = None
  Threw = Threw
  Envs <- CountEnvs
  Results <- MCResults
  RetryableResults <- MCRetryable
INVARIANTS
  TotalAttempts
