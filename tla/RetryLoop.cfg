SPECIFICATION Spec
CONSTANTS
  IntMax = 4095
  Unit = 5
  NoNumber = NoNumber
  None = None
  Threw = Threw
  Envs <- MCEnvs
  Results <- MCResults
  RetryableResults <- MCRetryable
INVARIANTS
  TypeOK
  SpendsEveryAttempt
  SleepBounded
  SleepsTheSchedule
PROPERTIES
  CallTerminates
