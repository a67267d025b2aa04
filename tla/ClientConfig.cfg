SPECIFICATION Spec
CHECK_DEADLOCK FALSE
CONSTANTS
  IntMax = 65535
  MaxWrites = 1
  Missing = Missing
  Words <- MCWords
  Urls <- MCUrls
  LeadingNumber <- MCLeadingNumber
  Versions <- MCVersions
  Envs <- MCEnvs
  Contents <- MCContents
  FirstFiles <- MCFirstFiles
INVARIANTS
  TypeOK
  SentWhereMeant
  TokenFromItsSource
  ChannelAsFiled
