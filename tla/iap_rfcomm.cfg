SPECIFICATION FairSpec
CONSTANTS
  FreshState = TRUE
  InfoTypes <- SixTypes
  LastSection = 2
  AuthVersions = {1, 2}
  RetryMax = 255
  Initiations <- OrderlyInitiations
  Silent = FALSE
  MaxInitiations = 3
  MaxConnections = 2
INVARIANTS
  OneRequestAtATime
  CertificateWhole
  FreshHandshake
PROPERTIES
  Authenticates
  ImplementsAuthOrder
CHECK_DEADLOCK FALSE
