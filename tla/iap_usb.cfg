SPECIFICATION Spec
CONSTANTS
  FreshState = FALSE
  InfoTypes <- TwoTypes
  LastSection = 1
  AuthVersions = {2}
  RetryMax = 1
  Initiations <- EveryInitiation
  Silent = TRUE
  MaxInitiations = 4
  MaxConnections = 2
INVARIANTS
  TypeOK
  AuthOncePerGrant
  ChallengePerCertificate
  ChallengesWithinRequests
CHECK_DEADLOCK FALSE
