SPECIFICATION Spec
CONSTANTS
  FreshState = FALSE
  InfoTypes <- SixTypes
  LastSection = 1
  AuthVersions = {2}
  RetryMax = 255
  Initiations <- JustIdentify
  Silent = FALSE
  MaxInitiations = 2
  MaxConnections = 2
INVARIANTS
  FreshHandshake
CHECK_DEADLOCK FALSE
