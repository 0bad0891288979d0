SPECIFICATION Spec
CONSTANTS
  FreshState = TRUE
  InfoTypes <- SixTypes
  LastSection = 1
  AuthVersions = {2}
  RetryMax = 255
  Initiations <- JustCancel
  Silent = FALSE
  MaxInitiations = 2
  MaxConnections = 1
PROPERTIES
  CancelKeptSeparate
CHECK_DEADLOCK FALSE
