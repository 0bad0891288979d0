SPECIFICATION FairSpec
CONSTANTS
  Streams = {"iap", "at"}
  Items <- MCItems
  MaxItems = 3
  MaxRead = 6
  Connections <- MCConnections
  AclSizes = {1, 3}
  MaxAclPackets = 3
  AesInputs <- MCAesInputs
  AvTags = {"av1"}
  AvInbound = {"in1"}
  AvFrames <- MCAvFrames
  MaxAvFrames = 2
  Targets <- MCTargets
  Services <- MCServices
  Conns = {c1, c2}
  MaxAnnounces = 2
  AoaBatch = 2
  MaxEvents = 3
  MaxTeardowns = 1
CHECK_DEADLOCK FALSE
INVARIANTS
  TypeOK
  CutAnywhere
  CapturedIsYielded
  AesRoundTrip
  AesKnownAnswer
  AvOrder
  ResponseIsAsked
  WholeStartAuthAnswered
  KnownIsServed
  ByebyeCovers
  TwoIdentities
PROPERTIES
  AnswersEnd
  StartSwitches
