SPECIFICATION FairSpec
CONSTANTS
  Sessions = {s1}
  DrivesData <- MCDrivesData
  FirstArmed = "BASE"
  Commands <- MCAuthOnly
  MaxWindows = 0
  MaxPackets = 2
CHECK_DEADLOCK FALSE
PROPERTIES
  SilenceIsReported
