SPECIFICATION FairSpec
CONSTANTS
  Sessions = {s1, s2}
  DrivesData <- MCOneHypothesis
  FirstArmed = "A2_EA_SWEEP"
  Commands <- MCCommands
  MaxWindows = 1
  MaxPackets = 2
CHECK_DEADLOCK FALSE
PROPERTIES
  StallNamed
  DialledOnEi
