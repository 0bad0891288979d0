SPECIFICATION Spec
CONSTANTS
  Sessions = {s1, s2}
  DrivesData <- MCDrivesData
  FirstArmed = "A2_EA_SWEEP"
  Commands <- AllCommands
  MaxWindows = 1
  MaxPackets = 3
CHECK_DEADLOCK FALSE
SYMMETRY MCSymmetry
INVARIANTS
  TypeOK
  OneShots
  NoOrphanTimer
  DataAfterAnnouncement
