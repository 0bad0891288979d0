SPECIFICATION Spec
CONSTANTS
  ReportDefs <- MCReportDefs
  Bearers = {"interrupt_out"}
  InPackets <- MCFragments
  Openers <- MCOpeners
  FifoSize = 2
  MaxPackets = 2
  MaxOpeners = 1
CHECK_DEADLOCK FALSE
INVARIANTS
  RobustToFraming
