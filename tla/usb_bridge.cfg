SPECIFICATION FairSpec
CONSTANTS
  ReportDefs <- MCReportDefs
  Bearers = {"interrupt_out", "set_report"}
  InPackets <- MCInPackets
  Openers <- MCOpeners
  FifoSize = 1
  MaxPackets = 3
  MaxOpeners = 2
CHECK_DEADLOCK FALSE
INVARIANTS
  TypeOK
  OneStrayOpener
  HandledOnce
PROPERTIES
  AsBaseline
  WholeFrames
  ReaderComesBack
