SPECIFICATION FairSpec
CONSTANTS
  BatchSize = 2
  MaxEnables = 3
  MaxFailures = 2
INVARIANTS
  TypeOK
  NoLeak
  ReadableIsAnswerable
PROPERTIES
  EnableRescues
