SPECIFICATION FairSpec
CONSTANTS
  BatchSize = 2
  MaxEnables = 2
  MaxFailures = 1
PROPERTIES
  KeepsRetrying
