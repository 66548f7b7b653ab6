SPECIFICATION FairSpec
CONSTANTS
  RADIX = 2
  SECTORS = 16
  Hardware <- MCHardware
  Asked = {2, 4, 13}
INVARIANTS
  TypeOK
  SetupOutcome
PROPERTIES
  OthersKept
  SectorStoreRefined
  Answered
CHECK_DEADLOCK FALSE
