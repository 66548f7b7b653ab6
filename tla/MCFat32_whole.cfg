SPECIFICATION FairSpec
CONSTANTS
  nbFats = 2
  sectorPerCluster = 2
  RECORDS = 2
  FAT_ENTRIES = 4
  LAST_CLUSTER = 5
  Names = {"D", "T.TXT"}
  Text = {"T.TXT"}
  Prefix <- MCPrefix
  Foreign = {"T.TXT"}
  Contents <- MCThreeSectors
  MaxCuts = 0
INVARIANTS
  Parents
  NoLeak
  ReadReturnsContent
PROPERTIES
  CommandsEnd
