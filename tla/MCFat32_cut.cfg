SPECIFICATION Spec
CONSTANTS
  nbFats = 2
  sectorPerCluster = 2
  RECORDS = 2
  FAT_ENTRIES = 4
  LAST_CLUSTER = 4
  Names = {"D", "T.TXT"}
  Text = {"T.TXT"}
  Prefix <- MCPrefix
  Foreign = {}
  Contents <- MCThreeSectors
  MaxCuts = 2
INVARIANTS
  TypeOK
  NoSharing
  CopiesAgree
  InDirectory
PROPERTIES
  FileStoreRefined
