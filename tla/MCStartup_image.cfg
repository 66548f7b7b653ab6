SPECIFICATION Spec
CONSTANTS
  SECT = 4
  CHUNK = 2
  FILL = 8
  ArgLists <- MCArgLists
  MEMORY = 36
  ELFHDR = 4
  PAGESIZE = 8
  PHOFF = 4
  Kernels <- MCKernels
  ENTRIES = 5
  UserPages = {2, 3, 4, 5, 6, 7, 8, 9}
INVARIANTS
  SectorsCounted
  HeadersKept
  KernelLoaded
  IdentityMapped
PROPERTIES
  PageMapRefined
CHECK_DEADLOCK FALSE
