SPECIFICATION Spec
CONSTANTS
  PROC_NUMBER = 8
  FRAME_NUMBER = 30
  KERNEL_START = 2
  KERNEL_END = 3
  IOPHYSMEM = 4
  EXTPHYSMEM = 5
  PROC_START = 5
  PROC_PAGES = 3
  ImagePages <- MCImagePages
  Glyph <- MCGlyph
  KB_BUFFER_SIZE = 2
  FileIndex = {0}
  Commands <- ProcessCommands
  ScanCodes = {28}
  I8042_SIZE = 1
  MaxShift = 1
  TypeAhead = TRUE
INVARIANTS
  AssertionsHold
