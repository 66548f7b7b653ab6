SPECIFICATION FairSpec
CONSTANTS
  Lines = {0, 7, 8, 14}
  BiosBase <- MCBiosBase
  KB_BUFFER_SIZE = 3
  Glyph <- MCGlyph
  MaxWire = 2
  MaxRepeats = 1
INVARIANTS
  OnlyClockAndKeyboard
  ShiftTracked
PROPERTIES
  RequestsServed
