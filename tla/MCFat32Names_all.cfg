SPECIFICATION Spec
CONSTANTS
  BASE = 5
  EXT = 2
  COMPARED = 4
  MaxLen = 9
  Char = {"A", "X", "."}
INVARIANTS
  RoundTrip
  FoundAgain
PROPERTIES
  ShownIsStable
