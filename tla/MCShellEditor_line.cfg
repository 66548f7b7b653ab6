SPECIFICATION Spec
CONSTANTS
  COLS = 8
  ROWS = 2
  TAB = 2
  Columns = {3}
  PATH_SIZE = 5
  Char = {"a", " "}
  Keys = {"a", " ", "tab", "backspace", "left", "right", "up"}
  Messages <- MCMessages
INVARIANTS
  TypeOK
  OnScreen
  ScreenShowsLine
  ParsedFaithfully
  PathShowsDirs
