SPECIFICATION BoardSpec
CONSTANTS
  X_Start = 2
  Y_Start = 458
  Pressed <- OneKey
  OtherStops <- NoStops
INVARIANTS
  LettersSolid
