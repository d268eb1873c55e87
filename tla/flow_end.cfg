SPECIFICATION Spec
CONSTANTS
  StartLives = 2
  LivesMod = 4
  MinHold = 6
  Chords = FALSE
INVARIANT EndShowsResult
