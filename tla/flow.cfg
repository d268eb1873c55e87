SPECIFICATION MCSpec
CONSTANTS
  StartLives = 3
  LivesMod = 8
  MinHold = 6
  Chords = TRUE
INVARIANTS
  TypeOK
  ChoicesMade
  EnemyLivesNeverWrap
  MenuOpenUnlessChord
PROPERTIES
  FreshStart
  EnemiesSettled
  ResultStands
  OnePressOneScreen
  ResetReachesAll
  ReleaseFreesFlow
