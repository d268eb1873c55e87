SPECIFICATION Spec
CONSTANTS
  Lives = 2
  Reach = 26
  Far = 30
INVARIANTS
  NotThrough
  ParkedUntouched
PROPERTIES
  ShotSettles
