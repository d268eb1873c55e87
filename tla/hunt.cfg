SPECIFICATION Spec
CONSTANTS
  Played = {"beside", "above"}
  Reach = 36
  Far = 40
PROPERTIES
  ParkedOneLife
