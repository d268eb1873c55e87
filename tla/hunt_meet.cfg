SPECIFICATION Spec
CONSTANTS
  Played = {"meet"}
  Reach = 36
  Far = 40
INVARIANTS
  EachBulletOneLife
