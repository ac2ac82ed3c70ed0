SPECIFICATION Spec
CHECK_DEADLOCK FALSE
CONSTANTS
  s1 = s1
  s2 = s2
  s3 = s3
  None = None
  Sessions = {s1, s2, s3}
  IdChoices <- MCIds
  RoleChoices <- MCRoles
  SlowIce = {s3}
  Cap = 2
  MaxTrouble = 1
SYMMETRY Symmetry
INVARIANTS
  
  OnlyGathered
  NoPhantom
  NoSendAfterClose
  SweepComplete
