SPECIFICATION Spec
CONSTANTS
  b1 = b1
  b2 = b2
  b3 = b3
  w1 = w1
  w2 = w2
  Build <- MCBuild
  Wheel <- MCWheel
  Version = {"v1", "v2"}
  Damaged = Damaged
  Nothing = Nothing
SYMMETRY Interchangeable
INVARIANTS
  OnlyReleasesPublish
  OneRelease
PROPERTIES
  KeepsIndex
CHECK_DEADLOCK FALSE
