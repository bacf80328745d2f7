SPECIFICATION Spec
CONSTANTS
  Builds = {b1, b2}
  NoBuild = NoBuild
  Absent = Absent
  Commands = {"pipeline", "run", "sysprep", "build"}
  Overlap = TRUE
  QemuMayExit = TRUE
SYMMETRY Interchangeable
CONSTRAINT SharedBound
INVARIANTS
  SealedUnlessLoose
PROPERTIES
  NothingLost
  Implements
