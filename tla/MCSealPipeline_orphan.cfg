SPECIFICATION Spec
CONSTANTS
  Builds = {b1, b2}
  NoBuild = NoBuild
  Absent = Absent
  Commands = {"pipeline"}
  Overlap = FALSE
  QemuMayExit = FALSE
INVARIANT SealedArtifact
