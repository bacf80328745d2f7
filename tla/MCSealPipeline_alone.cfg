SPECIFICATION Spec
CONSTANTS
  Builds = {b1}
  NoBuild = NoBuild
  Absent = Absent
  Commands = {"pipeline", "seal", "run", "sysprep"}
  Overlap = FALSE
  QemuMayExit = FALSE
INVARIANTS
  TypeOK
  SealedArtifact
PROPERTIES
  WipeAfterProvisioned
  CommandsEnd
  CancelEnds
