SPECIFICATION Spec
CONSTANTS
  Distro = ubuntu
  Versions = {noble}
  Archs = {amd64, arm64}
  Builds <- MCBuilds
  Absent = Absent
  Commands = {"pipeline", "download", "iso", "run"}
  MaxBoots = 2
  MaxKeys = 2
SYMMETRY Interchangeable
INVARIANTS TypeOK ProvisionedUnlessReused LoginKeyFits OwnImage
