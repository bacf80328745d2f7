SPECIFICATION Spec
CONSTANTS
  Distro = ubuntu
  Versions = {noble, resolute}
  Archs = {amd64}
  Builds <- MCBuilds
  Absent = Absent
  Commands = {"pipeline", "prepare"}
  MaxBoots = 2
  MaxKeys = 1
INVARIANT OwnImage
