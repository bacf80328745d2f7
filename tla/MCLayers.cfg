SPECIFICATION Spec
CONSTANTS
  docker = docker
  tools = tools
  Layers = {docker, tools}
  Base = base
  Sources <- Named
  AllOrder <- BaseFirst
  NoTarget = NoTarget
  Bundled = Bundled
  Absent = Absent
  MaxBuilds = 5
CHECK_DEADLOCK TRUE
INVARIANTS
  TypeOK
  FreshLayerCoherent
  AllCoherentUnlessReused
  PushedBoots
PROPERTY PushOnlyReads
