SPECIFICATION Spec
CONSTANTS
  docker = docker
  tools = tools
  Layers = {docker, tools}
  Base = base
  Sources <- Unnamed
  AllOrder <- BaseFirst
  NoTarget = NoTarget
  Bundled = Bundled
  Absent = Absent
  MaxBuilds = 6
INVARIANT AllCoherent
