SPECIFICATION Spec
CONSTANTS
  Keys = {k1, k2}
  NoKey = NoKey
  Commands = {"seal", "verify"}
  MaxRestarts = 0
INVARIANT PinnedIsReadable
