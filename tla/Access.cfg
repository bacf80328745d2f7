SPECIFICATION Spec
CONSTANTS
  Keys = {k1, k2}
  NoKey = NoKey
  Commands = {"seal", "verify"}
  MaxRestarts = 2
INVARIANT TypeOK
PROPERTIES FinishedIsNoticed VerdictHasCause DeadlinesHold Implements
