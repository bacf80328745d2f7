SPECIFICATION Spec
CONSTANTS
  Images = {i1, i2}
  Absent = Absent
  RetryAttempts = 3
CHECK_DEADLOCK TRUE
INVARIANT VerifiedBeforeTrusted
