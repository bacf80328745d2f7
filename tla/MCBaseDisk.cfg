SPECIFICATION Spec
CONSTANTS
  Images = {i1, i2, i3}
  Absent = Absent
  RetryAttempts = 3
CHECK_DEADLOCK TRUE
INVARIANTS
  TypeOK
  DownloadWhole
  VouchedUnlessCut
  PristineUnlessCut
PROPERTIES
  PristineIsStable
  Implements
  CancelEnds
