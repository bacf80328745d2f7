SPECIFICATION Spec
CONSTANTS
  Tests = {t1, t2}
  Artifacts = {good, bad}
  Broken = {bad}
  Seconds = {1}
  Nobody = Nobody
  Outsider = Outsider
  Absent = Absent
  Overlap = TRUE
SYMMETRY Interchangeable
INVARIANTS
  TypeOK
  NothingLeftBehind
  NoVMLeftBehind
  VerifiedUnlessContested
PROPERTY Implements
