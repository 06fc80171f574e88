CONSTANTS
  Writers = {w1, w2}
  Preserving = {w2}
  Unlinkers = {u1}
  MissingOk = {u1}
  Original = Original
  Absent = Absent
  Dirs = {d1}
  NoDir = NoDir
  Paths = {d1}
  TempNames = {t1, t2}
  NoName = NoName
  Faults <- AllFaults
SYMMETRY NameSymmetry
SPECIFICATION Spec
INVARIANTS
  TargetComplete
  SuccessIsDurable
  SuccessLeavesNoTemporary
  PrivateStaysPrivate
PROPERTIES
  ImplementsDurableFile
CHECK_DEADLOCK FALSE
