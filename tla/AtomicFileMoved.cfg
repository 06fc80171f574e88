CONSTANTS
  Writers = {w1, w2}
  Preserving = {}
  Unlinkers = {}
  MissingOk = {}
  Original = Original
  Absent = Absent
  Dirs = {d1, d2}
  NoDir = NoDir
  Paths = {d1, d2, NoDir}
  TempNames = {t1}
  NoName = NoName
  Faults = {"chmod", "sync", "syncdir"}
SPECIFICATION Spec
INVARIANTS
  PublishedByOwner
PROPERTIES
  TemporaryIsKept
