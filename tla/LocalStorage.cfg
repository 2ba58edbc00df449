SPECIFICATION Spec
CONSTANTS
  thumb = thumb
  Uploads = {u1, u2}
  Thumbs = {t1, t2}
  Path <- MCPath
  Readers = {r1}
  MaxSize = 1
  ThumbSize = 1
  MinFree = 1
  Disks = {2, 3}
  MaxForeign = 1
  NoFile = NoFile
INVARIANTS ReserveKept ReservationsExact NothingLeftBehind
PROPERTIES KeepsObjects
SYMMETRY Symmetry
CHECK_DEADLOCK FALSE
