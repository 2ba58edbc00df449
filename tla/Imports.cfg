SPECIFICATION FairSpec
CONSTANTS
  x1 = x1
  x2 = x2
  x3 = x3
  Files = {x1, x2, x3}
  Users = {me, other}
  Me = me
  Nobody = Nobody
  Stale = Stale
  Copies = 2
  AlbumIds = {A1, A2}
  NoAlbum = NoAlbum
  Requests = {"upload", "album"}
  Editors = {e1}
  MaxFiles = 2
  Faults = {"db", "crash"}
  Plans <- MCPlans
  Size <- MCSize
  MaxBytes = 3
  AlbumMax = 2
  Retries = 1
  MaxEvents = 2
INVARIANTS MembersOwned StoredOnce CleanEndIsComplete ConfirmedWhole NothingUnaccounted
PROPERTIES ImportEnds ImportAdvances
CHECK_DEADLOCK FALSE
