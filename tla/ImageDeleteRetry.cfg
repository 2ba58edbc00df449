SPECIFICATION FairSpec
CONSTANTS
  old = old
  a = a
  b = b
  u1 = u1
  Images = {old, a}
  Users = {u1}
  r1 = r1
  r2 = r2
  NoUser = NoUser
  NoImage = NoImage
  Removers = {r1}
  Workers = {}
  Bytes <- MCBytes
  SHA256 <- MCSHA256
  Legacy = {old}
  LegacyOwner <- MCLegacyOwner
  Burn = {old}
  Expiring = {old}
  Quotas <- OneQuota
  CleanupLimit = 2
  Faults = {"storage"}
PROPERTIES DeletedBytesReclaimed
CHECK_DEADLOCK FALSE
