SPECIFICATION Spec
CONSTANTS
  old = old
  a = a
  b = b
  u1 = u1
  Images = {old, a, b}
  Users = {u1}
  r1 = r1
  r2 = r2
  NoUser = NoUser
  NoImage = NoImage
  Removers = {r1, r2}
  Workers = {}
  Bytes <- MCBytes
  SHA256 <- MCSHA256
  Legacy = {old}
  LegacyOwner <- MCLegacyOwner
  Burn = {old}
  Expiring = {old}
  Quotas <- MCQuotas
  CleanupLimit = 2
  Faults = {"storage", "db", "crash"}
INVARIANTS LiveRowHasObject ClaimServable QuotaExact
PROPERTIES QuotaRespected
SYMMETRY Symmetry
CHECK_DEADLOCK FALSE
