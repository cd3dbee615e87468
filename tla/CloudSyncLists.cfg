CONSTANTS
  u1 = u1
  u2 = u2
  l1 = l1
  i1 = i1
  i2 = i2
  s1 = s1
  v1 = v1
  v2 = v2
  noList = noList
  noSec = noSec
  Users = {u1, u2}
  Lists = {l1}
  Items = {i1, i2}
  UniqueItems = {i1, i2}
  Securities = {s1}
  Values = {v1, v2}
  NoList = noList
  NoSecurity = noSec
  NoRow = NoRow
  NoResult = NoResult
  OpIds = {"create", "rename", "delete", "again", "foreign", "partial"}
  OpOf <- Ops
  Requests = {r1, r2}
  MaxBatch = 1
  MaxSeq = 3
SPECIFICATION Spec
SYMMETRY Symmetry
CHECK_DEADLOCK FALSE
INVARIANTS ExactlyOnce VersionChain
PROPERTIES TombstoneFinal ImplementsLedger
