CONSTANTS
  u1 = u1
  u2 = u2
  l1 = l1
  i1 = i1
  i2 = i2
  s1 = s1
  v1 = v1
  v2 = v2
  noList = noList
  noSec = noSec
  Users = {u1, u2}
  Lists = {l1}
  Items = {i1, i2}
  UniqueItems = {i1, i2}
  Securities = {s1}
  Values = {v1, v2}
  NoList = noList
  NoSecurity = noSec
  NoRow = NoRow
  NoResult = NoResult
  OpIds = {"create", "rename", "delete"}
  OpOf <- Ops
  Requests = {r1, r2}
  MaxBatch = 2
  MaxSeq = 20
  Mine = {"create", "rename"}
  NoCall = NoCall
  OthersSeq = 3
  MaxFailures = 1
SPECIFICATION FairCSpec
CHECK_DEADLOCK FALSE
INVARIANTS NothingLost FailuresAreTrue
PROPERTY Drained
