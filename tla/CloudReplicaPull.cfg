CONSTANTS
  u1 = u1
  u2 = u2
  l1 = l1
  i1 = i1
  i2 = i2
  s1 = s1
  v1 = v1
  v2 = v2
  noList = noList
  noSec = noSec
  Users = {u1, u2}
  Lists = {l1}
  Items = {i1}
  UniqueItems = {i1}
  Securities = {s1}
  Values = {v1, v2}
  NoList = noList
  NoSecurity = noSec
  NoRow = NoRow
  NoResult = NoResult
  OpIds = {"create", "rename", "discard", "item", "bad"}
  OpOf <- Ops
  Requests = {r1}
  MaxBatch = 2
  MaxSeq = 4
  Owner = u1
  PageLimit = 2
  Filed = {l1, i1}
  Tables <- ListsThenItems
SPECIFICATION FairPullSpec
CHECK_DEADLOCK FALSE
INVARIANTS NothingSkipped CaughtUpIsExact
PROPERTY Converges
