---------------------------- MODULE MCCloudSync ----------------------------
(***************************************************************************)
(* Instances of CloudSync for TLC.                                         *)
(***************************************************************************)
EXTENDS CloudSyncInvariant, TLC

CONSTANTS u1, u2, l1, i1, i2, s1, v1, v2, noList, noSec

List(kind, base, val, check) ==
  [user |-> u1, entity |-> l1, kind |-> kind, base |-> base, val |-> val,
   parent |-> noList, sec |-> noSec, check |-> check]

Item(i, kind, base) ==
  [user |-> u1, entity |-> i, kind |-> kind, base |-> base, val |-> v1,
   parent |-> l1, sec |-> s1, check |-> "ok"]

\* What two devices of u1, and u2, may ask for: a list is created, renamed,
\* deleted before or after that, and renamed again by who saw the rename; it
\* gets two items that stand for the same security; u2 tries to delete it; one
\* update does not validate and one is refused half way.
KnownOps ==
  "create"   :> List("UPSERT", 0, v1, "ok") @@
  "rename"   :> List("UPSERT", 1, v2, "ok") @@
  "delete"   :> List("DELETE", 1, v1, "ok") @@
  "discard"  :> List("DELETE", 2, v1, "ok") @@
  "again"    :> List("UPSERT", 2, v1, "ok") @@
  "foreign"  :> [List("DELETE", 1, v1, "ok") EXCEPT !.user = u2] @@
  "bad"      :> List("UPSERT", 1, v2, "bad") @@
  "partial"  :> List("UPSERT", 1, v2, "partial") @@
  "item"     :> Item(i1, "UPSERT", 0) @@
  "sameItem" :> Item(i2, "UPSERT", 0)

\* Each configuration names the operations of its run in OpIds.
Ops == [o \in OpIds |-> KnownOps[o]]

Symmetry == Permutations(Requests)
=============================================================================
