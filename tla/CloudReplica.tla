--------------------------- MODULE CloudReplica ---------------------------
(***************************************************************************)
(* A device's replica of one account, kept by pulling the change log and   *)
(* by bootstrapping from a snapshot, next to the push handler of CloudSync *)
(* that other devices keep busy.                                           *)
(*                                                                         *)
(* The server side is CloudSyncService.changes and bootstrap; the device   *)
(* side is the pull loop of the app's CloudSyncManager.sync and            *)
(* syncBootstrap of core-network's CloudSyncManager, over the Room tables  *)
(* of CloudSyncCache.kt.  JSON field names are outside the model.          *)
(***************************************************************************)
EXTENDS CloudSync, FiniteSets

CONSTANTS Owner,      \* the account the device is signed in to
          PageLimit,  \* changes in a page
          Filed,      \* objects the pull loop files in their own Room table
          Tables      \* the sets of objects bootstrap reads, in its order

\* A cached row.
Cached == [version : Nat \ {0}, deleted : BOOLEAN, val : Values]

ASSUME CloudReplicaAssumption ==
  /\ Owner \in Users
  /\ PageLimit \in Nat \ {0}
  /\ Filed \subseteq Entities
  /\ Tables \in Seq(SUBSET Entities)
  /\ \A e \in Entities : \E i \in DOMAIN Tables : e \in Tables[i]
  /\ NoRow \notin Cached

VARIABLES
  cursor,    \* sync_cursor of the account; 0 when there is none
  cache,     \* the Room tables, each object in the table of its type
  strays,    \* objects of other types that lie in the watch list item table
  pull,      \* "idle", "fetch" or "apply": where the pull loop is
  after,     \* the cursor the pull loop carries from page to page
  page,      \* the changes of the page in hand
  more,      \* the page said that there are more
  boot,      \* "idle", "read" or "store": where the bootstrap is
  table,     \* the table it is at
  snapshot,  \* what it has read
  boundary,  \* the cursor it has read
  quiet,     \* nothing was committed or pulled while a bootstrap ran
  fresh      \* every bootstrap began with empty tables

pulling   == <<pull, after, page, more>>
booting   == <<boot, table, snapshot, boundary>>
stored    == <<cursor, cache, strays>>
witnesses == <<quiet, fresh>>
replica   == <<stored, pulling, booting, witnesses>>
allVars   == <<vars, replica>>

NothingCached == [e \in Entities |-> NoRow]

RInit ==
  /\ Init
  /\ cursor = 0
  /\ cache = NothingCached
  /\ strays = NothingCached
  /\ pull = "idle" /\ after = 0 /\ page = {} /\ more = FALSE
  /\ boot = "idle" /\ table = 1 /\ snapshot = NothingCached /\ boundary = 0
  /\ quiet = TRUE /\ fresh = TRUE

-----------------------------------------------------------------------------
(***************************************************************************)
(* Pulling.                                                                *)
(***************************************************************************)
\* The account's committed changes after a cursor.
Newer(n) == {c \in changes : c.user = Owner /\ c.seq > n}

\* The oldest of them, up to the page limit.
FirstPage(n) ==
  {c \in Newer(n) : Cardinality({d \in Newer(n) : d.seq < c.seq}) < PageLimit}

LastSeq(S, n) ==
  IF S = {} THEN n ELSE CHOOSE m \in {c.seq : c \in S} : \A c \in S : c.seq <= m

\* sync begins to pull from the stored cursor.
PullStart ==
  /\ pull = "idle"
  /\ pull' = "fetch"
  /\ after' = cursor
  /\ UNCHANGED <<vars, stored, page, more, booting, witnesses>>

\* changes: one SELECT serves a page.
PullFetch ==
  /\ pull = "fetch"
  /\ pull' = "apply"
  /\ page' = FirstPage(after)
  /\ more' = (Newer(after) # FirstPage(after))
  /\ UNCHANGED <<vars, stored, after, booting, witnesses>>

CachedChange(c) ==
  [version |-> c.version, deleted |-> c.kind = "DELETE", val |-> c.payload.val]

\* Variant: the oldest change of an object in the page is applied last.
Applied_OldestLast(e) ==
  CachedChange(CHOOSE c \in page : c.entity = e /\ \A d \in page : d.entity = e => c.seq <= d.seq)

\* Changes are applied in order: the newest of an object stays.
Applied(e) ==
  CachedChange(CHOOSE c \in page : c.entity = e /\ \A d \in page : d.entity = e => d.seq <= c.seq)

InPage(e) == \E c \in page : c.entity = e

\* Variant: the cursor is stored even of a page that is still to come.
NextCursor_Everything == LastSeq(Newer(after), after)

\* Variant: the cursor of the request is stored, not that of the reply.
NextCursor_Stays == after

\* next_cursor of the page in hand.
NextCursor == LastSeq(page, after)

\* The page and its cursor are applied in one Room transaction.  Everything
\* but a watch list goes to the watch list item table.
PullApply ==
  /\ pull = "apply"
  /\ cache' = [e \in Entities |-> IF InPage(e) /\ e \in Filed THEN Applied(e) ELSE cache[e]]
  /\ strays' = [e \in Entities |-> IF InPage(e) /\ e \notin Filed THEN Applied(e) ELSE strays[e]]
  /\ cursor' = NextCursor
  /\ after' = IF more THEN NextCursor ELSE 0
  /\ page' = {} /\ more' = FALSE
  /\ pull' = IF more THEN "fetch" ELSE "idle"
  /\ quiet' = (quiet /\ boot = "idle")
  /\ UNCHANGED <<vars, booting, fresh>>

\* The request fails or the process dies: what was not applied is lost.
PullAbort ==
  /\ pull # "idle"
  /\ pull' = "idle"
  /\ after' = 0
  /\ page' = {} /\ more' = FALSE
  /\ UNCHANGED <<vars, stored, booting, witnesses>>

-----------------------------------------------------------------------------
(***************************************************************************)
(* Bootstrapping.  The handler reads one table after another, each SELECT  *)
(* on a snapshot of its own, and the boundary cursor last.                 *)
(***************************************************************************)
BootStart ==
  /\ boot = "idle"
  /\ boot' = "read"
  /\ table' = 1
  /\ snapshot' = NothingCached
  /\ boundary' = 0
  /\ fresh' = (fresh /\ cache = NothingCached)
  /\ UNCHANGED <<vars, stored, pulling, quiet>>

\* Variant: tombstones are served as live rows.
CachedRow_TombstonesToo(row) ==
  IF row = NoRow \/ row.user # Owner THEN NoRow
  ELSE [version |-> row.version, deleted |-> FALSE, val |-> row.val]

\* The live row of the account, or nothing.
CachedRow(row) ==
  IF row = NoRow \/ row.user # Owner \/ row.deleted THEN NoRow
  ELSE [version |-> row.version, deleted |-> FALSE, val |-> row.val]

BootReadTable ==
  /\ boot = "read"
  /\ table \in DOMAIN Tables
  /\ snapshot' = [e \in Entities |-> IF e \in Tables[table] THEN CachedRow(rows[e]) ELSE snapshot[e]]
  /\ table' = table + 1
  /\ UNCHANGED <<vars, stored, pulling, boot, boundary, witnesses>>

BootReadCursor ==
  /\ boot = "read"
  /\ table \notin DOMAIN Tables
  /\ boundary' = LastSeq(Newer(0), 0)
  /\ boot' = "store"
  /\ table' = 1
  /\ UNCHANGED <<vars, stored, pulling, snapshot, witnesses>>

\* syncBootstrap replaces the rows it was sent, table by table, deletes
\* none, and stores the cursor last; there is no transaction around it.
BootStoreTable ==
  /\ boot = "store"
  /\ table \in DOMAIN Tables
  /\ cache' = [e \in Entities |->
                 IF e \in Tables[table] /\ snapshot[e] # NoRow THEN snapshot[e] ELSE cache[e]]
  /\ table' = table + 1
  /\ UNCHANGED <<vars, cursor, strays, pulling, boot, snapshot, boundary, witnesses>>

BootStoreCursor ==
  /\ boot = "store"
  /\ table \notin DOMAIN Tables
  /\ cursor' = boundary
  /\ boot' = "idle"
  /\ table' = 1
  /\ snapshot' = NothingCached
  /\ boundary' = 0
  /\ UNCHANGED <<vars, cache, strays, pulling, witnesses>>

\* The exception is swallowed, or the process dies.
BootAbort ==
  /\ boot # "idle"
  /\ boot' = "idle"
  /\ table' = 1
  /\ snapshot' = NothingCached
  /\ boundary' = 0
  /\ UNCHANGED <<vars, stored, pulling, witnesses>>

-----------------------------------------------------------------------------
\* A step of the push handler.
ServerStep ==
  /\ Next
  /\ quiet' = (quiet /\ (boot = "idle" \/ changes' = changes))
  /\ UNCHANGED <<stored, pulling, booting, fresh>>

PullStep == PullStart \/ PullFetch \/ PullApply \/ PullAbort

BootStep ==
  \/ BootStart \/ BootReadTable \/ BootReadCursor
  \/ BootStoreTable \/ BootStoreCursor \/ BootAbort

\* A device that only pulls.
PullNext == ServerStep \/ PullStep
PullSpec == RInit /\ [][PullNext]_allVars

\* The app goes on pulling, and the network does not fail every time.
PullFairness ==
  /\ WF_allVars(PullStart) /\ SF_allVars(PullFetch) /\ SF_allVars(PullApply)
FairPullSpec == PullSpec /\ PullFairness

\* A device that pulls and bootstraps.
RNext == ServerStep \/ PullStep \/ BootStep
RSpec == RInit /\ [][RNext]_allVars

-----------------------------------------------------------------------------
(***************************************************************************)
(* The type invariant of the replica: the cursor and the page in hand      *)
(* belong to the account's committed change log (sync, syncBootstrap).     *)
(***************************************************************************)
ReplicaTypeOK ==
  /\ cursor \in Nat /\ after \in Nat /\ boundary \in Nat
  /\ cache \in [Entities -> Cached \cup {NoRow}]
  /\ strays \in [Entities -> Cached \cup {NoRow}]
  /\ snapshot \in [Entities -> Cached \cup {NoRow}]
  /\ pull \in {"idle", "fetch", "apply"} /\ more \in BOOLEAN
  /\ page \subseteq Newer(after)
  /\ boot \in {"idle", "read", "store"} /\ table \in 1..(Len(Tables) + 1)
  /\ quiet \in BOOLEAN /\ fresh \in BOOLEAN

\* What the account's screens show of a row.
Shown(row) ==
  IF row = NoRow \/ row.deleted THEN NoRow ELSE [version |-> row.version, val |-> row.val]

OwnRow(e) == IF rows[e] = NoRow \/ rows[e].user # Owner THEN NoRow ELSE rows[e]

CaughtUp == boot = "idle" /\ Newer(cursor) = {}

Exact == \A e \in Entities : Shown(cache[e]) = Shown(OwnRow(e))

(***************************************************************************)
(* A change at or below the stored cursor has reached the replica: no      *)
(* failed, repeated or short page makes the pull loop step over one.       *)
(***************************************************************************)
NothingSkipped ==
  \A c \in changes : c.user = Owner /\ c.seq <= cursor =>
    cache[c.entity] # NoRow /\ cache[c.entity].version >= c.version

(***************************************************************************)
(* A replica that has nothing left to pull shows what the server stores.   *)
(***************************************************************************)
CaughtUpIsExact == CaughtUp => Exact

(***************************************************************************)
(* A pull never takes a cached object back to an earlier version, whatever *)
(* pages are fetched again.                                                *)
(***************************************************************************)
CacheForward ==
  [][\A e \in Entities : cache[e] # NoRow =>
       cache'[e] # NoRow /\ cache'[e].version >= cache[e].version]_allVars

(***************************************************************************)
(* A device that goes on pulling shows what the server stores again and    *)
(* again, however often a page is lost.                                    *)
(***************************************************************************)
Converges == []<>Exact

(***************************************************************************)
(* A bootstrap onto empty tables that nothing overlaps hands over to the   *)
(* pull loop without a gap, even when its storing is cut short.            *)
(***************************************************************************)
QuietFreshBootstrap == quiet /\ fresh /\ CaughtUp => Exact

(***************************************************************************)
(* The replica never shows a version or a value that was not published.    *)
(***************************************************************************)
OnlyPublished ==
  \A e \in Entities : cache[e] # NoRow =>
    \E c \in changes : c.entity = e /\ c.user = Owner /\ CachedChange(c) = cache[e]

\* What the document says of bootstrapping: the snapshot and its boundary
\* cursor fit together, on a new device (docs/22:27).
FreshBootstrap == fresh /\ CaughtUp => Exact
=============================================================================
