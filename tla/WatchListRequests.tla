-------------------------- MODULE WatchListRequests --------------------------
(***************************************************************************)
(* The two tables of watch lists as three kinds of request share them: the *)
(* watch list API, for the groups no user owns, the synchronisation of a   *)
(* user's groups, and the import of a file into them.  Order, notes and    *)
(* price marks are left out.                                               *)
(***************************************************************************)
EXTENDS PersonalData, Sequences, SequencesExt

CONSTANTS GroupIds, Names, Stocks,
          ListFiles        \* sequences of [name, id, stocks]: the groups of a file

ASSUME ListAssumption ==
    /\ IsFiniteSet(Stocks)
    /\ \A file \in ListFiles :
         IsFiniteSet(DOMAIN file) /\ \A n \in DOMAIN file : file[n].stocks \subseteq Stocks

VARIABLES groups,          \* rows of watchlists
          items            \* rows of watchlist_items

lists == <<groups, items>>

Group(id, owner, name) == [id |-> id, owner |-> owner, name |-> name, live |-> TRUE]
Item(group, stock, owner) == [group |-> group, stock |-> stock, owner |-> owner, live |-> TRUE]
UnusedIds == GroupIds \ {g.id : g \in groups}

WInit == groups = {} /\ items = {}

(* A request that checks and commits without another in between.           *)
AtOnce == made < MaxRequests /\ made' = made + 1 /\ UNCHANGED request

(* The groups get_watchlist finds.                                         *)
Open == {g \in groups : g.owner = NoOne /\ g.live}

CreateGroup == \E id \in UnusedIds, n \in Names :
    /\ AtOnce
    /\ groups' = groups \cup {Group(id, NoOne, n)}
    /\ UNCHANGED <<items, log>>

RenameGroup == \E g \in Open, n \in Names :
    /\ n # g.name
    /\ AtOnce
    /\ groups' = (groups \ {g}) \cup {[g EXCEPT !.name = n]}
    /\ UNCHANGED <<items, log>>

(* The row goes, and with it the items that refer to it.                   *)
DeleteGroup == \E g \in Open :
    /\ AtOnce
    /\ groups' = groups \ {g}
    /\ items' = {i \in items : i.group # g.id}
    /\ UNCHANGED log

AddBegin(r) == \E g \in Open, s \in Stocks :
    /\ ~\E i \in items : i.group = g.id /\ i.stock = s /\ i.owner = NoOne /\ i.live
    /\ Begin(r, [op |-> "add", item |-> Item(g.id, s, NoOne)])
    /\ UNCHANGED <<groups, items, log>>

(* A group deleted or an item added since violates a constraint.           *)
Violates(item) ==
    \/ ~\E g \in groups : g.id = item.group
    \/ \E i \in items : i.group = item.group /\ i.stock = item.stock

AddCommit(r) ==
    /\ request[r].op = "add"
    /\ items' = IF Violates(request[r].item) THEN items ELSE items \cup {request[r].item}
    /\ Done(r)
    /\ UNCHANGED <<groups, log>>

RemoveItem == \E g \in Open, i \in items :
    /\ i.group = g.id /\ i.owner = NoOne
    /\ AtOnce
    /\ items' = items \ {i}
    /\ UNCHANGED <<groups, log>>

(* A device pushes a new group or item of its user, or a deletion, which   *)
(* leaves a tombstone; the change takes a number of the identity sequence. *)
PushedGroups ==
    {<<groups \cup {Group(id, Owner, n)}, items>> : id \in UnusedIds, n \in Names}
       \cup {<<(groups \ {g}) \cup {[g EXCEPT !.live = FALSE]}, items>> :
                g \in {x \in groups : x.owner = Owner /\ x.live}}
PushedItems ==
    {<<groups, items \cup {Item(g.id, s, Owner)}>> :
        g \in {x \in groups : x.owner = Owner /\ x.live}, s \in Stocks}
       \cup {<<groups, (items \ {i}) \cup {[i EXCEPT !.live = FALSE]}>> :
                i \in {x \in items : x.owner = Owner /\ x.live}}

ListPush == \E after \in PushedGroups \cup PushedItems :
    /\ identity \notin Taken
    /\ \A i, j \in after[2] : i.group = j.group /\ i.stock = j.stock => i = j
    /\ AtOnce
    /\ groups' = after[1] /\ items' = after[2]
    /\ changes' = changes \cup {Change(Owner, identity, OtherRow, "UPSERT")}
    /\ identity' = identity + 1
    /\ UNCHANGED <<pushing, pushes, lost>>

(* POST /imports/watchlists/apply of a preview: the cursor is read, and to *)
(* replace, the live groups of the user.                                   *)
ImportBegin(r) == \E f \in ListFiles, replace \in BOOLEAN :
    /\ Begin(r, [op |-> "import", file |-> f, from |-> Greatest(Owner),
                 dropped |-> IF replace
                             THEN {g.id : g \in {x \in groups : x.owner = Owner /\ x.live}}
                             ELSE {}])
    /\ UNCHANGED <<groups, items, log>>

(* The groups of the user are dropped, each of the file found by its name  *)
(* or made with the id it carries.                                         *)
Kept(dropped) == {[g EXCEPT !.live = @ /\ g.id \notin dropped] : g \in groups}
Named(table, n) == {g \in table : g.owner = Owner /\ g.live /\ g.name = n}

Target(table, entry) ==
    IF Named(table, entry.name) = {} THEN Group(entry.id, Owner, entry.name)
    ELSE CHOOSE g \in Named(table, entry.name) : TRUE

(* Variant: a tombstone counts as an item.                                 *)
Missing_AnyItem(group, stocks) ==
    {s \in stocks : ~\E i \in items : i.group = group.id /\ i.stock = s}

(* The stocks of a group that have no live item in it yet.                 *)
Missing(group, stocks) ==
    {s \in stocks : ~\E i \in items : i.group = group.id /\ i.stock = s /\ i.live}

(* The items each group of the file, found or made, gets.                  *)
Added(file, target) ==
    UNION {{Item(target[n].id, s, Owner) : s \in Missing(target[n], file[n].stocks)}
             : n \in DOMAIN file}

ImportCommit(r) ==
    LET a       == request[r]
        kept    == Kept(a.dropped)
        target  == [n \in DOMAIN a.file |-> Target(kept, a.file[n])]
        opened  == ToSet(target) \ kept
        added   == Added(a.file, target)
        logged  == Cardinality(a.dropped) + Cardinality(opened) + Cardinality(added)
        refused == \/ ~Free(a.from, logged)
                   \/ \E g \in opened : g.id \in {x.id : x \in kept}
                   \/ \E i \in added, j \in items : i.group = j.group /\ i.stock = j.stock
    IN  /\ a.op = "import"
        /\ \/ /\ ~refused
              /\ groups' = kept \cup opened
              /\ items' = items \cup added
              /\ changes' = changes \cup
                   {Change(Owner, c, OtherRow, "UPSERT") : c \in Numbers(a.from, logged)}
           \/ refused /\ UNCHANGED <<groups, items, changes>>
        /\ Done(r)
        /\ UNCHANGED <<identity, pushing, pushes, lost>>

ListNext ==
    \/ CreateGroup \/ RenameGroup \/ DeleteGroup \/ RemoveItem \/ ListPush
    \/ \E r \in Requests : AddBegin(r) \/ AddCommit(r) \/ ImportBegin(r) \/ ImportCommit(r)

(* An import that reports success has left what its file says: each stock  *)
(* is live in a live group of that name, and of the groups the owner had   *)
(* when a replacing import began, none is still there.                     *)
ImportedListsAreThere ==
    [][\A r \in Requests :
         LET a == request[r] IN
         a.op = "import" /\ request'[r] = Idle /\ changes' # changes =>
            /\ \A n \in DOMAIN a.file : \E g \in groups' :
                  /\ g.owner = Owner /\ g.live /\ g.name = a.file[n].name
                  /\ \A s \in a.file[n].stocks :
                        \E i \in items' : i.group = g.id /\ i.stock = s /\ i.live
            /\ \A g \in groups' : g.id \in a.dropped => ~g.live]_<<lists, request, log>>
=============================================================================
