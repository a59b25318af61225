------------------------------ MODULE Bhashmap ------------------------------
(***************************************************************************)
(* One map of lib/collections/bhashmap.c.  Its entries and the cells of    *)
(* its values come from two pools, which hand out their lowest free unit   *)
(* and leave the contents of a freed one alone.  An entry is linked into   *)
(* the bucket of its key; what its fields hold before it is first got is   *)
(* garbage, for which NoKey and NULL stand.                                *)
(*                                                                         *)
(* The pools are those of the latest registration, of this or of another   *)
(* map: as init is never set, each bhashmap_register makes new ones.  The  *)
(* units of the earlier ones stay in use, but no free reaches them.        *)
(***************************************************************************)
EXTENDS Naturals, FiniteSets, Sequences, FiniteSetsExt

CONSTANTS Key,      \* the keys (strings)
          Value,    \* what is stored
          NoKey, NoValue,
          Bucket,   \* the indices of the table
          Index,    \* _find_hash_index: the bucket of each key
          MaxPool   \* bound: the registrations the pools suffice for

ASSUME BhashmapAssumption ==
  /\ IsFiniteSet(Key)
  /\ NoKey \notin Key /\ NoValue \notin Value
  /\ Index \in [Key -> Bucket]
  /\ MaxPool \in Nat \ {0}

Pool  == 1..MaxPool           \* a registration's two pools have one number
Place == 1..Cardinality(Key)  \* bound: the units of a pool
NULL  == <<0, 0>>
Entry == Pool \X Place
Cell  == Pool \X Place

VARIABLES registered,            \* capacity # 0
          size, table,           \* the fields of the map
          key, value, pre, next, \* the fields of each entry
          entries, cells,        \* the units got and not given back
          content,               \* what each cell holds
          pool,                  \* the pools lc_pool_id_entry and _value name
          lostEntries, lostCells, \* given back to pools they are not of
          ended                  \* a registration found no pools: exit(1)

fields   == <<key, value, pre, next, content>>
poolVars == <<pool, lostEntries, lostCells, ended>>
vars     == <<registered, size, table, fields, entries, cells, poolVars>>

\* bhashmap_register.
Init ==
  /\ registered = TRUE
  /\ size = 0
  /\ table = [b \in Bucket |-> NULL]
  /\ key = [e \in Entry |-> NoKey]
  /\ value = [e \in Entry |-> NULL]
  /\ pre = [e \in Entry |-> NULL]
  /\ next = [e \in Entry |-> NULL]
  /\ entries = {} /\ cells = {}
  /\ content = [c \in Cell |-> NoValue]
  /\ pool = 1
  /\ lostEntries = {} /\ lostCells = {}
  /\ ended = FALSE

-----------------------------------------------------------------------------
\* The entries from head on, in the order of the links; a circular list is
\* cut off.
Follow(head, links) ==
  LET from[n \in 0..Cardinality(Entry)] ==
        [e \in Entry \cup {NULL} |->
           IF e = NULL \/ n = 0 THEN <<>> ELSE <<e>> \o from[n - 1][links[e]]]
  IN  from[Cardinality(Entry)][head]

\* The entries of a bucket.
Chain(b) == Follow(table[b], next)

Members(list) == {list[i] : i \in DOMAIN list}

\* _find_entry: the first entry of the bucket with that key, or NULL.
FindEntry(k) ==
  LET list  == Chain(Index[k])
      found == {i \in DOMAIN list : key[list[i]] = k}
  IN  IF found = {} THEN NULL ELSE list[Min(found)]

\* bmemory_get: the first fit of the pool of that number.
LowestFree(used) == <<pool, Min({n \in Place : <<pool, n>> \notin used})>>

\* bmemory_free passes over a unit that is in no block of the pool.
Misplaced(units) == {u \in units : u[1] # pool}

\* Mutant of LinkFirst: the old first entry is not told.
LinkFirstOneWay(e, b) ==
  /\ table' = [table EXCEPT ![b] = e]
  /\ next' = [next EXCEPT ![e] = table[b]]
  /\ pre' = [pre EXCEPT ![e] = NULL]

\* A new entry becomes the first of its bucket.
LinkFirst(e, b) ==
  /\ table' = [table EXCEPT ![b] = e]
  /\ next' = [next EXCEPT ![e] = table[b]]
  /\ pre' = [u \in Entry |-> IF u = table[b] THEN e
                             ELSE IF u = e THEN NULL ELSE pre[u]]

\* The value is copied into a new cell of entry e.
Store(e, v, used) ==
  LET c == LowestFree(used \cup lostCells)
  IN  /\ cells' = used \cup {c}
      /\ value' = [value EXCEPT ![e] = c]
      /\ content' = [content EXCEPT ![c] = v]

\* bhashmap_set of a key that has no entry.
SetNew(k, v) ==
  /\ registered /\ FindEntry(k) = NULL
  /\ LET e == LowestFree(entries \cup lostEntries)
     IN  /\ entries' = entries \cup {e}
         /\ key' = [key EXCEPT ![e] = k]
         /\ LinkFirst(e, Index[k])
         /\ Store(e, v, cells)
  /\ size' = size + 1
  /\ UNCHANGED <<registered, poolVars>>

\* Mutant of SetAgain: the old cell is kept.
SetAgainKeeping(k, v) ==
  /\ registered /\ FindEntry(k) # NULL
  /\ \E n \in Place : <<pool, n>> \notin cells
  /\ Store(FindEntry(k), v, cells)
  /\ UNCHANGED <<registered, size, table, key, pre, next, entries, poolVars>>

\* bhashmap_set of a key that has one: the old cell is freed first.
SetAgain(k, v) ==
  /\ registered /\ FindEntry(k) # NULL
  /\ LET e == FindEntry(k)
     IN  /\ lostCells' = lostCells \cup Misplaced({value[e]})
         /\ Store(e, v, cells \ {value[e]})
  /\ UNCHANGED <<registered, size, table, key, pre, next, entries,
                 pool, lostEntries, ended>>

\* Mutant of Unlink: the entry is taken for the first of its bucket.
UnlinkFirst(e, b) ==
  /\ table' = [table EXCEPT ![b] = next[e]]
  /\ UNCHANGED <<pre, next>>

\* The entry leaves its bucket.  Behind the first one pre is not reset.
Unlink(e, b) ==
  IF e = table[b]
  THEN /\ table' = [table EXCEPT ![b] = next[e]]
       /\ UNCHANGED <<pre, next>>
  ELSE /\ pre' = [u \in Entry |-> IF u = next[e] THEN pre[e] ELSE pre[u]]
       /\ next' = [u \in Entry |-> IF u = pre[e] THEN next[e] ELSE next[u]]
       /\ table' = table

\* bhashmap_unset.
Unset(k) ==
  /\ registered /\ FindEntry(k) # NULL
  /\ LET e == FindEntry(k)
     IN  /\ Unlink(e, Index[k])
         /\ cells' = cells \ {value[e]}
         /\ entries' = entries \ {e}
         /\ lostCells' = lostCells \cup Misplaced({value[e]})
         /\ lostEntries' = lostEntries \cup Misplaced({e})
  /\ size' = size - 1
  /\ UNCHANGED <<registered, key, value, content, pool, ended>>

\* bhashmap_unregister reads next of an entry it has just given back, which
\* the pool has not touched.
Unregister ==
  /\ registered
  /\ LET all    == UNION {Members(Chain(b)) : b \in Bucket}
         values == {value[e] : e \in all}
     IN  /\ entries' = entries \ all
         /\ cells' = cells \ values
         /\ lostEntries' = lostEntries \cup Misplaced(all)
         /\ lostCells' = lostCells \cup Misplaced(values)
  /\ registered' = FALSE
  /\ size' = 0
  /\ UNCHANGED <<table, fields, pool, ended>>

\* bhashmap_init: the pools of every map are new ones from now on.
NewPools ==
  /\ pool < MaxPool
  /\ pool' = pool + 1
  /\ UNCHANGED <<lostEntries, lostCells, ended>>

\* bhashmap_register takes the free place again.
Register ==
  /\ ~registered
  /\ NewPools
  /\ registered' = TRUE
  /\ size' = 0
  /\ table' = [b \in Bucket |-> NULL]
  /\ UNCHANGED <<fields, entries, cells>>

\* bhashmap_register of another map.
RegisterAnother ==
  /\ NewPools
  /\ UNCHANGED <<registered, size, table, fields, entries, cells>>

\* Either of them where BPOOL_MAX_NUM is reached.
RunOut ==
  /\ pool = MaxPool
  /\ ended' = TRUE
  /\ UNCHANGED <<registered, size, table, fields, entries, cells,
                 pool, lostEntries, lostCells>>

Next ==
  /\ ~ended
  /\ \/ \E k \in Key, v \in Value : SetNew(k, v) \/ SetAgain(k, v)
     \/ \E k \in Key : Unset(k)
     \/ Unregister
     \/ Register
     \/ RegisterAnother
     \/ RunOut

Spec == Init /\ [][Next]_vars

\* bhashmap_get.
Get(k) ==
  LET e == FindEntry(k)
  IN  IF registered /\ e # NULL THEN content[value[e]] ELSE NoValue

-----------------------------------------------------------------------------
Linked == IF registered THEN UNION {Members(Chain(b)) : b \in Bucket} ELSE {}

\* Each entry is in the bucket of its key, no key has two, and behind the
\* first entry of a bucket the back links are right.  That of the first one
\* may name an entry long freed: bhashmap_unset never follows it.
BucketsSound ==
  registered =>
    \A b \in Bucket :
      LET list == Chain(b)
      IN  \A i \in DOMAIN list :
            /\ Index[key[list[i]]] = b
            /\ \A j \in DOMAIN list : key[list[i]] = key[list[j]] => i = j
            /\ i > 1 => pre[list[i]] = list[i - 1]

\* No cell has two users, no unit that is in use is one a pool took for in use
\* before, and a unit is lost only where a registration replaced its pool.
CellsOwned ==
  /\ cells = {value[e] : e \in entries}
  /\ Cardinality(cells) = Cardinality(entries)
  /\ entries \cap lostEntries = {} /\ cells \cap lostCells = {}
  /\ \A u \in lostEntries \cup lostCells : u[1] < pool

\* Through overwriting, removing and giving up the map, and through the new
\* pools of every registration, no unit has two users, and none is lost but to
\* a replaced pool: the entries not given back are the linked ones, as many as
\* size counts, and each has a cell of its own.
UnitsOwned ==
  /\ entries = Linked
  /\ registered => size = Cardinality(Linked)
  /\ CellsOwned

\* The map is what its header says: chains, reused entries and stale links
\* never show.
M == INSTANCE Map WITH map <- [k \in Key |-> Get(k)]
IsMap == M!Spec
=============================================================================
