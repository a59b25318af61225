------------------------------- MODULE Bmemory -------------------------------
(***************************************************************************)
(* One pool of lib/collections/bmemory.c, with its pointers.  A pool is a  *)
(* list of blocks, a block an array of units.  A chunk is a run of units   *)
(* described by its first unit; each block links its free chunks in the    *)
(* order of their addresses, and its used chunks in any order, through the *)
(* same pPre and pNext fields.                                             *)
(*                                                                         *)
(* Unit <<b, i>> is unit i of block b.  The functions of the pool are      *)
(* operators on its memory m, as bmemory_get composes them.                *)
(***************************************************************************)
EXTENDS Naturals, FiniteSets, Sequences, FiniteSetsExt

CONSTANTS UnitCount,  \* the units of the first block
          Step,       \* the units of each further block
          Request,    \* bound: the numbers of units asked for
          MaxBlock    \* bound: the blocks the pool may grow to

ASSUME BmemoryAssumption ==
  /\ UnitCount \in Nat \ {0} /\ Step \in Nat \ {0} /\ MaxBlock \in Nat
  /\ \A n \in Request : n \in 1..UnitCount /\ n \in 1..Step

NULL == <<0, 0>>

BlockSize(b) == IF b = 1 THEN UnitCount ELSE Step
UnitsOf(b)   == {b} \X (0..(BlockSize(b) - 1))
Unit         == UNION {UnitsOf(b) : b \in 1..MaxBlock}

\* A unit pointer plus n, and the units of a chunk of n.
Plus(u, n) == <<u[1], u[2] + n>>
Span(u, n) == {Plus(u, i) : i \in 0..(n - 1)}

VARIABLES mem,   \* blocks, free and used headers; size, pre and next of units
          live,  \* the chunks callers hold, by their first units
          taken  \* history: how many times one was got and not yet freed

vars == <<mem, live, taken>>

Init ==
  /\ mem = [blocks |-> 0,
            free   |-> [b \in 1..MaxBlock |-> NULL],
            used   |-> [b \in 1..MaxBlock |-> NULL],
            size   |-> [u \in Unit |-> 0],
            pre    |-> [u \in Unit |-> NULL],
            next   |-> [u \in Unit |-> NULL]]
  /\ live = {}
  /\ taken = 0

-----------------------------------------------------------------------------
\* f with f[u] set to v: a write through u, which is skipped when u is NULL.
Set(f, u, v) == IF u = NULL THEN f ELSE [f EXCEPT ![u] = v]

\* The units from head on, in the order of the links; a circular list is cut
\* off.
Follow(head, links) ==
  LET from[n \in 0..Cardinality(Unit)] ==
        [u \in Unit \cup {NULL} |->
           IF u = NULL \/ n = 0 THEN <<>> ELSE <<u>> \o from[n - 1][links[u]]]
  IN  from[Cardinality(Unit)][head]

FreeList(m, b) == Follow(m.free[b], m.next)
UsedList(m, b) == Follow(m.used[b], m.next)

\* The header of a list that loses u.
HeadWithout(head, u, m) ==
  IF m.pre[u] = NULL /\ m.next[u] = NULL THEN NULL
  ELSE IF u = head THEN m.next[u] ELSE head

\* Where in the free list of a block the chunks are that are large enough.
Large(m, b, num) ==
  {i \in DOMAIN FreeList(m, b) : m.size[FreeList(m, b)[i]] >= num}

\* The chunk bmemory_find settles on: the first that is large enough, in the
\* first block that has one, or NULL.
FirstFit(m, num) ==
  LET fitting == {b \in 1..m.blocks : Large(m, b, num) # {}}
  IN  IF fitting = {} THEN NULL
      ELSE FreeList(m, Min(fitting))[Min(Large(m, Min(fitting), num))]

\* Mutant of FreeHeader: the header stays.
FreeHeaderStays(m, u, after) == m.free[u[1]]

\* The header of the free list once u made room for what comes after it.
FreeHeader(m, u, after) ==
  IF u = m.free[u[1]] \/ (m.pre[u] = NULL /\ m.next[u] = NULL)
  THEN after ELSE m.free[u[1]]

\* The rest of bmemory_find: u, or what is left behind its first num units,
\* goes back where u was in the free list, and u heads the used list.
Take(m, u, num) ==
  LET b     == u[1]
      rest  == Plus(u, num)
      whole == m.size[u] = num
      after == IF whole THEN m.next[u] ELSE rest
      size  == IF whole THEN m.size
               ELSE [m.size EXCEPT ![u] = num, ![rest] = m.size[u] - num]
      next  == IF whole THEN m.next ELSE [m.next EXCEPT ![rest] = m.next[u]]
      pre   == IF whole THEN m.pre ELSE [m.pre EXCEPT ![rest] = m.pre[u]]
      back  == IF whole THEN m.pre[u] ELSE rest
  IN  [m EXCEPT
        !.free[b] = FreeHeader(m, u, after),
        !.used[b] = u,
        !.size = size,
        !.pre  = [Set(Set(pre, m.next[u], back), m.used[b], u) EXCEPT ![u] = NULL],
        !.next = [Set(next, m.pre[u], after) EXCEPT ![u] = m.used[b]]]

\* A new block has no links yet.
Unlinked(f, b) == [u \in Unit |-> IF u[1] = b THEN NULL ELSE f[u]]

\* Mutant of AllocBlock: the last unit is left out.
AllocBlockShort(m) ==
  LET b     == m.blocks + 1
      first == <<b, 0>>
  IN  [m EXCEPT !.blocks = b,
                !.free[b] = first,
                !.used[b] = NULL,
                !.size[first] = BlockSize(b) - 1,
                !.pre = Unlinked(@, b), !.next = Unlinked(@, b)]

\* bmemory_alloc_block: one free chunk of all the units of a new block.
AllocBlock(m) ==
  LET b     == m.blocks + 1
      first == <<b, 0>>
  IN  [m EXCEPT !.blocks = b,
                !.free[b] = first,
                !.used[b] = NULL,
                !.size[first] = BlockSize(b),
                !.pre = Unlinked(@, b), !.next = Unlinked(@, b)]

\* The memory bmemory_find looks at in the end: a block is added when nothing
\* fits.
Grown(num) == IF FirstFit(mem, num) = NULL THEN AllocBlock(mem) ELSE mem

\* bmemory_get.
Get(num) ==
  /\ FirstFit(mem, num) = NULL => mem.blocks < MaxBlock
  /\ LET m == Grown(num)
         u == FirstFit(m, num)
     IN  /\ mem' = Take(m, u, num)
         /\ live' = live \cup {u}
         /\ taken' = taken + 1

-----------------------------------------------------------------------------
\* The free chunks u comes between: the walk of bmemory_free stops at the
\* first chunk behind u.
Neighbours(m, u) ==
  LET list   == FreeList(m, u[1])
      behind == {i \in DOMAIN list : list[i][2] > u[2]}
      stop   == IF behind = {} THEN Len(list) + 1
                ELSE Min(behind)
  IN  [pre  |-> IF stop = 1 THEN NULL ELSE list[stop - 1],
       next |-> IF stop > Len(list) THEN NULL ELSE list[stop]]

\* Mutant of Touches: chunks are never merged.
TouchesNever(m, u, v) == FALSE

\* v begins where u ends.
Touches(m, u, v) == u # NULL /\ v # NULL /\ Plus(u, m.size[u]) = v

\* Mutant of Unuse: the header stays.
UnuseKeepsHeader(m, u) ==
  [m EXCEPT !.next = Set(m.next, m.pre[u], m.next[u]),
            !.pre  = Set(m.pre, m.next[u], m.pre[u])]

\* u leaves the used list.
Unuse(m, u) ==
  [m EXCEPT !.used[u[1]] = HeadWithout(@, u, m),
            !.next = Set(m.next, m.pre[u], m.next[u]),
            !.pre  = Set(m.pre, m.next[u], m.pre[u])]

\* u enters the free list between p and n, merged with those it touches.
Insert(m, u, p, n) ==
  LET joinsP == Touches(m, p, u)
      joinsN == Touches(m, u, n)
      v      == IF joinsP THEN p ELSE u
      behind == IF joinsN THEN m.next[n] ELSE n
      size   == m.size[u] + (IF joinsP THEN m.size[p] ELSE 0)
                          + (IF joinsN THEN m.size[n] ELSE 0)
  IN  [m EXCEPT
        !.free[u[1]] = IF p = NULL THEN u ELSE @,
        !.size[v] = size,
        !.pre  = Set(IF joinsP THEN m.pre ELSE [m.pre EXCEPT ![u] = p], behind, v),
        !.next = [IF joinsP THEN m.next ELSE Set(m.next, p, u) EXCEPT ![v] = behind]]

Freed(m, u) ==
  LET without == Unuse(m, u)
      between == Neighbours(without, u)
  IN  Insert(without, u, between.pre, between.next)

\* bmemory_free, of a chunk the caller got.
Free(u) ==
  /\ u \in live
  /\ mem' = Freed(mem, u)
  /\ live' = live \ {u}
  /\ taken' = taken - 1

Next == (\E num \in Request : Get(num)) \/ (\E u \in Unit : Free(u))

Spec == Init /\ [][Next]_vars

-----------------------------------------------------------------------------
Members(list) == {list[i] : i \in DOMAIN list}

\* The free list of a block is in the order of addresses, its back links are
\* right, and no two of its chunks touch: what bmemory_free relies on to find
\* its neighbours, and what keeps the pool from falling into small pieces.
FreeListOrdered ==
  \A b \in 1..mem.blocks :
    LET list == FreeList(mem, b)
    IN  \A i \in DOMAIN list :
          /\ mem.pre[list[i]] = IF i = 1 THEN NULL ELSE list[i - 1]
          /\ i > 1 => list[i - 1][2] + mem.size[list[i - 1]] < list[i][2]

\* The used list of a block names the chunks callers hold, each once.
UsedListIsLive ==
  \A b \in 1..mem.blocks :
    /\ Members(UsedList(mem, b)) = {u \in live : u[1] = b}
    /\ Len(UsedList(mem, b)) = Cardinality({u \in live : u[1] = b})

\* Every unit of a block belongs to exactly one free or used chunk: none is
\* lost and none is handed out twice.
UnitsAccounted ==
  /\ taken = Cardinality(live)
  /\ \A b \in 1..mem.blocks :
       LET free  == Members(FreeList(mem, b))
           used  == {u \in live : u[1] = b}
           heads == free \cup used
       IN  /\ free \cap used = {}
           /\ UNION {Span(u, mem.size[u]) : u \in heads} = UnitsOf(b)
           /\ \A u, v \in heads :
                u # v => Span(u, mem.size[u]) \cap Span(v, mem.size[v]) = {}

\* The pool implements an allocator.
Chunks == {Span(u, n) : u \in Unit, n \in Request}
Pool == INSTANCE Allocator
          WITH Chunk <- Chunks, live <- {Span(u, mem.size[u]) : u \in live}
IsAllocator == Pool!Spec
=============================================================================
