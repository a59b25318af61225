------------------------------- MODULE Bqueue -------------------------------
(***************************************************************************)
(* One queue of lib/collections/bqueue.c, with its nodes at addresses.     *)
(* An address counts nodes, so the C expression                            *)
(*     header + sizeof(bqueue_node) * (size % capacity)                    *)
(* is header + Stride * (size % Capacity): pointer arithmetic multiplies   *)
(* by the size of a node once more.  Only the first node of a busy period  *)
(* comes from the pool; the others lie Stride apart behind it, in the      *)
(* pool's blocks or not.  What is written outside the blocks is taken to   *)
(* stay there: what else the process keeps at that address is not          *)
(* modelled.                                                               *)
(*                                                                         *)
(* node->pre is written and never read, and is left out.                   *)
(***************************************************************************)
EXTENDS Naturals, Sequences, FiniteSets

CONSTANTS Value,     \* what is queued (messages)
          NoValue,   \* the NULL a pop returns
          Capacity,  \* the size given to bqueue_register
          Stride,    \* sizeof(bqueue_node)
          Step,      \* the third argument of bmemory_pool_register
          Gap        \* addresses between two blocks of the pool

NULL == 0

ASSUME BqueueAssumption ==
  /\ Capacity \in Nat \ {0}
  /\ Stride \in Nat \ {0}
  /\ Step \in Nat \ {0}
  /\ Gap \in Nat \ {0}
  /\ NoValue \notin Value

VARIABLES size, header, tail,  \* the fields of the bqueue
          value, next,         \* the fields of the node at each address written
          unit,                \* where the pool's next unit would be
          blocks,              \* the addresses in the blocks of the pool
          returned,            \* what the last pop returned
          fault                \* a NULL node was dereferenced

poolVars == <<unit, blocks>>
vars == <<size, header, tail, value, next, poolVars, returned, fault>>

\* bqueue_register.  The pool is the queue's own; it has no block yet.
Init ==
  /\ size = 0
  /\ header = NULL /\ tail = NULL
  /\ value = [a \in {} |-> NoValue]
  /\ next = [a \in {} |-> NULL]
  /\ unit = 1 /\ blocks = {}
  /\ returned = NoValue
  /\ fault = FALSE

\* The unit bmemory_get hands out.  Pop gives none back, so they come in order,
\* and behind the last one of a block begins another block.
NewUnit == IF unit \in blocks THEN unit ELSE unit + Gap

GetUnit ==
  /\ unit' = NewUnit + 1
  /\ blocks' =
       IF unit \in blocks THEN blocks
       ELSE blocks \cup NewUnit..(NewUnit + (IF blocks = {} THEN Capacity ELSE Step) - 1)

\* Where bqueue_node_push puts a node.
TakesUnit == size = Capacity \/ size = 0

\* Mutant of NewNode: one node too low.
NewNodeLow == IF TakesUnit THEN NewUnit ELSE header + Stride * (size - 1)

NewNode == IF TakesUnit THEN NewUnit ELSE header + Stride * (size % Capacity)

\* f with x at address a, written before or not.
Store(f, a, x) == [b \in DOMAIN f \cup {a} |-> IF b = a THEN x ELSE f[b]]

\* bqueue_node_push.  With elements counted but no header, the new address is
\* computed from NULL.
Push(v) ==
  /\ ~fault
  /\ \/ /\ ~TakesUnit /\ header = NULL
        /\ fault' = TRUE
        /\ UNCHANGED <<size, header, tail, value, next, poolVars>>
     \/ /\ IF TakesUnit THEN GetUnit ELSE header # NULL /\ UNCHANGED poolVars
        /\ size' = size + 1
        /\ value' = Store(value, NewNode, v)
        /\ next' = IF header = NULL THEN Store(next, NewNode, NULL)
                   ELSE Store(Store(next, NewNode, NULL), tail, NewNode)
        /\ header' = IF header = NULL THEN NewNode ELSE header
        /\ tail' = NewNode
        /\ fault' = fault
  /\ returned' = returned

\* Mutant of Pop: the tail survives the last pop.
PopKeepsTail ==
  /\ ~fault /\ size # 0 /\ header # NULL
  /\ header' = next[header]
  /\ size' = size - 1
  /\ returned' = value[header]
  /\ UNCHANGED <<tail, value, next, poolVars, fault>>

\* Mutant of Pop: the node is returned for its value.
PopNode ==
  /\ ~fault /\ size # 0 /\ header # NULL
  /\ header' = next[header]
  /\ tail' = IF next[header] = NULL THEN NULL ELSE tail
  /\ size' = size - 1
  /\ returned' = header
  /\ UNCHANGED <<value, next, poolVars, fault>>

\* Mutant of Pop: the value is read after the header has moved.
PopSecond ==
  /\ ~fault /\ size # 0 /\ header # NULL
  /\ header' = next[header]
  /\ tail' = IF next[header] = NULL THEN NULL ELSE tail
  /\ size' = size - 1
  /\ returned' = IF next[header] = NULL THEN NoValue ELSE value[next[header]]
  /\ UNCHANGED <<value, next, poolVars, fault>>

\* bqueue_node_pop.  With elements counted but no header, it dereferences
\* NULL.
Pop ==
  /\ ~fault
  /\ \/ /\ size = 0
        /\ returned' = NoValue
        /\ UNCHANGED <<size, header, tail, fault>>
     \/ /\ size # 0 /\ header # NULL
        /\ header' = next[header]
        /\ tail' = IF next[header] = NULL THEN NULL ELSE tail
        /\ size' = size - 1
        /\ returned' = value[header]
        /\ fault' = fault
     \/ /\ size # 0 /\ header = NULL
        /\ fault' = TRUE
        /\ UNCHANGED <<size, header, tail, returned>>
  /\ UNCHANGED <<value, next, poolVars>>

Next == Pop \/ \E v \in Value : Push(v)

\* The queue as it is registered.
Spec == Init /\ [][Next]_vars

\* The queue as long as its user stays below the registered size.
BelowCapacity == Pop \/ (size < Capacity /\ \E v \in Value : Push(v))
SpecBelowCapacity == Init /\ [][BelowCapacity]_vars

-----------------------------------------------------------------------------
\* The address of the i-th node of a queue that has not been overfilled.
Node(i) == header + Stride * (i - 1)

\* The elements of the queue, front to back.
Contents == [i \in 1..size |-> value[Node(i)]]

\* The type invariant of a queue that stays below capacity: its pointers are
\* NULL or the address of a node that has been written.
TypeOK ==
  /\ size \in 0..Capacity
  /\ DOMAIN value \subseteq Nat \ {NULL}
  /\ header \in DOMAIN value \cup {NULL}
  /\ tail \in DOMAIN value \cup {NULL}
  /\ value \in [DOMAIN value -> Value \cup {NoValue}]
  /\ next \in [DOMAIN value -> DOMAIN value \cup {NULL}]
  /\ unit \in Nat \ {NULL}
  /\ blocks \subseteq Nat \ {NULL}
  /\ returned \in Value \cup {NoValue}
  /\ fault \in BOOLEAN

\* The nodes lie Stride apart from the header to the tail, each linked to the
\* next: the address push computes is always one past the tail, however many
\* pops moved the header in between.
Chained ==
  IF size = 0 THEN header = NULL /\ tail = NULL
  ELSE /\ header # NULL
       /\ tail = Node(size)
       /\ \A i \in 1..size : Node(i) \in DOMAIN value
       /\ \A i \in 1..(size - 1) : next[Node(i)] = Node(i + 1)
       /\ next[tail] = NULL

\* A queue far below its registered size writes outside its memory: it leaves
\* the block its header is in as soon as the nodes in front of its last one
\* reach the length of a block.
Longest == IF Capacity > Step THEN Capacity ELSE Step

LeavesBlock ==
  size > 0 /\ Stride * (size - 1) >= Longest => ~(header..tail \subseteq blocks)

\* Below capacity no push or pop dereferences NULL.
NoFault == ~fault

\* The queue implements what bqueue.h promises, if nothing else uses the
\* addresses outside the blocks.
FifoQueue == INSTANCE Fifo WITH items <- Contents
IsFifo == FifoQueue!Spec
=============================================================================
