------------------------------ MODULE MCBqueue ------------------------------
(* Small instances of Bqueue. *)
EXTENDS Bqueue

CONSTANT MaxAddress  \* bound: the addresses up to which nodes are put

\* What tells states apart: the nodes that are linked, not what pops left behind.
Linked == {a \in DOMAIN value : \E i \in 1..size : a = Node(i)}
InUse ==
  <<size, header, tail, {<<a, value[a], next[a]>> : a \in Linked},
    poolVars, returned, fault>>

MCNext == BelowCapacity /\ tail' <= MaxAddress

MCSpec == Init /\ [][MCNext]_vars
=============================================================================
