------------------------------ MODULE Allocator ------------------------------
(***************************************************************************)
(* What a memory pool promises its callers (bmemory.h): the chunk that     *)
(* bmemory_get returns is nobody else's until it is given to bmemory_free. *)
(***************************************************************************)
EXTENDS Naturals

CONSTANT Chunk  \* the chunks there are, each a set of units

VARIABLES live,  \* the chunks handed out
          taken  \* how many were handed out and are not back

vars == <<live, taken>>

Init == live = {} /\ taken = 0

Get ==
  /\ \E c \in Chunk : c \cap UNION live = {} /\ live' = live \cup {c}
  /\ taken' = taken + 1

Free ==
  /\ \E c \in live : live' = live \ {c}
  /\ taken' = taken - 1

Next == Get \/ Free

Spec == Init /\ [][Next]_vars
=============================================================================
