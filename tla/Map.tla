--------------------------------- MODULE Map ---------------------------------
(***************************************************************************)
(* What bhashmap.h promises of a map: a key has the value that was set for *)
(* it last, until it is unset or the map is given up.                      *)
(***************************************************************************)
CONSTANTS Key, Value, NoValue

VARIABLE map

Init == map = [k \in Key |-> NoValue]

Set   == \E v \in Value : map' \in {[map EXCEPT ![k] = v] : k \in Key}
Unset == map' \in {[map EXCEPT ![k] = NoValue] : k \in Key}
Clear == map' = [k \in Key |-> NoValue]

Next == Set \/ Unset \/ Clear

Spec == Init /\ [][Next]_map
=============================================================================
