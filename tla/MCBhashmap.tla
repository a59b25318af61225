----------------------------- MODULE MCBhashmap -----------------------------
(* A small instance of Bhashmap: three keys share a bucket. *)
EXTENDS Bhashmap, TLC

CONSTANTS k1, k2, k3, k4

MCIndex == [k \in Key |-> IF k = k4 THEN 2 ELSE 1]

\* The keys of one bucket, and the values.
Alike == Permutations({k1, k2, k3}) \cup Permutations(Value)

\* Units given back are overwritten before they are read again (only
\* Unregister reads them, in the step that gives them back), lost ones are in
\* pools no call uses, and which of its free cells a pool hands out shows
\* nowhere: states that differ in nothing else are one, unless CellsOwned tells
\* them apart.
UpToCells ==
  <<registered, size, table, entries, pool, ended, CellsOwned,
    [e \in entries |-> <<key[e], pre[e], next[e],
                         value[e][1], content[value[e]]>>]>>
=============================================================================
