------------------------------ MODULE MCBmysql ------------------------------
(* A small instance of Bmysql: more threads than connectors. *)
EXTENDS Bmysql
=============================================================================
