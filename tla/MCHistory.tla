----------------------------- MODULE MCHistory -----------------------------
(* A small instance of History: three states of the application. *)
EXTENDS History
=============================================================================
