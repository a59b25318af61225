------------------------------ MODULE MCClient ------------------------------
(* A small instance of Client: two assets. *)
EXTENDS Client

CONSTANTS messages, window

MCManifest == <<messages, window>>
=============================================================================
