------------------------------- MODULE MCItoa -------------------------------
(* Instances of Itoa. *)
EXTENDS Itoa

\* The descriptors of MAX_CLIENT connections, and the standard ones before.
Descriptors == 0..5003
=============================================================================
