------------------------------ MODULE MCE1000 ------------------------------
(* An instance of E1000 for TLC. *)
EXTENDS E1000
=============================================================================
