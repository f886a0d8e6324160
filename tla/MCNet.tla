------------------------------- MODULE MCNet -------------------------------
(* An instance of Net for TLC. *)
EXTENDS Net
=============================================================================
