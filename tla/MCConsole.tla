----------------------------- MODULE MCConsole -----------------------------
(* Instances of Console for TLC. *)
EXTENDS Console

CONSTANTS shell, child

OneWriter == {shell}
TwoWriters == {shell, child}
MCChars == {" ", "a"}
Places == {Outside, <<1, 0>>}
=============================================================================
