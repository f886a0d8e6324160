------------------------------ MODULE MCFat32 ------------------------------
(* Instances of Fat32 for TLC. *)
EXTENDS Fat32, TLC

CONSTANTS a, b, x

TwoNames == {a, b}
OneValue == {x}
Small == 2..5
Beyond == {8}
=============================================================================
