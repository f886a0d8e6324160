------------------------------- MODULE MCPS2 -------------------------------
(* Instances of PS2 for TLC: three keys with a character (the letter a,     *)
(* Enter, and 7 on the keypad, which has no shifted form), the modifiers,   *)
(* and a screen of 12 by 10 pixels.                                         *)
EXTENDS PS2, TLC

Row == (30 :> 97) @@ (28 :> 10) @@ (71 :> 55)
RowShift == (30 :> 65) @@ (28 :> 10)
MCTable == [s \in 0..87 |-> IF s \in DOMAIN Row THEN Row[s] ELSE 0]
MCTableShift == [s \in 0..63 |-> IF s \in DOMAIN RowShift THEN RowShift[s] ELSE 0]

ThreeKeys == {30, 28, 42}
\* Left and up past the edge with a button down, a movement that overflowed.
MCPackets == {[dx |-> -4, dy |-> 3, buttons |-> 1, overflow |-> FALSE],
              [dx |-> 2, dy |-> 1, buttons |-> 0, overflow |-> TRUE]}
=============================================================================
