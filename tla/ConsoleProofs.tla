---------------------------- MODULE ConsoleProofs ----------------------------
(***************************************************************************)
(* Proofs about Console, for a console of any size on which one process    *)
(* prints while the clock blinks the cursor and the mouse moves.           *)
(***************************************************************************)
EXTENDS Console, TLAPS

-----------------------------------------------------------------------------
(* The invariants.                                                         *)

Steps == {"idle", "putchar", "hide", "uncover", "body", "store", "draw", "pass",
          "back", "nextline", "scrolled", "cleared", "redraw"}

ConType ==
    /\ cell_ch \in [Cells -> Chars]
    /\ screen \in [Cells -> Chars \cup {Block, Pointer}]
    /\ cur_row \in 0 .. con_rows - 1 /\ cur_col \in 0 .. con_cols
    /\ cursor_shown \in BOOLEAN
    /\ pc \in [Writers -> Steps] /\ c \in [Writers -> Chars \cup Controls]
    /\ spaces \in [Writers -> Nat] /\ redrawn \in [Writers -> 0..Size]
    /\ mouse \in [at : Cells \cup {Outside}, saved : Chars \cup {Block, Pointer}]

\* Where the printing position may be, and which character is under way.
AtStep(w) ==
    /\ pc[w] \in {"store", "draw", "pass"} => cur_col < con_cols
    /\ pc[w] \in {"nextline", "scrolled", "redraw"} => cur_col = 0
    /\ pc[w] \in {"store", "draw"} => c[w] \in Chars \cup {"backspace"}
    /\ pc[w] = "pass" => c[w] \in Chars
    /\ pc[w] = "back" => c[w] = "backspace"
    /\ pc[w] \in {"nextline", "scrolled", "redraw", "cleared"} => c[w] \in Chars \cup {"newline"}
    /\ pc[w] # "redraw" => redrawn[w] = 0

PlaceInv ==
    /\ ConType
    /\ \A w \in Writers : AtStep(w)
    /\ cursor_shown => Recorded \in Cells

ShowInv == PlaceInv /\ TextShown
-----------------------------------------------------------------------------
(* Cells and their numbers, row by row.                                    *)

LEMMA Sizes == con_rows \in Nat \ {0} /\ con_cols \in Nat \ {0}
  BY SizeAssumption

\* A row and a column are the quotient and the remainder of their number.
LEMMA Quotient ==
  ASSUME NEW n \in Nat \ {0}, NEW r \in Int, NEW k \in 0 .. n - 1
  PROVE  (r * n + k) \div n = r /\ (r * n + k) % n = k
  OBVIOUS

LEMMA Product == ASSUME NEW m \in Nat, NEW n \in Nat PROVE m * n \in Nat
  OBVIOUS

LEMMA Numbered ==
  ASSUME NEW m \in Nat, NEW n \in Nat \ {0}, NEW i \in 0 .. m * n - 1
  PROVE  i \div n \in 0 .. m - 1 /\ i % n \in 0 .. n - 1
<1>1. i % n \in 0 .. n - 1  OBVIOUS
<1>2. i \div n \in Int  OBVIOUS
<1>3. i = n * (i \div n) + (i % n)  OBVIOUS
<1> QED  BY <1>1, <1>2, <1>3

LEMMA SizeNat == Size \in Nat
  BY Sizes DEF Size

LEMMA CellInCells ==
  ASSUME NEW i \in 0..Size, i < Size
  PROVE  Cell(i) \in Cells
<1>1. i \in 0 .. con_rows * con_cols - 1  BY SizeNat DEF Size
<1> QED  BY <1>1, Sizes, Numbered DEF Cell, Cells

\* Every cell has a number.
LEMMA CellsNumbered ==
  ASSUME NEW p \in Cells
  PROVE  \E i \in 0 .. Size - 1 : p = Cell(i)
<1>1. PICK r \in 0 .. con_rows - 1, k \in 0 .. con_cols - 1 : p = <<r, k>>  BY DEF Cells
<1>2. p = Cell(r * con_cols + k)  BY <1>1, Quotient, Sizes DEF Cell
<1>3. r * con_cols + k \in 0 .. con_rows * con_cols - 1
  <2>1. (r + 1) * con_cols <= con_rows * con_cols  BY <1>1, Sizes
  <2>2. (r + 1) * con_cols = r * con_cols + con_cols /\ r * con_cols \in Nat
    BY <1>1, Sizes
  <2> QED  BY <1>1, <2>1, <2>2, Sizes
<1> QED  BY <1>2, <1>3 DEF Size

-----------------------------------------------------------------------------
(* Steps of the printer.                                                   *)

LEMMA InCells ==
  ASSUME cur_row \in 0 .. con_rows - 1, cur_col \in 0 .. con_cols, cur_col < con_cols
  PROVE  <<cur_row, cur_col>> \in Cells
  BY Sizes DEF Cells

LEMMA GotoStep ==
  ASSUME pc \in [Writers -> Steps], NEW w \in Writers, NEW s \in Steps, Goto(w, s)
  PROVE  pc' \in [Writers -> Steps] /\ pc'[w] = s
  BY DEF Goto

LEMMA DoneStep ==
  ASSUME ConType, NEW w \in Writers, Done(w)
  PROVE  /\ pc' \in [Writers -> Steps] /\ pc'[w] = "idle"
         /\ c' \in [Writers -> Chars \cup Controls]
<1>1. pc' \in [Writers -> Steps] /\ pc'[w] = "idle"
  BY GotoStep DEF Done, ConType, Steps
<1>2. c' \in [Writers -> Chars \cup Controls]  BY CharsAssumption DEF Done, ConType
<1> QED  BY <1>1, <1>2

\* A painted cell: the screen keeps its type.
LEMMA PaintType ==
  ASSUME ConType, NEW p, NEW what \in Chars \cup {Block, Pointer}, Paint(p, what)
  PROVE  screen' \in [Cells -> Chars \cup {Block, Pointer}]
  BY DEF ConType, Paint

LEMMA DrawType ==
  ASSUME ConType, NEW p \in Cells, draw_cell(p)
  PROVE  screen' \in [Cells -> Chars \cup {Block, Pointer}]
<1>1. cell_ch[p] \in Chars  BY DEF ConType
<1> QED  BY <1>1, PaintType DEF draw_cell

LEMMA ReturnStep ==
  ASSUME ConType, NEW w \in Writers, Return(w)
  PROVE  /\ pc' \in [Writers -> Steps] /\ pc'[w] \in {"idle", "putchar"}
         /\ c' \in [Writers -> Chars \cup Controls]
         /\ spaces' \in [Writers -> Nat]
<1>1. CASE spaces[w] > 0
  <2>1. Goto(w, "putchar") /\ spaces' = [spaces EXCEPT ![w] = @ - 1] /\ c' = c
    BY <1>1 DEF Return
  <2>2. pc' \in [Writers -> Steps] /\ pc'[w] = "putchar"
    BY <2>1, GotoStep DEF ConType, Steps
  <2>3. spaces' \in [Writers -> Nat]  BY <1>1, <2>1 DEF ConType
  <2> QED  BY <2>1, <2>2, <2>3 DEF ConType
<1>2. CASE ~(spaces[w] > 0)
  <2>1. Done(w) /\ spaces' = spaces  BY <1>2 DEF Return
  <2> QED  BY <2>1, DoneStep DEF ConType
<1> QED  BY <1>1, <1>2

LEMMA PlaceWriter ==
  ASSUME PlaceInv, NEW w, Writers = {w}, WriterStep(w)
  PROVE  PlaceInv'
<1> USE DEF PlaceInv
<1>0. w \in Writers /\ AtStep(w)  OBVIOUS
<1>a. ConType' /\ AtStep(w)' /\ (cursor_shown' => Recorded' \in Cells) => PlaceInv'
  OBVIOUS
\* Steps of the printer that leave the text, the screen and the cursor alone.
<1>b. ASSUME UNCHANGED <<cell_ch, screen, cursor, mouse>>,
             pc' \in [Writers -> Steps], c' \in [Writers -> Chars \cup Controls],
             spaces' \in [Writers -> Nat], redrawn' \in [Writers -> 0..Size],
             cur_row' \in 0 .. con_rows - 1, cur_col' \in 0 .. con_cols, AtStep(w)'
      PROVE  PlaceInv'
  <2>1. ConType'  BY <1>b DEF ConType, cursor
  <2>2. cursor_shown' => Recorded' \in Cells  BY <1>b DEF Recorded, cursor
  <2> QED  BY <1>a, <1>b, <2>1, <2>2
<1>1. ASSUME NEW x \in Chars \cup Controls, kputchar(w, x) PROVE PlaceInv'
  <2>1. /\ pc' \in [Writers -> Steps] /\ pc'[w] = "putchar"
        /\ c' \in [Writers -> Chars \cup Controls]
        /\ UNCHANGED <<cell_ch, screen, cursor, mouse, position, spaces, redrawn>>
        /\ redrawn[w] = 0
    BY <1>0, <1>1, GotoStep DEF kputchar, ConType, Steps, AtStep
  <2>2. AtStep(w)'  BY <2>1 DEF AtStep
  <2> QED  BY <1>b, <2>1, <2>2 DEF ConType, position
<1>2. CASE fbcon_clear(w)
  <2>1. /\ pc' \in [Writers -> Steps] /\ pc'[w] = "cleared"
        /\ c' \in [Writers -> Chars \cup Controls] /\ c'[w] = "newline"
        /\ cell_ch' \in [Cells -> Chars]
        /\ UNCHANGED <<screen, cursor, mouse, position, spaces, redrawn>>
        /\ redrawn[w] = 0
    BY <1>0, <1>2, GotoStep, CharsAssumption DEF fbcon_clear, ConType, Steps, AtStep, Controls
  <2>2. ConType'  BY <2>1 DEF ConType, cursor, position
  <2>3. AtStep(w)'  BY <2>1 DEF AtStep
  <2> QED  BY <1>a, <2>1, <2>2, <2>3 DEF Recorded, cursor
<1>3. CASE Cleared(w)
  <2>1. /\ pc' \in [Writers -> Steps] /\ pc'[w] = "redraw"
        /\ cur_row' = 0 /\ cur_col' = 0 /\ cursor_shown' = FALSE
        /\ UNCHANGED <<cell_ch, c, spaces, redrawn, screen, mouse>>
        /\ c[w] \in Chars \cup {"newline"}
    BY <1>0, <1>3, GotoStep DEF Cleared, ConType, Steps, AtStep
  <2>2. ConType'
    <3>1. cur_row' \in 0 .. con_rows - 1 /\ cur_col' \in 0 .. con_cols
      BY <2>1, Sizes
    <3> QED  BY <2>1, <3>1 DEF ConType
  <2>3. AtStep(w)'  BY <2>1 DEF AtStep
  <2> QED  BY <1>a, <2>1, <2>2, <2>3
<1>4. CASE HideTest(w)
  <2>1. /\ pc' \in [Writers -> Steps] /\ pc'[w] \in {"hide", "body"}
        /\ UNCHANGED <<cell_ch, screen, cursor, mouse, position, c, spaces, redrawn>>
        /\ redrawn[w] = 0
    BY <1>0, <1>4, GotoStep DEF HideTest, ConType, Steps, AtStep
  <2>2. AtStep(w)'  BY <2>1 DEF AtStep
  <2> QED  BY <1>b, <2>1, <2>2 DEF ConType, position
<1>5. CASE HideClear(w)
  <2>1. /\ pc' \in [Writers -> Steps] /\ pc'[w] = "uncover" /\ cursor_shown' = FALSE
        /\ UNCHANGED <<cell_ch, screen, mouse, position, c, spaces, redrawn>>
        /\ redrawn[w] = 0
    BY <1>0, <1>5, GotoStep DEF HideClear, ConType, Steps, AtStep
  <2>2. AtStep(w)'  BY <2>1 DEF AtStep
  <2>3. ConType'  BY <2>1 DEF ConType, position
  <2> QED  BY <1>a, <2>1, <2>2, <2>3
<1>6. CASE HideDraw(w)
  <2>1. /\ pc' \in [Writers -> Steps] /\ pc'[w] = "body"
        /\ UNCHANGED <<cell_ch, cursor, mouse, position, c, spaces, redrawn>>
        /\ redrawn[w] = 0
    BY <1>0, <1>6, GotoStep DEF HideDraw, ConType, Steps, AtStep
  <2>2. screen' \in [Cells -> Chars \cup {Block, Pointer}]
    BY <1>6, DrawType DEF HideDraw, ConType
  <2>3. AtStep(w)'  BY <2>1 DEF AtStep
  <2>4. ConType'  BY <2>1, <2>2 DEF ConType, position, cursor
  <2> QED  BY <1>a, <2>1, <2>3, <2>4 DEF Recorded, cursor
<1>7. CASE Body(w)
  <2> USE DEF Body
  <2>1. /\ UNCHANGED <<cell_ch, screen, cursor, mouse, cur_row, redrawn>>
        /\ pc[w] = "body" /\ redrawn[w] = 0 /\ cur_row' \in 0 .. con_rows - 1
        /\ redrawn' \in [Writers -> 0..Size]
    BY <1>0, <1>7 DEF ConType, AtStep
  <2>2. ASSUME Return(w), cur_col' \in {0, cur_col} PROVE PlaceInv'
    <3>1. /\ pc' \in [Writers -> Steps] /\ pc'[w] \in {"idle", "putchar"}
          /\ c' \in [Writers -> Chars \cup Controls] /\ spaces' \in [Writers -> Nat]
      BY <1>0, <2>2, ReturnStep
    <3>2. AtStep(w)'  BY <2>1, <3>1 DEF AtStep
    <3>3. cur_col' \in 0 .. con_cols  BY <2>2, Sizes DEF ConType
    <3> QED  BY <1>b, <2>1, <3>1, <3>2, <3>3
  <2>3. CASE c[w] = "newline" \/ (c[w] \in Chars /\ LineFull)
    <3>1. cur_col' = 0 /\ Goto(w, "nextline") /\ UNCHANGED <<c, spaces, line>>
      BY <1>7, <2>3, CharsAssumption DEF Controls
    <3>2. pc' \in [Writers -> Steps] /\ pc'[w] = "nextline"
      BY <1>0, <3>1, GotoStep DEF ConType, Steps
    <3>3. AtStep(w)'  BY <2>1, <2>3, <3>1, <3>2 DEF AtStep
    <3> QED  BY <1>b, <2>1, <3>1, <3>2, <3>3, Sizes DEF ConType
  <2>4. CASE c[w] = "return"
    <3>1. cur_col' = 0 /\ Return(w)
      BY <1>7, <2>4, CharsAssumption DEF Controls
    <3> QED  BY <2>2, <3>1
  <2>5. CASE c[w] = "backspace"
    <3>1. Goto(w, "back") /\ UNCHANGED <<cur_col, c, spaces, line>>
      BY <1>7, <2>5, CharsAssumption DEF Controls
    <3>2. pc' \in [Writers -> Steps] /\ pc'[w] = "back"
      BY <1>0, <3>1, GotoStep DEF ConType, Steps
    <3>3. AtStep(w)'  BY <2>1, <2>5, <3>1, <3>2 DEF AtStep
    <3> QED  BY <1>b, <2>1, <3>1, <3>2, <3>3 DEF ConType
  <2>6. CASE c[w] = "tab"
    <3>1. /\ c' = [c EXCEPT ![w] = Space] /\ spaces' = [spaces EXCEPT ![w] = 3]
          /\ Goto(w, "putchar") /\ UNCHANGED cur_col
      BY <1>7, <2>6, CharsAssumption DEF Controls
    <3>2. pc' \in [Writers -> Steps] /\ pc'[w] = "putchar"
      BY <1>0, <3>1, GotoStep DEF ConType, Steps
    <3>3. c' \in [Writers -> Chars \cup Controls] /\ spaces' \in [Writers -> Nat]
      BY <3>1, CharsAssumption DEF ConType
    <3>4. AtStep(w)'  BY <2>1, <3>2 DEF AtStep
    <3> QED  BY <1>b, <2>1, <3>1, <3>2, <3>3, <3>4 DEF ConType
  <2>7. CASE c[w] = "unprintable"
    <3>1. Return(w) /\ UNCHANGED cur_col
      BY <1>7, <2>7, CharsAssumption DEF Controls
    <3> QED  BY <2>2, <3>1
  <2>8. CASE c[w] \in Chars /\ ~LineFull
    <3>1. Goto(w, "store") /\ UNCHANGED <<cur_col, c, spaces, line>>
      BY <1>7, <2>8, CharsAssumption DEF Controls
    <3>2. pc' \in [Writers -> Steps] /\ pc'[w] = "store"
      BY <1>0, <3>1, GotoStep DEF ConType, Steps
    <3>3. cur_col' < con_cols  BY <2>8, <3>1, Sizes DEF LineFull, ConType
    <3>4. AtStep(w)'  BY <2>1, <2>8, <3>1, <3>2, <3>3 DEF AtStep
    <3> QED  BY <1>b, <2>1, <3>1, <3>2, <3>4 DEF ConType
  <2>9. c[w] \in Chars \cup Controls  BY <1>0 DEF ConType
  <2> QED  BY <2>3, <2>4, <2>5, <2>6, <2>7, <2>8, <2>9 DEF Controls
<1>8. CASE Store(w)
  <2>1. /\ pc' \in [Writers -> Steps] /\ pc'[w] = "draw" /\ pc[w] = "store"
        /\ UNCHANGED <<screen, mouse, position, cursor, c, spaces, redrawn>>
        /\ redrawn[w] = 0
    BY <1>0, <1>8, GotoStep DEF Store, ConType, Steps, AtStep
  <2>2. cell_ch' \in [Cells -> Chars]
    BY <1>0, <1>8, CharsAssumption DEF Store, AtStep, ConType
  <2>3. AtStep(w)'  BY <1>0, <2>1 DEF AtStep, position
  <2>4. ConType'  BY <2>1, <2>2 DEF ConType, position, cursor
  <2> QED  BY <1>a, <2>1, <2>3, <2>4 DEF Recorded, cursor
<1>9. CASE DrawStored(w)
  <2>1. /\ UNCHANGED <<cell_ch, mouse, position, cursor, spaces, redrawn>>
        /\ pc[w] = "draw" /\ redrawn[w] = 0 /\ cur_col < con_cols
        /\ c[w] \in Chars \cup {"backspace"}
    BY <1>0, <1>9 DEF DrawStored, AtStep
  <2>2. screen' \in [Cells -> Chars \cup {Block, Pointer}]
    BY <1>9, <2>1, DrawType, InCells DEF DrawStored, ConType
  <2>3. /\ pc' \in [Writers -> Steps] /\ c' \in [Writers -> Chars \cup Controls]
        /\ pc'[w] = "idle" \/ (pc'[w] = "pass" /\ c' = c /\ c[w] # "backspace")
    <3>1. CASE c[w] = "backspace"  BY <1>0, <1>9, <3>1, DoneStep DEF DrawStored
    <3>2. CASE c[w] # "backspace"
      BY <1>0, <1>9, <3>2, GotoStep DEF DrawStored, ConType, Steps
    <3> QED  BY <3>1, <3>2
  <2>4. AtStep(w)'  BY <2>1, <2>3 DEF AtStep, position
  <2>5. ConType'  BY <2>1, <2>2, <2>3 DEF ConType, position, cursor
  <2> QED  BY <1>a, <2>1, <2>4, <2>5 DEF Recorded, cursor
<1>10. CASE Pass(w)
  <2>1. /\ UNCHANGED <<cell_ch, screen, cursor, mouse, cur_row, redrawn>>
        /\ redrawn[w] = 0 /\ cur_col' = cur_col + 1 /\ cur_col < con_cols /\ Return(w)
    BY <1>0, <1>10 DEF Pass, AtStep
  <2>2. /\ pc' \in [Writers -> Steps] /\ pc'[w] \in {"idle", "putchar"}
        /\ c' \in [Writers -> Chars \cup Controls] /\ spaces' \in [Writers -> Nat]
    BY <1>0, <2>1, ReturnStep
  <2>3. AtStep(w)'  BY <2>1, <2>2 DEF AtStep
  <2>4. cur_col' \in 0 .. con_cols  BY <2>1, Sizes DEF ConType
  <2> QED  BY <1>b, <2>1, <2>2, <2>3, <2>4 DEF ConType
<1>11. CASE Back(w)
  <2>1. /\ pc' \in [Writers -> Steps] /\ pc'[w] = "store" /\ c[w] = "backspace"
        /\ UNCHANGED <<cell_ch, cursor, c, spaces, redrawn, screen, mouse>>
        /\ redrawn[w] = 0 /\ MoveBack
    BY <1>0, <1>11, GotoStep DEF Back, ConType, Steps, AtStep
  <2>2. cur_row' \in 0 .. con_rows - 1 /\ cur_col' \in 0 .. con_cols /\ cur_col' < con_cols
    BY <2>1, Sizes DEF MoveBack, ConType, position
  <2>3. AtStep(w)'  BY <2>1, <2>2 DEF AtStep
  <2> QED  BY <1>b, <2>1, <2>2, <2>3 DEF ConType
\* A line is left: what was under way is done, or goes on in the first column.
<1>12. ASSUME AfterNewline(w), cur_col = 0, c[w] \in Chars \cup {"newline"}, redrawn'[w] = 0,
              cur_col' = 0
       PROVE  /\ pc' \in [Writers -> Steps] /\ c' \in [Writers -> Chars \cup Controls]
              /\ AtStep(w)'
  <2>1. CASE c[w] \in Chars
    <3>1. Goto(w, "store") /\ c' = c  BY <1>12, <2>1 DEF AfterNewline
    <3>2. pc' \in [Writers -> Steps] /\ pc'[w] = "store"
      BY <1>0, <3>1, GotoStep DEF ConType, Steps
    <3> QED  BY <1>12, <2>1, <3>1, <3>2, Sizes DEF AtStep, ConType
  <2>2. CASE c[w] \notin Chars
    <3>1. Done(w)  BY <1>12, <2>2 DEF AfterNewline
    <3>2. /\ pc' \in [Writers -> Steps] /\ pc'[w] = "idle"
          /\ c' \in [Writers -> Chars \cup Controls]
      BY <1>0, <3>1, DoneStep
    <3> QED  BY <1>12, <3>2 DEF AtStep
  <2> QED  BY <2>1, <2>2
<1>13. CASE NextRow(w)
  <2>1. /\ UNCHANGED <<cell_ch, cur_col, cursor, spaces, redrawn, screen, mouse>>
        /\ redrawn[w] = 0 /\ cur_col = 0 /\ c[w] \in Chars \cup {"newline"}
        /\ AfterNewline(w) /\ cur_row' = cur_row + 1 /\ cur_row + 1 < con_rows
    BY <1>0, <1>13 DEF NextRow, AtStep
  <2>2. cur_row' \in 0 .. con_rows - 1  BY <2>1, Sizes DEF ConType
  <2> QED  BY <1>b, <1>12, <2>1, <2>2 DEF ConType
<1>14. CASE Scroll(w)
  <2>1. /\ pc' \in [Writers -> Steps] /\ pc'[w] = "scrolled"
        /\ UNCHANGED <<position, cursor, c, spaces, redrawn, screen, mouse>>
        /\ redrawn[w] = 0 /\ cur_col = 0 /\ c[w] \in Chars \cup {"newline"}
    BY <1>0, <1>14, GotoStep DEF Scroll, ConType, Steps, AtStep
  <2>2. cell_ch' \in [Cells -> Chars]
    BY <1>14, Sizes, CharsAssumption DEF Scroll, ConType, Cells
  <2>3. AtStep(w)'  BY <2>1 DEF AtStep, position
  <2>4. ConType'  BY <2>1, <2>2 DEF ConType, position, cursor
  <2> QED  BY <1>a, <2>1, <2>3, <2>4 DEF Recorded, cursor
<1>15. CASE Scrolled(w)
  <2>1. /\ pc' \in [Writers -> Steps] /\ pc'[w] = "redraw"
        /\ UNCHANGED <<cell_ch, cur_col, c, spaces, redrawn, screen, mouse>>
        /\ cur_row' = con_rows - 1 /\ cursor_shown' = FALSE
        /\ cur_col = 0 /\ c[w] \in Chars \cup {"newline"}
    BY <1>0, <1>15, GotoStep DEF Scrolled, ConType, Steps, AtStep
  <2>2. ConType'
    <3>1. cur_row' \in 0 .. con_rows - 1 /\ cur_col' \in 0 .. con_cols
      BY <2>1, Sizes
    <3> QED  BY <2>1, <3>1 DEF ConType
  <2>3. AtStep(w)'  BY <2>1 DEF AtStep
  <2> QED  BY <1>a, <2>1, <2>2, <2>3
<1>16. CASE RedrawCell(w)
  <2>1. /\ UNCHANGED <<cell_ch, position, cursor, pc, c, spaces, mouse>>
        /\ pc[w] = "redraw" /\ redrawn[w] < Size /\ draw_cell(Cell(redrawn[w]))
        /\ redrawn' = [redrawn EXCEPT ![w] = @ + 1]
    BY <1>16 DEF RedrawCell
  <2>2. Cell(redrawn[w]) \in Cells
    BY <1>0, <2>1, CellInCells DEF ConType
  <2>3. screen' \in [Cells -> Chars \cup {Block, Pointer}]  BY <2>1, <2>2, DrawType
  <2>4. redrawn' \in [Writers -> 0..Size]
    <3>1. redrawn[w] \in 0..Size /\ Size \in Nat  BY <1>0, SizeNat DEF ConType
    <3>2. redrawn[w] + 1 \in 0..Size  BY <2>1, <3>1
    <3> QED  BY <1>0, <2>1, <3>2 DEF ConType
  <2>5. AtStep(w)'  BY <1>0, <2>1 DEF AtStep, position
  <2>6. ConType'  BY <2>1, <2>3, <2>4 DEF ConType, position, cursor
  <2> QED  BY <1>a, <2>1, <2>5, <2>6 DEF Recorded, cursor
<1>17. CASE Redrawn(w)
  <2>1. /\ UNCHANGED <<cell_ch, position, cursor, spaces, screen, mouse>>
        /\ redrawn' = [redrawn EXCEPT ![w] = 0] /\ AfterNewline(w)
        /\ cur_col = 0 /\ c[w] \in Chars \cup {"newline"}
    BY <1>0, <1>17 DEF Redrawn, AtStep
  <2>2. redrawn' \in [Writers -> 0..Size] /\ redrawn'[w] = 0
    BY <1>0, <2>1, SizeNat DEF ConType
  <2>3. cur_col' = 0 /\ cur_row' = cur_row  BY <2>1 DEF position
  <2> QED  BY <1>b, <1>12, <2>1, <2>2, <2>3 DEF ConType
<1> QED
  BY <1>1, <1>2, <1>3, <1>4, <1>5, <1>6, <1>7, <1>8, <1>9, <1>10, <1>11,
     <1>13, <1>14, <1>15, <1>16, <1>17 DEF WriterStep

-----------------------------------------------------------------------------
(* The clock and the mouse.                                                *)

LEMMA PlaceBlink ==
  ASSUME PlaceInv, fbcon_cursor_blink
  PROVE  PlaceInv'
<1> USE DEF PlaceInv
<1>1. UNCHANGED <<cell_ch, position, local, mouse>>
  BY DEF fbcon_cursor_blink, BlinkOff, BlinkOn
<1>2. \A w \in Writers : AtStep(w)'  BY <1>1 DEF AtStep, position, local
<1>3. screen' \in [Cells -> Chars \cup {Block, Pointer}] /\ cursor_shown' \in BOOLEAN
  <2>1. CASE BlinkOff  BY <2>1, DrawType DEF BlinkOff
  <2>2. CASE BlinkOn
    <3>1. cursor_shown' \in BOOLEAN  BY <2>2 DEF BlinkOn
    <3>2. \/ screen' = screen
          \/ screen' = [screen EXCEPT ![<<cur_row, cur_col>>] = Block]
      BY <2>2 DEF BlinkOn, Paint
    <3> QED  BY <3>1, <3>2 DEF ConType
  <2> QED  BY <2>1, <2>2 DEF fbcon_cursor_blink
<1>4. ConType'  BY <1>1, <1>3 DEF ConType, position, local
<1>5. cursor_shown' => Recorded' \in Cells
  <2>1. CASE BlinkOff  BY <2>1 DEF BlinkOff
  <2>2. CASE BlinkOn  BY <2>2 DEF BlinkOn, Recorded
  <2> QED  BY <2>1, <2>2 DEF fbcon_cursor_blink
<1> QED  BY <1>2, <1>4, <1>5

\* What a cell shows, or will show, does not change when the mouse moves.
LEMMA MouseUnder ==
  ASSUME ConType, NEW p \in MousePlaces, draw_mouse_cursor(p)
  PROVE  /\ \A q \in Cells : Under(q)' = Under(q)
         /\ mouse' \in [at : Cells \cup {Outside}, saved : Chars \cup {Block, Pointer}]
         /\ screen' \in [Cells -> Chars \cup {Block, Pointer}]
<1> DEFINE old == IF mouse.at \in Cells THEN [screen EXCEPT ![mouse.at] = mouse.saved]
                  ELSE screen
<1>1. p \in Cells \cup {Outside}  BY PlacesAssumption
<1>2. /\ mouse' = [at |-> p, saved |-> IF p \in Cells THEN old[p] ELSE Space]
      /\ screen' = IF p \in Cells THEN [old EXCEPT ![p] = Pointer] ELSE old
  BY DEF draw_mouse_cursor
<1>3. /\ old \in [Cells -> Chars \cup {Block, Pointer}]
      /\ \A q \in Cells : old[q] = Under(q)
  BY DEF ConType, Under
<1> HIDE DEF old
<1>4. \A q \in Cells : Under(q)' = Under(q)
  <2> SUFFICES ASSUME NEW q \in Cells PROVE Under(q)' = Under(q)  OBVIOUS
  <2>1. CASE q = p  BY <1>2, <1>3, <2>1 DEF Under
  <2>2. CASE q # p  BY <1>2, <1>3, <2>2 DEF Under
  <2> QED  BY <2>1, <2>2
<1>5. mouse' \in [at : Cells \cup {Outside}, saved : Chars \cup {Block, Pointer}]
  BY <1>1, <1>2, <1>3, CharsAssumption
<1>6. screen' \in [Cells -> Chars \cup {Block, Pointer}]  BY <1>2, <1>3
<1> QED  BY <1>4, <1>5, <1>6

LEMMA PlaceMouse ==
  ASSUME PlaceInv, NEW p \in MousePlaces, draw_mouse_cursor(p)
  PROVE  PlaceInv'
<1> USE DEF PlaceInv
<1>1. UNCHANGED <<cell_ch, position, cursor, local>>  BY DEF draw_mouse_cursor
<1>2. ConType'  BY <1>1, MouseUnder DEF ConType, position, cursor, local
<1>3. \A w \in Writers : AtStep(w)'  BY <1>1 DEF AtStep, position, local
<1> QED  BY <1>1, <1>2, <1>3 DEF Recorded, cursor

LEMMA PlaceInit == Init => PlaceInv
<1> SUFFICES ASSUME Init PROVE PlaceInv  OBVIOUS
<1>1. ConType
  <2>1. cur_row \in 0 .. con_rows - 1 /\ cur_col \in 0 .. con_cols  BY Sizes DEF Init
  <2>2. /\ cell_ch \in [Cells -> Chars] /\ screen \in [Cells -> Chars \cup {Block, Pointer}]
        /\ mouse \in [at : Cells \cup {Outside}, saved : Chars \cup {Block, Pointer}]
    BY CharsAssumption DEF Init
  <2>3. /\ pc \in [Writers -> Steps] /\ c \in [Writers -> Chars \cup Controls]
        /\ spaces \in [Writers -> Nat] /\ redrawn \in [Writers -> 0..Size]
    BY SizeNat, CharsAssumption DEF Init, Steps
  <2>4. cursor_shown \in BOOLEAN  BY DEF Init
  <2> QED  BY <2>1, <2>2, <2>3, <2>4 DEF ConType
<1>2. \A w \in Writers : AtStep(w)  BY DEF Init, AtStep
<1> QED  BY <1>1, <1>2 DEF PlaceInv, Init

LEMMA PlaceStep ==
  ASSUME NEW w, Writers = {w}, PlaceInv, [Next]_vars
  PROVE  PlaceInv'
<1>1. CASE WriterStep(w)  BY <1>1, PlaceWriter
<1>2. CASE fbcon_cursor_blink  BY <1>2, PlaceBlink
<1>3. CASE \E p \in MousePlaces : draw_mouse_cursor(p)  BY <1>3, PlaceMouse
<1>4. CASE UNCHANGED vars
  <2>1. UNCHANGED <<cell_ch, screen, mouse, position, cursor, local>>  BY <1>4 DEF vars
  <2>2. ConType'  BY <2>1 DEF PlaceInv, ConType, position, cursor, local
  <2>3. \A v \in Writers : AtStep(v)'  BY <2>1 DEF PlaceInv, AtStep, position, local
  <2> QED  BY <2>1, <2>2, <2>3 DEF PlaceInv, Recorded, cursor
<1> QED  BY <1>1, <1>2, <1>3, <1>4 DEF Next

\* fbcon_putchar with its newline, scroll, backspace and tab (fbcon.c:110-193):
\* on a console of any size no character is stored outside the rectangle, and
\* the cursor is recorded outside it only while it is not shown.
THEOREM StaysInside ==
  ASSUME NEW w, Writers = {w}
  PROVE  Spec => []InsideRectangle
<1>1. PlaceInv /\ [Next]_vars => PlaceInv'  BY PlaceStep
<1>2. PlaceInv => InsideRectangle
  BY InCells DEF PlaceInv, InsideRectangle, AtStep, ConType
<1> QED  BY PlaceInit, <1>1, <1>2, PTL DEF Spec

-----------------------------------------------------------------------------
(* The screen.                                                             *)

\* A cell shows its character, or the cursor's block where it is recorded.
Shows(p) ==
    \/ Under(p) = cell_ch[p]
    \/ Under(p) = Block /\ cursor_shown /\ p = Recorded

LEMMA ShownByOne ==
  ASSUME NEW w, Writers = {w}
  PROVE  EveryCellShown <=> \A p \in Cells \ (overdrawn \cup Pending(w)) : Shows(p)
<1>1. UNION {Pending(v) : v \in Writers} = Pending(w)  OBVIOUS
<1> QED  BY <1>1 DEF EveryCellShown, Shows

LEMMA ShownByOneNext ==
  ASSUME NEW w, Writers = {w},
         \A p \in Cells \ (overdrawn' \cup Pending(w)') : Shows(p)'
  PROVE  EveryCellShown'
<1>1. UNION {Pending(v)' : v \in Writers} = Pending(w)'  OBVIOUS
<1> QED  BY <1>1 DEF EveryCellShown, Shows

\* A painted cell shows what was painted, unless the pointer is on it.
LEMMA PaintUnder ==
  ASSUME ConType, NEW p, NEW what, Paint(p, what), mouse' = mouse
  PROVE  \A q \in Cells \ overdrawn' :
            /\ q = p => Under(q)' = what
            /\ q # p => Under(q)' = Under(q) /\ q \notin overdrawn
  BY DEF ConType, Paint, Lost, Under

\* Steps of the printer that touch neither text, screen nor cursor, and leave
\* nothing undrawn behind.
LEMMA ShowKept ==
  ASSUME NEW w, Writers = {w}, EveryCellShown,
         UNCHANGED <<cell_ch, screen, cursor, mouse, overdrawn>>,
         Pending(w) \subseteq Pending(w)'
  PROVE  EveryCellShown'
<1>1. \A p \in Cells : Shows(p) => Shows(p)'
  BY DEF Shows, Under, Recorded, cursor
<1>2. \A p \in Cells \ (overdrawn' \cup Pending(w)') : p \in Cells \ (overdrawn \cup Pending(w))
  OBVIOUS
<1>3. \A p \in Cells \ (overdrawn \cup Pending(w)) : Shows(p)  BY ShownByOne
<1>4. \A p \in Cells \ (overdrawn' \cup Pending(w)') : Shows(p)'  BY <1>1, <1>2, <1>3
<1> QED  BY <1>4, ShownByOneNext

\* One cell gets its character; it was the only one that was undrawn.
LEMMA ShowDrawn ==
  ASSUME NEW w, Writers = {w}, EveryCellShown, ConType, NEW p, draw_cell(p),
         UNCHANGED <<cell_ch, mouse>>,
         cursor_shown /\ Recorded # p => cursor_shown' /\ Recorded' = Recorded,
         Pending(w) \subseteq Pending(w)' \cup {p}
  PROVE  EveryCellShown'
<1>1. \A q \in Cells \ overdrawn' :
         /\ q = p => Under(q)' = cell_ch[p]
         /\ q # p => Under(q)' = Under(q) /\ q \notin overdrawn
  BY PaintUnder DEF draw_cell
<1>2. \A q \in Cells \ (overdrawn \cup Pending(w)) : Shows(q)  BY ShownByOne
<1>3. ASSUME NEW q \in Cells \ (overdrawn' \cup Pending(w)') PROVE Shows(q)'
  <2>1. CASE q = p  BY <1>1, <2>1 DEF Shows
  <2>2. CASE q # p
    <3>1. Under(q)' = Under(q) /\ Shows(q)  BY <1>1, <1>2, <1>3, <2>2
    <3> QED  BY <2>2, <3>1 DEF Shows
  <2> QED  BY <2>1, <2>2
<1> QED  BY <1>3, ShownByOneNext

\* All cells are to be drawn.
LEMMA ShowAll ==
  ASSUME NEW w, Writers = {w}, Cells \subseteq Pending(w)'
  PROVE  EveryCellShown'
  BY ShownByOneNext

\* fbcon_clear and scroll_up are about to draw every cell.
LEMMA ShowReset ==
  ASSUME NEW w, Writers = {w}, PlaceInv, PlaceInv', Cleared(w) \/ Scrolled(w)
  PROVE  EveryCellShown'
<1>1. ConType /\ AtStep(w) /\ w \in Writers  BY DEF PlaceInv
<1>2. pc'[w] = "redraw" /\ redrawn'[w] = 0
  BY <1>1 DEF Cleared, Scrolled, Goto, ConType, AtStep
<1>3. Pending(w)' = {Cell(i) : i \in 0 .. Size - 1}  BY <1>2 DEF Pending
<1> QED  BY <1>3, CellsNumbered, ShowAll

LEMMA ShowWriter ==
  ASSUME NEW w, Writers = {w}, PlaceInv, PlaceInv', EveryCellShown, WriterStep(w)
  PROVE  EveryCellShown'
<1>0. ConType /\ AtStep(w) /\ ConType' /\ AtStep(w)' /\ w \in Writers
  BY DEF PlaceInv
<1>a. ASSUME pc[w] \notin {"uncover", "draw", "scrolled", "cleared", "redraw"}
      PROVE  Pending(w) = {}
  BY <1>a DEF Pending
<1>1. ASSUME pc[w] \notin {"uncover", "draw", "scrolled", "cleared", "redraw"},
             UNCHANGED <<cell_ch, screen, cursor, mouse, overdrawn>>
      PROVE  EveryCellShown'
  BY <1>a, <1>1, ShowKept
<1>2. CASE \E x \in Chars \cup Controls : kputchar(w, x)
  BY <1>1, <1>2 DEF kputchar
<1>3. CASE fbcon_clear(w)
  <2>1. pc'[w] = "cleared"  BY <1>0, <1>3 DEF fbcon_clear, Goto, ConType
  <2>2. Pending(w)' = Cells  BY <2>1 DEF Pending
  <2> QED  BY <2>2, ShowAll
<1>5. CASE Cleared(w)  BY <1>5, ShowReset
<1>6. CASE Scroll(w)
  <2>1. pc'[w] = "scrolled"  BY <1>0, <1>6 DEF Scroll, Goto, ConType
  <2>2. Pending(w)' = Cells  BY <2>1 DEF Pending
  <2> QED  BY <2>2, ShowAll
<1>7. CASE Scrolled(w)  BY <1>7, ShowReset
<1>8. CASE HideTest(w)  BY <1>1, <1>8 DEF HideTest, ghost
<1>9. CASE HideClear(w)
  <2>1. /\ pc[w] = "hide" /\ pc'[w] = "uncover" /\ cursor_shown' = FALSE
        /\ UNCHANGED <<cell_ch, screen, mouse, overdrawn, cursor_row, cursor_col>>
    BY <1>0, <1>9 DEF HideClear, Goto, ConType, ghost
  <2>2. Pending(w) = {} /\ Pending(w)' = {Recorded} \cap Cells
    BY <1>a, <2>1 DEF Pending, Recorded
  <2>3. \A q \in Cells \ (overdrawn \cup Pending(w)) : Shows(q)  BY ShownByOne
  <2>4. \A q \in Cells \ (overdrawn' \cup Pending(w)') : Shows(q)'
    BY <2>1, <2>2, <2>3 DEF Shows, Under
  <2> QED  BY <2>4, ShownByOneNext
<1>10. CASE HideDraw(w)
  <2>1. /\ pc[w] = "uncover" /\ pc'[w] = "body"
        /\ IF Covered \in Cells THEN draw_cell(Covered) ELSE UNCHANGED <<screen, overdrawn>>
        /\ UNCHANGED <<cell_ch, cursor, mouse>>
    BY <1>0, <1>10 DEF HideDraw, Goto, ConType
  <2>2. Pending(w) = {Covered} \cap Cells /\ Pending(w)' = {}
    BY <2>1 DEF Pending, Recorded, Covered
  <2>3. CASE Covered \in Cells
    BY <1>0, <2>1, <2>2, <2>3, ShowDrawn DEF Recorded, cursor
  <2>4. CASE Covered \notin Cells  BY <2>1, <2>2, <2>4, ShowKept
  <2> QED  BY <2>3, <2>4
<1>11. CASE Body(w)  BY <1>1, <1>11 DEF Body
<1>12. CASE Store(w)
  <2> DEFINE p == <<cur_row, cur_col>>
  <2>1. /\ pc[w] = "store" /\ pc'[w] = "draw" /\ p \in Cells
        /\ \A q \in Cells \ {p} : cell_ch'[q] = cell_ch[q]
        /\ UNCHANGED <<position, cursor, screen, mouse, overdrawn>>
    BY <1>0, <1>12, InCells DEF Store, Goto, ConType, AtStep, ghost
  <2>2. Pending(w) = {} /\ Pending(w)' = {p}
    BY <1>a, <2>1 DEF Pending, position
  <2>3. \A q \in Cells \ (overdrawn \cup Pending(w)) : Shows(q)  BY ShownByOne
  <2>4. \A q \in Cells \ (overdrawn' \cup Pending(w)') : Shows(q)'
    BY <2>1, <2>2, <2>3 DEF Shows, Under, Recorded, cursor
  <2> QED  BY <2>4, ShownByOneNext
<1>13. CASE DrawStored(w)
  <2>1. /\ pc[w] = "draw" /\ draw_cell(<<cur_row, cur_col>>)
        /\ UNCHANGED <<cell_ch, cursor, mouse>>
    BY <1>13 DEF DrawStored
  <2>2. Pending(w) = {<<cur_row, cur_col>>}  BY <2>1 DEF Pending
  <2> QED  BY <1>0, <2>1, <2>2, ShowDrawn DEF Recorded, cursor
<1>14. CASE Pass(w)  BY <1>1, <1>14 DEF Pass
<1>15. CASE Back(w)  BY <1>1, <1>15 DEF Back, ghost
<1>16. CASE NextRow(w)  BY <1>1, <1>16 DEF NextRow, ghost
<1>17. CASE RedrawCell(w)
  <2> DEFINE i == redrawn[w]
  <2>1. /\ pc[w] = "redraw" /\ pc'[w] = "redraw" /\ i < Size /\ draw_cell(Cell(i))
        /\ redrawn'[w] = i + 1
        /\ UNCHANGED <<cell_ch, cursor, mouse>>
    BY <1>0, <1>17 DEF RedrawCell, ConType
  <2>2. i \in 0 .. Size /\ Size \in Nat  BY <1>0, SizeNat DEF ConType
  <2>3. Pending(w) = {Cell(j) : j \in i .. Size - 1}  BY <2>1 DEF Pending
  <2>4. Pending(w)' = {Cell(j) : j \in i + 1 .. Size - 1}
    BY <2>1 DEF Pending
  <2> HIDE DEF i
  <2>5. \A j \in i .. Size - 1 : j = i \/ j \in i + 1 .. Size - 1  BY <2>2
  <2>6. Pending(w) \subseteq Pending(w)' \cup {Cell(i)}  BY <2>3, <2>4, <2>5
  <2> QED  BY <1>0, <2>1, <2>6, ShowDrawn DEF Recorded, cursor
<1>18. CASE Redrawn(w)
  <2>1. /\ pc[w] = "redraw" /\ redrawn[w] = Size
        /\ UNCHANGED <<cell_ch, screen, cursor, mouse, overdrawn>>
    BY <1>18 DEF Redrawn, ghost
  <2>2. Size .. Size - 1 = {}  BY SizeNat
  <2>3. Pending(w) = {}  BY <2>1, <2>2 DEF Pending
  <2> QED  BY <2>1, <2>3, ShowKept
<1> QED
  BY <1>2, <1>3, <1>5, <1>6, <1>7, <1>8, <1>9, <1>10, <1>11, <1>12, <1>13, <1>14,
     <1>15, <1>16, <1>17, <1>18 DEF WriterStep

\* A blink that has not moved the recorded place under cursor_hide.
LEMMA ShowBlink ==
  ASSUME NEW w, Writers = {w}, PlaceInv, EveryCellShown, fbcon_cursor_blink, ~misled'
  PROVE  EveryCellShown'
<1>0. ConType /\ (cursor_shown => Recorded \in Cells)  BY DEF PlaceInv
<1>1. CASE BlinkOff
  <2>1. /\ cursor_shown /\ draw_cell(Recorded)
        /\ UNCHANGED <<cell_ch, mouse, cursor_row, cursor_col, position, pc, redrawn>>
    BY <1>1 DEF BlinkOff, local
  <2>2. Pending(w)' = Pending(w)  BY <2>1 DEF Pending, Recorded, position
  <2>3. \A q \in Cells \ (overdrawn \cup Pending(w)) : Shows(q)  BY ShownByOne
  <2>4. \A q \in Cells \ overdrawn' :
           /\ q = Recorded => Under(q)' = cell_ch[Recorded]
           /\ q # Recorded => Under(q)' = Under(q) /\ q \notin overdrawn
    BY <1>0, <2>1, PaintUnder DEF draw_cell
  <2>5. \A q \in Cells \ (overdrawn' \cup Pending(w)') : Shows(q)'
    BY <2>1, <2>2, <2>3, <2>4 DEF Shows
  <2> QED  BY <2>5, ShownByOneNext
<1>2. CASE BlinkOn
  <2> DEFINE p == <<cur_row, cur_col>>
  <2>1. /\ ~cursor_shown /\ Recorded' = p /\ cursor_shown' = (p \in Cells)
        /\ UNCHANGED <<cell_ch, mouse, position, pc, redrawn>>
    BY <1>2 DEF BlinkOn, local, Recorded
  <2>2. \A q \in Cells \ (overdrawn \cup Pending(w)) : Under(q) = cell_ch[q]
    BY <2>1, ShownByOne DEF Shows
  <2>3. \A q \in Cells \ overdrawn' : q # p => Under(q)' = Under(q) /\ q \notin overdrawn
    BY <1>0, <1>2, <2>1 DEF BlinkOn, Paint, ConType, Lost, Under
  <2>4. \A q \in Cells \ overdrawn' : q = p => Under(q)' = Block
    <3> SUFFICES ASSUME NEW q \in Cells \ overdrawn', q = p PROVE Under(q)' = Block
      OBVIOUS
    <3>1. screen' = [screen EXCEPT ![q] = Block] /\ overdrawn' = Lost(q)
      BY <1>2 DEF BlinkOn, Paint
    <3>2. screen'[q] = Block  BY <1>0, <3>1 DEF ConType
    <3>3. mouse.at # q  BY <3>1 DEF Lost
    <3> QED  BY <2>1, <3>2, <3>3 DEF Under
  <2>5. \A q \in Cells \ (overdrawn' \cup Pending(w)') : q # p => q \notin Pending(w)
    <3>1. CASE pc[w] = "uncover"
      <4>1. Pending(w) = {Recorded} \cap Cells  BY <3>1 DEF Pending
      <4>2. Recorded = p  BY <1>2, <2>1, <3>1 DEF BlinkOn
      <4> QED  BY <4>1, <4>2
    <3>2. CASE pc[w] # "uncover"
      <4>1. Pending(w)' = Pending(w)  BY <2>1, <3>2 DEF Pending, position
      <4> QED  BY <4>1
    <3> QED  BY <3>1, <3>2
  <2>6. ASSUME NEW q \in Cells \ (overdrawn' \cup Pending(w)') PROVE Shows(q)'
    <3>1. CASE q = p
      <4>1. Under(q)' = Block  BY <2>4, <2>6, <3>1
      <4>2. cursor_shown' /\ Recorded' = q  BY <2>1, <3>1
      <4> QED  BY <4>1, <4>2 DEF Shows
    <3>2. CASE q # p
      <4>1. Under(q)' = cell_ch[q]  BY <2>2, <2>3, <2>5, <2>6, <3>2
      <4> QED  BY <2>1, <4>1 DEF Shows
    <3> QED  BY <3>1, <3>2
  <2> QED  BY <2>6, ShownByOneNext
<1> QED  BY <1>1, <1>2 DEF fbcon_cursor_blink

LEMMA ShowMouse ==
  ASSUME NEW w, Writers = {w}, PlaceInv, EveryCellShown,
         NEW p \in MousePlaces, draw_mouse_cursor(p)
  PROVE  EveryCellShown'
<1>1. UNCHANGED <<cell_ch, position, cursor, local, overdrawn>>
  BY DEF draw_mouse_cursor, ghost
<1>2. Pending(w)' = Pending(w)  BY <1>1 DEF Pending, Recorded, position, cursor, local
<1>3. \A q \in Cells : Under(q)' = Under(q)  BY MouseUnder DEF PlaceInv
<1>4. \A q \in Cells \ (overdrawn \cup Pending(w)) : Shows(q)  BY ShownByOne
<1>5. \A q \in Cells \ (overdrawn' \cup Pending(w)') : Shows(q)'
  BY <1>1, <1>2, <1>3, <1>4 DEF Shows, Recorded, cursor
<1> QED  BY <1>5, ShownByOneNext

\* The printer, fbcon_cursor_blink and draw_mouse_cursor (fbcon.c:120-193,
\* mouse.c:58-86), each between any two steps of the others: every cell shows
\* its character or the cursor's block, apart from cells drawn under the
\* pointer, unless since the last redraw of the whole screen a blink has moved
\* the recorded place between the two halves of cursor_hide.
THEOREM ScreenShowsText ==
  ASSUME NEW w, Writers = {w}
  PROVE  Spec => []TextShown
<1>1. Init => ShowInv
  <2>1. Init => EveryCellShown
    BY CharsAssumption DEF Init, EveryCellShown, Under
  <2> QED  BY <2>1, PlaceInit DEF ShowInv, TextShown
<1>2. ShowInv /\ [Next]_vars => ShowInv'
  <2> SUFFICES ASSUME ShowInv, [Next]_vars PROVE ShowInv'  OBVIOUS
  <2>1. PlaceInv /\ PlaceInv'  BY PlaceStep DEF ShowInv
  <2> SUFFICES ASSUME ~misled' PROVE EveryCellShown'  BY <2>1 DEF ShowInv, TextShown
  <2>2. CASE Cleared(w) \/ Scrolled(w)  BY <2>1, <2>2, ShowReset
  <2>3. CASE ~(Cleared(w) \/ Scrolled(w))
    <3>1. ~misled
      <4>1. ASSUME WriterStep(w) PROVE misled' = misled
        BY <2>3, <4>1 DEF WriterStep, kputchar, fbcon_clear, HideTest, HideClear,
           HideDraw, Body, Store, DrawStored, Pass, Back, NextRow, Scroll, RedrawCell,
           Redrawn, ghost
      <4>2. ASSUME fbcon_cursor_blink, misled PROVE misled'
        BY <4>2 DEF fbcon_cursor_blink, BlinkOff, BlinkOn
      <4>3. ASSUME NEW p \in MousePlaces, draw_mouse_cursor(p) PROVE misled' = misled
        BY <4>3 DEF draw_mouse_cursor, ghost
      <4>4. ASSUME UNCHANGED vars PROVE misled' = misled  BY <4>4 DEF vars, ghost
      <4> QED  BY <4>1, <4>2, <4>3, <4>4 DEF Next
    <3>2. EveryCellShown  BY <3>1 DEF ShowInv, TextShown
    <3>3. CASE WriterStep(w)  BY <2>1, <3>2, <3>3, ShowWriter
    <3>4. CASE fbcon_cursor_blink  BY <2>1, <3>2, <3>4, ShowBlink
    <3>5. CASE \E p \in MousePlaces : draw_mouse_cursor(p)
      BY <2>1, <3>2, <3>5, ShowMouse
    <3>6. CASE UNCHANGED vars
      <4>1. UNCHANGED <<cell_ch, screen, cursor, mouse, overdrawn, position, local>>
        BY <3>6 DEF vars, ghost
      <4>2. Pending(w)' = Pending(w)
        BY <4>1 DEF Pending, Recorded, position, cursor, local
      <4> QED  BY <3>2, <4>1, <4>2, ShowKept
    <3> QED  BY <3>3, <3>4, <3>5, <3>6 DEF Next
  <2> QED  BY <2>2, <2>3
<1>3. ShowInv => TextShown  BY DEF ShowInv
<1> QED  BY <1>1, <1>2, <1>3, PTL DEF Spec

-----------------------------------------------------------------------------
(* The line.                                                               *)

Here == cur_row * con_cols + cur_col

\* In the text ch the string s stands in the cells before the one numbered h.
Before(ch, h, s) ==
    \A i \in 1..Len(s) :
       LET p == h - 1 - (Len(s) - i) IN p >= 0 => ch[Cell(p)] = s[i]

\* The character at the end of the line has not been stored yet.
Unstored(w) == c[w] \in Chars /\ pc[w] \notin {"idle", "draw", "pass"}
StoredText(w) == IF Unstored(w) THEN SubSeq(line, 1, Len(line) - 1) ELSE line

\* What has been stored ends before this place: the next row when a line is
\* left, the next cell between a character's storing and its passing, the
\* cell before this one until a backspace has moved there.
EndOfText(w) ==
    CASE pc[w] = "nextline" -> Here + con_cols
      [] pc[w] \in {"draw", "pass"} /\ c[w] \in Chars -> Here + 1
      [] pc[w] \notin {"idle", "store", "draw"} /\ c[w] = "backspace" -> Here - 1
      [] OTHER -> Here

LineInv(w) ==
    /\ line \in Seq(Chars)
    /\ Unstored(w) => line # <<>> /\ line[Len(line)] = c[w]
    /\ c[w] \in {"newline", "return"} => line = <<>>
    /\ spaces[w] > 0 => c[w] = Space /\ pc[w] # "idle"
    /\ pc[w] = "scrolled" => cur_row = con_rows - 1
    /\ Before(cell_ch, EndOfText(w), StoredText(w))

LEMMA FrontOf ==
  ASSUME NEW s \in Seq(Chars), s # <<>>
  PROVE  LET t == SubSeq(s, 1, Len(s) - 1)
         IN  t \in Seq(Chars) /\ Len(t) = Len(s) - 1 /\ \A i \in 1..Len(t) : t[i] = s[i]
<1> DEFINE t == SubSeq(s, 1, Len(s) - 1)
<1>1. Len(s) \in Nat /\ Len(s) > 0  OBVIOUS
<1>2. t = [i \in 1 .. Len(s) - 1 |-> s[i]]  BY <1>1
<1>3. \A i \in 1 .. Len(s) - 1 : s[i] \in Chars  OBVIOUS
<1>4. t \in Seq(Chars)  BY <1>1, <1>2, <1>3
<1> HIDE DEF t
<1>5. DOMAIN t = 1 .. Len(s) - 1  BY <1>2
<1>6. DOMAIN t = 1 .. Len(t) /\ Len(t) \in Nat  BY <1>4
<1>7. Len(t) = Len(s) - 1  BY <1>1, <1>5, <1>6
<1> QED  BY <1>2, <1>4, <1>7 DEF t

LEMMA AppendFront ==
  ASSUME NEW s \in Seq(Chars), NEW x \in Chars
  PROVE  LET t == Append(s, x)
         IN  /\ t \in Seq(Chars) /\ t # <<>> /\ Len(t) = Len(s) + 1
             /\ t[Len(t)] = x /\ SubSeq(t, 1, Len(t) - 1) = s
<1> DEFINE t == Append(s, x)
           u == SubSeq(t, 1, Len(t) - 1)
<1>1. /\ t \in Seq(Chars) /\ Len(t) = Len(s) + 1 /\ t[Len(t)] = x
      /\ \A i \in 1..Len(s) : t[i] = s[i]
  OBVIOUS
<1>2. t # <<>>  BY <1>1
<1> HIDE DEF t
<1>3. u \in Seq(Chars) /\ Len(u) = Len(t) - 1 /\ \A i \in 1..Len(u) : u[i] = t[i]
  BY <1>1, <1>2, FrontOf
<1> HIDE DEF u
<1>4. Len(u) = Len(s) /\ \A i \in 1..Len(s) : u[i] = s[i]  BY <1>1, <1>3
<1>5. u = s  BY <1>3, <1>4
<1> QED  BY <1>1, <1>2, <1>5 DEF t, u

LEMMA EmptyBefore ==
  ASSUME NEW ch, NEW h
  PROVE  Before(ch, h, <<>>)
  BY DEF Before

LEMMA NothingBefore ==
  ASSUME NEW ch, NEW h \in Int, h <= 0, NEW s \in Seq(Chars)
  PROVE  Before(ch, h, s)
  BY DEF Before

\* A string without its last character ends one cell earlier.
LEMMA FrontBefore ==
  ASSUME NEW ch, NEW h \in Int, NEW s \in Seq(Chars), s # <<>>, Before(ch, h, s)
  PROVE  Before(ch, h - 1, SubSeq(s, 1, Len(s) - 1))
<1> DEFINE t == SubSeq(s, 1, Len(s) - 1)
<1>1. Len(s) \in Nat /\ Len(s) > 0  OBVIOUS
<1>2. Len(t) = Len(s) - 1 /\ \A i \in 1..Len(t) : t[i] = s[i]  BY FrontOf
<1> HIDE DEF t
<1>3. ASSUME NEW i \in 1..Len(t), (h - 1) - 1 - (Len(t) - i) >= 0
      PROVE  ch[Cell((h - 1) - 1 - (Len(t) - i))] = t[i]
  <2>1. (h - 1) - 1 - (Len(t) - i) = h - 1 - (Len(s) - i) /\ i \in 1..Len(s)
    BY <1>1, <1>2
  <2> QED  BY <1>2, <1>3, <2>1 DEF Before
<1> QED  BY <1>3 DEF Before, t

\* With its last character in the next cell it ends one cell later.
LEMMA WholeBefore ==
  ASSUME NEW ch, NEW h \in Int, NEW s \in Seq(Chars), s # <<>>,
         Before(ch, h, SubSeq(s, 1, Len(s) - 1)), ch[Cell(h)] = s[Len(s)]
  PROVE  Before(ch, h + 1, s)
<1> DEFINE t == SubSeq(s, 1, Len(s) - 1)
<1>1. Len(s) \in Nat /\ Len(s) > 0  OBVIOUS
<1>2. Len(t) = Len(s) - 1 /\ \A i \in 1..Len(t) : t[i] = s[i]  BY FrontOf
<1>3. Before(ch, h, t)  OBVIOUS
<1> HIDE DEF t
<1>4. ASSUME NEW i \in 1..Len(s), (h + 1) - 1 - (Len(s) - i) >= 0
      PROVE  ch[Cell((h + 1) - 1 - (Len(s) - i))] = s[i]
  <2>1. CASE i = Len(s)
    <3>1. (h + 1) - 1 - (Len(s) - i) = h  BY <1>1, <2>1
    <3> QED  BY <2>1, <3>1
  <2>2. CASE i # Len(s)
    <3>1. (h + 1) - 1 - (Len(s) - i) = h - 1 - (Len(t) - i) /\ i \in 1..Len(t)
      BY <1>1, <1>2, <2>2
    <3> QED  BY <1>2, <1>3, <1>4, <3>1 DEF Before
  <2> QED  BY <2>1, <2>2
<1> QED  BY <1>4 DEF Before

\* Numbers and cells correspond.
LEMMA CellOfNumber ==
  ASSUME NEW r \in 0 .. con_rows - 1, NEW k \in 0 .. con_cols - 1
  PROVE  /\ Cell(r * con_cols + k) = <<r, k>>
         /\ r * con_cols + k \in 0 .. Size - 1
<1>1. Cell(r * con_cols + k) = <<r, k>>  BY Quotient, Sizes DEF Cell
<1>2. (r + 1) * con_cols <= con_rows * con_cols  BY Sizes
<1>3. (r + 1) * con_cols = r * con_cols + con_cols /\ r * con_cols \in Nat  BY Sizes
<1> QED  BY <1>1, <1>2, <1>3, Sizes DEF Size

LEMMA NumberOfCell ==
  ASSUME NEW i \in Nat, NEW j \in Nat, Cell(i) = Cell(j)
  PROVE  i = j
<1>1. i \div con_cols = j \div con_cols /\ i % con_cols = j % con_cols  BY DEF Cell
<1>2. i = con_cols * (i \div con_cols) + (i % con_cols)  BY Sizes
<1>3. j = con_cols * (j \div con_cols) + (j % con_cols)  BY Sizes
<1> QED  BY <1>1, <1>2, <1>3

\* One row up.
LEMMA CellAbove ==
  ASSUME NEW i \in Nat, i + con_cols \in 0 .. Size - 1
  PROVE  /\ Cell(i) \in Cells /\ Cell(i)[1] + 1 < con_rows
         /\ Cell(i + con_cols) = <<Cell(i)[1] + 1, Cell(i)[2]>>
<1> DEFINE q == i \div con_cols
           m == i % con_cols
<1>1. q \in Int /\ m \in 0 .. con_cols - 1 /\ i = con_cols * q + m  BY Sizes
<1>2. Cell(i) = <<q, m>>  BY DEF Cell
<1> HIDE DEF q, m
<1>3. i + con_cols = (q + 1) * con_cols + m  BY <1>1, Sizes
<1>4. Cell(i + con_cols) = <<q + 1, m>>
  <2>1. q + 1 \in Int  BY <1>1
  <2>2. ((q + 1) * con_cols + m) \div con_cols = q + 1 /\ ((q + 1) * con_cols + m) % con_cols = m
    BY <1>1, <2>1, Quotient, Sizes
  <2> QED  BY <1>3, <2>2 DEF Cell
<1>5. Cell(i + con_cols) \in Cells /\ Cell(i) \in Cells
  BY CellInCells, SizeNat, Sizes
<1>6. q + 1 < con_rows  BY <1>1, <1>4, <1>5, Sizes DEF Cells
<1> QED  BY <1>2, <1>4, <1>5, <1>6

\* A character stored at or after the end leaves the string alone.
LEMMA StoreAfter ==
  ASSUME NEW ch, NEW h \in Int, NEW k \in Nat, h <= k, NEW x,
         NEW s \in Seq(Chars), Before(ch, h, s)
  PROVE  Before([ch EXCEPT ![Cell(k)] = x], h, s)
<1> DEFINE new == [ch EXCEPT ![Cell(k)] = x]
<1> SUFFICES ASSUME NEW i \in 1..Len(s), h - 1 - (Len(s) - i) >= 0
             PROVE  new[Cell(h - 1 - (Len(s) - i))] = s[i]
  BY DEF Before
<1> DEFINE p == h - 1 - (Len(s) - i)
<1>1. p \in Nat /\ p < k  OBVIOUS
<1>2. Cell(p) # Cell(k)  BY <1>1, NumberOfCell
<1>3. ch[Cell(p)] = s[i]  BY DEF Before
<1> HIDE DEF p
<1> QED  BY <1>2, <1>3 DEF p

\* A scroll takes the string one row up.
LEMMA ScrollBefore ==
  ASSUME NEW ch, NEW h \in Int, h <= Size, NEW s \in Seq(Chars), Before(ch, h, s)
  PROVE  Before([p \in Cells |-> IF p[1] + 1 < con_rows THEN ch[<<p[1] + 1, p[2]>>] ELSE Space],
                h - con_cols, s)
<1> DEFINE new == [p \in Cells |-> IF p[1] + 1 < con_rows THEN ch[<<p[1] + 1, p[2]>>] ELSE Space]
           at(i) == (h - con_cols) - 1 - (Len(s) - i)
<1> SUFFICES ASSUME NEW i \in 1..Len(s), at(i) >= 0
             PROVE  new[Cell(at(i))] = s[i]
  BY DEF Before
<1>1. at(i) \in Nat /\ at(i) + con_cols = h - 1 - (Len(s) - i)  BY Sizes
<1>2. at(i) + con_cols \in 0 .. Size - 1  BY <1>1, Sizes, SizeNat
<1>3. ch[Cell(at(i) + con_cols)] = s[i]  BY <1>1, <1>2 DEF Before
<1> HIDE DEF at
<1>4. /\ Cell(at(i)) \in Cells /\ Cell(at(i))[1] + 1 < con_rows
      /\ Cell(at(i) + con_cols) = <<Cell(at(i))[1] + 1, Cell(at(i))[2]>>
  BY <1>1, <1>2, CellAbove
<1> QED  BY <1>3, <1>4

LEMMA HereBounds ==
  ASSUME ConType
  PROVE  /\ Here \in Nat /\ Here <= Size
         /\ cur_col = 0 => Here + con_cols <= Size
         /\ cur_col < con_cols => Here \in 0 .. Size - 1 /\ Cell(Here) = <<cur_row, cur_col>>
<1>1. cur_row \in 0 .. con_rows - 1 /\ cur_col \in 0 .. con_cols  BY DEF ConType
<1>2. (cur_row + 1) * con_cols <= con_rows * con_cols  BY <1>1, Sizes
<1>3. (cur_row + 1) * con_cols = cur_row * con_cols + con_cols /\ cur_row * con_cols \in Nat
  BY <1>1, Sizes
<1>4. Here \in Nat /\ Here <= Size /\ (cur_col = 0 => Here + con_cols <= Size)
  BY <1>1, <1>2, <1>3, Sizes DEF Here, Size
<1>5. cur_col < con_cols => Here \in 0 .. Size - 1 /\ Cell(Here) = <<cur_row, cur_col>>
  <2> SUFFICES ASSUME cur_col < con_cols
               PROVE  Here \in 0 .. Size - 1 /\ Cell(Here) = <<cur_row, cur_col>>
    OBVIOUS
  <2>1. cur_col \in 0 .. con_cols - 1  BY <1>1, Sizes
  <2> QED  BY <1>1, <2>1, CellOfNumber DEF Here
<1> QED  BY <1>4, <1>5

LEMMA TextType ==
  ASSUME ConType, NEW w \in Writers, LineInv(w)
  PROVE  EndOfText(w) \in Int /\ StoredText(w) \in Seq(Chars)
<1>1. EndOfText(w) \in Int
  <2>1. Here \in Int /\ con_cols \in Int  BY HereBounds, Sizes
  <2> QED  BY <2>1 DEF EndOfText
<1>2. StoredText(w) \in Seq(Chars)  BY FrontOf DEF LineInv, StoredText
<1> QED  BY <1>1, <1>2

\* Steps that keep the line, what is stored of it and where that ends.
LEMMA LineKept ==
  ASSUME NEW w, LineInv(w), UNCHANGED <<line, cell_ch>>,
         c'[w] = c[w], spaces'[w] = spaces[w], pc'[w] # "idle",
         pc'[w] = "scrolled" => cur_row' = con_rows - 1,
         Unstored(w)' <=> Unstored(w), EndOfText(w)' = EndOfText(w)
  PROVE  LineInv(w)'
<1>1. StoredText(w)' = StoredText(w)  BY DEF StoredText
<1>2. Before(cell_ch, EndOfText(w), StoredText(w))'  BY <1>1 DEF LineInv
<1> QED  BY <1>2 DEF LineInv

\* fbcon_putchar is done, or goes on with the next blank of a tab: what was
\* printed stands before the position.
LEMMA LineReturn ==
  ASSUME NEW w \in Writers, ConType, LineInv(w), Return(w), cell_ch' = cell_ch,
         Before(cell_ch, Here', line), pc[w] \notin {"idle"}
  PROVE  LineInv(w)'
<1>1. CASE spaces[w] > 0
  <2>1. /\ pc'[w] = "putchar" /\ c'[w] = Space /\ line' = Append(line, Space)
    BY <1>1 DEF Return, Goto, ConType, LineInv
  <2>2. line \in Seq(Chars) /\ Space \in Chars  BY CharsAssumption DEF LineInv
  <2>3. /\ line' \in Seq(Chars) /\ line' # <<>> /\ Len(line') = Len(line) + 1
        /\ line'[Len(line')] = Space /\ SubSeq(line', 1, Len(line') - 1) = line
    BY <2>1, <2>2, AppendFront
  <2>4. Unstored(w)' /\ EndOfText(w)' = Here'
    BY <2>1, <2>2, CharsAssumption DEF Unstored, EndOfText, Controls
  <2>5. StoredText(w)' = line  BY <2>3, <2>4 DEF StoredText
  <2> QED
    BY <2>1, <2>2, <2>3, <2>4, <2>5, CharsAssumption DEF LineInv, Controls
<1>2. CASE ~(spaces[w] > 0)
  <2>1. pc'[w] = "idle" /\ c'[w] = Space /\ UNCHANGED <<line, spaces>>
    BY <1>2 DEF Return, Done, Goto, ConType
  <2>2. ~Unstored(w)' /\ EndOfText(w)' = Here' /\ StoredText(w)' = line
    BY <2>1 DEF Unstored, EndOfText, StoredText
  <2>3. Before(cell_ch, EndOfText(w), StoredText(w))'  BY <2>2
  <2> QED  BY <1>2, <2>1, <2>2, <2>3 DEF LineInv, Space
<1> QED  BY <1>1, <1>2

\* The call is over.
LEMMA LineDone ==
  ASSUME NEW w \in Writers, ConType, LineInv(w), Done(w), UNCHANGED <<cell_ch, line, spaces>>,
         c[w] # Space, Before(cell_ch, Here', line)
  PROVE  LineInv(w)'
<1>1. pc'[w] = "idle" /\ c'[w] = Space /\ UNCHANGED <<line, spaces>>
  BY DEF Done, Goto, ConType
<1>2. ~Unstored(w)' /\ EndOfText(w)' = Here' /\ StoredText(w)' = line
  BY <1>1 DEF Unstored, EndOfText, StoredText
<1>3. Before(cell_ch, EndOfText(w), StoredText(w))'  BY <1>2
<1>4. ~(spaces'[w] > 0)  BY <1>1 DEF LineInv
<1> QED  BY <1>1, <1>2, <1>3, <1>4 DEF LineInv, Space

LEMMA LineWriter ==
  ASSUME NEW w, Writers = {w}, PlaceInv, PlaceInv', LineInv(w), WriterStep(w)
  PROVE  LineInv(w)'
<1>0. /\ ConType /\ AtStep(w) /\ ConType' /\ AtStep(w)' /\ w \in Writers
      /\ line \in Seq(Chars) /\ pc[w] \in Steps /\ c[w] \in Chars \cup Controls
      /\ Before(cell_ch, EndOfText(w), StoredText(w))
      /\ EndOfText(w) \in Int /\ StoredText(w) \in Seq(Chars)
  BY TextType DEF PlaceInv, LineInv, ConType
<1>a. Here \in Nat /\ Here <= Size /\ Here' \in Nat
  <2>1. Here \in Nat /\ Here <= Size  BY <1>0, HereBounds
  <2>2. cur_row' \in Nat /\ cur_col' \in Nat  BY <1>0 DEF ConType
  <2>3. cur_row' * con_cols \in Nat  BY <2>2, Sizes, Product
  <2> QED  BY <2>1, <2>2, <2>3 DEF Here
<1>b. \A x \in Chars : x \notin Controls  BY CharsAssumption
<1>1. ASSUME NEW x \in Chars \cup Controls, kputchar(w, x) PROVE LineInv(w)'
  <2>1. /\ pc[w] = "idle" /\ pc'[w] = "putchar" /\ c'[w] = x /\ line' = LineAfter(x)
        /\ UNCHANGED <<cell_ch, position, spaces>>
    BY <1>0, <1>1 DEF kputchar, Goto, ConType
  <2>2. Here' = Here /\ Before(cell_ch, Here, line) /\ ~(spaces'[w] > 0)
    BY <1>0, <2>1 DEF Here, position, EndOfText, StoredText, Unstored, LineInv
  <2>3. CASE x \in Chars
    <3>1. line' = Append(line, x)  BY <2>1, <2>3 DEF LineAfter
    <3>2. /\ line' \in Seq(Chars) /\ line' # <<>> /\ line'[Len(line')] = x
          /\ SubSeq(line', 1, Len(line') - 1) = line
      BY <1>0, <2>3, <3>1, AppendFront
    <3>3. Unstored(w)' /\ EndOfText(w)' = Here /\ StoredText(w)' = line
      BY <1>b, <2>1, <2>2, <2>3, <3>2 DEF Unstored, EndOfText, StoredText, Controls
    <3>4. Before(cell_ch, EndOfText(w), StoredText(w))'  BY <2>1, <2>2, <3>3
    <3> QED  BY <1>b, <2>1, <2>2, <2>3, <3>2, <3>3, <3>4 DEF LineInv, Controls
  <2>4. CASE x \in Controls
    <3>1. x \notin Chars /\ ~Unstored(w)' /\ StoredText(w)' = line'
      BY <1>b, <2>1, <2>4 DEF Unstored, StoredText
    <3>2. EndOfText(w)' = IF x = "backspace" THEN Here - 1 ELSE Here
      BY <2>1, <2>2, <3>1 DEF EndOfText
    <3>3. /\ line' \in Seq(Chars) /\ Before(cell_ch, EndOfText(w)', line')
          /\ x \in {"newline", "return"} => line' = <<>>
      <4>1. CASE x \in {"newline", "return"}
        BY <2>1, <3>1, <4>1, EmptyBefore DEF LineAfter
      <4>2. CASE x = "backspace" /\ line # <<>>
        <5>1. line' = SubSeq(line, 1, Len(line) - 1)  BY <2>1, <3>1, <4>2 DEF LineAfter
        <5>2. Before(cell_ch, Here - 1, line') /\ line' \in Seq(Chars)
          BY <1>0, <1>a, <2>2, <4>2, <5>1, FrontBefore, FrontOf
        <5> QED  BY <3>2, <4>2, <5>2
      <4>3. CASE x = "backspace" /\ line = <<>>
        <5>1. line' = <<>>  BY <2>1, <3>1, <4>3 DEF LineAfter
        <5> QED  BY <4>3, <5>1, EmptyBefore
      <4>4. CASE x \notin {"newline", "return", "backspace"}
        <5>1. line' = line  BY <2>1, <3>1, <4>4 DEF LineAfter
        <5> QED  BY <1>0, <2>2, <3>2, <4>4, <5>1
      <4> QED  BY <4>1, <4>2, <4>3, <4>4
    <3> QED  BY <2>1, <2>2, <3>1, <3>3 DEF LineInv
  <2> QED  BY <2>3, <2>4
<1>2. CASE fbcon_clear(w)
  <2>1. /\ pc[w] = "idle" /\ pc'[w] = "cleared" /\ c'[w] = "newline" /\ line' = <<>>
        /\ spaces' = spaces
    BY <1>0, <1>2 DEF fbcon_clear, Goto, ConType
  <2>2. ~Unstored(w)' /\ StoredText(w)' = <<>>
    BY <1>b, <2>1 DEF Unstored, StoredText, Controls
  <2>3. Before(cell_ch, EndOfText(w), StoredText(w))'  BY <2>2, EmptyBefore
  <2> QED  BY <2>1, <2>2, <2>3 DEF LineInv
<1>3. CASE Cleared(w)
  <2>1. /\ pc[w] = "cleared" /\ pc'[w] = "redraw" /\ cur_row' = 0 /\ cur_col' = 0
        /\ UNCHANGED <<cell_ch, c, spaces, line>> /\ c[w] # "backspace"
    BY <1>0, <1>b, <1>3 DEF Cleared, Goto, ConType, AtStep, ghost, Controls
  <2>2. EndOfText(w)' = 0
    BY <2>1, Sizes DEF EndOfText, Here
  <2>3. (Unstored(w)' <=> Unstored(w)) /\ StoredText(w)' = StoredText(w)
    BY <2>1 DEF Unstored, StoredText
  <2>4. Before(cell_ch, EndOfText(w), StoredText(w))'  BY <1>0, <2>2, <2>3, NothingBefore
  <2> QED  BY <2>1, <2>3, <2>4 DEF LineInv
\* The steps of cursor_hide.
<1>4. CASE HideTest(w) \/ HideClear(w) \/ HideDraw(w)
  <2>1. /\ pc[w] \in {"putchar", "hide", "uncover"} /\ pc'[w] \in {"hide", "body", "uncover"}
        /\ UNCHANGED <<cell_ch, position, c, spaces, line>>
    BY <1>0, <1>4 DEF HideTest, HideClear, HideDraw, Goto, ConType, ghost
  <2>2. (Unstored(w)' <=> Unstored(w)) /\ EndOfText(w)' = EndOfText(w)
    BY <2>1 DEF Unstored, EndOfText, Here, position
  <2> QED  BY <2>1, <2>2, LineKept
<1>5. CASE Body(w)
  <2>0. pc[w] = "body" /\ UNCHANGED <<cell_ch, cur_row>>  BY <1>5 DEF Body
  <2>1. c[w] # "backspace" => EndOfText(w) = Here
    BY <2>0 DEF EndOfText
  <2>2. c[w] \notin Chars => StoredText(w) = line  BY DEF StoredText, Unstored
  <2>3. CASE c[w] = "newline" \/ (c[w] \in Chars /\ LineFull)
    <3>1. cur_col' = 0 /\ pc'[w] = "nextline" /\ UNCHANGED <<c, spaces, line>>
      BY <1>0, <1>5, <2>3, CharsAssumption DEF Body, Controls, Goto, ConType
    <3>2. (Unstored(w)' <=> Unstored(w)) /\ StoredText(w)' = StoredText(w)
      BY <2>0, <3>1 DEF Unstored, StoredText
    <3>3. EndOfText(w)' = cur_row * con_cols + con_cols
      <4>1. c'[w] # "backspace"  BY <1>b, <2>3, <3>1 DEF Controls
      <4>2. EndOfText(w)' = Here' + con_cols  BY <3>1, <4>1 DEF EndOfText
      <4>3. cur_row * con_cols \in Nat  BY <1>0, Sizes, Product DEF ConType
      <4> QED  BY <2>0, <3>1, <4>2, <4>3, Sizes DEF Here
    <3>4. Before(cell_ch, EndOfText(w), StoredText(w))'
      <4>1. CASE c[w] = "newline"
        <5>1. StoredText(w)' = <<>>
          BY <1>b, <2>2, <3>2, <4>1 DEF LineInv, Controls
        <5> QED  BY <5>1, EmptyBefore
      <4>2. CASE c[w] \in Chars /\ LineFull
        <5>1. cur_col = con_cols  BY <1>0, <4>2, Sizes DEF LineFull, ConType
        <5>2. EndOfText(w)' = EndOfText(w)
          BY <1>b, <2>1, <3>3, <4>2, <5>1 DEF Here, Controls
        <5> QED  BY <1>0, <2>0, <3>2, <5>2
      <4> QED  BY <2>3, <4>1, <4>2
    <3> QED  BY <2>0, <3>1, <3>2, <3>4 DEF LineInv
  <2>4. CASE c[w] = "return"
    <3>1. cur_col' = 0 /\ Return(w)
      BY <1>5, <2>4, CharsAssumption DEF Body, Controls
    <3>2. line = <<>>  BY <2>4 DEF LineInv
    <3> QED  BY <1>0, <2>0, <3>1, <3>2, EmptyBefore, LineReturn
  <2>5. CASE c[w] = "backspace"
    <3>1. pc'[w] = "back" /\ UNCHANGED <<cur_col, c, spaces, line>>
      BY <1>0, <1>5, <2>5, CharsAssumption DEF Body, Controls, Goto, ConType
    <3>2. (Unstored(w)' <=> Unstored(w)) /\ EndOfText(w)' = EndOfText(w)
      BY <2>0, <2>5, <3>1 DEF Unstored, EndOfText, Here
    <3> QED  BY <2>0, <3>1, <3>2, LineKept
  <2>6. CASE c[w] = "tab"
    <3>1. /\ c'[w] = Space /\ pc'[w] = "putchar" /\ line' = Append(line, Space)
          /\ UNCHANGED cur_col
      BY <1>0, <1>5, <2>6, CharsAssumption DEF Body, Controls, Goto, ConType
    <3>2. /\ line' \in Seq(Chars) /\ line' # <<>> /\ line'[Len(line')] = Space
          /\ SubSeq(line', 1, Len(line') - 1) = line
      BY <1>0, <3>1, AppendFront, CharsAssumption
    <3>3. Unstored(w)' /\ EndOfText(w)' = Here /\ StoredText(w)' = line
      BY <2>0, <3>1, <3>2, CharsAssumption DEF Unstored, EndOfText, StoredText, Here, Space
    <3>4. Before(cell_ch, Here, line)  BY <1>0, <1>b, <2>1, <2>2, <2>6 DEF Controls
    <3>5. Before(cell_ch, EndOfText(w), StoredText(w))'  BY <2>0, <3>3, <3>4
    <3> QED  BY <3>1, <3>2, <3>3, <3>5 DEF LineInv, Space
  <2>7. CASE c[w] = "unprintable"
    <3>1. Return(w) /\ UNCHANGED cur_col
      BY <1>5, <2>7, CharsAssumption DEF Body, Controls
    <3>2. Here' = Here  BY <2>0, <3>1 DEF Here
    <3>3. Before(cell_ch, Here, line)  BY <1>0, <1>b, <2>1, <2>2, <2>7 DEF Controls
    <3> QED  BY <1>0, <2>0, <3>1, <3>2, <3>3, LineReturn
  <2>8. CASE c[w] \in Chars /\ ~LineFull
    <3>1. pc'[w] = "store" /\ UNCHANGED <<cur_col, c, spaces, line>>
      BY <1>0, <1>5, <2>8, CharsAssumption DEF Body, Controls, Goto, ConType
    <3>2. (Unstored(w)' <=> Unstored(w)) /\ EndOfText(w)' = EndOfText(w)
      BY <1>b, <2>0, <2>8, <3>1 DEF Unstored, EndOfText, Here, Controls
    <3> QED  BY <2>0, <3>1, <3>2, LineKept
  <2> QED  BY <1>0, <2>3, <2>4, <2>5, <2>6, <2>7, <2>8 DEF Controls
<1>6. CASE Store(w)
  <2> DEFINE x == IF c[w] = "backspace" THEN Space ELSE c[w]
  <2>1. /\ pc[w] = "store" /\ pc'[w] = "draw" /\ UNCHANGED <<position, c, spaces, line>>
        /\ cell_ch' = [cell_ch EXCEPT ![<<cur_row, cur_col>>] = x]
        /\ cur_col < con_cols /\ c[w] \in Chars \cup {"backspace"}
    BY <1>0, <1>6 DEF Store, Goto, ConType, AtStep, ghost
  <2>2. Here \in 0 .. Size - 1 /\ Cell(Here) = <<cur_row, cur_col>> /\ Cell(Here) \in Cells
    BY <1>0, <2>1, HereBounds, InCells DEF ConType
  <2>3. Here' = Here  BY <2>1 DEF Here, position
  <2>4. EndOfText(w) = Here  BY <2>1 DEF EndOfText
  <2>5. Before(cell_ch', Here, StoredText(w))
    <3> HIDE DEF x
    <3>1. cell_ch' = [cell_ch EXCEPT ![Cell(Here)] = x]  BY <2>1, <2>2
    <3>2. Before(cell_ch, Here, StoredText(w)) /\ Here \in Int /\ Here <= Here
      BY <1>0, <1>a, <2>4
    <3>3. Before([cell_ch EXCEPT ![Cell(Here)] = x], Here, StoredText(w))
      BY <1>0, <1>a, <3>2, StoreAfter
    <3> QED  BY <3>1, <3>3
  <2>6. CASE c[w] = "backspace"
    <3>1. ~Unstored(w) /\ ~Unstored(w)' /\ EndOfText(w)' = Here
      BY <1>b, <2>1, <2>3, <2>6 DEF Unstored, EndOfText, Controls
    <3>2. Before(cell_ch, EndOfText(w), StoredText(w))'
      BY <2>1, <2>5, <3>1 DEF StoredText
    <3> QED  BY <2>1, <3>1, <3>2 DEF LineInv
  <2>7. CASE c[w] \in Chars
    <3>1. Unstored(w) /\ ~Unstored(w)' /\ EndOfText(w)' = Here + 1
      BY <2>1, <2>3, <2>7 DEF Unstored, EndOfText
    <3>2. line # <<>> /\ line[Len(line)] = c[w]  BY <3>1 DEF LineInv
    <3>3. cell_ch'[Cell(Here)] = c[w]
      BY <1>0, <1>b, <2>1, <2>2, <2>7 DEF ConType, Controls
    <3>4. Before(cell_ch', Here, SubSeq(line, 1, Len(line) - 1))
      BY <2>5, <3>1 DEF StoredText
    <3>5. Before(cell_ch', Here + 1, line)
      BY <1>0, <1>a, <3>2, <3>3, <3>4, WholeBefore
    <3>6. Before(cell_ch, EndOfText(w), StoredText(w))'
      BY <2>1, <3>1, <3>5 DEF StoredText
    <3> QED  BY <2>1, <3>1, <3>6 DEF LineInv
  <2> QED  BY <2>1, <2>6, <2>7
<1>7. CASE DrawStored(w)
  <2>1. /\ pc[w] = "draw" /\ UNCHANGED <<cell_ch, position, spaces, line>>
        /\ c[w] \in Chars \cup {"backspace"}
    BY <1>0, <1>7 DEF DrawStored, AtStep
  <2>2. Here' = Here  BY <2>1 DEF Here, position
  <2>3. CASE c[w] = "backspace"
    <3>1. Done(w)  BY <1>7, <2>3 DEF DrawStored
    <3>2. EndOfText(w) = Here /\ StoredText(w) = line
      BY <1>b, <2>1, <2>3 DEF EndOfText, StoredText, Unstored, Controls
    <3> QED  BY <1>0, <2>1, <2>2, <2>3, <3>1, <3>2, LineDone DEF Space
  <2>4. CASE c[w] # "backspace"
    <3>1. pc'[w] = "pass" /\ c' = c
      BY <1>0, <1>7, <2>4 DEF DrawStored, Goto, ConType
    <3>2. (Unstored(w)' <=> Unstored(w)) /\ EndOfText(w)' = EndOfText(w)
      BY <2>1, <2>2, <2>4, <3>1 DEF Unstored, EndOfText
    <3> QED  BY <2>1, <3>1, <3>2, LineKept
  <2> QED  BY <2>3, <2>4
<1>8. CASE Pass(w)
  <2>1. /\ pc[w] = "pass" /\ cur_col' = cur_col + 1 /\ Return(w)
        /\ UNCHANGED <<cell_ch, cur_row>> /\ c[w] \in Chars
    BY <1>0, <1>8 DEF Pass, AtStep
  <2>2. Here' = Here + 1
    <3>1. cur_row * con_cols \in Int /\ cur_col \in Int  BY <1>0, Sizes DEF ConType
    <3> QED  BY <2>1, <3>1 DEF Here
  <2>3. EndOfText(w) = Here + 1 /\ StoredText(w) = line
    BY <1>b, <2>1 DEF EndOfText, StoredText, Unstored, Controls
  <2> QED  BY <1>0, <2>1, <2>2, <2>3, LineReturn
<1>9. CASE Back(w)
  <2>1. /\ pc[w] = "back" /\ pc'[w] = "store" /\ c[w] = "backspace" /\ MoveBack
        /\ UNCHANGED <<cell_ch, c, spaces, line>>
    BY <1>0, <1>9 DEF Back, Goto, ConType, AtStep, ghost
  <2>2. EndOfText(w) = Here - 1 /\ EndOfText(w)' = Here' /\ ~Unstored(w) /\ ~Unstored(w)'
    BY <1>b, <2>1 DEF EndOfText, Unstored, Controls
  <2>3. Here' = Here - 1 \/ Here' = 0
    <3>1. cur_row \in Nat /\ cur_col \in Nat /\ con_cols \in Nat  BY <1>0, Sizes DEF ConType
    <3>2. CASE cur_col > 0
      <4>1. cur_col' = cur_col - 1 /\ cur_row' = cur_row  BY <2>1, <3>2 DEF MoveBack
      <4>2. cur_row * con_cols \in Nat  BY <3>1
      <4> QED  BY <3>1, <4>1, <4>2 DEF Here
    <3>3. CASE cur_col = 0 /\ cur_row > 0
      <4>1. cur_col' = con_cols - 1 /\ cur_row' = cur_row - 1  BY <2>1, <3>3 DEF MoveBack
      <4>2. (cur_row - 1) * con_cols = cur_row * con_cols - con_cols /\ cur_row * con_cols \in Nat
        BY <3>1
      <4> QED  BY <3>1, <3>3, <4>1, <4>2 DEF Here
    <3>4. CASE cur_col = 0 /\ cur_row = 0
      <4>1. cur_col' = 0 /\ cur_row' = 0  BY <2>1, <3>4 DEF MoveBack, position
      <4> QED  BY <3>1, <4>1 DEF Here
    <3> QED  BY <3>1, <3>2, <3>3, <3>4
  <2>4. Before(cell_ch, Here', line)
    <3>1. Before(cell_ch, Here - 1, line)  BY <1>0, <2>2 DEF StoredText
    <3>2. CASE Here' = Here - 1  BY <3>1, <3>2
    <3>3. CASE Here' = 0  BY <1>0, <3>3, NothingBefore
    <3> QED  BY <2>3, <3>2, <3>3
  <2>5. Before(cell_ch, EndOfText(w), StoredText(w))'
    BY <2>1, <2>2, <2>4 DEF StoredText
  <2> QED  BY <2>1, <2>2, <2>5 DEF LineInv
\* A line is left: a character under way goes on at the new place.
<1>10. ASSUME AfterNewline(w), UNCHANGED <<cell_ch, spaces, line>>,
              pc[w] \in {"nextline", "redraw"}, EndOfText(w) = Here'
       PROVE  LineInv(w)'
  <2>1. c[w] \in Chars \cup {"newline"}  BY <1>0, <1>10 DEF AtStep
  <2>2. CASE c[w] \in Chars
    <3>1. pc'[w] = "store" /\ c' = c
      BY <1>0, <1>10, <2>2 DEF AfterNewline, Goto, ConType
    <3>2. Unstored(w)' /\ Unstored(w) /\ EndOfText(w)' = Here'
      BY <1>b, <1>10, <2>2, <3>1 DEF Unstored, EndOfText, Controls
    <3> QED  BY <1>10, <3>1, <3>2, LineKept
  <2>3. CASE c[w] = "newline"
    <3>1. Done(w)  BY <1>b, <1>10, <2>3 DEF AfterNewline, Controls
    <3>2. line = <<>>  BY <2>3 DEF LineInv
    <3> QED  BY <1>0, <1>10, <2>3, <3>1, <3>2, EmptyBefore, LineDone DEF Space
  <2> QED  BY <2>1, <2>2, <2>3
<1>11. CASE NextRow(w)
  <2>1. /\ pc[w] = "nextline" /\ cur_row' = cur_row + 1 /\ AfterNewline(w)
        /\ UNCHANGED <<cell_ch, cur_col, spaces, line>>
    BY <1>11 DEF NextRow, ghost
  <2>2. EndOfText(w) = Here + con_cols
    <3>1. c[w] # "backspace"  BY <1>0, <1>b, <2>1 DEF AtStep, Controls
    <3> QED  BY <2>1, <3>1 DEF EndOfText
  <2>3. Here' = Here + con_cols
    <3>1. cur_row \in Nat /\ cur_col \in Nat /\ con_cols \in Nat  BY <1>0, Sizes DEF ConType
    <3>2. (cur_row + 1) * con_cols = cur_row * con_cols + con_cols /\ cur_row * con_cols \in Nat
      BY <3>1
    <3> QED  BY <2>1, <3>1, <3>2 DEF Here
  <2> QED  BY <1>10, <2>1, <2>2, <2>3
<1>12. CASE Scroll(w)
  <2> DEFINE up == [p \in Cells |-> IF p[1] + 1 < con_rows
                                    THEN cell_ch[<<p[1] + 1, p[2]>>] ELSE Space]
  <2>1. /\ pc[w] = "nextline" /\ pc'[w] = "scrolled" /\ cur_row + 1 >= con_rows /\ cur_col = 0
        /\ cell_ch' = up
        /\ UNCHANGED <<position, c, spaces, line>> /\ c[w] \in Chars \cup {"newline"}
    BY <1>0, <1>12 DEF Scroll, Goto, ConType, AtStep, ghost
  <2>2. /\ EndOfText(w) = Here + con_cols /\ EndOfText(w)' = Here
        /\ Unstored(w)' <=> Unstored(w)
    BY <1>b, <2>1 DEF EndOfText, Unstored, Here, position, Controls
  <2>3. Here + con_cols <= Size /\ (Here + con_cols) - con_cols = Here
    BY <1>0, <1>a, <2>1, HereBounds, Sizes
  <2>4. Before(up, (Here + con_cols) - con_cols, StoredText(w))
    BY <1>0, <2>2, <2>3, ScrollBefore
  <2> HIDE DEF up
  <2>5. StoredText(w)' = StoredText(w)  BY <2>1, <2>2 DEF StoredText
  <2>6. Before(cell_ch, EndOfText(w), StoredText(w))'  BY <2>1, <2>2, <2>3, <2>4, <2>5
  <2>7. cur_row' = con_rows - 1  BY <1>0, <2>1, Sizes DEF ConType, position
  <2> QED  BY <2>1, <2>2, <2>6, <2>7 DEF LineInv
<1>13. CASE Scrolled(w)
  <2>1. /\ pc[w] = "scrolled" /\ pc'[w] = "redraw" /\ cur_row' = con_rows - 1
        /\ UNCHANGED <<cell_ch, cur_col, c, spaces, line>> /\ cur_row' = cur_row
    BY <1>0, <1>13 DEF Scrolled, Goto, ConType, LineInv, ghost
  <2>2. (Unstored(w)' <=> Unstored(w)) /\ EndOfText(w)' = EndOfText(w)
    BY <2>1 DEF Unstored, EndOfText, Here
  <2> QED  BY <2>1, <2>2, LineKept
<1>14. CASE RedrawCell(w)
  <2>1. pc[w] = "redraw" /\ UNCHANGED <<cell_ch, position, pc, c, spaces, line>>
    BY <1>14 DEF RedrawCell
  <2>2. (Unstored(w)' <=> Unstored(w)) /\ EndOfText(w)' = EndOfText(w)
    BY <2>1 DEF Unstored, EndOfText, Here, position
  <2> QED  BY <2>1, <2>2, LineKept
<1>15. CASE Redrawn(w)
  <2>1. /\ pc[w] = "redraw" /\ AfterNewline(w) /\ c[w] \in Chars \cup {"newline"}
        /\ UNCHANGED <<cell_ch, position, spaces, line>>
    BY <1>0, <1>15 DEF Redrawn, AtStep, ghost
  <2>2. EndOfText(w) = Here /\ Here' = Here
    BY <1>b, <2>1 DEF EndOfText, Here, position, Controls
  <2> QED  BY <1>10, <2>1, <2>2
<1> QED
  BY <1>1, <1>2, <1>3, <1>4, <1>5, <1>6, <1>7, <1>8, <1>9, <1>11, <1>12, <1>13,
     <1>14, <1>15 DEF WriterStep

\* fbcon_putchar (fbcon.c:110-118, 150-193): whatever was printed, wrapped,
\* scrolled, tabbed and erased, between two calls the characters of the line
\* stand in front of the printing position.
THEOREM LineStands ==
  ASSUME NEW w, Writers = {w}
  PROVE  Spec => []LineBeforeCursor
<1>1. Init => LineInv(w)
  <2> SUFFICES ASSUME Init PROVE LineInv(w)  OBVIOUS
  <2>1. line = <<>> /\ pc[w] = "idle" /\ c[w] = Space /\ spaces[w] = 0  BY DEF Init
  <2>2. StoredText(w) = <<>> /\ ~Unstored(w)  BY <2>1 DEF StoredText, Unstored
  <2>3. Before(cell_ch, EndOfText(w), StoredText(w))  BY <2>2, EmptyBefore
  <2>4. line \in Seq(Chars)  BY <2>1
  <2>5. spaces[w] > 0 => c[w] = Space /\ pc[w] # "idle"  BY <2>1
  <2>6. /\ Unstored(w) => line # <<>> /\ line[Len(line)] = c[w]
        /\ c[w] \in {"newline", "return"} => line = <<>>
        /\ pc[w] = "scrolled" => cur_row = con_rows - 1
    BY <2>1, <2>2
  <2> QED  BY <2>3, <2>4, <2>5, <2>6 DEF LineInv
<1>2. PlaceInv /\ LineInv(w) /\ [Next]_vars => PlaceInv' /\ LineInv(w)'
  <2> SUFFICES ASSUME PlaceInv, LineInv(w), [Next]_vars PROVE PlaceInv' /\ LineInv(w)'
    OBVIOUS
  <2>1. PlaceInv'  BY PlaceStep
  <2>2. CASE WriterStep(w)  BY <2>1, <2>2, LineWriter
  <2>3. CASE UNCHANGED <<cell_ch, position, local, line>>
    <3>1. /\ (Unstored(w)' <=> Unstored(w)) /\ EndOfText(w)' = EndOfText(w)
          /\ StoredText(w)' = StoredText(w)
      BY <2>3 DEF Unstored, EndOfText, StoredText, Here, position, local
    <3>2. Before(cell_ch, EndOfText(w), StoredText(w))'  BY <2>3, <3>1 DEF LineInv
    <3> QED  BY <2>1, <2>3, <3>1, <3>2 DEF LineInv, position, local
  <2>4. CASE fbcon_cursor_blink
    BY <2>3, <2>4 DEF fbcon_cursor_blink, BlinkOff, BlinkOn
  <2>5. CASE \E p \in MousePlaces : draw_mouse_cursor(p)
    BY <2>3, <2>5 DEF draw_mouse_cursor, ghost
  <2>6. CASE UNCHANGED vars  BY <2>3, <2>6 DEF vars, ghost
  <2> QED  BY <2>2, <2>4, <2>5, <2>6 DEF Next
<1>3. LineInv(w) => LineBeforeCursor
  <2> SUFFICES ASSUME LineInv(w), pc[w] = "idle" PROVE LineBeforeCursor
    BY DEF LineBeforeCursor
  <2>1. EndOfText(w) = Here /\ StoredText(w) = line
    BY DEF EndOfText, StoredText, Unstored
  <2> QED  BY <2>1 DEF LineInv, Before, LineBeforeCursor, Here
<1> QED  BY <1>1, <1>2, <1>3, PlaceInit, PTL DEF Spec
=============================================================================
