------------------------------ MODULE Console ------------------------------
(***************************************************************************)
(* The text console, drivers/fbcon.c, with the three that draw on it: the  *)
(* process that prints (lib/stdio.c), clock_process, which makes the text  *)
(* cursor blink (kernel/kernel.c), and the mouse interrupt, which saves,   *)
(* covers and restores what is under the pointer (drivers/mouse.c).        *)
(*                                                                         *)
(* The pixels of a cell are one value: the character drawn, the cursor's   *)
(* block or the pointer.  A character stands for itself and its colour.    *)
(* The printer may be interrupted between any two accesses to shared       *)
(* state.  A blink is one step: the clock runs at the start of its time    *)
(* slice, and ends long before the slice does.                             *)
(***************************************************************************)
EXTENDS Integers, Sequences

CONSTANTS
    Writers,            \* processes that print
    con_rows, con_cols,
    Chars,              \* printable characters
    MousePlaces,        \* cells the mouse moves to, and Outside
    MaxChars            \* bound: calls of fbcon_putchar and fbcon_clear

ASSUME SizeAssumption == {con_rows, con_cols} \subseteq Nat \ {0}
ASSUME MaxCharsAssumption == MaxChars \in Nat

Cells == (0 .. con_rows - 1) \X (0 .. con_cols - 1)
Space == " "
Block == "block"        \* the text cursor
Pointer == "pointer"    \* the mouse pointer
Outside == <<>>         \* a place on the screen that is not a cell
Controls == {"newline", "return", "backspace", "tab", "unprintable"}

ASSUME PlacesAssumption == MousePlaces \subseteq Cells \cup {Outside}
ASSUME CharsAssumption == Chars \cap (Controls \cup {Block, Pointer}) = {} /\ Space \in Chars

VARIABLES
    cell_ch, cur_row, cur_col,
    cursor_shown, cursor_row, cursor_col,
    pc, c, spaces,      \* of each writer: step, character, rest of a tab
    redrawn,            \* of each writer: cells that redraw_all has done
    screen,             \* what each cell shows
    mouse,              \* [at, saved]: the pointer, and what was there
    overdrawn,          \* cells that were drawn while the pointer was on them
    misled,             \* a blink has moved the recorded place under cursor_hide,
                        \* and the screen has not been redrawn since
    line,               \* the characters printed on this line
    chars               \* calls so far

cursor == <<cursor_shown, cursor_row, cursor_col>>
position == <<cur_row, cur_col>>
local == <<pc, c, spaces, redrawn>>
ghost == <<overdrawn, misled, line, chars>>
vars == <<cell_ch, position, cursor, local, screen, mouse, ghost>>

Goto(w, step) == pc' = [pc EXCEPT ![w] = step]
Done(w) == Goto(w, "idle") /\ c' = [c EXCEPT ![w] = Space]

(***************************************************************************)
(* Drawing.                                                                *)
(***************************************************************************)
\* A cell is painted.  If the pointer is on it the pointer is gone, and what
\* the pointer saved is put back later: the console's own known limit.
Lost(p) == IF mouse.at = p THEN overdrawn \cup {p} ELSE overdrawn \ {p}
Paint(p, what) == screen' = [screen EXCEPT ![p] = what] /\ overdrawn' = Lost(p)

draw_cell(p) == Paint(p, cell_ch[p])

\* The mouse has moved: draw_mouse_cursor, in the interrupt.
draw_mouse_cursor(p) ==
    LET old == IF mouse.at \in Cells THEN [screen EXCEPT ![mouse.at] = mouse.saved] ELSE screen
    IN /\ mouse' = [at |-> p, saved |-> IF p \in Cells THEN old[p] ELSE Space]
       /\ screen' = IF p \in Cells THEN [old EXCEPT ![p] = Pointer] ELSE old
       /\ UNCHANGED <<cell_ch, position, cursor, local, ghost>>

(***************************************************************************)
(* cursor_hide, in the printer.  The recorded place is read after the flag *)
(* is cleared.                                                             *)
(***************************************************************************)
HideTest(w) ==
    /\ pc[w] = "putchar" /\ Goto(w, IF cursor_shown THEN "hide" ELSE "body")
    /\ UNCHANGED <<cell_ch, position, cursor, c, spaces, redrawn, screen, mouse, ghost>>

HideClear(w) ==
    /\ pc[w] = "hide" /\ cursor_shown' = FALSE /\ Goto(w, "uncover")
    /\ UNCHANGED <<cell_ch, position, cursor_row, cursor_col, c, spaces, redrawn,
                   screen, mouse, ghost>>

Recorded == <<cursor_row, cursor_col>>

\* Mutant: the cell at the printing position is taken for the cursor's.
UncoverCurrent == <<cur_row, cur_col>>

Covered == <<cursor_row, cursor_col>>

HideDraw(w) ==
    /\ pc[w] = "uncover" /\ Goto(w, "body")
    /\ IF Covered \in Cells THEN draw_cell(Covered) ELSE UNCHANGED <<screen, overdrawn>>
    /\ UNCHANGED <<cell_ch, position, cursor, c, spaces, redrawn, mouse, misled, line, chars>>

\* fbcon_cursor_blink, in the clock.
BlinkOff ==
    /\ cursor_shown /\ cursor_shown' = FALSE
    /\ draw_cell(Recorded)
    /\ UNCHANGED <<cell_ch, position, cursor_row, cursor_col, local, mouse, misled, line, chars>>

\* The block is put at the printing position.  Between HideClear and HideDraw
\* the printer will then draw the new place, and not the one it meant to.
BlinkOn ==
    /\ ~cursor_shown
    /\ cursor_row' = cur_row /\ cursor_col' = cur_col
    /\ cursor_shown' = (<<cur_row, cur_col>> \in Cells)
    /\ IF cursor_shown' THEN Paint(<<cur_row, cur_col>>, Block)
       ELSE UNCHANGED <<screen, overdrawn>>
    /\ misled' = (misled \/ (Recorded' # Recorded /\ \E w \in Writers : pc[w] = "uncover"))
    /\ UNCHANGED <<cell_ch, position, local, mouse, line, chars>>

fbcon_cursor_blink == BlinkOff \/ BlinkOn

(***************************************************************************)
(* fbcon_putchar.                                                          *)
(***************************************************************************)
\* What is left of the line: nothing after a newline or a carriage return,
\* one character less after a backspace.
LineAfter(x) ==
    IF x \in Chars THEN Append(line, x)
    ELSE IF x \in {"newline", "return"} THEN <<>>
    ELSE IF x = "backspace" /\ line # <<>> THEN SubSeq(line, 1, Len(line) - 1)
    ELSE line

\* kputchar (and kputs, one character after the other).
kputchar(w, x) ==
    /\ pc[w] = "idle" /\ chars < MaxChars /\ chars' = chars + 1
    /\ c' = [c EXCEPT ![w] = x] /\ line' = LineAfter(x)
    /\ Goto(w, "putchar")
    /\ UNCHANGED <<cell_ch, position, cursor, spaces, redrawn, screen, mouse, overdrawn, misled>>

\* fbcon_putchar returns; within a tab it is called again.
Return(w) ==
    IF spaces[w] > 0
    THEN /\ Goto(w, "putchar") /\ spaces' = [spaces EXCEPT ![w] = @ - 1]
         /\ line' = Append(line, Space) /\ UNCHANGED c
    ELSE Done(w) /\ UNCHANGED <<spaces, line>>

\* Mutant: the full line is not left.
NeverFull == FALSE

LineFull == cur_col >= con_cols

\* Which way the character goes; a newline begins with cur_col = 0.
Body(w) ==
    /\ pc[w] = "body"
    /\ CASE c[w] = "newline" \/ (c[w] \in Chars /\ LineFull) ->
              cur_col' = 0 /\ Goto(w, "nextline") /\ UNCHANGED <<c, spaces, line>>
         [] c[w] = "return" -> cur_col' = 0 /\ Return(w)
         [] c[w] = "backspace" -> Goto(w, "back") /\ UNCHANGED <<cur_col, c, spaces, line>>
         [] c[w] = "tab" -> /\ c' = [c EXCEPT ![w] = Space]
                           /\ spaces' = [spaces EXCEPT ![w] = 3]
                           /\ line' = Append(line, Space)
                           /\ Goto(w, "putchar") /\ UNCHANGED cur_col
         [] c[w] = "unprintable" -> Return(w) /\ UNCHANGED cur_col
         [] OTHER -> Goto(w, "store") /\ UNCHANGED <<cur_col, c, spaces, line>>
    /\ UNCHANGED <<cell_ch, cur_row, cursor, redrawn, screen, mouse, overdrawn, misled, chars>>

\* The character, or the blank that erases one, is stored at the printing
\* position, drawn, and passed.
Store(w) ==
    /\ pc[w] = "store" /\ Goto(w, "draw")
    /\ cell_ch' = [cell_ch EXCEPT ![<<cur_row, cur_col>>] =
                      IF c[w] = "backspace" THEN Space ELSE c[w]]
    /\ UNCHANGED <<position, cursor, c, spaces, redrawn, screen, mouse, ghost>>

DrawStored(w) ==
    /\ pc[w] = "draw" /\ draw_cell(<<cur_row, cur_col>>)
    /\ IF c[w] = "backspace" THEN Done(w) ELSE Goto(w, "pass") /\ UNCHANGED c
    /\ UNCHANGED <<cell_ch, position, cursor, spaces, redrawn, mouse, misled, line, chars>>

Pass(w) ==
    /\ pc[w] = "pass" /\ cur_col' = cur_col + 1 /\ Return(w)
    /\ UNCHANGED <<cell_ch, cur_row, cursor, redrawn, screen, mouse, overdrawn, misled, chars>>

\* Mutant: the first column is the end of the way back.
BackStops ==
    IF cur_col > 0 THEN cur_col' = cur_col - 1 /\ UNCHANGED cur_row
    ELSE UNCHANGED position

\* The place before this one.
MoveBack ==
    IF cur_col > 0 THEN cur_col' = cur_col - 1 /\ UNCHANGED cur_row
    ELSE IF cur_row > 0 THEN cur_row' = cur_row - 1 /\ cur_col' = con_cols - 1
    ELSE UNCHANGED position

Back(w) ==
    /\ pc[w] = "back" /\ MoveBack /\ Goto(w, "store")
    /\ UNCHANGED <<cell_ch, cursor, c, spaces, redrawn, screen, mouse, ghost>>

\* After newline: a printable character goes on, "newline" is done.
AfterNewline(w) == IF c[w] \in Chars THEN Goto(w, "store") /\ UNCHANGED c ELSE Done(w)

NextRow(w) ==
    /\ pc[w] = "nextline" /\ cur_row + 1 < con_rows
    /\ cur_row' = cur_row + 1 /\ AfterNewline(w)
    /\ UNCHANGED <<cell_ch, cur_col, cursor, spaces, redrawn, screen, mouse, ghost>>

\* scroll_up: the rows move up, the flag is cleared, all cells are drawn.
Scroll(w) ==
    /\ pc[w] = "nextline" /\ cur_row + 1 >= con_rows /\ Goto(w, "scrolled")
    /\ cell_ch' = [p \in Cells |-> IF p[1] + 1 < con_rows
                                   THEN cell_ch[<<p[1] + 1, p[2]>>] ELSE Space]
    /\ UNCHANGED <<position, cursor, c, spaces, redrawn, screen, mouse, ghost>>

Scrolled(w) ==
    /\ pc[w] = "scrolled" /\ Goto(w, "redraw")
    /\ cur_row' = con_rows - 1 /\ cursor_shown' = FALSE /\ misled' = FALSE
    /\ UNCHANGED <<cell_ch, cur_col, cursor_row, cursor_col, c, spaces, redrawn,
                   screen, mouse, overdrawn, line, chars>>

Cell(i) == <<i \div con_cols, i % con_cols>>
Size == con_rows * con_cols

RedrawCell(w) ==
    /\ pc[w] = "redraw" /\ redrawn[w] < Size
    /\ draw_cell(Cell(redrawn[w]))
    /\ redrawn' = [redrawn EXCEPT ![w] = @ + 1]
    /\ UNCHANGED <<cell_ch, position, cursor, pc, c, spaces, mouse, misled, line, chars>>

Redrawn(w) ==
    /\ pc[w] = "redraw" /\ redrawn[w] = Size /\ AfterNewline(w)
    /\ redrawn' = [redrawn EXCEPT ![w] = 0]
    /\ UNCHANGED <<cell_ch, position, cursor, spaces, screen, mouse, ghost>>

\* fbcon_clear: the same for an empty screen.
fbcon_clear(w) ==
    /\ pc[w] = "idle" /\ chars < MaxChars /\ chars' = chars + 1
    /\ Goto(w, "cleared") /\ c' = [c EXCEPT ![w] = "newline"]
    /\ cell_ch' = [p \in Cells |-> Space] /\ line' = <<>>
    /\ UNCHANGED <<position, cursor, spaces, redrawn, screen, mouse, overdrawn, misled>>

Cleared(w) ==
    /\ pc[w] = "cleared" /\ Goto(w, "redraw")
    /\ cur_row' = 0 /\ cur_col' = 0 /\ cursor_shown' = FALSE /\ misled' = FALSE
    /\ UNCHANGED <<cell_ch, cursor_row, cursor_col, c, spaces, redrawn, screen, mouse,
                   overdrawn, line, chars>>

WriterStep(w) ==
    \/ \E x \in Chars \cup Controls : kputchar(w, x)
    \/ fbcon_clear(w) \/ Cleared(w)
    \/ HideTest(w) \/ HideClear(w) \/ HideDraw(w) \/ Body(w)
    \/ Store(w) \/ DrawStored(w) \/ Pass(w) \/ Back(w)
    \/ NextRow(w) \/ Scroll(w) \/ Scrolled(w) \/ RedrawCell(w) \/ Redrawn(w)

(***************************************************************************)
(* After fbcon_init; the pointer is first drawn when the mouse moves.      *)
(***************************************************************************)
Init ==
    /\ cell_ch = [p \in Cells |-> Space] /\ screen = cell_ch
    /\ cur_row = 0 /\ cur_col = 0
    /\ cursor_shown = FALSE /\ cursor_row = 0 /\ cursor_col = 0
    /\ pc = [w \in Writers |-> "idle"] /\ c = [w \in Writers |-> Space]
    /\ spaces = [w \in Writers |-> 0] /\ redrawn = [w \in Writers |-> 0]
    /\ mouse = [at |-> Outside, saved |-> Space]
    /\ overdrawn = {} /\ misled = FALSE /\ line = <<>> /\ chars = 0

Next == \/ \E w \in Writers : WriterStep(w)
        \/ fbcon_cursor_blink
        \/ \E p \in MousePlaces : draw_mouse_cursor(p)

Spec == Init /\ [][Next]_vars

(***************************************************************************)
(* Properties.                                                             *)
(***************************************************************************)
\* Every character is stored inside the console's rectangle, and the recorded
\* cursor, while shown, is in it (fbcon.h:4, fbcon.c:142, 174, 187-191).
InsideRectangle ==
    /\ \A w \in Writers : pc[w] \in {"store", "draw"} => <<cur_row, cur_col>> \in Cells
    /\ cursor_shown => Recorded \in Cells

\* Between two calls the characters of the current line stand in front of the
\* printing position, in the order they were printed, however the line has
\* wrapped, scrolled and been erased backwards (fbcon.c:110-118, 150-193).
LineBeforeCursor ==
    (\A w \in Writers : pc[w] = "idle") =>
        LET here == cur_row * con_cols + cur_col
        IN \A i \in 1..Len(line) :
              LET p == here - 1 - (Len(line) - i)
              IN p >= 0 => cell_ch[Cell(p)] = line[i]

\* Cells that a writer has yet to draw.
Pending(w) ==
    CASE pc[w] = "uncover" -> {Recorded} \cap Cells
      [] pc[w] = "draw" -> {<<cur_row, cur_col>>}
      [] pc[w] \in {"scrolled", "cleared"} -> Cells
      [] pc[w] = "redraw" -> {Cell(i) : i \in redrawn[w] .. Size - 1}
      [] OTHER -> {}

\* What a cell shows, or will show when the pointer leaves it.
Under(p) == IF mouse.at = p THEN mouse.saved ELSE screen[p]

\* Every cell shows its character, the block stands at the recorded place alone,
\* and the pointer leaves no trace, but for cells drawn while the pointer was on
\* them.  The comment at fbcon.c:154 says so of the block, "yoksa blok ekranda
\* takili kalir" (else the block stays on the screen); TLC refutes it: cursor_hide
\* reads the recorded place after it has cleared the flag, and a blink between
\* the two moves it (fbcon.c:124-126).
EveryCellShown ==
    \A p \in Cells \ (overdrawn \cup UNION {Pending(w) : w \in Writers}) :
        \/ Under(p) = cell_ch[p]
        \/ Under(p) = Block /\ cursor_shown /\ p = Recorded

\* Whatever the printer, the clock and the mouse do between each other's steps,
\* that holds as long as no blink has moved the recorded place between the two
\* halves of cursor_hide, and again once the screen has been redrawn
\* (fbcon.c:92-155, mouse.c:58-86).
TextShown == ~misled => EveryCellShown
=============================================================================
