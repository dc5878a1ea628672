------------------------------- MODULE Screen -------------------------------
(***************************************************************************)
(* The VGA text display (devices/vga.c) as functions of its state: the     *)
(* cursor, the frame buffer, which is a function from rows to functions    *)
(* from columns, and the hardware's cursor.                                *)
(***************************************************************************)
EXTENDS Integers, Sequences

CONSTANTS COL_CNT, ROW_CNT,
          TabStop          \* 8 in the code

ASSUME ScreenAssumption ==
  COL_CNT \in Nat \ {0} /\ ROW_CNT \in Nat \ {0} /\ TabStop \in Nat \ {0} /\ COL_CNT % TabStop = 0

Rows == 0..ROW_CNT - 1
Cols == 0..COL_CNT - 1
SpaceChar == " "

clear_row(fb, y) == [fb EXCEPT ![y] = [x \in Cols |-> SpaceChar]]
BlankScreen == [y \in Rows |-> [x \in Cols |-> SpaceChar]]

move_cursor(v) == [v EXCEPT !.cp = v.cx + COL_CNT * v.cy]
\* init: the cursor is where the loader left it.
find_cursor(v) == [v EXCEPT !.cx = v.cp % COL_CNT, !.cy = v.cp \div COL_CNT]

cls(v) == move_cursor([v EXCEPT !.cx = 0, !.cy = 0, !.fb = BlankScreen])

\* The last row is scrolled over without being cleared.
newline_uncleared(v) ==
  IF v.cy + 1 < ROW_CNT THEN [v EXCEPT !.cx = 0, !.cy = @ + 1]
  ELSE [v EXCEPT !.cx = 0, !.cy = ROW_CNT - 1,
                 !.fb = [y \in Rows |-> v.fb[IF y + 1 < ROW_CNT THEN y + 1 ELSE y]]]

newline(v) ==
  IF v.cy + 1 < ROW_CNT THEN [v EXCEPT !.cx = 0, !.cy = @ + 1]
  ELSE [v EXCEPT !.cx = 0, !.cy = ROW_CNT - 1,
                 !.fb = clear_row([y \in Rows |-> v.fb[IF y + 1 < ROW_CNT THEN y + 1 ELSE y]],
                                  ROW_CNT - 1)]

\* At the end of a row the cursor is on the next one at once.
Advanced(v, x) == IF x >= COL_CNT THEN newline(v) ELSE [v EXCEPT !.cx = x]

vga_putc(v, c) ==
  move_cursor(
    CASE c = "nl" -> newline(v)
      [] c = "ff" -> cls(v)
      [] c = "bs" -> IF v.cx > 0 THEN [v EXCEPT !.cx = @ - 1] ELSE v
      [] c = "cr" -> [v EXCEPT !.cx = 0]
      [] c = "tab" -> Advanced(v, ((v.cx + TabStop) \div TabStop) * TabStop)
      [] c = "bel" -> v
      [] OTHER -> Advanced([v EXCEPT !.fb[v.cy][v.cx] = c], v.cx + 1))

RECURSIVE putbuf(_, _)
putbuf(v, text) == IF text = << >> THEN v ELSE putbuf(vga_putc(v, Head(text)), Tail(text))
=============================================================================
