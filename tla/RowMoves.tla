------------------------------ MODULE RowMoves ------------------------------
(***************************************************************************)
(* How keys, wheel and pointer move the highlight of a list, as functions  *)
(* of the highlighted row i and the number n of rows, both counted from 0. *)
(* dd_ftp_cli/src/events.rs and mouse.rs and the reducer share them        *)
(* between the two file panes, the queue and the list of SSH keys.         *)
(***************************************************************************)
EXTENDS Integers

Least(a, b) == IF a <= b THEN a ELSE b
Most(a, b) == IF a <= b THEN b ELSE a

LastRow(n) == Most(n - 1, 0)

StepUp(i) == IF i > 0 THEN i - 1 ELSE i
StepDown(i, n) == IF i < LastRow(n) THEN i + 1 ELSE i

Clipped(i, n) == Least(i, LastRow(n))

(* One notch of the wheel is SCROLL_STEP steps.                            *)
WheelUp(i) == StepUp(StepUp(StepUp(i)))
WheelDown(i, n) == StepDown(StepDown(StepDown(i, n), n), n)

(* The rows a page moves by, from the height of the list and its border.   *)
page_rows_for(height) == Most(height - 2, 1)

offset_index(i, last, delta) == Least(Most(i + delta, 0), last)

Paged(i, n, dir, rows) == offset_index(i, LastRow(n), dir * rows)

(* A point on the scrollbar stands for a part of the rows, to the nearest. *)
BarRow(y, height, n) ==
  LET rel == Least(y, height - 1)
      denom == Most(height - 1, 1)
  IN (2 * rel * LastRow(n) + denom) \div (2 * denom)

(* The first row drawn: each frame the list is laid out afresh, from the   *)
(* top, and scrolled no further than the highlighted row needs.            *)
FirstShown(i, rows) == Most(i - rows + 1, 0)

(* The row under the pointer, y lines below the top of the list, top of    *)
(* them border.                                                            *)
RowUnder(first, y, top) == first + (y - top)
=============================================================================
