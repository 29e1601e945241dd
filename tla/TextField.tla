----------------------------- MODULE TextField -----------------------------
(***************************************************************************)
(* The one-line editor of dd_ftp_app/src/text_field.rs that every prompt,  *)
(* the quick-connect form and the settings use: a text, a cursor between   *)
(* two characters, and an anchor where a selection began.                  *)
(***************************************************************************)
EXTENDS Integers, Sequences

CONSTANTS
  Char,                 \* the characters
  Blank,                \* those of them that separate words
  MaxText               \* longest text (a bound of the model)

ASSUME TextAssumption == Blank \subseteq Char /\ MaxText \in Nat

VARIABLE field          \* the text field: [value, cursor, anchor]

NoAnchor == -1

FromStr(v) == [value |-> v, cursor |-> Len(v), anchor |-> NoAnchor]

Lower(i, k) == IF i <= k THEN i ELSE k
Upper(i, k) == IF i <= k THEN k ELSE i

Selected(t) == t.anchor # NoAnchor /\ t.anchor # t.cursor
SelStart(t) == Lower(t.anchor, t.cursor)
SelEnd(t) == Upper(t.anchor, t.cursor)

(* The text with its characters lo+1..hi replaced by ins; the cursor is    *)
(* left behind ins and nothing is selected.                                *)
Replace(t, lo, hi, ins) ==
  [value |-> SubSeq(t.value, 1, lo) \o ins \o SubSeq(t.value, hi + 1, Len(t.value)),
   cursor |-> lo + Len(ins), anchor |-> NoAnchor]

DeleteRange(t, lo, hi) == Replace(t, lo, hi, <<>>)

Unselected(t) == [t EXCEPT !.anchor = NoAnchor]

WithoutSelection(t) ==
  IF Selected(t) THEN DeleteRange(t, SelStart(t), SelEnd(t)) ELSE Unselected(t)

(* Mutant: the selection is kept and the character put at the cursor.      *)
InsertBeside(t, ch) == Replace(t, t.cursor, t.cursor, <<ch>>)

InsertChar(t, ch) ==
  LET u == WithoutSelection(t) IN Replace(u, u.cursor, u.cursor, <<ch>>)

Backspace(t) ==
  IF ~Selected(t) /\ t.cursor > 0 THEN DeleteRange(t, t.cursor - 1, t.cursor)
  ELSE WithoutSelection(t)

Delete(t) ==
  IF ~Selected(t) /\ t.cursor < Len(t.value) THEN DeleteRange(t, t.cursor, t.cursor + 1)
  ELSE WithoutSelection(t)

(* The blanks left of the cursor and the word before them.                 *)
BackOver(v, i, S) ==
  CHOOSE k \in 0..i : /\ \A m \in (k+1)..i : v[m] \in S
                      /\ k = 0 \/ v[k] \notin S

DeleteWordLeft(t) ==
  IF Selected(t) THEN WithoutSelection(t)
  ELSE DeleteRange(t, BackOver(t.value, BackOver(t.value, t.cursor, Blank), Char \ Blank),
                   t.cursor)

(* A movement with shift keeps the anchor, or drops it at the cursor.      *)
MoveTo(t, i, shift) ==
  [t EXCEPT !.cursor = i,
            !.anchor = IF ~shift THEN NoAnchor
                       ELSE IF t.anchor = NoAnchor THEN t.cursor ELSE t.anchor]

MoveCursor(t, dir, shift) ==
  MoveTo(t, IF dir < 0 THEN Upper(0, t.cursor - 1) ELSE Lower(t.cursor + 1, Len(t.value)), shift)

MoveHome(t, shift) == MoveTo(t, 0, shift)

MoveEnd(t, shift) == MoveTo(t, Len(t.value), shift)

SetCursor(t, i) == MoveTo(t, Lower(i, Len(t.value)), FALSE)

BeginDrag(t, i) ==
  LET k == Lower(i, Len(t.value)) IN [t EXCEPT !.cursor = k, !.anchor = k]

ExtendDrag(t, i) == [t EXCEPT !.cursor = Lower(i, Len(t.value))]

-----------------------------------------------------------------------------
Texts == UNION {[1..n -> Char] : n \in 0..MaxText}

TextInit == field = FromStr(<<>>)

Load == \E v \in Texts : field' = FromStr(v)

Type == \E ch \in Char : Len(field.value) < MaxText /\ field' = InsertChar(field, ch)

Erase == \/ field' = Backspace(field)
         \/ field' = Delete(field)
         \/ field' = DeleteWordLeft(field)

Walk == \E shift \in BOOLEAN :
          \/ \E dir \in {-1, 1} : field' = MoveCursor(field, dir, shift)
          \/ field' = MoveHome(field, shift)
          \/ field' = MoveEnd(field, shift)

(* A click or a drag may fall to the right of the text.                    *)
Drag == \E i \in 0..(MaxText + 1) : \/ field' = BeginDrag(field, i)
                                    \/ field' = ExtendDrag(field, i)
                                    \/ field' = SetCursor(field, i)

TextNext == Load \/ Type \/ Erase \/ Walk \/ Drag

TextSpec == TextInit /\ [][TextNext]_field

-----------------------------------------------------------------------------
(* The cursor and the anchor are never outside the text, whatever was      *)
(* deleted under them: every later insert, deletion or selection indexes   *)
(* the text with them and would panic.                                     *)
CursorInText ==
  /\ field.value \in Seq(Char)
  /\ field.cursor \in 0..Len(field.value)
  /\ field.anchor \in {NoAnchor} \cup 0..Len(field.value)

(* An edit replaces one piece of the text by at most one character: the    *)
(* selection if there is one, else a piece that ends or begins at the      *)
(* cursor.  What is outside is kept, and the cursor is left at the edit.   *)
EditIsLocal ==
  ~Load /\ field'.value # field.value =>
        \E lo, hi \in 0..Len(field.value), ins \in {<<>>} \cup {<<ch>> : ch \in Char} :
          /\ lo <= hi
          /\ field' = Replace(field, lo, hi, ins)
          /\ IF Selected(field) THEN lo = SelStart(field) /\ hi = SelEnd(field)
             ELSE field.cursor \in {lo, hi}

(* No sequence of edits, moves and drags takes the cursor out of the text  *)
(* or changes a part of the text that it was not about.                    *)
EditsAreSound == []CursorInText /\ [][EditIsLocal]_field
=============================================================================
