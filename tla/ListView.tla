------------------------------ MODULE ListView ------------------------------
(***************************************************************************)
(* A list on the screen: the frame that was drawn of it last, the clicks   *)
(* that are read against that frame, and the double click that opens a row *)
(* (dd_ftp_cli/src/mouse.rs).  Events that come in a burst are all handled *)
(* before the next frame, so a click may be read against an old one.       *)
(* Rows are numbers; what they hold is the matter of Panes and QueuePane.  *)
(***************************************************************************)
EXTENDS RowMoves, FiniteSets

CONSTANTS
  Height,               \* lines of the list's rectangle
  MaxRows               \* most rows (a bound of the model)

ASSUME ListAssumption == Height \in Nat /\ Height > 2 /\ MaxRows \in Nat

VARIABLES
  list_kind,            \* "Pane", "KeyPicker" or "Queue"
  row_count,
  row,                  \* the highlighted row
  first_shown,          \* the offset of the last frame
  last_click            \* where the last click was, and, for the properties
                        \* only, the row it chose, unless other events came
                        \* since, and the clicks since a row was opened

listVars == <<list_kind, row_count, row, first_shown, last_click>>

NoRow == -1
NoClick == [y |-> NoRow, chose |-> NoRow, clicks |-> 0]

(* The rectangle of the queue has no border, those of the others have.     *)
Border == IF list_kind = "Queue" THEN 0 ELSE 1
RowsDrawn == Height - 2 * Border
Drawn(first) == {i \in 0..(row_count - 1) : i >= first /\ i < first + RowsDrawn}

ListInit ==
  /\ list_kind \in {"Pane", "KeyPicker", "Queue"}
  /\ row_count \in 0..MaxRows
  /\ row = 0
  /\ first_shown = 0
  /\ last_click = NoClick

Draw ==
  /\ first_shown' = FirstShown(row, RowsDrawn)
  /\ UNCHANGED <<list_kind, row_count, row, last_click>>

Moved(i) ==
  /\ row' = i
  /\ last_click' = [last_click EXCEPT !.chose = NoRow]
  /\ UNCHANGED <<list_kind, row_count, first_shown>>

ListKeys == Moved(StepUp(row)) \/ Moved(StepDown(row, row_count))

Jump ==
  \/ Moved(0)
  \/ Moved(LastRow(row_count))
  \/ \E dir \in {-1, 1} : Moved(Paged(row, row_count, dir, page_rows_for(Height)))

Wheel == Moved(WheelUp(row)) \/ Moved(WheelDown(row, row_count))

apply_scrollbar_drag == \E y \in 0..Height : Moved(BarRow(y, Height, row_count))

(* A listing, a transfer or a filter changes the rows; Panes and QueuePane *)
(* say where the highlight goes.                                           *)
RowsChange ==
  \E n \in 0..MaxRows, i \in 0..MaxRows :
    /\ row_count' = n
    /\ row' = Clipped(i, n)
    /\ last_click' = [last_click EXCEPT !.chose = NoRow]
    /\ UNCHANGED <<list_kind, first_shown>>

-----------------------------------------------------------------------------
(* A click in the list, its border included.  Two on the same spot within  *)
(* 300 milliseconds are a double click.                                    *)
IsDouble(y) == last_click.y = y

Chosen(y) == RowUnder(first_shown, y, Border)

(* Mutant: the click that opened a row may be half of another.             *)
RemembersClick(y) == last_click' = [y |-> y, chose |-> Chosen(y), clicks |-> 0]

ForgetsClick(y) == last_click' = NoClick

SingleClick(y) ==
  /\ IF y >= Border /\ Chosen(y) < row_count
     THEN row' = Chosen(y) /\ (list_kind # "Queue" => ~IsDouble(y))
     ELSE UNCHANGED row
  /\ last_click' = [y |-> y,
                    chose |-> IF y >= Border /\ Chosen(y) < row_count THEN Chosen(y) ELSE NoRow,
                    clicks |-> Least(last_click.clicks + 1, 2)]
  /\ UNCHANGED <<list_kind, row_count, first_shown>>

(* The directory is entered, the file transferred, or the key taken.       *)
DoubleClick(y) ==
  /\ list_kind # "Queue" /\ IsDouble(y)
  /\ y >= Border /\ Chosen(y) < row_count
  /\ row' = Chosen(y)
  /\ ForgetsClick(y)
  /\ UNCHANGED <<list_kind, row_count, first_shown>>

(* 300 milliseconds pass, or the pointer is pressed somewhere else.        *)
ClickElsewhere ==
  /\ last_click # NoClick
  /\ last_click' = [last_click EXCEPT !.y = NoRow, !.chose = NoRow]
  /\ UNCHANGED <<list_kind, row_count, row, first_shown>>

ListNext ==
  \/ Draw \/ ListKeys \/ Jump \/ Wheel \/ apply_scrollbar_drag \/ RowsChange
  \/ \E y \in 0..(Height - 1) : SingleClick(y) \/ DoubleClick(y)
  \/ ClickElsewhere

ListSpec == ListInit /\ [][ListNext]_listVars

-----------------------------------------------------------------------------
(* The highlight is on a row whenever there is one, after any move.        *)
RowInList == row = 0 \/ row < row_count

(* Every frame shows the highlighted row, wherever a jump took it.         *)
FrameShowsHighlight ==
  first_shown' # first_shown => row_count = 0 \/ row \in Drawn(first_shown')

(* A page moves by no more than a screenful: the rows drawn after it join  *)
(* those drawn before, and none is passed over unseen.                     *)
PagesJoin ==
  \A dir \in {-1, 1} :
    LET before == FirstShown(row, RowsDrawn)
        after == FirstShown(Paged(row, row_count, dir, page_rows_for(Height)), RowsDrawn)
    IN after <= before + RowsDrawn /\ before <= after + RowsDrawn

(* The scrollbar is the list in small: its ends are the ends of the list,  *)
(* and dragging down never moves the highlight up.                         *)
BarSpansList ==
  /\ BarRow(0, Height, row_count) = 0
  /\ BarRow(Height - 1, Height, row_count) = LastRow(row_count)
  /\ \A y \in 0..(Height - 2) : BarRow(y, Height, row_count) <= BarRow(y + 1, Height, row_count)

(* A row is opened by two clicks of its own: a third quick click starts    *)
(* the next pair and opens nothing in the folder just entered.             *)
TwoClicksOpen ==
  \A y \in 0..(Height - 1) : DoubleClick(y) => last_click.clicks >= 1

(* Keys, pages, wheel, scrollbar and clicks agree on the rows: each leads  *)
(* to a row there is, in view, and a row opens only when it was meant.     *)
MovesAgreeOnRows ==
  [](RowInList /\ PagesJoin /\ BarSpansList) /\ [][FrameShowsHighlight /\ TwoClicksOpen]_listVars

(* keys.rs 351: double-click a directory to enter it.  The row opened is   *)
(* the row the first click highlighted.                                    *)
DoubleClickOpensChosen ==
  [][ \A y \in Border..(Border + RowsDrawn - 1) :
        DoubleClick(y) /\ last_click.chose # NoRow => row' = last_click.chose ]_listVars
=============================================================================
