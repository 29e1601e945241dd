---------------------------- MODULE ConnectForm -----------------------------
(***************************************************************************)
(* The quick connect form and the key picker over it.  The form edits a    *)
(* copy of one field, qc_field, and the connection made is the one in      *)
(* quick_connect: state.rs asks that the copy is written back after every  *)
(* change and fetched again whenever the form or its field changes.        *)
(* A text is a sequence, NoText an Option that is None; of the contents of *)
(* a field only empty, typed and a file's path are told apart.             *)
(***************************************************************************)
EXTENDS Naturals, Sequences, FiniteSetsExt

CONSTANTS
  Editable,     \* the fields that are typed into
  FileName,     \* what a row of the picker may be called
  Dir,          \* the folders the picker may show, by their last component
  Home,         \* the one it starts in
  Parent,       \* the folder above each of them, itself at the root
  Disk,         \* what the folders may hold: functions to the rows shown
  Saved         \* the connections that bookmarks load

Order == <<"Name", "Host", "Port", "Username", "Password", "PrivateKey", "Protocol", "Path">>
Field == {Order[i] : i \in DOMAIN Order}

NoText == <<"none">>
Texts == {<<>>, <<"typed">>}
PortTexts == {<<>>, <<"022">>, <<"70000">>}

(* v.parse().unwrap_or(0), in the digits of to_string.                     *)
Parse(text) == IF text \in {<<"022">>, <<"22">>} THEN <<"22">> ELSE <<"0">>

PickerRow == [name : FileName, dir : BOOLEAN]

(* A port is a number and a file's path leads to a folder; above a folder  *)
(* are only others; its rows are `.', `..', its files and its subfolders.  *)
ASSUME FormAssumption ==
  /\ Editable \subseteq Field
  /\ Home \in Dir
  /\ Parent \in [Dir -> Dir] /\ \A d \in Dir : Parent[Parent[d]] = d => Parent[d] = d
  /\ \A d \in Disk : /\ d \in [Dir -> Seq(PickerRow)]
                     /\ \A f \in Dir : /\ Len(d[f]) >= 2
                                       /\ \A i \in DOMAIN d[f] :
                                            d[f][i].dir /\ d[f][i].name \notin {".", ".."} =>
                                              d[f][i].name \in Dir /\ Parent[d[f][i].name] = f
  /\ \A s \in Saved : /\ s = [f \in Field |-> s[f]]
                      /\ s["Port"] = Parse(s["Port"])
                      /\ Len(s["PrivateKey"]) = 2 => s["PrivateKey"][1] \in Dir

VARIABLES
  quick_connect,  \* the connection, by field
  active,         \* quick_connect_field
  qc_field,       \* the text being edited
  picking,        \* show_key_picker
  picker,         \* the picker's folder, rows and selected row
  disk            \* the folders now

formVars == <<quick_connect, active, qc_field, picking, picker, disk>>

qc_active_value(q, f) == IF f = "Protocol" \/ q[f] = NoText THEN <<>> ELSE q[f]

Flushed(q, f, text) ==
  IF f = "Protocol" THEN q
  ELSE [q EXCEPT ![f] = IF f = "Port" THEN Parse(text) ELSE text]

(* Every change of the form or of its field ends in qc_hydrate.            *)
Hydrate(q, f) == quick_connect' = q /\ active' = f /\ qc_field' = qc_active_value(q, f)

FieldAfter(f, step) ==
  LET i == CHOOSE k \in DOMAIN Order : Order[k] = f
  IN  Order[((i - 1 + step) % Len(Order)) + 1]

FormInit == /\ quick_connect \in Saved
            /\ active = "Name"
            /\ qc_field = qc_active_value(quick_connect, "Name")
            /\ picking = FALSE
            /\ picker = [cwd |-> Home, rows |-> <<>>, selected |-> 0]
            /\ disk \in Disk

PickerStays == UNCHANGED <<picking, picker, disk>>

-----------------------------------------------------------------------------
(* The form.  A key changes the text, then qc_flush writes it back.        *)
EditField ==
  /\ ~picking /\ active \in Editable \cup {"Protocol"}
  /\ qc_field' \in IF active = "Port" THEN PortTexts ELSE Texts
  /\ quick_connect' = Flushed(quick_connect, active, qc_field')
  /\ UNCHANGED active /\ PickerStays

NextField == ~picking /\ Hydrate(quick_connect, FieldAfter(active, 1)) /\ PickerStays

PrevField == ~picking /\ Hydrate(quick_connect, FieldAfter(active, Len(Order) - 1)) /\ PickerStays

CycleProtocol ==
  /\ ~picking
  /\ \E p \in {<<"Sftp">>, <<"Ftp">>, <<"Ftps">>} \ {quick_connect["Protocol"]} :
       quick_connect' = [quick_connect EXCEPT !["Protocol"] = p]
  /\ UNCHANGED <<active, qc_field>> /\ PickerStays

(* Mutant: the text is written back after the click has moved the field.   *)
ClickThenFlush(f) == /\ active' = f /\ PickerStays
                     /\ quick_connect' = Flushed(quick_connect, f, qc_field)
                     /\ qc_field' = qc_active_value(quick_connect', f)

ClickField(f) == ~picking /\ f # "Protocol" /\ Hydrate(quick_connect, f) /\ PickerStays

ReopenForm == Hydrate(quick_connect, "Name") /\ picking' = FALSE
              /\ picker' = [picker EXCEPT !.rows = <<>>, !.selected = 0] /\ UNCHANGED disk

SetFromBookmark == ~picking /\ (\E s \in Saved : Hydrate(s, "Name")) /\ PickerStays

-----------------------------------------------------------------------------
(* The key picker.                                                         *)
Named(rows, name) == {i \in DOMAIN rows : rows[i].name = name}

(* The first row of a set, counted from 0.                                 *)
First(places, otherwise) == IF places = {} THEN otherwise ELSE Min(places) - 1

key_picker_index(rows, prefer, prefer_ssh) ==
  LET ssh == IF prefer_ssh THEN {i \in Named(rows, ".ssh") : rows[i].dir} ELSE {}
      proper == {i \in DOMAIN rows : rows[i].name \notin {".", ".."}}
  IN  First(Named(rows, prefer), First(ssh, First(proper, 0)))

Key(dir, name) == <<dir, name>>

(* The folder of the key that is filled in, if there is one, else home.    *)
key_picker_start_dir(key) == IF Len(key) = 2 THEN key[1] ELSE Home

key_picker_prefer_name(key) == IF Len(key) = 2 THEN key[2] ELSE "nothing"

open_key_picker ==
  /\ ~picking
  /\ LET q == Flushed(quick_connect, active, qc_field)
         dir == key_picker_start_dir(q["PrivateKey"])
     IN  /\ Hydrate(q, "PrivateKey")
         /\ picker' = [cwd |-> dir, rows |-> disk[dir],
                       selected |-> key_picker_index(disk[dir], key_picker_prefer_name(q["PrivateKey"]), TRUE)]
  /\ picking' = TRUE
  /\ UNCHANGED disk

ConnectionStays == UNCHANGED <<quick_connect, active, qc_field, disk>>

key_picker_load(dir, select) ==
  picker' = [cwd |-> dir, rows |-> disk[dir], selected |-> select]

selected_entry == picker.rows[picker.selected + 1]

Reload ==
  LET rows == disk[picker.cwd]
      clamped == IF picker.selected < Len(rows) THEN picker.selected ELSE Len(rows) - 1
  IN  key_picker_load(picker.cwd, First(Named(rows, selected_entry.name), clamped))

LoadReset(dir, came_from) == key_picker_load(dir, key_picker_index(disk[dir], came_from, FALSE))

KeyPickerConfirm ==
  /\ Hydrate([quick_connect EXCEPT !["PrivateKey"] = Key(picker.cwd, selected_entry.name)], "PrivateKey")
  /\ picking' = FALSE
  /\ picker' = [picker EXCEPT !.rows = <<>>, !.selected = 0]
  /\ UNCHANGED disk

key_picker_activate_selected ==
  /\ picking
  /\ \/ ~selected_entry.dir /\ KeyPickerConfirm
     \/ /\ selected_entry.dir /\ ConnectionStays /\ UNCHANGED picking
        /\ CASE selected_entry.name = "." -> Reload
             [] selected_entry.name = ".." -> LoadReset(Parent[picker.cwd], picker.cwd)
             [] OTHER -> LoadReset(selected_entry.name, "nothing")

key_picker_go_parent ==
  /\ picking /\ Parent[picker.cwd] # picker.cwd
  /\ LoadReset(Parent[picker.cwd], picker.cwd)
  /\ ConnectionStays /\ UNCHANGED picking

PickerMove == /\ picking
              /\ \E i \in 0..(Len(picker.rows) - 1) : picker' = [picker EXCEPT !.selected = i]
              /\ ConnectionStays /\ UNCHANGED picking

close_key_picker == /\ picking' = FALSE
                    /\ picker' = [picker EXCEPT !.rows = <<>>, !.selected = 0]
                    /\ ConnectionStays

(* Other programs add and remove files.                                    *)
DiskChanges == disk' \in Disk /\ UNCHANGED <<quick_connect, active, qc_field, picking, picker>>

FormNext ==
  \/ EditField \/ NextField \/ PrevField \/ CycleProtocol \/ (\E f \in Editable : ClickField(f))
  \/ ReopenForm \/ SetFromBookmark \/ open_key_picker
  \/ key_picker_activate_selected \/ key_picker_go_parent \/ PickerMove \/ close_key_picker
  \/ DiskChanges

FormSpec == FormInit /\ [][FormNext]_formVars

-----------------------------------------------------------------------------
(* What is on the screen is what will be connected to: the text in the     *)
(* editor, read as the field it is shown in, is what the form holds there. *)
FormIsOnScreen ==
  active # "Protocol" =>
    quick_connect[active] \in {Flushed(quick_connect, active, qc_field)[active]}
                              \cup (IF qc_field = <<>> THEN {NoText} ELSE {})

(* Typing, clicking into another field and browsing for a key never write  *)
(* a text into a field it was not typed into.                              *)
EditsStayInField ==
  quick_connect' \notin Saved =>
    \A f \in Field : quick_connect'[f] # quick_connect[f] =>
                       f \in {active, "Protocol"} \/ (picking /\ f = "PrivateKey")

(* The highlighted row of the picker exists, in whatever state the folder  *)
(* was when it was read.                                                   *)
PickerOnARow == picking => picker.selected < Len(picker.rows)

(* Leaving a folder upwards leads back to its own row, if it is listed, so *)
(* that Enter goes back in.                                                *)
PickerReturns ==
  picking /\ picking' /\ picker'.cwd # picker.cwd /\ picker'.cwd = Parent[picker.cwd]
    /\ (\E i \in DOMAIN picker'.rows : picker'.rows[i].name = picker.cwd)
  => picker'.rows[picker'.selected + 1].name = picker.cwd

(* One editor serves every field and the picker fills in one of them: the  *)
(* form holds what was typed, where it was typed.                          *)
FormHoldsWhatIsTyped ==
  [](FormIsOnScreen /\ PickerOnARow) /\ [][EditsStayInField /\ PickerReturns]_formVars
=============================================================================
