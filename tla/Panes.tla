------------------------------- MODULE Panes -------------------------------
(***************************************************************************)
(* A file pane: the folder it is in, the entries it holds, and the rows it *)
(* shows of them, filtered and sorted (dd_ftp_app/src/state.rs and         *)
(* reducer.rs); the keys that move it (dd_ftp_cli/src/events.rs) and the   *)
(* listings that arrive later (dd_ftp_cli/src/session.rs).                 *)
(*                                                                         *)
(* The local and the remote pane share their code up to the way they are   *)
(* listed, so one pane is modelled and `remote' says which of the two it   *)
(* is.  An entry is its name; its kind, size and path follow from the name *)
(* and the folder.                                                         *)
(***************************************************************************)
EXTENDS Integers, Sequences, SequencesExt, FiniteSets

CONSTANTS
  Folder,               \* the folders, Root among them
  Root,
  Name,                 \* the names of entries: sequences of character codes
  Dirs,                 \* those that are directories
  Bytes,                \* the size of each, a function on Name
  Typed,                \* the characters typed into the filter
  MaxFilter,            \* longest filter (a bound of the model)
  MaxListings,          \* local listings under way at once (a bound)
  Listable,             \* what a folder may be found to hold (a bound)
  Users                 \* what a user does in one behaviour: sets of activities

ASSUME PaneAssumption ==
  /\ Root \in Folder
  /\ Dirs \subseteq Name /\ Name \subseteq Seq(Nat)
  /\ Bytes \in [Name -> Nat]
  /\ Listable \subseteq SUBSET Name /\ \A S \in Listable : IsFiniteSet(S)

VARIABLES
  remote,               \* is it the remote pane?
  user,                 \* what this user does
  cwd,                  \* the folder the pane says it is in
  shown,                \* the folder its entries were listed from
  entries,              \* the entries, as listed
  buffer,               \* the allocation that holds them
  selected,             \* the highlighted row, counted from 0
  marks, anchor,        \* marked paths, and the row a range is marked from
  filter, hide, sort_key, sort_asc,
  cache,                \* the rows as last computed, with what they were computed from
  listings,             \* local listings under way: [path, select, latest]
  io,                   \* what the remote connection, or a file operation, is busy with
  connected,
  prompt                \* the open prompt: the paths it is about

view == <<filter, hide, sort_key, sort_asc>>
place == <<cwd, shown, entries, buffer>>
marking == <<marks, anchor>>
work == <<listings, io, connected, prompt>>
filesVars == <<remote, user, place, selected, marking, view, cache, work>>

Dot == 46
DotNames == {<<Dot>>, <<Dot, Dot>>} \cap Name
Path(f, n) == [folder |-> f, name |-> n]
NoAnchorRow == -1
Idle == [kind |-> "Idle", paths |-> {}]
NoPrompt == [kind |-> "None", paths |-> {}]

-----------------------------------------------------------------------------
(* Filter and order.  "." and ".." come first; by name, directories do.    *)
HasText(n, p) == \E i \in 0..(Len(n) - Len(p)) : SubSeq(n, i + 1, i + Len(p)) = p

EntryVisible(n, p, h) == HasText(n, p) /\ ~(h /\ Head(n) = Dot /\ n \notin DotNames)

NameLess(a, b) ==
  \E k \in 0..Len(a) : /\ k < Len(b) /\ SubSeq(a, 1, k) = SubSeq(b, 1, k)
                       /\ k = Len(a) \/ a[k + 1] < b[k + 1]

Rank(n) == IF n \in DotNames THEN Len(n) ELSE 3

EntryLess(a, b, key, asc) ==
  LET Directed(x, y) == IF asc THEN x ELSE y
  IN IF Rank(a) # Rank(b) THEN Rank(a) < Rank(b)
     ELSE IF key = "Name" /\ (a \in Dirs) # (b \in Dirs) THEN a \in Dirs
     ELSE IF key = "Size" /\ Bytes[a] # Bytes[b]
          THEN Directed(Bytes[a] < Bytes[b], Bytes[b] < Bytes[a])
     ELSE Directed(NameLess(a, b), NameLess(b, a))

(* The positions of the visible entries, in the order they are shown.      *)
VisibleIndices(es, v) ==
  LET V == {i \in DOMAIN es : EntryVisible(es[i], v[1], v[2])}
      Above(i) == {k \in V : EntryLess(es[k], es[i], v[3], v[4])}
  IN [row \in 1..Cardinality(V) |-> CHOOSE i \in V : Cardinality(Above(i)) = row - 1]

NoCache == [buffer |-> 0, len |-> 0, view |-> <<>>, idx |-> <<>>]

(* The cache is used as long as the entries have the address and length,   *)
(* and the view the settings, that it was computed from.                   *)
Matches(c, es, b, v) == c.buffer = b /\ c.len = Len(es) /\ c.view = v

Lookup(c, es, b, v) ==
  IF Matches(c, es, b, v) THEN c
  ELSE [buffer |-> b, len |-> Len(es), view |-> v, idx |-> VisibleIndices(es, v)]

RowsOf(c, es) == [row \in DOMAIN c.idx |-> es[c.idx[row]]]

visible == RowsOf(Lookup(cache, entries, buffer, view), entries)

(* Every handler reads the rows before it changes anything, and they are   *)
(* read again for the new selection, or to be drawn.                       *)
Redraw == cache' = Lookup(Lookup(cache, entries, buffer, view), entries', buffer', view')

-----------------------------------------------------------------------------
Bounded(i, rows) == IF Len(rows) = 0 THEN 0 ELSE IF i < Len(rows) THEN i ELSE Len(rows) - 1

RowAt(rows, i) == IF i < Len(rows) THEN {rows[i + 1]} ELSE {}

selected_entry == RowAt(visible, selected)

ResolveSelect(rows, names, policy) ==
  IF policy = "Reset" THEN 0
  ELSE IF policy = "PreserveName" /\ names \cap ToSet(rows) # {}
       THEN (CHOOSE i \in 1..Len(rows) : rows[i] \in names) - 1
  ELSE Bounded(selected, rows)

(* A new listing is allocated while the old one is still held.             *)
NewBuffer(b) == 3 - b

MarksAfter(S, select) == IF select = "Reset" THEN {} ELSE marks \cap S

(* SetLocalEntries and SetRemoteEntries.                                   *)
SetEntries(f, S, select) ==
  /\ shown' = f
  /\ entries' = SetToSeq(S)
  /\ buffer' = NewBuffer(buffer)
  /\ marks' = MarksAfter({Path(f, n) : n \in S}, select)
  /\ UNCHANGED <<anchor, view>>
  /\ Redraw
  /\ selected' = ResolveSelect(RowsOf(cache', entries'), selected_entry, select)

(* The program starts with the local folder listed and the remote pane     *)
(* empty.                                                                  *)
FilesInit ==
  /\ remote \in BOOLEAN /\ user \in Users
  /\ cwd = Root /\ shown = Root
  /\ \E S \in Listable : entries = SetToSeq(IF remote THEN {} ELSE S)
  /\ buffer = 1
  /\ selected = 0
  /\ marks = {} /\ anchor = NoAnchorRow
  /\ filter = <<>> /\ hide = FALSE /\ sort_key = "Name" /\ sort_asc = TRUE
  /\ cache = NoCache
  /\ listings = {} /\ io = Idle /\ connected = FALSE /\ prompt = NoPrompt

-----------------------------------------------------------------------------
(* Keys and clicks reach the pane while no prompt is open.                 *)
Keys == prompt = NoPrompt

Does(activity) == Keys /\ activity \in user

(* A click, the wheel, the arrows, a page, a jump or the scrollbar.        *)
SelectIndex ==
  /\ Keys
  /\ \E i \in 0..Len(visible) : selected' = Bounded(i, visible)
  /\ UNCHANGED <<remote, user, place, marking, view, work>>
  /\ Redraw

Reselect == selected' = ResolveSelect(RowsOf(cache', entries'), selected_entry, "PreserveName")

ChangeView ==
  /\ Does("arrange")
  /\ \/ \E ch \in Typed : Len(filter) < MaxFilter /\ filter' = Append(filter, ch)
                          /\ UNCHANGED <<hide, sort_key, sort_asc>>
     \/ filter # <<>> /\ filter' \in {Front(filter), <<>>} /\ UNCHANGED <<hide, sort_key, sort_asc>>
     \/ hide' = ~hide /\ UNCHANGED <<filter, sort_key, sort_asc>>
     \/ sort_key' = (IF sort_key = "Name" THEN "Size" ELSE "Name")
        /\ UNCHANGED <<filter, hide, sort_asc>>
     \/ sort_asc' = ~sort_asc /\ UNCHANGED <<filter, hide, sort_key>>
  /\ UNCHANGED <<remote, user, place, marking, work>>
  /\ Redraw
  /\ Reselect

(* Mutant: a range is taken from the entries, not from the rows.           *)
RangeOfEntries(lo, hi) == {entries[i + 1] : i \in {k \in lo..hi : k < Len(entries)}} \ DotNames

VisibleRange(lo, hi) == {visible[i + 1] : i \in {k \in lo..hi : k < Len(visible)}} \ DotNames

MarkRange(from, to) ==
  LET lo == IF from <= to THEN from ELSE to
      hi == IF from <= to THEN to ELSE from
  IN marks' = marks \cup {Path(shown, n) : n \in VisibleRange(lo, hi)}

MarkAllVisible ==
  /\ Does("mark")
  /\ MarkRange(0, Len(visible))
  /\ UNCHANGED <<remote, user, place, selected, anchor, view, work>>
  /\ Redraw

ToggleMark ==
  /\ Does("mark")
  /\ \E n \in selected_entry \ DotNames :
       marks' = IF Path(shown, n) \in marks THEN marks \ {Path(shown, n)}
                ELSE marks \cup {Path(shown, n)}
  /\ anchor' = selected
  /\ UNCHANGED <<remote, user, place, selected, view, work>>
  /\ Redraw

(* The anchor is a row number and is kept by sorting and listing.          *)
ExtendMark(dir) ==
  /\ Does("mark")
  /\ selected + dir >= 0 /\ selected + dir < Len(visible)
  /\ anchor' = IF anchor = NoAnchorRow THEN selected ELSE anchor
  /\ selected' = selected + dir
  /\ MarkRange(anchor', selected')
  /\ UNCHANGED <<remote, user, place, view, work>>
  /\ Redraw

(* A click with shift: select, then mark from the row selected before.     *)
ShiftClick(i) ==
  /\ Does("mark")
  /\ i < Len(visible)
  /\ selected' = i
  /\ anchor' = selected
  /\ MarkRange(selected, i)
  /\ UNCHANGED <<remote, user, place, view, work>>
  /\ Redraw

ClearMarks ==
  /\ Does("mark")
  /\ marks \cap {Path(shown, n) : n \in ToSet(entries) \ DotNames} # {}
  /\ marks' = {} /\ anchor' = NoAnchorRow
  /\ UNCHANGED <<remote, user, place, selected, view, work>>
  /\ Redraw

-----------------------------------------------------------------------------
(* Local listings run on threads of their own.  Each request outdates the  *)
(* ones before it; the answers come in any order.                          *)
RequestLocalList(f, select) ==
  /\ Cardinality(listings) < MaxListings
  /\ listings' = {[t EXCEPT !.latest = FALSE] : t \in listings}
                \cup {[path |-> f, select |-> select, latest |-> TRUE]}

(* Mutant: an answer is taken for whatever folder it is.                *)
AnyListing(t) == TRUE

IsAwaited(t) == t.latest /\ t.path = cwd

LocalListDone(t) ==
  /\ listings' = listings \ {t}
  /\ \/ /\ IsAwaited(t)
        /\ \E S \in Listable : SetEntries(t.path, S, t.select)
     \/ /\ ~IsAwaited(t)
        /\ UNCHANGED <<shown, entries, buffer, selected, marking, view>>
        /\ Redraw
  /\ UNCHANGED <<remote, user, cwd, io, connected, prompt>>

Settled(f) == UNCHANGED <<remote, user, shown, entries, buffer, selected, marking, view>> /\ cwd' = f

(* Enter on a folder, the parent key, a click on the path, or a last local *)
(* folder from the settings.                                               *)
NavigateLocal(f) ==
  /\ Does("navigate") /\ ~remote
  /\ Settled(f)
  /\ RequestLocalList(f, "Reset")
  /\ UNCHANGED <<io, connected, prompt>>
  /\ Redraw

RefreshLocal ==
  /\ Does("refresh") /\ ~remote
  /\ Settled(cwd)
  /\ RequestLocalList(cwd, "PreserveName")
  /\ UNCHANGED <<io, connected, prompt>>
  /\ Redraw

-----------------------------------------------------------------------------
(* The remote pane is listed over the one connection, so one listing is    *)
(* under way at most; the folder is changed before the listing is asked.   *)
RequestList(f, select) ==
  io' = [kind |-> "List", paths |-> {}, folder |-> f, select |-> select]

NavigateRemote(f) ==
  /\ Does("navigate") /\ remote /\ connected /\ io = Idle
  /\ Settled(f)
  /\ RequestList(f, "Reset")
  /\ UNCHANGED <<listings, connected, prompt>>
  /\ Redraw

(* The refresh key, and the check before an edited file is uploaded, which *)
(* lists the folder of that file.                                          *)
RelistRemote(f) ==
  /\ "refresh" \in user /\ remote /\ connected /\ io = Idle
  /\ Settled(cwd)
  /\ RequestList(f, "PreserveName")
  /\ UNCHANGED <<listings, connected, prompt>>
  /\ Redraw

ListDone ==
  /\ io.kind = "List"
  /\ io' = Idle
  /\ \/ \E S \in Listable : SetEntries(io.folder, S, io.select) /\ UNCHANGED cwd
     \/ Settled(cwd) /\ Redraw
  /\ UNCHANGED <<remote, user, listings, connected, prompt>>

Connect(f) ==
  /\ Keys /\ remote /\ ~connected /\ io = Idle
  /\ Settled(f)
  /\ io' = [kind |-> "Connect", paths |-> {}]
  /\ UNCHANGED <<listings, connected, prompt>>
  /\ Redraw

ConnectDone ==
  /\ io.kind = "Connect"
  /\ io' = Idle
  /\ \/ connected' = TRUE /\ \E S \in Listable : SetEntries(cwd, S, "Reset")
     \/ connected' = FALSE /\ Settled(cwd) /\ Redraw
  /\ UNCHANGED <<remote, user, cwd, listings, prompt>>

DisconnectSession ==
  /\ Keys /\ remote /\ connected
  /\ connected' = FALSE
  /\ io' = Idle
  /\ prompt' = NoPrompt
  /\ SetEntries(cwd, {}, "Reset")
  /\ UNCHANGED <<remote, user, cwd, listings>>

-----------------------------------------------------------------------------
(* Marked entries, or the selected one if none of those listed is marked.  *)
entries_for_action ==
  LET live == {n \in ToSet(entries) \ DotNames : Path(shown, n) \in marks}
  IN IF live # {} THEN live ELSE selected_entry

(* The path of what will be deleted is made when the question is asked,    *)
(* from the pane's folder and the entry's name.                            *)
QueueDeletes ==
  prompt' = [kind |-> "Delete",
             paths |-> {Path(cwd, n) : n \in entries_for_action \ DotNames}]

OpenDeletePrompt ==
  /\ Does("ask") /\ entries_for_action \ DotNames # {}
  /\ QueueDeletes
  /\ UNCHANGED <<remote, user, place, selected, marking, view, listings, io, connected>>
  /\ Redraw

OpenRenamePrompt ==
  /\ Does("ask") /\ selected_entry # {}
  /\ prompt' = [kind |-> "Rename", paths |-> {Path(shown, n) : n \in selected_entry}]
  /\ UNCHANGED <<remote, user, place, selected, marking, view, listings, io, connected>>
  /\ Redraw

(* What is renamed is the entry selected when the new name is entered.     *)
RenameItem ==
  IF io = Idle /\ selected_entry \ DotNames # {} /\ (remote => connected)
  THEN io' = [kind |-> "Fs", paths |-> {Path(cwd, n) : n \in selected_entry}]
  ELSE UNCHANGED io

StartNextDelete ==
  IF io = Idle /\ (remote => connected)
  THEN io' = [kind |-> "Fs", paths |-> prompt.paths]
  ELSE UNCHANGED io

ConfirmPrompt ==
  /\ ~Keys
  /\ IF prompt.kind = "Rename" THEN RenameItem ELSE StartNextDelete
  /\ prompt' = NoPrompt
  /\ UNCHANGED <<remote, user, place, selected, marking, view, listings, connected>>
  /\ Redraw

CancelPrompt ==
  /\ ~Keys
  /\ prompt' = NoPrompt
  /\ UNCHANGED <<remote, user, place, selected, marking, view, listings, io, connected>>
  /\ Redraw

(* A file operation that succeeded lists its pane again.                   *)
FsDone ==
  /\ io.kind = "Fs"
  /\ Settled(cwd)
  /\ \/ /\ ~remote /\ io' = Idle
        /\ RequestLocalList(cwd, "PreserveName")
     \/ /\ remote /\ connected
        /\ RequestList(cwd, "PreserveName") /\ UNCHANGED listings
     \/ io' = Idle /\ UNCHANGED listings
  /\ UNCHANGED <<connected, prompt>>
  /\ Redraw

FilesNext ==
  \/ SelectIndex \/ ChangeView
  \/ MarkAllVisible \/ ToggleMark \/ ClearMarks
  \/ \E dir \in {-1, 1} : ExtendMark(dir)
  \/ \E i \in 0..Len(entries) : ShiftClick(i)
  \/ \E t \in listings : LocalListDone(t)
  \/ RefreshLocal \/ ListDone \/ ConnectDone \/ DisconnectSession
  \/ \E f \in Folder : NavigateLocal(f) \/ NavigateRemote(f) \/ RelistRemote(f) \/ Connect(f)
  \/ OpenDeletePrompt \/ OpenRenamePrompt \/ ConfirmPrompt \/ CancelPrompt \/ FsDone

FilesSpec == FilesInit /\ [][FilesNext]_filesVars

-----------------------------------------------------------------------------
(* A row is highlighted whenever there is one, whatever the filter, the    *)
(* order and the listings did to the rows since it was chosen.             *)
SelectionInRange == selected = 0 \/ selected < Len(visible)

(* The rows are those of the entries and settings of now: the cache, whose *)
(* key is an address and a length, never passes old rows off as new.       *)
RowsAreCurrent ==
  Lookup(cache, entries, buffer, view).idx = VisibleIndices(entries, view)

(* What is marked is in the pane: no path of an earlier folder, or of an   *)
(* entry that is gone, waits for the next delete or transfer.              *)
MarksAreListed == marks \subseteq {Path(shown, n) : n \in ToSet(entries)}

(* With no listing on its way, the local pane shows the folder it is in,   *)
(* in whatever order the listings of earlier folders came back.            *)
LocalShowsItsFolder ==
  ~remote /\ (\A t \in listings : ~t.latest) => shown = cwd

(* The pane's books fit: highlight, cached rows, marks and folder are of   *)
(* the same listing.                                                       *)
PaneInv == SelectionInRange /\ RowsAreCurrent /\ MarksAreListed /\ LocalShowsItsFolder

ArrivesAnew ==
  \/ \E t \in listings \ listings' : t.select = "Reset"
  \/ io.kind = "List" /\ io' # io /\ io.select = "Reset"
  \/ io.kind = "Connect"

(* The highlighted name stays highlighted through typing a filter, sorting,*)
(* hiding and refreshing, as long as it is shown at all.                   *)
SelectionFollowsName ==
  \/ SelectIndex \/ ArrivesAnew
  \/ \E dir \in {-1, 1} : ExtendMark(dir)
  \/ \E i \in 0..Len(entries) : ShiftClick(i)
  \/ selected_entry \cap ToSet(visible') \subseteq selected_entry'

(* Only a row on the screen is ever marked, and never "." or "..": ranges  *)
(* that skip over filtered entries do not mark them.                       *)
OnlySeenIsMarked ==
  marks' \ marks \subseteq {Path(shown, n) : n \in ToSet(visible) \ DotNames}

(* No step of the user, a listing or a task moves the highlight off its    *)
(* entry or marks what is not on the screen.                               *)
StepsKeepTheChoice == [][SelectionFollowsName /\ OnlySeenIsMarked]_filesVars

(* CHANGELOG.md 118: remote paths for delete are the folder of the pane    *)
(* and the entry's name.  The paths asked about are paths of entries that  *)
(* the pane shows.                                                         *)
DeletesWhatIsShown ==
  [][ remote /\ Keys /\ prompt'.kind = "Delete" =>
        prompt'.paths \subseteq {Path(shown, n) : n \in ToSet(entries)} ]_filesVars

(* reducer.rs 824: the rename prompt has a target, set when it is opened.  *)
(* What is renamed is that target.                                         *)
RenamesWhatWasAsked ==
  [][ prompt.kind = "Rename" /\ io = Idle /\ io'.kind = "Fs" =>
        io'.paths = prompt.paths ]_filesVars
=============================================================================
