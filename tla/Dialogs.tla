------------------------------ MODULE Dialogs -------------------------------
(***************************************************************************)
(* Who gets a key: handle_key of dd_ftp_cli/src/events.rs and the clicks   *)
(* of mouse.rs that open or close something.  Dialogs are opened by keys,  *)
(* by clicks on what the last frame showed, which may be gone by the time  *)
(* the click is read, and by tasks: a prompt is put up whatever else is    *)
(* open.                                                                   *)
(***************************************************************************)
EXTENDS Overlays, FiniteSets, Naturals

VARIABLES
  shown,      \* the flags that are up
  prompt_kind,\* "None" when show_prompt is down
  drawn,      \* what of `shown' the last frame had regions for
  working,    \* worker_running, or a job in queue.active
  marked,     \* the focused pane has marked rows
  quit        \* the main loop has ended

dialogVars == <<shown, prompt_kind, drawn, working, marked, quit>>

TextPrompts == {"CreateFile", "CreateFolder", "Rename", "Chmod", "OverwriteRename", "EditSaveAs"}

ChoicePrompts == {"ConfirmQuit", "ConfirmDelete", "ConfirmBookmarkDelete", "HostKey", "Overwrite",
                  "ConfirmEditLarge", "ConfirmEditBinary", "EditConflict"}

Clickable == {"quick_connect", "bookmarks", "key_picker"}

modal == any_modal_open(shown, prompt_kind)

(* The tests of handle_key for an ordinary key, in their order.            *)
Takers == <<"theme", "help", "filter", "settings", "choice", "text", "key_picker", "quick_connect",
            "bookmarks", "panes">>

Takes(t) ==
  CASE t = "theme" -> "theme" \in shown /\ shown \cap {"theme_editor", "theme_picker"} # {}
    [] t = "choice" -> prompt_kind \in ChoicePrompts
    [] t = "text" -> prompt_kind \in TextPrompts
    [] t = "panes" -> TRUE
    [] OTHER -> t \in shown

To(t) == /\ ~quit
         /\ \E i \in DOMAIN Takers :
              /\ Takers[i] = t
              /\ Takes(t)
              /\ \A k \in 1..(i - 1) : ~Takes(Takers[k])

Show(S) == shown' = S /\ UNCHANGED <<prompt_kind, drawn, working, marked, quit>>

Ask(p) == prompt_kind' = p /\ UNCHANGED <<shown, drawn, working, marked, quit>>

DialogsInit == /\ shown = {} /\ prompt_kind = "None" /\ drawn = {}
               /\ working = FALSE /\ marked = FALSE /\ quit = FALSE

-----------------------------------------------------------------------------
(* Keys that are read before any dialog is asked.                          *)
CtrlA ==
  /\ ~quit
  /\ shown \cap {"help", "settings", "quick_connect", "bookmarks", "key_picker"} = {}
  /\ prompt_kind = "None"
  /\ marked' \in {TRUE, marked}
  /\ UNCHANGED <<shown, prompt_kind, drawn, working, quit>>

request_quit == IF working THEN quit' = FALSE /\ prompt_kind' = "ConfirmQuit"
                ELSE quit' = TRUE /\ UNCHANGED prompt_kind

CtrlQ ==
  /\ ~quit
  /\ IF prompt_kind = "ConfirmQuit" THEN quit' = TRUE /\ UNCHANGED prompt_kind
     ELSE IF prompt_kind \in ChoicePrompts /\ ~working THEN quit' = TRUE /\ prompt_kind' = "None"
     ELSE request_quit
  /\ UNCHANGED <<shown, drawn, working, marked>>

F1 ==
  /\ ~quit
  /\ ~modal \/ "help" \in shown
  /\ Show(ToggleHelp(IF "theme" \in shown /\ "help" \notin shown THEN close_theme(shown) ELSE shown))

F2 ==
  /\ ~quit
  /\ ~modal \/ "theme" \in shown
  /\ \E listed \in BOOLEAN :
       Show(ToggleThemeDebug(IF "theme" \in shown THEN close_theme(shown) ELSE open_theme_ui(shown, listed)))

F3 ==
  /\ ~quit
  /\ ~modal \/ shown \cap {"settings", "help", "theme"} # {}
  /\ ~Takes("theme")
  /\ Show(ToggleSettings(shown))

Slash == To("panes") /\ ~modal /\ Show(ToggleFilter(shown))

ShiftC == To("panes") /\ ~modal /\ Show(ToggleCompare(shown))

-----------------------------------------------------------------------------
(* What Escape leaves, by who gets it.                                     *)
EscTheme(S) ==
  IF "editing_hex" \in S THEN S \ {"editing_hex"}
  ELSE IF {"theme_picker", "theme_editor"} \subseteq S THEN S \ {"theme_editor"}
  ELSE dismiss_theme(S)

(* A rename for an overwrite falls back to the question it came from, if   *)
(* there is still a file to ask about.                                     *)
EscText == {"None"} \cup IF prompt_kind = "OverwriteRename" THEN {"Overwrite"} ELSE {}

EscShown(t) ==
  CASE t = "theme" -> EscTheme(shown)
    [] t = "help" -> ToggleHelp(shown)
    [] t = "filter" -> ToggleFilter(shown)
    [] t = "settings" -> ToggleSettings(shown)
    [] t = "key_picker" -> CloseKeyPicker(shown)
    [] t = "quick_connect" -> ToggleQuickConnect(shown)
    [] t = "bookmarks" -> ToggleBookmarks(shown)
    [] t = "panes" -> shown \ {"compare"}
    [] OTHER -> shown

EscPrompts(t) ==
  CASE t = "choice" -> {"None"}
    [] t = "text" -> EscText
    [] OTHER -> {prompt_kind}

Esc ==
  \E i \in DOMAIN Takers :
    LET t == Takers[i]
    IN  /\ To(t)
        /\ shown' = EscShown(t)
        /\ prompt_kind' \in EscPrompts(t)
        /\ marked' = (marked /\ (t # "panes" \/ "compare" \in shown))
        /\ UNCHANGED <<drawn, working, quit>>

-----------------------------------------------------------------------------
(* The other keys of each dialog that open or close one.                   *)
ThemeEnter == /\ To("theme") /\ "theme_editor" \in shown
              /\ Show(IF "editing_hex" \in shown THEN shown \ {"editing_hex"} ELSE shown \cup {"editing_hex"})

ThemeEdit == To("theme") /\ "theme_editor" \notin shown /\ Show(shown \cup {"theme_editor"})

save_theme_palette == To("theme") /\ "editing_hex" \notin shown /\ Show(dismiss_theme(shown))

FilterEnter == To("filter") /\ Show(CloseFilterKeep(shown))

SettingsEnter == To("settings") /\ Show(ToggleSettings(shown))

(* The next file in conflict is asked about at once.                       *)
AnswerOverwrite == /\ To("choice") /\ prompt_kind = "Overwrite"
                   /\ \E next \in {"None", "Overwrite", "OverwriteRename"} : Ask(next)

AnswerEditConflict == /\ To("choice") /\ prompt_kind = "EditConflict"
                  /\ \E next \in {"None", "EditSaveAs"} : Ask(next)

AcceptChoice ==
  /\ To("choice")
  /\ prompt_kind \notin {"Overwrite", "EditConflict"}
  /\ IF prompt_kind = "ConfirmQuit" THEN quit' = TRUE /\ UNCHANGED prompt_kind
     ELSE prompt_kind' = "None" /\ UNCHANGED quit
  /\ UNCHANGED <<shown, drawn, working, marked>>

TextTab == /\ To("text") /\ prompt_kind \in {"CreateFile", "CreateFolder"}
           /\ Ask(CHOOSE p \in {"CreateFile", "CreateFolder"} : p # prompt_kind)

TextEnter == /\ To("text")
             /\ \E next \in {"None", "Overwrite"} : (next = "None" \/ prompt_kind = "OverwriteRename") /\ Ask(next)

PickerEnter == To("key_picker") /\ Show(CloseKeyPicker(shown))

ConnectEnter == To("quick_connect") /\ Show(ToggleQuickConnect(shown))

ConnectBrowse == To("quick_connect") /\ Show(OpenKeyPicker(shown))

LoadBookmark == To("bookmarks") /\ Show(ToggleQuickConnect(ToggleBookmarks(shown)))

ConnectBookmark == To("bookmarks") /\ Show(ToggleBookmarks(shown))

AskBookmarkDelete == To("bookmarks") /\ Ask("ConfirmBookmarkDelete")

OpenPrompt == /\ To("panes") /\ ~modal
              /\ \E p \in {"CreateFile", "Rename", "Chmod", "ConfirmDelete"} : Ask(p)

ToggleMark == To("panes") /\ ~modal /\ marked' \in BOOLEAN /\ UNCHANGED <<shown, prompt_kind, drawn, working, quit>>

OpenDialog == To("panes") /\ (Show(ToggleQuickConnect(shown)) \/ Show(ToggleBookmarks(shown)))

-----------------------------------------------------------------------------
(* Clicks are looked up in the regions of the last frame.                  *)
Draw == drawn' = shown \cap Clickable /\ drawn # drawn' /\ UNCHANGED <<shown, prompt_kind, working, marked, quit>>

ClickBrowse ==
  /\ ~quit /\ "quick_connect" \in drawn /\ "key_picker" \notin drawn
  /\ prompt_kind = "None" /\ shown \cap {"settings"} = {} /\ "quick_connect" \in shown
  /\ Show(OpenKeyPicker(shown))

ClickBookmark ==
  /\ ~quit /\ "bookmarks" \in drawn
  /\ prompt_kind = "None" /\ "settings" \notin shown
  /\ Show(ToggleQuickConnect(ToggleBookmarks(shown)))

ClickKeyFile == ~quit /\ "key_picker" \in drawn /\ "key_picker" \in shown /\ Show(CloseKeyPicker(shown))

-----------------------------------------------------------------------------
(* What tasks do to the dialogs.  The drain asks only while no choice is   *)
(* open; a login and the steps of an edit ask at once.                     *)
TaskAsks ==
  /\ ~quit
  /\ \/ prompt_kind \notin ChoicePrompts /\ Ask("Overwrite")
     \/ \E p \in {"HostKey", "ConfirmEditLarge", "ConfirmEditBinary", "EditConflict"} : Ask(p)

WorkersChange == ~quit /\ working' = ~working /\ UNCHANGED <<shown, prompt_kind, drawn, marked, quit>>

DialogsNext ==
  \/ CtrlA \/ CtrlQ \/ F1 \/ F2 \/ F3 \/ Slash \/ ShiftC \/ Esc
  \/ ThemeEnter \/ ThemeEdit \/ save_theme_palette \/ FilterEnter \/ SettingsEnter
  \/ AnswerOverwrite \/ AnswerEditConflict \/ AcceptChoice \/ TextTab \/ TextEnter
  \/ PickerEnter \/ ConnectEnter \/ ConnectBrowse
  \/ LoadBookmark \/ ConnectBookmark \/ AskBookmarkDelete
  \/ OpenPrompt \/ ToggleMark \/ OpenDialog
  \/ Draw \/ ClickBrowse \/ ClickBookmark \/ ClickKeyFile \/ TaskAsks \/ WorkersChange

DialogsSpec == DialogsInit /\ [][DialogsNext]_dialogVars

-----------------------------------------------------------------------------
(* What is over the panes, counted so that going back to a question counts *)
(* less than the prompt that came from it.                                 *)
Weight(S, p) ==
  Cardinality(S) + (CASE p = "None" -> 0 [] p = "OverwriteRename" -> 2 [] OTHER -> 1)

(* No dialog traps the keyboard: whatever is open, and whatever tasks have *)
(* put over it, one of them gets Escape and closes something, so that      *)
(* pressing it often enough leads back to the panes.                       *)
EscAlwaysCloses ==
  ~quit /\ Weight(shown, prompt_kind) > 0 =>
    \E i \in DOMAIN Takers :
      /\ To(Takers[i])
      /\ \A p \in EscPrompts(Takers[i]) :
           Weight(EscShown(Takers[i]), p) < Weight(shown, prompt_kind)

(* Help, theme and settings, which each take the whole keyboard, are never *)
(* open two at a time.                                                     *)
OneFullScreen == Cardinality(shown \cap {"help", "theme", "settings"}) <= 1

(* The key picker writes into the connection form, and is open only over   *)
(* it; the form and the bookmarks are never open together.                 *)
PickerHasForm == /\ "key_picker" \in shown => "quick_connect" \in shown
                 /\ ~({"quick_connect", "bookmarks"} \subseteq shown)

(* A running transfer is given up only by a yes to the question whether to *)
(* quit, or by asking to quit again while it is open.                      *)
NoSilentQuit == quit' /\ ~quit => ~working \/ prompt_kind = "ConfirmQuit"

(* Whatever dialogs tasks and clicks on old frames have put over each      *)
(* other, Escape closes one of them, no dialog stands without the one it   *)
(* belongs to, two that take the whole keyboard are never open, and none   *)
(* is a way round the question before a quit.                              *)
DialogsStayInOrder ==
  [](EscAlwaysCloses /\ OneFullScreen /\ PickerHasForm) /\ [][NoSilentQuit]_dialogVars
=============================================================================
