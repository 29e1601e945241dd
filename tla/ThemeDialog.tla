---------------------------- MODULE ThemeDialog -----------------------------
(***************************************************************************)
(* The colours: the theme that is painted, the file it is saved in, the    *)
(* desktop's theme it may follow, and the F2 dialog that previews another: *)
(* a picker of themes, and an editor of colours, alone or over the picker. *)
(* A palette is the theme it is linked to, the colours it starts from and  *)
(* one colour changed by hand.  A file may also give active labels a       *)
(* colour of their own, which a theme that is loaded has and the palettes  *)
(* of the dialog do not.                                                   *)
(***************************************************************************)
EXTENDS Naturals

CONSTANTS
  MaxDesktop,   \* bound: themes the desktop may have, 0 being none
  MaxTint,      \* bound: values of the colour changed by hand, 0 being unchanged
  NoTheme       \* no file, or no picker or editor

VARIABLES
  painted,      \* the cached theme, which is painted
  theme_files,  \* the local and the global theme file
  desktop,      \* the desktop's theme, whose stamp differs for each
  follow_stamp, \* its stamp when it was last read
  theme_picker, \* [palette, snapshot, rows, target] or NoTheme
  theme_editor, \* [palette, snapshot, target] or NoTheme
  kept          \* the theme last loaded or saved

themeVars == <<painted, theme_files, desktop, follow_stamp, theme_picker, theme_editor, kept>>

Choice == {"follow", "named", "custom"}
Palette == [choice : Choice, base : 0..(MaxDesktop + 1), tint : 0..MaxTint, labels : BOOLEAN]
Target == {"local", "global"}
ThemePicker == [palette : Palette, snapshot : Palette, rows : SUBSET Choice, target : Target]
ThemeEditor == [palette : Palette, snapshot : Palette, target : Target]

ASSUME ThemeAssumption == /\ MaxDesktop \in Nat \ {0} /\ MaxTint \in Nat
                          /\ NoTheme \notin Palette \cup ThemePicker \cup ThemeEditor

Builtin == [choice |-> "custom", base |-> 0, tint |-> 0, labels |-> FALSE]
Linked(choice, base) == [choice |-> choice, base |-> base, tint |-> 0, labels |-> FALSE]

(* The palette of what is painted lacks text_labels_active, and what is    *)
(* painted from a palette has text_active_focus in its place.              *)
palette_from_theme(theme) == [theme EXCEPT !.labels = FALSE]
apply_palette(palette) == [palette EXCEPT !.labels = FALSE]

is_open == theme_picker # NoTheme \/ theme_editor # NoTheme

(* The colours of the theme the palette is linked to, under its own.  A    *)
(* desktop without a theme cannot be followed.                             *)
CanLoad(choice) == choice = "follow" => desktop # 0

load_colors(choice) == IF choice = "follow" THEN desktop ELSE MaxDesktop + 1

apply_omarchy(palette) == IF palette.choice = "custom" THEN palette
                          ELSE [palette EXCEPT !.base = load_colors(palette.choice)]

finish_palette(palette) == IF CanLoad(palette.choice) THEN apply_omarchy(palette) ELSE Builtin

load_resolved(files) == IF files.local # NoTheme THEN finish_palette(files.local)
                        ELSE IF files.global # NoTheme THEN finish_palette(files.global)
                        ELSE Builtin

(* render_yaml writes the link and the changed colour of a linked theme,   *)
(* and every colour of another.                                            *)
render_yaml(palette) == IF palette.choice = "custom" THEN palette
                        ELSE [palette EXCEPT !.base = 0, !.labels = FALSE]

FileTheme == {NoTheme} \cup {[theme EXCEPT !.labels = own] : own \in BOOLEAN, theme \in
  {Builtin, [Builtin EXCEPT !.tint = MaxTint], Linked("follow", 0), Linked("named", 0)}}

reload_theme(files) == painted' = load_resolved(files) /\ kept' = load_resolved(files)

ThemeInit ==
  /\ theme_files \in [Target -> FileTheme]
  /\ desktop \in 0..1
  /\ painted = load_resolved(theme_files) /\ kept = painted
  /\ follow_stamp = IF painted.choice = "follow" THEN desktop ELSE 0
  /\ theme_picker = NoTheme /\ theme_editor = NoTheme

RestartTheme ==
  /\ reload_theme(theme_files)
  /\ follow_stamp' = IF painted'.choice = "follow" THEN desktop ELSE 0
  /\ theme_picker' = NoTheme /\ theme_editor' = NoTheme
  /\ UNCHANGED <<theme_files, desktop>>

DesktopChanges == /\ desktop' \in 0..MaxDesktop
                  /\ UNCHANGED <<painted, theme_files, follow_stamp, theme_picker, theme_editor, kept>>

(* The focus comes back to the terminal.                                   *)
refresh_followed_theme ==
  /\ ~is_open
  /\ painted.choice = "follow"
  /\ desktop # follow_stamp
  /\ reload_theme(theme_files)
  /\ follow_stamp' = desktop
  /\ UNCHANGED <<theme_files, desktop, theme_picker, theme_editor>>

-----------------------------------------------------------------------------
NewPicker(palette) ==
  [palette |-> palette, snapshot |-> palette, target |-> "global",
   rows |-> {"named", "custom"} \cup (IF desktop # 0 THEN {"follow"} ELSE {})]

NewEditor(palette, target) == [palette |-> palette, snapshot |-> palette, target |-> target]

(* Without an installed theme the dialog is the editor at once.            *)
OpenTheme ==
  /\ ~is_open
  /\ LET palette == palette_from_theme(painted) IN
     \/ theme_picker' = NewPicker(palette) /\ UNCHANGED theme_editor
     \/ desktop = 0 /\ theme_editor' = NewEditor(palette, "global") /\ UNCHANGED theme_picker
  /\ UNCHANGED <<painted, theme_files, desktop, follow_stamp, kept>>

(* Mutant: the dialog goes and its colours stay.                           *)
CloseAndKeep == is_open /\ theme_picker' = NoTheme /\ theme_editor' = NoTheme
                /\ UNCHANGED <<painted, theme_files, desktop, follow_stamp, kept>>

(* With both open, the picker knows what there was before either.          *)
CloseTheme ==
  /\ is_open
  /\ painted' = apply_palette(IF theme_picker # NoTheme THEN theme_picker.snapshot ELSE theme_editor.snapshot)
  /\ theme_picker' = NoTheme /\ theme_editor' = NoTheme
  /\ UNCHANGED <<theme_files, desktop, follow_stamp, kept>>

DialogStays == UNCHANGED <<theme_files, desktop, follow_stamp, kept>>

Picking == theme_picker # NoTheme /\ theme_editor = NoTheme

palette_for(choice, snapshot) ==
  IF choice # "custom" THEN Linked(choice, load_colors(choice))
  ELSE IF snapshot.choice = "custom" THEN snapshot ELSE Builtin

(* A theme whose colours cannot be read is an error, and changes nothing.  *)
ApplySelected ==
  /\ Picking
  /\ \E choice \in theme_picker.rows :
       /\ CanLoad(choice)
       /\ theme_picker' = [theme_picker EXCEPT !.palette = palette_for(choice, theme_picker.snapshot)]
       /\ painted' = apply_palette(theme_picker'.palette)
  /\ UNCHANGED theme_editor /\ DialogStays

EditColors ==
  /\ Picking
  /\ theme_editor' = NewEditor(theme_picker.palette, theme_picker.target)
  /\ UNCHANGED <<painted, theme_picker>> /\ DialogStays

ToggleTarget ==
  LET Other(t) == IF t = "local" THEN "global" ELSE "local" IN
  /\ \/ Picking /\ theme_picker' = [theme_picker EXCEPT !.target = Other(@)] /\ UNCHANGED theme_editor
     \/ theme_editor # NoTheme /\ theme_editor' = [theme_editor EXCEPT !.target = Other(@)]
        /\ UNCHANGED theme_picker
  /\ UNCHANGED painted /\ DialogStays

-----------------------------------------------------------------------------
(* What the editor has is in the picker under it, and on the screen.       *)
Synced(editor) ==
  /\ theme_picker' = IF theme_picker = NoTheme THEN NoTheme
                     ELSE [theme_picker EXCEPT !.palette = editor.palette, !.target = editor.target]
  /\ painted' = apply_palette(editor.palette)

PaletteChanged(palette) ==
  /\ theme_editor' = [theme_editor EXCEPT !.palette = palette]
  /\ Synced(theme_editor') /\ DialogStays

(* A colour is nudged, or typed in; R starts over from the built-in theme. *)
EditColor ==
  /\ theme_editor # NoTheme
  /\ \/ \E tint \in 1..MaxTint : PaletteChanged([theme_editor.palette EXCEPT !.tint = tint])
     \/ PaletteChanged(Builtin)

(* Escape in the editor drops its changes, and goes back to the picker.    *)
EscEditor ==
  /\ theme_editor # NoTheme /\ theme_picker # NoTheme
  /\ Synced([theme_editor EXCEPT !.palette = theme_editor.snapshot])
  /\ theme_editor' = NoTheme /\ DialogStays

RequestSave == IF theme_editor # NoTheme THEN theme_editor ELSE theme_picker

SavePalette ==
  /\ is_open
  /\ LET from == RequestSave IN
     /\ theme_files' = [theme_files EXCEPT ![from.target] = render_yaml(from.palette)]
     /\ painted' = apply_palette(from.palette) /\ kept' = painted'
  /\ follow_stamp' = desktop
  /\ theme_picker' = NoTheme /\ theme_editor' = NoTheme
  /\ UNCHANGED desktop

ThemeNext ==
  \/ RestartTheme \/ DesktopChanges \/ refresh_followed_theme
  \/ OpenTheme \/ CloseTheme \/ ApplySelected \/ EditColors \/ ToggleTarget
  \/ EditColor \/ EscEditor \/ SavePalette

ThemeSpec == ThemeInit /\ [][ThemeNext]_themeVars

-----------------------------------------------------------------------------
(* A preview is gone with its dialog: without it the colours are those     *)
(* last loaded or saved, by whatever way through picker and editor it was  *)
(* left.  One colour is not: active labels that had their own in the file  *)
(* have that of the focus from the first dialog on, until the next load.   *)
PreviewIsTemporary == ~is_open => painted \in {kept, apply_palette(kept)}

(* What is painted while the dialog is open is what saving would keep, in  *)
(* the editor and in the picker under it, but for those labels.            *)
PreviewIsSaved == /\ theme_editor # NoTheme => theme_editor.palette = palette_from_theme(painted)
                  /\ theme_picker # NoTheme => theme_picker.palette = palette_from_theme(painted)

(* A save leaves on the screen what was previewed, and the file would load *)
(* as just that, unless it follows a desktop whose theme is not any more   *)
(* the one that was previewed.                                             *)
SavedIsSeen ==
  \A t \in Target : theme_files'[t] # theme_files[t] =>
    /\ painted' = apply_palette(painted)
    /\ (painted.choice = "follow" => painted.base = desktop) => finish_palette(theme_files'[t]) = painted'

(* Previews end with the dialog or are saved as they are seen.             *)
PreviewsEndOrAreSaved == [](PreviewIsTemporary /\ PreviewIsSaved) /\ [][SavedIsSeen]_themeVars

(* Said by refresh_followed_theme: the theme is read again when the file   *)
(* of the desktop's theme changes: as long as what is painted without the  *)
(* dialog is not the desktop's theme of now, the stamp tells.              *)
FollowedIsReread ==
  ~is_open /\ painted.choice = "follow" /\ desktop \notin {0, painted.base} => follow_stamp # desktop
=============================================================================
