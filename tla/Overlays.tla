------------------------------ MODULE Overlays ------------------------------
(***************************************************************************)
(* What may lie over the panes, as the set of the flags that are up:       *)
(* AppState's show_* flags, whether the theme overlay holds a picker or an *)
(* editor, and whether that editor is reading a hex value.  Each operator  *)
(* is a handler of dd_ftp_app/src/reducer.rs.                              *)
(***************************************************************************)

Overlay == {"help", "filter", "settings", "theme", "theme_picker", "theme_editor", "editing_hex",
            "quick_connect", "bookmarks", "key_picker", "compare"}

ThemeParts == {"theme_picker", "theme_editor", "editing_hex"}

Toggled(S, flag, closes) == IF flag \in S THEN S \ {flag} ELSE (S \ closes) \cup {flag}

ToggleHelp(S) == Toggled(S, "help", {"theme", "settings"})

ToggleThemeDebug(S) == Toggled(S, "theme", {"help", "settings"})

ToggleSettings(S) == Toggled(S, "settings", {"help", "theme"})

ToggleFilter(S) == Toggled(S, "filter", {})

CloseFilterKeep(S) == S \ {"filter"}

ToggleCompare(S) == Toggled(S, "compare", {})

CloseKeyPicker(S) == S \ {"key_picker"}

OpenKeyPicker(S) == S \cup {"key_picker"}

(* Mutant: the form opens over the bookmarks.                              *)
OpenOver(S) == IF "quick_connect" \in S THEN CloseKeyPicker(S \ {"quick_connect"})
               ELSE S \cup {"quick_connect"}

ToggleQuickConnect(S) == IF "quick_connect" \in S THEN CloseKeyPicker(S \ {"quick_connect"})
                         ELSE (S \ {"bookmarks"}) \cup {"quick_connect"}

ToggleBookmarks(S) == IF "bookmarks" \in S THEN S \ {"bookmarks"}
                      ELSE CloseKeyPicker(S \ {"quick_connect"}) \cup {"bookmarks"}

any_modal_open(S, prompt) ==
  \/ prompt # "None"
  \/ S \cap {"help", "filter", "quick_connect", "bookmarks", "key_picker", "settings"} # {}

(* dd_ftp_ui/src/theme.rs: the list of themes, or else the colour editor.  *)
open_theme_ui(S, listed) == S \cup {IF listed THEN "theme_picker" ELSE "theme_editor"}

close_theme(S) == S \ ThemeParts

(* Mutant: the parts of the overlay go, the overlay stays.                 *)
CloseThemeOnly(S) == close_theme(S)

dismiss_theme(S) == IF "theme" \in S THEN ToggleThemeDebug(close_theme(S)) ELSE close_theme(S)
=============================================================================
