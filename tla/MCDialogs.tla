------------------------------ MODULE MCDialogs ------------------------------
(***************************************************************************)
(* The dialogs, what they keep on disk and in the keyring, and FTP on the  *)
(* wire, for TLC, one at a time: `scene' says which of them is used in a   *)
(* behaviour, and the others stay as they started.                         *)
(***************************************************************************)
EXTENDS Dialogs, ConnectForm, SettingsForm, Bookmarks, ThemeDialog, FtpTransfers

VARIABLE scene

MCTrim == [t \in Text |-> IF t = "" THEN "" ELSE "."]

MCParent == [d \in Dir |-> IF d = ".ssh" THEN "home" ELSE "root"]

(* `home' may be gone from its parent, and the key from its folder.        *)
Row(name, dir) == [name |-> name, dir |-> dir]
MCRows(listed, key) ==
  [d \in Dir |-> <<Row(".", TRUE), Row("..", TRUE)>> \o
                CASE d = "root" -> <<Row("bin", TRUE)>> \o (IF listed THEN <<Row("home", TRUE)>> ELSE <<>>)
                  [] d = "home" -> <<Row(".ssh", TRUE), Row("a", FALSE)>>
                  [] d = ".ssh" -> IF key THEN <<Row("id", FALSE)>> ELSE <<>>
                  [] OTHER -> <<>>]
MCDisk == {MCRows(listed, key) : listed, key \in BOOLEAN}

MCEmpty == [f \in Field |-> CASE f = "Port" -> <<"22">>
                             [] f \in {"Password", "PrivateKey"} -> NoText
                             [] f = "Protocol" -> <<"Sftp">>
                             [] OTHER -> <<>>]
MCSaved == {MCEmpty, [MCEmpty EXCEPT !["Name"] = <<"saved">>, !["Host"] = <<"typed">>]}

Symmetry == Permutations(Label) \cup Permutations(Account)

(* No file, and limits and policies that no dialog writes.                 *)
MCConfigs == {None, FileOf("", 0, "skip", "gone"), FileOf("", 99, "odd", "gone")}

sceneVars == <<dialogVars, formVars, settingsVars, bookmarkVars, themeVars, ftpVars, scene>>

AtRest == /\ scene # "form" => quick_connect = MCEmpty /\ disk = MCRows(TRUE, TRUE)
          /\ IF scene = "settings" THEN config \in MCConfigs ELSE config = None
          /\ scene # "bookmarks" => form.password = NoSecret
          /\ scene # "theme" => theme_files = [t \in Target |-> NoTheme] /\ desktop = 0
          /\ scene \notin {"ftp", "panes"} => tree = {Root}

MCInit == /\ scene \in {"dialogs", "form", "settings", "bookmarks", "theme", "ftp", "panes"}
          /\ DialogsInit /\ FormInit /\ SettingsInit /\ BookmarksInit /\ ThemeInit /\ FtpInit
          /\ AtRest

MCKeys == scene = "dialogs" /\ DialogsNext
             /\ UNCHANGED <<formVars, settingsVars, bookmarkVars, themeVars, ftpVars, scene>>
MCForm == scene = "form" /\ FormNext
          /\ UNCHANGED <<dialogVars, settingsVars, bookmarkVars, themeVars, ftpVars, scene>>
MCSettings == scene = "settings" /\ SettingsNext
              /\ UNCHANGED <<dialogVars, formVars, bookmarkVars, themeVars, ftpVars, scene>>
MCBookmarks == scene = "bookmarks" /\ BookmarksNext
               /\ UNCHANGED <<dialogVars, formVars, settingsVars, themeVars, ftpVars, scene>>
MCTheme == scene = "theme" /\ ThemeNext
           /\ UNCHANGED <<dialogVars, formVars, settingsVars, bookmarkVars, ftpVars, scene>>
(* The workers' sessions and that of the panes, one at a time: they share   *)
(* only the server's folders, which change at any time.                    *)
MCFtp == scene = "ftp" /\ (WorkerNext \/ FoldersChange)
         /\ UNCHANGED <<dialogVars, formVars, settingsVars, bookmarkVars, themeVars, scene>>
MCPanes == scene = "panes" /\ (PanesNext \/ FoldersChange)
           /\ UNCHANGED <<dialogVars, formVars, settingsVars, bookmarkVars, themeVars, scene>>

MCNext == MCKeys \/ MCForm \/ MCSettings \/ MCBookmarks \/ MCTheme \/ MCFtp \/ MCPanes

MCSpec == MCInit /\ [][MCNext]_sceneVars
=============================================================================
