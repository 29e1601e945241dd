\* Text fields, the queue pane, a file pane and a list, with three jobs,
\* two folders, three names and up to seven rows.
CONSTANTS
  Char = {a, b}
  Blank = {b}
  MaxText = 3
  Job = {j1, j2, j3}
  Folder = {f1, f2}
  Root = f1
  Name <- MCName
  Dirs <- MCDirs
  Bytes <- MCBytes
  Typed = {97}
  MaxFilter = 1
  MaxListings = 2
  Listable <- MCListable
  Users <- MCUsers
  Height = 5
  MaxRows = 7
SPECIFICATION MCSpec
SYMMETRY Symmetry
INVARIANT PaneInv
PROPERTIES EditsAreSound KeysActOnTheChosenJob StepsKeepTheChoice MovesAgreeOnRows
