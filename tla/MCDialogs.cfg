\* Dialogs, connection form, settings, bookmarks, theme and FTP sessions.
\* The program may be left at any time.
CONSTANTS
  Editable = {"Host", "Port", "Password", "PrivateKey"}
  Dir = {"root", "home", ".ssh", "bin"}
  FileName = {".", "..", "root", "home", ".ssh", "bin", "a", "id"}
  Home = "home"
  Parent <- MCParent
  Disk <- MCDisk
  Saved <- MCSaved
  None = None
  Torn = Torn
  WORKER_MAX = 3
  Text = {"", " .", "."}
  trim <- MCTrim
  Folder = {"."}
  Answers = {"rename_newer"}
  MaxEdits = 2
  Label = {n1, n2}
  Account = {a1, a2, a3}
  Secret = {s1}
  NoSecret = NoSecret
  Unreadable = Unreadable
  MaxSites = 3
  MaxDesktop = 2
  MaxTint = 1
  NoTheme = NoTheme
  RemoteDir = {"root", "f"}
  Root = "root"
  Nothing = Nothing
  MaxUnread = 5
SPECIFICATION MCSpec
SYMMETRY Symmetry
CHECK_DEADLOCK FALSE
INVARIANTS RepliesFitCommands
PROPERTIES DialogsStayInOrder FormHoldsWhatIsTyped SettingsTakeEffectOnce BookmarksAreKept
  PreviewsEndOrAreSaved ReportsAreTrue
