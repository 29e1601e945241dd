\* Two tasks, one of them perhaps of an older connection.
CONSTANTS
  IoTask = {t1, t2, t3}
  Server = {sftp, ftp}
  FtpServer = {ftp}
  NoServer = NoServer
  NoTask = NoTask
  MaxGeneration = 3
SPECIFICATION LiveUiSpec
INVARIANTS UiInv TrustNeedsYes SessionIsKept
PROPERTIES BusyEnds ImplementsConnection
