\* A remote and a local entry, with a disconnect and Ctrl+C.
CONSTANTS
  IoTask = {t1, t2}
  Server = {sftp}
  FtpServer = {}
  NoServer = NoServer
  NoTask = NoTask
  MaxGeneration = 2
  Item = {r1, l1}
  RemoteItem = {r1}
  NoItem = NoItem
  MayCancel = TRUE
SPECIFICATION LiveSpec
INVARIANT DeleteInv
PROPERTIES DeclineIsFinal ConfirmedEndsUncancelled
