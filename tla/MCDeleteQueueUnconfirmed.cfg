\* One local entry and the default connection.
CONSTANTS
  IoTask = {t1, t2}
  Server = {ftp}
  FtpServer = {ftp}
  NoServer = NoServer
  NoTask = NoTask
  MaxGeneration = 1
  Item = {l1}
  RemoteItem = {}
  NoItem = NoItem
  MayCancel = FALSE
SYMMETRY IoTaskSymmetry
SPECIFICATION Spec
PROPERTY OnlyConfirmedDeletes
