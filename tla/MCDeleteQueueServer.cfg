\* Two servers, one after the other.
CONSTANTS
  IoTask = {t1, t2}
  Server = {ftp, ftp2}
  FtpServer = {ftp, ftp2}
  NoServer = NoServer
  NoTask = NoTask
  MaxGeneration = 3
  Item = {r1}
  RemoteItem = {r1}
  NoItem = NoItem
  MayCancel = FALSE
SYMMETRY IoTaskSymmetry
SPECIFICATION Spec
PROPERTY DeletedOnItsServer
