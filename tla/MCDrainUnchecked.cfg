\* An upload and a download of their own, and an upload in a folder.
CONSTANTS
  IoTask = {t1}
  Server = {ftp}
  FtpServer = {ftp}
  NoServer = NoServer
  NoTask = NoTask
  MaxGeneration = 2
  MaxSuffix = 2
  d1 = d1
  u1 = u1
  u2 = u2
  File = {d1, u1, u2}
  NoFile = NoFile
  Upload = {u1, u2}
  InFolder = {u2}
  FileName <- MCFileName
  OtherNames <- MCOtherNames
  DefaultPolicy = "Ask"
  Newer = {d1, u2}
  Answers = {"Overwrite", "SkipAll", "RenameNewer"}
  NewNames <- MCNewNames
  Batches = {{d1}, {u1, u2}}
  Movable = {{d1}}
  MayCancel = TRUE
SPECIFICATION Spec
PROPERTIES NoSilentOverwrite
