\* One worker at a time, beside the orphans of a disconnect.
CONSTANTS
  Job = {j1, j2}
  Task = {t1, t2}
  Server = {s1}
  EnvServer = s1
  NoJob = NoJob
  NoTask = NoTask
  NoServer = NoServer
  WORKER_MAX_CONCURRENCY_LIMIT = 1
  MaxGeneration = 2
  MaxUnread = 1
SPECIFICATION FairSpec
INVARIANT IInv
PROPERTIES CancelIsFinal TransfersEnd PendingStarts OrphansEnd
