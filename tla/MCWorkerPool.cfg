\* Two jobs, two tasks, two servers: workers, orphans and a change of server.
CONSTANTS
  Job = {j1, j2}
  Task = {t1, t2}
  Server = {s1, s2}
  EnvServer = s1
  NoJob = NoJob
  NoTask = NoTask
  NoServer = NoServer
  WORKER_MAX_CONCURRENCY_LIMIT = 2
  MaxGeneration = 3
  MaxUnread = 0
SPECIFICATION Spec
SYMMETRY JobTaskSymmetry
INVARIANTS
  OneWorkerPerJob CountIsWorkers FlagsReachWorkers JobsRunOnTheirServer
PROPERTY ImplementsLifecycle
