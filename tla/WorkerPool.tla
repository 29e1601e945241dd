---------------------------- MODULE WorkerPool ----------------------------
(***************************************************************************)
(* The transfer workers of dd_ftp: the event loop of main.rs starts a      *)
(* tokio task per queued job, up to the worker limit of the settings, and  *)
(* hears from the tasks over one unbounded channel.  Tasks reuse connected *)
(* sessions kept in a pool.  Connecting and disconnecting change the       *)
(* generation: what a task of an older generation says is ignored, and the *)
(* task itself runs on until it next looks at its cancel flag.             *)
(*                                                                         *)
(* The tasks and the event loop run in parallel.  They share the cancel    *)
(* flags (Arc<AtomicBool>) and the channel; every step below reads or      *)
(* writes a shared flag at most once.  A handler of the event loop is one  *)
(* step.                                                                   *)
(*                                                                         *)
(* Only the state that the workers depend on is kept: listings, folder     *)
(* scans, deletes and remote edits appear as the jobs they put in the      *)
(* queue.                                                                  *)
(***************************************************************************)
EXTENDS TransferQueue

CONSTANTS
  Task,                 \* slots for worker tasks; a finished task frees its slot
  Server,               \* what session_identity_eq compares: protocol, host, ...
  EnvServer,            \* the server named by the DD_FTP_* variables
  NoJob, NoTask, NoServer,
  WORKER_MAX_CONCURRENCY_LIMIT,
  MaxGeneration,        \* bound: connects and disconnects
  MaxUnread             \* bound: a task sends progress only to a shorter channel

ASSUME ConstantsAssumption ==
  /\ EnvServer \in Server
  /\ NoJob \notin Job
  /\ NoTask \notin Task
  /\ NoServer \notin Server
  /\ WORKER_MAX_CONCURRENCY_LIMIT \in Nat \ {0}
  /\ MaxGeneration \in Nat
  /\ MaxUnread \in Nat
  /\ IsFiniteSet(Task)

VARIABLES
  phase,                   \* where the event loop is
  connected, active_connection,
  in_flight,               \* the server being connected to, or NoServer
  generation,
  requested,               \* a transfer or an edit was asked for since connecting
  worker_cancel_requested,
  worker_max_concurrency,
  worker_active_count,
  worker_handles,          \* whether any join handle is kept
  cancel_flags,            \* the tasks whose flags Ctrl+C sets
  job_cancels,             \* the task whose flag the queue's x key sets
  worker_sessions,         \* the pool: the server of each idle session
  pc, task, cancel,        \* the tasks: where, what, and the flag
  rx,                      \* the channel of worker messages
  home                     \* history: the server a job was last queued for

loopVars == <<phase, worker_max_concurrency, requested>>
connVars == <<connected, active_connection, in_flight, generation>>
bookVars == <<worker_active_count, worker_handles, cancel_flags, job_cancels,
              worker_sessions>>
taskVars == <<pc, task, cancel, rx>>
vars == <<queueVars, loopVars, connVars, worker_cancel_requested, bookVars,
          taskVars, home>>

-----------------------------------------------------------------------------
IdleTask == [job |-> NoJob, generation |-> 0, info |-> NoServer, reused |-> FALSE,
             outcome |-> "none", session |-> FALSE, was_cancelled |-> FALSE]

Init ==
  /\ QueueInit
  /\ phase = "top"
  /\ connected = FALSE
  /\ active_connection = NoServer
  /\ in_flight = NoServer
  /\ generation = 0
  /\ requested = FALSE
  /\ worker_cancel_requested = FALSE
  /\ worker_max_concurrency \in 1..WORKER_MAX_CONCURRENCY_LIMIT
  /\ worker_active_count = 0
  /\ worker_handles = FALSE
  /\ cancel_flags = {}
  /\ job_cancels = [j \in Job |-> NoTask]
  /\ worker_sessions = <<>>
  /\ pc = [t \in Task |-> "idle"]
  /\ task = [t \in Task |-> IdleTask]
  /\ cancel = [t \in Task |-> FALSE]
  /\ rx = <<>>
  /\ home = [j \in Job |-> NoServer]

-----------------------------------------------------------------------------
(* The event loop.  At its top it starts workers, then it waits for key    *)
(* presses, worker messages or session messages, takes every one of that   *)
(* kind that is there, and goes back to the top.                           *)

Handles(kind) ==
  /\ phase \in {"select", kind}
  /\ phase' = kind
  /\ UNCHANGED worker_max_concurrency

BatchEnds ==
  /\ \/ phase \in {"events", "io"}
     \/ phase = "worker" /\ rx = <<>>
  /\ phase' = "top"
  /\ UNCHANGED <<queueVars, worker_max_concurrency, requested, connVars,
                 worker_cancel_requested, bookVars, taskVars, home>>

(* Mutants: one worker too few, and no look at Ctrl+C.                     *)
SpawnOneFewer ==
  connected /\ ~worker_cancel_requested /\ pending # <<>>
            /\ worker_active_count + 1 < worker_max_concurrency

SpawnAfterCancel ==
  connected /\ pending # <<>> /\ worker_active_count < worker_max_concurrency

ShouldSpawn ==
  /\ connected
  /\ ~worker_cancel_requested
  /\ worker_active_count < worker_max_concurrency
  /\ pending # <<>>

(* Bound: with no slot left for a task the loop goes on without a start.   *)
Waits ==
  /\ phase = "top"
  /\ ~ShouldSpawn \/ \A t \in Task : pc[t] # "idle"
  /\ phase' = "select"
  /\ UNCHANGED <<queueVars, worker_max_concurrency, requested, connVars,
                 worker_cancel_requested, bookVars, taskVars, home>>

(* A pooled session of the wanted server is taken; which one of several    *)
(* makes no difference.                                                    *)
IsPooled(info) == info \in ToSet(worker_sessions)

TakePooledSession(info) ==
  IF IsPooled(info)
  THEN \E i \in 1..Len(worker_sessions) :
         /\ worker_sessions[i] = info
         /\ worker_sessions' = RemoveAt(worker_sessions, i)
  ELSE UNCHANGED worker_sessions

SpawnInfo == IF active_connection = NoServer THEN EnvServer ELSE active_connection

SpawnWorker(t) ==
  /\ phase = "top"
  /\ ShouldSpawn
  /\ pc[t] = "idle"
  /\ StartNext
  /\ worker_active_count' = worker_active_count + 1
  /\ worker_handles' = TRUE
  /\ cancel' = [cancel EXCEPT ![t] = FALSE]
  /\ cancel_flags' = cancel_flags \cup {t}
  /\ job_cancels' = [job_cancels EXCEPT ![Head(pending)] = t]
  /\ task' = [task EXCEPT ![t] = [IdleTask EXCEPT
                !.job = Head(pending), !.generation = generation,
                !.info = SpawnInfo, !.reused = IsPooled(SpawnInfo)]]
  /\ TakePooledSession(SpawnInfo)
  /\ pc' = [pc EXCEPT ![t] = IF IsPooled(SpawnInfo) THEN "transfer" ELSE "connect"]
  /\ UNCHANGED <<loopVars, connVars, worker_cancel_requested, rx, home>>

-----------------------------------------------------------------------------
(* A worker task, run_pooled_job and the closure around it.                *)

TaskUnchanged == UNCHANGED <<queueVars, loopVars, connVars,
                             worker_cancel_requested, bookVars, home>>

WorkerConnects(t, ok) ==
  /\ pc[t] \in {"connect", "reconnect"}
  /\ pc' = [pc EXCEPT ![t] = IF ok THEN "transfer" ELSE "report"]
  /\ task' = [task EXCEPT ![t].outcome = IF ok THEN "none" ELSE "err"]
  /\ UNCHANGED <<cancel, rx>>
  /\ TaskUnchanged

(* The copy loop looks at the flag before every block; with the flag down  *)
(* and nothing left to read it is over, and the file is closed.            *)
LastBlock(t) ==
  /\ pc[t] = "transfer"
  /\ ~cancel[t]
  /\ pc' = [pc EXCEPT ![t] = "close"]
  /\ UNCHANGED <<task, cancel, rx>>
  /\ TaskUnchanged

(* A transfer may fail at any time and fails at once under a raised flag.  *)
TransferEnds(t, ok) ==
  /\ pc[t] \in (IF ok THEN {"close"} ELSE {"transfer", "close"})
  /\ pc' = [pc EXCEPT ![t] = IF ok THEN "settle" ELSE "failed"]
  /\ task' = [task EXCEPT ![t].outcome = IF ok THEN "ok" ELSE "err"]
  /\ UNCHANGED <<cancel, rx>>
  /\ TaskUnchanged

(* Mutant: tried again each time, on the next connection too.              *)
RetriesForEver(t) ==
  /\ pc[t] = "failed"
  /\ pc' = [pc EXCEPT ![t] = IF task[t].reused THEN "reconnect" ELSE "settle"]
  /\ UNCHANGED <<task, cancel, rx>>
  /\ TaskUnchanged

(* A pooled session may have died while idle: the first failure on one is  *)
(* tried again on a new connection, once.                                  *)
TransferFailed(t) ==
  /\ pc[t] = "failed"
  /\ IF task[t].reused /\ ~cancel[t]
     THEN /\ pc' = [pc EXCEPT ![t] = "reconnect"]
          /\ task' = [task EXCEPT ![t].reused = FALSE]
     ELSE /\ pc' = [pc EXCEPT ![t] = "settle"]
          /\ UNCHANGED task
  /\ UNCHANGED <<cancel, rx>>
  /\ TaskUnchanged

(* The session is kept for the pool only after a success that nobody       *)
(* cancelled.                                                              *)
Settle(t) ==
  /\ pc[t] = "settle"
  /\ pc' = [pc EXCEPT ![t] = "report"]
  /\ task' = [task EXCEPT ![t].session = (task[t].outcome = "ok" /\ ~cancel[t])]
  /\ UNCHANGED <<cancel, rx>>
  /\ TaskUnchanged

(* A message carries the fields of its task, which stay in task[t] until   *)
(* the event loop has read it.                                             *)
Progress(t) == [kind |-> "Progress", task |-> t]
Done(t) == [kind |-> "Done", task |-> t]

(* Mutant: a cancelled task returns without a report.                      *)
ReportUnlessCancelled(t) ==
  /\ pc[t] = "report"
  /\ pc' = [pc EXCEPT ![t] = "sent"]
  /\ task' = [task EXCEPT ![t].was_cancelled = cancel[t]]
  /\ rx' = IF cancel[t] THEN rx ELSE Append(rx, Done(t))
  /\ UNCHANGED cancel
  /\ TaskUnchanged

Report(t) ==
  /\ pc[t] = "report"
  /\ pc' = [pc EXCEPT ![t] = "sent"]
  /\ task' = [task EXCEPT ![t].was_cancelled = cancel[t]]
  /\ rx' = Append(rx, Done(t))
  /\ UNCHANGED cancel
  /\ TaskUnchanged

EmitProgress(t) ==
  /\ pc[t] = "transfer"
  /\ Len(rx) < MaxUnread
  /\ rx' = Append(rx, Progress(t))
  /\ UNCHANGED <<pc, task, cancel>>
  /\ TaskUnchanged

-----------------------------------------------------------------------------
(* apply_worker_message.                                                   *)

(* Mutant: reports of an older generation count.                           *)
AcceptAny(t) == TRUE

AcceptWorkerMsg(t) == task[t].generation = generation

FreeSlot(t) ==
  /\ pc' = [pc EXCEPT ![t] = "idle"]
  /\ task' = [task EXCEPT ![t] = IdleTask]
  /\ cancel' = [cancel EXCEPT ![t] = FALSE]

ReturnPooledSession(t) ==
  IF /\ task[t].session
     /\ active_connection # NoServer
     /\ Len(worker_sessions) < worker_max_concurrency
     /\ task[t].info = active_connection
  THEN worker_sessions' = Append(worker_sessions, task[t].info)
  ELSE UNCHANGED worker_sessions

(* Mutant: a transfer that got through is completed, cancelled or not.     *)
SuccessFirst(t) ==
  LET j == task[t].job
  IN  IF task[t].outcome = "ok" THEN MarkCompleted(j)
      ELSE IF worker_cancel_requested \/ task[t].was_cancelled THEN MarkCancelled(j)
      ELSE MarkFailed(j)

HandleWorkerResult(t) ==
  LET j == task[t].job
  IN  IF worker_cancel_requested \/ task[t].was_cancelled THEN MarkCancelled(j)
      ELSE IF task[t].outcome = "ok" THEN MarkCompleted(j)
      ELSE MarkFailed(j)

NextMessage(m) ==
  /\ Handles("worker")
  /\ rx # <<>>
  /\ m = Head(rx)
  /\ rx' = Tail(rx)
  /\ UNCHANGED <<requested, connVars, worker_cancel_requested, home>>

ApplyProgress(t) ==
  /\ NextMessage(Progress(t))
  /\ IF AcceptWorkerMsg(t) THEN UpdateActiveProgress(task[t].job)
                           ELSE UNCHANGED queueVars
  /\ UNCHANGED <<bookVars, pc, task, cancel>>

(* Mutant: the x key's book keeps the finished task's flag.                *)
ForgetCtrlCFlag(t) ==
  /\ cancel_flags' = cancel_flags \ {t}
  /\ UNCHANGED job_cancels

ForgetFlags(t) ==
  /\ cancel_flags' = cancel_flags \ {t}
  /\ job_cancels' = [job_cancels EXCEPT ![task[t].job] = NoTask]

ApplyDone(t) ==
  /\ NextMessage(Done(t))
  /\ AcceptWorkerMsg(t)
  /\ worker_active_count' = IF worker_active_count = 0 THEN 0 ELSE worker_active_count - 1
  /\ ForgetFlags(t)
  /\ ReturnPooledSession(t)
  /\ HandleWorkerResult(t)
  /\ FreeSlot(t)
  /\ UNCHANGED worker_handles

IgnoreDone(t) ==
  /\ NextMessage(Done(t))
  /\ ~AcceptWorkerMsg(t)
  /\ FreeSlot(t)
  /\ UNCHANGED <<queueVars, bookVars>>

-----------------------------------------------------------------------------
(* Key presses.                                                            *)

RestUnchanged == UNCHANGED <<connVars, bookVars, taskVars>>

Queued(S) == home' = [j \in Job |-> IF j \in S THEN active_connection ELSE home[j]]

(* u, d, M or Enter on files: a new request lifts an earlier Ctrl+C.  The  *)
(* files reach the queue in this step or, after a scan or a listing, in    *)
(* DrainEnqueue steps.                                                     *)
RequestTransfer ==
  /\ Handles("events")
  /\ connected
  /\ worker_cancel_requested' = FALSE
  /\ \/ UNCHANGED <<queueVars, home>>
     \/ \E j \in Job : Enqueue(j) /\ Queued({j})
  /\ requested' = TRUE
  /\ RestUnchanged

(* enqueue_pending_file, from an answer to the overwrite prompt, a listing *)
(* of the destination, a new folder there, or a scan that was cancelled.   *)
(* Scanned files are dropped when the connection changes, and a remote     *)
(* edit is given up, so both queue jobs only after a request.              *)
DrainEnqueue(j) ==
  /\ Handles("events") \/ Handles("io")
  /\ connected /\ requested
  /\ Enqueue(j)
  /\ Queued({j})
  /\ UNCHANGED <<requested, worker_cancel_requested>>
  /\ RestUnchanged

EditDownload(j) ==
  /\ Handles("events")
  /\ connected
  /\ InsertFront(j)
  /\ Queued({j})
  /\ worker_cancel_requested' = FALSE
  /\ requested' = TRUE
  /\ RestUnchanged

EditUpload(j) ==
  /\ Handles("events") \/ Handles("io")
  /\ connected /\ requested
  /\ InsertFront(j)
  /\ Queued({j})
  /\ UNCHANGED <<requested, worker_cancel_requested>>
  /\ RestUnchanged

(* Ctrl+C: every flag is raised and a scanned file that was still being    *)
(* checked is queued.                                                      *)
CancelTransfers ==
  /\ Handles("events")
  /\ worker_cancel_requested' = TRUE
  /\ cancel' = [t \in Task |-> cancel[t] \/ t \in cancel_flags]
  /\ \/ UNCHANGED <<queueVars, home>>
     \/ connected /\ requested /\ \E j \in Job : Enqueue(j) /\ Queued({j})
  /\ UNCHANGED <<requested, connVars, bookVars, pc, task, rx>>

(* x in the queue pane, on an active job and on a waiting or failed one.   *)
CancelHighlighted(j) ==
  /\ Handles("events")
  /\ j \in active
  /\ job_cancels[j] # NoTask
  /\ cancel' = [cancel EXCEPT ![job_cancels[j]] = TRUE]
  /\ UNCHANGED <<queueVars, requested, connVars, worker_cancel_requested,
                 bookVars, pc, task, rx, home>>

RemoveQueueJob(j) ==
  /\ Handles("events")
  /\ RemovePending(j) \/ DismissFailed(j)
  /\ UNCHANGED <<requested, worker_cancel_requested, home>>
  /\ RestUnchanged

ClearPendingTransfers ==
  /\ Handles("events")
  /\ ClearPending
  /\ UNCHANGED <<requested, worker_cancel_requested, home>>
  /\ RestUnchanged

(* R and A lift an earlier Ctrl+C whether or not a job has failed.         *)
RetryKey(Retry, S) ==
  /\ Handles("events")
  /\ worker_cancel_requested' = FALSE
  /\ Retry
  /\ Queued(S)
  /\ UNCHANGED requested
  /\ RestUnchanged

RetryTransfers ==
  \/ RetryKey(UNCHANGED queueVars, {})
  \/ failed # <<>> /\ RetryKey(RetryLastFailed, {failed[Len(failed)]})
  \/ \E j \in Job : RetryKey(RetryFailed(j), {j})
  \/ RetryKey(RetryAllFailed, ToSet(failed))

(* F3 saves the settings: running workers over a lower limit run on.       *)
ApplySettings(n) ==
  /\ phase \in {"select", "events"}
  /\ phase' = "events"
  /\ worker_max_concurrency' = n
  /\ UNCHANGED <<queueVars, requested, worker_cancel_requested, home>>
  /\ RestUnchanged

-----------------------------------------------------------------------------
(* Connecting and disconnecting.                                           *)

(* bump_generation_drop_workers: running tasks are told to stop and        *)
(* forgotten.  The generation counts one per call.                         *)
DropWorkers(calls) ==
  /\ generation + calls <= MaxGeneration
  /\ generation' = generation + calls
  /\ requested' = FALSE
  /\ worker_sessions' = <<>>
  /\ cancel' = [t \in Task |-> cancel[t] \/ t \in cancel_flags]
  /\ worker_active_count' = 0
  /\ worker_cancel_requested' = TRUE
  /\ active' = {}
  /\ cancelled' = cancelled \cup active
  /\ ClearProgress(active)
  /\ pending' = <<>>
  /\ worker_handles' = FALSE
  /\ cancel_flags' = {}
  /\ job_cancels' = [j \in Job |-> NoTask]
  /\ UNCHANGED <<completed, failed, issued>>

BumpGeneration ==
  /\ generation + 1 <= MaxGeneration
  /\ generation' = generation + 1
  /\ requested' = FALSE
  /\ worker_sessions' = <<>>
  /\ UNCHANGED <<queueVars, cancel, worker_active_count, worker_cancel_requested,
                 worker_handles, cancel_flags, job_cancels>>

DisconnectSession ==
  /\ Handles("events")
  /\ connected
  /\ DropWorkers(1)
  /\ connected' = FALSE
  /\ active_connection' = NoServer
  /\ in_flight' = NoServer
  /\ UNCHANGED <<pc, task, rx, home>>

LeftoverWorkers == worker_active_count > 0 \/ active # {} \/ worker_handles

(* Mutant: an idle connection is replaced without a disconnect.            *)
ConnectOver(s) ==
  /\ Handles("events")
  /\ in_flight = NoServer
  /\ IF LeftoverWorkers THEN DropWorkers(2) ELSE BumpGeneration
  /\ connected' = FALSE
  /\ active_connection' = NoServer
  /\ in_flight' = s
  /\ UNCHANGED <<pc, task, rx, home>>

(* connect_off_thread disconnects first when connected, which leaves no    *)
(* worker behind, and counts a generation of its own.                      *)
Connect(s) ==
  /\ Handles("events")
  /\ in_flight = NoServer
  /\ IF connected \/ LeftoverWorkers
     THEN DropWorkers(IF connected THEN 2 ELSE 1)
     ELSE BumpGeneration
  /\ connected' = FALSE
  /\ active_connection' = NoServer
  /\ in_flight' = s
  /\ UNCHANGED <<pc, task, rx, home>>

ConnectDone(ok) ==
  /\ Handles("io")
  /\ in_flight # NoServer
  /\ in_flight' = NoServer
  /\ connected' = ok
  /\ active_connection' = IF ok THEN in_flight ELSE active_connection
  /\ UNCHANGED <<generation, queueVars, requested, worker_cancel_requested,
                 bookVars, taskVars, home>>

-----------------------------------------------------------------------------
WorkerStep(t) ==
  \/ \E ok \in BOOLEAN : WorkerConnects(t, ok) \/ TransferEnds(t, ok)
  \/ LastBlock(t)
  \/ TransferFailed(t)
  \/ Settle(t)
  \/ Report(t)

ApplyWorkerMessage(t) == ApplyProgress(t) \/ ApplyDone(t) \/ IgnoreDone(t)

Keys ==
  \/ RequestTransfer
  \/ \E j \in Job : \/ DrainEnqueue(j) \/ EditDownload(j) \/ EditUpload(j)
                    \/ CancelHighlighted(j) \/ RemoveQueueJob(j)
  \/ CancelTransfers
  \/ ClearPendingTransfers
  \/ RetryTransfers
  \/ \E n \in 1..WORKER_MAX_CONCURRENCY_LIMIT : ApplySettings(n)
  \/ DisconnectSession
  \/ \E s \in Server : Connect(s)

Next ==
  \/ BatchEnds
  \/ Waits
  \/ \E t \in Task : \/ SpawnWorker(t)
                     \/ WorkerStep(t)
                     \/ EmitProgress(t)
                     \/ ApplyWorkerMessage(t)
  \/ \E ok \in BOOLEAN : ConnectDone(ok)
  \/ Keys

Spec == Init /\ [][Next]_vars

(* Every task runs to its end: servers answer or time out and files end.   *)
(* The event loop takes a waiting worker message again and again even      *)
(* though its select prefers key presses, because a user pauses; a message *)
(* that is always there is therefore not passed over for ever.             *)
FairSpec ==
  /\ Spec
  /\ \A t \in Task : WF_vars(WorkerStep(t))
  /\ WF_vars(BatchEnds)
  /\ WF_vars(Waits)
  /\ WF_vars(\E t \in Task : SpawnWorker(t))
  /\ SF_vars(\E t \in Task : ApplyWorkerMessage(t))

-----------------------------------------------------------------------------
Optional(S, none) == S \cup {none}

Tasks ==
  [job : Optional(Job, NoJob), generation : 0..MaxGeneration,
   info : Optional(Server, NoServer), reused : BOOLEAN,
   outcome : {"none", "ok", "err"}, session : BOOLEAN, was_cancelled : BOOLEAN]

PCs == {"idle", "connect", "transfer", "close", "failed", "reconnect", "settle",
        "report", "sent"}

Messages == [kind : {"Progress", "Done"}, task : Task]

(* Every variable keeps its type; the generation and the counter stay in   *)
(* bounds.                                                                 *)
TypeOK ==
  /\ QueueTypeOK
  /\ phase \in {"top", "select", "events", "worker", "io"}
  /\ connected \in BOOLEAN
  /\ active_connection \in Optional(Server, NoServer)
  /\ in_flight \in Optional(Server, NoServer)
  /\ generation \in 0..MaxGeneration
  /\ requested \in BOOLEAN
  /\ worker_cancel_requested \in BOOLEAN
  /\ worker_max_concurrency \in 1..WORKER_MAX_CONCURRENCY_LIMIT
  /\ worker_active_count \in 0..WORKER_MAX_CONCURRENCY_LIMIT
  /\ worker_handles \in BOOLEAN
  /\ cancel_flags \subseteq Task
  /\ job_cancels \in [Job -> Optional(Task, NoTask)]
  /\ worker_sessions \in Seq(Server)
  /\ pc \in [Task -> PCs]
  /\ task \in [Task -> Tasks]
  /\ cancel \in [Task -> BOOLEAN]
  /\ rx \in Seq(Messages)
  /\ home \in [Job -> Optional(Server, NoServer)]

Live == {t \in Task : pc[t] # "idle"}
Current == {t \in Live : task[t].generation = generation}
Working == {t \in Live : pc[t] # "sent"}

(* No two tasks carry the same job, whatever their generations: a retry or *)
(* a reconnect never has two workers write the same file under one job.    *)
(* The active list is exactly what the current tasks carry.                *)
OneWorkerPerJob ==
  /\ \A t, u \in Live : task[t].job = task[u].job => t = u
  /\ active = {task[t].job : t \in Current}

(* The counter that gates new workers, adjusted at the start, the report   *)
(* and the drop of workers, never drifts from the number of tasks.         *)
CountIsWorkers == worker_active_count = Cardinality(Current)

(* Ctrl+C and the queue's x key reach the workers they are meant for: the  *)
(* two books of cancel flags name exactly the current tasks.               *)
FlagsReachWorkers ==
  /\ cancel_flags = Current
  /\ \A j \in Job : IF j \in active
                    THEN job_cancels[j] \in Current /\ task[job_cancels[j]].job = j
                    ELSE job_cancels[j] = NoTask

(* Workers of the current connection and the idle sessions kept for them   *)
(* never hold more connections than the largest setting allows, although   *)
(* the pool is checked against its own length only.                        *)
ConnectionLimit ==
  worker_active_count + Len(worker_sessions) <= WORKER_MAX_CONCURRENCY_LIMIT

(* A job runs on the server it was queued for, or on the one in use when a *)
(* failed job was retried without a connection; never on the server of the *)
(* environment variables, and never on a pooled session of another server. *)
JobsRunOnTheirServer ==
  /\ \A t \in Current : /\ connected
                        /\ task[t].info = active_connection
                        /\ home[task[t].job] \in {active_connection, NoServer}
  /\ \A s \in ToSet(worker_sessions) : connected /\ s = active_connection

(* A task the event loop no longer listens to has been told to stop, and   *)
(* while a Ctrl+C stands no current task runs on unaware of it.            *)
NoDeafWorker ==
  \A t \in Working :
    t \notin Current \/ worker_cancel_requested => cancel[t]

(* Without a connection there is no worker, no active job and no handle:   *)
(* the second drop in connect_off_thread finds nothing to do.              *)
NoLeftovers == ~connected => ~LeftoverWorkers

(* A worker told to stop before it reports never has its job counted as    *)
(* completed, neither by its own report nor later.                         *)
CancelIsFinal ==
  \A t \in Task, j \in Job :
    [](t \in Working /\ cancel[t] /\ task[t].job = j => [](j \notin completed))

(* Every started job leaves the active list.                               *)
TransfersEnd == \A j \in Job : j \in active ~> j \notin active

(* A waiting job starts or is removed unless the user cancels or the       *)
(* connection goes.                                                        *)
PendingStarts ==
  \A j \in Job :
    j \in ToSet(pending) ~> \/ j \notin ToSet(pending)
                            \/ worker_cancel_requested
                            \/ ~connected

(* Tasks of an older generation end too, and give their slots back.        *)
OrphansEnd == \A t \in Task : t \in Live \ Current ~> t \notin Live \ Current

(* The rest of the inductive invariant.  A report that is under way belongs *)
(* to a task that waits for it to be read, and to one report only.         *)
ReportsInv ==
  \A i, k \in 1..Len(rx) :
    rx[i].kind = "Done" =>
      /\ pc[rx[i].task] = "sent"
      /\ rx[k] = rx[i] => k = i

(* What a task of an older generation carries was cancelled with it.       *)
OrphansInv ==
  \A t \in Live : /\ task[t].job \in Job
                  /\ task[t].generation <= generation
                  /\ t \notin Current => task[t].job \in cancelled

(* There is a server in use exactly when connected, and no job waits for   *)
(* another one.                                                            *)
ServersInv ==
  /\ connected <=> active_connection # NoServer
  /\ in_flight # NoServer => ~connected
  /\ \A j \in ToSet(pending) : home[j] \in {active_connection, NoServer}

(* The inductive invariant of the worker pool.                             *)
IInv ==
  /\ TypeOK
  /\ OneHome /\ NoStaleSpeed
  /\ ReportsInv /\ OrphansInv /\ ServersInv
  /\ OneWorkerPerJob /\ CountIsWorkers /\ FlagsReachWorkers
  /\ ConnectionLimit /\ JobsRunOnTheirServer /\ NoDeafWorker /\ NoLeftovers

(* What the jobs look like from outside: JobLifecycle, refined.            *)
Status(j) ==
  CASE j \in ToSet(pending) -> "pending"
    [] j \in active         -> "active"
    [] j \in completed      -> "completed"
    [] j \in cancelled      -> "cancelled"
    [] j \in ToSet(failed)  -> "failed"
    [] j \notin issued      -> "new"
    [] OTHER                -> "removed"

RunsOn(j) == IF j \in active THEN task[job_cancels[j]].info ELSE NoServer

Lifecycle == INSTANCE JobLifecycle
  WITH status  <- [j \in Job |-> Status(j)],
       runs_on <- [j \in Job |-> RunsOn(j)],
       server  <- IF connected THEN active_connection ELSE NoServer

(* Queues, workers, pool and generations together implement the life of a  *)
(* job: jobs change status only as JobLifecycle says, whatever the order   *)
(* of keys, reports and reconnects.                                        *)
ImplementsLifecycle == Lifecycle!Spec

(* "Parallel transfer worker scheduling in CLI runtime (up to              *)
(* worker_max_concurrency)": no more workers transfer at one time than the *)
(* setting can allow.                                                      *)
AtMostMaxWorkers == Cardinality(Working) <= WORKER_MAX_CONCURRENCY_LIMIT
=============================================================================
