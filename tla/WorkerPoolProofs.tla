-------------------------- MODULE WorkerPoolProofs --------------------------
(***************************************************************************)
(* The invariants of the worker pool hold for every number of jobs, tasks, *)
(* servers and generations and for every worker limit.                     *)
(*                                                                         *)
(* IInv is inductive.  The queue's part follows from the lemmas about its  *)
(* operations.  For the rest only the sets Live and Current matter, and    *)
(* what the live tasks carry: most steps change neither (SameTasks), a     *)
(* spawn adds a current task, a report removes one, a drop makes every     *)
(* task an orphan.                                                         *)
(*                                                                         *)
(* Two results rest on it.  The pool implements JobLifecycle: each queue   *)
(* operation moves some jobs from one list to another (Moves), and the     *)
(* books say where the active ones run.  And a cancel is final: a flag     *)
(* that was up before the report is either in the report or on a job that  *)
(* was cancelled already (WillCancel).                                     *)
(***************************************************************************)
EXTENDS WorkerPool, TransferQueueProofs, FiniteSetTheorems

LEMMA InitInv == Init => IInv
<1> SUFFICES ASSUME Init PROVE IInv
  OBVIOUS
<1>1. QueueInv
  BY QueueInitInv DEF Init
<1>2. Live = {} /\ Current = {}
  BY DEF Init, Live, Current
<1>3. TypeOK
  <2>1. IdleTask \in Tasks
    BY ConstantsAssumption DEF IdleTask, Tasks, Optional
  <2>2. worker_sessions \in Seq(Server) /\ rx \in Seq(Messages)
    BY DEF Init
  <2>3. QueueTypeOK
    BY <1>1 DEF QueueInv
  <2>4. /\ generation \in 0..MaxGeneration
        /\ worker_max_concurrency \in 1..WORKER_MAX_CONCURRENCY_LIMIT
        /\ worker_active_count \in 0..WORKER_MAX_CONCURRENCY_LIMIT
    BY ConstantsAssumption DEF Init
  <2>5. task \in [Task -> Tasks]
    BY <2>1 DEF Init
  <2>6. pc \in [Task -> PCs]
    BY DEF Init, PCs
  <2> QED BY <2>2, <2>3, <2>4, <2>5, <2>6 DEF Init, TypeOK, Optional
<1>4. worker_sessions = <<>> /\ Len(worker_sessions) = 0 /\ ToSet(worker_sessions) = {}
  BY EmptyElements DEF Init
<1>5. ReportsInv
  BY DEF Init, ReportsInv
<1>6. ServersInv
  BY EmptyElements DEF Init, ServersInv, QueueInit
<1>7. OneWorkerPerJob /\ CountIsWorkers /\ FlagsReachWorkers /\ OrphansInv
  BY <1>2, FS_EmptySet
     DEF Init, OneWorkerPerJob, CountIsWorkers, FlagsReachWorkers, OrphansInv, QueueInit
<1>8. ConnectionLimit /\ JobsRunOnTheirServer /\ NoDeafWorker /\ NoLeftovers
  BY <1>2, <1>4, ConstantsAssumption DEF Init, ConnectionLimit, JobsRunOnTheirServer, NoDeafWorker, NoLeftovers,
                    LeftoverWorkers, Working, QueueInit
<1> QED
  BY <1>1, <1>3, <1>5, <1>6, <1>7, <1>8 DEF IInv, QueueInv

-----------------------------------------------------------------------------
(* The queue's part of the invariant, whoever calls the queue.             *)

LEMMA DropQueueInv ==
  ASSUME QueueInv, NEW n, DropWorkers(n)
  PROVE  QueueInv' /\ ToSet(pending') = {} /\ active' = {}
BY EmptyElements
   DEF QueueInv, QueueTypeOK, OneHome, NoStaleSpeed, DropWorkers, ClearProgress

-----------------------------------------------------------------------------
(* Steps that neither start nor end a task.                                *)

SameTasks ==
  /\ generation' = generation
  /\ \A t \in Task : /\ pc'[t] = "idle" <=> pc[t] = "idle"
                     /\ task'[t].job = task[t].job
                     /\ task'[t].generation = task[t].generation
                     /\ task'[t].info = task[t].info

Books == OneWorkerPerJob /\ CountIsWorkers /\ FlagsReachWorkers /\ OrphansInv

LEMMA SameTasksSets ==
  ASSUME SameTasks
  PROVE  Live' = Live /\ Current' = Current
BY DEF SameTasks, Live, Current

LEMMA BooksKept ==
  ASSUME Books, SameTasks, active' = active, cancelled \subseteq cancelled',
         UNCHANGED <<worker_active_count, cancel_flags, job_cancels>>
  PROVE  Books'
<1>1. Live' = Live /\ Current' = Current
  BY SameTasksSets
<1>2. \A t \in Live : t \in Task /\ task'[t].job = task[t].job
                      /\ task'[t].generation = task[t].generation
  BY DEF SameTasks, Live
<1>3. Current \subseteq Live
  BY DEF Current
<1>4. OneWorkerPerJob'
  BY <1>1, <1>2, <1>3 DEF Books, OneWorkerPerJob
<1>5. CountIsWorkers'
  BY <1>1 DEF Books, CountIsWorkers
<1>6. FlagsReachWorkers'
  BY <1>1, <1>2, <1>3 DEF Books, FlagsReachWorkers
<1>7. OrphansInv'
  BY <1>1, <1>2 DEF Books, OrphansInv, SameTasks
<1> QED BY <1>4, <1>5, <1>6, <1>7 DEF Books

(* Updating the other fields of a task keeps these. *)
SameWork(f, g) ==
  \A t \in Task : f[t].job = g[t].job /\ f[t].generation = g[t].generation
                                      /\ f[t].info = g[t].info

LEMMA TaskUpdate ==
  ASSUME NEW f \in [Task -> Tasks], NEW t \in Task, NEW b \in BOOLEAN,
         NEW o \in {"none", "ok", "err"}
  PROVE  /\ [f EXCEPT ![t].outcome = o] \in [Task -> Tasks]
         /\ [f EXCEPT ![t].reused = b] \in [Task -> Tasks]
         /\ [f EXCEPT ![t].session = b] \in [Task -> Tasks]
         /\ [f EXCEPT ![t].was_cancelled = b] \in [Task -> Tasks]
         /\ SameWork([f EXCEPT ![t].outcome = o], f)
         /\ SameWork([f EXCEPT ![t].reused = b], f)
         /\ SameWork([f EXCEPT ![t].session = b], f)
         /\ SameWork([f EXCEPT ![t].was_cancelled = b], f)
<1>1. f[t] \in Tasks
  OBVIOUS
<1>2. /\ [f[t] EXCEPT !.outcome = o] \in Tasks
      /\ [f[t] EXCEPT !.reused = b] \in Tasks
      /\ [f[t] EXCEPT !.session = b] \in Tasks
      /\ [f[t] EXCEPT !.was_cancelled = b] \in Tasks
  BY <1>1 DEF Tasks
<1>3. ASSUME NEW r \in Tasks,
             r.job = f[t].job, r.generation = f[t].generation, r.info = f[t].info
      PROVE  [f EXCEPT ![t] = r] \in [Task -> Tasks] /\ SameWork([f EXCEPT ![t] = r], f)
  BY <1>3 DEF SameWork
<1>4. /\ [f[t] EXCEPT !.outcome = o].job = f[t].job
      /\ [f[t] EXCEPT !.outcome = o].generation = f[t].generation
      /\ [f[t] EXCEPT !.outcome = o].info = f[t].info
  BY <1>1 DEF Tasks
<1>5. /\ [f[t] EXCEPT !.reused = b].job = f[t].job
      /\ [f[t] EXCEPT !.reused = b].generation = f[t].generation
      /\ [f[t] EXCEPT !.reused = b].info = f[t].info
  BY <1>1 DEF Tasks
<1>6. /\ [f[t] EXCEPT !.session = b].job = f[t].job
      /\ [f[t] EXCEPT !.session = b].generation = f[t].generation
      /\ [f[t] EXCEPT !.session = b].info = f[t].info
  BY <1>1 DEF Tasks
<1>7. /\ [f[t] EXCEPT !.was_cancelled = b].job = f[t].job
      /\ [f[t] EXCEPT !.was_cancelled = b].generation = f[t].generation
      /\ [f[t] EXCEPT !.was_cancelled = b].info = f[t].info
  BY <1>1 DEF Tasks
<1>8. /\ [f EXCEPT ![t].outcome = o] = [f EXCEPT ![t] = [f[t] EXCEPT !.outcome = o]]
      /\ [f EXCEPT ![t].reused = b] = [f EXCEPT ![t] = [f[t] EXCEPT !.reused = b]]
      /\ [f EXCEPT ![t].session = b] = [f EXCEPT ![t] = [f[t] EXCEPT !.session = b]]
      /\ [f EXCEPT ![t].was_cancelled = b]
           = [f EXCEPT ![t] = [f[t] EXCEPT !.was_cancelled = b]]
  OBVIOUS
<1> QED
  BY <1>2, <1>3, <1>4, <1>5, <1>6, <1>7, <1>8

(* What a step of a task changes. *)
TaskStep(t) ==
  /\ task' \in [Task -> Tasks] /\ SameWork(task', task)
  /\ pc[t] \in PCs \ {"idle", "sent"}
  /\ \E p \in PCs \ {"idle"} : pc' = [pc EXCEPT ![t] = p]
  /\ TaskUnchanged /\ cancel' = cancel
  /\ \/ rx' = rx
     \/ rx' = Append(rx, Progress(t))
     \/ rx' = Append(rx, Done(t)) /\ pc'[t] = "sent"

LEMMA WorkerStepChanges ==
  ASSUME TypeOK, NEW t \in Task, WorkerStep(t) \/ EmitProgress(t)
  PROVE  TaskStep(t)
<1>1. pc \in [Task -> PCs] /\ task \in [Task -> Tasks] /\ cancel[t] \in BOOLEAN
  BY DEF TypeOK
<1>2. SameWork(task, task)
  BY DEF SameWork
<1> USE DEF PCs
<1>3. ASSUME NEW ok \in BOOLEAN, WorkerConnects(t, ok) PROVE TaskStep(t)
  BY <1>1, <1>3, TaskUpdate DEF WorkerConnects, TaskStep
<1>4. ASSUME NEW ok \in BOOLEAN, TransferEnds(t, ok) PROVE TaskStep(t)
  BY <1>1, <1>4, TaskUpdate DEF TransferEnds, TaskStep
<1>5. CASE LastBlock(t)
  BY <1>1, <1>2, <1>5 DEF LastBlock, TaskStep
<1>6. CASE TransferFailed(t)
  <2>1. pc[t] = "failed" /\ TaskUnchanged /\ cancel' = cancel /\ rx' = rx
    BY <1>6 DEF TransferFailed
  <2>2. CASE task[t].reused /\ ~cancel[t]
    <3>1. /\ pc' = [pc EXCEPT ![t] = "reconnect"]
          /\ task' = [task EXCEPT ![t].reused = FALSE]
      BY <1>6, <2>2 DEF TransferFailed
    <3>2. task' \in [Task -> Tasks] /\ SameWork(task', task)
      BY <1>1, <3>1, TaskUpdate
    <3> QED BY <2>1, <3>1, <3>2 DEF TaskStep
  <2>3. CASE ~(task[t].reused /\ ~cancel[t])
    BY <1>1, <1>2, <1>6, <2>1, <2>3 DEF TransferFailed, TaskStep
  <2> QED BY <2>2, <2>3
<1>7. CASE Settle(t)
  BY <1>1, <1>7, TaskUpdate DEF Settle, TaskStep
<1>8. CASE Report(t)
  BY <1>1, <1>8, TaskUpdate DEF Report, TaskStep
<1>9. CASE EmitProgress(t)
  <2>1. pc[t] = "transfer" /\ pc' = pc /\ task' = task
    BY <1>9 DEF EmitProgress
  <2>2. pc' = [pc EXCEPT ![t] = "transfer"]
    BY <1>1, <2>1
  <2> QED BY <1>1, <1>2, <1>9, <2>1, <2>2 DEF EmitProgress, TaskStep
<1> QED BY <1>3, <1>4, <1>5, <1>6, <1>7, <1>8, <1>9 DEF WorkerStep

LEMMA TaskStepType ==
  ASSUME TypeOK, NEW t \in Task, TaskStep(t)
  PROVE  TypeOK'
<1>1. pc \in [Task -> PCs] /\ rx \in Seq(Messages)
  BY DEF TypeOK
<1>2. Done(t) \in Messages /\ Progress(t) \in Messages
  BY DEF Done, Progress, Messages
<1>3. pc' \in [Task -> PCs]
  BY <1>1 DEF TaskStep
<1>4. rx' \in Seq(Messages)
  BY <1>1, <1>2, AppendProperties DEF TaskStep
<1> QED
  BY <1>3, <1>4 DEF TaskStep, TypeOK, TaskUnchanged, queueVars, loopVars, connVars, bookVars,
                    QueueTypeOK

LEMMA TaskStepSameTasks ==
  ASSUME TypeOK, NEW t \in Task, TaskStep(t)
  PROVE  SameTasks /\ Working' \subseteq Working
<1>1. pc \in [Task -> PCs] /\ generation' = generation
  BY DEF TypeOK, TaskStep, TaskUnchanged, connVars
<1>2. PICK p \in PCs \ {"idle"} : pc' = [pc EXCEPT ![t] = p]
  BY DEF TaskStep
<1>3. pc[t] \notin {"idle", "sent"}
  BY DEF TaskStep
<1>4. \A u \in Task : pc'[u] = "idle" <=> pc[u] = "idle"
  BY <1>1, <1>2, <1>3
<1>5. Working' \subseteq Working
  BY <1>1, <1>2, <1>3 DEF Working, Live
<1> QED BY <1>1, <1>4, <1>5 DEF SameTasks, TaskStep, SameWork

LEMMA TaskStepReports ==
  ASSUME TypeOK, ReportsInv, NEW t \in Task, TaskStep(t)
  PROVE  ReportsInv'
<1>1. pc \in [Task -> PCs] /\ rx \in Seq(Messages) /\ pc[t] # "sent"
  BY DEF TypeOK, TaskStep
<1>2. PICK p \in PCs \ {"idle"} : pc' = [pc EXCEPT ![t] = p]
  BY DEF TaskStep
<1>3. \A i \in 1..Len(rx) : rx[i] \in Messages /\ rx[i].task \in Task
  <2>1. \A i \in 1..Len(rx) : rx[i] \in Messages
    BY <1>1
  <2> QED BY <2>1 DEF Messages
<1>4. \A i \in 1..Len(rx) : rx[i].kind = "Done" => pc[rx[i].task] = "sent" /\ rx[i].task # t
  BY <1>1 DEF ReportsInv
<1>5. \A i \in 1..Len(rx) : rx[i].kind = "Done" => pc'[rx[i].task] = "sent"
  <2>1. \A u \in Task : u # t => pc'[u] = pc[u]
    BY <1>1, <1>2
  <2> QED BY <1>3, <1>4, <2>1
<1>6. CASE rx' = rx
  BY <1>5, <1>6 DEF ReportsInv
<1>7. ASSUME NEW m \in Messages, rx' = Append(rx, m),
             m = Progress(t) \/ (m = Done(t) /\ pc'[t] = "sent")
      PROVE  ReportsInv'
  <2>1. /\ Len(rx') = Len(rx) + 1 /\ Len(rx) \in Nat
        /\ \A i \in 1..Len(rx) : rx'[i] = rx[i]
        /\ rx'[Len(rx) + 1] = m
    BY <1>1, <1>7, AppendProperties
  <2>2. \A i \in 1..Len(rx') : i \in 1..Len(rx) \/ i = Len(rx) + 1
    BY <2>1
  <2>3. \A i \in 1..Len(rx) : rx[i].kind = "Done" => rx[i] # m
    BY <1>4, <1>7 DEF Progress, Done
  <2>4. m.kind = "Done" => pc'[m.task] = "sent"
    BY <1>7 DEF Progress, Done
  <2>5. ASSUME NEW i \in 1..Len(rx'), NEW k \in 1..Len(rx'), rx'[i].kind = "Done"
        PROVE  pc'[rx'[i].task] = "sent" /\ (rx'[k] = rx'[i] => k = i)
    <3>1. CASE i \in 1..Len(rx) /\ k \in 1..Len(rx)
      BY <3>1, <2>1, <2>5, <1>5 DEF ReportsInv
    <3>2. CASE i \in 1..Len(rx) /\ k = Len(rx) + 1
      BY <3>2, <2>1, <2>3, <2>5, <1>5
    <3>3. CASE i = Len(rx) + 1
      BY <3>3, <2>1, <2>2, <2>3, <2>4, <2>5
    <3> QED BY <3>1, <3>2, <3>3, <2>2
  <2> QED BY <2>5 DEF ReportsInv
<1>8. Done(t) \in Messages /\ Progress(t) \in Messages
  BY DEF Done, Progress, Messages
<1> QED BY <1>6, <1>7, <1>8 DEF TaskStep

(* All that the worker part of the invariant needs of a step that neither  *)
(* starts nor ends a task and keeps the connection.                        *)
Quiet ==
  /\ SameTasks
  /\ active' = active /\ cancelled \subseteq cancelled'
  /\ UNCHANGED <<connected, active_connection, bookVars>>
  /\ \A j \in active : home'[j] = home[j]
  /\ Working' \subseteq Working
  /\ \A t \in Task : cancel[t] => cancel'[t]
  /\ worker_cancel_requested' =>
       worker_cancel_requested \/ \A t \in cancel_flags : cancel'[t]

LEMMA QuietInv ==
  ASSUME IInv, Quiet, TypeOK', QueueInv', ReportsInv', ServersInv'
  PROVE  IInv'
<1>1. Live' = Live /\ Current' = Current /\ Current \subseteq Task /\ Working \subseteq Task
  BY SameTasksSets DEF Quiet, Current, Live, Working
<1>2. Books /\ Books'
  BY BooksKept DEF IInv, Books, Quiet, bookVars
<1>3. ConnectionLimit' /\ NoLeftovers'
  BY DEF IInv, Quiet, ConnectionLimit, NoLeftovers, LeftoverWorkers, bookVars
<1>4. JobsRunOnTheirServer'
  <2>1. \A t \in Current : task[t].job \in active /\ task'[t].job = task[t].job
                                                  /\ task'[t].info = task[t].info
    BY <1>1, <1>2 DEF Books, OneWorkerPerJob, Quiet, SameTasks
  <2>2. \A t \in Current : home'[task'[t].job] = home[task[t].job]
    BY <2>1 DEF Quiet
  <2> QED
    BY <1>1, <2>1, <2>2 DEF IInv, JobsRunOnTheirServer, Quiet, bookVars
<1>5. NoDeafWorker'
  <2>1. cancel_flags = Current
    BY DEF IInv, FlagsReachWorkers
  <2> QED
    BY <1>1, <2>1 DEF IInv, NoDeafWorker, Quiet
<1> QED
  BY <1>2, <1>3, <1>4, <1>5 DEF IInv, Books, QueueInv

LEMMA TaskStepInv ==
  ASSUME IInv, NEW t \in Task, WorkerStep(t) \/ EmitProgress(t)
  PROVE  IInv'
<1>1. TypeOK /\ ReportsInv
  BY DEF IInv
<1>2. TaskStep(t)
  BY <1>1, WorkerStepChanges
<1>3. TypeOK' /\ ReportsInv' /\ SameTasks /\ Working' \subseteq Working
  BY <1>1, <1>2, TaskStepType, TaskStepReports, TaskStepSameTasks
<1>4. QueueInv'
  BY <1>2 DEF IInv, TypeOK, TaskStep, TaskUnchanged, queueVars, QueueInv, QueueTypeOK, OneHome,
              NoStaleSpeed
<1>5. ServersInv'
  BY <1>2 DEF IInv, TaskStep, TaskUnchanged, queueVars, connVars, ServersInv
<1>6. Quiet
  BY <1>2, <1>3 DEF Quiet, TaskStep, TaskUnchanged, queueVars, connVars, bookVars
<1> QED
  BY <1>3, <1>4, <1>5, <1>6, QuietInv

(* A key press, or another step of the event loop, that edits the queue    *)
(* and raises flags at most.                                               *)
LoopEdit ==
  /\ active' = active /\ cancelled' = cancelled
  /\ UNCHANGED <<connVars, bookVars, pc, task, rx>>
  /\ phase' \in {"top", "select", "events", "worker", "io"}
  /\ worker_max_concurrency' \in 1..WORKER_MAX_CONCURRENCY_LIMIT
  /\ requested' \in BOOLEAN /\ worker_cancel_requested' \in BOOLEAN
  /\ home' \in [Job -> Optional(Server, NoServer)]
  /\ \A j \in active : home'[j] = home[j]
  /\ \A j \in ToSet(pending') : home'[j] \in {active_connection, NoServer}
  /\ cancel' \in [Task -> BOOLEAN]
  /\ \A t \in Task : cancel[t] => cancel'[t]
  /\ worker_cancel_requested' =>
       worker_cancel_requested \/ \A t \in cancel_flags : cancel'[t]

LEMMA LoopEditInv ==
  ASSUME IInv, QueueInv', LoopEdit
  PROVE  IInv'
<1>1. TypeOK'
  BY DEF IInv, TypeOK, LoopEdit, QueueInv, connVars, bookVars
<1>2. ReportsInv' /\ ServersInv'
  BY DEF IInv, ReportsInv, ServersInv, LoopEdit, connVars
<1>3. Quiet
  BY DEF Quiet, LoopEdit, SameTasks, connVars, bookVars, Working, Live
<1> QED BY <1>1, <1>2, <1>3, QuietInv

(* A job that waits, or has failed, is not active. *)
LEMMA IdleJobs ==
  ASSUME IInv
  PROVE  /\ QueueInv /\ TypeOK
         /\ \A j \in ToSet(pending) \cup ToSet(failed) : j \in Job /\ j \notin active
         /\ \A j : Fresh(j) => j \in Job /\ j \notin active
         /\ active_connection \in Optional(Server, NoServer)
         /\ home \in [Job -> Optional(Server, NoServer)]
         /\ \A j \in ToSet(pending) : home[j] \in {active_connection, NoServer}
BY DEF IInv, QueueInv, TypeOK, QueueTypeOK, OneHome, Fresh, ServersInv, ToSet

LEMMA BatchInv ==
  ASSUME IInv, BatchEnds \/ Waits
  PROVE  IInv'
<1>1. QueueInv'
  BY DEF IInv, TypeOK, QueueInv, QueueTypeOK, OneHome, NoStaleSpeed, queueVars, BatchEnds, Waits
<1>2. LoopEdit
  BY DEF IInv, TypeOK, ServersInv, LoopEdit, queueVars, connVars, bookVars, taskVars, BatchEnds, Waits
<1> QED BY <1>1, <1>2, LoopEditInv

LEMMA ApplySettingsInv ==
  ASSUME IInv, NEW n \in 1..WORKER_MAX_CONCURRENCY_LIMIT, ApplySettings(n)
  PROVE  IInv'
<1>1. QueueInv'
  BY DEF IInv, TypeOK, QueueInv, QueueTypeOK, OneHome, NoStaleSpeed, queueVars, ApplySettings
<1>2. LoopEdit
  BY DEF IInv, TypeOK, ServersInv, LoopEdit, queueVars, connVars, bookVars, taskVars,
         ApplySettings, RestUnchanged
<1> QED BY <1>1, <1>2, LoopEditInv

(* Jobs queued for the connection in use. *)
LEMMA QueuedHomes ==
  ASSUME IInv, NEW S \in SUBSET Job, S \cap active = {}, Queued(S),
         ToSet(pending') = ToSet(pending) \cup S
  PROVE  /\ home' \in [Job -> Optional(Server, NoServer)]
         /\ \A i \in active : home'[i] = home[i]
         /\ \A i \in ToSet(pending') : home'[i] \in {active_connection, NoServer}
<1>1. /\ home' = [j \in Job |-> IF j \in S THEN active_connection ELSE home[j]]
      /\ home \in [Job -> Optional(Server, NoServer)]
      /\ active_connection \in Optional(Server, NoServer)
      /\ active \subseteq Job
      /\ ToSet(pending) \subseteq Job
      /\ \A i \in ToSet(pending) : home[i] \in {active_connection, NoServer}
  BY IdleJobs DEF Queued, TypeOK, QueueTypeOK
<1>2. home' \in [Job -> Optional(Server, NoServer)] /\ \A i \in active : home'[i] = home[i]
  BY <1>1
<1>3. \A i \in ToSet(pending') : home'[i] \in {active_connection, NoServer}
  BY <1>1
<1> QED BY <1>2, <1>3

LEMMA EnqueueKeyInv ==
  ASSUME IInv, NEW j \in Job, Enqueue(j) \/ InsertFront(j), Queued({j}),
         UNCHANGED <<worker_max_concurrency, connVars, bookVars, pc, task, rx>>,
         phase' \in {"events", "io"}, requested' \in BOOLEAN,
         worker_cancel_requested' \in BOOLEAN,
         cancel' \in [Task -> BOOLEAN],
         \A t \in Task : cancel[t] => cancel'[t],
         worker_cancel_requested' =>
           worker_cancel_requested \/ \A t \in cancel_flags : cancel'[t]
  PROVE  IInv'
<1>1. QueueInv' /\ ToSet(pending') = ToSet(pending) \cup {j}
  BY IdleJobs, EnqueueInv, InsertFrontInv
<1>2. j \notin active /\ active' = active /\ cancelled' = cancelled
  BY IdleJobs DEF Enqueue, InsertFront
<1>3. /\ home' \in [Job -> Optional(Server, NoServer)]
      /\ \A i \in active : home'[i] = home[i]
      /\ \A i \in ToSet(pending') : home'[i] \in {active_connection, NoServer}
  BY <1>1, <1>2, QueuedHomes
<1>4. LoopEdit
  BY <1>2, <1>3 DEF LoopEdit, IInv, TypeOK
<1> QED BY <1>1, <1>4, LoopEditInv

LEMMA EnqueueKeysInv ==
  ASSUME IInv, NEW j \in Job, DrainEnqueue(j) \/ EditDownload(j) \/ EditUpload(j)
  PROVE  IInv'
<1>1. /\ Enqueue(j) \/ InsertFront(j)
      /\ Queued({j})
      /\ UNCHANGED <<worker_max_concurrency, connVars, bookVars, taskVars>>
      /\ phase' \in {"events", "io"}
      /\ requested' \in BOOLEAN
      /\ worker_cancel_requested' = worker_cancel_requested \/ worker_cancel_requested' = FALSE
  BY IdleJobs DEF DrainEnqueue, EditDownload, EditUpload, RestUnchanged, Handles, TypeOK
<1>2. /\ worker_cancel_requested \in BOOLEAN
      /\ cancel' = cancel /\ cancel \in [Task -> BOOLEAN]
      /\ UNCHANGED <<pc, task, rx>>
  BY <1>1, IdleJobs DEF taskVars, TypeOK
<1>3. worker_cancel_requested' => worker_cancel_requested
  BY <1>1, Zenon
<1>4. worker_cancel_requested' \in BOOLEAN
  BY <1>1, <1>2, Zenon
<1>5. cancel' \in [Task -> BOOLEAN] /\ \A t \in Task : cancel[t] => cancel'[t]
  BY <1>2
<1> QED
  BY <1>1, <1>2, <1>3, <1>4, <1>5, EnqueueKeyInv

LEMMA RequestTransferInv ==
  ASSUME IInv, RequestTransfer
  PROVE  IInv'
<1>1. /\ UNCHANGED <<worker_max_concurrency, connVars, bookVars, taskVars>>
      /\ phase' = "events" /\ requested' = TRUE /\ worker_cancel_requested' = FALSE
  BY DEF RequestTransfer, RestUnchanged, Handles
<1>2. CASE UNCHANGED <<queueVars, home>>
  <2>1. QueueInv'
    BY <1>2, IdleJobs DEF QueueInv, QueueTypeOK, OneHome, NoStaleSpeed, queueVars
  <2>2. LoopEdit
    BY <1>1, <1>2, IdleJobs DEF LoopEdit, TypeOK, queueVars, taskVars
  <2> QED BY <2>1, <2>2, LoopEditInv
<1>3. ASSUME NEW j \in Job, Enqueue(j), Queued({j}) PROVE IInv'
  BY <1>1, <1>3, IdleJobs, EnqueueKeyInv DEF taskVars, TypeOK
<1> QED BY <1>2, <1>3 DEF RequestTransfer

LEMMA CancelTransfersInv ==
  ASSUME IInv, CancelTransfers
  PROVE  IInv'
<1>1. /\ UNCHANGED <<worker_max_concurrency, requested, connVars, bookVars, pc, task, rx>>
      /\ phase' = "events" /\ worker_cancel_requested' = TRUE
      /\ cancel' = [t \in Task |-> cancel[t] \/ t \in cancel_flags]
  BY DEF CancelTransfers, Handles
<1>2. /\ cancel' \in [Task -> BOOLEAN]
      /\ \A t \in Task : cancel[t] => cancel'[t]
      /\ \A t \in cancel_flags : cancel'[t]
  BY <1>1, IdleJobs DEF TypeOK
<1>3. CASE UNCHANGED <<queueVars, home>>
  <2>1. QueueInv'
    BY <1>3, IdleJobs DEF QueueInv, QueueTypeOK, OneHome, NoStaleSpeed, queueVars
  <2>2. LoopEdit
    BY <1>1, <1>2, <1>3, IdleJobs DEF LoopEdit, TypeOK, queueVars
  <2> QED BY <2>1, <2>2, LoopEditInv
<1>4. ASSUME NEW j \in Job, Enqueue(j), Queued({j}) PROVE IInv'
  BY <1>1, <1>2, <1>4, IdleJobs, EnqueueKeyInv DEF TypeOK
<1> QED BY <1>3, <1>4 DEF CancelTransfers

LEMMA CancelHighlightedInv ==
  ASSUME IInv, NEW j \in Job, CancelHighlighted(j)
  PROVE  IInv'
<1>1. QueueInv'
  BY IdleJobs DEF QueueInv, QueueTypeOK, OneHome, NoStaleSpeed, queueVars, CancelHighlighted
<1>2. /\ cancel' = [cancel EXCEPT ![job_cancels[j]] = TRUE]
      /\ cancel \in [Task -> BOOLEAN] /\ job_cancels[j] \in Task
  BY IdleJobs DEF CancelHighlighted, TypeOK, Optional
<1>3. cancel' \in [Task -> BOOLEAN] /\ \A t \in Task : cancel[t] => cancel'[t]
  BY <1>2
<1>4. LoopEdit
  BY <1>3, IdleJobs DEF LoopEdit, CancelHighlighted, Handles, TypeOK, queueVars
<1> QED BY <1>1, <1>4, LoopEditInv

LEMMA RemoveKeysInv ==
  ASSUME IInv, (\E j \in Job : RemoveQueueJob(j)) \/ ClearPendingTransfers
  PROVE  IInv'
<1>1. /\ UNCHANGED <<worker_max_concurrency, requested, worker_cancel_requested, connVars,
                     bookVars, taskVars, home>>
      /\ phase' = "events"
  BY DEF RemoveQueueJob, ClearPendingTransfers, RestUnchanged, Handles
<1>2. /\ QueueInv' /\ ToSet(pending') \subseteq ToSet(pending)
      /\ active' = active /\ cancelled' = cancelled
  <2>1. ASSUME NEW j \in Job, RemovePending(j)
        PROVE  /\ QueueInv' /\ ToSet(pending') \subseteq ToSet(pending)
               /\ active' = active /\ cancelled' = cancelled
    BY <2>1, IdleJobs, RemovePendingInv DEF RemovePending
  <2>2. ASSUME NEW j \in Job, DismissFailed(j)
        PROVE  /\ QueueInv' /\ ToSet(pending') \subseteq ToSet(pending)
               /\ active' = active /\ cancelled' = cancelled
    BY <2>2, IdleJobs, DismissFailedInv DEF DismissFailed
  <2>3. CASE ClearPending
    BY <2>3, IdleJobs, ClearPendingInv DEF ClearPending
  <2> QED BY <2>1, <2>2, <2>3 DEF RemoveQueueJob, ClearPendingTransfers
<1>3. LoopEdit
  BY <1>1, <1>2, IdleJobs DEF LoopEdit, TypeOK, taskVars
<1> QED BY <1>2, <1>3, LoopEditInv

LEMMA RetryTransfersInv ==
  ASSUME IInv, RetryTransfers
  PROVE  IInv'
<1>1. ASSUME NEW S \in SUBSET ToSet(failed),
             /\ UNCHANGED <<worker_max_concurrency, requested, connVars, bookVars, taskVars>>
             /\ phase' = "events" /\ worker_cancel_requested' = FALSE,
             Queued(S),
             QueueInv', ToSet(pending') = ToSet(pending) \cup S,
             active' = active, cancelled' = cancelled
      PROVE  IInv'
  <2>1. /\ home' \in [Job -> Optional(Server, NoServer)]
        /\ \A j \in active : home'[j] = home[j]
        /\ \A j \in ToSet(pending') : home'[j] \in {active_connection, NoServer}
    <3>1. S \in SUBSET Job /\ S \cap active = {}
      BY IdleJobs
    <3> QED BY <1>1, <3>1, QueuedHomes
  <2>2. LoopEdit
    BY <1>1, <2>1, IdleJobs DEF LoopEdit, TypeOK, taskVars
  <2> QED BY <1>1, <2>2, LoopEditInv
<1>2. CASE RetryKey(UNCHANGED queueVars, {})
  <2>1. UNCHANGED queueVars
    BY <1>2 DEF RetryKey
  <2>2. /\ QueueInv' /\ ToSet(pending') = ToSet(pending) \cup {}
        /\ active' = active /\ cancelled' = cancelled
    BY <2>1, IdleJobs DEF QueueInv, QueueTypeOK, OneHome, NoStaleSpeed, queueVars
  <2>3. /\ UNCHANGED <<worker_max_concurrency, requested, connVars, bookVars, taskVars>>
        /\ phase' = "events" /\ worker_cancel_requested' = FALSE
        /\ Queued({})
    BY <1>2 DEF RetryKey, Handles, RestUnchanged
  <2> QED
    BY <1>1, <2>2, <2>3
<1>3. CASE failed # <<>> /\ RetryKey(RetryLastFailed, {failed[Len(failed)]})
  <2>1. /\ QueueInv' /\ ToSet(pending') = ToSet(pending) \cup {failed[Len(failed)]}
        /\ active' = active /\ cancelled' = cancelled
    BY <1>3, IdleJobs, RetryLastFailedInv DEF RetryKey, RetryLastFailed, RetryAt
  <2>2. failed[Len(failed)] \in ToSet(failed)
    <3>1. failed \in Seq(Job)
      BY IdleJobs DEF TypeOK, QueueTypeOK
    <3>2. Len(failed) \in 1..Len(failed) /\ DOMAIN failed = 1..Len(failed)
      BY <3>1, <1>3, EmptySeq, LenProperties
    <3> QED BY <3>2 DEF ToSet
  <2> QED
    BY <1>1, <1>3, <2>1, <2>2 DEF RetryKey, Handles, RestUnchanged
<1>4. ASSUME NEW j \in Job, RetryKey(RetryFailed(j), {j}) PROVE IInv'
  <2>1. /\ QueueInv' /\ ToSet(pending') = ToSet(pending) \cup {j}
        /\ active' = active /\ cancelled' = cancelled
    BY <1>4, IdleJobs, RetryFailedInv DEF RetryKey, RetryFailed, RetryAt
  <2>2. j \in ToSet(failed)
    BY <1>4, IdleJobs DEF RetryKey, RetryFailed, ToSet, TypeOK, QueueTypeOK
  <2> QED
    BY <1>1, <1>4, <2>1, <2>2 DEF RetryKey, Handles, RestUnchanged
<1>5. CASE RetryKey(RetryAllFailed, ToSet(failed))
  <2>1. /\ QueueInv' /\ ToSet(pending') = ToSet(pending) \cup ToSet(failed)
        /\ active' = active /\ cancelled' = cancelled
    BY <1>5, IdleJobs, RetryAllFailedInv DEF RetryKey, RetryAllFailed
  <2> QED
    BY <1>1, <1>5, <2>1 DEF RetryKey, Handles, RestUnchanged
<1> QED BY <1>2, <1>3, <1>4, <1>5 DEF RetryTransfers

-----------------------------------------------------------------------------
(* Reading the channel.                                                    *)

LEMMA ReadReports ==
  ASSUME TypeOK, ReportsInv, rx # <<>>, rx' = Tail(rx), pc' = pc \/
           \E t \in Task : Head(rx) = Done(t) /\ pc' = [pc EXCEPT ![t] = "idle"]
  PROVE  ReportsInv' /\ rx' \in Seq(Messages) /\ Head(rx) \in Messages
<1>1. /\ rx \in Seq(Messages) /\ Len(rx) \in Nat \ {0}
      /\ Head(rx) = rx[1] /\ Head(rx) \in Messages
      /\ rx' \in Seq(Messages) /\ Len(rx') = Len(rx) - 1
      /\ \A i \in 1..Len(rx') : rx'[i] = rx[i + 1]
  BY HeadTailProperties, EmptySeq DEF TypeOK
<1>2. ASSUME NEW i \in 1..Len(rx'), NEW k \in 1..Len(rx'), rx'[i].kind = "Done"
      PROVE  pc'[rx'[i].task] = "sent" /\ (rx'[k] = rx'[i] => k = i)
  <2>1. /\ i + 1 \in 1..Len(rx) /\ k + 1 \in 1..Len(rx) /\ 1 \in 1..Len(rx)
        /\ rx'[i] = rx[i + 1] /\ rx'[k] = rx[k + 1]
    BY <1>1
  <2>2. pc[rx'[i].task] = "sent" /\ rx[1] # rx'[i] /\ (rx'[k] = rx'[i] => k = i)
    <3>1. rx[i + 1].kind = "Done" /\ i + 1 # 1
      BY <2>1, <1>2
    <3>2. pc[rx[i + 1].task] = "sent" /\ \A m \in 1..Len(rx) : rx[m] = rx[i + 1] => m = i + 1
      BY <2>1, <3>1 DEF ReportsInv
    <3> QED BY <2>1, <3>1, <3>2
  <2>3. CASE pc' = pc
    BY <2>2, <2>3
  <2>4. ASSUME NEW t \in Task, Head(rx) = Done(t), pc' = [pc EXCEPT ![t] = "idle"]
        PROVE  pc'[rx'[i].task] = "sent"
    <3>1. rx'[i] \in Messages
      BY <2>1, <1>1
    <3>2. rx'[i].task # t /\ rx'[i].task \in Task
      BY <3>1, <2>2, <2>4, <1>1, <1>2 DEF Done, Messages
    <3> QED BY <3>2, <2>2, <2>4 DEF TypeOK
  <2> QED BY <2>2, <2>3, <2>4
<1> QED BY <1>1, <1>2 DEF ReportsInv

LEMMA ApplyProgressInv ==
  ASSUME IInv, NEW t \in Task, ApplyProgress(t)
  PROVE  IInv'
<1>1. /\ rx # <<>> /\ rx' = Tail(rx) /\ phase' = "worker"
      /\ UNCHANGED <<worker_max_concurrency, requested, connVars, worker_cancel_requested,
                     home, bookVars, pc, task, cancel>>
  BY DEF ApplyProgress, NextMessage, Handles
<1>2. ReportsInv' /\ rx' \in Seq(Messages)
  BY <1>1, ReadReports DEF IInv
<1>3. QueueInv' /\ pending' = pending /\ active' = active /\ cancelled' = cancelled
  <2>1. CASE AcceptWorkerMsg(t)
    BY <2>1, IdleJobs, UpdateActiveProgressInv DEF ApplyProgress, UpdateActiveProgress
  <2>2. CASE ~AcceptWorkerMsg(t)
    BY <2>2, IdleJobs DEF ApplyProgress, QueueInv, QueueTypeOK, OneHome, NoStaleSpeed, queueVars
  <2> QED BY <2>1, <2>2
<1>4. TypeOK'
  BY <1>1, <1>2, <1>3 DEF IInv, TypeOK, QueueInv, connVars, bookVars
<1>5. ServersInv' /\ Quiet
  BY <1>1, <1>3 DEF IInv, ServersInv, Quiet, SameTasks, connVars, bookVars, Working, Live
<1> QED BY <1>2, <1>3, <1>4, <1>5, QuietInv

-----------------------------------------------------------------------------
(* A worker starts.                                                        *)

LEMMA FiniteCurrent ==
  ASSUME IInv
  PROVE  /\ IsFiniteSet(Current) /\ Current \subseteq Live /\ Live \subseteq Task
         /\ worker_active_count = Cardinality(Current)
         /\ Cardinality(Current) \in Nat
<1>1. Current \subseteq Live /\ Live \subseteq Task
  BY DEF Current, Live
<1> QED
  BY <1>1, ConstantsAssumption, FS_Subset, FS_CardinalityType DEF IInv, CountIsWorkers

(* What a spawn changes. *)
LEMMA SpawnChanges ==
  ASSUME IInv, NEW t \in Task, SpawnWorker(t)
  PROVE  /\ active_connection \in Server /\ SpawnInfo = active_connection
         /\ t \notin Live /\ Live' = Live \cup {t} /\ Current' = Current \cup {t}
         /\ task'[t].job = Head(pending) /\ task'[t].info = active_connection
         /\ task'[t].generation = generation
         /\ \A u \in Task \ {t} : task'[u] = task[u]
         /\ task' \in [Task -> Tasks]
         /\ pc' \in [Task -> PCs] /\ pc'[t] \in {"transfer", "connect"}
         /\ \A u \in Task \ {t} : pc'[u] = pc[u]
         /\ Head(pending) \in Job
<1>1. /\ TypeOK /\ connected /\ QueueInv /\ pc[t] = "idle" /\ generation' = generation
      /\ Head(pending) \in Job
  BY IdleJobs, StartNextInv DEF SpawnWorker, ShouldSpawn, connVars
<1>2. active_connection \in Server /\ SpawnInfo = active_connection
  BY <1>1 DEF IInv, ServersInv, TypeOK, Optional, SpawnInfo
<1>3. \E b \in BOOLEAN :
        task' = [task EXCEPT ![t] = [IdleTask EXCEPT
                  !.job = Head(pending), !.generation = generation,
                  !.info = active_connection, !.reused = b]]
  <2>1. IsPooled(SpawnInfo) \in BOOLEAN
    BY DEF IsPooled
  <2> QED BY <1>2, <2>1 DEF SpawnWorker
<1>4. PICK b \in BOOLEAN :
        task' = [task EXCEPT ![t] =
                  [job |-> Head(pending), generation |-> generation,
                   info |-> active_connection, reused |-> b, outcome |-> "none",
                   session |-> FALSE, was_cancelled |-> FALSE]]
  BY <1>3 DEF IdleTask
<1>5. [job |-> Head(pending), generation |-> generation, info |-> active_connection,
       reused |-> b, outcome |-> "none", session |-> FALSE, was_cancelled |-> FALSE] \in Tasks
  BY <1>1, <1>2 DEF Tasks, Optional, TypeOK
<1>6. /\ task'[t].job = Head(pending) /\ task'[t].info = active_connection
      /\ task'[t].generation = generation
      /\ \A u \in Task \ {t} : task'[u] = task[u]
      /\ task' \in [Task -> Tasks]
  BY <1>1, <1>4, <1>5 DEF TypeOK
<1>7. PICK p \in {"transfer", "connect"} : pc' = [pc EXCEPT ![t] = p]
  BY DEF SpawnWorker
<1>8. /\ pc' \in [Task -> PCs] /\ pc'[t] \in {"transfer", "connect"}
      /\ \A u \in Task \ {t} : pc'[u] = pc[u]
  BY <1>1, <1>7 DEF TypeOK, PCs
<1>9. t \notin Live /\ Live' = Live \cup {t}
  BY <1>1, <1>8 DEF Live
<1>10. Current' = Current \cup {t}
  BY <1>1, <1>6, <1>9 DEF Current, Live
<1> QED BY <1>1, <1>2, <1>6, <1>8, <1>9, <1>10

LEMMA SpawnPool ==
  ASSUME IInv, NEW t \in Task, SpawnWorker(t)
  PROVE  /\ worker_sessions' \in Seq(Server)
         /\ ToSet(worker_sessions') \subseteq ToSet(worker_sessions)
         /\ Len(worker_sessions') \in Nat
         /\ worker_active_count + 1 + Len(worker_sessions') <= WORKER_MAX_CONCURRENCY_LIMIT
<1>1. /\ worker_sessions \in Seq(Server)
      /\ worker_active_count \in Nat /\ worker_max_concurrency \in Nat
      /\ worker_active_count < worker_max_concurrency
      /\ worker_max_concurrency <= WORKER_MAX_CONCURRENCY_LIMIT
      /\ WORKER_MAX_CONCURRENCY_LIMIT \in Nat
      /\ worker_active_count + Len(worker_sessions) <= WORKER_MAX_CONCURRENCY_LIMIT
      /\ SpawnInfo = active_connection
  <2>1. /\ worker_sessions \in Seq(Server)
        /\ worker_active_count \in 0..WORKER_MAX_CONCURRENCY_LIMIT
        /\ worker_max_concurrency \in 1..WORKER_MAX_CONCURRENCY_LIMIT
        /\ WORKER_MAX_CONCURRENCY_LIMIT \in Nat
    BY ConstantsAssumption DEF IInv, TypeOK
  <2>2. SpawnInfo = active_connection
    BY SpawnChanges
  <2> QED
    BY <2>1, <2>2 DEF IInv, ConnectionLimit, SpawnWorker, ShouldSpawn
<1>2. CASE IsPooled(active_connection)
  <2>1. PICK i \in 1..Len(worker_sessions) : worker_sessions' = RemoveAt(worker_sessions, i)
    BY <1>1, <1>2 DEF SpawnWorker, TakePooledSession
  <2>2. /\ worker_sessions' \in Seq(Server)
        /\ ToSet(worker_sessions') \subseteq ToSet(worker_sessions)
        /\ Len(worker_sessions') = Len(worker_sessions) - 1
    BY <1>1, <2>1, RemoveAtElements
  <2>3. Len(worker_sessions) \in Nat /\ Len(worker_sessions') \in Nat
    BY <1>1, <2>2
  <2> QED BY <1>1, <2>2, <2>3
<1>3. CASE ~IsPooled(active_connection)
  <2>1. worker_sessions' = worker_sessions
    BY <1>1, <1>3 DEF SpawnWorker, TakePooledSession
  <2>2. Len(worker_sessions) = 0
    <3>1. ToSet(worker_sessions) = {}
      BY <1>3 DEF IInv, JobsRunOnTheirServer, IsPooled
    <3>2. \A i \in 1..Len(worker_sessions) : worker_sessions[i] \in ToSet(worker_sessions)
      BY <1>1 DEF ToSet
    <3>3. Len(worker_sessions) \in Nat /\ ~(1 \in 1..Len(worker_sessions))
      BY <1>1, <3>1, <3>2
    <3> QED BY <3>3
  <2> QED BY <1>1, <2>1, <2>2
<1> QED BY <1>2, <1>3

LEMMA SpawnBooks ==
  ASSUME IInv, NEW t \in Task, SpawnWorker(t)
  PROVE  Books' /\ worker_active_count' = worker_active_count + 1
<1> DEFINE j == Head(pending)
<1>1. /\ t \notin Live /\ Live' = Live \cup {t} /\ Current' = Current \cup {t}
      /\ task'[t].job = j /\ task'[t].generation = generation
      /\ \A u \in Task \ {t} : task'[u] = task[u]
  BY SpawnChanges
<1>2. /\ QueueInv /\ StartNext /\ j \in ToSet(pending) /\ j \in Job
      /\ active' = active \cup {j} /\ cancelled' = cancelled
      /\ j \notin active /\ j \notin cancelled
  <2>1. QueueInv /\ StartNext
    BY IdleJobs DEF SpawnWorker
  <2>2. j \in ToSet(pending) /\ j \in Job
    BY <2>1, StartNextInv
  <2> QED
    BY <2>1, <2>2 DEF QueueInv, OneHome, StartNext
<1>3. /\ worker_active_count' = worker_active_count + 1
      /\ cancel_flags' = cancel_flags \cup {t}
      /\ job_cancels' = [job_cancels EXCEPT ![j] = t]
      /\ generation' = generation
      /\ job_cancels \in [Job -> Optional(Task, NoTask)]
  BY DEF SpawnWorker, connVars, IInv, TypeOK
<1> HIDE DEF j
<1>4. \A u \in Live : u \in Task \ {t} /\ task[u].job # j
  <2>1. \A u \in Live : task[u].job \in active \cup cancelled
    BY DEF IInv, OrphansInv, OneWorkerPerJob
  <2> QED BY <1>1, <1>2, <2>1 DEF Live
<1>5. OneWorkerPerJob'
  <2>1. \A u \in Current : task'[u].job = task[u].job
    BY <1>1, <1>4, FiniteCurrent
  <2>2. active = {task[u].job : u \in Current}
    BY DEF IInv, OneWorkerPerJob
  <2>3. active' = {task'[u].job : u \in Current'}
    BY <1>1, <1>2, <2>1, <2>2
  <2>4. \A u, v \in Live' : task'[u].job = task'[v].job => u = v
    BY <1>1, <1>4 DEF IInv, OneWorkerPerJob
  <2> QED BY <2>3, <2>4 DEF OneWorkerPerJob
<1>6. CountIsWorkers'
  <2>1. t \notin Current
    BY <1>1, FiniteCurrent
  <2>2. Cardinality(Current \cup {t}) = Cardinality(Current) + 1
    BY <2>1, FiniteCurrent, FS_AddElement
  <2> QED BY <1>1, <1>3, <2>2, FiniteCurrent DEF CountIsWorkers
<1>7. FlagsReachWorkers'
  <2>1. cancel_flags' = Current'
    BY <1>1, <1>3 DEF IInv, FlagsReachWorkers
  <2>2. ASSUME NEW i \in Job
        PROVE  IF i \in active' THEN job_cancels'[i] \in Current' /\ task'[job_cancels'[i]].job = i
                                ELSE job_cancels'[i] = NoTask
    <3>1. CASE i = j
      BY <3>1, <1>1, <1>2, <1>3
    <3>2. CASE i # j
      <4>1. job_cancels'[i] = job_cancels[i] /\ (i \in active' <=> i \in active)
        BY <3>2, <1>2, <1>3
      <4>2. CASE i \in active
        <5>1. job_cancels[i] \in Current /\ task[job_cancels[i]].job = i
          BY <4>2 DEF IInv, FlagsReachWorkers
        <5>2. task'[job_cancels[i]] = task[job_cancels[i]]
          BY <5>1, <1>1, <1>4, FiniteCurrent
        <5> QED BY <4>1, <4>2, <5>1, <5>2, <1>1
      <4>3. CASE i \notin active
        BY <4>1, <4>3 DEF IInv, FlagsReachWorkers
      <4> QED BY <4>2, <4>3
    <3> QED BY <3>1, <3>2
  <2> QED BY <2>1, <2>2 DEF FlagsReachWorkers
<1>8. OrphansInv'
  <2>1. ASSUME NEW u \in Live'
        PROVE  /\ task'[u].job \in Job /\ task'[u].generation <= generation'
               /\ u \notin Current' => task'[u].job \in cancelled'
    <3>1. CASE u = t
      BY <3>1, <1>1, <1>2, <1>3 DEF IInv, TypeOK
    <3>2. CASE u # t
      <4>1. u \in Live /\ task'[u] = task[u]
        BY <3>2, <2>1, <1>1, <1>4
      <4> QED BY <4>1, <1>1, <1>2, <1>3 DEF IInv, OrphansInv
    <3> QED BY <3>1, <3>2
  <2> QED BY <2>1 DEF OrphansInv
<1> QED BY <1>3, <1>5, <1>6, <1>7, <1>8 DEF Books

LEMMA SpawnWorkerInv ==
  ASSUME IInv, NEW t \in Task, SpawnWorker(t)
  PROVE  IInv'
<1>1. /\ active_connection \in Server
      /\ t \notin Live /\ Live' = Live \cup {t} /\ Current' = Current \cup {t}
      /\ task'[t].job = Head(pending) /\ task'[t].info = active_connection
      /\ \A u \in Task \ {t} : task'[u] = task[u] /\ pc'[u] = pc[u]
      /\ task' \in [Task -> Tasks] /\ pc' \in [Task -> PCs] /\ pc'[t] \in {"transfer", "connect"}
      /\ Head(pending) \in Job
  BY SpawnChanges
<1>2. /\ QueueInv' /\ ToSet(pending) = ToSet(pending') \cup {Head(pending)}
      /\ active' = active \cup {Head(pending)}
  BY IdleJobs, StartNextInv DEF SpawnWorker, StartNext
<1>3. /\ worker_sessions' \in Seq(Server)
      /\ ToSet(worker_sessions') \subseteq ToSet(worker_sessions)
      /\ Len(worker_sessions') \in Nat
      /\ worker_active_count + 1 + Len(worker_sessions') <= WORKER_MAX_CONCURRENCY_LIMIT
      /\ Books' /\ worker_active_count' = worker_active_count + 1
  BY SpawnPool, SpawnBooks
<1>4. /\ UNCHANGED <<loopVars, connVars, worker_cancel_requested, rx, home>>
      /\ worker_handles' = TRUE
      /\ cancel' = [cancel EXCEPT ![t] = FALSE]
      /\ cancel_flags' = cancel_flags \cup {t}
      /\ job_cancels' = [job_cancels EXCEPT ![Head(pending)] = t]
      /\ connected /\ ~worker_cancel_requested
  BY DEF SpawnWorker, ShouldSpawn
<1>5. TypeOK'
  <2>1. worker_active_count' \in 0..WORKER_MAX_CONCURRENCY_LIMIT
    BY <1>3, ConstantsAssumption DEF IInv, TypeOK
  <2>2. cancel' \in [Task -> BOOLEAN] /\ job_cancels' \in [Job -> Optional(Task, NoTask)]
    BY <1>4 DEF IInv, TypeOK, Optional
  <2> QED
    BY <1>1, <1>2, <1>3, <1>4, <2>1, <2>2 DEF IInv, TypeOK, QueueInv, loopVars, connVars
<1>6. ReportsInv'
  <2>1. \A i \in 1..Len(rx) : rx[i].kind = "Done" => rx[i].task \in Task /\ rx[i].task # t
                                                     /\ pc[rx[i].task] = "sent"
    <3>1. \A i \in 1..Len(rx) : rx[i] \in Messages
      BY DEF IInv, TypeOK
    <3>2. pc[t] = "idle"
      BY DEF SpawnWorker
    <3> QED BY <3>1, <3>2 DEF Messages, IInv, ReportsInv
  <2>2. \A i \in 1..Len(rx) : rx[i].kind = "Done" => pc'[rx[i].task] = "sent"
    BY <1>1, <2>1
  <2> QED BY <1>4, <2>2 DEF IInv, ReportsInv
<1>7. ServersInv'
  BY <1>2, <1>4 DEF IInv, ServersInv, connVars
<1>8. ConnectionLimit' /\ NoLeftovers'
  <2>1. worker_active_count \in Nat
    BY DEF IInv, TypeOK
  <2> QED
    BY <1>3, <1>4, <2>1 DEF ConnectionLimit, NoLeftovers, connVars
<1>9. JobsRunOnTheirServer'
  <2>1. /\ connected' /\ active_connection' = active_connection /\ home' = home
    BY <1>4 DEF connVars
  <2>2. Head(pending) \in ToSet(pending) /\ home[Head(pending)] \in {active_connection, NoServer}
    BY <1>2 DEF IInv, ServersInv
  <2>3. ASSUME NEW u \in Current'
        PROVE  task'[u].info = active_connection
               /\ home[task'[u].job] \in {active_connection, NoServer}
    <3>1. CASE u = t
      BY <3>1, <1>1, <2>2
    <3>2. CASE u # t
      <4>1. u \in Current /\ task'[u] = task[u]
        BY <3>2, <2>3, <1>1, FiniteCurrent
      <4> QED BY <4>1 DEF IInv, JobsRunOnTheirServer
    <3> QED BY <3>1, <3>2
  <2> QED
    BY <1>3, <2>1, <2>3 DEF IInv, JobsRunOnTheirServer
<1>10. NoDeafWorker'
  <2>1. ASSUME NEW u \in Working', u \notin Current'
        PROVE  cancel'[u]
    <3>1. u # t /\ u \in Working /\ u \notin Current
      BY <2>1, <1>1 DEF Working, Live
    <3> QED BY <3>1, <1>4 DEF IInv, NoDeafWorker, TypeOK, Working, Live
  <2> QED BY <1>4, <2>1 DEF NoDeafWorker
<1> QED
  BY <1>2, <1>3, <1>5, <1>6, <1>7, <1>8, <1>9, <1>10 DEF IInv, Books, QueueInv

-----------------------------------------------------------------------------
(* A report is read, and its task's slot is free.                          *)

LEMMA EndTask ==
  ASSUME IInv, NEW t \in Task, NextMessage(Done(t)), FreeSlot(t)
  PROVE  /\ t \in Live /\ Live' = Live \ {t} /\ Current' = Current \ {t}
         /\ Working' = Working /\ t \notin Working
         /\ \A u \in Task \ {t} : task'[u] = task[u] /\ cancel'[u] = cancel[u]
         /\ task' \in [Task -> Tasks] /\ pc' \in [Task -> PCs]
         /\ cancel' \in [Task -> BOOLEAN]
         /\ ReportsInv' /\ rx' \in Seq(Messages)
<1>1. /\ rx # <<>> /\ rx' = Tail(rx) /\ Head(rx) = Done(t) /\ generation' = generation
      /\ pc' = [pc EXCEPT ![t] = "idle"]
      /\ task' = [task EXCEPT ![t] = IdleTask]
      /\ cancel' = [cancel EXCEPT ![t] = FALSE]
      /\ pc \in [Task -> PCs] /\ task \in [Task -> Tasks] /\ cancel \in [Task -> BOOLEAN]
      /\ rx \in Seq(Messages)
  BY DEF NextMessage, FreeSlot, connVars, IInv, TypeOK
<1>2. ReportsInv' /\ rx' \in Seq(Messages)
  BY <1>1, ReadReports DEF IInv
<1>3. pc[t] = "sent"
  <2>1. 1 \in 1..Len(rx) /\ rx[1] = Done(t)
    BY <1>1, EmptySeq
  <2>2. Done(t).kind = "Done" /\ Done(t).task = t
    BY DEF Done
  <2> QED BY <2>1, <2>2 DEF IInv, ReportsInv
<1>4. IdleTask \in Tasks
  BY ConstantsAssumption DEF IdleTask, Tasks, Optional
<1>5. /\ \A u \in Task \ {t} : task'[u] = task[u] /\ cancel'[u] = cancel[u] /\ pc'[u] = pc[u]
      /\ task' \in [Task -> Tasks] /\ pc' \in [Task -> PCs] /\ pc'[t] = "idle"
      /\ cancel' \in [Task -> BOOLEAN]
  BY <1>1, <1>4 DEF PCs
<1>6. t \in Live /\ Live' = Live \ {t}
  BY <1>3, <1>5 DEF Live
<1>7. Current' = Current \ {t}
  BY <1>1, <1>5, <1>6 DEF Current, Live
<1>8. Working' = Working /\ t \notin Working
  BY <1>3, <1>5, <1>6 DEF Working, Live
<1> QED BY <1>2, <1>5, <1>6, <1>7, <1>8

LEMMA IgnoreDoneInv ==
  ASSUME IInv, NEW t \in Task, IgnoreDone(t)
  PROVE  IInv'
<1>1. /\ t \in Live /\ Live' = Live \ {t} /\ Current' = Current \ {t}
      /\ Working' = Working /\ t \notin Working
      /\ \A u \in Task \ {t} : task'[u] = task[u] /\ cancel'[u] = cancel[u]
      /\ task' \in [Task -> Tasks] /\ pc' \in [Task -> PCs]
      /\ cancel' \in [Task -> BOOLEAN]
      /\ ReportsInv' /\ rx' \in Seq(Messages)
  BY EndTask DEF IgnoreDone
<1>2. t \notin Current /\ Current' = Current /\ Current \subseteq Live' /\ Live' \subseteq Task \ {t}
  BY <1>1, FiniteCurrent DEF IgnoreDone, AcceptWorkerMsg, Current
<1>3. /\ UNCHANGED <<queueVars, bookVars, worker_max_concurrency, requested, connVars,
                     worker_cancel_requested, home>>
      /\ phase' = "worker"
  BY DEF IgnoreDone, NextMessage, Handles
<1>4. QueueInv' /\ TypeOK'
  BY <1>1, <1>3 DEF IInv, TypeOK, QueueInv, QueueTypeOK, OneHome, NoStaleSpeed, queueVars,
                    bookVars, connVars
<1>5. \A u \in Live' : u \in Live /\ task'[u] = task[u]
  BY <1>1, <1>2
<1>6. OneWorkerPerJob'
  BY <1>2, <1>3, <1>5 DEF IInv, OneWorkerPerJob, queueVars
<1>7. CountIsWorkers' /\ ConnectionLimit' /\ NoLeftovers'
  BY <1>2, <1>3 DEF IInv, CountIsWorkers, ConnectionLimit, NoLeftovers, LeftoverWorkers,
                    queueVars, bookVars, connVars
<1>8. FlagsReachWorkers'
  BY <1>2, <1>3, <1>5 DEF IInv, FlagsReachWorkers, queueVars, bookVars
<1>9. OrphansInv' /\ ServersInv'
  BY <1>2, <1>3, <1>5 DEF IInv, OrphansInv, ServersInv, queueVars, connVars
<1>10. JobsRunOnTheirServer'
  BY <1>2, <1>3, <1>5 DEF IInv, JobsRunOnTheirServer, bookVars, connVars
<1>11. NoDeafWorker'
  <2>1. \A u \in Working : cancel'[u] = cancel[u]
    BY <1>1 DEF Working, Live
  <2> QED BY <1>1, <1>2, <1>3, <2>1 DEF IInv, NoDeafWorker
<1> QED
  BY <1>1, <1>4, <1>6, <1>7, <1>8, <1>9, <1>10, <1>11 DEF IInv, QueueInv

(* The books after a current task's report. *)
LEMMA ApplyDoneBooks ==
  ASSUME IInv, NEW t \in Task, ApplyDone(t)
  PROVE  /\ Books' /\ t \in Current /\ QueueInv' /\ pending' = pending
         /\ worker_active_count \in Nat \ {0}
         /\ worker_active_count' = worker_active_count - 1
         /\ job_cancels' \in [Job -> Optional(Task, NoTask)]
         /\ cancel_flags' \subseteq Task
<1> DEFINE j == task[t].job
<1>1. /\ t \in Live /\ Live' = Live \ {t} /\ Current' = Current \ {t}
      /\ \A u \in Task \ {t} : task'[u] = task[u]
  BY EndTask DEF ApplyDone
<1>2. t \in Current /\ j \in active /\ j \in Job /\ generation' = generation
  BY <1>1 DEF ApplyDone, AcceptWorkerMsg, Current, IInv, OneWorkerPerJob, OrphansInv,
              NextMessage, connVars
<1>3. QueueInv' /\ pending' = pending /\ active' = active \ {j} /\ cancelled \subseteq cancelled'
  <2>1. MarkCompleted(j) \/ MarkFailed(j) \/ MarkCancelled(j)
    BY DEF ApplyDone, HandleWorkerResult
  <2>2. QueueInv
    BY IdleJobs
  <2>3. cancelled \subseteq cancelled'
    BY <2>1 DEF MarkCompleted, MarkFailed, MarkCancelled
  <2> QED BY <1>2, <2>1, <2>2, <2>3, MarkInv
<1>4. /\ cancel_flags' = cancel_flags \ {t}
      /\ job_cancels' = [job_cancels EXCEPT ![j] = NoTask]
      /\ job_cancels \in [Job -> Optional(Task, NoTask)]
      /\ cancel_flags \subseteq Task
  BY DEF ApplyDone, ForgetFlags, IInv, TypeOK
<1>5. /\ worker_active_count \in Nat \ {0}
      /\ worker_active_count' = worker_active_count - 1
      /\ CountIsWorkers'
  <2>1. IsFiniteSet(Current) /\ worker_active_count = Cardinality(Current)
        /\ Cardinality(Current) \in Nat
    BY FiniteCurrent
  <2>2. Cardinality(Current) # 0
    BY <1>2, <2>1, FS_EmptySet
  <2>3. Cardinality(Current \ {t}) = Cardinality(Current) - 1
    BY <1>2, <2>1, FS_RemoveElement
  <2>4. worker_active_count' = worker_active_count - 1
    BY <2>1, <2>2 DEF ApplyDone
  <2> QED BY <1>1, <2>1, <2>2, <2>3, <2>4 DEF CountIsWorkers
<1> HIDE DEF j
<1>6. \A u \in Live : u \in Task /\ (u # t => task[u].job # j /\ task'[u] = task[u])
  <2>1. \A u \in Live : u # t => task[u].job # j
    BY <1>1 DEF IInv, OneWorkerPerJob, j
  <2> QED BY <1>1, <2>1, FiniteCurrent
<1>7. OneWorkerPerJob'
  <2>1. active = {task[u].job : u \in Current} /\ task[t].job = j
    BY DEF IInv, OneWorkerPerJob, j
  <2>2. \A u \in Current' : u \in Current /\ u # t /\ task'[u].job = task[u].job /\ task[u].job # j
    BY <1>1, <1>6, FiniteCurrent
  <2>3. active' = {task'[u].job : u \in Current'}
    BY <1>1, <1>3, <2>1, <2>2
  <2>4. \A u, v \in Live' : task'[u].job = task'[v].job => u = v
    BY <1>1, <1>6 DEF IInv, OneWorkerPerJob
  <2> QED BY <2>3, <2>4 DEF OneWorkerPerJob
<1>8. FlagsReachWorkers'
  <2>1. cancel_flags' = Current'
    BY <1>1, <1>4 DEF IInv, FlagsReachWorkers
  <2>2. ASSUME NEW i \in Job
        PROVE  IF i \in active' THEN job_cancels'[i] \in Current' /\ task'[job_cancels'[i]].job = i
                                ELSE job_cancels'[i] = NoTask
    <3>1. CASE i = j
      BY <3>1, <1>2, <1>3, <1>4
    <3>2. CASE i # j
      <4>1. job_cancels'[i] = job_cancels[i] /\ (i \in active' <=> i \in active)
        BY <3>2, <1>3, <1>4
      <4>2. CASE i \in active
        <5>1. job_cancels[i] \in Current /\ task[job_cancels[i]].job = i
          BY <4>2 DEF IInv, FlagsReachWorkers
        <5>2. job_cancels[i] # t
          BY <5>1, <3>2 DEF j
        <5>3. task'[job_cancels[i]] = task[job_cancels[i]]
          BY <5>1, <5>2, <1>6, FiniteCurrent
        <5> QED BY <4>1, <4>2, <5>1, <5>2, <5>3, <1>1
      <4>3. CASE i \notin active
        BY <4>1, <4>3 DEF IInv, FlagsReachWorkers
      <4> QED BY <4>2, <4>3
    <3> QED BY <3>1, <3>2
  <2> QED BY <2>1, <2>2 DEF FlagsReachWorkers
<1>9. OrphansInv'
  <2>1. ASSUME NEW u \in Live'
        PROVE  /\ task'[u].job \in Job /\ task'[u].generation <= generation'
               /\ u \notin Current' => task'[u].job \in cancelled'
    <3>1. u \in Live /\ u # t /\ task'[u] = task[u]
      BY <2>1, <1>1, <1>6
    <3>2. u \notin Current' => u \notin Current
      BY <3>1, <1>1
    <3> QED BY <3>1, <3>2, <1>2, <1>3 DEF IInv, OrphansInv
  <2> QED BY <2>1 DEF OrphansInv
<1>10. job_cancels' \in [Job -> Optional(Task, NoTask)] /\ cancel_flags' \subseteq Task
  BY <1>4 DEF Optional
<1> QED BY <1>2, <1>3, <1>5, <1>7, <1>8, <1>9, <1>10 DEF Books

LEMMA ReturnPool ==
  ASSUME TypeOK, NEW t \in Task, ReturnPooledSession(t)
  PROVE  /\ worker_sessions' \in Seq(Server)
         /\ Len(worker_sessions) \in Nat /\ Len(worker_sessions') \in Nat
         /\ Len(worker_sessions') <= Len(worker_sessions) + 1
         /\ ToSet(worker_sessions') \subseteq ToSet(worker_sessions) \cup {active_connection}
<1>1. worker_sessions \in Seq(Server) /\ Len(worker_sessions) \in Nat
  BY DEF TypeOK
<1>2. CASE worker_sessions' = worker_sessions
  BY <1>1, <1>2
<1>3. CASE worker_sessions' # worker_sessions
  <2>1. /\ active_connection \in Server
        /\ worker_sessions' = Append(worker_sessions, active_connection)
    BY <1>3 DEF ReturnPooledSession, TypeOK, Optional
  <2>2. /\ worker_sessions' \in Seq(Server)
        /\ Len(worker_sessions') = Len(worker_sessions) + 1
    BY <1>1, <2>1
  <2>3. ToSet(worker_sessions') = ToSet(worker_sessions) \cup {active_connection}
    BY <1>1, <2>1, AppendElements
  <2> QED BY <1>1, <2>2, <2>3
<1> QED BY <1>2, <1>3

LEMMA ApplyDoneInv ==
  ASSUME IInv, NEW t \in Task, ApplyDone(t)
  PROVE  IInv'
<1>1. /\ t \in Live /\ Live' = Live \ {t} /\ Current' = Current \ {t}
      /\ Working' = Working /\ t \notin Working
      /\ \A u \in Task \ {t} : task'[u] = task[u] /\ cancel'[u] = cancel[u]
      /\ task' \in [Task -> Tasks] /\ pc' \in [Task -> PCs]
      /\ cancel' \in [Task -> BOOLEAN]
      /\ ReportsInv' /\ rx' \in Seq(Messages)
  BY EndTask DEF ApplyDone
<1>2. /\ Books' /\ t \in Current /\ QueueInv' /\ pending' = pending
      /\ worker_active_count \in Nat \ {0}
      /\ worker_active_count' = worker_active_count - 1
      /\ job_cancels' \in [Job -> Optional(Task, NoTask)]
      /\ cancel_flags' \subseteq Task
  BY ApplyDoneBooks
<1>3. /\ UNCHANGED <<worker_max_concurrency, requested, connVars, worker_cancel_requested, home,
                     worker_handles>>
      /\ phase' = "worker"
  BY DEF ApplyDone, NextMessage, Handles
<1>4. /\ worker_sessions' \in Seq(Server)
      /\ Len(worker_sessions) \in Nat /\ Len(worker_sessions') \in Nat
      /\ Len(worker_sessions') <= Len(worker_sessions) + 1
      /\ ToSet(worker_sessions') \subseteq ToSet(worker_sessions) \cup {active_connection}
  BY ReturnPool DEF ApplyDone, IInv
<1>5. worker_active_count' \in 0..WORKER_MAX_CONCURRENCY_LIMIT
  BY <1>2, ConstantsAssumption DEF IInv, TypeOK
<1>6. TypeOK'
  BY <1>1, <1>2, <1>3, <1>4, <1>5 DEF IInv, TypeOK, QueueInv, connVars
<1>7. connected /\ connected' /\ active_connection' = active_connection
  BY <1>2, <1>3 DEF IInv, JobsRunOnTheirServer, connVars
<1>8. ServersInv' /\ NoLeftovers'
  BY <1>2, <1>3, <1>7 DEF IInv, ServersInv, NoLeftovers, connVars
<1>9. ConnectionLimit'
  BY <1>2, <1>4, ConstantsAssumption DEF IInv, ConnectionLimit
<1>10. JobsRunOnTheirServer'
  <2>1. \A u \in Current' : u \in Current /\ task'[u] = task[u]
    BY <1>1, FiniteCurrent
  <2> QED BY <2>1, <1>3, <1>4, <1>7 DEF IInv, JobsRunOnTheirServer
<1>11. NoDeafWorker'
  <2>1. \A u \in Working : cancel'[u] = cancel[u] /\ u # t
    BY <1>1 DEF Working, Live
  <2> QED BY <1>1, <1>3, <2>1 DEF IInv, NoDeafWorker
<1> QED
  BY <1>1, <1>2, <1>6, <1>8, <1>9, <1>10, <1>11 DEF IInv, Books, QueueInv

-----------------------------------------------------------------------------
(* Connecting and disconnecting.                                           *)

(* A drop makes every task an orphan that was told to stop.                *)
LEMMA DropWorkersInv ==
  ASSUME IInv, NEW n \in {1, 2}, DropWorkers(n),
         UNCHANGED <<pc, task, rx, home, worker_max_concurrency>>,
         phase' = "events",
         connected' = FALSE, active_connection' = NoServer,
         in_flight' \in Optional(Server, NoServer)
  PROVE  IInv'
<1>1. /\ generation' = generation + n /\ generation' \in 0..MaxGeneration
      /\ generation \in Nat /\ generation < generation'
  BY ConstantsAssumption DEF DropWorkers, IInv, TypeOK
<1>2. /\ QueueInv' /\ ToSet(pending') = {} /\ active' = {}
      /\ cancelled' = cancelled \cup active
  BY IdleJobs, DropQueueInv DEF DropWorkers
<1>3. /\ cancel' = [t \in Task |-> cancel[t] \/ t \in cancel_flags]
      /\ cancel \in [Task -> BOOLEAN]
      /\ requested' = FALSE /\ worker_sessions' = <<>> /\ worker_active_count' = 0
      /\ worker_cancel_requested' = TRUE
      /\ worker_handles' = FALSE /\ cancel_flags' = {}
      /\ job_cancels' = [j \in Job |-> NoTask]
  BY DEF DropWorkers, IInv, TypeOK
<1>4. cancel' \in [Task -> BOOLEAN]
  BY <1>3
<1>5. /\ worker_sessions' \in Seq(Server) /\ Len(worker_sessions') = 0
      /\ ToSet(worker_sessions') = {}
  BY <1>3, EmptyElements
<1>6. TypeOK'
  <2>1. /\ job_cancels' \in [Job -> Optional(Task, NoTask)]
        /\ worker_active_count' \in 0..WORKER_MAX_CONCURRENCY_LIMIT
        /\ active_connection' \in Optional(Server, NoServer)
    BY <1>3, ConstantsAssumption DEF Optional
  <2> QED
    BY <1>1, <1>2, <1>3, <1>4, <1>5, <2>1 DEF IInv, TypeOK, QueueInv
<1>7. Live' = Live /\ Working' = Working /\ Live \subseteq Task
  BY DEF Live, Working
<1>8. \A t \in Live : task[t].job \in Job /\ task[t].generation \in Nat
                      /\ task[t].generation < generation'
  <2>1. \A t \in Live : task[t].generation \in Nat
    BY <1>7 DEF IInv, TypeOK, Tasks
  <2> QED BY <1>1, <2>1 DEF IInv, OrphansInv
<1>9. Current' = {}
  BY <1>1, <1>7, <1>8 DEF Current
<1>10. \A t \in Live : task[t].job \in cancelled'
  BY <1>2 DEF IInv, OrphansInv, OneWorkerPerJob
<1>11. OneWorkerPerJob' /\ CountIsWorkers' /\ FlagsReachWorkers' /\ OrphansInv'
  <2>1. OneWorkerPerJob'
    BY <1>2, <1>7, <1>9 DEF IInv, OneWorkerPerJob
  <2>2. CountIsWorkers'
    BY <1>3, <1>9, FS_EmptySet DEF CountIsWorkers
  <2>3. FlagsReachWorkers'
    BY <1>2, <1>3, <1>9 DEF FlagsReachWorkers
  <2>4. OrphansInv'
    BY <1>1, <1>7, <1>8, <1>10 DEF OrphansInv
  <2> QED BY <2>1, <2>2, <2>3, <2>4
<1>12. ReportsInv' /\ ServersInv'
  BY <1>2 DEF IInv, ReportsInv, ServersInv
<1>13. ConnectionLimit' /\ JobsRunOnTheirServer' /\ NoLeftovers'
  BY <1>2, <1>3, <1>5, <1>9, ConstantsAssumption
     DEF ConnectionLimit, JobsRunOnTheirServer, NoLeftovers, LeftoverWorkers
<1>14. NoDeafWorker'
  <2>1. \A t \in Working : t \in Task /\ (t \notin Current => cancel[t])
    BY DEF IInv, NoDeafWorker, Working, Live
  <2>2. \A t \in Working : cancel'[t]
    BY <1>3, <2>1 DEF IInv, FlagsReachWorkers
  <2> QED BY <1>7, <2>2 DEF NoDeafWorker
<1> QED
  BY <1>2, <1>6, <1>11, <1>12, <1>13, <1>14 DEF IInv, QueueInv

(* Without a connection no task is current. *)
LEMMA NoCurrent ==
  ASSUME IInv, ~connected
  PROVE  /\ Current = {} /\ active = {} /\ worker_active_count = 0 /\ worker_handles = FALSE
         /\ active_connection = NoServer /\ ToSet(worker_sessions) = {}
         /\ \A j \in ToSet(pending) : home[j] = NoServer
<1>1. worker_active_count \in Nat /\ worker_handles \in BOOLEAN
  BY DEF IInv, TypeOK
<1>2. active = {} /\ worker_active_count = 0 /\ worker_handles = FALSE
  BY <1>1 DEF IInv, NoLeftovers, LeftoverWorkers
<1>3. Current = {}
  BY <1>2 DEF IInv, OneWorkerPerJob
<1>4. /\ active_connection = NoServer /\ ToSet(worker_sessions) = {}
      /\ \A j \in ToSet(pending) : home[j] = NoServer
  BY DEF IInv, ServersInv, JobsRunOnTheirServer
<1> QED BY <1>2, <1>3, <1>4

LEMMA BumpGenerationInv ==
  ASSUME IInv, BumpGeneration, ~connected,
         UNCHANGED <<pc, task, rx, home, worker_max_concurrency>>,
         phase' = "events",
         connected' = FALSE, active_connection' = NoServer,
         in_flight' \in Optional(Server, NoServer)
  PROVE  IInv'
<1>1. /\ generation' = generation + 1 /\ generation' \in 0..MaxGeneration
      /\ generation \in Nat /\ generation < generation'
  BY ConstantsAssumption DEF BumpGeneration, IInv, TypeOK
<1>2. /\ Current = {} /\ active = {} /\ worker_active_count = 0 /\ worker_handles = FALSE
      /\ \A j \in ToSet(pending) : home[j] = NoServer
  BY NoCurrent
<1>3. /\ UNCHANGED <<queueVars, cancel, worker_active_count, worker_cancel_requested,
                     worker_handles, cancel_flags, job_cancels>>
      /\ requested' = FALSE /\ worker_sessions' = <<>>
  BY DEF BumpGeneration
<1>4. /\ worker_sessions' \in Seq(Server) /\ Len(worker_sessions') = 0
      /\ ToSet(worker_sessions') = {}
  BY <1>3, EmptyElements
<1>5. QueueInv' /\ TypeOK'
  BY <1>1, <1>3, <1>4
     DEF IInv, TypeOK, QueueInv, QueueTypeOK, OneHome, NoStaleSpeed, queueVars, Optional
<1>6. Live' = Live /\ Working' = Working /\ Live \subseteq Task
  BY DEF Live, Working
<1>7. \A t \in Live : task[t].generation < generation'
  <2>1. \A t \in Live : task[t].generation \in Nat
    BY <1>6 DEF IInv, TypeOK, Tasks
  <2> QED BY <1>1, <2>1 DEF IInv, OrphansInv
<1>8. Current' = {}
  BY <1>1, <1>6, <1>7 DEF Current, IInv, TypeOK, Tasks, Live
<1>9. OneWorkerPerJob' /\ CountIsWorkers' /\ FlagsReachWorkers'
  BY <1>2, <1>3, <1>6, <1>8
     DEF IInv, OneWorkerPerJob, CountIsWorkers, FlagsReachWorkers, queueVars
<1>10. OrphansInv'
  <2>1. \A t \in Live : task[t].generation <= generation'
    BY <1>1, <1>6, <1>7 DEF IInv, TypeOK, Tasks
  <2> QED BY <1>2, <1>3, <1>6, <2>1 DEF IInv, OrphansInv, queueVars
<1>11. ReportsInv' /\ ServersInv'
  BY <1>2, <1>3 DEF IInv, ReportsInv, ServersInv, queueVars
<1>12. ConnectionLimit' /\ JobsRunOnTheirServer' /\ NoLeftovers'
  BY <1>2, <1>3, <1>4, <1>8, ConstantsAssumption
     DEF ConnectionLimit, JobsRunOnTheirServer, NoLeftovers, LeftoverWorkers, queueVars
<1>13. NoDeafWorker'
  BY <1>2, <1>3, <1>6 DEF IInv, NoDeafWorker
<1> QED
  BY <1>5, <1>9, <1>10, <1>11, <1>12, <1>13 DEF IInv, QueueInv

LEMMA ConnectInv ==
  ASSUME IInv, DisconnectSession \/ \E s \in Server : Connect(s)
  PROVE  IInv'
<1>1. CASE DisconnectSession
  BY <1>1, DropWorkersInv DEF DisconnectSession, Handles, Optional
<1>2. ASSUME NEW s \in Server, Connect(s) PROVE IInv'
  <2>1. /\ UNCHANGED <<pc, task, rx, home, worker_max_concurrency>>
        /\ phase' = "events" /\ connected' = FALSE /\ active_connection' = NoServer
        /\ in_flight' \in Optional(Server, NoServer)
    BY <1>2 DEF Connect, Handles, Optional
  <2>2. CASE connected
    BY <1>2, <2>1, <2>2, DropWorkersInv DEF Connect
  <2>3. CASE ~connected
    <3>1. ~LeftoverWorkers
      BY <2>3 DEF IInv, NoLeftovers
    <3> QED BY <1>2, <2>1, <2>3, <3>1, BumpGenerationInv DEF Connect
  <2> QED BY <2>2, <2>3
<1> QED BY <1>1, <1>2

LEMMA ConnectDoneInv ==
  ASSUME IInv, NEW ok \in BOOLEAN, ConnectDone(ok)
  PROVE  IInv'
<1>1. /\ in_flight \in Server /\ in_flight' = NoServer /\ connected' = ok
      /\ ~connected
      /\ phase' = "io" /\ worker_max_concurrency' = worker_max_concurrency
      /\ UNCHANGED <<generation, queueVars, requested, worker_cancel_requested, bookVars,
                     taskVars, home>>
  BY DEF ConnectDone, Handles, IInv, TypeOK, ServersInv, Optional
<1>2. /\ Current = {} /\ active = {} /\ worker_active_count = 0
      /\ active_connection = NoServer /\ ToSet(worker_sessions) = {}
      /\ worker_handles = FALSE
      /\ \A j \in ToSet(pending) : home[j] = NoServer
  BY <1>1, NoCurrent
<1>3. /\ active_connection' = IF ok THEN in_flight ELSE NoServer
      /\ active_connection' \in Optional(Server, NoServer)
      /\ ok <=> active_connection' # NoServer
  BY <1>1, <1>2, ConstantsAssumption DEF ConnectDone, Optional
<1>4. QueueInv' /\ TypeOK'
  BY <1>1, <1>3
     DEF IInv, TypeOK, QueueInv, QueueTypeOK, OneHome, NoStaleSpeed, queueVars, bookVars,
         taskVars, Optional
<1>5. Live' = Live /\ Working' = Working /\ Current' = Current
  BY <1>1 DEF Live, Working, Current, taskVars
<1>6. OneWorkerPerJob' /\ CountIsWorkers' /\ FlagsReachWorkers' /\ OrphansInv'
  BY <1>1, <1>5
     DEF IInv, OneWorkerPerJob, CountIsWorkers, FlagsReachWorkers, OrphansInv, queueVars,
         bookVars, taskVars
<1>7. ReportsInv' /\ ServersInv'
  BY <1>1, <1>2, <1>3 DEF IInv, ReportsInv, ServersInv, queueVars, taskVars
<1>8. ConnectionLimit' /\ NoLeftovers'
  BY <1>1, <1>2 DEF IInv, ConnectionLimit, NoLeftovers, LeftoverWorkers, bookVars, queueVars
<1>9. JobsRunOnTheirServer'
  BY <1>1, <1>2, <1>5 DEF JobsRunOnTheirServer, bookVars
<1>10. NoDeafWorker'
  BY <1>1, <1>5 DEF IInv, NoDeafWorker, taskVars
<1> QED
  BY <1>4, <1>6, <1>7, <1>8, <1>9, <1>10 DEF IInv, QueueInv

-----------------------------------------------------------------------------
LEMMA StutterInv ==
  ASSUME IInv, UNCHANGED vars
  PROVE  IInv'
<1>1. QueueInv'
  BY DEF IInv, TypeOK, QueueInv, QueueTypeOK, OneHome, NoStaleSpeed, queueVars, vars
<1>2. LoopEdit
  BY DEF IInv, TypeOK, ServersInv, LoopEdit, queueVars, loopVars, connVars, bookVars, taskVars,
         vars
<1> QED BY <1>1, <1>2, LoopEditInv

(* Whatever keys are pressed, however connections, reports and transfers   *)
(* interleave: every state of the worker pool satisfies IInv.              *)
THEOREM WorkerPoolInvariant == Spec => []IInv
<1>1. Init => IInv
  BY InitInv
<1>2. IInv /\ [Next]_vars => IInv'
  <2> SUFFICES ASSUME IInv, [Next]_vars PROVE IInv'
    OBVIOUS
  <2>1. CASE BatchEnds \/ Waits
    BY <2>1, BatchInv
  <2>2. ASSUME NEW t \in Task, SpawnWorker(t) PROVE IInv'
    BY <2>2, SpawnWorkerInv
  <2>3. ASSUME NEW t \in Task, WorkerStep(t) \/ EmitProgress(t) PROVE IInv'
    BY <2>3, TaskStepInv
  <2>4. ASSUME NEW t \in Task, ApplyWorkerMessage(t) PROVE IInv'
    BY <2>4, ApplyProgressInv, ApplyDoneInv, IgnoreDoneInv DEF ApplyWorkerMessage
  <2>5. ASSUME NEW ok \in BOOLEAN, ConnectDone(ok) PROVE IInv'
    BY <2>5, ConnectDoneInv
  <2>6. CASE Keys
    <3>1. CASE RequestTransfer
      BY <3>1, RequestTransferInv
    <3>2. ASSUME NEW j \in Job, DrainEnqueue(j) \/ EditDownload(j) \/ EditUpload(j) PROVE IInv'
      BY <3>2, EnqueueKeysInv
    <3>3. ASSUME NEW j \in Job, CancelHighlighted(j) PROVE IInv'
      BY <3>3, CancelHighlightedInv
    <3>4. CASE (\E j \in Job : RemoveQueueJob(j)) \/ ClearPendingTransfers
      BY <3>4, RemoveKeysInv
    <3>5. CASE CancelTransfers
      BY <3>5, CancelTransfersInv
    <3>6. CASE RetryTransfers
      BY <3>6, RetryTransfersInv
    <3>7. ASSUME NEW n \in 1..WORKER_MAX_CONCURRENCY_LIMIT, ApplySettings(n) PROVE IInv'
      BY <3>7, ApplySettingsInv
    <3>8. CASE DisconnectSession \/ \E s \in Server : Connect(s)
      BY <3>8, ConnectInv
    <3> QED
      BY <2>6, <3>1, <3>2, <3>3, <3>4, <3>5, <3>6, <3>7, <3>8 DEF Keys
  <2>7. CASE UNCHANGED vars
    BY <2>7, StutterInv
  <2> QED
    BY <2>1, <2>2, <2>3, <2>4, <2>5, <2>6, <2>7 DEF Next
<1> QED BY <1>1, <1>2, PTL DEF Spec

(* Every variable keeps its type. *)
THEOREM WorkerPoolTypeCorrect == Spec => []TypeOK
<1>1. IInv => TypeOK
  BY DEF IInv
<1> QED BY <1>1, WorkerPoolInvariant, PTL

(* No two worker tasks, of one generation or of several, carry the same    *)
(* job, and the active list is what the current tasks carry.               *)
THEOREM WorkersOwnTheirJobs == Spec => []OneWorkerPerJob
<1>1. IInv => OneWorkerPerJob
  BY DEF IInv
<1> QED BY <1>1, WorkerPoolInvariant, PTL

(* The worker counter never drifts, and with the idle sessions of the pool *)
(* stays within the largest worker limit.                                  *)
THEOREM WorkersAreCounted == Spec => [](CountIsWorkers /\ ConnectionLimit)
<1>1. IInv => CountIsWorkers /\ ConnectionLimit
  BY DEF IInv
<1> QED BY <1>1, WorkerPoolInvariant, PTL

(* The event loop's books of cancel flags name exactly the current tasks,  *)
(* and a task it stopped listening to, or that a standing Ctrl+C covers,   *)
(* has its flag raised.                                                    *)
THEOREM CancelReachesWorkers == Spec => [](FlagsReachWorkers /\ NoDeafWorker)
<1>1. IInv => FlagsReachWorkers /\ NoDeafWorker
  BY DEF IInv
<1> QED BY <1>1, WorkerPoolInvariant, PTL

(* A job runs on the server it was queued for, in its own session or in a  *)
(* pooled one, and nothing runs without a connection.                      *)
THEOREM JobsStayOnTheirServer == Spec => [](JobsRunOnTheirServer /\ NoLeftovers)
<1>1. IInv => JobsRunOnTheirServer /\ NoLeftovers
  BY DEF IInv
<1> QED BY <1>1, WorkerPoolInvariant, PTL

-----------------------------------------------------------------------------
(* The refinement of JobLifecycle.  Under the invariant a job's status is  *)
(* read off the one list it is in, and every active job runs on the server *)
(* in use.                                                                 *)

LEMMA StatusValues ==
  ASSUME QueueInv, NEW j
  PROVE  /\ Status(j) = "pending" <=> j \in ToSet(pending)
         /\ Status(j) = "active" <=> j \in active
         /\ Status(j) = "failed" <=> j \in ToSet(failed)
         /\ Status(j) = "new" <=> j \notin issued
         /\ j \in completed => Status(j) = "completed"
         /\ j \in cancelled => Status(j) = "cancelled"
BY DEF Status, QueueInv, OneHome

LEMMA StatusValuesAfter ==
  ASSUME QueueInv', NEW j
  PROVE  /\ Status(j)' = "pending" <=> j \in ToSet(pending')
         /\ Status(j)' = "active" <=> j \in active'
         /\ Status(j)' = "failed" <=> j \in ToSet(failed')
         /\ Status(j)' = "new" <=> j \notin issued'
         /\ j \in completed' => Status(j)' = "completed"
         /\ j \in cancelled' => Status(j)' = "cancelled"
         /\ /\ j \in issued'
            /\ j \notin ToSet(pending') \cup ToSet(failed') \cup active' \cup completed'
                          \cup cancelled'
            => Status(j)' = "removed"
BY DEF Status, QueueInv, OneHome

(* The jobs outside S stay in the lists they are in. *)
OnlyMoves(S) ==
  \A j \in Job \ S :
    /\ j \in ToSet(pending') <=> j \in ToSet(pending)
    /\ j \in ToSet(failed') <=> j \in ToSet(failed)
    /\ j \in active' <=> j \in active
    /\ j \in completed' <=> j \in completed
    /\ j \in cancelled' <=> j \in cancelled
    /\ j \in issued' <=> j \in issued

(* The queue moves the jobs of S, and their status is s. *)
Moves(S, s) == OnlyMoves(S) /\ \A j \in S : Status(j)' = s

LEMMA StatusKept ==
  ASSUME NEW S, OnlyMoves(S), NEW j \in Job \ S
  PROVE  Status(j)' = Status(j)
BY DEF Status, OnlyMoves

LEMMA QueueMoves ==
  ASSUME QueueInv, QueueInv', NEW j \in Job, Enqueue(j) \/ InsertFront(j)
  PROVE  Moves({j}, "pending") /\ Status(j) = "new" /\ active' = active
<1>1. ToSet(pending') = ToSet(pending) \cup {j}
  BY EnqueueInv, InsertFrontInv
<1>2. /\ issued' = issued \cup {j} /\ j \notin issued
      /\ UNCHANGED <<active, completed, cancelled, failed>>
  BY DEF Enqueue, InsertFront, Fresh
<1> QED
  BY <1>1, <1>2, StatusValues, StatusValuesAfter DEF Moves, OnlyMoves

LEMMA StartMoves ==
  ASSUME QueueInv, QueueInv', StartNext
  PROVE  /\ Moves({Head(pending)}, "active")
         /\ Status(Head(pending)) = "pending" /\ active' = active \cup {Head(pending)}
<1>1. /\ ToSet(pending) = ToSet(pending') \cup {Head(pending)}
      /\ Head(pending) \notin ToSet(pending')
  BY StartNextInv
<1>2. /\ active' = active \cup {Head(pending)}
      /\ UNCHANGED <<issued, completed, cancelled, failed>>
  BY DEF StartNext
<1> QED
  BY <1>1, <1>2, StatusValues, StatusValuesAfter DEF Moves, OnlyMoves

LEMMA MarkMoves ==
  ASSUME QueueInv, QueueInv', NEW j \in active,
         MarkCompleted(j) \/ MarkFailed(j) \/ MarkCancelled(j)
  PROVE  /\ \E s \in {"completed", "failed", "cancelled"} : Moves({j}, s)
         /\ Status(j) = "active" /\ active' = active \ {j}
<1> USE StatusValues, StatusValuesAfter DEF Moves, OnlyMoves
<1>1. CASE MarkCompleted(j)
  <2>1. Moves({j}, "completed")
    BY <1>1 DEF MarkCompleted
  <2> QED BY <1>1, <2>1 DEF MarkCompleted
<1>2. CASE MarkFailed(j)
  <2>1. ToSet(failed') = ToSet(failed) \cup {j}
    BY <1>2, AppendElements DEF MarkFailed, QueueInv, QueueTypeOK
  <2>2. Moves({j}, "failed")
    BY <1>2, <2>1 DEF MarkFailed
  <2> QED BY <1>2, <2>2 DEF MarkFailed
<1>3. CASE MarkCancelled(j)
  <2>1. Moves({j}, "cancelled")
    BY <1>3 DEF MarkCancelled
  <2> QED BY <1>3, <2>1 DEF MarkCancelled
<1> QED BY <1>1, <1>2, <1>3

LEMMA RetryAtMoves ==
  ASSUME QueueInv, QueueInv', NEW i \in 1..Len(failed), RetryAt(i)
  PROVE  Moves({failed[i]}, "pending") /\ Status(failed[i]) = "failed" /\ active' = active
<1>1. ToSet(pending') = ToSet(pending) \cup {failed[i]}
  BY RetryAtInv
<1>2. /\ failed \in Seq(Job) /\ IsInjective(failed) /\ failed[i] \in ToSet(failed)
      /\ failed' = RemoveAt(failed, i)
      /\ UNCHANGED <<active, completed, cancelled, issued>>
  BY DEF QueueInv, QueueTypeOK, OneHome, RetryAt, ToSet
<1>3. ToSet(failed') = ToSet(failed) \ {failed[i]}
  BY <1>2, RemoveAtElements
<1> QED
  BY <1>1, <1>2, <1>3, StatusValues, StatusValuesAfter DEF Moves, OnlyMoves

LEMMA RetryAllMoves ==
  ASSUME QueueInv, QueueInv', RetryAllFailed
  PROVE  Moves(ToSet(failed), "pending") /\ active' = active
<1>1. ToSet(pending') = ToSet(pending) \cup ToSet(failed) /\ ToSet(failed') = {}
  BY RetryAllFailedInv, EmptyElements DEF RetryAllFailed
<1> QED
  BY <1>1, StatusValues, StatusValuesAfter DEF Moves, OnlyMoves, RetryAllFailed

LEMMA RemoveMoves ==
  ASSUME QueueInv, QueueInv', NEW j \in Job, RemovePending(j) \/ DismissFailed(j)
  PROVE  /\ Moves({j}, "removed") /\ Status(j) \in {"pending", "failed"}
         /\ active' = active
<1> USE StatusValues, StatusValuesAfter
<1>1. CASE RemovePending(j)
  <2>1. PICK i \in 1..Len(pending) : pending[i] = j /\ pending' = RemoveAt(pending, i)
    BY <1>1 DEF RemovePending
  <2>2. pending \in Seq(Job) /\ IsInjective(pending) /\ j \in ToSet(pending)
    BY <2>1 DEF QueueInv, QueueTypeOK, OneHome, ToSet
  <2>3. ToSet(pending') = ToSet(pending) \ {j}
    BY <2>1, <2>2, RemoveAtElements
  <2>4. UNCHANGED <<active, completed, cancelled, failed, issued>>
    BY <1>1 DEF RemovePending
  <2> QED BY <2>2, <2>3, <2>4 DEF Moves, OnlyMoves, QueueInv, OneHome
<1>2. CASE DismissFailed(j)
  <2>1. PICK i \in 1..Len(failed) : failed[i] = j /\ failed' = RemoveAt(failed, i)
    BY <1>2 DEF DismissFailed
  <2>2. failed \in Seq(Job) /\ IsInjective(failed) /\ j \in ToSet(failed)
    BY <2>1 DEF QueueInv, QueueTypeOK, OneHome, ToSet
  <2>3. ToSet(failed') = ToSet(failed) \ {j}
    BY <2>1, <2>2, RemoveAtElements
  <2>4. UNCHANGED <<active, completed, cancelled, pending, issued>>
    BY <1>2 DEF DismissFailed
  <2> QED BY <2>2, <2>3, <2>4 DEF Moves, OnlyMoves, QueueInv, OneHome
<1> QED BY <1>1, <1>2

LEMMA ClearMoves ==
  ASSUME QueueInv, QueueInv', ClearPending
  PROVE  Moves(ToSet(pending), "removed") /\ active' = active
<1>1. ToSet(pending') = {} /\ UNCHANGED <<active, completed, cancelled, failed, issued>>
  BY ClearPendingInv DEF ClearPending
<1> QED
  BY <1>1, StatusValues, StatusValuesAfter DEF Moves, OnlyMoves, QueueInv, OneHome

(* Where the abstract variables are read.                                  *)
Statuses == [j \in Job |-> Status(j)]
Places == [j \in Job |-> RunsOn(j)]
Place == IF connected THEN active_connection ELSE NoServer

PlacesMapped ==
  /\ Places = [j \in Job |-> IF j \in active THEN active_connection ELSE NoServer]
  /\ Place = active_connection

LEMMA PlacesValue == IInv => PlacesMapped
<1> SUFFICES ASSUME IInv
             PROVE  /\ \A j \in Job : RunsOn(j) = IF j \in active THEN active_connection
                                                                  ELSE NoServer
                    /\ Place = active_connection
  BY DEF Places, PlacesMapped
<1>1. ASSUME NEW j \in Job, j \in active PROVE task[job_cancels[j]].info = active_connection
  <2>1. job_cancels[j] \in Current
    BY <1>1 DEF IInv, FlagsReachWorkers
  <2> QED BY <2>1 DEF IInv, JobsRunOnTheirServer
<1>2. Place = active_connection
  BY DEF IInv, ServersInv, TypeOK, Place
<1> QED BY <1>1, <1>2 DEF RunsOn

LEMMA PlacesValueAfter == IInv' => PlacesMapped'
BY PlacesValue, PTL

(* A step that leaves every job in its list.                               *)
LEMMA Unmoved ==
  ASSUME IInv, IInv', OnlyMoves({}), active' = active,
         active = {} \/ active_connection' = active_connection
  PROVE  Statuses' = Statuses /\ Places' = Places
<1>1. \A j \in Job : Status(j)' = Status(j)
  BY StatusKept
<1> QED BY <1>1, PlacesValue, PlacesValueAfter DEF Statuses, PlacesMapped

LEMMA BecomesMapped ==
  ASSUME IInv, IInv', NEW S \in SUBSET Job, NEW s, Moves(S, s), active' = active \ S,
         active_connection' = active_connection
  PROVE  Lifecycle!Becomes(S, s) /\ Place' = Place
<1>1. Statuses' = [j \in Job |-> IF j \in S THEN s ELSE Statuses[j]]
  <2>1. \A j \in Job : Status(j)' = IF j \in S THEN s ELSE Status(j)
    BY StatusKept DEF Moves
  <2> QED BY <2>1 DEF Statuses
<1>2. Places' = [j \in Job |-> IF j \in S THEN NoServer ELSE Places[j]]
  BY PlacesValue, PlacesValueAfter DEF PlacesMapped
<1>3. Place' = Place
  BY PlacesValue, PlacesValueAfter DEF PlacesMapped
<1> QED BY <1>1, <1>2, <1>3 DEF Lifecycle!Becomes, Statuses, Places, Place

LEMMA QueueOf == IInv => QueueInv
BY DEF IInv, QueueInv, TypeOK

LEMMA QueueOfAfter == IInv' => QueueInv'
BY QueueOf, PTL

LEMMA QueueStep ==
  ASSUME IInv, IInv', NEW j \in Job, Enqueue(j) \/ InsertFront(j),
         connected, UNCHANGED connVars
  PROVE  Lifecycle!Queue(j)
<1>1. Moves({j}, "pending") /\ Status(j) = "new" /\ active' = active
  BY QueueMoves, QueueOf, QueueOfAfter
<1>2. j \notin active
  BY QueueOf DEF QueueInv, OneHome, Enqueue, InsertFront, Fresh
<1>3. Lifecycle!Becomes({j}, "pending") /\ Place' = Place
  BY <1>1, <1>2, BecomesMapped DEF connVars
<1>4. Place # NoServer
  BY DEF IInv, ServersInv, TypeOK, Place
<1> QED BY <1>1, <1>3, <1>4 DEF Lifecycle!Queue, Lifecycle!Jobs, Place

(* The books map the active jobs to current tasks, each to one of its own. *)
LEMMA ActiveAreCounted ==
  ASSUME IInv
  PROVE  /\ Lifecycle!Jobs("active") = active
         /\ Cardinality(active) \in Nat /\ Cardinality(active) <= worker_active_count
<1>1. active \subseteq Job /\ \A j \in Job : Status(j) = "active" <=> j \in active
  BY QueueOf, StatusValues DEF QueueInv, QueueTypeOK
<1>2. Lifecycle!Jobs("active") = active
  BY <1>1 DEF Lifecycle!Jobs
<1> DEFINE f == [j \in active |-> job_cancels[j]]
<1>3. \A j \in active : job_cancels[j] \in Current /\ task[job_cancels[j]].job = j
  BY <1>1 DEF IInv, FlagsReachWorkers
<1>4. f \in Injection(active, Current)
  BY <1>3 DEF Injection, IsInjective
<1>5. Cardinality(active) \in Nat /\ Cardinality(active) <= Cardinality(Current)
  BY <1>4, FiniteCurrent, FS_Injection, FS_CardinalityType
<1> QED BY <1>2, <1>5, FiniteCurrent

LEMMA StartStep ==
  ASSUME IInv, IInv', NEW t \in Task, SpawnWorker(t)
  PROVE  Lifecycle!Start(Head(pending)) /\ Head(pending) \in Job
<1> DEFINE j == Head(pending)
<1>1. /\ j \in Job /\ connected /\ active_connection' = active_connection
      /\ StartNext /\ worker_active_count < worker_max_concurrency
  BY SpawnChanges DEF SpawnWorker, ShouldSpawn, connVars
<1>2. /\ Moves({j}, "active") /\ Status(j) = "pending" /\ active' = active \cup {j}
  BY <1>1, StartMoves, QueueOf, QueueOfAfter
<1> HIDE DEF j
<1>3. Statuses' = [Statuses EXCEPT ![j] = "active"]
  <2>1. \A i \in Job : Status(i)' = IF i = j THEN "active" ELSE Status(i)
    BY <1>2, StatusKept DEF Moves
  <2> QED BY <2>1 DEF Statuses
<1>4. Places' = [Places EXCEPT ![j] = Place] /\ Place' = Place
  BY <1>1, <1>2, PlacesValue, PlacesValueAfter DEF PlacesMapped
<1>5. Place # NoServer
  BY <1>1 DEF IInv, ServersInv, TypeOK, Place
<1>6. Lifecycle!Cardinality(Lifecycle!Jobs("active")) < WORKER_MAX_CONCURRENCY_LIMIT
  <2>1. /\ worker_max_concurrency \in 1..WORKER_MAX_CONCURRENCY_LIMIT
        /\ worker_active_count \in Nat
    BY DEF IInv, TypeOK
  <2>2. Lifecycle!Cardinality(active) = Cardinality(active)
    BY DEF Cardinality, Lifecycle!Cardinality
  <2> QED BY <1>1, <2>1, <2>2, ActiveAreCounted, ConstantsAssumption
<1>7. Lifecycle!Start(j)
  <2>1. j \in Lifecycle!Jobs("pending")
    BY <1>1, <1>2 DEF Lifecycle!Jobs
  <2>2. ([k \in Job |-> Status(k)])' = [[k \in Job |-> Status(k)] EXCEPT ![j] = "active"]
    BY <1>3 DEF Statuses
  <2>3. ([k \in Job |-> RunsOn(k)])' = [[k \in Job |-> RunsOn(k)] EXCEPT ![j] = Place]
    BY <1>4 DEF Places
  <2> QED
    BY <1>4, <1>5, <1>6, <2>1, <2>2, <2>3 DEF Lifecycle!Start, Place
<1> QED BY <1>1, <1>7 DEF j

LEMMA FinishStep ==
  ASSUME IInv, IInv', NEW t \in Task, ApplyDone(t)
  PROVE  task[t].job \in Job /\ Lifecycle!Finish(task[t].job)
<1> DEFINE j == task[t].job
<1>1. t \in Current /\ j \in active
  BY ApplyDoneBooks DEF IInv, OneWorkerPerJob
<1>2. /\ MarkCompleted(j) \/ MarkFailed(j) \/ MarkCancelled(j)
      /\ active_connection' = active_connection
  BY DEF ApplyDone, HandleWorkerResult, NextMessage, connVars
<1>3. j \in Job
  BY <1>1, QueueOf DEF QueueInv, QueueTypeOK
<1> HIDE DEF j
<1>4. /\ \E s \in {"completed", "failed", "cancelled"} : Moves({j}, s)
      /\ Status(j) = "active" /\ active' = active \ {j}
  BY <1>1, <1>2, MarkMoves, QueueOf, QueueOfAfter
<1>5. PICK s \in {"completed", "failed", "cancelled"} : Moves({j}, s)
  BY <1>4
<1>6. Lifecycle!Becomes({j}, s) /\ Place' = Place
  BY <1>2, <1>3, <1>4, <1>5, BecomesMapped
<1>7. Lifecycle!Finish(j)
  BY <1>3, <1>4, <1>6 DEF Lifecycle!Finish, Lifecycle!Jobs, Place
<1> QED BY <1>3, <1>7 DEF j

LEMMA RetryStep ==
  ASSUME IInv, IInv', RetryTransfers, ~UNCHANGED queueVars
  PROVE  \E S \in SUBSET Job : Lifecycle!Retry(S)
<1> USE QueueOf, QueueOfAfter
<1>1. QueueInv /\ QueueInv' /\ failed \in Seq(Job) /\ ToSet(failed) \subseteq Job
  BY DEF QueueInv, QueueTypeOK, ToSet
<1>2. active_connection' = active_connection
  BY DEF RetryTransfers, RetryKey, RestUnchanged, connVars
<1>3. ASSUME NEW S \in SUBSET Job, Moves(S, "pending"), active' = active,
             \A j \in S : Status(j) = "failed"
      PROVE  Lifecycle!Retry(S)
  <2>1. active' = active \ S
    BY <1>1, <1>3, StatusValues DEF QueueInv, OneHome
  <2>2. Lifecycle!Becomes(S, "pending") /\ Place' = Place
    BY <1>2, <1>3, <2>1, BecomesMapped
  <2> QED BY <1>3, <2>2 DEF Lifecycle!Retry, Lifecycle!Jobs, Place
<1>4. ASSUME NEW i \in 1..Len(failed), RetryAt(i)
      PROVE  Lifecycle!Retry({failed[i]})
  <2>1. failed[i] \in Job
    BY <1>1
  <2> QED BY <1>1, <1>3, <1>4, <2>1, RetryAtMoves
<1>5. ASSUME RetryAllFailed PROVE Lifecycle!Retry(ToSet(failed))
  BY <1>1, <1>3, <1>5, RetryAllMoves, StatusValues
<1>6. (\E i \in 1..Len(failed) : RetryAt(i)) \/ RetryAllFailed
  <2>1. failed # <<>> => Len(failed) \in 1..Len(failed)
    BY <1>1, EmptySeq, LenProperties
  <2> QED BY <2>1 DEF RetryTransfers, RetryKey, RetryLastFailed, RetryFailed
<1> QED
  <2>1. ASSUME NEW i \in 1..Len(failed), RetryAt(i)
        PROVE  \E S \in SUBSET Job : Lifecycle!Retry(S)
    <3>1. failed[i] \in Job
      BY <1>1
    <3>2. {failed[i]} \in SUBSET Job
      BY <3>1
    <3> QED BY <1>4, <2>1, <3>2
  <2>2. ASSUME RetryAllFailed PROVE \E S \in SUBSET Job : Lifecycle!Retry(S)
    BY <1>1, <1>5, <2>2
  <2> QED BY <1>6, <2>1, <2>2

LEMMA RemoveStep ==
  ASSUME IInv, IInv', (\E j \in Job : RemoveQueueJob(j)) \/ ClearPendingTransfers
  PROVE  \E S \in SUBSET Job : Lifecycle!Remove(S)
<1>1. QueueInv /\ QueueInv' /\ ToSet(pending) \subseteq Job
  BY QueueOf, QueueOfAfter DEF QueueInv, QueueTypeOK, ToSet
<1>2. active_connection' = active_connection
  BY DEF RemoveQueueJob, ClearPendingTransfers, RestUnchanged, connVars
<1>3. ASSUME NEW S \in SUBSET Job, Moves(S, "removed"), active' = active,
             \A j \in S : Status(j) \in {"pending", "failed"}
      PROVE  Lifecycle!Remove(S)
  <2>1. active' = active \ S
    BY <1>1, <1>3, StatusValues DEF QueueInv, OneHome
  <2>2. Lifecycle!Becomes(S, "removed") /\ Place' = Place
    BY <1>2, <1>3, <2>1, BecomesMapped
  <2> QED BY <1>3, <2>2 DEF Lifecycle!Remove, Lifecycle!Jobs, Place
<1>4. ASSUME NEW j \in Job, RemoveQueueJob(j)
      PROVE  \E S \in SUBSET Job : Lifecycle!Remove(S)
  <2>1. /\ Moves({j}, "removed") /\ Status(j) \in {"pending", "failed"} /\ active' = active
    BY <1>1, <1>4, RemoveMoves DEF RemoveQueueJob
  <2>2. {j} \in SUBSET Job
    OBVIOUS
  <2> QED BY <1>3, <2>1, <2>2
<1>5. CASE ClearPendingTransfers
  <2>1. Moves(ToSet(pending), "removed") /\ active' = active
    BY <1>1, <1>5, ClearMoves DEF ClearPendingTransfers
  <2> QED BY <1>1, <1>3, <2>1, StatusValues
<1> QED BY <1>4, <1>5

(* Leaving a server: every waiting job is removed, every active one is     *)
(* cancelled.                                                              *)
LEMMA DropStep ==
  ASSUME IInv, IInv', NEW n, DropWorkers(n), connected, active_connection' = NoServer
  PROVE  Lifecycle!GoOffline
<1>1. /\ QueueInv /\ QueueInv' /\ ToSet(pending') = {} /\ active' = {}
      /\ cancelled' = cancelled \cup active
      /\ UNCHANGED <<completed, failed, issued>>
  BY QueueOf, QueueOfAfter, DropQueueInv DEF DropWorkers
<1>2. ASSUME NEW j \in Job
      PROVE  Status(j)' = CASE Status(j) = "active" -> "cancelled"
                            [] Status(j) = "pending" -> "removed"
                            [] OTHER -> Status(j)
  <2>1. CASE j \in active
    BY <1>1, <2>1, StatusValues, StatusValuesAfter
  <2>2. CASE j \in ToSet(pending)
    <3>1. /\ j \in issued' /\ j \notin ToSet(pending') \cup ToSet(failed') \cup active'
                                         \cup completed' \cup cancelled'
      BY <1>1, <2>2 DEF QueueInv, OneHome
    <3>2. Status(j)' = "removed" /\ Status(j) = "pending"
      BY <1>1, <2>2, <3>1, StatusValues, StatusValuesAfter
    <3> QED BY <3>2
  <2>3. CASE j \notin active /\ j \notin ToSet(pending)
    <3>1. Status(j)' = Status(j)
      BY <1>1, <2>3 DEF Status
    <3>2. Status(j) # "active" /\ Status(j) # "pending"
      BY <1>1, <2>3, StatusValues
    <3> QED BY <3>1, <3>2
  <2> QED BY <2>1, <2>2, <2>3
<1>3. Places' = [j \in Job |-> NoServer] /\ Place' = NoServer
  BY <1>1, PlacesValueAfter DEF PlacesMapped
<1>4. Place # NoServer
  BY DEF IInv, ServersInv, TypeOK, Place
<1>5. Statuses' = [j \in Job |-> CASE Statuses[j] = "active" -> "cancelled"
                                   [] Statuses[j] = "pending" -> "removed"
                                   [] OTHER -> Statuses[j]]
  BY <1>2 DEF Statuses
<1> QED
  BY <1>3, <1>4, <1>5 DEF Lifecycle!GoOffline, Statuses, Places, Place

LEMMA ConnectStep ==
  ASSUME IInv, IInv', DisconnectSession \/ \E s \in Server : Connect(s)
  PROVE  \/ Lifecycle!GoOffline
         \/ Statuses' = Statuses /\ Places' = Places /\ Place' = Place
<1>1. CASE connected
  <2>1. active_connection' = NoServer /\ \E n \in {1, 2} : DropWorkers(n)
    BY <1>1 DEF DisconnectSession, Connect
  <2> QED BY <1>1, <2>1, DropStep
<1>2. CASE ~connected
  <2>1. BumpGeneration /\ active_connection' = NoServer
    BY <1>2 DEF DisconnectSession, Connect, IInv, NoLeftovers
  <2>2. OnlyMoves({}) /\ active' = active
    BY <2>1 DEF BumpGeneration, OnlyMoves, queueVars
  <2>3. active_connection = NoServer
    BY <1>2, NoCurrent
  <2>4. Place' = Place
    BY <2>1, <2>3, PlacesValue, PlacesValueAfter DEF PlacesMapped
  <2> QED BY <2>1, <2>2, <2>3, <2>4, Unmoved
<1> QED BY <1>1, <1>2

LEMMA ConnectDoneStep ==
  ASSUME IInv, IInv', NEW ok \in BOOLEAN, ConnectDone(ok)
  PROVE  \/ Lifecycle!GoOnline
         \/ Statuses' = Statuses /\ Places' = Places /\ Place' = Place
<1>1. /\ ~connected /\ in_flight \in Server
      /\ active_connection' = IF ok THEN in_flight ELSE active_connection
      /\ UNCHANGED queueVars
  BY DEF ConnectDone, IInv, ServersInv, TypeOK, Optional
<1>2. active = {} /\ active_connection = NoServer
  BY <1>1, NoCurrent
<1>3. OnlyMoves({}) /\ active' = active
  BY <1>1 DEF OnlyMoves, queueVars
<1>4. Statuses' = Statuses /\ Places' = Places
  BY <1>2, <1>3, Unmoved
<1>5. Place = NoServer /\ Place' = IF ok THEN in_flight ELSE NoServer
  BY <1>1, <1>2, PlacesValue, PlacesValueAfter DEF PlacesMapped
<1>6. CASE ok
  BY <1>1, <1>4, <1>5, <1>6 DEF Lifecycle!GoOnline, Statuses, Places, Place
<1>7. CASE ~ok
  BY <1>4, <1>5, <1>7
<1> QED BY <1>6, <1>7

(* Every step that moves no job and leaves no server stutters.             *)
LEMMA LifecycleStutter ==
  ASSUME IInv, IInv', OnlyMoves({}), active' = active, UNCHANGED active_connection
  PROVE  Statuses' = Statuses /\ Places' = Places /\ Place' = Place
BY Unmoved, PlacesValue, PlacesValueAfter DEF PlacesMapped

LifecycleMove ==
  \/ Lifecycle!Next
  \/ Statuses' = Statuses /\ Places' = Places /\ Place' = Place

LEMMA LifecycleStep ==
  IInv /\ IInv' /\ [Next]_vars => [Lifecycle!Next]_(Lifecycle!vars)
<1> SUFFICES ASSUME IInv, IInv', [Next]_vars
             PROVE  LifecycleMove
  BY DEF LifecycleMove, Lifecycle!vars, Statuses, Places, Place
<1>1. ASSUME UNCHANGED <<queueVars, active_connection>> PROVE LifecycleMove
  <2>1. OnlyMoves({}) /\ active' = active /\ UNCHANGED active_connection
    BY <1>1 DEF OnlyMoves, queueVars
  <2> QED BY <2>1, LifecycleStutter DEF LifecycleMove
<1>2. ASSUME NEW j \in Job, Enqueue(j) \/ InsertFront(j), connected, UNCHANGED connVars
      PROVE  LifecycleMove
  BY <1>2, QueueStep DEF Lifecycle!Next, LifecycleMove
<1>3. CASE BatchEnds \/ Waits \/ UNCHANGED vars
  BY <1>1, <1>3 DEF BatchEnds, Waits, vars, connVars
<1>4. ASSUME NEW t \in Task, SpawnWorker(t) PROVE LifecycleMove
  BY <1>4, StartStep DEF Lifecycle!Next, LifecycleMove
<1>5. ASSUME NEW t \in Task, WorkerStep(t) \/ EmitProgress(t) PROVE LifecycleMove
  BY <1>1, <1>5, WorkerStepChanges DEF TaskStep, TaskUnchanged, connVars, IInv
<1>6. ASSUME NEW t \in Task, ApplyProgress(t) PROVE LifecycleMove
  <2>1. OnlyMoves({}) /\ active' = active /\ UNCHANGED active_connection
    BY <1>6
       DEF ApplyProgress, UpdateActiveProgress, NextMessage, OnlyMoves, queueVars, connVars
  <2> QED BY <2>1, LifecycleStutter DEF LifecycleMove
<1>7. ASSUME NEW t \in Task, ApplyDone(t) PROVE LifecycleMove
  BY <1>7, FinishStep DEF Lifecycle!Next, LifecycleMove
<1>8. ASSUME NEW t \in Task, IgnoreDone(t) PROVE LifecycleMove
  BY <1>1, <1>8 DEF IgnoreDone, NextMessage, connVars
<1>9. ASSUME NEW ok \in BOOLEAN, ConnectDone(ok) PROVE LifecycleMove
  BY <1>9, ConnectDoneStep DEF Lifecycle!Next, LifecycleMove
<1>10. CASE RequestTransfer
  <2>1. connected /\ UNCHANGED connVars
    BY <1>10 DEF RequestTransfer, RestUnchanged
  <2>2. UNCHANGED queueVars \/ \E j \in Job : Enqueue(j)
    BY <1>10 DEF RequestTransfer
  <2> QED BY <1>1, <1>2, <2>1, <2>2 DEF connVars
<1>11. ASSUME NEW j \in Job, DrainEnqueue(j) \/ EditDownload(j) \/ EditUpload(j) PROVE LifecycleMove
  BY <1>2, <1>11 DEF DrainEnqueue, EditDownload, EditUpload, RestUnchanged
<1>12. CASE CancelTransfers
  <2>1. UNCHANGED connVars
    BY <1>12 DEF CancelTransfers
  <2>2. UNCHANGED queueVars \/ (connected /\ \E j \in Job : Enqueue(j))
    BY <1>12 DEF CancelTransfers
  <2> QED BY <1>1, <1>2, <2>1, <2>2 DEF connVars
<1>13. ASSUME NEW j \in Job, CancelHighlighted(j) PROVE LifecycleMove
  BY <1>1, <1>13 DEF CancelHighlighted, connVars
<1>14. CASE (\E j \in Job : RemoveQueueJob(j)) \/ ClearPendingTransfers
  BY <1>14, RemoveStep DEF Lifecycle!Next, LifecycleMove
<1>15. CASE RetryTransfers
  <2>1. active_connection' = active_connection
    BY <1>15 DEF RetryTransfers, RetryKey, RestUnchanged, connVars
  <2>2. CASE UNCHANGED queueVars
    BY <1>1, <2>1, <2>2
  <2>3. CASE ~UNCHANGED queueVars
    <3>1. PICK S \in SUBSET Job : Lifecycle!Retry(S)
      BY <1>15, <2>3, RetryStep
    <3> QED BY <3>1 DEF Lifecycle!Next, LifecycleMove
  <2> QED BY <2>2, <2>3
<1>16. ASSUME NEW n \in 1..WORKER_MAX_CONCURRENCY_LIMIT, ApplySettings(n) PROVE LifecycleMove
  BY <1>1, <1>16 DEF ApplySettings, RestUnchanged, connVars
<1>17. CASE DisconnectSession \/ \E s \in Server : Connect(s)
  BY <1>17, ConnectStep DEF Lifecycle!Next, LifecycleMove
<1>18. CASE Keys
  BY <1>10, <1>11, <1>12, <1>13, <1>14, <1>15, <1>16, <1>17, <1>18 DEF Keys
<1>19. ASSUME NEW t \in Task, ApplyWorkerMessage(t) PROVE LifecycleMove
  BY <1>6, <1>7, <1>8, <1>19 DEF ApplyWorkerMessage
<1> QED
  BY <1>3, <1>4, <1>5, <1>9, <1>18, <1>19 DEF Next

LEMMA LifecycleInit == Init => Lifecycle!Init
<1> SUFFICES ASSUME Init PROVE Lifecycle!Init
  OBVIOUS
<1>1. IInv /\ QueueInv
  BY InitInv, QueueOf
<1>2. \A j \in Job : Status(j) = "new"
  BY <1>1, StatusValues DEF Init, QueueInit
<1>3. Places = [j \in Job |-> NoServer] /\ Place = NoServer
  BY <1>1, PlacesValue DEF PlacesMapped, Init, QueueInit
<1> QED BY <1>2, <1>3 DEF Lifecycle!Init, Places, Place

(* Queues, workers, pool and generations together implement the life of a  *)
(* job: whatever the order of keys, reports and reconnects, and however    *)
(* many jobs, tasks and servers there are, a job changes status only as    *)
(* JobLifecycle says.                                                      *)
THEOREM LifecycleImplemented == Spec => ImplementsLifecycle
<1>1. IInv /\ IInv' /\ [Next]_vars => [Lifecycle!Next]_(Lifecycle!vars)
  BY LifecycleStep
<1> QED
  BY <1>1, LifecycleInit, WorkerPoolInvariant, PTL
     DEF Spec, ImplementsLifecycle, Lifecycle!Spec

-----------------------------------------------------------------------------
(* A worker that was told to stop.  Once it has reported, what it read of  *)
(* its flag stands in the report.                                          *)
Told(t) == IF pc[t] = "sent" THEN task[t].was_cancelled ELSE cancel[t]

WillCancel(t, j) == j \in cancelled \/ (t \in Live /\ task[t].job = j /\ Told(t))

(* Nothing but the reading of its report ends a task, and no step lowers   *)
(* its flag before.                                                        *)
StillTold(t) == t \in Live' /\ task'[t].job = task[t].job /\ (Told(t) => Told(t)')

LEMMA FlagsStay ==
  ASSUME UNCHANGED <<pc, task>>, NEW t \in Live, cancel[t] => cancel'[t]
  PROVE  StillTold(t)
BY DEF StillTold, Told, Live

(* A cancelled job stays cancelled.                                        *)
LEMMA CancelledStays ==
  ASSUME IInv, [Next]_vars
  PROVE  cancelled \subseteq cancelled'
<1>1. ASSUME UNCHANGED queueVars PROVE cancelled' = cancelled
  BY <1>1 DEF queueVars
<1>2. ASSUME NEW j \in Job, Enqueue(j) \/ InsertFront(j) PROVE cancelled' = cancelled
  BY <1>2 DEF Enqueue, InsertFront
<1>3. CASE BatchEnds \/ Waits \/ UNCHANGED vars
  BY <1>1, <1>3 DEF BatchEnds, Waits, vars
<1>4. ASSUME NEW t \in Task, SpawnWorker(t) PROVE cancelled' = cancelled
  BY <1>4 DEF SpawnWorker, StartNext
<1>5. ASSUME NEW t \in Task, WorkerStep(t) \/ EmitProgress(t) PROVE cancelled' = cancelled
  BY <1>1, <1>5, WorkerStepChanges DEF TaskStep, TaskUnchanged, IInv
<1>6. ASSUME NEW t \in Task, ApplyWorkerMessage(t) PROVE cancelled \subseteq cancelled'
  BY <1>1, <1>6
     DEF ApplyWorkerMessage, ApplyProgress, UpdateActiveProgress, IgnoreDone, ApplyDone,
         HandleWorkerResult, MarkCancelled, MarkCompleted, MarkFailed
<1>7. ASSUME NEW ok \in BOOLEAN, ConnectDone(ok) PROVE cancelled' = cancelled
  BY <1>1, <1>7 DEF ConnectDone
<1>8. CASE RequestTransfer \/ CancelTransfers
  BY <1>1, <1>2, <1>8 DEF RequestTransfer, CancelTransfers
<1>9. ASSUME NEW j \in Job,
             \/ DrainEnqueue(j) \/ EditDownload(j) \/ EditUpload(j)
             \/ CancelHighlighted(j) \/ RemoveQueueJob(j)
      PROVE  cancelled' = cancelled
  BY <1>1, <1>2, <1>9
     DEF DrainEnqueue, EditDownload, EditUpload, CancelHighlighted, RemoveQueueJob,
         RemovePending, DismissFailed
<1>10. CASE ClearPendingTransfers
  BY <1>10 DEF ClearPendingTransfers, ClearPending
<1>11. CASE RetryTransfers
  BY <1>1, <1>11
     DEF RetryTransfers, RetryKey, RetryLastFailed, RetryFailed, RetryAt, RetryAllFailed
<1>12. ASSUME NEW n \in 1..WORKER_MAX_CONCURRENCY_LIMIT, ApplySettings(n)
       PROVE  cancelled' = cancelled
  BY <1>1, <1>12 DEF ApplySettings
<1>13. CASE DisconnectSession \/ \E s \in Server : Connect(s)
  BY <1>1, <1>13 DEF DisconnectSession, Connect, DropWorkers, BumpGeneration
<1>14. CASE Keys
  BY <1>8, <1>9, <1>10, <1>11, <1>12, <1>13, <1>14 DEF Keys
<1> QED
  BY <1>3, <1>4, <1>5, <1>6, <1>7, <1>14 DEF Next

LEMMA TaskStepTold ==
  ASSUME IInv, NEW u \in Task, WorkerStep(u) \/ EmitProgress(u), NEW t \in Live
  PROVE  StillTold(t)
<1>1. /\ TaskStep(u) /\ Live' = Live /\ t \in Task /\ u \in Task
      /\ pc \in [Task -> PCs] /\ task \in [Task -> Tasks]
  BY WorkerStepChanges, TaskStepSameTasks, SameTasksSets DEF IInv, TypeOK, Live
<1>2. task'[t].job = task[t].job
  BY <1>1 DEF TaskStep, SameWork
<1>3. Told(t) => Told(t)'
  <2>1. CASE t # u
    <3>1. pc'[t] = pc[t] /\ cancel' = cancel
      BY <1>1, <2>1 DEF TaskStep
    <3>2. task'[t] = task[t]
      BY <1>1, <2>1
         DEF WorkerStep, WorkerConnects, TransferEnds, LastBlock, TransferFailed, Settle,
             Report, EmitProgress
    <3> QED BY <3>1, <3>2 DEF Told
  <2>2. CASE t = u /\ Report(u)
    BY <1>1, <2>2 DEF Report, Told, Tasks
  <2>3. CASE t = u /\ ~Report(u)
    <3>1. pc[t] # "sent" /\ cancel' = cancel
      BY <1>1, <2>3 DEF TaskStep
    <3>2. pc'[t] # "sent"
      BY <1>1, <2>3
         DEF WorkerStep, WorkerConnects, TransferEnds, LastBlock, TransferFailed, Settle,
             EmitProgress
    <3> QED BY <3>1, <3>2 DEF Told
  <2> QED BY <2>1, <2>2, <2>3
<1> QED BY <1>1, <1>2, <1>3 DEF StillTold

LEMMA ReadTold ==
  ASSUME IInv, NEW u \in Task, ApplyWorkerMessage(u), NEW t \in Live
  PROVE  StillTold(t) \/ (Told(t) => task[t].job \in cancelled')
<1>1. CASE ApplyProgress(u)
  BY <1>1, FlagsStay DEF ApplyProgress
<1>2. ASSUME FreeSlot(u), t # u PROVE StillTold(t)
  <2>1. /\ pc'[t] = pc[t] /\ task'[t] = task[t] /\ cancel'[t] = cancel[t]
        /\ t \in Task
    BY <1>2 DEF FreeSlot, IInv, TypeOK, Live
  <2> QED BY <2>1 DEF StillTold, Told, Live
<1>3. CASE ApplyDone(u)
  <2>2. CASE t = u
    <3>1. pc[t] = "sent"
      BY <1>3, <2>2, EndTask DEF ApplyDone, Working
    <3>2. Told(t) => MarkCancelled(task[t].job)
      BY <1>3, <2>2, <3>1 DEF ApplyDone, HandleWorkerResult, Told
    <3> QED BY <3>2 DEF MarkCancelled
  <2> QED BY <1>2, <1>3, <2>2 DEF ApplyDone
<1>4. CASE IgnoreDone(u)
  <2>1. cancelled' = cancelled
    BY <1>4 DEF IgnoreDone, queueVars
  <2>2. CASE t = u
    <3>1. t \notin Current
      BY <1>4, <2>2 DEF IgnoreDone, AcceptWorkerMsg, Current
    <3> QED BY <2>1, <3>1 DEF IInv, OrphansInv
  <2> QED BY <1>2, <1>4, <2>1, <2>2 DEF IgnoreDone
<1> QED BY <1>1, <1>3, <1>4 DEF ApplyWorkerMessage

LEMMA SpawnTold ==
  ASSUME IInv, NEW u \in Task, SpawnWorker(u), NEW t \in Live
  PROVE  StillTold(t)
<1>1. t # u /\ t \in Task
  BY DEF SpawnWorker, Live
<1>2. pc'[t] = pc[t] /\ task'[t] = task[t]
  BY <1>1, SpawnChanges
<1>3. cancel'[t] = cancel[t]
  BY <1>1 DEF SpawnWorker, IInv, TypeOK
<1> QED BY <1>1, <1>2, <1>3 DEF StillTold, Told, Live

LEMMA KeysTold ==
  ASSUME IInv, Keys, NEW t \in Live
  PROVE  StillTold(t)
<1>1. t \in Task /\ cancel \in [Task -> BOOLEAN]
  BY DEF Live, IInv, TypeOK
<1>2. ASSUME RestUnchanged PROVE StillTold(t)
  BY <1>2, FlagsStay DEF RestUnchanged, taskVars
<1>3. CASE RequestTransfer \/ ClearPendingTransfers \/ RetryTransfers
  BY <1>2, <1>3 DEF RequestTransfer, ClearPendingTransfers, RetryTransfers, RetryKey
<1>4. ASSUME NEW j \in Job,
             DrainEnqueue(j) \/ EditDownload(j) \/ EditUpload(j) \/ RemoveQueueJob(j)
      PROVE  StillTold(t)
  BY <1>2, <1>4 DEF DrainEnqueue, EditDownload, EditUpload, RemoveQueueJob
<1>5. ASSUME NEW j \in Job, CancelHighlighted(j) PROVE StillTold(t)
  <2>1. cancel[t] => cancel'[t]
    BY <1>1, <1>5 DEF CancelHighlighted
  <2> QED BY <1>5, <2>1, FlagsStay DEF CancelHighlighted
<1>6. CASE CancelTransfers
  <2>1. cancel[t] => cancel'[t]
    BY <1>1, <1>6 DEF CancelTransfers
  <2> QED BY <1>6, <2>1, FlagsStay DEF CancelTransfers
<1>7. ASSUME NEW n \in 1..WORKER_MAX_CONCURRENCY_LIMIT, ApplySettings(n) PROVE StillTold(t)
  BY <1>2, <1>7 DEF ApplySettings
<1>8. CASE DisconnectSession \/ \E s \in Server : Connect(s)
  <2>1. UNCHANGED <<pc, task>>
    BY <1>8 DEF DisconnectSession, Connect
  <2>2. cancel[t] => cancel'[t]
    BY <1>1, <1>8 DEF DisconnectSession, Connect, DropWorkers, BumpGeneration
  <2> QED BY <2>1, <2>2, FlagsStay
<1> QED
  BY <1>3, <1>4, <1>5, <1>6, <1>7, <1>8 DEF Keys

LEMMA CancelSticks ==
  ASSUME NEW t \in Task, NEW j \in Job
  PROVE  IInv /\ WillCancel(t, j) /\ [Next]_vars => WillCancel(t, j)'
<1> SUFFICES ASSUME IInv, WillCancel(t, j), [Next]_vars PROVE WillCancel(t, j)'
  OBVIOUS
<1>1. CASE j \in cancelled
  BY <1>1, CancelledStays DEF WillCancel
<1>2. CASE t \in Live /\ task[t].job = j /\ Told(t)
  <2>1. StillTold(t) \/ j \in cancelled'
    <3>1. CASE UNCHANGED <<pc, task, cancel>>
      BY <1>2, <3>1, FlagsStay
    <3>2. ASSUME NEW u \in Task, WorkerStep(u) \/ EmitProgress(u) PROVE StillTold(t)
      BY <1>2, <3>2, TaskStepTold
    <3>3. ASSUME NEW u \in Task, ApplyWorkerMessage(u)
          PROVE  StillTold(t) \/ j \in cancelled'
      BY <1>2, <3>3, ReadTold
    <3>4. ASSUME NEW u \in Task, SpawnWorker(u) PROVE StillTold(t)
      BY <1>2, <3>4, SpawnTold
    <3>5. CASE Keys
      BY <1>2, <3>5, KeysTold
    <3>6. CASE BatchEnds \/ Waits \/ (\E ok \in BOOLEAN : ConnectDone(ok)) \/ UNCHANGED vars
      BY <3>1, <3>6 DEF BatchEnds, Waits, ConnectDone, vars, taskVars
    <3> QED
      BY <3>2, <3>3, <3>4, <3>5, <3>6 DEF Next
  <2> QED BY <1>2, <2>1 DEF StillTold, WillCancel
<1> QED BY <1>1, <1>2 DEF WillCancel

(* A worker told to stop before it reports never has its job counted as    *)
(* completed, neither by its own report nor later, whatever is pressed or  *)
(* reconnected in between.                                                 *)
THEOREM CancellingIsFinal == Spec => CancelIsFinal
<1>1. ASSUME NEW t \in Task, NEW j \in Job
      PROVE  Spec => [](t \in Working /\ cancel[t] /\ task[t].job = j
                          => [](j \notin completed))
  <2>1. t \in Working /\ cancel[t] /\ task[t].job = j => WillCancel(t, j)
    BY DEF WillCancel, Told, Working
  <2>2. IInv /\ WillCancel(t, j) => j \notin completed
    <3> SUFFICES ASSUME IInv, WillCancel(t, j) PROVE j \notin completed
      OBVIOUS
    <3>1. CASE j \in cancelled
      BY <3>1 DEF IInv, OneHome
    <3>2. CASE t \in Live /\ task[t].job = j /\ j \notin cancelled
      <4>1. j \in active
        BY <3>2 DEF IInv, OrphansInv, OneWorkerPerJob
      <4> QED BY <4>1 DEF IInv, OneHome
    <3> QED BY <3>1, <3>2 DEF WillCancel
  <2>3. IInv /\ WillCancel(t, j) /\ [Next]_vars => WillCancel(t, j)'
    BY CancelSticks
  <2> QED BY <2>1, <2>2, <2>3, WorkerPoolInvariant, PTL DEF Spec
<1> QED BY <1>1 DEF CancelIsFinal
=============================================================================
