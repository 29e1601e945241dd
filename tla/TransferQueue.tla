--------------------------- MODULE TransferQueue ---------------------------
(***************************************************************************)
(* The transfer queue of dd_ftp_transfer/src/queue.rs: five lists of jobs  *)
(* and two maps that hold the last progress sample and the last speed of   *)
(* the running jobs.                                                       *)
(*                                                                         *)
(* A job is named by its Uuid, which the constructor draws fresh; the      *)
(* variable issued records the names drawn so far.  pending is consumed in *)
(* order and failed is retried from its end, so both are sequences.  The   *)
(* order of active, completed and cancelled is seen by nobody but the      *)
(* painter, so they are sets.                                              *)
(***************************************************************************)
EXTENDS Naturals, Sequences, SequencesExt

CONSTANT Job            \* the transfer jobs, by Uuid

VARIABLES
  pending,              \* waiting to start, oldest first
  active,               \* handed to a worker
  completed, cancelled, \* finished for good
  failed,               \* may be retried, oldest failure first
  last_progress,        \* keys of the map of last progress samples
  last_speed,           \* keys of the map of computed speeds
  issued                \* job names already drawn

queueVars == <<pending, active, completed, cancelled, failed,
               last_progress, last_speed, issued>>

-----------------------------------------------------------------------------
QueueInit ==
  /\ pending = <<>>
  /\ active = {}
  /\ completed = {}
  /\ cancelled = {}
  /\ failed = <<>>
  /\ last_progress = {}
  /\ last_speed = {}
  /\ issued = {}

Samples == <<last_progress, last_speed>>

Fresh(j) == j \in Job \ issued

(* A new job goes to the back of the queue. *)
Enqueue(j) ==
  /\ Fresh(j)
  /\ issued' = issued \cup {j}
  /\ pending' = Append(pending, j)
  /\ UNCHANGED <<active, completed, cancelled, failed, Samples>>

(* The two jobs of a remote edit, its download and its upload, are put at  *)
(* the front.                                                              *)
InsertFront(j) ==
  /\ Fresh(j)
  /\ issued' = issued \cup {j}
  /\ pending' = <<j>> \o pending
  /\ UNCHANGED <<active, completed, cancelled, failed, Samples>>

(* Mutant: the job handed out stays in the queue.                          *)
StartNextPeeks ==
  /\ pending # <<>>
  /\ active' = active \cup {Head(pending)}
  /\ UNCHANGED <<pending, completed, cancelled, failed, Samples, issued>>

StartNext ==
  /\ pending # <<>>
  /\ pending' = Tail(pending)
  /\ active' = active \cup {Head(pending)}
  /\ UNCHANGED <<completed, cancelled, failed, Samples, issued>>

ClearProgress(S) ==
  /\ last_progress' = last_progress \ S
  /\ last_speed' = last_speed \ S

MarkCompleted(j) ==
  /\ active' = active \ {j}
  /\ completed' = completed \cup {j}
  /\ ClearProgress({j})
  /\ UNCHANGED <<pending, cancelled, failed, issued>>

MarkFailed(j) ==
  /\ active' = active \ {j}
  /\ failed' = Append(failed, j)
  /\ ClearProgress({j})
  /\ UNCHANGED <<pending, completed, cancelled, issued>>

MarkCancelled(j) ==
  /\ active' = active \ {j}
  /\ cancelled' = cancelled \cup {j}
  /\ ClearProgress({j})
  /\ UNCHANGED <<pending, completed, failed, issued>>

(* Retrying keeps the job's name: the failed job itself waits again. *)
RetryAt(i) ==
  /\ pending' = Append(pending, failed[i])
  /\ failed' = RemoveAt(failed, i)
  /\ UNCHANGED <<active, completed, cancelled, Samples, issued>>

RetryLastFailed ==
  /\ failed # <<>>
  /\ RetryAt(Len(failed))

RetryFailed(j) == \E i \in 1..Len(failed) : failed[i] = j /\ RetryAt(i)

RetryAllFailed ==
  /\ pending' = pending \o failed
  /\ failed' = <<>>
  /\ UNCHANGED <<active, completed, cancelled, Samples, issued>>

RemovePending(j) ==
  \E i \in 1..Len(pending) :
    /\ pending[i] = j
    /\ pending' = RemoveAt(pending, i)
    /\ UNCHANGED <<active, completed, cancelled, failed, Samples, issued>>

DismissFailed(j) ==
  \E i \in 1..Len(failed) :
    /\ failed[i] = j
    /\ failed' = RemoveAt(failed, i)
    /\ UNCHANGED <<pending, active, completed, cancelled, Samples, issued>>

(* A sample for a job that is not active is ignored.  The first sample of  *)
(* a job is its baseline; a later one yields a speed, and a new baseline,  *)
(* when at least 100 ms have passed.                                       *)
UpdateActiveProgress(j) ==
  /\ IF j \notin active THEN UNCHANGED Samples
     ELSE \/ j \notin last_progress /\ last_progress' = last_progress \cup {j}
                                    /\ UNCHANGED last_speed
          \/ j \in last_progress /\ last_speed' \in {last_speed, last_speed \cup {j}}
                                 /\ UNCHANGED last_progress
  /\ UNCHANGED <<pending, active, completed, cancelled, failed, issued>>

ClearPending ==
  /\ pending' = <<>>
  /\ UNCHANGED <<active, completed, cancelled, failed, Samples, issued>>

-----------------------------------------------------------------------------
(* The queue on its own, under any order of the calls its callers make: a  *)
(* job is marked once, while it is active.                                 *)
QueueNext ==
  \/ \E j \in Job : Enqueue(j) \/ InsertFront(j)
  \/ StartNext
  \/ \E j \in active : MarkCompleted(j) \/ MarkFailed(j) \/ MarkCancelled(j)
  \/ RetryLastFailed
  \/ RetryAllFailed
  \/ \E j \in Job : RetryFailed(j) \/ RemovePending(j) \/ DismissFailed(j)
  \/ \E j \in Job : UpdateActiveProgress(j)
  \/ ClearPending

QueueSpec == QueueInit /\ [][QueueNext]_queueVars

-----------------------------------------------------------------------------
(* The five lists and the two maps hold jobs, and jobs only.               *)
QueueTypeOK ==
  /\ pending \in Seq(Job)
  /\ failed \in Seq(Job)
  /\ active \subseteq Job
  /\ completed \subseteq Job
  /\ cancelled \subseteq Job
  /\ last_progress \subseteq Job
  /\ last_speed \subseteq Job
  /\ issued \subseteq Job

(* A job is in at most one of the five lists, and once: no sequence of     *)
(* retries, removals and markings duplicates it, so no file is sent twice  *)
(* by two workers under one job.                                           *)
OneHome ==
  /\ IsInjective(pending)
  /\ IsInjective(failed)
  /\ ToSet(pending) \cap ToSet(failed) = {}
  /\ active \cap (ToSet(pending) \cup ToSet(failed)) = {}
  /\ completed \cap (ToSet(pending) \cup ToSet(failed) \cup active) = {}
  /\ cancelled \cap (ToSet(pending) \cup ToSet(failed) \cup active \cup completed) = {}
  /\ ToSet(pending) \cup ToSet(failed) \cup active \cup completed \cup cancelled
       \subseteq issued

(* Only running jobs have a sample or a speed, and a speed only after a    *)
(* baseline: a retried job never shows the speed of its earlier attempt.   *)
NoStaleSpeed == last_speed \subseteq last_progress /\ last_progress \subseteq active

Before(s, a, b) == \E i, k \in 1..Len(s) : i < k /\ s[i] = a /\ s[k] = b

(* Of two waiting jobs the later one never starts first, and no retry,     *)
(* removal or front insertion swaps them.                                  *)
NoOvertaking ==
  \A a, b \in Job :
    Before(pending, a, b) /\ a \in ToSet(pending') =>
      /\ b \notin active'
      /\ b \in ToSet(pending') => Before(pending', a, b)
=============================================================================
