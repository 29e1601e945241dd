----------------------------- MODULE QueuePane -----------------------------
(***************************************************************************)
(* The queue pane: the rows that dd_ftp_app/src/state.rs shows of the      *)
(* queue, and the highlighted row that the keys act on.  The rows are the  *)
(* active jobs in the order they were started, then the waiting ones, then *)
(* the failed ones.  The highlight is a row number, not a job, so every    *)
(* change of the queue has to find the highlighted job again.              *)
(***************************************************************************)
EXTENDS TransferQueue, Integers

VARIABLES
  order,                \* the active jobs, in the order of the Vec
  selected_queue        \* the highlighted row, counted from 0

paneVars == <<queueVars, order, selected_queue>>

visible_queue == order \o pending \o failed

Clamped(i, rows) == IF Len(rows) = 0 THEN 0
                    ELSE IF i < Len(rows) THEN i ELSE Len(rows) - 1

Shown(rows, i) == IF i < Len(rows) THEN {rows[i + 1]} ELSE {}

selected_queue_job == Shown(visible_queue, selected_queue)

(* Mutant: the row number is kept, whatever moved above it.                *)
KeepRowNumber(keep, i, rows) == Clamped(i, rows)

(* The row of the job to keep, or the old row number if it is gone.        *)
Preserved(keep, i, rows) ==
  IF keep \cap ToSet(rows) = {} THEN Clamped(i, rows)
  ELSE (CHOOSE k \in 1..Len(rows) : rows[k] \in keep) - 1

PreserveSelection(keep) == selected_queue' = Preserved(keep, selected_queue, visible_queue')

PaneInit == QueueInit /\ order = <<>> /\ selected_queue = 0

-----------------------------------------------------------------------------
(* The handlers of dd_ftp_app/src/reducer.rs.                              *)
QueueTransfer(j) ==
  /\ Enqueue(j)
  /\ UNCHANGED order
  /\ PreserveSelection(selected_queue_job)

StartNextTransfer ==
  /\ StartNext
  /\ order' = Append(order, Head(pending))
  /\ PreserveSelection(selected_queue_job)

(* Of the active jobs those with another id are retained.                  *)
MarkTransfer(j) ==
  /\ MarkCompleted(j) \/ MarkFailed(j) \/ MarkCancelled(j)
  /\ \E i \in 1..Len(order) : order[i] = j /\ order' = RemoveAt(order, i)
  /\ PreserveSelection(selected_queue_job)

(* The retried job is highlighted, whichever was before.                   *)
RetryLast ==
  /\ RetryLastFailed
  /\ UNCHANGED order
  /\ PreserveSelection({Last(failed)})

RetryOne(j) ==
  /\ RetryFailed(j)
  /\ UNCHANGED order
  /\ PreserveSelection({j})

RetryAll ==
  /\ RetryAllFailed
  /\ UNCHANGED order
  /\ PreserveSelection({})

RemoveQueueJob(j) ==
  /\ IF j \in ToSet(pending) THEN RemovePending(j) ELSE DismissFailed(j)
  /\ UNCHANGED order
  /\ PreserveSelection({})

ClearPendingTransfers ==
  /\ ClearPending
  /\ UNCHANGED order
  /\ PreserveSelection(selected_queue_job)

Highlight(i) ==
  /\ selected_queue' = Clamped(i, visible_queue)
  /\ UNCHANGED <<queueVars, order>>

-----------------------------------------------------------------------------
(* The keys: R in the pane retries the highlighted job if it has failed,   *)
(* and otherwise, as in the other panes, the last failed one; x and Delete *)
(* remove it, or only set the cancel flag of its worker while it runs.     *)
RetryKey ==
  \/ \E j \in selected_queue_job \cap ToSet(failed) : RetryOne(j)
  \/ RetryLast

CancelHighlighted == \E j \in selected_queue_job \ active : RemoveQueueJob(j)

(* A click, an arrow, the wheel, a page or a jump to an end.               *)
Navigate == \E i \in 0..Len(visible_queue) : Highlight(i)

(* Jobs that enter the queue past the reducer: the files of a folder and   *)
(* the jobs of a remote edit.  The highlight is not looked at.             *)
EnqueueUnseen(j) ==
  /\ Enqueue(j) \/ InsertFront(j)
  /\ UNCHANGED <<order, selected_queue>>

(* A new connection: the active list is emptied first, its jobs are marked *)
(* cancelled one by one, and the waiting ones are cleared.                 *)
DropWorkers ==
  LET waiting == pending \o failed
      i == Clamped(selected_queue, waiting)
  IN /\ active' = {}
     /\ order' = <<>>
     /\ cancelled' = cancelled \cup active
     /\ ClearProgress(active)
     /\ pending' = <<>>
     /\ selected_queue' = Preserved(Shown(waiting, i), i, failed)
     /\ UNCHANGED <<completed, failed, issued>>

PaneNext ==
  \/ \E j \in Job : QueueTransfer(j) \/ EnqueueUnseen(j)
  \/ StartNextTransfer
  \/ \E j \in active : MarkTransfer(j)
  \/ RetryKey
  \/ RetryAll
  \/ CancelHighlighted
  \/ ClearPendingTransfers
  \/ \E j \in Job : UpdateActiveProgress(j) /\ UNCHANGED <<order, selected_queue>>
  \/ Navigate
  \/ DropWorkers

PaneSpec == PaneInit /\ [][PaneNext]_paneVars

-----------------------------------------------------------------------------
(* The rows are the jobs that are not finished, each once, and the         *)
(* highlight is on one of them whenever there is one, after any removal,   *)
(* retry or reconnection.                                                  *)
HighlightOnARow ==
  /\ IsInjective(visible_queue)
  /\ ToSet(order) = active
  /\ selected_queue = 0 \/ selected_queue < Len(visible_queue)

(* A job the user highlighted stays highlighted while it is shown, so that *)
(* x and R act on the job the user chose: whatever starts, finishes, fails *)
(* or is removed.  Left out are the user's own moves and retries, the jobs *)
(* that enter past the reducer and a new connection.                       *)
HighlightFollowsJob ==
  \/ Navigate \/ RetryLast \/ RetryAll \/ DropWorkers
  \/ \E j \in Job : EnqueueUnseen(j)
  \/ selected_queue_job \cap ToSet(visible_queue') \subseteq selected_queue_job'

(* A job leaves the pane only when it is finished, when everything waiting *)
(* is cleared, or because it was highlighted and x or Delete was pressed.  *)
LeavesWhenChosen ==
  \/ ClearPendingTransfers \/ DropWorkers
  \/ ToSet(visible_queue) \ ToSet(visible_queue')
       \subseteq completed' \cup cancelled' \cup selected_queue_job

(* A key of the queue pane acts on the job that the user chose: the        *)
(* highlight is on a row, goes with its job, nothing else leaves the pane  *)
(* by a key, and the rows of waiting jobs are never swapped under it.      *)
KeysActOnTheChosenJob ==
  /\ [](OneHome /\ HighlightOnARow)
  /\ [][HighlightFollowsJob /\ LeavesWhenChosen /\ NoOvertaking]_paneVars
=============================================================================
