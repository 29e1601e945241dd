---------------------------- MODULE DeleteQueue ----------------------------
(***************************************************************************)
(* Deleting: the Delete key puts the marked entries in pending_delete and  *)
(* asks, y starts the first, and the handler of each report starts the     *)
(* next.  A move, once its file is transferred, adds the source to the     *)
(* same queue.  Every handler that leaves the session free may start the   *)
(* head of the queue.                                                      *)
(*                                                                         *)
(* The session of the user interface is that of UiSession.  No folder scan *)
(* or upload drain is under way: its files would go before the deletes.    *)
(* Bounds: an entry is either deleted or moved at a time, and an entry     *)
(* that is gone is not listed again.                                       *)
(***************************************************************************)
EXTENDS UiSession, SequencesExt

CONSTANTS
  Item, RemoteItem, NoItem,
  MayCancel             \* bound: whether Ctrl+C is ever pressed

ASSUME ItemAssumption ==
  /\ IsFiniteSet(Item)
  /\ RemoteItem \subseteq Item
  /\ NoItem \notin Item
  /\ MayCancel \in BOOLEAN

VARIABLES
  pending_delete,
  worker_cancel_requested,
  transfers,            \* whether transfers run
  moving,               \* the entries whose move runs, or failed and may be retried
  deleting,             \* the entry a task deletes
  gone,                 \* the entries deleted for good
  word, home            \* history: the user's word on an entry, its server

moveVars == <<worker_cancel_requested, transfers, moving>>
historyVars == <<gone, word, home>>
deleteVars == <<pending_delete, moveVars, deleting, historyVars>>
vars == <<uiVars, deleteVars>>

Init ==
  /\ UiInit
  /\ pending_delete = <<>>
  /\ worker_cancel_requested = FALSE
  /\ transfers = FALSE
  /\ moving = {}
  /\ deleting = [t \in IoTask |-> NoItem]
  /\ gone = {}
  /\ word = [i \in Item |-> "none"]
  /\ home = [i \in Item |-> NoServer]

-----------------------------------------------------------------------------
(* What a handler does once the session is back in the event loop.  Its    *)
(* task's slot serves the next task.                                       *)

Nothing(t, session, queue) ==
  /\ pending_delete' = queue
  /\ deleting' = [deleting EXCEPT ![t] = NoItem]
  /\ Finishes(t, session)

(* start_next_delete of a queue with something in it.                      *)
StartNextDelete(t, session, queue, up) ==
  IF Head(queue) \in RemoteItem /\ ~up
  THEN Nothing(t, session, <<>>)
  ELSE /\ pending_delete' = queue
       /\ deleting' = [deleting EXCEPT ![t] = Head(queue)]
       /\ SpawnsInto(t, "Fs", session, Head(queue) \in RemoteItem)

MaybeResume(t, session, queue, up) ==
  IF worker_cancel_requested \/ queue = <<>>
  THEN Nothing(t, session, queue)
  ELSE StartNextDelete(t, session, queue, up)

Relists(t, session) ==
  /\ pending_delete' = <<>>
  /\ deleting' = [deleting EXCEPT ![t] = NoItem]
  /\ SpawnsInto(t, "List", session, TRUE)

ConnectDoneResumes(t) ==
  /\ \/ ConnectUp(t) /\ MaybeResume(t, io[t].session, pending_delete, TRUE)
     \/ ConnectDown(t) /\ MaybeResume(t, NoSession, pending_delete, FALSE)
  /\ UNCHANGED <<moveVars, historyVars>>

ListDoneResumes(t) ==
  /\ ExpectsWork("List", t)
  /\ MaybeResume(t, Adopted, pending_delete, connected)
  /\ UNCHANGED <<moveVars, historyVars>>

(* The head leaves the queue, taken to be what the task deleted.           *)
WithoutHead(t) ==
  IF deleting[t] # NoItem /\ pending_delete # <<>> THEN Tail(pending_delete)
                                                   ELSE pending_delete

FsSucceeded(t) ==
  /\ ExpectsWork("Fs", t)
  /\ io[t].ok
  /\ IF WithoutHead(t) # <<>> THEN StartNextDelete(t, Adopted, WithoutHead(t), connected)
     ELSE IF io[t].remote /\ connected THEN Relists(t, Adopted)
     ELSE Nothing(t, Adopted, <<>>)
  /\ UNCHANGED <<moveVars, historyVars>>

(* Mutant: a delete that failed is tried again.                            *)
KeepsFailed(t) == pending_delete

AfterFailure(t) == IF deleting[t] # NoItem THEN <<>> ELSE pending_delete

FsFailed(t) ==
  /\ ExpectsWork("Fs", t)
  /\ ~io[t].ok
  /\ MaybeResume(t, Adopted, AfterFailure(t), connected)
  /\ UNCHANGED <<moveVars, historyVars>>

StaleReport(t) ==
  /\ StaleWorkDone(t)
  /\ deleting' = [deleting EXCEPT ![t] = NoItem]
  /\ UNCHANGED <<pending_delete, moveVars, historyVars>>

Handle(t) ==
  \/ ConnectDoneResumes(t) \/ ListDoneResumes(t)
  \/ FsSucceeded(t) \/ FsFailed(t) \/ StaleReport(t)
  \/ HostKeyChallenge(t) /\ UNCHANGED deleteVars

(* Deleting what is gone already fails.                                    *)
Work(t) ==
  /\ IoStep(t)
  /\ IF deleting[t] # NoItem /\ io[t].pc = "work" /\ io'[t].ok
     THEN deleting[t] \notin gone /\ gone' = gone \cup {deleting[t]}
     ELSE UNCHANGED gone
  /\ UNCHANGED <<pending_delete, moveVars, deleting, word, home>>

-----------------------------------------------------------------------------
(* Transfers: what they have to do with deletes.                           *)

(* M on the entries S of the remote pane, or with S empty any other        *)
(* request for a transfer and the retry keys, some of which work while     *)
(* the session is busy.                                                    *)
QueueTransfer(S) ==
  /\ prompt = "None" /\ connected
  /\ S \cap (gone \cup moving \cup ToSet(pending_delete)) = {}
  /\ S # {} => ~IoBusy
  /\ worker_cancel_requested' = FALSE
  /\ transfers' = TRUE
  /\ moving' = moving \cup S
  /\ home' = [i \in Item |-> IF i \in S THEN active_connection ELSE home[i]]
  /\ UNCHANGED <<uiVars, pending_delete, deleting, gone, word>>

NoLongerMoving(i) == moving \ {i}

(* handle_worker_result of a transfer that succeeded, the last one         *)
(* perhaps; i is the source of a move, or none.                            *)
TransferDone(t, i) ==
  LET queue == IF i = NoItem THEN pending_delete ELSE Append(pending_delete, i)
  IN  /\ transfers /\ ~worker_cancel_requested
      /\ i \in moving \cup {NoItem}
      /\ moving' = NoLongerMoving(i)
      /\ transfers' \in BOOLEAN
      /\ word' = [j \in Item |-> IF j = i THEN "move" ELSE word[j]]
      /\ io[t].pc = "idle"
      /\ IF IoBusy
         THEN pending_delete' = queue /\ UNCHANGED <<in_flight, handle, io, deleting>>
         ELSE IF queue # <<>> THEN StartNextDelete(t, handle, queue, connected)
         ELSE Relists(t, handle)
      /\ UNCHANGED <<connVars, park, prompt, io_rx, trustVars, worker_cancel_requested,
                     gone, home>>

(* A transfer failed, or an edit's download ended: nothing is resumed.     *)
TransferEndsAlone ==
  /\ transfers /\ ~worker_cancel_requested
  /\ transfers' \in BOOLEAN
  /\ UNCHANGED <<uiVars, pending_delete, worker_cancel_requested, moving, deleting,
                 historyVars>>

(* Ctrl+C; what has reported already is not cancelled.                     *)
CancelTransfers ==
  /\ MayCancel
  /\ prompt = "None"
  /\ worker_cancel_requested' = TRUE
  /\ moving' = {}
  /\ transfers' = FALSE
  /\ UNCHANGED <<uiVars, pending_delete, deleting, historyVars>>

-----------------------------------------------------------------------------
(* Keys about deletes.                                                     *)

SaidOf(S, w) == word' = [i \in Item |-> IF i \in S THEN w ELSE word[i]]

(* Mutant: the queue is not cleared first.                                 *)
QueuedBehind(S) == pending_delete \o SetToSeq(S)

QueuedAnew(S) == SetToSeq(S)

(* The Delete key: the entries S of the focused pane, perhaps none.        *)
OpenDelete(S) ==
  /\ prompt = "None"
  /\ S \cap (gone \cup moving) = {}
  /\ S \subseteq RemoteItem \/ S \cap RemoteItem = {}
  /\ S \cap RemoteItem # {} => connected
  /\ pending_delete' = QueuedAnew(S)
  /\ prompt' = IF S = {} THEN "None" ELSE "ConfirmDelete"
  /\ SaidOf(S, "asked")
  /\ home' = [i \in Item |-> IF i \in S THEN active_connection ELSE home[i]]
  /\ UNCHANGED <<connVars, in_flight, handle, park, io_rx, io, trustVars, moveVars,
                 deleting, gone>>

Asked == {i \in ToSet(pending_delete) : word[i] = "asked"}

ConfirmDelete(t) ==
  /\ prompt = "ConfirmDelete"
  /\ prompt' = "None"
  /\ SaidOf(Asked, "confirmed")
  /\ io[t].pc = "idle"
  /\ IF IoBusy \/ pending_delete = <<>>
     THEN UNCHANGED <<pending_delete, in_flight, handle, io, deleting>>
     ELSE StartNextDelete(t, handle, pending_delete, connected)
  /\ UNCHANGED <<connVars, park, io_rx, trustVars, moveVars, gone, home>>

(* Mutant: n closes the prompt and leaves the queue.                       *)
DeclineKeepsQueue ==
  /\ prompt = "ConfirmDelete"
  /\ prompt' = "None"
  /\ SaidOf(Asked, "declined")
  /\ UNCHANGED <<connVars, in_flight, handle, park, io_rx, io, trustVars,
                 pending_delete, moveVars, deleting, gone, home>>

DeclineDelete ==
  /\ prompt = "ConfirmDelete"
  /\ prompt' = "None"
  /\ pending_delete' = <<>>
  /\ SaidOf(Asked, "declined")
  /\ UNCHANGED <<connVars, in_flight, handle, park, io_rx, io, trustVars, moveVars,
                 deleting, gone, home>>

(* Ctrl+Q closes the prompt; with transfers running the question whether   *)
(* to quit takes its place, else the program ends.                         *)
QuitFromPrompt ==
  /\ prompt = "ConfirmDelete"
  /\ transfers
  /\ prompt' = "Other"
  /\ UNCHANGED <<connVars, in_flight, handle, park, io_rx, io, trustVars, deleteVars>>

(* Every disconnect raises the cancel request and ends the transfers.      *)
CutsTransfers ==
  /\ worker_cancel_requested' = TRUE
  /\ moving' = {}
  /\ transfers' = FALSE

ConnectOrDisconnect ==
  /\ \/ Disconnect /\ CutsTransfers
     \/ \E t \in IoTask, s \in Server :
          /\ Connect(t, s)
          /\ IF connected \/ handle # NoSession THEN CutsTransfers ELSE UNCHANGED moveVars
  /\ UNCHANGED <<pending_delete, deleting, historyVars>>

OtherKey ==
  /\ \/ \E t \in IoTask : prompt = "None" /\ RequestList(t)
     \/ \E t \in IoTask, remote \in BOOLEAN : RequestFs(t, remote)
     \/ OpenPrompt \/ ClosePrompt
     \/ \E yes \in BOOLEAN : AnswerHostKey(yes)
  /\ UNCHANGED deleteVars

Next ==
  \/ \E t \in IoTask : Work(t) \/ Handle(t) \/ ConfirmDelete(t)
  \/ \E t \in IoTask, i \in Item \cup {NoItem} : TransferDone(t, i)
  \/ \E S \in SUBSET Item : OpenDelete(S)
  \/ \E S \in SUBSET RemoteItem : QueueTransfer(S)
  \/ TransferEndsAlone \/ CancelTransfers \/ DeclineDelete \/ QuitFromPrompt
  \/ ConnectOrDisconnect \/ OtherKey

Spec == Init /\ [][Next]_vars

LiveSpec ==
  /\ Spec
  /\ \A t \in IoTask : WF_vars(Work(t))
  /\ WF_vars(\E t \in IoTask : Handle(t))

-----------------------------------------------------------------------------
TypeOK ==
  /\ pending_delete \in Seq(Item)
  /\ worker_cancel_requested \in BOOLEAN
  /\ transfers \in BOOLEAN
  /\ moving \subseteq Item
  /\ deleting \in [IoTask -> Item \cup {NoItem}]
  /\ gone \subseteq Item
  /\ word \in [Item -> {"none", "asked", "confirmed", "declined", "move"}]
  /\ home \in [Item -> Server \cup {NoServer}]
  /\ prompt \in {"None", "Other", "HostKey", "ConfirmDelete"}

Starts(t, i) == i # NoItem /\ deleting[t] # i /\ deleting'[t] = i

(* What the user said no to is not deleted later, however many reports     *)
(* were on their way when the prompt closed.                               *)
DeclineIsFinal ==
  [][\A t \in IoTask, i \in Item : Starts(t, i) => word'[i] # "declined"]_vars

(* Only what the user confirmed, or moved, is deleted: the Delete key is   *)
(* "Delete marked set or focused row with confirm" (keys.rs:287).          *)
OnlyConfirmedDeletes ==
  [][\A t \in IoTask, i \in Item :
       Starts(t, i) => word'[i] \in {"confirmed", "move"}]_vars

(* A remote entry is deleted on the server where the user pointed at it.   *)
DeletedOnItsServer ==
  [][\A t \in IoTask, i \in RemoteItem :
       Starts(t, i) => home'[i] = active_connection']_vars

Leaves(i) == i \in ToSet(pending_delete) /\ i \notin ToSet(pending_delete')

(* The source of a finished move stays in the queue until its deletion is  *)
(* under way: a move is "transfer, then delete source on success"          *)
(* (keys.rs:307).                                                          *)
MoveSourcesGo ==
  [][\A i \in Item :
       Leaves(i) /\ word[i] = "move" =>
         i \in gone \/ \E t \in IoTask : deleting[t] = i]_vars

(* No entry is queued twice, whatever is asked and moved in between: the   *)
(* second delete would fail and with it clear the queue.                   *)
NoEntryTwice == IsInjective(pending_delete)

(* The invariant of the deletes over the session: every delete in flight   *)
(* is reported, and what waits is there once.                              *)
DeleteInv == TypeOK /\ BusyIsAnswered /\ NoEntryTwice

(* A confirmed delete leaves the queue: it is not forgotten there while    *)
(* nothing is in flight.  A host key question may hold it up, and the user *)
(* may open the prompt anew.                                               *)
Waits(i) == i \in ToSet(pending_delete) /\ word[i] = "confirmed"

LetsGo(i) == ~Waits(i) \/ in_flight.kind = "HostKey"

ConfirmedEnds == \A i \in Item : Waits(i) ~> LetsGo(i)

(* So it does on a connection on which nothing is ever cancelled.          *)
ConfirmedEndsUncancelled ==
  []~worker_cancel_requested => \A i \in Item : Waits(i) ~> LetsGo(i)
============================================================================
