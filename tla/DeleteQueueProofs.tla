------------------------- MODULE DeleteQueueProofs -------------------------
(***************************************************************************)
(* The invariants of the delete queue hold for every set of entries, tasks *)
(* and servers.                                                            *)
(*                                                                         *)
(* The session's part is the inductive core of UiSession, which the lemmas *)
(* about its operations carry over: here the handler of a report starts    *)
(* the next delete, and a confirm prompt joins the others.  Of the queue   *)
(* itself the invariant says that an entry is there once, that none of     *)
(* them is being moved, and that none was declined.  The connection is     *)
(* still that of ConnectionLife, for the queue only ends and starts tasks. *)
(***************************************************************************)
EXTENDS DeleteQueue, UiSessionProofs, SequenceFacts

(* The session below the queue.  A confirm prompt may be on the screen.    *)
BelowInv ==
  /\ prompt \in {"None", "Other", "HostKey", "ConfirmDelete"}
  /\ io_rx \in Seq(UiMessages)
  /\ UiCore

Words == {"none", "asked", "confirmed", "declined", "move"}

(* What may wait: each entry once, not moving, and not declined.           *)
Queueable(queue, w, m) ==
  /\ queue \in Seq(Item) /\ IsInjective(queue)
  /\ \A i \in ToSet(queue) : i \notin m /\ w[i] # "declined"

QueueInv == Queueable(pending_delete, word, moving)

BookInv ==
  /\ worker_cancel_requested \in BOOLEAN
  /\ transfers \in BOOLEAN
  /\ moving \subseteq Item
  /\ deleting \in [IoTask -> Item \cup {NoItem}]
  /\ gone \subseteq Item
  /\ word \in [Item -> Words]
  /\ home \in [Item -> Server \cup {NoServer}]

(* The inductive invariant.                                                *)
DeleteIInv == BelowInv /\ QueueInv /\ BookInv

(* What every step does: no delete starts of an entry that was declined.   *)
StartsSafely == \A t \in IoTask, i \in Item : Starts(t, i) => word'[i] # "declined"

-----------------------------------------------------------------------------
(* The queue.                                                              *)

LEMMA EmptyQueue ==
  ASSUME NEW w, NEW m
  PROVE  Queueable(<<>>, w, m)
BY EmptyElements DEF Queueable

(* What resuming a queue does, whether it starts the head or gives up.     *)
Resumed(t, queue) ==
  /\ pending_delete' \in {queue, <<>>}
  /\ \E i \in ToSet(queue) \cup {NoItem} : deleting' = [deleting EXCEPT ![t] = i]

LEMMA NothingResumed ==
  ASSUME NEW t \in IoTask, NEW session, NEW queue, NEW left \in {queue, <<>>},
         Nothing(t, session, left)
  PROVE  Serves(t, session) /\ Resumed(t, queue)
BY DEF Nothing, Serves, Resumed

LEMMA StartResumed ==
  ASSUME NEW t \in IoTask, NEW session, NEW queue \in Seq(Item), queue # <<>>, NEW up,
         StartNextDelete(t, session, queue, up)
  PROVE  Serves(t, session) /\ Resumed(t, queue)
<1>1. Head(queue) \in ToSet(queue)
  BY TailElements
<1>2. CASE Head(queue) \in RemoteItem /\ ~up
  BY <1>2, NothingResumed DEF StartNextDelete
<1>3. CASE ~(Head(queue) \in RemoteItem /\ ~up)
  <2>1. /\ pending_delete' = queue
        /\ deleting' = [deleting EXCEPT ![t] = Head(queue)]
        /\ SpawnsInto(t, "Fs", session, Head(queue) \in RemoteItem)
    BY <1>3 DEF StartNextDelete
  <2>2. (Head(queue) \in RemoteItem) \in BOOLEAN
    OBVIOUS
  <2>3. Serves(t, session)
    BY <2>1, <2>2 DEF Serves
  <2> QED BY <1>1, <2>1, <2>3 DEF Resumed
<1> QED BY <1>2, <1>3

LEMMA MayResume ==
  ASSUME NEW t \in IoTask, NEW session, NEW queue \in Seq(Item), NEW up,
         MaybeResume(t, session, queue, up)
  PROVE  Serves(t, session) /\ Resumed(t, queue)
BY NothingResumed, StartResumed DEF MaybeResume

LEMMA RelistsResumed ==
  ASSUME NEW t \in IoTask, NEW session, NEW queue, Relists(t, session)
  PROVE  Serves(t, session) /\ Resumed(t, queue)
BY DEF Relists, Serves, Resumed

LEMMA ResumedKeeps ==
  ASSUME NEW t \in IoTask, NEW queue, Queueable(queue, word', moving'), Resumed(t, queue),
         deleting \in [IoTask -> Item \cup {NoItem}]
  PROVE  /\ QueueInv' /\ StartsSafely
         /\ deleting' \in [IoTask -> Item \cup {NoItem}]
<1>1. PICK i \in ToSet(queue) \cup {NoItem} : deleting' = [deleting EXCEPT ![t] = i]
  BY DEF Resumed
<1>2. ToSet(queue) \subseteq Item
  BY DEF Queueable, ToSet
<1>3. StartsSafely
  BY <1>1 DEF StartsSafely, Starts, Queueable
<1>4. QueueInv'
  BY EmptyQueue DEF QueueInv, Resumed
<1> QED BY <1>1, <1>2, <1>3, <1>4

(* The queue and the deletes under way stay as they are. *)
LEMMA QueueStays ==
  ASSUME QueueInv, UNCHANGED <<pending_delete, deleting, word>>,
         \A i \in ToSet(pending_delete) : i \in moving' => i \in moving
  PROVE  QueueInv' /\ StartsSafely
BY DEF QueueInv, Queueable, StartsSafely, Starts

LEMMA QueueSame ==
  ASSUME DeleteIInv, UNCHANGED <<pending_delete, deleting, moveVars, historyVars>>
  PROVE  QueueInv' /\ BookInv' /\ StartsSafely
BY QueueStays DEF DeleteIInv, BookInv, moveVars, historyVars

-----------------------------------------------------------------------------
(* The actions.                                                            *)

LEMMA DeleteInitInv == Init => DeleteIInv
<1> SUFFICES ASSUME Init PROVE DeleteIInv
  OBVIOUS
<1>1. UiIInv
  BY UiInitInv DEF Init
<1>2. BelowInv
  BY <1>1 DEF BelowInv, UiIInv, ChannelTypeOK, UiMessages
<1>3. QueueInv
  BY EmptyQueue DEF Init, QueueInv
<1>4. BookInv
  BY DEF Init, BookInv, Words
<1> QED BY <1>2, <1>3, <1>4 DEF DeleteIInv

LEMMA WorkKeeps ==
  ASSUME DeleteIInv, NEW t \in IoTask, Work(t)
  PROVE  DeleteIInv' /\ StartsSafely
<1>1. IoStep(t) /\ io_rx \in Seq(UiMessages) /\ UiCore
  BY DEF Work, DeleteIInv, BelowInv
<1>2. TaskMoves(t)
  BY <1>1, TaskSteps DEF UiCore
<1>3. prompt' = prompt /\ io_rx' \in Seq(UiMessages)
  BY <1>1, <1>2, UiMessageTypes, AppendProperties DEF TaskMoves
<1>4. UiCore'
  BY <1>1, UiMessageTypes, IoStepCore
<1>5. BelowInv'
  BY <1>3, <1>4 DEF DeleteIInv, BelowInv
<1>6. /\ UNCHANGED <<pending_delete, moveVars, deleting, word, home>>
      /\ gone' \subseteq gone \cup ({deleting[t]} \ {NoItem})
  BY DEF Work
<1>7. QueueInv' /\ StartsSafely
  BY <1>6, QueueStays DEF DeleteIInv, moveVars
<1>8. BookInv'
  BY <1>6 DEF DeleteIInv, BookInv, moveVars
<1> QED BY <1>5, <1>7, <1>8 DEF DeleteIInv

(* A handler takes its message off the channel.                            *)
LEMMA BelowTail ==
  ASSUME BelowInv, io_rx # <<>>, io_rx' = Tail(io_rx), UiCore', prompt' \in {prompt, "HostKey"}
  PROVE  BelowInv'
BY HeadTailProperties DEF BelowInv

(* A handler that resumes the queue q.                                     *)
LEMMA ResumeKeeps ==
  ASSUME DeleteIInv, NEW t \in IoTask, NEW q, Queueable(q, word, moving), Resumed(t, q),
         BelowInv', UNCHANGED <<moveVars, historyVars>>
  PROVE  DeleteIInv' /\ StartsSafely
<1>1. word' = word /\ moving' = moving
  BY DEF moveVars, historyVars
<1>2. /\ QueueInv' /\ StartsSafely
      /\ deleting' \in [IoTask -> Item \cup {NoItem}]
  BY <1>1, ResumedKeeps DEF DeleteIInv, BookInv
<1>3. BookInv'
  BY <1>2 DEF DeleteIInv, BookInv, moveVars, historyVars
<1> QED BY <1>2, <1>3 DEF DeleteIInv

LEMMA ConnectDoneKeeps ==
  ASSUME DeleteIInv, NEW t \in IoTask, ConnectDoneResumes(t)
  PROVE  DeleteIInv' /\ StartsSafely
<1>1. /\ io_rx \in Seq(UiMessages) /\ UiCore /\ pending_delete \in Seq(Item)
      /\ Queueable(pending_delete, word, moving)
  BY DEF DeleteIInv, BelowInv, QueueInv, Queueable
<1>2. PICK session :
        /\ \/ ConnectUp(t) /\ session = io[t].session
           \/ ConnectDown(t) /\ session = NoSession
        /\ Serves(t, session) /\ Resumed(t, pending_delete)
  BY <1>1, MayResume DEF ConnectDoneResumes
<1>3. UiCore' /\ prompt' = prompt
  BY <1>1, <1>2, ConnectDoneCore
<1>4. BelowInv'
  BY <1>2, <1>3, BelowTail DEF DeleteIInv, ConnectUp, ConnectDown, DoneOf, Receives
<1> QED BY <1>1, <1>2, <1>4, ResumeKeeps DEF ConnectDoneResumes

LEMMA WorkReported ==
  ASSUME DeleteIInv, NEW t \in IoTask, NEW kind \in {"List", "Fs"}, ExpectsWork(kind, t),
         Serves(t, Adopted)
  PROVE  BelowInv'
<1>1. UiCore'
  BY WorkDoneCore DEF DeleteIInv, BelowInv, ExpectsWork
<1> QED BY <1>1, BelowTail DEF DeleteIInv, ExpectsWork, TakesReport, DoneOf, Receives

LEMMA ListDoneKeeps ==
  ASSUME DeleteIInv, NEW t \in IoTask, ListDoneResumes(t)
  PROVE  DeleteIInv' /\ StartsSafely
<1>1. Queueable(pending_delete, word, moving) /\ pending_delete \in Seq(Item)
  BY DEF DeleteIInv, QueueInv, Queueable
<1>2. Serves(t, Adopted) /\ Resumed(t, pending_delete)
  BY <1>1, MayResume DEF ListDoneResumes
<1>3. BelowInv'
  BY <1>2, WorkReported DEF ListDoneResumes
<1> QED BY <1>1, <1>2, <1>3, ResumeKeeps DEF ListDoneResumes

LEMMA FsDoneKeeps ==
  ASSUME DeleteIInv, NEW t \in IoTask, FsSucceeded(t) \/ FsFailed(t)
  PROVE  DeleteIInv' /\ StartsSafely
<1>1. pending_delete \in Seq(Item) /\ Queueable(pending_delete, word, moving)
  BY DEF DeleteIInv, QueueInv, Queueable
<1>2. Queueable(WithoutHead(t), word, moving)
  BY <1>1, TailElements DEF WithoutHead, Queueable
<1>3. Queueable(AfterFailure(t), word, moving)
  BY <1>1, EmptyQueue DEF AfterFailure
<1>4. PICK q : Queueable(q, word, moving) /\ Serves(t, Adopted) /\ Resumed(t, q)
  <2>1. CASE FsSucceeded(t)
    <3>1. CASE WithoutHead(t) # <<>>
      BY <1>2, <2>1, <3>1, StartResumed DEF FsSucceeded, Queueable
    <3>2. CASE WithoutHead(t) = <<>>
      <4>1. Relists(t, Adopted) \/ Nothing(t, Adopted, <<>>)
        BY <2>1, <3>2 DEF FsSucceeded
      <4> QED BY <4>1, EmptyQueue, RelistsResumed, NothingResumed
    <3> QED BY <3>1, <3>2
  <2>2. CASE FsFailed(t)
    BY <1>3, <2>2, MayResume DEF FsFailed, Queueable
  <2> QED BY <2>1, <2>2
<1>5. BelowInv'
  BY <1>4, WorkReported DEF FsSucceeded, FsFailed
<1> QED BY <1>4, <1>5, ResumeKeeps DEF FsSucceeded, FsFailed

LEMMA StaleKeeps ==
  ASSUME DeleteIInv, NEW t \in IoTask, StaleReport(t)
  PROVE  DeleteIInv' /\ StartsSafely
<1>1. StaleWorkDone(t) /\ UNCHANGED <<moveVars, historyVars>> /\ Resumed(t, pending_delete)
  BY DEF StaleReport, Resumed
<1>2. UiCore'
  BY <1>1, StaleCore DEF DeleteIInv, BelowInv
<1>3. BelowInv'
  BY <1>1, <1>2, BelowTail DEF DeleteIInv, StaleWorkDone, DoneOf, Receives
<1> QED BY <1>1, <1>3, ResumeKeeps DEF DeleteIInv, QueueInv

LEMMA ChallengeKeeps ==
  ASSUME DeleteIInv, NEW t \in IoTask, HostKeyChallenge(t), UNCHANGED deleteVars
  PROVE  DeleteIInv' /\ StartsSafely
<1>1. UiCore' /\ prompt' = "HostKey"
  BY HostKeyChallengeCore DEF DeleteIInv, BelowInv
<1>2. BelowInv'
  BY <1>1, BelowTail DEF DeleteIInv, HostKeyChallenge, Receives
<1>3. QueueInv' /\ BookInv' /\ StartsSafely
  BY QueueSame DEF deleteVars
<1> QED BY <1>2, <1>3 DEF DeleteIInv

-----------------------------------------------------------------------------
(* The keys and the transfers.                                             *)

(* The session is as it was, and the prompt another. *)
LEMMA BelowPrompt ==
  ASSUME BelowInv, UNCHANGED <<connVars, in_flight, handle, park, io_rx, io, trustVars>>,
         prompt' \in {"None", "Other", "HostKey", "ConfirmDelete"},
         prompt' = "HostKey" <=> prompt = "HostKey"
  PROVE  BelowInv'
BY OtherPromptCore DEF BelowInv

LEMMA BelowSame ==
  ASSUME BelowInv, UNCHANGED uiVars
  PROVE  BelowInv'
BY BelowPrompt DEF uiVars, BelowInv

(* The session is free and takes the head of the queue, or a listing. *)
LEMMA BelowServes ==
  ASSUME BelowInv, NEW t \in IoTask, io[t].pc = "idle", ~IoBusy, Serves(t, handle),
         UNCHANGED <<connVars, park, io_rx, trustVars>>, prompt' \in {prompt, "None"}
  PROVE  BelowInv'
<1>1. UiCore'
  BY RequestCore DEF BelowInv
<1> QED BY <1>1 DEF BelowInv

LEMMA ConfirmKeeps ==
  ASSUME DeleteIInv, NEW t \in IoTask, ConfirmDelete(t)
  PROVE  DeleteIInv' /\ StartsSafely
<1>1. /\ word' = [i \in Item |-> IF i \in Asked THEN "confirmed" ELSE word[i]]
      /\ UNCHANGED <<moveVars, gone, home>> /\ moving' = moving
      /\ pending_delete \in Seq(Item) /\ Queueable(pending_delete, word, moving)
      /\ BelowInv /\ BookInv
  BY DEF ConfirmDelete, SaidOf, DeleteIInv, QueueInv, Queueable, moveVars
<1>2. Queueable(pending_delete, word', moving') /\ word' \in [Item -> Words]
  BY <1>1 DEF Queueable, BookInv, Words, ToSet
<1>3. /\ BelowInv'
      /\ Resumed(t, pending_delete) \/ UNCHANGED <<pending_delete, deleting>>
  <2>1. CASE IoBusy \/ pending_delete = <<>>
    BY <1>1, <2>1, BelowPrompt DEF ConfirmDelete
  <2>2. CASE ~(IoBusy \/ pending_delete = <<>>)
    <3>1. Serves(t, handle) /\ Resumed(t, pending_delete)
      BY <1>1, <2>2, StartResumed DEF ConfirmDelete
    <3> QED BY <1>1, <2>2, <3>1, BelowServes DEF ConfirmDelete
  <2> QED BY <2>1, <2>2
<1>4. /\ QueueInv' /\ StartsSafely
      /\ deleting' \in [IoTask -> Item \cup {NoItem}]
  <2>1. CASE Resumed(t, pending_delete)
    BY <1>1, <1>2, <2>1, ResumedKeeps DEF BookInv
  <2>2. CASE UNCHANGED <<pending_delete, deleting>>
    BY <1>1, <1>2, <2>2 DEF QueueInv, StartsSafely, Starts, BookInv
  <2> QED BY <1>3, <2>1, <2>2
<1>5. BookInv'
  BY <1>1, <1>2, <1>4 DEF BookInv, moveVars
<1> QED BY <1>3, <1>4, <1>5 DEF DeleteIInv

LEMMA TransferDoneKeeps ==
  ASSUME DeleteIInv, NEW t \in IoTask, NEW i \in Item \cup {NoItem}, TransferDone(t, i)
  PROVE  DeleteIInv' /\ StartsSafely
<1> DEFINE queue == IF i = NoItem THEN pending_delete ELSE Append(pending_delete, i)
<1>1. /\ word' = [j \in Item |-> IF j = i THEN "move" ELSE word[j]]
      /\ moving' = moving \ {i} /\ i \in moving \cup {NoItem}
      /\ transfers' \in BOOLEAN /\ io[t].pc = "idle"
      /\ UNCHANGED <<connVars, park, prompt, io_rx, trustVars, worker_cancel_requested, gone, home>>
      /\ IF IoBusy
         THEN pending_delete' = queue /\ UNCHANGED <<in_flight, handle, io, deleting>>
         ELSE IF queue # <<>> THEN StartNextDelete(t, handle, queue, connected)
         ELSE Relists(t, handle)
  BY DEF TransferDone, NoLongerMoving
<1>2. /\ pending_delete \in Seq(Item) /\ Queueable(pending_delete, word, moving)
      /\ BelowInv /\ BookInv
  BY DEF DeleteIInv, QueueInv, Queueable
<1>3. Queueable(queue, word', moving') /\ queue \in Seq(Item)
  <2>1. Queueable(pending_delete, word', moving')
    BY <1>1, <1>2 DEF Queueable, ToSet
  <2>2. CASE i = NoItem
    BY <1>2, <2>1, <2>2
  <2>3. CASE i # NoItem
    <3>1. i \in Item /\ i \notin ToSet(pending_delete) /\ word'[i] = "move" /\ i \notin moving'
      BY <1>1, <1>2, <2>3 DEF Queueable, BookInv
    <3>2. /\ Append(pending_delete, i) \in Seq(Item) /\ IsInjective(Append(pending_delete, i))
          /\ ToSet(Append(pending_delete, i)) = ToSet(pending_delete) \cup {i}
      BY <1>2, <3>1, AppendElements DEF Queueable
    <3>3. Queueable(Append(pending_delete, i), word', moving')
      BY <2>1, <3>1, <3>2 DEF Queueable
    <3> QED BY <2>3, <3>2, <3>3
  <2> QED BY <2>2, <2>3
<1> HIDE DEF queue
<1>4. word' \in [Item -> Words]
  BY <1>1, <1>2 DEF BookInv, Words
<1>5. /\ BelowInv'
      /\ \/ Resumed(t, queue)
         \/ pending_delete' = queue /\ deleting' = deleting
  <2>1. CASE IoBusy
    BY <1>1, <1>2, <2>1, BelowPrompt DEF BelowInv
  <2>2. CASE ~IoBusy
    <3>1. Serves(t, handle) /\ Resumed(t, queue)
      BY <1>1, <1>3, <2>2, StartResumed, RelistsResumed
    <3> QED BY <1>1, <1>2, <2>2, <3>1, BelowServes
  <2> QED BY <2>1, <2>2
<1>6. /\ QueueInv' /\ StartsSafely
      /\ deleting' \in [IoTask -> Item \cup {NoItem}]
  <2>1. CASE Resumed(t, queue)
    BY <1>2, <1>3, <2>1, ResumedKeeps DEF BookInv
  <2>2. CASE pending_delete' = queue /\ deleting' = deleting
    BY <1>2, <1>3, <2>2 DEF QueueInv, StartsSafely, Starts, BookInv
  <2> QED BY <1>5, <2>1, <2>2
<1>7. BookInv'
  BY <1>1, <1>2, <1>4, <1>6 DEF BookInv
<1> QED BY <1>5, <1>6, <1>7 DEF DeleteIInv

LEMMA OpenKeeps ==
  ASSUME DeleteIInv, NEW S \in SUBSET Item, OpenDelete(S)
  PROVE  DeleteIInv' /\ StartsSafely
<1>1. /\ pending_delete' = SetToSeq(S) /\ prompt' \in {"None", "ConfirmDelete"}
      /\ prompt = "None" /\ S \cap moving = {}
      /\ word' = [i \in Item |-> IF i \in S THEN "asked" ELSE word[i]]
      /\ home' = [i \in Item |-> IF i \in S THEN active_connection ELSE home[i]]
      /\ UNCHANGED <<connVars, in_flight, handle, park, io_rx, io, trustVars>>
      /\ UNCHANGED <<moveVars, deleting, gone>>
  BY DEF OpenDelete, QueuedAnew, SaidOf
<1>2. BelowInv'
  BY <1>1, BelowPrompt DEF DeleteIInv
<1>3. IsFiniteSet(S)
  BY ItemAssumption, FS_Subset
<1>4. SetToSeq(S) \in Seq(S) /\ IsInjective(SetToSeq(S)) /\ ToSet(SetToSeq(S)) \subseteq S
  BY <1>3, SetToSeqElements
<1>5. SetToSeq(S) \in Seq(Item)
  BY <1>4
<1>6. QueueInv'
  BY <1>1, <1>4, <1>5 DEF QueueInv, Queueable, moveVars
<1>7. active_connection \in Server \cup {NoServer}
  BY DEF DeleteIInv, BelowInv, UiCore, Books, SessionTypeOK, ConnTypeOK
<1>8. BookInv'
  BY <1>1, <1>7 DEF DeleteIInv, BookInv, Words, moveVars
<1>9. StartsSafely
  BY <1>1 DEF StartsSafely, Starts
<1> QED BY <1>2, <1>6, <1>8, <1>9 DEF DeleteIInv

LEMMA DeclineKeeps ==
  ASSUME DeleteIInv, DeclineDelete
  PROVE  DeleteIInv' /\ StartsSafely
<1>1. /\ prompt = "ConfirmDelete" /\ prompt' = "None" /\ pending_delete' = <<>>
      /\ word' = [i \in Item |-> IF i \in Asked THEN "declined" ELSE word[i]]
      /\ UNCHANGED <<connVars, in_flight, handle, park, io_rx, io, trustVars>>
      /\ UNCHANGED <<moveVars, deleting, gone, home>>
  BY DEF DeclineDelete, SaidOf
<1>2. BelowInv'
  BY <1>1, BelowPrompt DEF DeleteIInv
<1>3. QueueInv' /\ StartsSafely
  BY <1>1, EmptyQueue DEF QueueInv, StartsSafely, Starts
<1>4. BookInv'
  BY <1>1 DEF DeleteIInv, BookInv, Words, moveVars
<1> QED BY <1>2, <1>3, <1>4 DEF DeleteIInv

LEMMA TransferKeys ==
  ASSUME DeleteIInv,
         \/ \E S \in SUBSET RemoteItem : QueueTransfer(S)
         \/ TransferEndsAlone \/ CancelTransfers
  PROVE  DeleteIInv' /\ StartsSafely
<1>1. /\ UNCHANGED uiVars /\ UNCHANGED <<pending_delete, deleting, gone, word>>
      /\ worker_cancel_requested' \in BOOLEAN /\ transfers' \in BOOLEAN
  BY DEF QueueTransfer, TransferEndsAlone, CancelTransfers, DeleteIInv, BookInv, historyVars
<1>2. BelowInv'
  BY <1>1, BelowSame DEF DeleteIInv
<1>3. /\ moving' \subseteq Item /\ home' \in [Item -> Server \cup {NoServer}]
      /\ \A i \in ToSet(pending_delete) : i \in moving' => i \in moving
  <2>1. ASSUME NEW S \in SUBSET RemoteItem, QueueTransfer(S)
        PROVE  /\ moving' \subseteq Item /\ home' \in [Item -> Server \cup {NoServer}]
               /\ \A i \in ToSet(pending_delete) : i \in moving' => i \in moving
    <3>1. active_connection \in Server \cup {NoServer}
      BY DEF DeleteIInv, BelowInv, UiCore, Books, SessionTypeOK, ConnTypeOK
    <3> QED BY <2>1, <3>1, ItemAssumption DEF QueueTransfer, DeleteIInv, BookInv
  <2>2. CASE TransferEndsAlone \/ CancelTransfers
    BY <2>2 DEF TransferEndsAlone, CancelTransfers, DeleteIInv, BookInv, historyVars
  <2> QED BY <2>1, <2>2
<1>4. QueueInv' /\ StartsSafely
  BY <1>1, <1>3, QueueStays DEF DeleteIInv
<1>5. BookInv'
  BY <1>1, <1>3 DEF DeleteIInv, BookInv
<1> QED BY <1>2, <1>4, <1>5 DEF DeleteIInv

LEMMA ConnectKeys ==
  ASSUME DeleteIInv, ConnectOrDisconnect
  PROVE  DeleteIInv' /\ StartsSafely
<1>1. /\ UNCHANGED <<pending_delete, deleting, historyVars>>
      /\ CutsTransfers \/ UNCHANGED moveVars
      /\ Disconnect \/ \E t \in IoTask, s \in Server : Connect(t, s)
  BY DEF ConnectOrDisconnect
<1>2. UiCore'
  BY <1>1, ConnectCore, DisconnectCore DEF DeleteIInv, BelowInv
<1>3. prompt' = prompt /\ io_rx' = io_rx
  BY <1>1 DEF Connect, Disconnect
<1>4. BelowInv'
  BY <1>2, <1>3 DEF DeleteIInv, BelowInv
<1>5. QueueInv' /\ StartsSafely
  BY <1>1, QueueStays DEF DeleteIInv, CutsTransfers, moveVars, historyVars
<1>6. BookInv'
  BY <1>1 DEF DeleteIInv, BookInv, CutsTransfers, moveVars, historyVars
<1> QED BY <1>4, <1>5, <1>6 DEF DeleteIInv

LEMMA OtherKeys ==
  ASSUME DeleteIInv, OtherKey \/ QuitFromPrompt
  PROVE  DeleteIInv' /\ StartsSafely
<1>1. UNCHANGED deleteVars
  BY DEF OtherKey, QuitFromPrompt
<1>2. UiCore'
  <2>1. CASE OpenPrompt \/ ClosePrompt \/ QuitFromPrompt
    BY <2>1, OtherPromptCore DEF DeleteIInv, BelowInv, OpenPrompt, ClosePrompt, QuitFromPrompt
  <2> QED BY <2>1, RequestInv, AnswerCore DEF DeleteIInv, BelowInv, OtherKey
<1>3. prompt' \in {prompt, "None", "Other"} /\ io_rx' = io_rx
  BY DEF OtherKey, QuitFromPrompt, RequestList, RequestFs, OpenPrompt, ClosePrompt, AnswerHostKey
<1>4. BelowInv'
  BY <1>2, <1>3 DEF DeleteIInv, BelowInv
<1>5. QueueInv' /\ BookInv' /\ StartsSafely
  BY <1>1, QueueSame DEF deleteVars
<1> QED BY <1>4, <1>5 DEF DeleteIInv

LEMMA DeleteStep == DeleteIInv /\ [Next]_vars => DeleteIInv' /\ StartsSafely
<1> SUFFICES ASSUME DeleteIInv, [Next]_vars PROVE DeleteIInv' /\ StartsSafely
  OBVIOUS
<1>1. ASSUME NEW t \in IoTask, Handle(t) PROVE DeleteIInv' /\ StartsSafely
  BY <1>1, ConnectDoneKeeps, ListDoneKeeps, FsDoneKeeps, StaleKeeps, ChallengeKeeps DEF Handle
<1>2. CASE UNCHANGED vars
  <2>1. BelowInv'
    BY <1>2, BelowSame DEF vars, DeleteIInv
  <2>2. QueueInv' /\ BookInv' /\ StartsSafely
    BY <1>2, QueueSame DEF vars, deleteVars
  <2> QED BY <2>1, <2>2 DEF DeleteIInv
<1> QED
  BY <1>1, <1>2, WorkKeeps, ConfirmKeeps, TransferDoneKeeps, OpenKeeps, DeclineKeeps,
     TransferKeys, ConnectKeys, OtherKeys DEF Next

THEOREM DeleteInvariant == Spec => []DeleteIInv
<1>1. DeleteIInv /\ [Next]_vars => DeleteIInv'
  BY DeleteStep
<1> QED BY <1>1, DeleteInitInv, PTL DEF Spec

(* What waits to be deleted is there once, and every task the event loop   *)
(* waits for is on its way to report, whoever else puts into the queue.    *)
THEOREM DeleteInvHolds == Spec => []DeleteInv
<1>1. DeleteIInv => DeleteInv
  <2> SUFFICES ASSUME DeleteIInv PROVE DeleteInv
    OBVIOUS
  <2>1. BusyIsAnswered
    BY AnsweredWhileBusy DEF DeleteIInv, BelowInv, UiCore
  <2>2. TypeOK
    BY DEF DeleteIInv, BelowInv, QueueInv, Queueable, BookInv, Words, TypeOK
  <2>3. NoEntryTwice
    BY DEF DeleteIInv, QueueInv, Queueable, NoEntryTwice
  <2> QED BY <2>1, <2>2, <2>3 DEF DeleteInv
<1> QED BY <1>1, DeleteInvariant, PTL

(* What the user said no to is not deleted later, however many reports are *)
(* on their way when the prompt closes.                                    *)
THEOREM DeclineHolds == Spec => DeclineIsFinal
<1>1. DeleteIInv /\ [Next]_vars =>
        [\A t \in IoTask, i \in Item : Starts(t, i) => word'[i] # "declined"]_vars
  BY DeleteStep DEF StartsSafely
<1> QED BY <1>1, DeleteInvariant, PTL DEF Spec, DeclineIsFinal

(* Deletes and moves keep what the session promises: it comes back to the  *)
(* event loop after every delete, and no key is trusted without a yes.     *)
THEOREM DeletesKeepSession == Spec => [](SessionIsKept /\ TrustNeedsYes)
<1>1. DeleteIInv => SessionIsKept /\ TrustNeedsYes
  BY DEF DeleteIInv, BelowInv, UiCore, SessionInv, SessionIsKept, TrustInv, TrustNeedsYes
<1> QED BY <1>1, DeleteInvariant, PTL

-----------------------------------------------------------------------------
(* The connection under the deletes.                                       *)

(* A handler of a report of work: the session goes on to what is resumed. *)
LEMMA WorkReportAside ==
  ASSUME DeleteIInv, NEW t \in IoTask, NEW kind \in {"List", "Fs"}, ExpectsWork(kind, t),
         Serves(t, Adopted)
  PROVE  Status' = Status /\ Shown' = Shown
<1>1. io_rx \in Seq(UiMessages) /\ Books
  BY DEF DeleteIInv, BelowInv, UiCore
<1>2. Adopted \in 0..generation /\ in_flight.kind = kind /\ UNCHANGED connVars
  BY <1>1, WorkReports DEF ExpectsWork, TakesReport
<1> QED BY <1>1, <1>2, ServesAside DEF connVars, Connecting

LEMMA HandleConnection ==
  ASSUME DeleteIInv, NEW t \in IoTask, Handle(t)
  PROVE  Connection!Next \/ (Status' = Status /\ Shown' = Shown)
<1>1. /\ io_rx \in Seq(UiMessages) /\ Books /\ PromptInv
      /\ pending_delete \in Seq(Item)
  BY DEF DeleteIInv, BelowInv, UiCore, QueueInv, Queueable
<1>2. CASE ConnectDoneResumes(t)
  <2>1. PICK session :
          /\ \/ ConnectUp(t) /\ session = io[t].session
             \/ ConnectDown(t) /\ session = NoSession
          /\ Serves(t, session)
    BY <1>1, <1>2, MayResume DEF ConnectDoneResumes
  <2> QED BY <1>1, <2>1, ConnectAnswered
<1>3. CASE ListDoneResumes(t)
  <2>1. Serves(t, Adopted)
    BY <1>1, <1>3, MayResume DEF ListDoneResumes
  <2> QED BY <1>3, <2>1, WorkReportAside DEF ListDoneResumes
<1>4. CASE FsSucceeded(t)
  <2>1. WithoutHead(t) \in Seq(Item)
    BY <1>1 DEF WithoutHead
  <2>2. CASE WithoutHead(t) # <<>>
    BY <1>4, <2>1, <2>2, StartResumed, WorkReportAside DEF FsSucceeded
  <2>3. CASE WithoutHead(t) = <<>>
    <3>1. Relists(t, Adopted) \/ Nothing(t, Adopted, <<>>)
      BY <1>4, <2>3 DEF FsSucceeded
    <3>2. Serves(t, Adopted)
      BY <3>1, RelistsResumed, NothingResumed
    <3> QED BY <1>4, <3>2, WorkReportAside DEF FsSucceeded
  <2> QED BY <2>2, <2>3
<1>5. CASE FsFailed(t)
  <2>1. AfterFailure(t) \in Seq(Item)
    BY <1>1 DEF AfterFailure
  <2>2. Serves(t, Adopted)
    BY <1>5, <2>1, MayResume DEF FsFailed
  <2> QED BY <1>5, <2>2, WorkReportAside DEF FsFailed
<1>6. CASE StaleReport(t)
  <2>1. UNCHANGED <<connVars, in_flight>>
    BY <1>6 DEF StaleReport, StaleWorkDone
  <2> QED BY <2>1, Stutters DEF connVars, Connecting
<1>7. CASE HostKeyChallenge(t)
  BY <1>1, <1>7, QuestionAside
<1> QED BY <1>2, <1>3, <1>4, <1>5, <1>6, <1>7 DEF Handle

(* A confirmed delete, or the source of a move, takes a session that is free. *)
LEMMA StartsAside ==
  ASSUME DeleteIInv, NEW t \in IoTask,
         \/ ConfirmDelete(t)
         \/ \E i \in Item \cup {NoItem} : TransferDone(t, i)
  PROVE  Status' = Status /\ Shown' = Shown
<1>1. /\ Books /\ pending_delete \in Seq(Item) /\ handle \in 0..generation
      /\ UNCHANGED connVars
  BY DEF DeleteIInv, BelowInv, UiCore, Books, SessionTypeOK, QueueInv, Queueable,
         ConfirmDelete, TransferDone
<1>2. in_flight' = in_flight \/ (~IoBusy /\ Serves(t, handle))
  <2>1. CASE ConfirmDelete(t)
    BY <1>1, <2>1, StartResumed DEF ConfirmDelete
  <2>2. ASSUME NEW i \in Item \cup {NoItem}, TransferDone(t, i)
        PROVE  in_flight' = in_flight \/ (~IoBusy /\ Serves(t, handle))
    <3> DEFINE queue == IF i = NoItem THEN pending_delete ELSE Append(pending_delete, i)
    <3>1. queue \in Seq(Item)
      BY <1>1
    <3>2. IF IoBusy THEN in_flight' = in_flight
          ELSE IF queue # <<>> THEN StartNextDelete(t, handle, queue, connected)
          ELSE Relists(t, handle)
      BY <2>2 DEF TransferDone
    <3> HIDE DEF queue
    <3> QED BY <3>1, <3>2, StartResumed, RelistsResumed
  <2> QED BY <2>1, <2>2
<1>3. CASE in_flight' = in_flight
  BY <1>1, <1>3, Stutters DEF connVars, Connecting
<1>4. CASE ~IoBusy /\ Serves(t, handle)
  BY <1>1, <1>4, ServesAside DEF connVars, Connecting, IoBusy
<1> QED BY <1>2, <1>3, <1>4

LEMMA DeleteConnectionStep ==
  DeleteIInv /\ [Next]_vars => [Connection!Next]_(Connection!vars)
<1> SUFFICES ASSUME DeleteIInv, [Next]_vars
             PROVE  Connection!Next \/ (Status' = Status /\ Shown' = Shown)
  BY DEF Connection!vars, Status, Shown
<1>1. io_rx \in Seq(UiMessages) /\ Books /\ PromptInv
  BY DEF DeleteIInv, BelowInv, UiCore
<1>2. CASE UNCHANGED <<connVars, in_flight>>
  BY <1>2, Stutters DEF connVars, Connecting
<1>3. ASSUME NEW t \in IoTask, Work(t) PROVE UNCHANGED <<connVars, in_flight>>
  BY <1>1, <1>3, TaskSteps DEF Work, TaskMoves
<1>4. CASE \/ \E S \in SUBSET Item : OpenDelete(S)
           \/ \E S \in SUBSET RemoteItem : QueueTransfer(S)
           \/ TransferEndsAlone \/ CancelTransfers \/ DeclineDelete \/ QuitFromPrompt
           \/ UNCHANGED vars
  BY <1>2, <1>4 DEF OpenDelete, QueueTransfer, TransferEndsAlone, CancelTransfers, DeclineDelete,
                    QuitFromPrompt, vars, uiVars
<1>5. CASE ConnectOrDisconnect
  BY <1>1, <1>5, ConnectAsks, DisconnectGivesUp DEF ConnectOrDisconnect
<1>6. CASE OtherKey
  <2>1. CASE OpenPrompt \/ ClosePrompt
    BY <1>2, <2>1 DEF OpenPrompt, ClosePrompt
  <2>2. ASSUME NEW yes \in BOOLEAN, AnswerHostKey(yes) PROVE Status' = Status /\ Shown' = Shown
    <3>1. in_flight.reply \in IoTask
      BY <1>1, <2>2, AnswerBooks
    <3> QED BY <1>1, <2>2, <3>1, QuestionAside
  <2>3. ASSUME NEW t \in IoTask, NEW remote \in BOOLEAN, RequestList(t) \/ RequestFs(t, remote)
        PROVE  Status' = Status /\ Shown' = Shown
    BY <1>1, <2>3, RequestAside
  <2> QED BY <1>6, <2>1, <2>2, <2>3 DEF OtherKey
<1> QED BY <1>2, <1>3, <1>4, <1>5, <1>6, HandleConnection, StartsAside DEF Next

(* Deletes, moves and Ctrl+C take the session only when it is free, and     *)
(* give it back: with them too the connection behaves as ConnectionLife     *)
(* promises, and a report that resumes the queue brings up no connection    *)
(* and ends none (maybe_resume_drain, start_next_delete).                   *)
THEOREM DeletesKeepConnection == Spec => ImplementsConnection
<1>1. Init => Connection!Init
  BY NotInFlightType DEF Init, UiInit, Connection!Init
<1> QED
  BY <1>1, DeleteInvariant, DeleteConnectionStep, PTL DEF Spec, ImplementsConnection, Connection!Spec
=============================================================================
