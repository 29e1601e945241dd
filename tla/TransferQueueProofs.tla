------------------------ MODULE TransferQueueProofs ------------------------
(***************************************************************************)
(* The queue's invariants hold for every set of jobs.  Each operation is   *)
(* shown to preserve them in a lemma of its own, so that the modules that  *)
(* call the queue can cite it.                                             *)
(***************************************************************************)
EXTENDS TransferQueue, SequenceFacts

-----------------------------------------------------------------------------
QueueInv == QueueTypeOK /\ OneHome /\ NoStaleSpeed

LEMMA QueueInitInv == QueueInit => QueueInv
BY EmptyElements DEF QueueInit, QueueInv, QueueTypeOK, OneHome, NoStaleSpeed

LEMMA EnqueueInv ==
  ASSUME QueueInv, NEW j, Enqueue(j)
  PROVE  QueueInv' /\ ToSet(pending') = ToSet(pending) \cup {j}
<1>1. /\ j \in Job /\ j \notin issued /\ j \notin ToSet(pending)
      /\ pending \in Seq(Job) /\ IsInjective(pending)
      /\ pending' = Append(pending, j)
  BY DEF QueueInv, QueueTypeOK, OneHome, Enqueue, Fresh
<1>2. /\ pending' \in Seq(Job) /\ IsInjective(pending')
      /\ ToSet(pending') = ToSet(pending) \cup {j}
  BY <1>1, AppendElements
<1> QED
  BY <1>1, <1>2 DEF QueueInv, QueueTypeOK, OneHome, NoStaleSpeed, Enqueue, Fresh, Samples

LEMMA InsertFrontInv ==
  ASSUME QueueInv, NEW j, InsertFront(j)
  PROVE  QueueInv' /\ ToSet(pending') = ToSet(pending) \cup {j}
<1>1. /\ j \in Job /\ j \notin issued /\ j \notin ToSet(pending)
      /\ pending \in Seq(Job) /\ IsInjective(pending)
      /\ pending' = <<j>> \o pending
  BY DEF QueueInv, QueueTypeOK, OneHome, InsertFront, Fresh
<1>2. /\ pending' \in Seq(Job) /\ IsInjective(pending')
      /\ ToSet(pending') = ToSet(pending) \cup {j}
  <2> DEFINE one == <<j>>
  <2>1. one \in Seq(Job) /\ ToSet(one) = {j} /\ IsInjective(one)
    BY <1>1, OneElement
  <2>2. pending' = one \o pending
    BY <1>1
  <2> HIDE DEF one
  <2>3. ToSet(one) \cap ToSet(pending) = {}
    BY <2>1, <1>1
  <2>4. pending \in Seq(Job) /\ IsInjective(pending)
    BY <1>1
  <2>5. /\ one \o pending \in Seq(Job) /\ IsInjective(one \o pending)
        /\ ToSet(one \o pending) = ToSet(one) \cup ToSet(pending)
    BY <2>1, <2>3, <2>4, ConcatElements
  <2> QED BY <2>1, <2>2, <2>5
<1> QED
  BY <1>1, <1>2 DEF QueueInv, QueueTypeOK, OneHome, NoStaleSpeed, InsertFront, Fresh, Samples

LEMMA StartNextInv ==
  ASSUME QueueInv, StartNext
  PROVE  /\ QueueInv'
         /\ Head(pending) \in Job
         /\ ToSet(pending) = ToSet(pending') \cup {Head(pending)}
         /\ Head(pending) \notin ToSet(pending')
<1>1. /\ pending \in Seq(Job) /\ IsInjective(pending) /\ pending # <<>>
      /\ pending' = Tail(pending)
  BY DEF QueueInv, QueueTypeOK, OneHome, StartNext
<1>2. /\ pending' \in Seq(Job) /\ IsInjective(pending')
      /\ Head(pending) \in Job
      /\ ToSet(pending) = ToSet(pending') \cup {Head(pending)}
      /\ Head(pending) \notin ToSet(pending')
  BY <1>1, TailElements
<1> QED
  BY <1>2 DEF QueueInv, QueueTypeOK, OneHome, NoStaleSpeed, StartNext, Samples

LEMMA MarkInv ==
  ASSUME QueueInv, NEW j \in active,
         MarkCompleted(j) \/ MarkFailed(j) \/ MarkCancelled(j)
  PROVE  QueueInv' /\ pending' = pending /\ active' = active \ {j}
<1> USE DEF QueueInv, QueueTypeOK, OneHome, NoStaleSpeed, ClearProgress
<1>1. CASE MarkCompleted(j)
  BY <1>1 DEF MarkCompleted
<1>2. CASE MarkFailed(j)
  <2>1. /\ j \in Job /\ j \notin ToSet(failed)
        /\ failed' = Append(failed, j)
    BY <1>2 DEF MarkFailed
  <2>2. /\ failed' \in Seq(Job) /\ IsInjective(failed')
        /\ ToSet(failed') = ToSet(failed) \cup {j}
    BY <2>1, AppendElements
  <2> QED BY <1>2, <2>1, <2>2 DEF MarkFailed
<1>3. CASE MarkCancelled(j)
  BY <1>3 DEF MarkCancelled
<1> QED BY <1>1, <1>2, <1>3

LEMMA RetryAtInv ==
  ASSUME QueueInv, NEW i \in 1..Len(failed), RetryAt(i)
  PROVE  QueueInv' /\ ToSet(pending') = ToSet(pending) \cup {failed[i]}
<1> USE DEF QueueInv, QueueTypeOK, OneHome
<1>1. failed[i] \in Job /\ failed[i] \in ToSet(failed) /\ failed[i] \notin ToSet(pending)
  BY DEF ToSet
<1>2. /\ pending' \in Seq(Job) /\ IsInjective(pending')
      /\ ToSet(pending') = ToSet(pending) \cup {failed[i]}
  BY <1>1, AppendElements DEF RetryAt
<1>3. /\ failed' \in Seq(Job) /\ IsInjective(failed')
      /\ ToSet(failed') = ToSet(failed) \ {failed[i]}
  BY RemoveAtElements DEF RetryAt
<1> QED
  BY <1>1, <1>2, <1>3 DEF RetryAt, NoStaleSpeed, Samples

LEMMA RetryLastFailedInv ==
  ASSUME QueueInv, RetryLastFailed
  PROVE  QueueInv' /\ ToSet(pending') = ToSet(pending) \cup {failed[Len(failed)]}
<1>1. failed \in Seq(Job) /\ failed # <<>>
  BY DEF QueueInv, QueueTypeOK, RetryLastFailed
<1>2. Len(failed) \in 1..Len(failed)
  BY <1>1, EmptySeq, LenProperties
<1> QED BY <1>2, RetryAtInv DEF RetryLastFailed

LEMMA RetryFailedInv ==
  ASSUME QueueInv, NEW j, RetryFailed(j)
  PROVE  QueueInv' /\ ToSet(pending') = ToSet(pending) \cup {j}
<1>1. PICK i \in 1..Len(failed) : failed[i] = j /\ RetryAt(i)
  BY DEF RetryFailed
<1> QED BY <1>1, RetryAtInv

LEMMA RetryAllFailedInv ==
  ASSUME QueueInv, RetryAllFailed
  PROVE  QueueInv' /\ ToSet(pending') = ToSet(pending) \cup ToSet(failed)
<1> USE DEF QueueInv, QueueTypeOK, OneHome, RetryAllFailed
<1>1. /\ pending' \in Seq(Job) /\ IsInjective(pending')
      /\ ToSet(pending') = ToSet(pending) \cup ToSet(failed)
  BY ConcatElements
<1>2. failed' \in Seq(Job) /\ IsInjective(failed') /\ ToSet(failed') = {}
  BY EmptyElements
<1> QED
  BY <1>1, <1>2 DEF NoStaleSpeed, Samples

LEMMA RemovePendingInv ==
  ASSUME QueueInv, NEW j, RemovePending(j)
  PROVE  QueueInv' /\ ToSet(pending') \subseteq ToSet(pending)
<1> USE DEF QueueInv, QueueTypeOK, OneHome
<1>1. PICK i \in 1..Len(pending) : pending' = RemoveAt(pending, i)
  BY DEF RemovePending
<1>2. /\ pending' \in Seq(Job) /\ IsInjective(pending')
      /\ ToSet(pending') \subseteq ToSet(pending)
  BY <1>1, RemoveAtElements
<1> QED
  BY <1>2 DEF RemovePending, NoStaleSpeed, Samples

LEMMA DismissFailedInv ==
  ASSUME QueueInv, NEW j, DismissFailed(j)
  PROVE  QueueInv' /\ pending' = pending
<1> USE DEF QueueInv, QueueTypeOK, OneHome
<1>1. PICK i \in 1..Len(failed) : failed' = RemoveAt(failed, i)
  BY DEF DismissFailed
<1>2. /\ failed' \in Seq(Job) /\ IsInjective(failed')
      /\ ToSet(failed') \subseteq ToSet(failed)
  BY <1>1, RemoveAtElements
<1> QED
  BY <1>2 DEF DismissFailed, NoStaleSpeed, Samples

LEMMA UpdateActiveProgressInv ==
  ASSUME QueueInv, NEW j, UpdateActiveProgress(j)
  PROVE  QueueInv' /\ pending' = pending /\ active' = active
BY DEF QueueInv, QueueTypeOK, OneHome, NoStaleSpeed, UpdateActiveProgress, Samples

LEMMA ClearPendingInv ==
  ASSUME QueueInv, ClearPending
  PROVE  QueueInv' /\ ToSet(pending') = {} /\ active' = active
BY EmptyElements
   DEF QueueInv, QueueTypeOK, OneHome, NoStaleSpeed, ClearPending, Samples

-----------------------------------------------------------------------------
(* The invariants of the queue on its own: its types, that a job is in one *)
(* list and once, and that only running jobs have samples and speeds.      *)
THEOREM QueueInvariant == QueueSpec => []QueueInv
<1>1. QueueInit => QueueInv
  BY QueueInitInv
<1>2. QueueInv /\ [QueueNext]_queueVars => QueueInv'
  <2> SUFFICES ASSUME QueueInv, [QueueNext]_queueVars PROVE QueueInv'
    OBVIOUS
  <2>1. ASSUME NEW j \in Job, Enqueue(j) \/ InsertFront(j) PROVE QueueInv'
    BY <2>1, EnqueueInv, InsertFrontInv
  <2>2. CASE StartNext
    BY <2>2, StartNextInv
  <2>3. ASSUME NEW j \in active, MarkCompleted(j) \/ MarkFailed(j) \/ MarkCancelled(j)
        PROVE  QueueInv'
    BY <2>3, MarkInv
  <2>4. CASE RetryLastFailed
    BY <2>4, RetryLastFailedInv
  <2>5. CASE RetryAllFailed
    BY <2>5, RetryAllFailedInv
  <2>6. ASSUME NEW j \in Job, RetryFailed(j) \/ RemovePending(j) \/ DismissFailed(j)
        PROVE  QueueInv'
    BY <2>6, RetryFailedInv, RemovePendingInv, DismissFailedInv
  <2>7. ASSUME NEW j \in Job, UpdateActiveProgress(j) PROVE QueueInv'
    BY <2>7, UpdateActiveProgressInv
  <2>8. CASE ClearPending
    BY <2>8, ClearPendingInv
  <2>9. CASE UNCHANGED queueVars
    BY <2>9 DEF queueVars, QueueInv, QueueTypeOK, OneHome, NoStaleSpeed
  <2> QED
    BY <2>1, <2>2, <2>3, <2>4, <2>5, <2>6, <2>7, <2>8, <2>9 DEF QueueNext
<1> QED BY <1>1, <1>2, PTL DEF QueueSpec

(* Every list of the queue holds jobs. *)
THEOREM QueueTypeCorrect == QueueSpec => []QueueTypeOK
<1>1. QueueInv => QueueTypeOK
  BY DEF QueueInv
<1> QED BY <1>1, QueueInvariant, PTL

(* No order of the queue's operations puts a job in two lists, or in one   *)
(* list twice.                                                             *)
THEOREM JobsHaveOneHome == QueueSpec => []OneHome
<1>1. QueueInv => OneHome
  BY DEF QueueInv
<1> QED BY <1>1, QueueInvariant, PTL

(* A job that left the active list leaves no sample and no speed behind.   *)
THEOREM SpeedsAreNeverStale == QueueSpec => []NoStaleSpeed
<1>1. QueueInv => NoStaleSpeed
  BY DEF QueueInv
<1> QED BY <1>1, QueueInvariant, PTL

-----------------------------------------------------------------------------
(* The order of the waiting jobs.                                          *)

LEMMA BeforeIsIn ==
  ASSUME NEW S, NEW s \in Seq(S), NEW a, NEW b, Before(s, a, b)
  PROVE  a \in ToSet(s) /\ b \in ToSet(s)
BY LenProperties DEF Before, ToSet

LEMMA BeforeConcat ==
  ASSUME NEW S, NEW s \in Seq(S), NEW t \in Seq(S), NEW a, NEW b, Before(s, a, b)
  PROVE  Before(s \o t, a, b) /\ Before(t \o s, a, b)
<1>1. PICK i \in 1..Len(s), k \in 1..Len(s) : i < k /\ s[i] = a /\ s[k] = b
  BY DEF Before
<1>2. Len(s) \in Nat /\ Len(t) \in Nat
  BY LenProperties
<1>3. /\ Len(s \o t) = Len(s) + Len(t)
      /\ \A m \in 1..Len(s) : (s \o t)[m] = s[m]
  BY ConcatProperties
<1>4. /\ Len(t \o s) = Len(t) + Len(s)
      /\ \A m \in 1..Len(s) : (t \o s)[Len(t) + m] = s[m]
  BY ConcatProperties
<1>5. Before(s \o t, a, b)
  <2>1. i \in 1..Len(s \o t) /\ k \in 1..Len(s \o t)
    BY <1>2, <1>3
  <2> QED BY <1>1, <1>3, <2>1 DEF Before
<1>6. Before(t \o s, a, b)
  <2>1. /\ Len(t) + i \in 1..Len(t \o s) /\ Len(t) + k \in 1..Len(t \o s)
        /\ Len(t) + i < Len(t) + k
    BY <1>1, <1>2, <1>4
  <2>2. (t \o s)[Len(t) + i] = a /\ (t \o s)[Len(t) + k] = b
    BY <1>1, <1>4
  <2> QED BY <2>1, <2>2 DEF Before
<1> QED BY <1>5, <1>6

LEMMA BeforeAppend ==
  ASSUME NEW S, NEW s \in Seq(S), NEW e \in S, NEW a, NEW b, Before(s, a, b)
  PROVE  Before(Append(s, e), a, b)
<1>1. PICK i \in 1..Len(s), k \in 1..Len(s) : i < k /\ s[i] = a /\ s[k] = b
  BY DEF Before
<1>2. /\ Len(s) \in Nat /\ Len(Append(s, e)) = Len(s) + 1
      /\ \A m \in 1..Len(s) : Append(s, e)[m] = s[m]
  BY AppendProperties, LenProperties
<1>3. i \in 1..Len(Append(s, e)) /\ k \in 1..Len(Append(s, e))
  BY <1>2
<1> QED BY <1>1, <1>2, <1>3 DEF Before

LEMMA BeforeTail ==
  ASSUME NEW S, NEW s \in Seq(S), s # <<>>, IsInjective(s), NEW a, NEW b,
         Before(s, a, b), a \in ToSet(Tail(s))
  PROVE  Before(Tail(s), a, b) /\ b # Head(s)
<1>1. PICK i \in 1..Len(s), k \in 1..Len(s) : i < k /\ s[i] = a /\ s[k] = b
  BY DEF Before
<1>2. /\ Len(s) \in Nat /\ Head(s) = s[1]
      /\ Len(Tail(s)) = Len(s) - 1
      /\ \A m \in 1..Len(Tail(s)) : Tail(s)[m] = s[m + 1]
      /\ DOMAIN s = 1..Len(s)
  BY HeadTailProperties, EmptySeq, LenProperties
<1>3. a # Head(s)
  BY TailElements
<1>4. i - 1 \in 1..Len(Tail(s)) /\ k - 1 \in 1..Len(Tail(s)) /\ k # 1
  BY <1>1, <1>2, <1>3
<1>5. (i - 1) + 1 = i /\ (k - 1) + 1 = k /\ i - 1 < k - 1
  BY <1>1
<1>6. Tail(s)[i - 1] = a /\ Tail(s)[k - 1] = b
  BY <1>1, <1>2, <1>4, <1>5
<1>7. b # Head(s)
  BY <1>1, <1>2, <1>4 DEF IsInjective
<1> QED BY <1>4, <1>5, <1>6, <1>7 DEF Before

LEMMA BeforeRemoveAt ==
  ASSUME NEW S, NEW s \in Seq(S), IsInjective(s), NEW m \in 1..Len(s), NEW a, NEW b,
         Before(s, a, b), a \in ToSet(RemoveAt(s, m)), b \in ToSet(RemoveAt(s, m))
  PROVE  Before(RemoveAt(s, m), a, b)
<1> DEFINE d == RemoveAt(s, m)
           at(i) == IF i < m THEN i ELSE i - 1
<1>1. PICK i \in 1..Len(s), k \in 1..Len(s) : i < k /\ s[i] = a /\ s[k] = b
  BY DEF Before
<1>2. /\ Len(s) \in Nat /\ Len(d) = Len(s) - 1
      /\ \A h \in 1..(m - 1) : d[h] = s[h]
      /\ \A h \in m..(Len(s) - 1) : d[h] = s[h + 1]
  BY RemoveAtIndices, LenProperties
<1>3. ToSet(d) = ToSet(s) \ {s[m]}
  BY RemoveAtElements
<1>4. i # m /\ k # m
  BY <1>1, <1>3
<1> HIDE DEF d
<1>5. \A h \in 1..Len(s) : h # m => at(h) \in 1..Len(d) /\ d[at(h)] = s[h]
  <2> TAKE h \in 1..Len(s)
  <2> HAVE h # m
  <2>1. CASE h < m
    BY <1>2, <2>1
  <2>2. CASE h > m
    <3>1. h - 1 \in m..(Len(s) - 1) /\ (h - 1) + 1 = h
      BY <1>2, <2>2
    <3> QED BY <1>2, <2>2, <3>1
  <2> QED BY <2>1, <2>2
<1>6. at(i) < at(k)
  BY <1>1, <1>4
<1> HIDE DEF at
<1>7. /\ at(i) \in 1..Len(d) /\ d[at(i)] = a
      /\ at(k) \in 1..Len(d) /\ d[at(k)] = b
  BY <1>1, <1>4, <1>5
<1>8. Before(d, a, b)
  BY <1>6, <1>7 DEF Before
<1> QED BY <1>8 DEF d

(* Every operation keeps the waiting jobs in order.                        *)
LEMMA PendingKept ==
  ASSUME QueueInv, pending' = pending, active' \subseteq active
  PROVE  NoOvertaking
BY BeforeIsIn DEF QueueInv, QueueTypeOK, OneHome, NoOvertaking

LEMMA PendingGrows ==
  ASSUME QueueInv, active' = active,
         \/ \E e \in Job : pending' = Append(pending, e)
         \/ \E t \in Seq(Job) : pending' = pending \o t \/ pending' = t \o pending
  PROVE  NoOvertaking
<1> SUFFICES ASSUME NEW a \in Job, NEW b \in Job, Before(pending, a, b)
             PROVE  b \notin active' /\ Before(pending', a, b)
  BY DEF NoOvertaking
<1>1. pending \in Seq(Job) /\ b \notin active'
  BY BeforeIsIn DEF QueueInv, QueueTypeOK, OneHome
<1> QED BY <1>1, BeforeAppend, BeforeConcat

LEMMA PendingCleared ==
  ASSUME pending' = <<>>
  PROVE  NoOvertaking
BY EmptyElements DEF NoOvertaking

LEMMA PendingRemoved ==
  ASSUME QueueInv, active' = active, NEW i \in 1..Len(pending), pending' = RemoveAt(pending, i)
  PROVE  NoOvertaking
<1> SUFFICES ASSUME NEW a \in Job, NEW b \in Job, Before(pending, a, b), a \in ToSet(pending')
             PROVE  b \notin active' /\ (b \in ToSet(pending') => Before(pending', a, b))
  BY DEF NoOvertaking
<1>1. pending \in Seq(Job) /\ IsInjective(pending) /\ b \notin active'
  BY BeforeIsIn DEF QueueInv, QueueTypeOK, OneHome
<1> QED BY <1>1, BeforeRemoveAt

LEMMA PendingStarted ==
  ASSUME QueueInv, StartNext
  PROVE  NoOvertaking
<1> SUFFICES ASSUME NEW a \in Job, NEW b \in Job, Before(pending, a, b), a \in ToSet(pending')
             PROVE  b \notin active' /\ Before(pending', a, b)
  BY DEF NoOvertaking
<1>1. /\ pending \in Seq(Job) /\ IsInjective(pending) /\ pending # <<>>
      /\ pending' = Tail(pending) /\ active' = active \cup {Head(pending)}
      /\ b \notin active
  BY BeforeIsIn DEF QueueInv, QueueTypeOK, OneHome, StartNext
<1> QED BY <1>1, BeforeTail

LEMMA OrderIsKept ==
  ASSUME QueueInv, QueueNext
  PROVE  NoOvertaking
<1>0. pending \in Seq(Job) /\ failed \in Seq(Job)
  BY DEF QueueInv, QueueTypeOK
<1>1. CASE \E j \in Job : Enqueue(j)
  BY <1>1, PendingGrows DEF Enqueue
<1>2. CASE \E j \in Job : InsertFront(j)
  BY <1>2, OneElement, PendingGrows DEF InsertFront
<1>3. CASE StartNext
  BY <1>3, PendingStarted
<1>4. CASE \E j \in active : MarkCompleted(j) \/ MarkFailed(j) \/ MarkCancelled(j)
  <2>1. pending' = pending /\ active' \subseteq active
    BY <1>4 DEF MarkCompleted, MarkFailed, MarkCancelled
  <2> QED BY <2>1, PendingKept
<1>5. CASE RetryLastFailed \/ \E j \in Job : RetryFailed(j)
  <2>1. PICK i \in 1..Len(failed) : RetryAt(i)
    BY <1>0, <1>5, EmptySeq, LenProperties DEF RetryLastFailed, RetryFailed
  <2>2. failed[i] \in Job
    BY <1>0, ElementOfSeq
  <2> QED BY <2>1, <2>2, PendingGrows DEF RetryAt
<1>6. CASE RetryAllFailed
  BY <1>0, <1>6, PendingGrows DEF RetryAllFailed
<1>7. CASE \E j \in Job : RemovePending(j)
  BY <1>7, PendingRemoved DEF RemovePending
<1>8. CASE \E j \in Job : DismissFailed(j) \/ UpdateActiveProgress(j)
  <2>1. pending' = pending /\ active' = active
    BY <1>8 DEF DismissFailed, UpdateActiveProgress
  <2> QED BY <2>1, PendingKept
<1>9. CASE ClearPending
  BY <1>9, PendingCleared DEF ClearPending
<1> QED BY <1>1, <1>2, <1>3, <1>4, <1>5, <1>6, <1>7, <1>8, <1>9 DEF QueueNext

(* Of two waiting jobs the later one never starts first, and nothing swaps *)
(* them: StartNext, the retries, the removals and the front insertion.     *)
THEOREM JobsStartInOrder == QueueSpec => [][NoOvertaking]_queueVars
<1>1. QueueInv /\ [QueueNext]_queueVars => [NoOvertaking]_queueVars
  BY OrderIsKept
<1> QED BY <1>1, QueueInvariant, PTL DEF QueueSpec
=============================================================================
