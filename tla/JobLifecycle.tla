---------------------------- MODULE JobLifecycle ----------------------------
(***************************************************************************)
(* What dd_ftp promises about transfers, with no queue, no worker and no   *)
(* channel: the life of each job, and the server it runs on.  WorkerPool   *)
(* implements this specification.                                          *)
(***************************************************************************)
EXTENDS Naturals, FiniteSets

CONSTANTS Job, Server, NoServer, WORKER_MAX_CONCURRENCY_LIMIT

VARIABLES
  status,          \* of each job; "new" before it is queued
  runs_on,         \* the server an active job runs on
  server           \* the server in use, or NoServer

vars == <<status, runs_on, server>>

Init ==
  /\ status = [j \in Job |-> "new"]
  /\ runs_on = [j \in Job |-> NoServer]
  /\ server = NoServer

Jobs(s) == {j \in Job : status[j] = s}

Becomes(S, s) ==
  /\ status' = [j \in Job |-> IF j \in S THEN s ELSE status[j]]
  /\ runs_on' = [j \in Job |-> IF j \in S THEN NoServer ELSE runs_on[j]]

(* Jobs are queued for the server in use.                                  *)
Queue(j) ==
  /\ server # NoServer
  /\ j \in Jobs("new")
  /\ Becomes({j}, "pending")
  /\ UNCHANGED server

Start(j) ==
  /\ server # NoServer
  /\ j \in Jobs("pending")
  /\ Cardinality(Jobs("active")) < WORKER_MAX_CONCURRENCY_LIMIT
  /\ status' = [status EXCEPT ![j] = "active"]
  /\ runs_on' = [runs_on EXCEPT ![j] = server]
  /\ UNCHANGED server

Finish(j) ==
  /\ j \in Jobs("active")
  /\ \E s \in {"completed", "failed", "cancelled"} : Becomes({j}, s)
  /\ UNCHANGED server

(* The user retries failed jobs and removes waiting or failed ones.        *)
Retry(S) ==
  /\ S \subseteq Jobs("failed")
  /\ Becomes(S, "pending")
  /\ UNCHANGED server

Remove(S) ==
  /\ S \subseteq Jobs("failed") \cup Jobs("pending")
  /\ Becomes(S, "removed")
  /\ UNCHANGED server

GoOnline ==
  /\ server = NoServer
  /\ server' \in Server
  /\ UNCHANGED <<status, runs_on>>

(* Leaving a server cancels its active jobs and removes the waiting ones.  *)
GoOffline ==
  /\ server # NoServer
  /\ server' = NoServer
  /\ status' = [j \in Job |-> CASE status[j] = "active" -> "cancelled"
                                [] status[j] = "pending" -> "removed"
                                [] OTHER -> status[j]]
  /\ runs_on' = [j \in Job |-> NoServer]

Next ==
  \/ \E j \in Job : Queue(j) \/ Start(j) \/ Finish(j)
  \/ \E S \in SUBSET Job : Retry(S) \/ Remove(S)
  \/ GoOnline
  \/ GoOffline

Spec == Init /\ [][Next]_vars
=============================================================================
