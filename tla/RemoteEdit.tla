----------------------------- MODULE RemoteEdit -----------------------------
(***************************************************************************)
(* E on a remote file: it is downloaded to a cache file, the editor runs   *)
(* on that, and when the user changed it the remote file is looked at once *)
(* more and the cache file is uploaded.  One edit is prepared at a time;   *)
(* its two jobs go through the transfer queue, where they may fail, be     *)
(* retried, removed or cancelled.                                          *)
(*                                                                         *)
(* While the editor runs the event loop does not: its run is one step, and *)
(* what was on the way before it is handled after it.                      *)
(* Bounds: numbers of jobs and of changes; times are known.                *)
(***************************************************************************)
EXTENDS OverwriteRules

CONSTANTS
  Path,                 \* remote files; each has its own cache file
  NoPath,
  MaxJob, MaxStamp      \* bounds

ASSUME EditAssumption ==
  /\ NoPath \notin Path
  /\ MaxJob \in Nat /\ MaxStamp \in Nat

VARIABLES
  connected,
  in_flight,            \* None, Check (the listing for the edit) or Other
  worker_cancel_requested,
  prompt,
  edit_session,
  editor_ready, edit_check_remote,
  jobs,
  cache,                \* the content of the cache files
  remote,               \* the times of the remote files
  listed,               \* the times in the remote pane
  work,                 \* history: what became of the user's changes
  closed,               \* history: the remote time when the editor ended
  abandoned,            \* history: the session was left with nothing to do
  crossed               \* history: an edit began over a job of an earlier one

sessionVars == <<connected, in_flight, worker_cancel_requested>>
editVars == <<edit_session, editor_ready, edit_check_remote>>
dataVars == <<cache, remote, listed>>
historyVars == <<work, closed, abandoned, crossed>>
vars == <<sessionVars, prompt, editVars, jobs, dataVars, historyVars>>

NoEdit == [path |-> NoPath, seen |-> NoTime, fingerprint |-> "none"]

Editing == edit_session # NoEdit

JobId == 1..Len(jobs)

Init ==
  /\ connected = TRUE
  /\ in_flight = "None"
  /\ worker_cancel_requested = FALSE
  /\ prompt = "None"
  /\ edit_session = NoEdit
  /\ editor_ready = FALSE
  /\ edit_check_remote = FALSE
  /\ jobs = <<>>
  /\ cache = [p \in Path |-> "none"]
  /\ remote = [p \in Path |-> 0]
  /\ listed = [p \in Path |-> 0]
  /\ work = [p \in Path |-> "none"]
  /\ closed = 0
  /\ abandoned = FALSE
  /\ crossed = FALSE

-----------------------------------------------------------------------------
(* The parts the handlers share.                                           *)

Job(down, path, at, word) ==
  [down |-> down, path |-> path, cached |-> at, status |-> "pending", word |-> word]

Enqueues(job) ==
  /\ Len(jobs) < MaxJob
  /\ jobs' = Append(jobs, job)

(* Mutants: the file goes although it was to be kept; the flag that opens  *)
(* the editor is not reset.                                                *)
CancelRemoves(keep_temp) ==
  /\ edit_session' = NoEdit
  /\ cache' = IF keep_temp /\ Editing THEN [cache EXCEPT ![edit_session.path] = "none"]
              ELSE cache
  /\ editor_ready' = FALSE
  /\ edit_check_remote' = FALSE
  /\ abandoned' = FALSE

CancelKeepsReady(keep_temp) ==
  /\ edit_session' = NoEdit
  /\ edit_check_remote' = FALSE
  /\ abandoned' = FALSE
  /\ UNCHANGED <<cache, editor_ready>>

(* cancel_edit: the cache file goes or stays.                              *)
CancelsEdit(keep_temp) ==
  /\ edit_session' = NoEdit
  /\ cache' = IF keep_temp \/ ~Editing THEN cache
              ELSE [cache EXCEPT ![edit_session.path] = "none"]
  /\ editor_ready' = FALSE
  /\ edit_check_remote' = FALSE
  /\ abandoned' = FALSE

(* begin_edit_download; the cache directory may not be there to make.      *)
BeginEditDownload(edit) ==
  \/ /\ edit = NoEdit
     /\ UNCHANGED <<edit_session, jobs, worker_cancel_requested>>
  \/ /\ edit # NoEdit
     /\ Enqueues(Job(TRUE, edit.path, edit.path, "none"))
     /\ edit_session' = edit
     /\ worker_cancel_requested' = FALSE
  \/ /\ edit # NoEdit
     /\ edit_session' = NoEdit
     /\ UNCHANGED <<jobs, worker_cancel_requested>>

(* enqueue_edit_upload, to the file itself or under another name.  word is *)
(* history: how the remote file was looked at before.                      *)
EnqueuesUpload(path, word) ==
  IF Editing THEN Enqueues(Job(FALSE, path, edit_session.path, word))
             ELSE UNCHANGED jobs

-----------------------------------------------------------------------------
(* E, and the question about a large file, one above EDIT_SIZE_WARN_BYTES. *)

Unfinished == {"pending", "active", "moved", "failed"}

StartRemoteEdit(p, large) ==
  LET edit == [path |-> p, seen |-> listed[p], fingerprint |-> "none"]
  IN  /\ prompt = "None" /\ connected /\ ~Editing /\ in_flight = "None"
      /\ IF large
         THEN /\ edit_session' = edit
              /\ prompt' = "ConfirmEditLarge"
              /\ UNCHANGED <<jobs, worker_cancel_requested>>
         ELSE BeginEditDownload(edit) /\ UNCHANGED prompt
      /\ work' = [work EXCEPT ![p] = "none"]
      /\ crossed' = (crossed \/ \E j \in JobId : jobs[j].status \in Unfinished)
      /\ UNCHANGED <<connected, in_flight, editor_ready, edit_check_remote, dataVars,
                     closed, abandoned>>

AnswerLarge(yes) ==
  /\ prompt = "ConfirmEditLarge"
  /\ prompt' = "None"
  /\ IF yes
     THEN /\ BeginEditDownload(edit_session)
          /\ UNCHANGED <<editor_ready, edit_check_remote, cache, abandoned>>
     ELSE CancelsEdit(FALSE) /\ UNCHANGED <<jobs, worker_cancel_requested>>
  /\ UNCHANGED <<connected, in_flight, remote, listed, work, closed, crossed>>

-----------------------------------------------------------------------------
(* The workers and their results.                                          *)

(* Mutant: a worker waits until the session of the panes is free.          *)
JobStartsWhenIdle(j) ==
  /\ jobs[j].status = "pending"
  /\ connected /\ ~worker_cancel_requested /\ in_flight = "None"
  /\ jobs' = [jobs EXCEPT ![j].status = "active"]
  /\ cache' = IF jobs[j].down THEN [cache EXCEPT ![jobs[j].cached] = "partial"] ELSE cache
  /\ UNCHANGED <<sessionVars, prompt, editVars, remote, listed, historyVars>>

JobStarts(j) ==
  /\ jobs[j].status = "pending"
  /\ connected /\ ~worker_cancel_requested
  /\ jobs' = [jobs EXCEPT ![j].status = "active"]
  /\ cache' = IF jobs[j].down THEN [cache EXCEPT ![jobs[j].cached] = "partial"] ELSE cache
  /\ UNCHANGED <<sessionVars, prompt, editVars, remote, listed, historyVars>>

(* An upload of a cache file that is not there fails.                      *)
JobMoves(j) ==
  /\ jobs[j].status = "active"
  /\ jobs' = [jobs EXCEPT ![j].status = "moved"]
  /\ IF jobs[j].down
     THEN cache' = [cache EXCEPT ![jobs[j].cached] = "downloaded"] /\ UNCHANGED remote
     ELSE /\ cache[jobs[j].cached] # "none"
          /\ remote[jobs[j].path] < MaxStamp
          /\ remote' = [remote EXCEPT ![jobs[j].path] = @ + 1]
          /\ UNCHANGED cache
  /\ UNCHANGED <<sessionVars, prompt, editVars, listed, historyVars>>

(* A job that is over for good is told from another one by nobody.         *)
Gone == [down |-> FALSE, path |-> NoPath, cached |-> NoPath, status |-> "gone",
         word |-> "none"]

JobGoes(j) == jobs' = [jobs EXCEPT ![j] = Gone]

(* on_edit_download_complete, which may fail to protect the file, or take  *)
(* it for binary.                                                          *)
DownloadCompletes ==
  LET print == IF Editing THEN cache[edit_session.path] ELSE "none"
  IN  \/ /\ ~Editing
         /\ UNCHANGED <<prompt, edit_session, editor_ready, abandoned>>
      \/ /\ Editing
         /\ abandoned' = TRUE
         /\ UNCHANGED <<prompt, edit_session, editor_ready>>
      \/ /\ Editing
         /\ edit_session' = [edit_session EXCEPT !.fingerprint = print]
         /\ prompt' = "ConfirmEditBinary"
         /\ UNCHANGED <<editor_ready, abandoned>>
      \/ /\ Editing
         /\ edit_session' = [edit_session EXCEPT !.fingerprint = print]
         /\ editor_ready' = TRUE
         /\ UNCHANGED <<prompt, abandoned>>

(* handle_worker_result, of a job that moved its file.  With a cancel      *)
(* requested it counts as cancelled.  An upload of the session's cache     *)
(* file ends the session; the pane is listed again.                        *)
JobSucceeded(j) ==
  /\ jobs[j].status = "moved"
  /\ ~worker_cancel_requested
  /\ JobGoes(j)
  /\ IF jobs[j].down
     THEN DownloadCompletes /\ UNCHANGED <<in_flight, cache, work>>
     ELSE /\ in_flight' = IF in_flight = "None" THEN "Other" ELSE in_flight
          /\ work' = [work EXCEPT ![jobs[j].cached] = "none"]
          /\ UNCHANGED <<prompt, editor_ready>>
          /\ IF edit_session.path = jobs[j].cached
             THEN /\ cache' = [cache EXCEPT ![jobs[j].cached] = "none"]
                  /\ edit_session' = NoEdit
                  /\ abandoned' = FALSE
             ELSE UNCHANGED <<cache, edit_session, abandoned>>
  /\ UNCHANGED <<connected, worker_cancel_requested, edit_check_remote, remote, listed,
                 closed, crossed>>

(* Nothing but a retry brings an upload that failed back.                  *)
EndsBadly(j) ==
  /\ IF jobs[j].down THEN CancelsEdit(TRUE)
     ELSE /\ abandoned' = (abandoned \/ edit_session.path = jobs[j].cached)
          /\ UNCHANGED <<editVars, cache>>
  /\ UNCHANGED <<sessionVars, prompt, remote, listed, work, closed, crossed>>

(* Ctrl+C was pressed, or x on this job alone.                             *)
JobCancelled(j) ==
  /\ jobs[j].status \in {"active", "moved"}
  /\ JobGoes(j)
  /\ EndsBadly(j)

JobFailed(j) ==
  /\ jobs[j].status = "active"
  /\ ~worker_cancel_requested
  /\ jobs' = [jobs EXCEPT ![j].status = "failed"]
  /\ EndsBadly(j)

RetryJob(j) ==
  /\ prompt = "None"
  /\ jobs[j].status = "failed"
  /\ jobs' = [jobs EXCEPT ![j].status = "pending"]
  /\ worker_cancel_requested' = FALSE
  /\ abandoned' = (abandoned /\ edit_session.path # jobs[j].cached)
  /\ UNCHANGED <<connected, in_flight, prompt, editVars, dataVars, work, closed, crossed>>

(* x on a job of the queue pane that waits or failed; X for all that wait. *)
RemoveJob(j) ==
  /\ prompt = "None"
  /\ jobs[j].status \in {"pending", "failed"}
  /\ JobGoes(j)
  /\ abandoned' = (abandoned \/ edit_session.path = jobs[j].cached)
  /\ UNCHANGED <<sessionVars, prompt, editVars, dataVars, work, closed, crossed>>

CancelTransfers ==
  /\ prompt = "None"
  /\ worker_cancel_requested' = TRUE
  /\ UNCHANGED <<connected, in_flight, prompt, editVars, jobs, dataVars, historyVars>>

RetryKeys ==
  /\ prompt = "None"
  /\ worker_cancel_requested' = FALSE
  /\ UNCHANGED <<connected, in_flight, prompt, editVars, jobs, dataVars, historyVars>>

-----------------------------------------------------------------------------
(* The editor, and what the user did in it.                                *)

AnswerBinary(yes) ==
  /\ prompt = "ConfirmEditBinary"
  /\ prompt' = "None"
  /\ IF yes THEN /\ editor_ready' = TRUE
                 /\ UNCHANGED <<edit_session, edit_check_remote, cache, abandoned>>
            ELSE CancelsEdit(TRUE)
  /\ UNCHANGED <<sessionVars, jobs, remote, listed, work, closed, crossed>>

(* It could not be run, or ended with an error.                            *)
EditorFails ==
  /\ editor_ready /\ Editing
  /\ editor_ready' = FALSE
  /\ abandoned' = TRUE
  /\ UNCHANGED <<sessionVars, prompt, edit_session, edit_check_remote, jobs, dataVars,
                 work, closed, crossed>>

(* No session, or nothing to upload.                                       *)
EditorChangesNothing ==
  /\ editor_ready
  /\ CancelsEdit(FALSE)
  /\ UNCHANGED <<sessionVars, prompt, jobs, remote, listed, work, closed, crossed>>

(* finish_edit_after_editor: the folder is listed again, unless the session*)
(* to the server is gone or busy.                                          *)
EditorChanges ==
  LET p == edit_session.path
  IN  /\ editor_ready /\ Editing
      /\ editor_ready' = FALSE
      /\ cache' = [cache EXCEPT ![p] = "mine"]
      /\ work' = [work EXCEPT ![p] = "saved"]
      /\ closed' = remote[p]
      /\ CASE ~connected ->
                 abandoned' = TRUE /\ UNCHANGED <<in_flight, edit_check_remote, jobs>>
           [] connected /\ in_flight # "None" ->
                 /\ EnqueuesUpload(p, "unchecked")
                 /\ UNCHANGED <<in_flight, edit_check_remote, abandoned>>
           [] connected /\ in_flight = "None" ->
                 /\ edit_check_remote' = TRUE
                 /\ in_flight' = "Check"
                 /\ UNCHANGED <<jobs, abandoned>>
      /\ UNCHANGED <<connected, worker_cancel_requested, prompt, edit_session, remote,
                     listed, crossed>>

(* Mutant: only a file that was not changed is asked about.                *)
ListedSwapped(now) ==
  IF edit_check_remote /\ Editing
  THEN /\ listed' = [listed EXCEPT ![edit_session.path] = now]
       /\ IF DestIsNewer(now, edit_session.seen)
          THEN prompt' = "EditConflict" /\ UNCHANGED jobs
          ELSE EnqueuesUpload(edit_session.path, "checked") /\ UNCHANGED prompt
  ELSE UNCHANGED <<prompt, jobs, listed>>

(* The listing comes back: with the time the file had at some moment since *)
(* the editor ended, or with an error.  A session cancelled meanwhile has  *)
(* taken the flag with it.                                                 *)
Listed(now) ==
  IF edit_check_remote /\ Editing
  THEN /\ listed' = [listed EXCEPT ![edit_session.path] = now]
       /\ IF DestIsNewer(edit_session.seen, now)
          THEN prompt' = "EditConflict" /\ UNCHANGED jobs
          ELSE EnqueuesUpload(edit_session.path, "checked") /\ UNCHANGED prompt
  ELSE UNCHANGED <<prompt, jobs, listed>>

CheckAnswered ==
  /\ in_flight = "Check"
  /\ in_flight' = "None"
  /\ edit_check_remote' = FALSE
  /\ \E now \in IF Editing THEN closed..remote[edit_session.path] ELSE {0} :
        Listed(now)
  /\ UNCHANGED <<connected, worker_cancel_requested, edit_session, editor_ready, cache,
                 remote, historyVars>>

CheckFails ==
  /\ in_flight = "Check"
  /\ in_flight' = "None"
  /\ edit_check_remote' = FALSE
  /\ IF edit_check_remote THEN EnqueuesUpload(edit_session.path, "unchecked")
                          ELSE UNCHANGED jobs
  /\ UNCHANGED <<connected, worker_cancel_requested, prompt, edit_session, editor_ready,
                 dataVars, historyVars>>
-----------------------------------------------------------------------------
(* The question about a file that has changed on the server.               *)

AnswerConflict(choice) ==
  /\ prompt = "EditConflict"
  /\ prompt' = IF choice = "SaveAs" THEN "EditSaveAs" ELSE "None"
  /\ CASE choice = "Overwrite" ->
             /\ EnqueuesUpload(edit_session.path, "asked")
             /\ UNCHANGED <<editVars, cache, abandoned>>
       [] choice = "Skip" -> CancelsEdit(TRUE) /\ UNCHANGED jobs
       [] choice = "SaveAs" -> UNCHANGED <<editVars, cache, abandoned, jobs>>
  /\ UNCHANGED <<sessionVars, remote, listed, work, closed, crossed>>

(* The cache file goes to whatever name is given, looked at by nobody.     *)
SaveAs(p) ==
  /\ prompt = "EditSaveAs"
  /\ prompt' = "None"
  /\ EnqueuesUpload(p, "named")
  /\ UNCHANGED <<sessionVars, editVars, dataVars, historyVars>>

(* Esc, or a name that leaves the folder.                                  *)
SaveNowhere ==
  /\ prompt = "EditSaveAs"
  /\ prompt' = "None"
  /\ CancelsEdit(TRUE)
  /\ UNCHANGED <<sessionVars, jobs, remote, listed, work, closed, crossed>>

-----------------------------------------------------------------------------
(* The rest of the program.                                                *)

(* Ctrl+Q while a transfer runs: a choice prompt, whatever it asks, is     *)
(* taken down together with the edit; a text prompt is replaced, and the   *)
(* edit it was for is forgotten.  Without a transfer the program ends.     *)
KeyQuit ==
  /\ \E j \in JobId : jobs[j].status \in {"active", "moved"}
  /\ prompt' = "Choice"
  /\ IF prompt \in {"None", "EditSaveAs"}
     THEN /\ abandoned' = (abandoned \/ prompt = "EditSaveAs")
          /\ UNCHANGED <<editVars, cache>>
     ELSE CancelsEdit(edit_session.fingerprint # "none")
  /\ UNCHANGED <<sessionVars, jobs, remote, listed, work, closed, crossed>>

OpenChoice ==
  /\ prompt = "None"
  /\ prompt' = "Choice"
  /\ UNCHANGED <<sessionVars, editVars, jobs, dataVars, historyVars>>

CloseChoice ==
  /\ prompt = "Choice"
  /\ prompt' = "None"
  /\ UNCHANGED <<sessionVars, editVars, jobs, dataVars, historyVars>>

(* Jobs that failed stay; retried, they run on the next connection.        *)
Disconnect ==
  /\ prompt = "None" /\ connected
  /\ connected' = FALSE
  /\ in_flight' = "None"
  /\ worker_cancel_requested' = TRUE
  /\ jobs' = [j \in JobId |->
                IF jobs[j].status = "failed" THEN jobs[j] ELSE Gone]
  /\ CancelsEdit(TRUE)
  /\ UNCHANGED <<prompt, remote, listed, work, closed, crossed>>

Connect ==
  /\ prompt = "None" /\ ~connected
  /\ connected' = TRUE
  /\ listed' = [p \in Path |-> remote[p]]
  /\ UNCHANGED <<in_flight, worker_cancel_requested, prompt, editVars, jobs, cache, remote,
                 historyVars>>

(* Any other use of the session to the server, asked for by a key.         *)
OtherStarts ==
  /\ prompt = "None" /\ connected /\ in_flight = "None"
  /\ in_flight' = "Other"
  /\ UNCHANGED <<connected, worker_cancel_requested, prompt, editVars, jobs, dataVars,
                 historyVars>>

(* It may list the folder of a file.                                       *)
OtherEnds ==
  /\ in_flight = "Other"
  /\ in_flight' = "None"
  /\ listed' \in {listed, [p \in Path |-> remote[p]]}
  /\ UNCHANGED <<connected, worker_cancel_requested, prompt, editVars, jobs, cache, remote,
                 historyVars>>

OthersChange(p) ==
  /\ remote[p] < MaxStamp
  /\ remote' = [remote EXCEPT ![p] = @ + 1]
  /\ UNCHANGED <<sessionVars, prompt, editVars, jobs, cache, listed, historyVars>>

-----------------------------------------------------------------------------
JobEnds(j) == JobMoves(j) \/ JobSucceeded(j) \/ JobCancelled(j) \/ JobFailed(j)

Editor == EditorFails \/ EditorChangesNothing \/ EditorChanges

Next ==
  \/ \E p \in Path, large \in BOOLEAN : StartRemoteEdit(p, large)
  \/ \E p \in Path : SaveAs(p) \/ OthersChange(p)
  \/ \E yes \in BOOLEAN : AnswerLarge(yes) \/ AnswerBinary(yes)
  \/ \E j \in JobId : JobStarts(j) \/ JobEnds(j) \/ RetryJob(j) \/ RemoveJob(j)
  \/ CancelTransfers \/ RetryKeys
  \/ Editor
  \/ CheckAnswered \/ CheckFails
  \/ \E choice \in {"Overwrite", "Skip", "SaveAs"} : AnswerConflict(choice)
  \/ SaveNowhere
  \/ KeyQuit \/ OpenChoice \/ CloseChoice
  \/ Disconnect \/ Connect
  \/ OtherStarts \/ OtherEnds

Spec == Init /\ [][Next]_vars

(* The event loop runs, every report of a worker or a task arrives within  *)
(* its timeout, a waiting job is started while nothing forbids it, and the *)
(* user leaves the editor.                                                 *)
Fairness ==
  /\ \A j \in 1..MaxJob : WF_vars(j \in JobId /\ JobStarts(j))
  /\ \A j \in 1..MaxJob : WF_vars(j \in JobId /\ JobEnds(j))
  /\ WF_vars(Editor)
  /\ WF_vars(CheckAnswered \/ CheckFails)
  /\ WF_vars(OtherEnds)

FairSpec == Spec /\ Fairness

-----------------------------------------------------------------------------
Content == {"none", "partial", "downloaded", "mine"}

EditPrompt == {"ConfirmEditLarge", "ConfirmEditBinary", "EditConflict", "EditSaveAs"}

JobRecord ==
  [down : BOOLEAN, path : Path, cached : Path, status : Unfinished,
   word : {"none", "unchecked", "checked", "asked", "named"}]

TypeOK ==
  /\ connected \in BOOLEAN /\ worker_cancel_requested \in BOOLEAN
  /\ in_flight \in {"None", "Check", "Other"}
  /\ prompt \in {"None", "Choice"} \cup EditPrompt
  /\ edit_session \in [path : Path \cup {NoPath}, seen : -1..MaxStamp,
                       fingerprint : Content]
  /\ editor_ready \in BOOLEAN /\ edit_check_remote \in BOOLEAN
  /\ jobs \in Seq(JobRecord \cup {Gone}) /\ Len(jobs) <= MaxJob
  /\ cache \in [Path -> Content]
  /\ remote \in [Path -> 0..MaxStamp]
  /\ listed \in [Path -> 0..MaxStamp]
  /\ work \in [Path -> {"none", "saved"}]
  /\ closed \in 0..MaxStamp
  /\ abandoned \in BOOLEAN /\ crossed \in BOOLEAN

(* What the user changed in the editor stays in the cache file until it is *)
(* uploaded or the file is edited anew: no cancel, failed transfer,        *)
(* disconnect or quit removes it.  Only a job left over from an earlier    *)
(* edit may.                                                               *)
WorkIsKept == crossed \/ \A p \in Path : work[p] = "saved" => cache[p] = "mine"

(* The editor opens the file that was downloaded for this edit, whole, and *)
(* no part of it, unless a job of an earlier edit was left: what completes *)
(* then is taken for the download of this one.                             *)
EditorOpensItsDownload ==
  editor_ready /\ ~crossed => Editing /\ cache[edit_session.path] = "downloaded"

(* The next listing to arrive is taken for the check before the upload:    *)
(* while the flag is set that listing is the one on its way.               *)
CheckIsItsOwn == edit_check_remote => in_flight = "Check"

(* E is refused while a session is there.  So a session has a prompt, an   *)
(* editor, a check or a job that will take it on, or one of the events     *)
(* that leave it behind has happened.                                      *)
EditMovesOn ==
  Editing =>
    \/ abandoned \/ crossed
    \/ prompt \in EditPrompt
    \/ editor_ready \/ edit_check_remote
    \/ \E j \in JobId : /\ jobs[j].cached = edit_session.path
                        /\ jobs[j].status \in {"pending", "active", "moved"}

(* The invariant of an edit: every flag is about the edit it was set for,  *)
(* and a session is never there without something that takes it on.        *)
EditInv == TypeOK /\ EditorOpensItsDownload /\ CheckIsItsOwn /\ EditMovesOn

(* A file that had changed on the server by the time the editor was left   *)
(* is not uploaded over on the strength of the check.                      *)
CheckedMeansUnchanged ==
  [][Len(jobs') > Len(jobs) =>
       LET job == jobs'[Len(jobs')]
       IN  job.word = "checked" => closed <= edit_session.seen]_vars

(* As above, however the upload came about: a change is asked about.       *)
ConflictsAreAsked ==
  [][Len(jobs') > Len(jobs) =>
       LET job == jobs'[Len(jobs')]
       IN  job.word \in {"checked", "unchecked"} => closed' <= edit_session.seen]_vars

(* An edit ends or asks the user, unless transfers are held back or the    *)
(* session was left behind.                                                *)
EditEnds ==
  Editing ~> \/ ~Editing \/ prompt # "None"
             \/ abandoned \/ worker_cancel_requested
             \/ Len(jobs) = MaxJob
=============================================================================
