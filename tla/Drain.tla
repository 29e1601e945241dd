------------------------------- MODULE Drain -------------------------------
(***************************************************************************)
(* From the entries the user asks to transfer to the jobs in the queue.    *)
(* Folders are scanned by a task; the files wait in pending_scan and are   *)
(* drained from its front: a download is compared with what is on the      *)
(* disk, an upload with a listing of its folder, which is made when the    *)
(* listing fails.  A conflict is settled by the policy or by the user.     *)
(*                                                                         *)
(* The session of the user interface, which lists and makes folders, is    *)
(* that of UiSession, on a server without a host key.  Of its other users  *)
(* the listing of the pane and the deletes of moved sources are here.  A   *)
(* text prompt is not told from none: the drain takes no notice of it.     *)
(*                                                                         *)
(* Bounds: one connection, up at first; a file is asked for once; one      *)
(* folder is scanned, and it is the only one to be made on the server;     *)
(* "Choice" is any choice prompt but the one about overwriting, and only   *)
(* the keys open it.                                                       *)
(***************************************************************************)
EXTENDS UiSession, SequencesExt, OverwriteRules

CONSTANTS
  File, NoFile,
  Upload,               \* the files on this side; the others are downloaded
  InFolder,             \* the files that a scan of their folder finds
  FileName(_),          \* their names, to which renames append suffixes
  OtherNames,           \* names taken at every place
  DefaultPolicy,        \* of the settings
  Newer,                \* bound: the files with a newer one at their destination
  Answers, NewNames,    \* bounds: the answers to the overwrite prompt
  Batches,              \* bound: the sets of files asked for at once
  Movable,              \* bound: the batches that may be moves
  MayCancel             \* bound: whether Ctrl+C is pressed

ASSUME FileAssumption ==
  /\ MaxGeneration # 0
  /\ IsFiniteSet(File) /\ NoFile \notin File
  /\ \A f \in File : FileName(f) \in Seq(STRING)
  /\ NewNames \subseteq Seq(STRING)
  /\ Upload \subseteq File
  /\ InFolder \subseteq File
  /\ FtpServer = Server
  /\ DefaultPolicy \in {"Ask", "SkipAll", "OverwriteAll"}
  /\ \A S \in Batches : S \subseteq File /\ (S \subseteq Upload \/ S \cap Upload = {})
  /\ Movable \subseteq Batches
  /\ MayCancel \in BOOLEAN

VARIABLES
  pending_scan,
  scan_generation,      \* 0: no scan
  scan_delete_source,
  walk,                 \* the scan task
  drain_list, drain_mkdir, mkdir_queue,
  overwrite_policy,
  listed_dest_names,
  worker_cancel_requested,
  pending_delete,
  file,                 \* name at the destination, delete_source, and what
                        \* became of the file
  errand,               \* what a task does for which file, and what it found
  exists,               \* what is there, as place and name
  original,             \* history: what was there at first
  folder,               \* whether the remote folder is there
  about,                \* history: the file the drain asked for last
  leaked                \* history: a choice for the rest outlived its batch

scanVars == <<scan_generation, scan_delete_source, walk>>
drainVars == <<pending_scan, drain_list, drain_mkdir, mkdir_queue, overwrite_policy,
               listed_dest_names, file, about, leaked>>
diskVars == <<exists, original, folder>>
vars == <<uiVars, scanVars, drainVars, diskVars, errand, worker_cancel_requested,
          pending_delete>>

Place(f) == <<f \in Upload, f \in InFolder>>

Target(f) == <<Place(f), FileName(f)>>

DestOf(f) == <<Place(f), file[f].name>>

NoErrand == [kind |-> "none", file |-> NoFile, found |-> {}]

NoWalk == [pc |-> "idle", left |-> <<>>, upload |-> FALSE, generation |-> 0]

Connected ==
  /\ connected = TRUE
  /\ active_connection \in Server
  /\ generation = 1
  /\ handle = 1
  /\ wanted = active_connection
  /\ in_flight = NotInFlight
  /\ park = NoSession
  /\ prompt = "None"
  /\ io_rx = <<>>
  /\ io = [t \in IoTask |-> IdleIo]
  /\ known_hosts = {} /\ approved = {}
  /\ clean = TRUE

Init ==
  /\ Connected
  /\ pending_scan = <<>>
  /\ scan_generation = 0
  /\ scan_delete_source = FALSE
  /\ walk = NoWalk
  /\ drain_list = FALSE /\ drain_mkdir = FALSE
  /\ mkdir_queue = <<>>
  /\ overwrite_policy = DefaultPolicy
  /\ listed_dest_names = {}
  /\ worker_cancel_requested = FALSE
  /\ pending_delete = <<>>
  /\ file = [f \in File |-> [name |-> FileName(f), delete_source |-> FALSE,
                             fate |-> "none"]]
  /\ errand = [t \in IoTask |-> NoErrand]
  /\ folder \in BOOLEAN
  /\ LET there == {f \in File : f \in Upload \cap InFolder => folder}
     IN  \E S \in SUBSET there :
           exists = {Target(f) : f \in S} \cup {<<Place(f), n>> : f \in there, n \in OtherNames}
  /\ original = exists
  /\ about = NoFile
  /\ leaked = FALSE

InQueue(f) == file[f].fate \in {"free", "allowed", "renamed", "parked", "unlisted"}

DrainBusy == pending_scan # <<>> \/ scan_generation # 0 \/ drain_list \/ drain_mkdir

-----------------------------------------------------------------------------
(* The drain, as functions of what it changes.                             *)

Now == [pending |-> pending_scan, file |-> file, policy |-> overwrite_policy,
        listed |-> listed_dest_names, mkdirs |-> mkdir_queue,
        cancelled |-> worker_cancel_requested, leaked |-> leaked]

PopAs(d, fate) ==
  [d EXCEPT !.pending = Tail(@), !.file[Head(d.pending)].fate = fate]

NamesAt(place) == {n \in {e[2] : e \in exists} : <<place, n>> \in exists}

(* Mutant: the listing is not looked at.                                   *)
NamesThatWait(d) == {d.file[f].name : f \in ToSet(Tail(d.pending))}

(* apply_auto_rename of the front file: free on the disk, or free among    *)
(* the names listed and the names of the files that wait.                  *)
TakenNames(d) ==
  IF Head(d.pending) \in Upload
  THEN d.listed \cup {d.file[f].name : f \in ToSet(Tail(d.pending))}
  ELSE NamesAt(Place(Head(d.pending)))

AutoRenamed(d) ==
  LET f == Head(d.pending)
      unique == Uniquify(d.file[f].name, TakenNames(d))
  IN  [PopAs(d, "renamed") EXCEPT
         !.file[f].name = unique,
         !.listed = IF f \in Upload THEN @ \cup {unique} ELSE @]

(* The front file once its destination is known.                           *)
Resolved(d, there) ==
  CASE ResolveConflict(there, Head(d.pending) \in Newer, d.policy) = "Enqueue" ->
         PopAs(d, IF there THEN "allowed" ELSE "free")
    [] ResolveConflict(there, Head(d.pending) \in Newer, d.policy) = "Skip" ->
         PopAs(d, "skipped")
    [] ResolveConflict(there, Head(d.pending) \in Newer, d.policy) = "RenameAuto" ->
         AutoRenamed(d)
    [] OTHER -> d

(* A download is compared with the disk, whatever is drained before it.    *)
Compared(d, f) ==
  Resolved([d EXCEPT !.pending = <<f>>], <<Place(f), d.file[f].name>> \in exists)

NeedsAnswer(d, f) == f \in Upload \/ Compared(d, f).pending # <<>>

FrontSettled(d, n) ==
  [d EXCEPT !.pending = SubSeq(@, n + 1, Len(@)),
            !.file = [f \in File |-> IF \E i \in 1..n : d.pending[i] = f
                                     THEN Compared(d, f).file[f] ELSE @[f]]]

(* The loop of drain_scan_next, up to the first file that needs a listing  *)
(* or an answer.                                                           *)
DownloadsDrained(d) ==
  LET first == SelectInSeq(d.pending, LAMBDA f : NeedsAnswer(d, f))
  IN  FrontSettled(d, IF first = 0 THEN Len(d.pending) ELSE first - 1)

BatchEnds(d) ==
  [d EXCEPT !.policy = DefaultPolicy, !.mkdirs = <<>>, !.leaked = FALSE]

(* A batch whose last file is settled here ends without the reset above.   *)
HeldUp(d) == [d EXCEPT !.leaked = @ \/ (d.pending = <<>> /\ ~d.cancelled)]

Keeps(d) ==
  /\ pending_scan' = d.pending
  /\ file' = d.file
  /\ overwrite_policy' = d.policy
  /\ listed_dest_names' = d.listed
  /\ mkdir_queue' = d.mkdirs
  /\ leaked' = d.leaked

Idles(t, session, d, shown) ==
  /\ Keeps(d)
  /\ Finishes(t, session)
  /\ prompt' = shown
  /\ errand' = [errand EXCEPT ![t] = NoErrand]
  /\ drain_list' = FALSE /\ drain_mkdir' = FALSE

(* Task t goes on an errand for the front file.                            *)
AsksFor(t, session, d, kind, shown) ==
  /\ Keeps(d)
  /\ about' = Head(d.pending)
  /\ SpawnsInto(t, IF kind = "list" THEN "List" ELSE "Fs", session, TRUE)
  /\ errand' = [errand EXCEPT ![t] = [NoErrand EXCEPT !.kind = kind,
                                                      !.file = Head(d.pending)]]
  /\ drain_list' = (kind = "list")
  /\ drain_mkdir' = (kind = "mkdir")
  /\ prompt' = shown

(* show_overwrite_prompt: whatever prompt is on the screen gives way.      *)
AsksUser(t, session, d) ==
  /\ Idles(t, session, d, "Overwrite")
  /\ about' = Head(d.pending)

(* Mutant: an open question does not hold the drain up.                    *)
NothingHolds(d, shown) == d.cancelled

Holds(d, shown) == d.cancelled \/ shown \in {"Choice", "Overwrite", "Rename"}

(* drain_scan_next, once t has brought the session back.                   *)
DrainScanNext(t, session, d, shown) ==
  LET r == DownloadsDrained(d)
  IN  CASE Holds(d, shown) -> Idles(t, session, HeldUp(d), shown) /\ UNCHANGED about
        [] ~Holds(d, shown) /\ r.pending = <<>> ->
             Idles(t, session, BatchEnds(r), shown) /\ UNCHANGED about
        [] ~Holds(d, shown) /\ r.pending # <<>> /\ Head(r.pending) \in Upload ->
             AsksFor(t, session, r, "list", shown)
        [] OTHER -> AsksUser(t, session, r)

(* drain_scan_next from a key or a scan: the session may be out.           *)
DrainFromKey(d, shown) ==
  IF IoBusy
  THEN /\ Keeps(HeldUp(d))
       /\ prompt' = shown
       /\ UNCHANGED <<in_flight, io, handle, errand, drain_list, drain_mkdir, about>>
  ELSE \E t \in IoTask : io[t].pc = "idle" /\ DrainScanNext(t, handle, d, shown)

-----------------------------------------------------------------------------
(* Deletes of the sources of finished moves, and listings of the pane.     *)

Sends(t, session, d, kind, errand_kind, remote, f) ==
  /\ Keeps(d)
  /\ SpawnsInto(t, kind, session, remote)
  /\ errand' = [errand EXCEPT ![t] = [NoErrand EXCEPT !.kind = errand_kind, !.file = f]]
  /\ UNCHANGED <<drain_list, drain_mkdir, about, prompt>>

StartNextDelete(t, session, d, queue) ==
  IF Head(queue) \notin Upload /\ ~connected
  THEN pending_delete' = <<>> /\ Idles(t, session, d, prompt) /\ UNCHANGED about
  ELSE /\ pending_delete' = queue
       /\ Sends(t, session, d, "Fs", "delete", Head(queue) \notin Upload, Head(queue))

Relists(t, session, d) == Sends(t, session, d, "List", "none", TRUE, NoFile)

(* Mutant: nobody goes on with the drain.                                  *)
NeverResumes(t, session, queue) ==
  Idles(t, session, Now, prompt) /\ UNCHANGED about /\ pending_delete' = queue

MaybeResume(t, session, queue) ==
  CASE ~worker_cancel_requested /\ scan_generation = 0 /\ pending_scan # <<>> ->
         DrainScanNext(t, session, Now, prompt) /\ pending_delete' = queue
    [] ~worker_cancel_requested /\ scan_generation = 0 /\ pending_scan = <<>>
       /\ queue # <<>> -> StartNextDelete(t, session, Now, queue)
    [] OTHER -> /\ Idles(t, session, Now, prompt)
                /\ UNCHANGED about
                /\ pending_delete' = queue

-----------------------------------------------------------------------------
(* Reports of the tasks.                                                   *)

(* handle_drain_list_result.                                               *)
ListedForDrain(t) ==
  LET d == [Now EXCEPT !.listed = errand[t].found]
      there == file[Head(pending_scan)].name \in errand[t].found
  IN  IF ResolveConflict(there, Head(pending_scan) \in Newer, overwrite_policy) = "Prompt"
      THEN AsksUser(t, Adopted, d)
      ELSE DrainScanNext(t, Adopted, Resolved(d, there), prompt)

ParentOf(f) == IF f \in InFolder THEN <<"folder">> ELSE <<>>

NotListedForDrain(t) ==
  LET chain == MkdirChain(<<>>, ParentOf(Head(pending_scan)))
  IN  IF chain = <<>>
      THEN DrainScanNext(t, Adopted, PopAs(Now, "dropped"), prompt)
      ELSE AsksFor(t, Adopted, [Now EXCEPT !.mkdirs = chain], "mkdir", prompt)

DrainForgets(t) == Idles(t, Adopted, Now, prompt) /\ UNCHANGED about

ListDoneForDrain(t) ==
  /\ TakesReport("List", t)
  /\ drain_list
  /\ CASE worker_cancel_requested \/ pending_scan = <<>> -> DrainForgets(t)
       [] ~worker_cancel_requested /\ pending_scan # <<>> /\ io[t].ok -> ListedForDrain(t)
       [] OTHER -> NotListedForDrain(t)
  /\ UNCHANGED <<scanVars, diskVars, worker_cancel_requested, pending_delete>>

ListDoneForPane(t) ==
  /\ TakesReport("List", t)
  /\ ~drain_list
  /\ MaybeResume(t, Adopted, pending_delete)
  /\ UNCHANGED <<scanVars, diskVars, worker_cancel_requested>>

(* drain_mkdir_outcome: the server says that the folder is there already.  *)
Made(t) == io[t].ok \/ errand[t].found # {}

(* handle_drain_mkdir_result: the file of the last folder made is not      *)
(* looked for.                                                             *)
FolderMade(t) ==
  LET left == IF mkdir_queue = <<>> THEN <<>> ELSE Tail(mkdir_queue)
      d == [Now EXCEPT !.mkdirs = left]
  IN  IF left # <<>> THEN AsksFor(t, Adopted, d, "mkdir", prompt)
      ELSE DrainScanNext(t, Adopted,
             IF pending_scan = <<>> THEN d ELSE PopAs(d, "unlisted"), prompt)

FolderNotMade(t) ==
  LET d == [Now EXCEPT !.mkdirs = <<>>]
  IN  DrainScanNext(t, Adopted,
        IF pending_scan = <<>> THEN d ELSE PopAs(d, "dropped"), prompt)

FsDoneForDrain(t) ==
  /\ TakesReport("Fs", t)
  /\ drain_mkdir
  /\ CASE worker_cancel_requested -> DrainForgets(t)
       [] ~worker_cancel_requested /\ Made(t) -> FolderMade(t)
       [] OTHER -> FolderNotMade(t)
  /\ UNCHANGED <<scanVars, diskVars, worker_cancel_requested, pending_delete>>

(* Any other file operation; a delete that succeeded leaves the queue, one *)
(* that failed takes the queue with it.                                    *)
FsDoneForPane(t) ==
  LET queue == IF errand[t].kind # "delete" \/ pending_delete = <<>> THEN pending_delete
               ELSE IF io[t].ok THEN Tail(pending_delete) ELSE <<>>
  IN  /\ TakesReport("Fs", t)
      /\ ~drain_mkdir
      /\ CASE pending_scan # <<>> \/ ~io[t].ok -> MaybeResume(t, Adopted, queue)
           [] pending_scan = <<>> /\ io[t].ok /\ queue # <<>> ->
                StartNextDelete(t, Adopted, Now, queue)
           [] OTHER -> /\ pending_delete' = queue
                       /\ IF io[t].remote /\ connected THEN Relists(t, Adopted, Now)
                          ELSE Idles(t, Adopted, Now, prompt) /\ UNCHANGED about
      /\ UNCHANGED <<scanVars, diskVars, worker_cancel_requested>>

StaleReport(t) ==
  /\ StaleWorkDone(t)
  /\ errand' = [errand EXCEPT ![t] = NoErrand]
  /\ UNCHANGED <<scanVars, drainVars, diskVars, worker_cancel_requested,
                 pending_delete>>

(* A listing finds what is there; a folder is made once, and not every     *)
(* server says that one is there already.                                  *)
Work(t) ==
  /\ IoStep(t)
  /\ IF io[t].pc = "work"
     THEN LET here == Place(errand[t].file)
          IN  CASE errand[t].kind = "list" ->
                     /\ io'[t].ok /\ here[2] => folder
                     /\ errand' = [errand EXCEPT ![t].found =
                                     IF io'[t].ok THEN NamesAt(here) ELSE {}]
                     /\ UNCHANGED folder
                [] errand[t].kind = "mkdir" ->
                     /\ io'[t].ok => ~folder
                     /\ folder' = (folder \/ io'[t].ok)
                     /\ \E says \in BOOLEAN :
                          /\ says => folder
                          /\ errand' = [errand EXCEPT ![t].found =
                                          IF says THEN {<<"folder">>} ELSE {}]
                [] OTHER -> UNCHANGED <<errand, folder>>
     ELSE UNCHANGED <<errand, folder>>
  /\ UNCHANGED <<scanVars, drainVars, exists, original, worker_cancel_requested,
                 pending_delete>>

-----------------------------------------------------------------------------
(* The scan of a folder.                                                   *)

Message(kind, f) == [kind |-> kind, task |-> f]

ScanSends(m, change) ==
  /\ walk.pc = "walking"
  /\ io_rx' = Append(io_rx, m)
  /\ walk' = change
  /\ UNCHANGED <<connVars, in_flight, handle, park, prompt, io, trustVars,
                 scan_generation, scan_delete_source, drainVars, diskVars, errand,
                 worker_cancel_requested, pending_delete>>

ScanFinds ==
  /\ walk.left # <<>>
  /\ ScanSends(Message("ScanItem", Head(walk.left)),
               [walk EXCEPT !.left = Tail(@)])

ScanEnds ==
  /\ walk.left = <<>>
  /\ ScanSends(Message("ScanDone", NoFile), [walk EXCEPT !.pc = "over"])

(* A local walk sends nothing before it has seen everything.               *)
ScanFails ==
  /\ walk.upload => ToSet(walk.left) = InFolder \cap Upload
  /\ ScanSends(Message("ScanError", NoFile), [walk EXCEPT !.pc = "over"])

ReceivesScan(kind, f) ==
  /\ io_rx # <<>>
  /\ Head(io_rx) = Message(kind, f)
  /\ io_rx' = Tail(io_rx)
  /\ UNCHANGED <<connVars, park, trustVars, diskVars, worker_cancel_requested,
                 pending_delete, walk, scan_delete_source>>

Scanning == walk.generation = generation /\ scan_generation = walk.generation

ScanItem(f) ==
  /\ ReceivesScan("ScanItem", f)
  /\ IF ~Scanning THEN UNCHANGED <<file, pending_scan>>
     ELSE IF worker_cancel_requested
     THEN file' = [file EXCEPT ![f].fate = "parked"] /\ UNCHANGED pending_scan
     ELSE /\ pending_scan' = Append(pending_scan, f)
          /\ file' = [file EXCEPT ![f].delete_source = scan_delete_source]
  /\ UNCHANGED <<in_flight, handle, prompt, io, errand, scan_generation, drain_list,
                 drain_mkdir, mkdir_queue, overwrite_policy, listed_dest_names, about, leaked>>

(* Nothing waits any more, and the files in S go the same way.             *)
Given(d, S, fate) ==
  [d EXCEPT !.pending = <<>>,
            !.file = [f \in File |-> IF f \in S THEN [@[f] EXCEPT !.fate = fate] ELSE @[f]]]

WaitsIn(d) == {f \in File : d.file[f].fate = "waiting"}

(* Mutant: what is queued goes on waiting as well.                         *)
ParkedTwice == BatchEnds([Given(Now, ToSet(pending_scan), "parked") EXCEPT
                            !.pending = pending_scan])

(* park_pending_scan: all that waits is queued, unseen.                    *)
Parked == BatchEnds(Given(Now, ToSet(pending_scan), "parked"))

(* clear_scan_state.                                                       *)
Cleared == BatchEnds(Given(Now, WaitsIn(Now), "dropped"))

ScanDone ==
  /\ ReceivesScan("ScanDone", NoFile)
  /\ IF ~Scanning
     THEN UNCHANGED <<in_flight, handle, prompt, io, errand, drainVars, scan_generation>>
     ELSE /\ scan_generation' = 0
          /\ IF worker_cancel_requested
             THEN /\ Keeps(Parked)
                  /\ UNCHANGED <<in_flight, handle, prompt, io, errand, drain_list,
                                 drain_mkdir, about>>
             ELSE DrainFromKey(Now, prompt)

ScanError ==
  /\ ReceivesScan("ScanError", NoFile)
  /\ IF ~Scanning THEN UNCHANGED <<drainVars, scan_generation>>
     ELSE /\ scan_generation' = 0
          /\ Keeps(Cleared)
          /\ drain_list' = FALSE /\ drain_mkdir' = FALSE
          /\ UNCHANGED about
  /\ UNCHANGED <<in_flight, handle, prompt, io, errand>>

Handle ==
  \/ \E t \in IoTask : ListDoneForDrain(t) \/ ListDoneForPane(t) \/ FsDoneForDrain(t)
                       \/ FsDoneForPane(t) \/ StaleReport(t)
  \/ (\E f \in File : ScanItem(f))
  \/ ScanDone \/ ScanError

-----------------------------------------------------------------------------
(* Keys.                                                                   *)

(* u, d and m on entries of one pane: the files S, some in the folder.     *)
EnqueueEntries(S, move) ==
  LET plain == S \ InFolder
      walked == S \cap InFolder
      d == [Now EXCEPT
              !.cancelled = FALSE,
              !.pending = SetToSeq(plain),
              !.file = [f \in File |->
                 IF f \in S THEN [@[f] EXCEPT !.fate = "waiting",
                                              !.delete_source = move /\ f \in plain]
                            ELSE @[f]]]
  IN  /\ prompt = "None" /\ connected
      /\ ~DrainBusy /\ ~IoBusy
      /\ \A f \in S : file[f].fate = "none"
      /\ worker_cancel_requested' = FALSE
      /\ IF walked = {}
         THEN DrainFromKey(d, prompt) /\ UNCHANGED scanVars
         ELSE /\ Keeps(d)
              /\ scan_generation' = generation
              /\ scan_delete_source' = move
              /\ walk' = [pc |-> "walking", left |-> SetToSeq(walked),
                          upload |-> walked \subseteq Upload,
                          generation |-> generation]
              /\ UNCHANGED <<in_flight, io, handle, prompt, errand, drain_list,
                             drain_mkdir, about>>
      /\ UNCHANGED <<connVars, park, io_rx, trustVars, diskVars, pending_delete>>

Asking == prompt = "Overwrite" /\ pending_scan # <<>>

PolicyOf(answer) ==
  IF answer \in Policy THEN answer ELSE overwrite_policy

(* apply_overwrite_choice: what becomes of the front file.                 *)
Settled(answer) ==
  LET d == [Now EXCEPT !.policy = PolicyOf(answer)]
  IN  CASE answer \in {"Overwrite", "OverwriteAll", "OverwriteNewer"} ->
             PopAs(d, "allowed")
        [] answer \in {"Skip", "SkipAll", "SkipNewer"} -> PopAs(d, "skipped")
        [] OTHER -> AutoRenamed(d)

AnswerOverwrite(answer) ==
  /\ Asking
  /\ DrainFromKey(Settled(answer), "None")
  /\ UNCHANGED <<connVars, park, io_rx, trustVars, scanVars, diskVars,
                 worker_cancel_requested, pending_delete>>

(* Esc, and Ctrl+Q, which goes on to the question whether to quit.         *)
AbortDrain(shown) ==
  /\ Asking
  /\ Keeps(Cleared)
  /\ scan_generation' = 0
  /\ drain_list' = FALSE /\ drain_mkdir' = FALSE
  /\ prompt' = shown
  /\ UNCHANGED <<connVars, in_flight, handle, park, io_rx, io, trustVars, walk,
                 scan_delete_source, diskVars, errand, worker_cancel_requested,
                 pending_delete, about>>

Prompts(shown) ==
  /\ prompt' = shown
  /\ UNCHANGED <<connVars, in_flight, handle, park, io_rx, io, trustVars, scanVars,
                 drainVars, diskVars, errand, worker_cancel_requested, pending_delete>>

AskName == Asking /\ Prompts("Rename")

(* Esc while the new name is asked for.                                    *)
AskAgain == prompt = "Rename" /\ Prompts("Overwrite")

(* apply_overwrite_rename, with a name that fits.                          *)
RenameFront(name) ==
  /\ prompt = "Rename"
  /\ DrainFromKey([Now EXCEPT !.file[Head(pending_scan)].name = name], "None")
  /\ UNCHANGED <<connVars, park, io_rx, trustVars, scanVars, diskVars,
                 worker_cancel_requested, pending_delete>>

(* The prompts of other keys.                                              *)
OpenChoice == prompt = "None" /\ Prompts("Choice")

(* Ctrl+Q while the new name is asked for: with a transfer in the queue    *)
(* the question whether to quit takes the place of the other.              *)
RequestQuit == prompt = "Rename" /\ (\E f \in File : InQueue(f)) /\ Prompts("Choice")

CloseChoice == prompt = "Choice" /\ Prompts("None")

RelistPane ==
  /\ \E t \in IoTask : RequestList(t)
  /\ prompt = "None"
  /\ drain_list' = FALSE
  /\ UNCHANGED <<scanVars, pending_scan, drain_mkdir, mkdir_queue, overwrite_policy,
                 listed_dest_names, file, about, leaked, diskVars, errand,
                 worker_cancel_requested, pending_delete>>

CancelTransfers ==
  /\ MayCancel
  /\ prompt = "None"
  /\ worker_cancel_requested' = TRUE
  /\ Keeps(Parked)
  /\ UNCHANGED <<uiVars, scanVars, drain_list, drain_mkdir, about, diskVars, errand,
                 pending_delete>>

(* Mutant: what was skipped is tried again as well.                        *)
RetrySkipped ==
  /\ prompt = "None"
  /\ worker_cancel_requested' = FALSE
  /\ Keeps([Given(Now, {f \in File : file[f].fate = "skipped"}, "parked") EXCEPT
              !.pending = pending_scan])
  /\ UNCHANGED <<uiVars, scanVars, drain_list, drain_mkdir, about, diskVars, errand,
                 pending_delete>>

(* The retry keys; the jobs of a cancelled batch are among what they run.  *)
RetryTransfers ==
  /\ prompt = "None"
  /\ worker_cancel_requested' = FALSE
  /\ UNCHANGED <<uiVars, scanVars, drainVars, diskVars, errand, pending_delete>>

(* Mutant: what is queued survives the connection.                         *)
QueueStays == Keeps(Cleared)

GivesUp ==
  Keeps(BatchEnds(Given(Now, {f \in File : InQueue(f)} \cup WaitsIn(Now), "dropped")))

DisconnectEnds ==
  /\ Disconnect
  /\ GivesUp
  /\ scan_generation' = 0
  /\ drain_list' = FALSE /\ drain_mkdir' = FALSE
  /\ worker_cancel_requested' = TRUE
  /\ UNCHANGED <<walk, scan_delete_source, diskVars, errand, pending_delete, about>>

(* handle_worker_result of a transfer that succeeded.                      *)
TransferDone(f) ==
  LET d == [Now EXCEPT !.file[f].fate = "done"]
      queue == IF file[f].delete_source THEN Append(pending_delete, f) ELSE pending_delete
  IN  /\ InQueue(f)
      /\ connected /\ ~worker_cancel_requested
      /\ f \in Upload \cap InFolder => folder
      /\ exists' = exists \cup {DestOf(f)}
      /\ IF IoBusy \/ (queue = <<>> /\ pending_scan # <<>>)
         THEN /\ Keeps(d)
              /\ pending_delete' = queue
              /\ UNCHANGED <<in_flight, handle, io, errand, drain_list, drain_mkdir,
                             about, prompt>>
         ELSE \E t \in IoTask :
                /\ io[t].pc = "idle"
                /\ IF queue # <<>> THEN StartNextDelete(t, handle, d, queue)
                   ELSE Relists(t, handle, d) /\ UNCHANGED pending_delete
      /\ UNCHANGED <<connVars, park, io_rx, trustVars, scanVars, original, folder,
                     worker_cancel_requested>>

Next ==
  \/ \E t \in IoTask : Work(t)
  \/ ScanFinds \/ ScanEnds \/ ScanFails
  \/ Handle
  \/ \E f \in File : TransferDone(f)
  \/ \E S \in Batches, move \in BOOLEAN :
        (move => S \in Movable) /\ EnqueueEntries(S, move)
  \/ \E answer \in Answers : AnswerOverwrite(answer)
  \/ \E shown \in {"None", "Choice"} : AbortDrain(shown)
  \/ AskName \/ AskAgain
  \/ \E name \in NewNames : RenameFront(name)
  \/ RequestQuit \/ OpenChoice \/ CloseChoice \/ RelistPane
  \/ CancelTransfers \/ RetryTransfers \/ DisconnectEnds

Spec == Init /\ [][Next]_vars

(* Tasks and scans run on and the event loop reads its channel; transfers  *)
(* and the user owe nothing.                                               *)
LiveSpec ==
  /\ Spec
  /\ \A t \in IoTask : WF_vars(Work(t))
  /\ WF_vars(ScanFinds \/ ScanEnds \/ ScanFails)
  /\ WF_vars(Handle)

-----------------------------------------------------------------------------
Fate == {"none", "waiting", "free", "allowed", "renamed", "parked", "unlisted",
         "skipped", "dropped", "done"}

TypeOK ==
  /\ pending_scan \in Seq(File)
  /\ scan_generation \in 0..generation
  /\ scan_delete_source \in BOOLEAN
  /\ walk.pc \in {"idle", "walking", "over"} /\ walk.left \in Seq(File)
  /\ drain_list \in BOOLEAN /\ drain_mkdir \in BOOLEAN
  /\ overwrite_policy \in Policy
  /\ pending_delete \in Seq(File)
  /\ \A f \in File : file[f].fate \in Fate /\ file[f].delete_source \in BOOLEAN
  /\ prompt \in {"None", "Choice", "Overwrite", "Rename"}
  /\ about \in File \cup {NoFile}

(* A file asked for is in one place until it is queued, skipped or given   *)
(* up: before the drain, on its way there, or still to be scanned.         *)
Places(f) ==
  Cardinality({i \in 1..Len(pending_scan) : pending_scan[i] = f})
  + (IF Scanning
     THEN Cardinality({i \in 1..Len(walk.left) : walk.left[i] = f})
          + Cardinality({i \in 1..Len(io_rx) : io_rx[i] = Message("ScanItem", f)})
     ELSE 0)

NoFileLost == \A f \in File : Places(f) = (IF file[f].fate = "waiting" THEN 1 ELSE 0)

(* The answer of a listing, of a folder being made and of the user is      *)
(* applied to the front of pending_scan: it is the file they were asked    *)
(* about, whatever was parked, aborted or added in between.                *)
AnswersFitTheFront ==
  /\ drain_list \/ drain_mkdir => pending_scan = <<>> \/ Head(pending_scan) = about
  /\ prompt \in {"Overwrite", "Rename"} => pending_scan # <<>> /\ Head(pending_scan) = about

(* The flags say what the report in flight is for.                         *)
FlagsFitTheReport ==
  /\ drain_list => in_flight.kind = "List"
  /\ drain_mkdir => in_flight.kind = "Fs"

(* A choice for the rest holds for this batch only, unless its last answer *)
(* came while the session was busy with something else.                    *)
FreshDrainUnlessLeaked == ~DrainBusy => overwrite_policy = DefaultPolicy \/ leaked

(* The invariant of the drain's books: what is asked for, on the screen    *)
(* and in flight is about the file in front, and a policy chosen for the   *)
(* rest ends with its batch.                                               *)
DrainInv ==
  TypeOK /\ BusyIsAnswered /\ AnswersFitTheFront /\ FlagsFitTheReport /\ FreshDrainUnlessLeaked

(* The policy for the rest ends with its batch, whatever kept the session  *)
(* busy: a departure of the code.                                          *)
FreshDrainUsesDefault == ~DrainBusy => overwrite_policy = DefaultPolicy

(* The name that uniquify_filename gives when it has found none free.      *)
IsCopy(name) == name # <<>> /\ name[Len(name)] = "copy"

(* A file is queued over what was at its destination by the user's word or *)
(* the policy, if its destination was looked at: one that waited when      *)
(* Ctrl+C was pressed (parked), or whose folder could not be listed and    *)
(* turned out to exist (unlisted), is queued unseen, and a renaming that   *)
(* has run out of numbers gives a copy's name.                             *)
Unseen(f) == file[f].fate \in {"parked", "unlisted"}

OverwritesOnWordOrUnseen ==
  \A f \in File : InQueue(f) /\ DestOf(f) \in original =>
    file[f].fate = "allowed" \/ Unseen(f) \/ IsCopy(file[f].name)

(* "Enqueued only after drain + overwrite", state.rs:239.                  *)
NoSilentOverwrite ==
  [][\A f \in File : InQueue(f) /\ file'[f].fate = "done" /\ DestOf(f) \in original
       => file[f].fate \in {"allowed", "renamed"}]_vars

(* What the user skipped or gave up is not transferred after all.          *)
SkipIsFinal ==
  [][\A f \in File : file[f].fate \in {"skipped", "dropped"} => file'[f].fate = file[f].fate]_vars

(* The drain does not stop half way: what waits is queued, skipped or put  *)
(* to the user, as long as no other choice prompt is opened.               *)
DrainEnds ==
  [](prompt # "Choice") =>
    ((pending_scan # <<>> \/ scan_generation # 0)
       ~> (pending_scan = <<>> /\ scan_generation = 0) \/ prompt \in {"Overwrite", "Rename"})
-----------------------------------------------------------------------------
(* What the fates of a file mean to the user.                              *)
Meaning == [none |-> "new", waiting |-> "open", free |-> "clear", renamed |-> "clear",
            allowed |-> "over", parked |-> "unseen", unlisted |-> "unseen",
            skipped |-> "left", dropped |-> "left", done |-> "done"]

Batch == INSTANCE BatchLife WITH
  line <- pending_scan,
  fate <- [f \in File |-> Meaning[file[f].fate]],
  taken <- {f \in File : DestOf(f) \in original /\ ~IsCopy(file[f].name)},
  online <- connected

(* Scan, listings, prompts, retries and a disconnect keep what the user is *)
(* promised of a batch (BatchLife).                                        *)
ImplementsBatch == Batch!Spec
=============================================================================
