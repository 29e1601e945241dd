---------------------------- MODULE FtpTransfers -----------------------------
(***************************************************************************)
(* FTP on the wire: dd_ftp_ftp/src/lib.rs over the vendored async_ftp, and *)
(* a worker's use of it (run_pooled_job).  A control connection has a      *)
(* working directory and the replies the server has sent; every command    *)
(* reads the oldest of these, so that a reply left unread is taken for the *)
(* answer to the next command.  A transfer names its file relative to the  *)
(* working directory, which it enters first.  Of a transfer only the       *)
(* remote folder of its file matters, and not which way it goes.           *)
(***************************************************************************)
EXTENDS Integers, Sequences

CONSTANTS
  RemoteDir,    \* folders of the server
  Root,         \* the one a login starts in, which always exists
  Nothing,      \* no session, no job, no file, no listing
  MaxUnread     \* bound: so many replies may be unread when a command of the panes starts

ASSUME FtpAssumption == Root \in RemoteDir /\ Nothing \notin RemoteDir /\ MaxUnread \in Nat

VARIABLES
  tree,         \* the folders that exist
  file,         \* what the running transfer has moved, of which folder; or Nothing
  pool,         \* the pooled session, or Nothing
  worker,       \* the running transfer, or Nothing
  cancel,       \* the running job's cancel flag
  ui,           \* the session the panes use
  listing       \* what the last command of the panes brought: of which folder the entries
                \* are, which one was asked for, how many replies were unread; or Nothing

ftpVars == <<tree, file, pool, worker, cancel, ui, listing>>

(* The replies of async_ftp's status.rs that are waited for, refusals, and *)
(* the end of a reply whose beginning was read and thrown away.            *)
Done == "250"
Passive == "227"
Opened == "150"
Closed226 == "226"
Size == "213"
Refused == "550"
Created == "257"
Pending == "350"
Cut == "cut"

Session == [cwd |-> Root, unread |-> <<>>, lost |-> FALSE]

(* A command: the server's replies join those unread, the oldest is read.  *)
Sent(s, replies) == [s EXCEPT !.unread = @ \o replies]
Reply(s) == Head(s.unread)
Read(s) == [s EXCEPT !.unread = Tail(@)]
Command(s, reply) == Read(Sent(s, <<reply>>))
Hears(s, reply) == Reply(Sent(s, <<reply>>))

(* What the server ever answers to LIST, STOR or RETR: that it has no  *)
(* data connection, at once or after it began, or that it is done.         *)
Transferred == {<<Refused>>, <<Opened, Refused>>, <<Opened, Closed226>>}

(* connect: the initial path, if it cannot be entered, is not.             *)
Connected == {[Session EXCEPT !.cwd = d] : d \in {Root} \cup (tree \ {Root})}

CanEnter(s, dir) == dir \in tree /\ ~s.lost

CwdReply(s, dir) == IF CanEnter(s, dir) THEN Done ELSE Refused

Cwd(s, dir) == [Command(s, CwdReply(s, dir)) EXCEPT !.cwd = IF CanEnter(s, dir) THEN dir ELSE @]

FtpInit == /\ tree \in {T \in SUBSET RemoteDir : Root \in T}
           /\ file = Nothing
           /\ pool = Nothing /\ worker = Nothing /\ cancel = FALSE
           /\ ui = Session
           /\ listing = Nothing

-----------------------------------------------------------------------------
(* A worker's transfer.                                                    *)
Others == UNCHANGED <<tree, ui, listing>>

StartJob(dir) ==
  /\ worker = Nothing
  /\ worker' = [dir |-> dir, session |-> pool, reused |-> pool # Nothing, fresh |-> FALSE,
                at |-> IF pool # Nothing THEN "cwd" ELSE "connect", entered |-> FALSE, ok |-> FALSE]
  /\ pool' = Nothing
  /\ UNCHANGED <<file, cancel>> /\ Others

Moves(changes) == worker' = [at |-> changes.at, session |-> changes.session, entered |-> changes.entered,
                             ok |-> changes.ok, dir |-> worker.dir, reused |-> worker.reused,
                             fresh |-> worker.fresh \/ worker.at = "connect"]

At(phase) == worker # Nothing /\ worker.at = phase

WorkerConnects ==
  /\ At("connect")
  /\ \/ \E s \in Connected : Moves([worker EXCEPT !.at = "cwd", !.session = s])
     \/ Moves([worker EXCEPT !.at = "settle", !.ok = FALSE])
  /\ UNCHANGED <<file, pool, cancel>> /\ Others

(* cwd_parent: whether the folder was entered is not looked at.            *)
EnterFolder ==
  /\ At("cwd")
  /\ Moves([worker EXCEPT !.at = "open", !.session = Cwd(@, worker.dir),
                           !.entered = CanEnter(worker.session, worker.dir)])
  /\ UNCHANGED <<file, pool, cancel>> /\ Others

(* SIZE if it is not known, PASV, STOR or RETR.  The server truncates what *)
(* is stored, a fetched file is truncated when its first byte may come.    *)
(* Without a data connection the replies stay unread.                      *)
OpenData ==
  /\ At("open")
  /\ \E sized \in {worker.session, Command(worker.session, Size)} :
     LET passive == Command(sized, Passive)
         in_step == Hears(sized, Passive) = Passive
     IN  \/ /\ in_step /\ ~worker.session.lost
            /\ Moves([worker EXCEPT !.at = "copy", !.session = Command(passive, Opened)])
            /\ file' = [dir |-> worker.session.cwd, whole |-> FALSE]
         \/ /\ \E after \in IF in_step
                         THEN {Command(passive, Refused)} \cup {Sent(passive, r) : r \in Transferred}
                         ELSE {passive} :
                  Moves([worker EXCEPT !.at = "failed", !.session = after])
            /\ UNCHANGED file
  /\ UNCHANGED <<pool, cancel>> /\ Others

(* The copy ends, of itself or early because the data connection closed,   *)
(* which only the last reply tells; or it is broken off by the cancel      *)
(* flag or a local error, and the last reply is not read.                  *)
CopyEnds ==
  /\ At("copy")
  /\ \E final \in {Closed226, Refused} :
       LET s == Sent(worker.session, <<final>>) IN
       \/ /\ Moves([worker EXCEPT !.at = "close", !.session = s])
          /\ file' = [file EXCEPT !.whole = (final = Closed226)]
       \/ /\ Moves([worker EXCEPT !.at = "failed", !.session = s])
          /\ UNCHANGED file
  /\ UNCHANGED <<pool, cancel>> /\ Others

(* Mutant: a copy that came to its end is a transfer that did: the last    *)
(* reply is read, but not looked at.                                       *)
CloseUnheard ==
  /\ At("close")
  /\ Moves([worker EXCEPT !.at = "settle", !.ok = TRUE, !.session = Read(@)])
  /\ UNCHANGED <<file, pool, cancel>> /\ Others

CloseData ==
  /\ At("close")
  /\ LET ok == Reply(worker.session) = Closed226
     IN  Moves([worker EXCEPT !.at = IF ok THEN "settle" ELSE "failed", !.ok = ok, !.session = Read(@)])
  /\ UNCHANGED <<file, pool, cancel>> /\ Others

(* run_pooled_job: once more on a new connection if it was the pool's.     *)
TransferFailed ==
  /\ At("failed")
  /\ Moves([worker EXCEPT !.at = IF worker.reused /\ ~worker.fresh /\ ~cancel THEN "connect" ELSE "settle"])
  /\ UNCHANGED <<file, pool, cancel>> /\ Others

(* Mutant: a session goes back to the pool if it is still connected.       *)
PoolAnyway == /\ At("settle") /\ worker' = Nothing /\ file' = Nothing
              /\ pool' = worker.session /\ cancel' = FALSE /\ Others

Settle ==
  /\ At("settle")
  /\ worker' = Nothing /\ file' = Nothing /\ cancel' = FALSE
  /\ pool' = IF worker.ok /\ ~cancel THEN worker.session ELSE Nothing
  /\ Others

CancelJob == worker # Nothing /\ ~cancel /\ cancel' = TRUE /\ UNCHANGED <<file, pool, worker>> /\ Others

(* An idle session is closed by the server.                                *)
SessionDies == /\ pool # Nothing /\ ~pool.lost /\ pool' = [pool EXCEPT !.lost = TRUE]
               /\ UNCHANGED <<file, worker, cancel>> /\ Others

FoldersChange == /\ tree' \in {T \in SUBSET RemoteDir : Root \in T}
                 /\ UNCHANGED <<file, pool, worker, cancel, ui, listing>>

-----------------------------------------------------------------------------
(* The session of the panes, which is kept whatever becomes of a command.  *)
UiStays == UNCHANGED <<file, pool, worker, cancel>>
HasRoom == Len(ui.unread) =< MaxUnread

(* CWD, PASV, then LIST or STOR: the session before each of the four reads *)
(* of a reply, each of which comes to pass only if the one before was      *)
(* heard.                                                                  *)
Exchange(s, dir, replies) ==
  LET entered == [Sent(s, <<CwdReply(s, dir)>>) EXCEPT !.cwd = IF CanEnter(s, dir) THEN dir ELSE @]
      passive == Sent(Read(entered), <<Passive>>)
      served == Sent(Read(passive), replies)
  IN  <<entered, passive, served, Read(served)>>

(* Mutant: like cwd_parent, a listing goes on where it is.                 *)
AwaitedLoosely == <<{Done, Refused}, {Passive}, {Opened}, {Closed226, Done}>>

Awaited == <<{Done}, {Passive}, {Opened}, {Closed226, Done}>>
Heard(x, k) == x[k].unread # <<>> /\ Reply(x[k]) \in Awaited[k]
Mishears(x, k) == ~Heard(x, k) /\ ui' = Read(x[k])

(* A read that is dropped may have taken the beginning of its reply along. *)
Dropped(s) == {s, [s EXCEPT !.unread = <<Cut>> \o Tail(@)]}

(* request_list gives up after 30 seconds wherever the listing is, and     *)
(* keeps the session.  No data connection ends it before the third reply,  *)
(* entries that cannot be read before the fourth.  With replies unread the *)
(* data connection may be that of an earlier LIST.                         *)
list_dir(dir) ==
  \E replies \in Transferred :
    LET x == Exchange(ui, dir, replies)
        of == IF ui.unread = <<>> THEN {x[1].cwd} ELSE RemoteDir
    IN  \/ \E k \in 1..4 : /\ \A j \in 1..(k - 1) : Heard(x, j)
                           /\ ui' \in Dropped(x[k]) \/ Mishears(x, k)
                           /\ listing' = Nothing
        \/ /\ \A j \in 1..4 : Heard(x, j)
           /\ ui' = Read(x[4])
           /\ listing' \in [of : of, asked : {dir}, behind : {Len(ui.unread)}]

ListDir == HasRoom /\ (\E dir \in RemoteDir : list_dir(dir)) /\ UNCHANGED tree /\ UiStays

(* Whether the folder was entered is not looked at, as in cwd_parent.      *)
create_empty_file ==
  /\ HasRoom
  /\ \E dir \in RemoteDir, replies \in Transferred :
       LET x == Exchange(ui, dir, replies)
       IN  \E k \in 2..4 : /\ \A j \in 2..(k - 1) : Heard(x, j)
                          /\ \/ k > 2 /\ ui' = x[k]
                             \/ k = 4 /\ ui' = Read(x[k])
                             \/ Mishears(x, k)
  /\ listing' = Nothing /\ UNCHANGED tree /\ UiStays

create_dir == /\ HasRoom
              /\ \E dir \in RemoteDir \ tree : \E made \in BOOLEAN :
                   /\ tree' = IF made THEN tree \cup {dir} ELSE tree
                   /\ ui' = Command(ui, IF made THEN Created ELSE Refused)
              /\ listing' = Nothing /\ UiStays

remove == /\ HasRoom
          /\ \E dir \in tree \ {Root} : \E gone \in BOOLEAN :
               /\ tree' = IF gone THEN tree \ {dir} ELSE tree
               /\ ui' = Command(ui, IF gone THEN Done ELSE Refused)
          /\ listing' = Nothing /\ UiStays

(* RNFR and RNTO, of a file.                                               *)
rename == /\ HasRoom
          /\ \E from \in {Pending, Refused}, to \in {Done, Refused} :
               ui' = IF Hears(ui, from) = Pending THEN Command(Command(ui, from), to) ELSE Command(ui, from)
          /\ listing' = Nothing /\ UNCHANGED tree /\ UiStays

Reconnect == ui' \in Connected /\ ui # ui' /\ listing' = Nothing /\ UNCHANGED tree /\ UiStays

WorkerNext == (\E dir \in RemoteDir : StartJob(dir)) \/ WorkerConnects \/ EnterFolder \/ OpenData \/ CopyEnds
              \/ CloseData \/ TransferFailed \/ Settle \/ CancelJob \/ SessionDies
PanesNext == ListDir \/ create_empty_file \/ create_dir \/ remove \/ rename \/ Reconnect
FtpNext == WorkerNext \/ PanesNext \/ FoldersChange

FtpSpec == FtpInit /\ [][FtpNext]_ftpVars

-----------------------------------------------------------------------------
(* A session that another job will use has every reply read: what broke    *)
(* off a transfer broke off its session too.                               *)
PoolInStep == pool # Nothing => pool.unread = <<>>

Finishes == At("settle") /\ worker' = Nothing

(* A transfer that is reported done has come to its end: a data connection *)
(* that closed early, a cancel and a lost session all make it fail.        *)
DoneIsWhole == Finishes /\ worker.ok => file.whole

(* A file goes to the folder of its job on whatever session and after      *)
(* whatever other job, except when that folder could not be entered.       *)
StraysOnlyIfRefused ==
  Finishes /\ worker.ok /\ worker.entered => file.dir = worker.dir

(* A job does not fail because the session it was given had died: one that *)
(* was not cancelled has been tried, or refused, on a new connection.      *)
NoStaleFailure ==
  Finishes /\ ~worker.ok /\ ~cancel => worker.fresh

(* What a worker reports of a job is so, whatever sessions it was given.   *)
ReportsAreTrue == [][DoneIsWhole /\ StraysOnlyIfRefused /\ NoStaleFailure]_ftpVars

(* Entries are of the folder that was asked for, however many listings were *)
(* dropped before and whatever replies are taken for those of a later       *)
(* command; except when as many replies are unread as a listing reads, four *)
(* or more: then it may go by the answers to an earlier one.                *)
ListsWhatWasAsked == listing # Nothing => listing.of = listing.asked \/ listing.behind >= 4

(* No reply is taken for the answer to another command where it matters.   *)
RepliesFitCommands == PoolInStep /\ ListsWhatWasAsked
=============================================================================
