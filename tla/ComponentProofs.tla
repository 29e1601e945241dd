--------------------------- MODULE ComponentProofs ---------------------------
(***************************************************************************)
(* What holds of seven components that share nothing: the transfers of FTP *)
(* sessions, reply by reply, the edit of a remote file, and what lies over *)
(* the panes: the order of the dialogs, the connection form, the settings, *)
(* the bookmarks and the themes.  Each has its inductive invariant, a      *)
(* lemma for each of its actions and its theorems, one after the other.    *)
(***************************************************************************)
EXTENDS RemoteEdit, FtpTransfers, Dialogs, ConnectForm, SettingsForm, Bookmarks, ThemeDialog, SequenceFacts

-----------------------------------------------------------------------------
(***************************************************************************)
(* FTP sessions, whatever the folders and however often sessions die, jobs *)
(* are cancelled and folders come and go.  The argument: a session is in   *)
(* step, no reply unread, at every point from which a transfer goes on; at *)
(* one point, `close', exactly the last reply of the transfer is unread    *)
(* and tells whether the file is whole.  The panes' session may lag, by    *)
(* any number of replies of which the last is an answer.                   *)
(***************************************************************************)

FtpReply == {Done, Passive, Opened, Closed226, Size, Refused, Created, Pending, Cut}

Phase == {"connect", "cwd", "open", "copy", "close", "failed", "settle"}

Sessions == [cwd : RemoteDir, unread : Seq(FtpReply), lost : BOOLEAN]

Workers == [at : Phase, session : Sessions \cup {Nothing}, entered : BOOLEAN, ok : BOOLEAN,
            dir : RemoteDir, reused : BOOLEAN, fresh : BOOLEAN]

Files == [dir : RemoteDir, whole : BOOLEAN]

Listings == [of : RemoteDir, asked : RemoteDir, behind : Nat]

(* Types.                                                                  *)
FtpTypeOK ==
  /\ tree \in SUBSET RemoteDir /\ Root \in tree
  /\ file \in Files \cup {Nothing}
  /\ pool \in Sessions \cup {Nothing}
  /\ worker \in Workers \cup {Nothing}
  /\ cancel \in BOOLEAN
  /\ ui \in Sessions
  /\ listing \in Listings \cup {Nothing}

(* The worker is in one of the phases.                                     *)
Under(phases) == worker # Nothing /\ worker.at \in phases

Ended == Under({"settle"}) /\ worker.ok

WorkerInStep ==
  /\ Under({"cwd", "open", "copy", "close"}) \/ Ended => worker.session \in Sessions
  /\ Under({"cwd", "open", "copy"}) \/ Ended => worker.session.unread = <<>>
  /\ Under({"close"}) => \E r \in FtpReply : worker.session.unread = <<r>> /\ (r = Closed226 => file.whole)

FileOfJob ==
  /\ Under({"copy", "close"}) \/ Ended => file \in Files /\ file.dir = worker.session.cwd
  /\ Under({"open", "copy", "close"}) \/ Ended => (worker.entered => worker.session.cwd = worker.dir)
  /\ Ended => file.whole

Attempts ==
  /\ worker # Nothing /\ worker.ok => worker.at = "settle"
  /\ worker # Nothing /\ worker.at # "connect" => worker.reused \/ worker.fresh
  /\ Under({"settle"}) /\ ~worker.ok /\ ~cancel => worker.fresh

(* Whoever stops listening stops at a reply, and the server ends what it   *)
(* began: what is unread never ends in the promise of a transfer.          *)
Answered(s) == s.unread # <<>> => s.unread[Len(s.unread)] # Opened

UiAnswered == Answered(ui)

FtpInv == FtpTypeOK /\ PoolInStep /\ WorkerInStep /\ FileOfJob /\ Attempts /\ UiAnswered /\ ListsWhatWasAsked

-----------------------------------------------------------------------------
(* A session in step that sends a command and reads its reply is as it was.*)
LEMMA InStepStays ==
  ASSUME NEW s \in Sessions, NEW r \in FtpReply, s.unread = <<>>
  PROVE  Command(s, r) = s /\ Hears(s, r) = r
<1>1. <<>> \o <<r>> = <<r>>
  BY SMT DEF FtpReply
<1>2. Sent(s, <<r>>).unread = <<r>>
  BY <1>1 DEF Sent, Sessions
<1>3. Head(<<r>>) = r /\ Tail(<<r>>) = <<>>
  BY SMT
<1> QED
  BY <1>2, <1>3 DEF Sent, Command, Read, Hears, Reply, Sessions

(* Replies that come join those unread, in order.                          *)
LEMMA SentReplies ==
  ASSUME NEW s \in Sessions, NEW q \in Seq(FtpReply), q # <<>>, q[Len(q)] # Opened
  PROVE  LET t == Sent(s, q)
         IN  /\ t \in Sessions /\ Answered(t) /\ t.unread # <<>> /\ t.cwd = s.cwd
             /\ Len(t.unread) = Len(s.unread) + Len(q)
             /\ \A i \in 1..Len(s.unread) : t.unread[i] = s.unread[i]
             /\ \A i \in 1..Len(q) : t.unread[Len(s.unread) + i] = q[i]
<1> DEFINE u == s.unread
           both == u \o q
<1>1. u \in Seq(FtpReply) /\ Len(u) \in Nat /\ Len(q) \in Nat \ {0}
  BY EmptySeq, LenProperties DEF Sessions
<1>2. /\ both \in Seq(FtpReply) /\ Len(both) = Len(u) + Len(q)
      /\ \A i \in 1..(Len(u) + Len(q)) : both[i] = IF i <= Len(u) THEN u[i] ELSE q[i - Len(u)]
  BY <1>1, ConcatProperties
<1>3. /\ \A i \in 1..Len(u) : both[i] = u[i]
      /\ \A i \in 1..Len(q) : both[Len(u) + i] = q[i]
  BY <1>1, <1>2
<1>4. both # <<>> /\ both[Len(both)] = q[Len(q)]
  <2>1. Len(q) \in 1..Len(q) /\ Len(both) = Len(u) + Len(q)
    BY <1>1, <1>2
  <2>2. both[Len(both)] = q[Len(q)]
    BY <1>3, <2>1
  <2>3. Len(both) # 0
    BY <1>1, <2>1
  <2> QED
    BY <1>2, <2>2, <2>3, EmptySeq
<1>5. Sent(s, q) = [s EXCEPT !.unread = both]
  BY DEF Sent
<1> HIDE DEF u, both
<1>6. /\ Sent(s, q).unread = both /\ Sent(s, q).cwd = s.cwd /\ Sent(s, q).lost = s.lost
      /\ Sent(s, q) \in Sessions
  BY <1>2, <1>5 DEF Sessions
<1> QED
  BY <1>2, <1>3, <1>4, <1>6 DEF Answered, u

(* The oldest is read, the others move up.                                 *)
LEMMA ReadReplies ==
  ASSUME NEW s \in Sessions, Answered(s), s.unread # <<>>
  PROVE  LET t == Read(s)
         IN  /\ t \in Sessions /\ Answered(t) /\ t.cwd = s.cwd
             /\ Reply(s) = s.unread[1]
             /\ Len(t.unread) = Len(s.unread) - 1
             /\ \A i \in 1..(Len(s.unread) - 1) : t.unread[i] = s.unread[i + 1]
             /\ t.unread = <<>> => s.unread[1] # Opened
<1> DEFINE u == s.unread
<1>1. u \in Seq(FtpReply) /\ Len(u) \in Nat \ {0} /\ u # <<>>
  BY EmptySeq, LenProperties DEF Sessions
<1>2. /\ Tail(u) \in Seq(FtpReply) /\ Len(Tail(u)) = Len(u) - 1
      /\ \A i \in 1..(Len(u) - 1) : Tail(u)[i] = u[i + 1]
  BY <1>1, HeadTailProperties
<1>3. Head(u) = u[1]
  BY <1>1
<1>4. Read(s) = [s EXCEPT !.unread = Tail(u)]
  BY DEF Read
<1>5. Read(s).unread = Tail(u) /\ Read(s).cwd = s.cwd /\ Read(s) \in Sessions
  BY <1>2, <1>4 DEF Sessions
<1>6. u[Len(u)] # Opened
  BY DEF Answered
<1> HIDE DEF u
<1>7. ASSUME Tail(u) # <<>> PROVE Tail(u)[Len(Tail(u))] = u[Len(u)]
  <2>1. Len(Tail(u)) # 0
    BY <1>2, <1>7, EmptySeq
  <2>2. Len(u) \in Nat /\ Len(u) - 1 # 0 /\ Len(u) # 0
    BY <1>1, <1>2, <2>1
  <2>3. \A n \in Nat : n - 1 # 0 /\ n # 0 => n - 1 \in 1..(n - 1) /\ (n - 1) + 1 = n
    OBVIOUS
  <2>4. Len(u) - 1 \in 1..(Len(u) - 1) /\ (Len(u) - 1) + 1 = Len(u)
    BY <2>2, <2>3, Zenon
  <2> QED
    BY <1>2, <2>1, <2>4
<1>8. ASSUME Tail(u) = <<>> PROVE Len(u) = 1
  <2>1. Len(Tail(u)) = 0
    BY <1>8, EmptySeq
  <2>2. Len(u) \in Nat /\ Len(u) - 1 = 0
    BY <1>1, <1>2, <2>1
  <2> QED
    BY <2>2
<1> QED
  BY <1>2, <1>3, <1>5, <1>6, <1>7, <1>8 DEF Answered, Reply, u

(* A dropped read leaves the reply, or its end.                            *)
LEMMA DroppedReplies ==
  ASSUME NEW s \in Sessions, Answered(s), s.unread # <<>>, NEW t \in Dropped(s)
  PROVE  t \in Sessions /\ Answered(t)
<1> DEFINE rest == Tail(s.unread)
           cut == [s EXCEPT !.unread = <<Cut>> \o rest]
<1>1. s.unread \in Seq(FtpReply) /\ rest \in Seq(FtpReply)
  BY HeadTailProperties DEF Sessions
<1>2. Cut \in FtpReply /\ Cut # Opened
  BY DEF FtpReply, Cut, Opened
<1>3. /\ <<Cut>> \in Seq(FtpReply) /\ Len(<<Cut>>) = 1 /\ <<Cut>>[1] = Cut
  BY <1>2, SMT
<1>4. /\ <<Cut>> \o rest \in Seq(FtpReply) /\ Len(<<Cut>> \o rest) = 1 + Len(rest)
      /\ \A i \in 1..(1 + Len(rest)) : (<<Cut>> \o rest)[i] = IF i <= 1 THEN <<Cut>>[i] ELSE rest[i - 1]
  BY <1>1, <1>3, ConcatProperties
<1>5. cut \in Sessions /\ cut.unread = <<Cut>> \o rest
  BY <1>4 DEF Sessions
<1>6. Len(rest) \in Nat /\ (rest # <<>> => Len(rest) # 0)
  BY <1>1, EmptySeq, LenProperties
<1>7. CASE rest = <<>>
  <2>1. Len(rest) = 0
    BY <1>7, EmptySeq
  <2>2. (<<Cut>> \o rest)[Len(<<Cut>> \o rest)] = Cut
    BY <1>3, <1>4, <2>1
  <2> QED
    BY <1>2, <1>5, <2>2 DEF Dropped, Answered
<1>8. CASE rest # <<>>
  <2>1. Answered(Read(s)) /\ Read(s).unread = rest
    BY ReadReplies DEF Read, Sessions
  <2>2. rest[Len(rest)] # Opened
    BY <1>8, <2>1 DEF Answered
  <2>3. 1 + Len(rest) \in 1..(1 + Len(rest)) /\ ~(1 + Len(rest) <= 1) /\ (1 + Len(rest)) - 1 = Len(rest)
    BY <1>6, <1>8
  <2>4. (<<Cut>> \o rest)[1 + Len(rest)] = rest[Len(rest)]
    BY <1>4, <2>3
  <2> QED
    BY <1>4, <1>5, <2>2, <2>4 DEF Dropped, Answered
<1> QED
  BY <1>7, <1>8

(* One reply to one command.                                               *)
LEMMA OneReply ==
  ASSUME NEW r \in FtpReply, r # Opened
  PROVE  <<r>> \in Seq(FtpReply) /\ <<r>> # <<>> /\ Len(<<r>>) = 1 /\ <<r>>[1] = r /\ <<r>>[Len(<<r>>)] # Opened
BY SMT

LEMMA CommandTyped ==
  ASSUME NEW s \in Sessions, NEW r \in FtpReply, r # Opened
  PROVE  Command(s, r) \in Sessions /\ Answered(Command(s, r)) /\ Command(s, r).cwd = s.cwd
<1>1. /\ Sent(s, <<r>>) \in Sessions /\ Answered(Sent(s, <<r>>)) /\ Sent(s, <<r>>).unread # <<>>
      /\ Sent(s, <<r>>).cwd = s.cwd
  BY OneReply, SentReplies
<1> QED
  BY <1>1, ReadReplies DEF Command

(* What the server answers to LIST, STOR and RETR ends with an answer.     *)
LEMMA TransferredTyped ==
  ASSUME NEW q \in Transferred
  PROVE  q \in Seq(FtpReply) /\ q # <<>> /\ q[Len(q)] # Opened
<1>1. {Opened, Refused, Closed226} \subseteq FtpReply /\ Refused # Opened /\ Closed226 # Opened
  BY DEF FtpReply, Opened, Refused, Closed226
<1>2. \A x \in {Refused, Closed226} :
        /\ <<Opened, x>> \in Seq(FtpReply) /\ Len(<<Opened, x>>) = 2 /\ <<Opened, x>>[2] = x /\ <<Opened, x>> # <<>>
  BY <1>1, SMT
<1> QED
  BY <1>1, <1>2, OneReply DEF Transferred

(* Changing the working directory.                                         *)
LEMMA CwdTyped ==
  ASSUME NEW s \in Sessions, NEW dir \in RemoteDir, s.unread = <<>>
  PROVE  /\ Cwd(s, dir) \in Sessions
         /\ Cwd(s, dir).cwd = IF CanEnter(s, dir) THEN dir ELSE s.cwd
         /\ Cwd(s, dir).unread = <<>>
<1>1. CwdReply(s, dir) \in FtpReply
  BY DEF CwdReply, FtpReply
<1>2. Command(s, CwdReply(s, dir)) = s
  BY <1>1, InStepStays
<1> QED
  BY <1>2 DEF Cwd, Sessions

(* A new connection has no reply unread.                                   *)
LEMMA ConnectedTyped ==
  ASSUME NEW s \in Connected, tree \in SUBSET RemoteDir, Root \in tree
  PROVE  s \in Sessions /\ s.unread = <<>>
<1>1. <<>> \in Seq(FtpReply)
  BY EmptySeq
<1> QED
  BY <1>1 DEF Connected, Session, Sessions

-----------------------------------------------------------------------------
LEMMA FtpInitInv == FtpInit => FtpInv
<1> SUFFICES ASSUME FtpInit PROVE FtpInv
  OBVIOUS
<1>1. <<>> \in Seq(FtpReply)
  BY EmptySeq
<1>2. FtpTypeOK
  BY <1>1, FtpAssumption DEF FtpInit, FtpTypeOK, Session, Sessions
<1>3. UiAnswered
  BY <1>1 DEF FtpInit, Session, UiAnswered, Answered
<1> QED
  BY <1>2, <1>3 DEF FtpInit, FtpInv, PoolInStep, WorkerInStep, FileOfJob, Attempts, Under, Ended, ListsWhatWasAsked

LEMMA StartJobInv == FtpInv /\ (\E dir \in RemoteDir : StartJob(dir)) => FtpInv'
<1> SUFFICES ASSUME FtpInv, NEW dir \in RemoteDir, StartJob(dir) PROVE FtpInv'
  OBVIOUS
<1> USE DEF StartJob, Others
<1>1. /\ worker' \in Workers /\ ~worker'.ok /\ worker'.at \in {"cwd", "connect"}
      /\ worker'.at = "cwd" => worker'.session \in Sessions /\ worker'.session.unread = <<>> /\ worker'.reused
  BY DEF FtpInv, FtpTypeOK, PoolInStep, Workers, Phase
<1>2. FtpTypeOK' /\ PoolInStep' /\ UiAnswered' /\ ListsWhatWasAsked'
  BY <1>1 DEF FtpInv, FtpTypeOK, PoolInStep, UiAnswered, Answered, ListsWhatWasAsked
<1>3. WorkerInStep' /\ FileOfJob' /\ Attempts'
  BY <1>1 DEF WorkerInStep, FileOfJob, Attempts, Under, Ended
<1> QED
  BY <1>2, <1>3 DEF FtpInv

LEMMA WorkerConnectsInv == FtpInv /\ WorkerConnects => FtpInv'
<1> SUFFICES ASSUME FtpInv, WorkerConnects PROVE FtpInv'
  OBVIOUS
<1> USE DEF WorkerConnects, Others
<1>1. FtpTypeOK /\ worker \in Workers /\ "connect" \in Phase /\ ~worker.ok
  BY DEF FtpInv, FtpTypeOK, Attempts, At, Phase
<1>2. /\ worker' \in Workers /\ worker'.fresh /\ ~worker'.ok
      /\ worker'.at \in {"cwd", "settle"}
      /\ worker'.at = "cwd" => worker'.session \in Sessions /\ worker'.session.unread = <<>>
  <2>1. ASSUME NEW s \in Connected, Moves([worker EXCEPT !.at = "cwd", !.session = s])
        PROVE  /\ worker' \in Workers /\ worker'.fresh /\ ~worker'.ok /\ worker'.at = "cwd"
               /\ worker'.session \in Sessions /\ worker'.session.unread = <<>>
    <3>1. s \in Sessions /\ s.unread = <<>>
      BY <1>1, ConnectedTyped DEF FtpTypeOK
    <3> DEFINE changes == [worker EXCEPT !.at = "cwd", !.session = s]
    <3>2. /\ changes.at = "cwd" /\ changes.session = s
          /\ changes.entered = worker.entered /\ changes.ok = worker.ok
      BY <1>1 DEF Workers
    <3>3. At("connect") /\ Moves(changes)
      BY <2>1
    <3> HIDE DEF changes
    <3> QED
      BY <1>1, <3>1, <3>2, <3>3 DEF Workers, Moves, Phase, At
  <2>2. CASE Moves([worker EXCEPT !.at = "settle", !.ok = FALSE])
    BY <1>1, <2>2 DEF Workers, Moves, Phase, At
  <2> QED
    BY <2>1, <2>2
<1>3. FtpTypeOK' /\ PoolInStep' /\ UiAnswered' /\ ListsWhatWasAsked'
  BY <1>2 DEF FtpInv, FtpTypeOK, PoolInStep, UiAnswered, Answered, ListsWhatWasAsked
<1>4. WorkerInStep' /\ FileOfJob' /\ Attempts'
  BY <1>2 DEF WorkerInStep, FileOfJob, Attempts, Under, Ended
<1> QED
  BY <1>3, <1>4 DEF FtpInv

LEMMA EnterFolderInv == FtpInv /\ EnterFolder => FtpInv'
<1> SUFFICES ASSUME FtpInv, EnterFolder PROVE FtpInv'
  OBVIOUS
<1> USE DEF EnterFolder, Others
<1> DEFINE s == Cwd(worker.session, worker.dir)
           entered == CanEnter(worker.session, worker.dir)
           changes == [worker EXCEPT !.at = "open", !.session = s, !.entered = entered]
<1>1. /\ worker \in Workers /\ worker.at = "cwd" /\ ~worker.ok /\ (worker.reused \/ worker.fresh)
      /\ worker.session \in Sessions /\ worker.session.unread = <<>>
  BY DEF FtpInv, FtpTypeOK, Attempts, WorkerInStep, Under, At
<1>2. worker.dir \in RemoteDir
  BY <1>1 DEF Workers
<1>3. /\ s \in Sessions /\ s.unread = <<>>
      /\ s.cwd = IF entered THEN worker.dir ELSE worker.session.cwd
  BY <1>1, <1>2, CwdTyped
<1>4. changes.at = "open" /\ changes.session = s /\ changes.entered = entered /\ changes.ok = worker.ok
  BY <1>1 DEF Workers
<1>5. Moves(changes) /\ entered \in BOOLEAN
  BY <1>1 DEF Workers, CanEnter, FtpInv, FtpTypeOK
<1> HIDE DEF s, entered, changes
<1>6. /\ worker' \in Workers /\ worker'.at = "open" /\ ~worker'.ok /\ (worker'.reused \/ worker'.fresh)
      /\ worker'.session \in Sessions /\ worker'.session.unread = <<>>
      /\ worker'.entered => worker'.session.cwd = worker'.dir
  BY <1>1, <1>3, <1>4, <1>5 DEF Workers, Moves, Phase
<1>7. FtpTypeOK' /\ PoolInStep' /\ UiAnswered' /\ ListsWhatWasAsked'
  BY <1>6 DEF FtpInv, FtpTypeOK, PoolInStep, UiAnswered, Answered, ListsWhatWasAsked
<1>8. WorkerInStep' /\ FileOfJob' /\ Attempts'
  BY <1>6 DEF WorkerInStep, FileOfJob, Attempts, Under, Ended
<1> QED
  BY <1>7, <1>8 DEF FtpInv

(* In step, SIZE and PASV are answered as they should be, and of what is   *)
(* read on the way nothing stays behind.                                   *)
LEMMA OpenDataInv == FtpInv /\ OpenData => FtpInv'
<1> SUFFICES ASSUME FtpInv, OpenData PROVE FtpInv'
  OBVIOUS
<1> DEFINE s == worker.session
           open == [worker EXCEPT !.at = "copy", !.session = s]
<1>1. /\ worker \in Workers /\ worker.at = "open" /\ ~worker.ok /\ (worker.reused \/ worker.fresh)
      /\ s \in Sessions /\ s.unread = <<>> /\ (worker.entered => s.cwd = worker.dir)
  BY DEF FtpInv, FtpTypeOK, Attempts, WorkerInStep, FileOfJob, Under, At, OpenData
<1>2. \A r \in FtpReply : Command(s, r) = s /\ Hears(s, r) = r
  BY <1>1, InStepStays
<1>3. {Size, Passive, Opened, Refused} \subseteq FtpReply
  BY DEF FtpReply
<1>11. \A r \in Transferred : Sent(s, r) \in Sessions
  BY <1>1, TransferredTyped, SentReplies
<1>12. /\ \/ Moves(open) /\ file' = [dir |-> s.cwd, whole |-> FALSE]
          \/ UNCHANGED file /\ \E after \in Sessions : Moves([worker EXCEPT !.at = "failed", !.session = after])
       /\ UNCHANGED <<pool, cancel, tree, ui, listing>>
  BY <1>1, <1>2, <1>3, <1>11 DEF OpenData, Others
<1>13. PICK after \in Sessions :
         \/ Moves(open) /\ file' = [dir |-> s.cwd, whole |-> FALSE]
         \/ UNCHANGED file /\ Moves([worker EXCEPT !.at = "failed", !.session = after])
  BY <1>1, <1>12
<1> DEFINE refused == [worker EXCEPT !.at = "failed", !.session = after]
<1>4. /\ \/ Moves(open) /\ file' = [dir |-> s.cwd, whole |-> FALSE]
         \/ Moves(refused) /\ UNCHANGED file
      /\ UNCHANGED <<pool, cancel, tree, ui, listing>>
  BY <1>12, <1>13
<1>5. /\ open.at = "copy" /\ open.session = s /\ open.entered = worker.entered /\ open.ok = worker.ok
      /\ refused.at = "failed" /\ refused.session = after
      /\ refused.entered = worker.entered /\ refused.ok = worker.ok
  BY <1>1 DEF Workers
<1>10. ASSUME NEW f, f = [dir |-> s.cwd, whole |-> FALSE]
       PROVE  f \in Files /\ f.dir = s.cwd
  BY <1>1, <1>10 DEF Sessions, Files
<1> HIDE DEF s, open, refused
<1>6. /\ worker' \in Workers /\ worker'.at \in {"copy", "failed"} /\ ~worker'.ok
      /\ worker'.reused \/ worker'.fresh
      /\ worker'.session \in {s, after} /\ worker'.entered = worker.entered /\ worker'.dir = worker.dir
      /\ worker'.at = "copy" => worker'.session = s /\ file' = [dir |-> s.cwd, whole |-> FALSE]
      /\ worker'.at = "failed" => file' = file
  BY <1>1, <1>4, <1>5 DEF Workers, Moves, Phase
<1>8. worker'.at = "copy" => file' \in Files /\ file'.dir = s.cwd
  BY <1>10, <1>6
<1>7. FtpTypeOK' /\ PoolInStep' /\ UiAnswered' /\ ListsWhatWasAsked'
  BY <1>4, <1>6, <1>8 DEF FtpInv, FtpTypeOK, PoolInStep, UiAnswered, Answered, ListsWhatWasAsked
<1>9. WorkerInStep' /\ FileOfJob' /\ Attempts'
  BY <1>1, <1>6, <1>8 DEF WorkerInStep, FileOfJob, Attempts, Under, Ended
<1> QED
  BY <1>7, <1>9 DEF FtpInv

LEMMA CopyEndsInv == FtpInv /\ CopyEnds => FtpInv'
<1> SUFFICES ASSUME FtpInv, CopyEnds PROVE FtpInv'
  OBVIOUS
<1>1. /\ worker \in Workers /\ worker.at = "copy" /\ ~worker.ok /\ (worker.reused \/ worker.fresh)
      /\ worker.session \in Sessions /\ worker.session.unread = <<>>
      /\ file \in Files /\ file.dir = worker.session.cwd
      /\ worker.entered => worker.session.cwd = worker.dir
  BY DEF FtpInv, FtpTypeOK, Attempts, WorkerInStep, FileOfJob, Under, At, CopyEnds
<1>2. PICK final \in {Closed226, Refused} :
         LET s == Sent(worker.session, <<final>>)
         IN  \/ /\ Moves([worker EXCEPT !.at = "close", !.session = s])
                /\ file' = [file EXCEPT !.whole = (final = Closed226)]
             \/ /\ Moves([worker EXCEPT !.at = "failed", !.session = s])
                /\ UNCHANGED file
  BY DEF CopyEnds
<1> DEFINE s == Sent(worker.session, <<final>>)
           close == [worker EXCEPT !.at = "close", !.session = s]
           broken == [worker EXCEPT !.at = "failed", !.session = s]
<1>3. /\ \/ Moves(close) /\ file' = [file EXCEPT !.whole = (final = Closed226)]
         \/ Moves(broken) /\ UNCHANGED file
      /\ UNCHANGED <<pool, cancel, tree, ui, listing>>
  BY <1>2 DEF CopyEnds, Others
<1>4. final \in FtpReply /\ s \in Sessions /\ s.unread = <<final>> /\ s.cwd = worker.session.cwd
  <2>1. final \in FtpReply
    BY DEF FtpReply
  <2>2. <<final>> \in Seq(FtpReply)
    BY <2>1, SMT
  <2>3. <<>> \o <<final>> = <<final>>
    BY <2>2, ConcatEmptySeq
  <2> QED
    BY <1>1, <2>1, <2>2, <2>3 DEF Sent, Sessions
<1>5. /\ close.at = "close" /\ close.session = s /\ close.entered = worker.entered /\ close.ok = worker.ok
      /\ broken.at = "failed" /\ broken.session = s
      /\ broken.entered = worker.entered /\ broken.ok = worker.ok
  BY <1>1 DEF Workers
<1> HIDE DEF s, close, broken
<1>6. /\ worker' \in Workers /\ worker'.at \in {"close", "failed"} /\ ~worker'.ok
      /\ worker'.reused \/ worker'.fresh
      /\ worker'.session = s /\ worker'.entered = worker.entered /\ worker'.dir = worker.dir
      /\ file' \in Files /\ file'.dir = file.dir
      /\ worker'.at = "close" => file'.whole = (final = Closed226)
  BY <1>1, <1>3, <1>4, <1>5 DEF Workers, Moves, Phase, Files
<1>7. FtpTypeOK' /\ PoolInStep' /\ UiAnswered' /\ ListsWhatWasAsked'
  BY <1>3, <1>6 DEF FtpInv, FtpTypeOK, PoolInStep, UiAnswered, Answered, ListsWhatWasAsked
<1>8. WorkerInStep' /\ FileOfJob' /\ Attempts'
  BY <1>1, <1>4, <1>6 DEF WorkerInStep, FileOfJob, Attempts, Under, Ended
<1> QED
  BY <1>7, <1>8 DEF FtpInv

LEMMA CloseDataInv == FtpInv /\ CloseData => FtpInv'
<1> SUFFICES ASSUME FtpInv, CloseData PROVE FtpInv'
  OBVIOUS
<1>1. /\ worker \in Workers /\ worker.at = "close" /\ ~worker.ok /\ (worker.reused \/ worker.fresh)
      /\ worker.session \in Sessions
      /\ file \in Files /\ file.dir = worker.session.cwd
      /\ worker.entered => worker.session.cwd = worker.dir
  BY DEF FtpInv, FtpTypeOK, Attempts, WorkerInStep, FileOfJob, Under, At, CloseData
<1>2. PICK r \in FtpReply : worker.session.unread = <<r>> /\ (r = Closed226 => file.whole)
  BY DEF FtpInv, WorkerInStep, Under, At, CloseData
<1> DEFINE s == Read(worker.session)
           ok == Reply(worker.session) = Closed226
           changes == [worker EXCEPT !.at = IF ok THEN "settle" ELSE "failed", !.ok = ok, !.session = s]
<1>3. Moves(changes) /\ UNCHANGED <<file, pool, cancel, tree, ui, listing>>
  BY <1>1 DEF CloseData, Others, Workers
<1>4. s \in Sessions /\ s.unread = <<>> /\ s.cwd = worker.session.cwd
  <2>1. Tail(<<r>>) = <<>> /\ <<>> \in Seq(FtpReply)
    BY EmptySeq, SMT
  <2> QED
    BY <1>1, <1>2, <2>1 DEF Read, Sessions
<1>5. ok = (r = Closed226)
  BY <1>2, SMT DEF Reply
<1>6. /\ changes.at = IF ok THEN "settle" ELSE "failed"
      /\ changes.session = s /\ changes.entered = worker.entered /\ changes.ok = ok
  BY <1>1 DEF Workers
<1>7. ok \in BOOLEAN
  OBVIOUS
<1> HIDE DEF s, ok, changes
<1>8. /\ worker' \in Workers /\ worker'.at = IF ok THEN "settle" ELSE "failed"
      /\ worker'.ok = ok /\ (worker'.reused \/ worker'.fresh)
      /\ worker'.session = s /\ worker'.entered = worker.entered /\ worker'.dir = worker.dir
  BY <1>1, <1>3, <1>4, <1>6, <1>7 DEF Workers, Moves, Phase
<1>9. ok => file.whole
  BY <1>2, <1>5
<1>10. FtpTypeOK' /\ PoolInStep' /\ UiAnswered' /\ ListsWhatWasAsked'
  BY <1>3, <1>8 DEF FtpInv, FtpTypeOK, PoolInStep, UiAnswered, Answered, ListsWhatWasAsked
<1>11. WorkerInStep' /\ FileOfJob' /\ Attempts'
  BY <1>1, <1>3, <1>4, <1>8, <1>9 DEF WorkerInStep, FileOfJob, Attempts, Under, Ended
<1> QED
  BY <1>10, <1>11 DEF FtpInv

LEMMA TransferFailedInv == FtpInv /\ TransferFailed => FtpInv'
<1> SUFFICES ASSUME FtpInv, TransferFailed PROVE FtpInv'
  OBVIOUS
<1> DEFINE again == worker.reused /\ ~worker.fresh /\ ~cancel
           changes == [worker EXCEPT !.at = IF again THEN "connect" ELSE "settle"]
<1>1. worker \in Workers /\ worker.at = "failed" /\ ~worker.ok /\ (worker.reused \/ worker.fresh)
  BY DEF FtpInv, FtpTypeOK, Attempts, At, TransferFailed
<1>2. Moves(changes) /\ UNCHANGED <<file, pool, cancel, tree, ui, listing>>
  BY DEF TransferFailed, Others
<1>3. /\ changes.at = IF again THEN "connect" ELSE "settle"
      /\ changes.session = worker.session /\ changes.entered = worker.entered /\ changes.ok = worker.ok
  BY <1>1 DEF Workers
<1> HIDE DEF changes
<1>4. /\ worker' \in Workers /\ worker'.at = IF again THEN "connect" ELSE "settle"
      /\ ~worker'.ok /\ worker'.reused = worker.reused /\ worker'.fresh = worker.fresh
  BY <1>1, <1>2, <1>3 DEF Workers, Moves, Phase
<1>5. FtpTypeOK' /\ PoolInStep' /\ UiAnswered' /\ ListsWhatWasAsked'
  BY <1>2, <1>4 DEF FtpInv, FtpTypeOK, PoolInStep, UiAnswered, Answered, ListsWhatWasAsked
<1>6. WorkerInStep' /\ FileOfJob' /\ Attempts'
  BY <1>1, <1>2, <1>4 DEF WorkerInStep, FileOfJob, Attempts, Under, Ended
<1> QED
  BY <1>5, <1>6 DEF FtpInv

LEMMA SettleInv == FtpInv /\ Settle => FtpInv'
<1> SUFFICES ASSUME FtpInv, Settle PROVE FtpInv'
  OBVIOUS
<1>1. pool' # Nothing => pool' \in Sessions /\ pool'.unread = <<>>
  BY DEF Settle, FtpInv, WorkerInStep, Ended, Under, At
<1>2. worker' = Nothing /\ file' = Nothing /\ cancel' = FALSE /\ UNCHANGED <<tree, ui, listing>>
  BY DEF Settle, Others
<1> QED
  BY <1>1, <1>2 DEF FtpInv, FtpTypeOK, PoolInStep, WorkerInStep, FileOfJob, Attempts, Under, Ended, UiAnswered, Answered,
     ListsWhatWasAsked

(* The cancel flag and the tree matter to what comes next only, and a      *)
(* pooled session that dies keeps its replies.                             *)
LEMMA EnvironmentInv == FtpInv /\ (CancelJob \/ SessionDies \/ FoldersChange) => FtpInv'
<1> USE DEF FtpInv, FtpTypeOK, PoolInStep, WorkerInStep, FileOfJob, Attempts, Under, Ended, UiAnswered, Answered,
            ListsWhatWasAsked
<1>1. ASSUME FtpInv, CancelJob PROVE FtpInv'
  BY <1>1 DEF CancelJob, Others
<1>2. ASSUME FtpInv, SessionDies PROVE FtpInv'
  <2>1. pool' \in Sessions /\ pool'.unread = pool.unread
    BY <1>2 DEF SessionDies, Sessions
  <2> QED
    BY <1>2, <2>1 DEF SessionDies, Others
<1>3. ASSUME FtpInv, FoldersChange PROVE FtpInv'
  BY <1>3 DEF FoldersChange
<1> QED
  BY <1>1, <1>2, <1>3

-----------------------------------------------------------------------------
(* The panes' session.  Before each of its four reads an exchange has a    *)
(* reply to read, and when all four are heard no reply was unread before,  *)
(* or four or more were.  With one unread, the answer to PASV is that to   *)
(* CWD; with two, the third reply is; with three, it is the last of those  *)
(* unread, which is not the beginning of a transfer.                       *)
LEMMA ExchangeHeard ==
  ASSUME NEW s \in Sessions, Answered(s), NEW dir \in RemoteDir, NEW q \in Transferred
  PROVE  LET x == Exchange(s, dir, q)
         IN  /\ \A k \in 1..4 : x[k] \in Sessions /\ Answered(x[k])
             /\ \A k \in 1..3 : x[k].unread # <<>>
             /\ Heard(x, 3) => x[4].unread # <<>>
             /\ (\A k \in 1..4 : Heard(x, k)) /\ Len(s.unread) < 4 => s.unread = <<>> /\ x[1].cwd = dir
<1> DEFINE c == CwdReply(s, dir)
           sent == Sent(s, <<c>>)
           x1 == [sent EXCEPT !.cwd = IF CanEnter(s, dir) THEN dir ELSE @]
           x2 == Sent(Read(x1), <<Passive>>)
           x3 == Sent(Read(x2), q)
           x4 == Read(x3)
           x == Exchange(s, dir, q)
           n == Len(s.unread)
<1>1. /\ x[1] = x1 /\ x[2] = x2 /\ x[3] = x3 /\ x[4] = x4
  BY DEF Exchange
<1>2. n \in Nat
  BY LenProperties DEF Sessions
<1>3. /\ c \in {Done, Refused} /\ c \in FtpReply /\ c # Opened /\ c # Passive
      /\ Passive \in FtpReply /\ Passive # Opened
      /\ (c = Done => CanEnter(s, dir))
  BY DEF CwdReply, FtpReply, Done, Refused, Passive, Opened
<1> HIDE DEF c, n
<1>4. /\ sent \in Sessions /\ Answered(sent) /\ sent.unread # <<>> /\ Len(sent.unread) = n + 1
      /\ \A i \in 1..n : sent.unread[i] = s.unread[i]
      /\ sent.unread[n + 1] = c
  <2> DEFINE one == <<c>>
  <2>1. one \in Seq(FtpReply) /\ one # <<>> /\ Len(one) = 1 /\ one[1] = c /\ one[Len(one)] # Opened
    BY <1>3, OneReply
  <2>2. sent = Sent(s, one)
    BY DEF sent
  <2> HIDE DEF one, sent
  <2>3. /\ sent \in Sessions /\ Answered(sent) /\ sent.unread # <<>> /\ Len(sent.unread) = n + 1
        /\ \A i \in 1..n : sent.unread[i] = s.unread[i]
        /\ \A i \in 1..1 : sent.unread[n + i] = one[i]
    BY <2>1, <2>2, SentReplies DEF n
  <2> QED
    BY <2>1, <2>3
<1> HIDE DEF sent
<1>5. /\ x1 \in Sessions /\ x1.unread = sent.unread /\ (CanEnter(s, dir) => x1.cwd = dir)
  BY <1>4 DEF Sessions
<1> HIDE DEF x1
<1>6. /\ Answered(x1) /\ x1.unread # <<>> /\ Len(x1.unread) = n + 1
  BY <1>4, <1>5 DEF Answered
<1>7. /\ Read(x1) \in Sessions /\ Answered(Read(x1)) /\ Reply(x1) = x1.unread[1]
      /\ Len(Read(x1).unread) = n
      /\ \A i \in 1..n : Read(x1).unread[i] = x1.unread[i + 1]
  <2>1. (n + 1) - 1 = n
    BY <1>2
  <2>2. /\ Read(x1) \in Sessions /\ Answered(Read(x1)) /\ Reply(x1) = x1.unread[1]
        /\ Len(Read(x1).unread) = (n + 1) - 1
        /\ \A i \in 1..((n + 1) - 1) : Read(x1).unread[i] = x1.unread[i + 1]
    BY <1>5, <1>6, ReadReplies
  <2> QED
    BY <2>1, <2>2
<1>8. /\ x2 \in Sessions /\ Answered(x2) /\ x2.unread # <<>> /\ Len(x2.unread) = n + 1
      /\ \A i \in 1..n : x2.unread[i] = x1.unread[i + 1]
  <2> DEFINE one == <<Passive>>
             read == Read(x1)
  <2>1. one \in Seq(FtpReply) /\ one # <<>> /\ Len(one) = 1 /\ one[Len(one)] # Opened
    BY <1>3, OneReply
  <2>2. x2 = Sent(read, one)
    BY DEF x2
  <2>3. /\ read \in Sessions /\ Len(read.unread) = n
        /\ \A i \in 1..n : read.unread[i] = x1.unread[i + 1]
    BY <1>7
  <2> HIDE DEF one, read, x2
  <2>4. /\ x2 \in Sessions /\ Answered(x2) /\ x2.unread # <<>> /\ Len(x2.unread) = n + 1
        /\ \A i \in 1..n : x2.unread[i] = read.unread[i]
    BY <2>1, <2>2, <2>3, SentReplies
  <2> QED
    BY <2>3, <2>4
<1> HIDE DEF x2
<1>9. /\ Read(x2) \in Sessions /\ Answered(Read(x2)) /\ Reply(x2) = x2.unread[1]
      /\ Len(Read(x2).unread) = n
      /\ \A i \in 1..n : Read(x2).unread[i] = x2.unread[i + 1]
  <2>1. (n + 1) - 1 = n
    BY <1>2
  <2>2. /\ Read(x2) \in Sessions /\ Answered(Read(x2)) /\ Reply(x2) = x2.unread[1]
        /\ Len(Read(x2).unread) = (n + 1) - 1
        /\ \A i \in 1..((n + 1) - 1) : Read(x2).unread[i] = x2.unread[i + 1]
    BY <1>8, ReadReplies
  <2> QED
    BY <2>1, <2>2
<1>10. /\ x3 \in Sessions /\ Answered(x3) /\ x3.unread # <<>>
       /\ \A i \in 1..n : x3.unread[i] = x2.unread[i + 1]
  BY <1>9, TransferredTyped, SentReplies
<1> HIDE DEF x3
<1>11. /\ x4 \in Sessions /\ Answered(x4) /\ Reply(x3) = x3.unread[1]
       /\ x4.unread = <<>> => x3.unread[1] # Opened
  BY <1>10, ReadReplies
<1> HIDE DEF x4
<1>12. /\ Heard(x, 1) => x1.unread[1] = Done
       /\ Heard(x, 2) => x2.unread[1] = Passive
       /\ Heard(x, 3) => x3.unread[1] = Opened
  BY <1>1, <1>7, <1>9, <1>11 DEF Heard, Awaited
<1> HIDE DEF x
<1>13. ASSUME \A k \in 1..4 : Heard(x, k), n < 4
       PROVE  s.unread = <<>> /\ x[1].cwd = dir
  <2>1. x1.unread[1] = Done /\ x2.unread[1] = Passive /\ x3.unread[1] = Opened
    BY <1>12, <1>13
  <2>2. n \in {0, 1, 2, 3}
    BY <1>2, <1>13
  <2>3. CASE n = 0
    <3>1. x1.unread[1] = c
      BY <1>4, <1>5, <2>3
    <3>2. s.unread = <<>>
      BY <2>3, EmptySeq DEF Sessions, n
    <3> QED
      BY <1>1, <1>3, <1>5, <2>1, <3>1, <3>2
  <2>4. CASE n = 1
    <3>1. x2.unread[1] = x1.unread[2] /\ x1.unread[2] = c
      BY <1>4, <1>5, <1>8, <2>4
    <3> QED
      BY <1>3, <2>1, <3>1
  <2>5. CASE n = 2
    <3>1. x3.unread[1] = x2.unread[2] /\ x2.unread[2] = x1.unread[3] /\ x1.unread[3] = c
      BY <1>4, <1>5, <1>8, <1>10, <2>5
    <3> QED
      BY <1>3, <2>1, <3>1
  <2>6. CASE n = 3
    <3>1. /\ x3.unread[1] = x2.unread[2] /\ x2.unread[2] = x1.unread[3]
          /\ x1.unread[3] = s.unread[3]
      BY <1>4, <1>5, <1>8, <1>10, <2>6
    <3>2. s.unread # <<>>
      BY <2>6, EmptySeq DEF n
    <3> QED
      BY <2>1, <2>6, <3>1, <3>2 DEF Answered, n
  <2> QED
    BY <2>2, <2>3, <2>4, <2>5, <2>6
<1>14. Heard(x, 3) => x[4].unread # <<>>
  BY <1>1, <1>11, <1>12
<1>15. /\ \A k \in 1..4 : x[k] \in Sessions /\ Answered(x[k])
       /\ \A k \in 1..3 : x[k].unread # <<>>
  BY <1>1, <1>5, <1>6, <1>8, <1>10, <1>11
<1> QED
  BY <1>13, <1>14, <1>15 DEF x, n

LEMMA ListDirInv == FtpInv /\ ListDir => FtpInv'
<1> SUFFICES ASSUME FtpInv, ListDir PROVE FtpInv'
  OBVIOUS
<1>1. PICK dir \in RemoteDir : list_dir(dir)
  BY DEF ListDir
<1>2. PICK q \in Transferred :
        LET x == Exchange(ui, dir, q)
            of == IF ui.unread = <<>> THEN {x[1].cwd} ELSE RemoteDir
        IN  \/ \E k \in 1..4 : /\ \A j \in 1..(k - 1) : Heard(x, j)
                               /\ ui' \in Dropped(x[k]) \/ Mishears(x, k)
                               /\ listing' = Nothing
            \/ /\ \A j \in 1..4 : Heard(x, j)
               /\ ui' = Read(x[4])
               /\ listing' \in [of : of, asked : {dir}, behind : {Len(ui.unread)}]
  BY <1>1 DEF list_dir
<1> DEFINE x == Exchange(ui, dir, q)
<1>3. ui \in Sessions /\ Answered(ui) /\ Len(ui.unread) \in Nat
  BY LenProperties DEF FtpInv, FtpTypeOK, UiAnswered, Sessions
<1>4. /\ \A k \in 1..4 : x[k] \in Sessions /\ Answered(x[k])
      /\ \A k \in 1..3 : x[k].unread # <<>>
      /\ Heard(x, 3) => x[4].unread # <<>>
      /\ (\A k \in 1..4 : Heard(x, k)) /\ Len(ui.unread) < 4 => ui.unread = <<>> /\ x[1].cwd = dir
  BY <1>3, ExchangeHeard
<1> HIDE DEF x
<1>5. /\ ui' \in Sessions /\ Answered(ui')
      /\ \/ listing' = Nothing
         \/ /\ listing' \in Listings
            /\ listing'.of = listing'.asked \/ listing'.behind >= 4
  <2>1. ASSUME NEW k \in 1..4, \A j \in 1..(k - 1) : Heard(x, j),
               ui' \in Dropped(x[k]) \/ Mishears(x, k), listing' = Nothing
        PROVE  ui' \in Sessions /\ Answered(ui')
    <3>1. k = 4 => Heard(x, 3)
      BY <2>1
    <3>2. x[k] \in Sessions /\ Answered(x[k]) /\ x[k].unread # <<>>
      BY <1>4, <3>1
    <3> QED
      BY <2>1, <3>2, DroppedReplies, ReadReplies DEF Mishears
  <2>2. ASSUME \A j \in 1..4 : Heard(x, j), ui' = Read(x[4]),
               listing' \in [of : IF ui.unread = <<>> THEN {x[1].cwd} ELSE RemoteDir, asked : {dir},
                             behind : {Len(ui.unread)}]
        PROVE  /\ ui' \in Sessions /\ Answered(ui')
               /\ listing' \in Listings
               /\ listing'.of = listing'.asked \/ listing'.behind >= 4
    <3>1. ui' \in Sessions /\ Answered(ui')
      BY <1>4, <2>2, ReadReplies
    <3>2. x[1].cwd \in RemoteDir
      BY <1>4 DEF Sessions
    <3>3. listing' \in Listings /\ listing'.asked = dir /\ listing'.behind = Len(ui.unread)
      BY <1>3, <2>2, <3>2 DEF Listings
    <3>4. CASE Len(ui.unread) < 4
      <4>1. ui.unread = <<>> /\ x[1].cwd = dir
        BY <1>4, <2>2, <3>4
      <4> QED
        BY <2>2, <3>1, <3>3, <4>1
    <3>5. CASE ~(Len(ui.unread) < 4)
      BY <1>3, <3>1, <3>3, <3>5
    <3> QED
      BY <3>4, <3>5
  <2> QED
    BY <1>2, <2>1, <2>2 DEF x
<1>6. UNCHANGED <<tree, file, pool, worker, cancel>>
  BY DEF ListDir, UiStays
<1> QED
  BY <1>5, <1>6 DEF FtpInv, FtpTypeOK, PoolInStep, WorkerInStep, FileOfJob, Attempts, Under, Ended, UiAnswered,
     ListsWhatWasAsked

(* The file created in between uses the same exchange and hears any answer *)
(* to CWD.                                                                 *)
LEMMA CreateEmptyFileTyped ==
  ASSUME FtpInv, create_empty_file
  PROVE  ui' \in Sessions /\ Answered(ui')
<1>1. PICK dir \in RemoteDir, q \in Transferred :
        LET x == Exchange(ui, dir, q)
        IN  \E k \in 2..4 : /\ \A j \in 2..(k - 1) : Heard(x, j)
                            /\ \/ k > 2 /\ ui' = x[k]
                               \/ k = 4 /\ ui' = Read(x[k])
                               \/ Mishears(x, k)
  BY DEF create_empty_file
<1> DEFINE x == Exchange(ui, dir, q)
<1>2. ui \in Sessions /\ Answered(ui)
  BY DEF FtpInv, FtpTypeOK, UiAnswered
<1>3. /\ \A k \in 1..4 : x[k] \in Sessions /\ Answered(x[k])
      /\ \A k \in 1..3 : x[k].unread # <<>>
      /\ Heard(x, 3) => x[4].unread # <<>>
  BY <1>2, ExchangeHeard
<1> HIDE DEF x
<1>4. PICK k \in 2..4 : /\ \A j \in 2..(k - 1) : Heard(x, j)
                        /\ ui' = x[k] \/ ui' = Read(x[k])
  BY <1>1 DEF Mishears, x
<1>5. k = 4 => Heard(x, 3)
  BY <1>4
<1>6. x[k] \in Sessions /\ Answered(x[k]) /\ x[k].unread # <<>>
  BY <1>3, <1>5
<1> QED
  BY <1>4, <1>6, ReadReplies

LEMMA UiCommandInv ==
  FtpInv /\ (create_dir \/ remove \/ create_empty_file \/ rename \/ Reconnect) => FtpInv'
<1> SUFFICES ASSUME FtpInv, create_dir \/ remove \/ create_empty_file \/ rename \/ Reconnect
             PROVE  FtpInv'
  OBVIOUS
<1>1. ui \in Sessions /\ Answered(ui) /\ \A r \in {Created, Pending, Done, Refused} : r \in FtpReply /\ r # Opened
  BY DEF FtpInv, FtpTypeOK, UiAnswered, FtpReply, Created, Pending, Done, Refused, Opened
<1>2. \A s \in Sessions : \A r \in {Created, Pending, Done, Refused} :
        Command(s, r) \in Sessions /\ Answered(Command(s, r))
  BY <1>1, CommandTyped
<1>3. /\ tree' \in SUBSET RemoteDir /\ Root \in tree'
      /\ ui' \in Sessions /\ Answered(ui')
      /\ listing' = Nothing
      /\ UNCHANGED <<file, pool, worker, cancel>>
  <2>1. CASE create_dir
    BY <1>1, <1>2, <2>1 DEF create_dir, UiStays, FtpInv, FtpTypeOK
  <2>2. CASE remove
    BY <1>1, <1>2, <2>2 DEF remove, UiStays, FtpInv, FtpTypeOK
  <2>3. CASE Reconnect
    BY <2>3, ConnectedTyped DEF Reconnect, UiStays, FtpInv, FtpTypeOK, Answered
  <2>4. CASE create_empty_file
    BY <2>4, CreateEmptyFileTyped DEF create_empty_file, UiStays, FtpInv, FtpTypeOK
  <2>5. CASE rename
    <3>1. PICK from \in {Pending, Refused}, to \in {Done, Refused} :
            ui' = IF Hears(ui, from) = Pending THEN Command(Command(ui, from), to) ELSE Command(ui, from)
      BY <2>5 DEF rename
    <3>2. ui' \in Sessions /\ Answered(ui')
      BY <1>1, <1>2, <3>1
    <3> QED
      BY <2>5, <3>2 DEF rename, UiStays, FtpInv, FtpTypeOK
  <2> QED
    BY <2>1, <2>2, <2>3, <2>4, <2>5
<1> QED
  BY <1>3 DEF FtpInv, FtpTypeOK, PoolInStep, WorkerInStep, FileOfJob, Attempts, Under, Ended, UiAnswered, Answered,
     ListsWhatWasAsked

-----------------------------------------------------------------------------
LEMMA FtpNextInv == FtpInv /\ [FtpNext]_ftpVars => FtpInv'
<1> SUFFICES ASSUME FtpInv, [FtpNext]_ftpVars PROVE FtpInv'
  OBVIOUS
<1>1. CASE UNCHANGED ftpVars
  BY <1>1 DEF ftpVars, FtpInv, FtpTypeOK, PoolInStep, WorkerInStep, FileOfJob, Attempts, Under, Ended, UiAnswered, Answered,
     ListsWhatWasAsked
<1>2. CASE FtpNext
  BY <1>2, StartJobInv, WorkerConnectsInv, EnterFolderInv, OpenDataInv, CopyEndsInv, CloseDataInv,
     TransferFailedInv, SettleInv, EnvironmentInv, ListDirInv, UiCommandInv DEF FtpNext, WorkerNext, PanesNext
<1> QED
  BY <1>1, <1>2

(* The inductive invariant of transfers and listings.                      *)
THEOREM FtpInvariant == FtpSpec => []FtpInv
<1> QED
  BY FtpInitInv, FtpNextInv, PTL DEF FtpSpec

(* A session in the pool has no reply unread, whatever ended the jobs that *)
(* used it, and panes show the entries of the folder that they asked for,  *)
(* unless as many replies were unread as a listing reads, four or more:    *)
(* commands hear their own answers where it matters.                       *)
THEOREM RepliesFit == FtpSpec => []RepliesFitCommands
<1>1. FtpInv => RepliesFitCommands
  BY DEF FtpInv, RepliesFitCommands
<1> QED
  BY <1>1, FtpInvariant, PTL

(* A transfer reported as done moved the whole file.                       *)
LEMMA TransfersAreWhole == FtpInv => DoneIsWhole
  BY DEF FtpInv, FileOfJob, Ended, Under, DoneIsWhole, Finishes, At

(* A file ends up in its job's folder if that folder could be entered.     *)
LEMMA FilesStayInFolder == FtpInv => StraysOnlyIfRefused
  BY DEF FtpInv, FileOfJob, Ended, Under, StraysOnlyIfRefused, Finishes, At

(* No job fails of a session that died in the pool.                        *)
LEMMA FailuresAreFresh == FtpInv => NoStaleFailure
  BY DEF FtpInv, Attempts, Under, NoStaleFailure, Finishes, At

(* Whatever a worker reports of its job at its end is so.                  *)
THEOREM WorkersReportTrue == FtpSpec => ReportsAreTrue
<1>1. FtpInv => DoneIsWhole /\ StraysOnlyIfRefused /\ NoStaleFailure
  BY TransfersAreWhole, FilesStayInFolder, FailuresAreFresh
<1>2. FtpInv /\ [FtpNext]_ftpVars =>
        [DoneIsWhole /\ StraysOnlyIfRefused /\ NoStaleFailure]_ftpVars
  BY <1>1
<1> QED
  BY <1>2, FtpInvariant, PTL DEF FtpSpec, ReportsAreTrue

-----------------------------------------------------------------------------
(***************************************************************************)
(* The remote edit, for every set of files and every number of jobs and of *)
(* changes.  The inductive invariant says of an edit that began with no    *)
(* job left over: one thing at a time has it in hand (a prompt, the editor *)
(* or the check, and then no job is left), or one job has.  From the print *)
(* taken of the download on, what is in the cache file is known.           *)
(***************************************************************************)

Records == JobRecord \cup {Gone}

Left(j) == jobs[j].status \in Unfinished

Clear == \A j \in JobId : ~Left(j)

(* A prompt, the editor or a check takes the edit on. *)
InHand == prompt \in EditPrompt \/ editor_ready \/ edit_check_remote

SessionInv ==
  \/ edit_session = NoEdit
  \/ edit_session.path \in Path /\ edit_session.seen \in 0..MaxStamp

HandInv ==
  /\ InHand => Editing /\ Clear
  /\ editor_ready => prompt \notin EditPrompt /\ ~edit_check_remote
  /\ edit_check_remote => prompt \notin EditPrompt

(* A download left over holds no work of the user, and is the session's. *)
JobInv ==
  /\ \A j, k \in JobId : Left(j) /\ Left(k) => j = k
  /\ \A j \in JobId : Left(j) /\ jobs[j].down =>
       /\ work[jobs[j].cached] = "none"
       /\ Editing => /\ edit_session.path = jobs[j].cached
                     /\ jobs[j].status = "moved" => cache[jobs[j].cached] = "downloaded"

PrintInv ==
  /\ editor_ready \/ prompt = "ConfirmEditBinary" =>
       cache[edit_session.path] = "downloaded" /\ edit_session.fingerprint # "none"
  /\ prompt = "ConfirmEditLarge" => edit_session.fingerprint = "none"
  /\ Editing /\ edit_session.fingerprint = "none" => work[edit_session.path] = "none"

Kept == \A p \in Path : work[p] = "saved" => cache[p] = "mine"

OneEditInv == HandInv /\ JobInv /\ PrintInv /\ Kept

(* The inductive invariant.                                                *)
EditIInv == TypeOK /\ SessionInv /\ CheckIsItsOwn /\ EditMovesOn /\ (crossed \/ OneEditInv)

-----------------------------------------------------------------------------
(* The jobs.                                                               *)

LEMMA RecordFacts ==
  ASSUME NEW r \in Records
  PROVE  /\ r.status \in Unfinished \cup {"gone"}
         /\ r.status \in Unfinished => r \in JobRecord
BY DEF Records, JobRecord, Gone, Unfinished

LEMMA LeftFacts ==
  ASSUME TypeOK, NEW j \in JobId, Left(j)
  PROVE  jobs[j] \in JobRecord /\ jobs[j].cached \in Path /\ jobs[j].down \in BOOLEAN
BY RecordFacts DEF TypeOK, JobId, Left, Records, JobRecord

(* Job j has status s now, or is gone; the others are as they were. *)
JobBecomes(j, s) ==
  /\ jobs' \in Seq(Records) /\ Len(jobs') = Len(jobs)
  /\ \A k \in JobId : k # j => jobs'[k] = jobs[k]
  /\ jobs'[j].status = s
  /\ s # "gone" => jobs'[j].down = jobs[j].down /\ jobs'[j].cached = jobs[j].cached

LEMMA StatusStep ==
  ASSUME TypeOK, NEW j \in JobId, Left(j), NEW s \in Unfinished,
         jobs' = [jobs EXCEPT ![j].status = s]
  PROVE  JobBecomes(j, s)
<1> DEFINE r == [jobs[j] EXCEPT !.status = s]
<1>1. r \in JobRecord /\ r.status = s /\ r.down = jobs[j].down /\ r.cached = jobs[j].cached
  BY LeftFacts DEF JobRecord
<1>2. jobs' = [jobs EXCEPT ![j] = r] /\ jobs \in Seq(Records) /\ j \in 1..Len(jobs)
  BY DEF TypeOK, Records, JobId
<1> HIDE DEF r
<1> QED BY <1>1, <1>2 DEF JobBecomes, JobId, Records

LEMMA GoneStep ==
  ASSUME TypeOK, NEW j \in JobId, JobGoes(j)
  PROVE  JobBecomes(j, "gone")
<1>1. jobs' = [jobs EXCEPT ![j] = Gone] /\ jobs \in Seq(Records) /\ j \in 1..Len(jobs)
  BY DEF TypeOK, Records, JobId, JobGoes
<1>2. Gone \in Records /\ Gone.status = "gone"
  BY DEF Gone, Records
<1> HIDE DEF Gone
<1> QED BY <1>1, <1>2 DEF JobBecomes, JobId

(* A new job at the end of the queue. *)
Added(down, path, at, word) ==
  /\ jobs' \in Seq(Records) /\ Len(jobs') = Len(jobs) + 1 /\ Len(jobs') <= MaxJob
  /\ \A k \in JobId : jobs'[k] = jobs[k]
  /\ LET r == jobs'[Len(jobs) + 1]
     IN  r.status = "pending" /\ r.down = down /\ r.path = path /\ r.cached = at /\ r.word = word

LEMMA AddStep ==
  ASSUME TypeOK, NEW down \in BOOLEAN, NEW path \in Path, NEW at \in Path,
         NEW word \in {"none", "unchecked", "checked", "asked", "named"},
         Enqueues(Job(down, path, at, word))
  PROVE  Added(down, path, at, word)
<1> DEFINE r == Job(down, path, at, word)
<1>1. r \in Records /\ r.status = "pending" /\ r.down = down /\ r.path = path
      /\ r.cached = at /\ r.word = word
  BY DEF Job, Records, JobRecord, Unfinished
<1>2. jobs' = Append(jobs, r) /\ jobs \in Seq(Records) /\ Len(jobs) < MaxJob /\ Len(jobs) \in Nat
      /\ MaxJob \in Nat
  BY EditAssumption DEF Enqueues, TypeOK, Records
<1> HIDE DEF r
<1>3. /\ Append(jobs, r) \in Seq(Records) /\ Len(Append(jobs, r)) = Len(jobs) + 1
      /\ \A k \in 1..Len(jobs) : Append(jobs, r)[k] = jobs[k]
      /\ Append(jobs, r)[Len(jobs) + 1] = r
  BY <1>1, <1>2, AppendProperties
<1> QED BY <1>1, <1>2, <1>3 DEF Added, JobId

(* Jobs end, or go on as they were. *)
JobsOnlyEnd ==
  /\ jobs' \in Seq(Records) /\ Len(jobs') <= MaxJob
  /\ \A j \in 1..Len(jobs') : Left(j)' =>
       /\ j \in JobId /\ Left(j)
       /\ jobs'[j].down = jobs[j].down /\ jobs'[j].cached = jobs[j].cached

LEMMA SameJobs ==
  ASSUME TypeOK, jobs' = jobs
  PROVE  JobsOnlyEnd
BY DEF JobsOnlyEnd, TypeOK, JobId, Left, Records

LEMMA BecomesOnlyEnds ==
  ASSUME TypeOK, NEW j \in JobId, NEW s, JobBecomes(j, s), s = "gone" \/ Left(j)
  PROVE  JobsOnlyEnd
BY DEF JobsOnlyEnd, JobBecomes, JobId, Left, TypeOK, Unfinished

-----------------------------------------------------------------------------
(* The actions in groups.                                                  *)

LEMMA EditInitInv == Init => EditIInv
<1> SUFFICES ASSUME Init PROVE EditIInv
  OBVIOUS
<1>1. TypeOK
  <2>1. edit_session \in [path : Path \cup {NoPath}, seen : -1..MaxStamp, fingerprint : Content]
    BY EditAssumption DEF Init, NoEdit, NoTime, Content
  <2>2. jobs \in Seq(JobRecord \cup {Gone}) /\ Len(jobs) <= MaxJob
    BY EditAssumption DEF Init
  <2>3. /\ remote \in [Path -> 0..MaxStamp] /\ listed \in [Path -> 0..MaxStamp]
        /\ cache \in [Path -> Content] /\ work \in [Path -> {"none", "saved"}]
        /\ closed \in 0..MaxStamp
    BY EditAssumption DEF Init, Content
  <2>4. /\ connected \in BOOLEAN /\ worker_cancel_requested \in BOOLEAN
        /\ editor_ready \in BOOLEAN /\ edit_check_remote \in BOOLEAN
        /\ abandoned \in BOOLEAN /\ crossed \in BOOLEAN
        /\ in_flight \in {"None", "Check", "Other"}
        /\ prompt \in {"None", "Choice"} \cup EditPrompt
    BY DEF Init
  <2> QED BY <2>1, <2>2, <2>3, <2>4 DEF TypeOK
<1>2. SessionInv /\ CheckIsItsOwn /\ EditMovesOn
  BY DEF Init, SessionInv, CheckIsItsOwn, EditMovesOn, Editing
<1>3. OneEditInv
  <2>1. Len(jobs) = 0
    BY DEF Init
  <2> QED BY <2>1 DEF Init, OneEditInv, HandInv, JobInv, PrintInv, Kept, InHand, EditPrompt, Editing, JobId
<1> QED BY <1>1, <1>2, <1>3 DEF EditIInv

(* Steps of the rest of the program. *)
LEMMA QuietKeeps ==
  ASSUME EditIInv, UNCHANGED <<editVars, jobs, cache, historyVars>>,
         in_flight' = in_flight \/ in_flight # "Check",
         prompt' = prompt \/ (prompt \in {"None", "Choice"} /\ prompt' \in {"None", "Choice"}),
         connected' \in BOOLEAN, worker_cancel_requested' \in BOOLEAN,
         in_flight' \in {"None", "Check", "Other"},
         remote' \in [Path -> 0..MaxStamp], listed' \in [Path -> 0..MaxStamp]
  PROVE  EditIInv'
<1>1. /\ UNCHANGED <<edit_session, editor_ready, edit_check_remote, work, closed, abandoned, crossed>>
      /\ jobs' = jobs /\ cache' = cache
      /\ prompt' \in EditPrompt <=> prompt \in EditPrompt
      /\ prompt' \in EditPrompt => prompt' = prompt
  BY DEF editVars, historyVars, EditPrompt
<1>2. TypeOK' /\ SessionInv'
  BY <1>1 DEF EditIInv, TypeOK, SessionInv
<1>3. CheckIsItsOwn' /\ EditMovesOn'
  BY <1>1 DEF EditIInv, CheckIsItsOwn, EditMovesOn, Editing, JobId
<1>4. ASSUME OneEditInv PROVE OneEditInv'
  <2>1. HandInv' /\ JobInv' /\ Kept'
    BY <1>1, <1>4 DEF OneEditInv, HandInv, InHand, JobInv, Kept, Editing, Clear, Left, JobId
  <2>2. PrintInv'
    BY <1>1, <1>4 DEF OneEditInv, PrintInv, Editing, EditPrompt
  <2> QED BY <2>1, <2>2 DEF OneEditInv
<1> QED BY <1>1, <1>2, <1>3, <1>4 DEF EditIInv

LEMMA RestKeeps ==
  ASSUME EditIInv,
         \/ CancelTransfers \/ RetryKeys \/ OpenChoice \/ CloseChoice \/ Connect
         \/ OtherStarts \/ OtherEnds \/ (\E p \in Path : OthersChange(p))
         \/ UNCHANGED vars
  PROVE  EditIInv'
<1>1. TypeOK
  BY DEF EditIInv
<1>2. CASE CancelTransfers \/ RetryKeys \/ OpenChoice \/ CloseChoice \/ OtherStarts \/ UNCHANGED vars
  BY <1>1, <1>2, QuietKeeps
     DEF CancelTransfers, RetryKeys, OpenChoice, CloseChoice, OtherStarts, vars, sessionVars,
         dataVars, TypeOK
<1>3. CASE Connect \/ OtherEnds
  <2>1. listed' \in [Path -> 0..MaxStamp]
    BY <1>1, <1>3 DEF Connect, OtherEnds, TypeOK
  <2> QED BY <1>1, <1>3, <2>1, QuietKeeps DEF Connect, OtherEnds, TypeOK
<1>4. ASSUME NEW p \in Path, OthersChange(p) PROVE EditIInv'
  <2>1. remote' \in [Path -> 0..MaxStamp]
    BY <1>1, <1>4, EditAssumption DEF OthersChange, TypeOK
  <2> QED BY <1>1, <1>4, <2>1, QuietKeeps DEF OthersChange, TypeOK, sessionVars
<1> QED BY <1>2, <1>3, <1>4

(* Steps that end the edit. *)
LEMMA CancelledKeeps ==
  ASSUME EditIInv, NEW keep \in BOOLEAN, CancelsEdit(keep), JobsOnlyEnd,
         connected' \in BOOLEAN, worker_cancel_requested' \in BOOLEAN,
         in_flight' \in {"None", "Check", "Other"},
         prompt' \in {"None", "Choice"} \cup EditPrompt,
         UNCHANGED <<remote, listed, work, closed, crossed>>,
         crossed \/ /\ prompt' \notin EditPrompt
                    /\ keep \/ (Editing => work[edit_session.path] # "saved")
  PROVE  EditIInv'
<1>1. /\ edit_session' = NoEdit /\ ~editor_ready' /\ ~edit_check_remote' /\ abandoned' = FALSE
      /\ cache' \in [Path -> Content]
      /\ editor_ready' \in BOOLEAN /\ edit_check_remote' \in BOOLEAN
  BY DEF CancelsEdit, EditIInv, TypeOK, Content
<1>2. NoEdit \in [path : Path \cup {NoPath}, seen : -1..MaxStamp, fingerprint : Content]
  BY EditAssumption DEF NoEdit, NoTime, Content
<1>3. ~Editing'
  BY <1>1 DEF Editing
<1>4. TypeOK'
  BY <1>1, <1>2 DEF EditIInv, TypeOK, JobsOnlyEnd, Records
<1>5. SessionInv' /\ CheckIsItsOwn' /\ EditMovesOn'
  BY <1>1, <1>3 DEF SessionInv, CheckIsItsOwn, EditMovesOn
<1>6. ASSUME ~crossed PROVE OneEditInv'
  <2>1. HandInv' /\ PrintInv'
    BY <1>1, <1>3, <1>6 DEF HandInv, InHand, PrintInv, EditPrompt
  <2>2. JobInv'
    BY <1>3, <1>6 DEF EditIInv, OneEditInv, JobInv, JobsOnlyEnd, JobId
  <2>3. Kept'
    BY <1>6 DEF EditIInv, OneEditInv, Kept, CancelsEdit, TypeOK, SessionInv, Editing
  <2> QED BY <2>1, <2>2, <2>3 DEF OneEditInv
<1> QED BY <1>4, <1>5, <1>6 DEF EditIInv

(* An edit begins: its download is queued, or nothing comes of it. *)
LEMMA BeginsDownload ==
  ASSUME TypeOK, NEW edit, edit = NoEdit \/ edit.path \in Path, BeginEditDownload(edit)
  PROVE  /\ worker_cancel_requested' \in BOOLEAN
         /\ \/ edit = NoEdit /\ edit_session' = edit_session /\ jobs' = jobs
            \/ edit # NoEdit /\ edit_session' = NoEdit /\ jobs' = jobs
            \/ edit # NoEdit /\ edit_session' = edit /\ Added(TRUE, edit.path, edit.path, "none")
BY AddStep DEF BeginEditDownload, TypeOK

(* The edit whose cache file a new job is about moves on. *)
LEMMA AddedMovesOn ==
  ASSUME TypeOK, NEW down, NEW path, NEW at, NEW word, Added(down, path, at, word),
         edit_session'.path = at
  PROVE  EditMovesOn'
<1>1. /\ Len(jobs) + 1 \in 1..Len(jobs')
      /\ jobs'[Len(jobs) + 1].cached = at /\ jobs'[Len(jobs) + 1].status = "pending"
  BY DEF Added, TypeOK
<1> QED BY <1>1 DEF EditMovesOn, JobId

(* The download of an edit that had no job before it. *)
LEMMA DownloadAdded ==
  ASSUME TypeOK, Clear, NEW p \in Path, Added(TRUE, p, p, "none"),
         edit_session'.path = p, work'[p] = "none"
  PROVE  JobInv'
<1>1. ASSUME NEW j \in 1..Len(jobs'), Left(j)' PROVE j = Len(jobs) + 1
  <2>1. Len(jobs) \in Nat /\ Len(jobs') = Len(jobs) + 1
    BY DEF Added, TypeOK
  <2>2. CASE j \in JobId
    BY <1>1, <2>2 DEF Added, Clear, Left
  <2>3. CASE j \notin JobId
    BY <2>1, <2>3 DEF JobId
  <2> QED BY <2>2, <2>3
<1>2. LET r == jobs'[Len(jobs) + 1] IN r.status = "pending" /\ r.cached = p
  BY DEF Added
<1> QED BY <1>1, <1>2 DEF JobInv, JobId

LEMMA StartKeeps ==
  ASSUME EditIInv, NEW p \in Path, NEW large \in BOOLEAN, StartRemoteEdit(p, large)
  PROVE  EditIInv'
<1> DEFINE edit == [path |-> p, seen |-> listed[p], fingerprint |-> "none"]
<1>1. TypeOK
  BY DEF EditIInv
<1>2. /\ edit \in [path : Path \cup {NoPath}, seen : -1..MaxStamp, fingerprint : Content]
      /\ edit.path = p /\ edit.seen \in 0..MaxStamp /\ edit.fingerprint = "none" /\ edit # NoEdit
  BY <1>1, EditAssumption DEF TypeOK, Content, NoEdit
<1>3. /\ prompt = "None" /\ ~Editing /\ in_flight = "None"
      /\ \/ edit_session' = edit /\ prompt' = "ConfirmEditLarge"
            /\ UNCHANGED <<jobs, worker_cancel_requested>>
         \/ BeginEditDownload(edit) /\ prompt' = prompt
      /\ work' = [work EXCEPT ![p] = "none"]
      /\ crossed' = (crossed \/ \E j \in JobId : jobs[j].status \in Unfinished)
      /\ UNCHANGED <<connected, in_flight, editor_ready, edit_check_remote, cache, remote, listed,
                     closed, abandoned>>
  BY DEF StartRemoteEdit, dataVars
<1> HIDE DEF edit
<1>4. /\ worker_cancel_requested' \in BOOLEAN
      /\ \/ edit_session' = edit /\ prompt' = "ConfirmEditLarge" /\ jobs' = jobs
         \/ edit_session' = NoEdit /\ prompt' = "None" /\ jobs' = jobs
         \/ edit_session' = edit /\ prompt' = "None" /\ Added(TRUE, p, p, "none")
  BY <1>1, <1>2, <1>3, BeginsDownload DEF TypeOK
<1>5. NoEdit \in [path : Path \cup {NoPath}, seen : -1..MaxStamp, fingerprint : Content]
  BY EditAssumption DEF NoEdit, NoTime, Content
<1>6. TypeOK'
  <2>1. jobs' \in Seq(Records) /\ Len(jobs') <= MaxJob
    BY <1>1, <1>4 DEF TypeOK, Records, Added
  <2>2. prompt' \in {"None", "Choice"} \cup EditPrompt /\ work' \in [Path -> {"none", "saved"}]
    BY <1>1, <1>3, <1>4 DEF EditPrompt, TypeOK
  <2> QED BY <1>1, <1>2, <1>3, <1>4, <1>5, <2>1, <2>2 DEF TypeOK, Records
<1>7. SessionInv' /\ CheckIsItsOwn'
  BY <1>2, <1>3, <1>4 DEF SessionInv, CheckIsItsOwn, EditIInv
<1>8. EditMovesOn'
  <2>1. CASE edit_session' = edit /\ Added(TRUE, p, p, "none")
    BY <1>1, <1>2, <2>1, AddedMovesOn
  <2>2. CASE edit_session' = NoEdit \/ prompt' = "ConfirmEditLarge"
    BY <2>2 DEF EditMovesOn, EditPrompt, Editing
  <2> QED BY <1>4, <2>1, <2>2
<1>9. ASSUME ~crossed' PROVE OneEditInv'
  <2>1. OneEditInv /\ Clear /\ ~InHand
    BY <1>3, <1>9 DEF EditIInv, OneEditInv, HandInv, Clear, Left
  <2>2. HandInv'
    BY <1>2, <1>3, <1>4, <2>1 DEF HandInv, InHand, EditPrompt, Editing, Clear, Left, JobId
  <2>3. work'[p] = "none"
    BY <1>1, <1>3 DEF TypeOK
  <2>4. JobInv'
    <3>1. CASE jobs' = jobs
      BY <2>1, <3>1 DEF JobInv, Clear, Left, JobId
    <3>2. CASE edit_session' = edit /\ Added(TRUE, p, p, "none")
      BY <1>1, <1>2, <2>1, <2>3, <3>2, DownloadAdded
    <3> QED BY <1>4, <3>1, <3>2
  <2>5. PrintInv'
    BY <1>2, <1>3, <1>4, <2>1, <2>3 DEF PrintInv, InHand, EditPrompt, Editing
  <2>6. Kept'
    BY <1>1, <1>3, <2>1 DEF Kept, OneEditInv, TypeOK
  <2> QED BY <2>2, <2>4, <2>5, <2>6 DEF OneEditInv
<1> QED BY <1>6, <1>7, <1>8, <1>9 DEF EditIInv

LEMMA AnswerLargeKeeps ==
  ASSUME EditIInv, NEW yes \in BOOLEAN, AnswerLarge(yes)
  PROVE  EditIInv'
<1>1. TypeOK
  BY DEF EditIInv
<1>2. /\ prompt = "ConfirmEditLarge" /\ prompt' = "None"
      /\ UNCHANGED <<connected, in_flight, remote, listed, work, closed, crossed>>
      /\ InHand
  BY DEF AnswerLarge, InHand, EditPrompt
<1>3. ~crossed => Editing /\ Clear /\ work[edit_session.path] = "none"
                  /\ ~editor_ready /\ ~edit_check_remote
  BY <1>2 DEF EditIInv, OneEditInv, HandInv, PrintInv, EditPrompt
<1>4. CASE ~yes
  <2>1. CancelsEdit(FALSE) /\ jobs' = jobs /\ worker_cancel_requested' = worker_cancel_requested
    BY <1>4 DEF AnswerLarge
  <2>2. JobsOnlyEnd
    BY <1>1, <2>1, SameJobs
  <2> QED BY <1>1, <1>2, <1>3, <2>1, <2>2, CancelledKeeps DEF TypeOK, EditPrompt
<1>5. CASE yes
  <2>1. /\ BeginEditDownload(edit_session)
        /\ UNCHANGED <<editor_ready, edit_check_remote, cache, abandoned>>
    BY <1>5 DEF AnswerLarge
  <2>2. /\ worker_cancel_requested' \in BOOLEAN
        /\ \/ edit_session = NoEdit /\ edit_session' = NoEdit /\ jobs' = jobs
           \/ edit_session # NoEdit /\ edit_session' = NoEdit /\ jobs' = jobs
           \/ /\ edit_session # NoEdit /\ edit_session' = edit_session
              /\ Added(TRUE, edit_session.path, edit_session.path, "none")
    BY <1>1, <2>1, BeginsDownload DEF EditIInv, SessionInv
  <2>3. NoEdit \in [path : Path \cup {NoPath}, seen : -1..MaxStamp, fingerprint : Content]
    BY EditAssumption DEF NoEdit, NoTime, Content
  <2>4. TypeOK'
    <3>1. jobs' \in Seq(Records) /\ Len(jobs') <= MaxJob
      BY <1>1, <2>2 DEF TypeOK, Records, Added
    <3> QED BY <1>1, <1>2, <2>1, <2>2, <2>3, <3>1 DEF TypeOK, Records
  <2>5. SessionInv' /\ CheckIsItsOwn'
    BY <1>2, <2>1, <2>2 DEF SessionInv, CheckIsItsOwn, EditIInv
  <2>6. EditMovesOn'
    <3>1. CASE edit_session' = NoEdit
      BY <3>1 DEF EditMovesOn, Editing
    <3>2. CASE /\ edit_session' = edit_session
               /\ Added(TRUE, edit_session.path, edit_session.path, "none")
      BY <1>1, <3>2, AddedMovesOn
    <3> QED BY <2>2, <3>1, <3>2
  <2>7. ASSUME ~crossed PROVE OneEditInv'
    <3>1. OneEditInv
      BY <2>7 DEF EditIInv
    <3>2. HandInv' /\ PrintInv' /\ Kept'
      BY <1>2, <1>3, <2>1, <2>2, <2>7, <3>1
         DEF OneEditInv, HandInv, InHand, EditPrompt, PrintInv, Kept, Editing
    <3>3. JobInv'
      <4>1. CASE jobs' = jobs
        BY <1>3, <2>7, <4>1 DEF JobInv, Clear, Left, JobId
      <4>2. CASE /\ edit_session # NoEdit /\ edit_session' = edit_session
                 /\ Added(TRUE, edit_session.path, edit_session.path, "none")
        <5>1. edit_session.path \in Path
          BY <4>2 DEF EditIInv, SessionInv
        <5> QED BY <1>1, <1>2, <1>3, <2>7, <4>2, <5>1, DownloadAdded
      <4> QED BY <2>2, <4>1, <4>2
    <3> QED BY <3>2, <3>3 DEF OneEditInv
  <2> QED BY <1>2, <2>4, <2>5, <2>6, <2>7 DEF EditIInv
<1> QED BY <1>4, <1>5

(* A job goes on, fails, is retried or ends, with its cache file. *)
LEMMA JobKeeps ==
  ASSUME EditIInv, NEW j \in JobId, Left(j), NEW s \in Unfinished \cup {"gone"}, JobBecomes(j, s),
         NEW c \in Content,
         \/ cache' = cache
         \/ jobs[j].down /\ cache' = [cache EXCEPT ![jobs[j].cached] = c],
         s = "moved" /\ jobs[j].down => cache'[jobs[j].cached] = "downloaded",
         s \in {"failed", "gone"} /\ edit_session.path = jobs[j].cached => abandoned',
         abandoned /\ ~abandoned' => edit_session.path = jobs[j].cached /\ s \notin {"failed", "gone"},
         worker_cancel_requested' \in BOOLEAN, abandoned' \in BOOLEAN,
         remote' \in [Path -> 0..MaxStamp],
         UNCHANGED <<connected, in_flight, prompt, editVars, listed, work, closed, crossed>>
  PROVE  EditIInv'
<1>1. /\ TypeOK /\ SessionInv /\ CheckIsItsOwn /\ EditMovesOn
      /\ jobs[j].cached \in Path /\ jobs[j].down \in BOOLEAN
  BY LeftFacts DEF EditIInv
<1>2. UNCHANGED <<connected, in_flight, prompt, edit_session, editor_ready, edit_check_remote,
                  listed, work, closed, crossed>>
  BY DEF editVars
<1>3. JobsOnlyEnd
  BY <1>1, BecomesOnlyEnds
<1>4. cache' \in [Path -> Content]
  BY <1>1 DEF TypeOK
<1>5. TypeOK' /\ SessionInv' /\ CheckIsItsOwn'
  BY <1>1, <1>2, <1>3, <1>4 DEF TypeOK, SessionInv, CheckIsItsOwn, JobsOnlyEnd, Records
<1>6. EditMovesOn'
  <2>1. SUFFICES ASSUME Editing, ~(abandoned' \/ crossed),
                        ~(prompt \in EditPrompt \/ editor_ready \/ edit_check_remote)
                 PROVE  \E k \in 1..Len(jobs') : /\ jobs'[k].cached = edit_session.path
                                                 /\ jobs'[k].status \in {"pending", "active", "moved"}
    BY <1>2 DEF EditMovesOn, Editing, JobId
  <2>2. Len(jobs') = Len(jobs)
    BY DEF JobBecomes
  <2>3. CASE edit_session.path = jobs[j].cached
    BY <2>1, <2>2, <2>3 DEF JobBecomes, JobId, Unfinished
  <2>4. CASE edit_session.path # jobs[j].cached
    BY <1>1, <2>1, <2>2, <2>4 DEF JobBecomes, JobId, EditMovesOn
  <2> QED BY <2>3, <2>4
<1>7. ASSUME ~crossed PROVE OneEditInv'
  <2>1. /\ OneEditInv /\ ~InHand
        /\ \A k \in JobId : Left(k) => k = j
        /\ jobs[j].down => work[jobs[j].cached] = "none"
    BY <1>7 DEF EditIInv, OneEditInv, HandInv, Clear, JobInv
  <2>2. HandInv' /\ PrintInv'
    BY <1>2, <2>1 DEF OneEditInv, HandInv, PrintInv, InHand, EditPrompt, Editing
  <2>3. Kept'
    BY <1>1, <1>2, <2>1 DEF OneEditInv, Kept, TypeOK
  <2>4. JobInv'
    <3>1. \A k \in 1..Len(jobs') : Left(k)' => /\ k = j
                                               /\ jobs'[k].down = jobs[j].down
                                               /\ jobs'[k].cached = jobs[j].cached
                                               /\ jobs'[k].status = s
      BY <1>3, <2>1 DEF JobsOnlyEnd, JobBecomes
    <3>2. jobs[j].down /\ Editing => edit_session.path = jobs[j].cached
      BY <2>1 DEF OneEditInv, JobInv
    <3> QED BY <1>2, <2>1, <3>1, <3>2 DEF JobInv, JobId, Editing
  <2> QED BY <2>2, <2>3, <2>4 DEF OneEditInv
<1> QED BY <1>2, <1>5, <1>6, <1>7 DEF EditIInv

LEMMA JobOnKeeps ==
  ASSUME EditIInv, NEW j \in JobId,
         JobStarts(j) \/ JobMoves(j) \/ RetryJob(j) \/ RemoveJob(j)
  PROVE  EditIInv'
<1>1. TypeOK /\ Left(j)
  BY DEF EditIInv, JobStarts, JobMoves, RetryJob, RemoveJob, Left, Unfinished
<1>2. jobs[j].cached \in Path /\ jobs[j].down \in BOOLEAN
  BY <1>1, LeftFacts
<1>3. {"partial", "downloaded"} \subseteq Content /\ {"pending", "active", "moved"} \subseteq Unfinished
  BY DEF Content, Unfinished
<1>4. CASE JobStarts(j)
  <2>1. /\ JobBecomes(j, "active")
        /\ \/ cache' = cache
           \/ jobs[j].down /\ cache' = [cache EXCEPT ![jobs[j].cached] = "partial"]
    BY <1>1, <1>3, <1>4, StatusStep DEF JobStarts
  <2>2. /\ UNCHANGED <<connected, worker_cancel_requested, in_flight, prompt, editVars, remote,
                       listed, work, closed, abandoned, crossed>>
    BY <1>4 DEF JobStarts, sessionVars, historyVars
  <2>3. /\ worker_cancel_requested' \in BOOLEAN /\ abandoned' \in BOOLEAN
        /\ remote' \in [Path -> 0..MaxStamp]
    BY <1>1, <2>2 DEF TypeOK
  <2> QED BY <1>1, <1>3, <2>1, <2>2, <2>3, JobKeeps
<1>5. CASE JobMoves(j)
  <2>1. /\ JobBecomes(j, "moved")
        /\ \/ cache' = cache /\ ~jobs[j].down
           \/ jobs[j].down /\ cache' = [cache EXCEPT ![jobs[j].cached] = "downloaded"]
    BY <1>1, <1>2, <1>3, <1>5, StatusStep DEF JobMoves
  <2>2. /\ UNCHANGED <<connected, worker_cancel_requested, in_flight, prompt, editVars,
                       listed, work, closed, abandoned, crossed>>
    BY <1>5 DEF JobMoves, sessionVars, historyVars
  <2>3. /\ worker_cancel_requested' \in BOOLEAN /\ abandoned' \in BOOLEAN
        /\ jobs[j].down => cache'[jobs[j].cached] = "downloaded"
    BY <1>1, <1>2, <2>1, <2>2 DEF TypeOK
  <2>4. remote' \in [Path -> 0..MaxStamp]
    <3>1. jobs[j].path \in Path
      BY <1>1, LeftFacts DEF JobRecord
    <3>2. \/ remote' = remote
          \/ /\ remote[jobs[j].path] < MaxStamp
             /\ remote' = [remote EXCEPT ![jobs[j].path] = remote[jobs[j].path] + 1]
      BY <1>2, <1>5 DEF JobMoves
    <3>3. remote \in [Path -> 0..MaxStamp]
      BY <1>1 DEF TypeOK
    <3>4. remote[jobs[j].path] < MaxStamp => remote[jobs[j].path] + 1 \in 0..MaxStamp
      BY <3>1, <3>3, EditAssumption
    <3> QED BY <3>1, <3>2, <3>3, <3>4
  <2> QED BY <1>1, <1>3, <2>1, <2>2, <2>3, <2>4, JobKeeps
<1>6. CASE RetryJob(j)
  <2>1. /\ JobBecomes(j, "pending") /\ cache' = cache /\ remote' = remote
        /\ worker_cancel_requested' = FALSE
        /\ abandoned' = (abandoned /\ edit_session.path # jobs[j].cached)
        /\ UNCHANGED <<connected, in_flight, prompt, editVars, listed, work, closed, crossed>>
    BY <1>1, <1>3, <1>6, StatusStep DEF RetryJob, dataVars
  <2>2. worker_cancel_requested' \in BOOLEAN /\ abandoned' \in BOOLEAN
        /\ remote' \in [Path -> 0..MaxStamp]
    BY <1>1, <2>1 DEF TypeOK
  <2>3. abandoned /\ ~abandoned' => edit_session.path = jobs[j].cached
    BY <2>1
  <2> QED BY <1>1, <1>3, <2>1, <2>2, <2>3, JobKeeps
<1>7. CASE RemoveJob(j)
  <2>1. /\ JobBecomes(j, "gone") /\ cache' = cache /\ remote' = remote
        /\ abandoned' = (abandoned \/ edit_session.path = jobs[j].cached)
        /\ UNCHANGED <<connected, in_flight, worker_cancel_requested, prompt, editVars, listed, work,
                       closed, crossed>>
    BY <1>1, <1>7, GoneStep DEF RemoveJob, dataVars, sessionVars
  <2>2. worker_cancel_requested' \in BOOLEAN /\ abandoned' \in BOOLEAN
        /\ remote' \in [Path -> 0..MaxStamp]
    BY <1>1, <2>1 DEF TypeOK
  <2>3. /\ edit_session.path = jobs[j].cached => abandoned'
        /\ abandoned => abandoned'
    BY <2>1
  <2> QED BY <1>1, <1>3, <2>1, <2>2, <2>3, JobKeeps
<1> QED BY <1>4, <1>5, <1>6, <1>7

(* A job that is lost; of a download, with the edit. *)
LEMMA JobLostKeeps ==
  ASSUME EditIInv, NEW j \in JobId, JobCancelled(j) \/ JobFailed(j)
  PROVE  EditIInv'
<1>1. TypeOK /\ Left(j) /\ EndsBadly(j)
  BY DEF EditIInv, JobCancelled, JobFailed, Left, Unfinished
<1>2. PICK s \in {"failed", "gone"} : JobBecomes(j, s)
  BY <1>1, StatusStep, GoneStep DEF JobCancelled, JobFailed, Unfinished
<1>3. UNCHANGED <<connected, in_flight, worker_cancel_requested, prompt, remote, listed, work, closed,
                  crossed>>
  BY <1>1 DEF EndsBadly, sessionVars
<1>4. /\ connected' \in BOOLEAN /\ worker_cancel_requested' \in BOOLEAN
      /\ in_flight' \in {"None", "Check", "Other"} /\ prompt' \in {"None", "Choice"} \cup EditPrompt
      /\ remote' \in [Path -> 0..MaxStamp]
  BY <1>1, <1>3 DEF TypeOK
<1>5. CASE jobs[j].down
  <2>1. CancelsEdit(TRUE) /\ JobsOnlyEnd
    BY <1>1, <1>2, <1>5, BecomesOnlyEnds DEF EndsBadly
  <2>2. ~crossed => prompt' \notin EditPrompt
    BY <1>1, <1>3 DEF EditIInv, OneEditInv, HandInv, InHand, Clear
  <2> QED BY <1>3, <1>4, <2>1, <2>2, CancelledKeeps
<1>6. CASE ~jobs[j].down
  <2>1. /\ abandoned' = (abandoned \/ edit_session.path = jobs[j].cached)
        /\ UNCHANGED <<editVars, cache>>
    BY <1>1, <1>6 DEF EndsBadly
  <2>2. abandoned' \in BOOLEAN /\ s \in Unfinished \cup {"gone"} /\ "none" \in Content /\ s # "moved"
    BY <1>1, <2>1 DEF TypeOK, Unfinished, Content
  <2> QED BY <1>1, <1>2, <1>3, <1>4, <2>1, <2>2, JobKeeps
<1> QED BY <1>5, <1>6

(* A result of a worker that is taken as it is. *)
LEMMA JobSucceededKeeps ==
  ASSUME EditIInv, NEW j \in JobId, JobSucceeded(j)
  PROVE  EditIInv'
<1> DEFINE p == jobs[j].cached
<1>1. TypeOK /\ SessionInv /\ CheckIsItsOwn /\ EditMovesOn /\ Left(j) /\ jobs[j].status = "moved"
  BY DEF EditIInv, JobSucceeded, Left, Unfinished
<1>2. JobBecomes(j, "gone") /\ JobsOnlyEnd
  BY <1>1, GoneStep, BecomesOnlyEnds DEF JobSucceeded
<1>3. UNCHANGED <<connected, worker_cancel_requested, edit_check_remote, remote, listed, closed, crossed>>
  BY DEF JobSucceeded
<1>4. p \in Path
  BY <1>1, LeftFacts
<1>5. ~crossed => /\ OneEditInv /\ ~InHand /\ \A k \in JobId : Left(k) => k = j
                  /\ Clear' /\ JobInv'
  <2>1. SUFFICES ASSUME ~crossed
                 PROVE  /\ OneEditInv /\ ~InHand /\ \A k \in JobId : Left(k) => k = j
                        /\ Clear' /\ JobInv'
    OBVIOUS
  <2>2. OneEditInv /\ ~InHand /\ \A k \in JobId : Left(k) => k = j
    BY <1>1, <2>1 DEF EditIInv, OneEditInv, HandInv, JobInv, Clear
  <2>3. \A k \in 1..Len(jobs') : ~Left(k)'
    BY <1>2, <2>2 DEF JobsOnlyEnd, JobBecomes, Left, Unfinished
  <2> QED BY <2>2, <2>3 DEF Clear, JobInv, JobId
<1> HIDE DEF p
<1>6. CASE jobs[j].down
  <2>1. DownloadCompletes /\ UNCHANGED <<in_flight, cache, work>>
    BY <1>6 DEF JobSucceeded
  <2>2. Editing => /\ edit_session.path \in Path /\ cache[edit_session.path] \in Content
                   /\ edit_session \in [path : Path \cup {NoPath}, seen : -1..MaxStamp,
                                        fingerprint : Content]
    BY <1>1 DEF SessionInv, Editing, TypeOK
  <2>3. \/ /\ ~Editing
           /\ UNCHANGED <<prompt, edit_session, editor_ready, abandoned>>
        \/ /\ Editing /\ abandoned' = TRUE
           /\ UNCHANGED <<prompt, edit_session, editor_ready>>
        \/ /\ Editing
           /\ edit_session' = [edit_session EXCEPT !.fingerprint = cache[edit_session.path]]
           /\ prompt' = "ConfirmEditBinary"
           /\ UNCHANGED <<editor_ready, abandoned>>
        \/ /\ Editing
           /\ edit_session' = [edit_session EXCEPT !.fingerprint = cache[edit_session.path]]
           /\ editor_ready' = TRUE
           /\ UNCHANGED <<prompt, abandoned>>
    BY <2>1 DEF DownloadCompletes
  <2>4. /\ edit_session'.path = edit_session.path /\ edit_session'.seen = edit_session.seen
        /\ edit_session' \in [path : Path \cup {NoPath}, seen : -1..MaxStamp, fingerprint : Content]
    <3>1. CASE edit_session' = edit_session
      <4>1. edit_session \in [path : Path \cup {NoPath}, seen : -1..MaxStamp, fingerprint : Content]
        BY <1>1 DEF TypeOK
      <4> QED BY <3>1, <4>1
    <3>2. CASE /\ Editing
               /\ edit_session' = [edit_session EXCEPT !.fingerprint = cache[edit_session.path]]
      BY <2>2, <3>2
    <3> QED BY <2>3, <3>1, <3>2
  <2>5. /\ prompt' \in {"None", "Choice"} \cup EditPrompt
        /\ editor_ready' \in BOOLEAN /\ abandoned' \in BOOLEAN
    BY <1>1, <2>3 DEF TypeOK, EditPrompt
  <2>6. TypeOK'
    BY <1>1, <1>2, <1>3, <2>1, <2>4, <2>5 DEF TypeOK, JobsOnlyEnd, Records
  <2>7. Editing => Editing'
    BY <2>2, <2>4, EditAssumption DEF Editing, NoEdit
  <2>8. SessionInv' /\ CheckIsItsOwn'
    BY <1>1, <1>3, <2>1, <2>3, <2>4 DEF SessionInv, CheckIsItsOwn, Editing
  <2>9. EditMovesOn'
    BY <2>3 DEF EditMovesOn, Editing, EditPrompt
  <2>10. ASSUME ~crossed PROVE OneEditInv'
    <3>1. Editing => /\ edit_session.path = p /\ cache[edit_session.path] = "downloaded"
      BY <1>1, <1>5, <1>6, <2>10 DEF OneEditInv, JobInv, p
    <3>2. HandInv'
      BY <1>3, <1>5, <2>3, <2>7, <2>10 DEF HandInv, InHand, EditPrompt
    <3>3. PrintInv'
      <4>1. /\ ~editor_ready /\ prompt \notin EditPrompt
            /\ Editing /\ edit_session.fingerprint = "none" => work[edit_session.path] = "none"
        BY <1>5, <2>10 DEF InHand, OneEditInv, PrintInv
      <4>2. CASE UNCHANGED <<prompt, edit_session, editor_ready>>
        BY <2>1, <4>1, <4>2 DEF PrintInv, EditPrompt, Editing
      <4>3. CASE Editing /\ edit_session'.fingerprint = cache[edit_session.path]
                 /\ prompt' # "ConfirmEditLarge"
        BY <2>1, <2>4, <3>1, <4>3 DEF PrintInv
      <4> QED BY <2>2, <2>3, <4>1, <4>2, <4>3 DEF EditPrompt
    <3>4. Kept'
      BY <1>5, <2>1, <2>10 DEF OneEditInv, Kept
    <3> QED BY <1>5, <2>10, <3>2, <3>3, <3>4 DEF OneEditInv
  <2> QED BY <1>3, <2>6, <2>8, <2>9, <2>10 DEF EditIInv
<1>7. CASE ~jobs[j].down
  <2>1. /\ in_flight' = IF in_flight = "None" THEN "Other" ELSE in_flight
        /\ work' = [work EXCEPT ![p] = "none"]
        /\ UNCHANGED <<prompt, editor_ready>>
        /\ \/ /\ edit_session.path = p
              /\ cache' = [cache EXCEPT ![p] = "none"]
              /\ edit_session' = NoEdit
              /\ abandoned' = FALSE
           \/ edit_session.path # p /\ UNCHANGED <<cache, edit_session, abandoned>>
    BY <1>7 DEF JobSucceeded, p
  <2>2. NoEdit \in [path : Path \cup {NoPath}, seen : -1..MaxStamp, fingerprint : Content]
    BY EditAssumption DEF NoEdit, NoTime, Content
  <2>3. /\ cache' \in [Path -> Content] /\ work' \in [Path -> {"none", "saved"}]
        /\ in_flight' \in {"None", "Check", "Other"} /\ abandoned' \in BOOLEAN
        /\ in_flight = "Check" => in_flight' = "Check"
    BY <1>1, <1>4, <2>1 DEF TypeOK, Content
  <2>4. TypeOK'
    BY <1>1, <1>2, <1>3, <2>1, <2>2, <2>3 DEF TypeOK, JobsOnlyEnd, Records
  <2>5. SessionInv' /\ CheckIsItsOwn'
    BY <1>1, <1>3, <2>1, <2>3 DEF SessionInv, CheckIsItsOwn
  <2>6. EditMovesOn'
    <3>1. CASE edit_session' = NoEdit
      BY <3>1 DEF EditMovesOn, Editing
    <3>2. CASE edit_session.path # p /\ UNCHANGED <<edit_session, abandoned>>
      <4>1. SUFFICES ASSUME Editing, ~(abandoned \/ crossed),
                            ~(prompt \in EditPrompt \/ editor_ready \/ edit_check_remote)
                     PROVE  \E k \in 1..Len(jobs') : /\ jobs'[k].cached = edit_session.path
                                                     /\ jobs'[k].status \in {"pending", "active", "moved"}
        BY <1>3, <2>1, <3>2 DEF EditMovesOn, Editing, JobId
      <4> QED BY <1>1, <1>2, <3>2, <4>1 DEF EditMovesOn, JobBecomes, JobId, p
    <3> QED BY <2>1, <3>1, <3>2
  <2>7. ASSUME ~crossed PROVE OneEditInv'
    <3>1. HandInv'
      BY <1>3, <1>5, <2>1, <2>7 DEF HandInv, InHand
    <3>2. PrintInv'
      <4>1. /\ ~editor_ready /\ prompt \notin EditPrompt
            /\ Editing /\ edit_session.fingerprint = "none" => work[edit_session.path] = "none"
        BY <1>5, <2>7 DEF InHand, OneEditInv, PrintInv
      <4>2. Editing' => edit_session' = edit_session /\ work'[edit_session.path] = work[edit_session.path]
        BY <1>1, <1>4, <2>1 DEF Editing, TypeOK
      <4> QED BY <2>1, <4>1, <4>2 DEF PrintInv, EditPrompt, Editing
    <3>3. Kept'
      BY <1>1, <1>4, <1>5, <2>1, <2>7 DEF OneEditInv, Kept, TypeOK
    <3> QED BY <1>5, <2>7, <3>1, <3>2, <3>3 DEF OneEditInv
  <2> QED BY <1>3, <2>4, <2>5, <2>6, <2>7 DEF EditIInv
<1> QED BY <1>6, <1>7

-----------------------------------------------------------------------------
(* The steps of the editor and of the prompts.                             *)

(* The only job is one that was just added. *)
LEMMA AddedAlone ==
  ASSUME TypeOK, Clear, NEW path, NEW at, NEW word, Added(FALSE, path, at, word)
  PROVE  JobInv'
<1>1. ASSUME NEW j \in 1..Len(jobs'), Left(j)' PROVE j = Len(jobs) + 1
  <2>1. Len(jobs) \in Nat /\ Len(jobs') = Len(jobs) + 1
    BY DEF Added, TypeOK
  <2>2. CASE j \in JobId
    BY <1>1, <2>2 DEF Added, Clear, Left
  <2>3. CASE j \notin JobId
    BY <2>1, <2>3 DEF JobId
  <2> QED BY <2>2, <2>3
<1>2. ~jobs'[Len(jobs) + 1].down
  BY DEF Added
<1> QED BY <1>1, <1>2 DEF JobInv, JobId

LEMMA UploadQueued ==
  ASSUME TypeOK, SessionInv, NEW path, Editing => path \in Path,
         NEW word \in {"none", "unchecked", "checked", "asked", "named"},
         EnqueuesUpload(path, word)
  PROVE  /\ jobs' \in Seq(Records) /\ Len(jobs') <= MaxJob
         /\ Editing => Added(FALSE, path, edit_session.path, word)
         /\ ~Editing => jobs' = jobs
         /\ edit_session' = edit_session => EditMovesOn'
         /\ Clear /\ Editing => JobInv'
<1>1. CASE Editing
  <2>1. edit_session.path \in Path /\ Enqueues(Job(FALSE, path, edit_session.path, word))
    BY <1>1 DEF SessionInv, Editing, EnqueuesUpload
  <2>2. Added(FALSE, path, edit_session.path, word)
    BY <1>1, <2>1, AddStep
  <2> QED BY <1>1, <2>2, AddedMovesOn, AddedAlone DEF Added
<1>2. CASE ~Editing
  BY <1>2 DEF EnqueuesUpload, TypeOK, Records, EditMovesOn, Editing
<1> QED BY <1>1, <1>2

(* What has the edit in hand gives it to an upload. *)
LEMMA HandedOver ==
  ASSUME EditIInv, NEW path, Editing => path \in Path,
         NEW word \in {"none", "unchecked", "checked", "asked", "named"},
         EnqueuesUpload(path, word), InHand,
         prompt' \in {"None", "Choice"} \cup EditPrompt,
         in_flight' \in {"None", "Check", "Other"}, edit_check_remote' \in BOOLEAN,
         listed' \in [Path -> 0..MaxStamp],
         edit_check_remote' => edit_check_remote /\ in_flight' = in_flight,
         crossed \/ (~edit_check_remote' /\ prompt' \notin EditPrompt /\ ~editor_ready),
         UNCHANGED <<connected, worker_cancel_requested, edit_session, editor_ready, cache, remote,
                     work, closed, abandoned, crossed>>
  PROVE  EditIInv'
<1>1. TypeOK /\ SessionInv /\ CheckIsItsOwn
  BY DEF EditIInv
<1>2. /\ jobs' \in Seq(Records) /\ Len(jobs') <= MaxJob
      /\ EditMovesOn'
      /\ Clear /\ Editing => JobInv'
  BY <1>1, UploadQueued
<1>3. TypeOK' /\ SessionInv' /\ CheckIsItsOwn'
  BY <1>1, <1>2 DEF TypeOK, Records, SessionInv, CheckIsItsOwn
<1>4. ASSUME ~crossed PROVE OneEditInv'
  <2>1. OneEditInv /\ Clear /\ Editing
    BY <1>4 DEF EditIInv, OneEditInv, HandInv
  <2> QED BY <1>2, <1>4, <2>1 DEF OneEditInv, HandInv, InHand, PrintInv, Kept, Editing, EditPrompt
<1> QED BY <1>2, <1>3, <1>4 DEF EditIInv

LEMMA CheckKeeps ==
  ASSUME EditIInv, CheckAnswered \/ CheckFails
  PROVE  EditIInv'
<1>1. TypeOK /\ SessionInv /\ EditMovesOn
  BY DEF EditIInv
<1>2. /\ in_flight' = "None" /\ edit_check_remote' = FALSE
      /\ UNCHANGED <<connected, worker_cancel_requested, edit_session, editor_ready, cache, remote,
                     work, closed, abandoned, crossed>>
  BY DEF CheckAnswered, CheckFails, historyVars, dataVars
<1>3. ~crossed /\ edit_check_remote => ~editor_ready /\ prompt \notin EditPrompt /\ Editing /\ Clear
  BY DEF EditIInv, OneEditInv, HandInv, InHand
<1>4. Editing => edit_session.path \in Path
  BY <1>1 DEF SessionInv, Editing
<1>5. ASSUME prompt' = prompt, listed' \in [Path -> 0..MaxStamp], edit_check_remote,
             NEW word \in {"unchecked", "checked"},
             EnqueuesUpload(edit_session.path, word)
      PROVE  EditIInv'
  <2>1. prompt' \in {"None", "Choice"} \cup EditPrompt /\ InHand
    BY <1>1, <1>5 DEF TypeOK, InHand
  <2> QED BY <1>2, <1>3, <1>4, <1>5, <2>1, HandedOver
<1>6. ASSUME prompt' = prompt, listed' = listed, jobs' = jobs, ~(edit_check_remote /\ Editing)
      PROVE  EditIInv'
  <2>1. TypeOK' /\ SessionInv' /\ CheckIsItsOwn'
    BY <1>1, <1>2, <1>6 DEF TypeOK, SessionInv, CheckIsItsOwn
  <2>2. EditMovesOn'
    BY <1>1, <1>2, <1>6 DEF EditMovesOn, Editing, JobId
  <2>3. ASSUME ~crossed PROVE OneEditInv'
    <3>1. OneEditInv /\ ~edit_check_remote
      BY <1>3, <1>6, <2>3 DEF EditIInv
    <3> QED BY <1>2, <1>6, <2>3, <3>1
            DEF OneEditInv, HandInv, InHand, JobInv, PrintInv, Kept, Editing, Clear, Left, JobId
  <2> QED BY <1>2, <2>1, <2>2, <2>3 DEF EditIInv
<1>7. ASSUME edit_check_remote, Editing, prompt' = "EditConflict", listed' \in [Path -> 0..MaxStamp],
             jobs' = jobs
      PROVE  EditIInv'
  <2>1. TypeOK' /\ SessionInv' /\ CheckIsItsOwn' /\ EditMovesOn'
    BY <1>1, <1>2, <1>7 DEF TypeOK, SessionInv, CheckIsItsOwn, EditMovesOn, EditPrompt
  <2>2. ASSUME ~crossed PROVE OneEditInv'
    <3>1. OneEditInv /\ ~editor_ready
      BY <1>3, <1>7, <2>2 DEF EditIInv
    <3>2. PrintInv'
      BY <1>2, <1>7, <3>1 DEF OneEditInv, PrintInv, Editing
    <3> QED BY <1>2, <1>3, <1>7, <2>2, <3>1, <3>2
            DEF OneEditInv, HandInv, InHand, JobInv, Kept, Editing, Clear, Left, JobId
  <2> QED BY <1>2, <2>1, <2>2 DEF EditIInv
<1>8. CASE CheckFails
  <2>1. prompt' = prompt /\ listed' = listed /\ listed' \in [Path -> 0..MaxStamp]
    BY <1>1, <1>8 DEF CheckFails, dataVars, TypeOK
  <2>2. CASE edit_check_remote
    BY <1>5, <1>8, <2>1, <2>2 DEF CheckFails
  <2>3. CASE ~edit_check_remote
    BY <1>6, <1>8, <2>1, <2>3 DEF CheckFails
  <2> QED BY <2>2, <2>3
<1>9. CASE CheckAnswered
  <2>1. PICK now \in IF Editing THEN closed..remote[edit_session.path] ELSE {0} : Listed(now)
    BY <1>9 DEF CheckAnswered
  <2>2. CASE edit_check_remote /\ Editing
    <3>1. now \in 0..MaxStamp
      BY <1>1, <1>4, <2>1, <2>2, EditAssumption DEF TypeOK
    <3>2. /\ listed' = [listed EXCEPT ![edit_session.path] = now]
          /\ \/ prompt' = "EditConflict" /\ jobs' = jobs
             \/ EnqueuesUpload(edit_session.path, "checked") /\ prompt' = prompt
      BY <2>1, <2>2 DEF Listed
    <3>3. listed' \in [Path -> 0..MaxStamp]
      BY <1>1, <3>1, <3>2 DEF TypeOK
    <3> QED BY <1>5, <1>7, <2>2, <3>2, <3>3
  <2>3. CASE ~(edit_check_remote /\ Editing)
    BY <1>6, <2>1, <2>3 DEF Listed
  <2> QED BY <2>2, <2>3
<1> QED BY <1>8, <1>9

LEMMA PromptKeeps ==
  ASSUME EditIInv,
         \/ \E yes \in BOOLEAN : AnswerBinary(yes)
         \/ \E choice \in {"Overwrite", "Skip", "SaveAs"} : AnswerConflict(choice)
         \/ \E p \in Path : SaveAs(p)
         \/ SaveNowhere
  PROVE  EditIInv'
<1>1. /\ TypeOK /\ SessionInv /\ CheckIsItsOwn /\ EditMovesOn
      /\ InHand /\ prompt \in EditPrompt
      /\ ~crossed => OneEditInv /\ Editing /\ Clear /\ ~editor_ready /\ ~edit_check_remote
  BY DEF EditIInv, AnswerBinary, AnswerConflict, SaveAs, SaveNowhere, EditPrompt, InHand, OneEditInv,
         HandInv
<1>2. UNCHANGED <<connected, worker_cancel_requested, in_flight, remote, listed, work, closed, crossed>>
  BY DEF AnswerBinary, AnswerConflict, SaveAs, SaveNowhere, sessionVars, dataVars, historyVars
<1>3. /\ connected' \in BOOLEAN /\ worker_cancel_requested' \in BOOLEAN
      /\ in_flight' \in {"None", "Check", "Other"} /\ listed' \in [Path -> 0..MaxStamp]
      /\ edit_check_remote \in BOOLEAN
  BY <1>1, <1>2 DEF TypeOK
<1>4. ASSUME prompt' = "None", CancelsEdit(TRUE), jobs' = jobs
      PROVE  EditIInv'
  <2>1. JobsOnlyEnd
    BY <1>1, <1>4, SameJobs
  <2> QED BY <1>2, <1>3, <1>4, <2>1, CancelledKeeps DEF EditPrompt
<1>5. ASSUME prompt' = "None", NEW path, Editing => path \in Path, NEW word \in {"asked", "named"},
             EnqueuesUpload(path, word),
             UNCHANGED <<edit_session, editor_ready, edit_check_remote, cache, abandoned>>
      PROVE  EditIInv'
  BY <1>1, <1>2, <1>3, <1>5, HandedOver DEF EditPrompt
<1>6. ASSUME NEW yes \in BOOLEAN, AnswerBinary(yes) PROVE EditIInv'
  <2>1. CASE ~yes
    BY <1>4, <1>6, <2>1 DEF AnswerBinary
  <2>2. CASE yes
    <3>1. /\ prompt = "ConfirmEditBinary" /\ prompt' = "None" /\ editor_ready' = TRUE
          /\ UNCHANGED <<edit_session, edit_check_remote, jobs, cache, abandoned>>
      BY <1>6, <2>2 DEF AnswerBinary
    <3>2. TypeOK' /\ SessionInv' /\ CheckIsItsOwn' /\ EditMovesOn'
      BY <1>1, <1>2, <3>1 DEF TypeOK, SessionInv, CheckIsItsOwn, EditMovesOn
    <3>3. ASSUME ~crossed PROVE OneEditInv'
      <4>1. HandInv'
        BY <1>1, <1>2, <3>1, <3>3 DEF HandInv, InHand, EditPrompt, Editing, Clear, Left, JobId
      <4>2. PrintInv'
        BY <1>1, <1>2, <3>1, <3>3 DEF OneEditInv, PrintInv, Editing
      <4> QED BY <1>1, <1>2, <3>1, <3>3, <4>1, <4>2
              DEF OneEditInv, JobInv, Kept, Editing, Left, JobId
    <3> QED BY <1>2, <3>2, <3>3 DEF EditIInv
  <2> QED BY <2>1, <2>2
<1>7. CASE AnswerConflict("Overwrite")
  <2>1. /\ prompt' = "None" /\ EnqueuesUpload(edit_session.path, "asked")
        /\ UNCHANGED <<edit_session, editor_ready, edit_check_remote, cache, abandoned>>
    BY <1>7 DEF AnswerConflict, editVars
  <2>2. Editing => edit_session.path \in Path
    BY <1>1 DEF SessionInv, Editing
  <2> QED BY <1>5, <2>1, <2>2
<1>8. CASE AnswerConflict("Skip")
  BY <1>4, <1>8 DEF AnswerConflict
<1>9. CASE AnswerConflict("SaveAs")
  <2>1. /\ prompt = "EditConflict" /\ prompt' = "EditSaveAs"
        /\ UNCHANGED <<edit_session, editor_ready, edit_check_remote, cache, abandoned, jobs>>
    BY <1>9 DEF AnswerConflict, editVars
  <2>2. TypeOK' /\ SessionInv' /\ CheckIsItsOwn' /\ EditMovesOn'
    BY <1>1, <1>2, <2>1 DEF TypeOK, SessionInv, CheckIsItsOwn, EditMovesOn, EditPrompt
  <2>3. ASSUME ~crossed PROVE OneEditInv'
    <3>1. HandInv' /\ PrintInv'
      BY <1>1, <1>2, <2>1, <2>3
         DEF OneEditInv, HandInv, PrintInv, InHand, EditPrompt, Editing, Clear, Left, JobId
    <3> QED BY <1>1, <1>2, <2>1, <2>3, <3>1 DEF OneEditInv, JobInv, Kept, Editing, Left, JobId
  <2> QED BY <1>2, <2>2, <2>3 DEF EditIInv
<1>10. ASSUME NEW p \in Path, SaveAs(p) PROVE EditIInv'
  <2>1. /\ prompt' = "None" /\ EnqueuesUpload(p, "named")
        /\ UNCHANGED <<edit_session, editor_ready, edit_check_remote, cache, abandoned>>
    BY <1>10 DEF SaveAs, editVars, dataVars, historyVars
  <2> QED BY <1>5, <2>1
<1>11. CASE SaveNowhere
  BY <1>4, <1>11 DEF SaveNowhere
<1> QED BY <1>6, <1>7, <1>8, <1>9, <1>10, <1>11

LEMMA EditorKeeps ==
  ASSUME EditIInv, Editor
  PROVE  EditIInv'
<1>1. /\ TypeOK /\ SessionInv /\ CheckIsItsOwn /\ EditMovesOn
      /\ editor_ready /\ InHand
      /\ ~crossed => /\ OneEditInv /\ Editing /\ Clear /\ prompt \notin EditPrompt /\ ~edit_check_remote
                     /\ cache[edit_session.path] = "downloaded" /\ edit_session.fingerprint # "none"
  BY DEF EditIInv, Editor, EditorFails, EditorChangesNothing, EditorChanges, InHand, OneEditInv,
         HandInv, PrintInv
<1>2. CASE EditorFails
  <2>1. /\ ~editor_ready' /\ abandoned' = TRUE
        /\ UNCHANGED <<connected, worker_cancel_requested, in_flight, prompt, edit_session,
                       edit_check_remote, jobs, cache, remote, listed, work, closed, crossed>>
        /\ editor_ready' \in BOOLEAN
    BY <1>2 DEF EditorFails, sessionVars, dataVars
  <2>2. TypeOK' /\ SessionInv' /\ CheckIsItsOwn' /\ EditMovesOn'
    BY <1>1, <2>1 DEF TypeOK, SessionInv, CheckIsItsOwn, EditMovesOn
  <2>3. ASSUME ~crossed PROVE OneEditInv'
    BY <1>1, <2>1, <2>3
       DEF OneEditInv, HandInv, InHand, PrintInv, JobInv, Kept, Editing, Left, JobId, EditPrompt
  <2> QED BY <2>1, <2>2, <2>3 DEF EditIInv
<1>3. CASE EditorChangesNothing
  <2>1. /\ CancelsEdit(FALSE) /\ jobs' = jobs
        /\ UNCHANGED <<connected, worker_cancel_requested, in_flight, prompt, remote, listed, work,
                       closed, crossed>>
    BY <1>3 DEF EditorChangesNothing, sessionVars
  <2>2. JobsOnlyEnd
    BY <1>1, <2>1, SameJobs
  <2>3. ~crossed => (Editing => work[edit_session.path] # "saved")
    BY <1>1 DEF OneEditInv, Kept, SessionInv, Editing
  <2>4. /\ connected' \in BOOLEAN /\ worker_cancel_requested' \in BOOLEAN
        /\ in_flight' \in {"None", "Check", "Other"} /\ prompt' \in {"None", "Choice"} \cup EditPrompt
    BY <1>1, <2>1 DEF TypeOK
  <2> QED BY <1>1, <2>1, <2>2, <2>3, <2>4, CancelledKeeps
<1>4. CASE EditorChanges
  <2> DEFINE p == edit_session.path
  <2>1. p \in Path /\ Editing
    BY <1>1, <1>4 DEF EditorChanges, SessionInv, Editing
  <2>2. /\ editor_ready' = FALSE /\ edit_session' = edit_session
        /\ cache' = [cache EXCEPT ![p] = "mine"]
        /\ work' = [work EXCEPT ![p] = "saved"]
        /\ closed' = remote[p]
        /\ UNCHANGED <<connected, worker_cancel_requested, prompt, remote, listed, crossed>>
    BY <1>4 DEF EditorChanges
  <2>3. \/ abandoned' = TRUE /\ UNCHANGED <<in_flight, edit_check_remote, jobs>>
        \/ EnqueuesUpload(p, "unchecked") /\ UNCHANGED <<in_flight, edit_check_remote, abandoned>>
        \/ /\ edit_check_remote' = TRUE /\ in_flight' = "Check"
           /\ UNCHANGED <<jobs, abandoned>>
    BY <1>4 DEF EditorChanges
  <2>4. /\ jobs' \in Seq(Records) /\ Len(jobs') <= MaxJob
        /\ EditMovesOn'
        /\ Clear => JobInv'
    <3>1. CASE EnqueuesUpload(p, "unchecked")
      BY <1>1, <2>1, <2>2, <3>1, UploadQueued
    <3>2. CASE jobs' = jobs /\ (abandoned' \/ edit_check_remote')
      BY <1>1, <3>2 DEF TypeOK, Records, EditMovesOn, JobInv, Clear, JobId, Left
    <3> QED BY <2>3, <3>1, <3>2
  <2>5. /\ cache' \in [Path -> Content] /\ work' \in [Path -> {"none", "saved"}]
        /\ closed' \in 0..MaxStamp
        /\ in_flight' \in {"None", "Check", "Other"}
        /\ editor_ready' \in BOOLEAN /\ edit_check_remote' \in BOOLEAN /\ abandoned' \in BOOLEAN
    BY <1>1, <2>1, <2>2, <2>3 DEF TypeOK, Content
  <2>6. TypeOK'
    BY <1>1, <2>2, <2>4, <2>5 DEF TypeOK, Records
  <2>7. SessionInv' /\ CheckIsItsOwn'
    BY <1>1, <2>2, <2>3 DEF SessionInv, CheckIsItsOwn
  <2>8. ASSUME ~crossed PROVE OneEditInv'
    <3>1. HandInv'
      BY <1>1, <2>1, <2>2, <2>3, <2>8 DEF HandInv, InHand, Editing, Clear, Left, JobId
    <3>2. PrintInv'
      BY <1>1, <2>1, <2>2, <2>8 DEF PrintInv, Editing, EditPrompt
    <3>3. Kept'
      BY <1>1, <2>1, <2>2, <2>8 DEF OneEditInv, Kept, TypeOK
    <3> QED BY <1>1, <2>4, <2>8, <3>1, <3>2, <3>3 DEF OneEditInv
  <2> QED BY <2>2, <2>4, <2>6, <2>7, <2>8 DEF EditIInv
<1> QED BY <1>2, <1>3, <1>4 DEF Editor

LEMMA QuitKeeps ==
  ASSUME EditIInv, KeyQuit
  PROVE  EditIInv'
<1>1. TypeOK /\ SessionInv /\ CheckIsItsOwn /\ EditMovesOn
  BY DEF EditIInv
<1>2. /\ prompt' = "Choice" /\ jobs' = jobs
      /\ UNCHANGED <<connected, worker_cancel_requested, in_flight, remote, listed, work, closed, crossed>>
  BY DEF KeyQuit, sessionVars
<1>3. CASE prompt \in {"None", "EditSaveAs"}
  <2>1. /\ abandoned' = (abandoned \/ prompt = "EditSaveAs")
        /\ UNCHANGED <<edit_session, editor_ready, edit_check_remote, cache>>
    BY <1>3 DEF KeyQuit, editVars
  <2>2. abandoned' \in BOOLEAN
    BY <1>1, <2>1 DEF TypeOK
  <2>3. TypeOK' /\ SessionInv' /\ CheckIsItsOwn'
    BY <1>1, <1>2, <2>1, <2>2 DEF TypeOK, SessionInv, CheckIsItsOwn
  <2>4. EditMovesOn'
    BY <1>1, <1>2, <1>3, <2>1 DEF EditMovesOn, Editing, JobId, EditPrompt
  <2>5. ASSUME ~crossed PROVE OneEditInv'
    <3>1. OneEditInv
      BY <2>5 DEF EditIInv
    <3>2. HandInv' /\ PrintInv'
      BY <1>2, <1>3, <2>1, <3>1
         DEF OneEditInv, HandInv, PrintInv, InHand, EditPrompt, Editing, Clear, Left, JobId
    <3> QED BY <1>2, <2>1, <3>1, <3>2 DEF OneEditInv, JobInv, Kept, Editing, Left, JobId
  <2> QED BY <1>2, <2>3, <2>4, <2>5 DEF EditIInv
<1>4. CASE prompt \notin {"None", "EditSaveAs"}
  <2> DEFINE keep == edit_session.fingerprint # "none"
  <2>1. CancelsEdit(keep) /\ keep \in BOOLEAN
    BY <1>4 DEF KeyQuit
  <2>2. ~crossed => keep \/ (Editing => work[edit_session.path] # "saved")
    BY DEF EditIInv, OneEditInv, PrintInv
  <2> HIDE DEF keep
  <2>3. /\ connected' \in BOOLEAN /\ worker_cancel_requested' \in BOOLEAN
        /\ in_flight' \in {"None", "Check", "Other"}
        /\ prompt' \in {"None", "Choice"} \cup EditPrompt /\ prompt' \notin EditPrompt
    BY <1>1, <1>2 DEF TypeOK, EditPrompt
  <2>4. JobsOnlyEnd
    BY <1>1, <1>2, SameJobs
  <2> QED BY <1>2, <2>1, <2>2, <2>3, <2>4, CancelledKeeps
<1> QED BY <1>3, <1>4

LEMMA DisconnectKeeps ==
  ASSUME EditIInv, Disconnect
  PROVE  EditIInv'
<1>1. TypeOK
  BY DEF EditIInv
<1>2. /\ prompt = "None" /\ prompt' = "None" /\ CancelsEdit(TRUE)
      /\ connected' = FALSE /\ in_flight' = "None" /\ worker_cancel_requested' = TRUE
      /\ jobs' = [j \in JobId |-> IF jobs[j].status = "failed" THEN jobs[j] ELSE Gone]
      /\ UNCHANGED <<remote, listed, work, closed, crossed>>
  BY DEF Disconnect
<1>3. JobsOnlyEnd
  <2>1. /\ jobs \in Seq(Records) /\ Len(jobs) \in Nat /\ Gone \in Records
        /\ \A j \in JobId : jobs[j] \in Records
    BY <1>1 DEF TypeOK, Records, JobId
  <2>2. jobs' \in [1..Len(jobs) -> Records]
    BY <1>2, <2>1 DEF JobId
  <2>3. jobs' \in Seq(Records)
    BY <2>1, <2>2
  <2>4. Len(jobs') = Len(jobs)
    BY <2>1, <2>2, <2>3, LenProperties
  <2>5. Gone.status \notin Unfinished
    BY DEF Gone, Unfinished
  <2> QED BY <1>1, <1>2, <2>1, <2>3, <2>4, <2>5 DEF JobsOnlyEnd, JobId, Left, TypeOK
<1>4. prompt' \in {"None", "Choice"} \cup EditPrompt /\ prompt' \notin EditPrompt
  BY <1>2 DEF EditPrompt
<1> QED BY <1>2, <1>3, <1>4, CancelledKeeps

-----------------------------------------------------------------------------
(* The theorems.                                                           *)

LEMMA EditStepInv == EditIInv /\ [Next]_vars => EditIInv'
<1> SUFFICES ASSUME EditIInv, [Next]_vars PROVE EditIInv'
  OBVIOUS
<1>1. CASE \E p \in Path, large \in BOOLEAN : StartRemoteEdit(p, large)
  BY <1>1, StartKeeps
<1>2. CASE \E yes \in BOOLEAN : AnswerLarge(yes)
  BY <1>2, AnswerLargeKeeps
<1>3. CASE \E j \in JobId : JobStarts(j) \/ JobMoves(j) \/ RetryJob(j) \/ RemoveJob(j)
  BY <1>3, JobOnKeeps
<1>4. CASE \E j \in JobId : JobSucceeded(j)
  BY <1>4, JobSucceededKeeps
<1>5. CASE \E j \in JobId : JobCancelled(j) \/ JobFailed(j)
  BY <1>5, JobLostKeeps
<1>6. CASE Editor
  BY <1>6, EditorKeeps
<1>7. CASE CheckAnswered \/ CheckFails
  BY <1>7, CheckKeeps
<1>8. CASE \/ \E yes \in BOOLEAN : AnswerBinary(yes)
           \/ \E choice \in {"Overwrite", "Skip", "SaveAs"} : AnswerConflict(choice)
           \/ \E p \in Path : SaveAs(p)
           \/ SaveNowhere
  BY <1>8, PromptKeeps
<1>9. CASE KeyQuit
  BY <1>9, QuitKeeps
<1>10. CASE Disconnect
  BY <1>10, DisconnectKeeps
<1>11. CASE \/ CancelTransfers \/ RetryKeys \/ OpenChoice \/ CloseChoice \/ Connect
            \/ OtherStarts \/ OtherEnds \/ (\E p \in Path : OthersChange(p))
            \/ UNCHANGED vars
  BY <1>11, RestKeeps
<1> QED BY <1>1, <1>2, <1>3, <1>4, <1>5, <1>6, <1>7, <1>8, <1>9, <1>10, <1>11 DEF Next, JobEnds

(* The inductive invariant holds in every state of the remote edit. *)
THEOREM EditInvariant == Spec => []EditIInv
<1>1. Init => EditIInv
  BY EditInitInv
<1>2. EditIInv /\ [Next]_vars => EditIInv'
  BY EditStepInv
<1> QED BY <1>1, <1>2, PTL DEF Spec

(* An editor that is about to open has the whole download of its own edit  *)
(* before it, a check that is waited for is on its way, and an edit that is *)
(* there has something to take it on.                                      *)
THEOREM EditInvHolds == Spec => []EditInv
<1>1. EditIInv => EditInv
  BY DEF EditIInv, OneEditInv, HandInv, InHand, PrintInv, EditInv, EditorOpensItsDownload
<1> QED BY <1>1, EditInvariant, PTL

(* No cancel, failed transfer, disconnect or quit removes what the user    *)
(* changed in the editor, however many files and jobs there are.           *)
THEOREM WorkStays == Spec => []WorkIsKept
<1>1. EditIInv => WorkIsKept
  BY DEF EditIInv, OneEditInv, Kept, WorkIsKept
<1> QED BY <1>1, EditInvariant, PTL

-----------------------------------------------------------------------------
(* An upload on the strength of the check.                                 *)

(* A new job has another word than "checked", or its file is as it was. *)
Unsurprising ==
  Len(jobs') > Len(jobs) => /\ Len(jobs') = Len(jobs) + 1
                            /\ jobs'[Len(jobs')].word = "checked" => closed <= edit_session.seen

LEMMA OtherWord ==
  ASSUME TypeOK, NEW down, NEW path, NEW at, NEW word \in {"none", "unchecked", "asked", "named"},
         jobs' = jobs \/ Added(down, path, at, word)
  PROVE  Unsurprising
BY DEF Unsurprising, Added, TypeOK

LEMMA QueuedUpload ==
  ASSUME TypeOK, SessionInv, NEW path, Editing => path \in Path,
         NEW word \in {"unchecked", "asked", "named"}, EnqueuesUpload(path, word)
  PROVE  Unsurprising
BY UploadQueued, OtherWord

LEMMA CheckUnsurprising ==
  ASSUME EditIInv, CheckAnswered
  PROVE  Unsurprising
<1>1. TypeOK /\ SessionInv
  BY DEF EditIInv
<1>2. PICK now \in IF Editing THEN closed..remote[edit_session.path] ELSE {0} : Listed(now)
  BY DEF CheckAnswered
<1>3. CASE /\ edit_check_remote /\ Editing
           /\ ~DestIsNewer(edit_session.seen, now)
           /\ EnqueuesUpload(edit_session.path, "checked")
  <2>1. /\ edit_session.path \in Path /\ edit_session.seen \in 0..MaxStamp
        /\ remote[edit_session.path] \in 0..MaxStamp /\ closed \in 0..MaxStamp
    BY <1>1, <1>3 DEF SessionInv, Editing, TypeOK
  <2>2. now \in Nat /\ closed <= now
    BY <1>2, <1>3, <2>1, EditAssumption
  <2>3. now <= edit_session.seen
    BY <1>3, <2>1, <2>2, EditAssumption DEF DestIsNewer, NoTime
  <2>4. closed <= edit_session.seen
    BY <2>1, <2>2, <2>3, EditAssumption
  <2>5. Added(FALSE, edit_session.path, edit_session.path, "checked")
    BY <1>1, <1>3, <2>1, UploadQueued
  <2> QED BY <1>1, <2>4, <2>5 DEF Unsurprising, Added, TypeOK
<1>4. CASE jobs' = jobs
  BY <1>1, <1>4, OtherWord
<1> QED BY <1>2, <1>3, <1>4 DEF Listed

LEMMA StepUnsurprising ==
  ASSUME EditIInv, [Next]_vars
  PROVE  Unsurprising
<1>1. TypeOK /\ SessionInv
  BY DEF EditIInv
<1>2. Editing => edit_session.path \in Path
  BY <1>1 DEF SessionInv, Editing
<1>3. ASSUME jobs' = jobs PROVE Unsurprising
  BY <1>1, <1>3, OtherWord
<1>4. ASSUME Len(jobs') = Len(jobs) PROVE Unsurprising
  BY <1>1, <1>4 DEF Unsurprising, TypeOK
<1>5. ASSUME NEW p \in Path, NEW large \in BOOLEAN, StartRemoteEdit(p, large)
      PROVE  Unsurprising
  <2> DEFINE edit == [path |-> p, seen |-> listed[p], fingerprint |-> "none"]
  <2>1. edit.path = p
    OBVIOUS
  <2>2. jobs' = jobs \/ BeginEditDownload(edit)
    BY <1>5 DEF StartRemoteEdit
  <2> HIDE DEF edit
  <2>3. jobs' = jobs \/ Added(TRUE, edit.path, edit.path, "none")
    BY <1>1, <2>1, <2>2, BeginsDownload
  <2> QED BY <1>1, <2>3, OtherWord
<1>6. ASSUME NEW yes \in BOOLEAN, AnswerLarge(yes) PROVE Unsurprising
  <2>1. jobs' = jobs \/ BeginEditDownload(edit_session)
    BY <1>6 DEF AnswerLarge
  <2>2. jobs' = jobs \/ Added(TRUE, edit_session.path, edit_session.path, "none")
    BY <1>1, <1>2, <2>1, BeginsDownload DEF Editing
  <2> QED BY <1>1, <2>2, OtherWord
<1>7. ASSUME NEW j \in JobId,
             JobStarts(j) \/ JobMoves(j) \/ RetryJob(j) \/ JobSucceeded(j) \/ JobCancelled(j)
             \/ JobFailed(j) \/ RemoveJob(j)
      PROVE  Unsurprising
  <2>1. Left(j)
    BY <1>7 DEF JobStarts, JobMoves, RetryJob, JobSucceeded, JobCancelled, JobFailed, RemoveJob,
                Left, Unfinished
  <2>2. \/ JobGoes(j)
        \/ \E s \in Unfinished : jobs' = [jobs EXCEPT ![j].status = s]
    BY <1>7 DEF JobStarts, JobMoves, RetryJob, JobSucceeded, JobCancelled, JobFailed, RemoveJob,
                Unfinished
  <2>3. \E s : JobBecomes(j, s)
    BY <1>1, <2>1, <2>2, StatusStep, GoneStep
  <2> QED BY <1>4, <2>3 DEF JobBecomes
<1>8. CASE Editor
  <2>1. jobs' = jobs \/ EnqueuesUpload(edit_session.path, "unchecked")
    BY <1>8 DEF Editor, EditorFails, EditorChangesNothing, EditorChanges
  <2> QED BY <1>1, <1>2, <1>3, <2>1, QueuedUpload
<1>9. CASE CheckFails
  <2>1. jobs' = jobs \/ EnqueuesUpload(edit_session.path, "unchecked")
    BY <1>9 DEF CheckFails
  <2> QED BY <1>1, <1>2, <1>3, <2>1, QueuedUpload
<1>10. ASSUME NEW choice \in {"Overwrite", "Skip", "SaveAs"}, AnswerConflict(choice)
       PROVE  Unsurprising
  <2>1. jobs' = jobs \/ EnqueuesUpload(edit_session.path, "asked")
    BY <1>10 DEF AnswerConflict
  <2> QED BY <1>1, <1>2, <1>3, <2>1, QueuedUpload
<1>11. ASSUME NEW p \in Path, SaveAs(p) PROVE Unsurprising
  BY <1>1, <1>11, QueuedUpload DEF SaveAs
<1>12. CASE Disconnect
  <2>1. jobs' = [j \in JobId |-> IF jobs[j].status = "failed" THEN jobs[j] ELSE Gone]
    BY <1>12 DEF Disconnect
  <2>2. /\ jobs \in Seq(Records) /\ Len(jobs) \in Nat /\ Gone \in Records
        /\ \A j \in JobId : jobs[j] \in Records
    BY <1>1 DEF TypeOK, Records, JobId
  <2>3. jobs' \in [1..Len(jobs) -> Records]
    BY <2>1, <2>2 DEF JobId
  <2>4. jobs' \in Seq(Records)
    BY <2>2, <2>3
  <2> QED BY <1>4, <2>2, <2>3, <2>4, LenProperties
<1>13. CASE \/ \E yes \in BOOLEAN : AnswerBinary(yes)
            \/ SaveNowhere \/ KeyQuit \/ CancelTransfers \/ RetryKeys \/ OpenChoice \/ CloseChoice
            \/ Connect \/ OtherStarts \/ OtherEnds \/ (\E p \in Path : OthersChange(p))
            \/ UNCHANGED vars
  BY <1>3, <1>13 DEF AnswerBinary, SaveNowhere, KeyQuit, CancelTransfers, RetryKeys, OpenChoice,
     CloseChoice, Connect, OtherStarts, OtherEnds, OthersChange, vars
<1>14. CASE CheckAnswered
  BY <1>14, CheckUnsurprising
<1> QED BY <1>5, <1>6, <1>7, <1>8, <1>9, <1>10, <1>11, <1>12, <1>13, <1>14 DEF Next, JobEnds

(* An upload that goes on the strength of the check goes over a file that  *)
(* is no newer than it was when the edit began: the check looks at the     *)
(* file after the editor has ended.                                        *)
THEOREM ChecksHold == Spec => CheckedMeansUnchanged
<1>1. EditIInv /\ [Next]_vars =>
        [Len(jobs') > Len(jobs) =>
           LET job == jobs'[Len(jobs')]
           IN  job.word = "checked" => closed <= edit_session.seen]_vars
  BY StepUnsurprising DEF Unsurprising
<1> QED BY <1>1, EditInvariant, PTL DEF Spec, CheckedMeansUnchanged

-----------------------------------------------------------------------------
(***************************************************************************)
(* The dialogs, for every order of keys, clicks on old frames and prompts  *)
(* of tasks. The handlers of the reducer keep any set of flags in order,   *)
(* and every key, click and task shows what some handler made of them.     *)
(***************************************************************************)

FullScreen == {"help", "theme", "settings"}

(* Who has the keyboard to itself, and what stands on what.                *)
InOrder(S) ==
  /\ S \subseteq Overlay
  /\ \A a, b \in S \cap FullScreen : a = b
  /\ "key_picker" \in S => "quick_connect" \in S
  /\ ~("quick_connect" \in S /\ "bookmarks" \in S)

(* The overlay of themes holds a list or an editor, and goes with it.      *)
ThemeWhole(S) ==
  /\ "theme" \in S <=> S \cap {"theme_picker", "theme_editor"} # {}
  /\ "editing_hex" \in S => "theme_editor" \in S

Prompt == {"None"} \cup TextPrompts \cup ChoicePrompts

DialogsInv == InOrder(shown) /\ ThemeWhole(shown) /\ prompt_kind \in Prompt

DialogsKept == DialogsInv' /\ NoSilentQuit

LEMMA InOrderIsEnough ==
  ASSUME InOrder(shown)
  PROVE  OneFullScreen /\ PickerHasForm
<1> DEFINE full == shown \cap FullScreen
<1>1. OneFullScreen
  <2>1. CASE full = {}
    BY <2>1, FS_EmptySet DEF OneFullScreen, FullScreen
  <2>2. CASE full # {}
    <3>1. PICK a \in full : TRUE
      BY <2>2
    <3>2. full = {a}
      BY <3>1 DEF InOrder
    <3>3. Cardinality({a}) = 1
      BY FS_Singleton
    <3> QED BY <3>2, <3>3 DEF OneFullScreen, FullScreen
  <2> QED BY <2>1, <2>2
<1>2. PickerHasForm
  BY DEF InOrder, PickerHasForm
<1> QED BY <1>1, <1>2

(* The handlers of the reducer, on any set of flags that is in order.      *)
LEMMA HandlersKeepOrder ==
  ASSUME NEW S, InOrder(S)
  PROVE  /\ InOrder(ToggleHelp(S)) /\ InOrder(ToggleThemeDebug(S)) /\ InOrder(ToggleSettings(S))
         /\ InOrder(ToggleFilter(S)) /\ InOrder(CloseFilterKeep(S)) /\ InOrder(ToggleCompare(S))
         /\ InOrder(CloseKeyPicker(S))
         /\ "quick_connect" \in S => InOrder(OpenKeyPicker(S))
         /\ InOrder(ToggleQuickConnect(S)) /\ InOrder(ToggleBookmarks(S))
         /\ InOrder(ToggleQuickConnect(ToggleBookmarks(S)))
<1>1. InOrder(ToggleHelp(S)) /\ InOrder(ToggleThemeDebug(S)) /\ InOrder(ToggleSettings(S))
  BY DEF ToggleHelp, ToggleThemeDebug, ToggleSettings, Toggled, InOrder, FullScreen, Overlay
<1>2. InOrder(ToggleFilter(S)) /\ InOrder(CloseFilterKeep(S)) /\ InOrder(ToggleCompare(S))
  BY DEF ToggleFilter, CloseFilterKeep, ToggleCompare, Toggled, InOrder, FullScreen, Overlay
<1>3. InOrder(CloseKeyPicker(S)) /\ ("quick_connect" \in S => InOrder(OpenKeyPicker(S)))
  BY DEF CloseKeyPicker, OpenKeyPicker, InOrder, FullScreen, Overlay
<1>4. InOrder(ToggleQuickConnect(S)) /\ InOrder(ToggleBookmarks(S))
  BY DEF ToggleQuickConnect, ToggleBookmarks, CloseKeyPicker, InOrder, FullScreen, Overlay
<1>5. ASSUME NEW T, InOrder(T)
      PROVE  InOrder(ToggleQuickConnect(T))
  BY <1>5 DEF ToggleQuickConnect, CloseKeyPicker, InOrder, FullScreen, Overlay
<1> QED BY <1>1, <1>2, <1>3, <1>4, <1>5

(* The overlay of themes has parts that come and go by themselves.         *)
LEMMA ThemePartsKeepOrder ==
  ASSUME NEW S, InOrder(S), NEW T \in SUBSET ThemeParts
  PROVE  InOrder(S \ T) /\ InOrder(S \cup T)
BY DEF InOrder, FullScreen, ThemeParts, Overlay

LEMMA ThemeKeepsOrder ==
  ASSUME NEW S, InOrder(S)
  PROVE  /\ InOrder(close_theme(S)) /\ InOrder(dismiss_theme(S))
         /\ \A any \in BOOLEAN : InOrder(open_theme_ui(S, any))
<1>1. InOrder(close_theme(S))
  BY ThemePartsKeepOrder DEF close_theme
<1>2. InOrder(dismiss_theme(S))
  BY <1>1, HandlersKeepOrder DEF dismiss_theme
<1>3. \A any \in BOOLEAN : InOrder(open_theme_ui(S, any))
  BY ThemePartsKeepOrder DEF open_theme_ui, ThemeParts
<1> QED BY <1>1, <1>2, <1>3

(* The handlers on an overlay of themes that is whole.                     *)
LEMMA HandlersKeepTheme ==
  ASSUME NEW S, ThemeWhole(S)
  PROVE  /\ ThemeWhole(ToggleFilter(S)) /\ ThemeWhole(CloseFilterKeep(S)) /\ ThemeWhole(ToggleCompare(S))
         /\ ThemeWhole(CloseKeyPicker(S)) /\ ThemeWhole(OpenKeyPicker(S))
         /\ ThemeWhole(ToggleQuickConnect(S)) /\ ThemeWhole(ToggleBookmarks(S))
         /\ ThemeWhole(ToggleQuickConnect(ToggleBookmarks(S)))
<1>1. /\ ThemeWhole(ToggleFilter(S)) /\ ThemeWhole(CloseFilterKeep(S)) /\ ThemeWhole(ToggleCompare(S))
      /\ ThemeWhole(CloseKeyPicker(S)) /\ ThemeWhole(OpenKeyPicker(S))
  BY DEF ToggleFilter, CloseFilterKeep, ToggleCompare, CloseKeyPicker, OpenKeyPicker, Toggled, ThemeWhole
<1>2. ASSUME NEW T, ThemeWhole(T)
      PROVE  ThemeWhole(ToggleQuickConnect(T)) /\ ThemeWhole(ToggleBookmarks(T))
  BY <1>2 DEF ToggleQuickConnect, ToggleBookmarks, CloseKeyPicker, ThemeWhole
<1> QED BY <1>1, <1>2

LEMMA WholeKeyboard ==
  ASSUME NEW S, ThemeWhole(S)
  PROVE  /\ "theme" \notin S \/ "help" \in S => ThemeWhole(ToggleHelp(S))
         /\ "theme" \notin S \/ "settings" \in S => ThemeWhole(ToggleSettings(S))
         /\ "help" \notin S => ThemeWhole(ToggleHelp(close_theme(S)))
         /\ "theme" \in S => ThemeWhole(ToggleThemeDebug(close_theme(S)))
         /\ "theme" \notin S => \A any \in BOOLEAN : ThemeWhole(ToggleThemeDebug(open_theme_ui(S, any)))
         /\ ThemeWhole(dismiss_theme(S)) /\ ThemeWhole(EscTheme(S))
<1>1. /\ "theme" \notin S \/ "help" \in S => ThemeWhole(ToggleHelp(S))
      /\ "theme" \notin S \/ "settings" \in S => ThemeWhole(ToggleSettings(S))
  BY DEF ToggleHelp, ToggleSettings, Toggled, ThemeWhole
<1>2. "theme" \in S => ThemeWhole(ToggleThemeDebug(close_theme(S)))
  BY DEF ToggleThemeDebug, Toggled, ThemeWhole, close_theme, ThemeParts
<1>3. ASSUME "theme" \notin S, NEW any \in BOOLEAN
      PROVE  ThemeWhole(ToggleThemeDebug(open_theme_ui(S, any)))
  BY <1>3 DEF ToggleThemeDebug, Toggled, ThemeWhole, open_theme_ui
<1>4. ThemeWhole(dismiss_theme(S))
  <2>1. "theme" \notin S => close_theme(S) = S
    BY DEF ThemeWhole, close_theme, ThemeParts
  <2> QED BY <1>2, <2>1 DEF dismiss_theme
<1>5. ThemeWhole(EscTheme(S))
  <2>1. "editing_hex" \in S => ThemeWhole(S \ {"editing_hex"})
    BY DEF ThemeWhole
  <2>2. "editing_hex" \notin S /\ "theme_picker" \in S => ThemeWhole(S \ {"theme_editor"})
    BY DEF ThemeWhole
  <2> QED BY <1>4, <2>1, <2>2 DEF EscTheme
<1>6. "help" \notin S => ThemeWhole(ToggleHelp(close_theme(S)))
  BY DEF ToggleHelp, Toggled, close_theme, ThemeParts, ThemeWhole
<1> QED BY <1>1, <1>2, <1>3, <1>4, <1>5, <1>6

LEMMA ShowKeeps ==
  ASSUME DialogsInv, NEW S, InOrder(S), ThemeWhole(S), Show(S)
  PROVE  DialogsKept
BY DEF Show, DialogsInv, DialogsKept, NoSilentQuit

LEMMA AskKeeps ==
  ASSUME DialogsInv, NEW p \in Prompt, Ask(p)
  PROVE  DialogsKept
BY DEF Ask, DialogsInv, DialogsKept, NoSilentQuit

LEMMA GlobalKeysKeep ==
  DialogsInv /\ (CtrlA \/ CtrlQ \/ F1 \/ F2 \/ F3 \/ Slash \/ ShiftC) => DialogsKept
<1> SUFFICES ASSUME DialogsInv
             PROVE  CtrlA \/ CtrlQ \/ F1 \/ F2 \/ F3 \/ Slash \/ ShiftC => DialogsKept
  OBVIOUS
<1>0. InOrder(shown) /\ ThemeWhole(shown)
  BY DEF DialogsInv
<1>1. CtrlA \/ CtrlQ => DialogsKept
  <2>1. CtrlA => shown' = shown /\ quit' = quit /\ prompt_kind' = prompt_kind
    BY DEF CtrlA
  <2>2. CtrlQ => /\ shown' = shown /\ (prompt_kind = "ConfirmQuit" \/ ~working \/ quit' = FALSE)
                 /\ prompt_kind' \in {prompt_kind, "None", "ConfirmQuit"}
    BY DEF CtrlQ, request_quit
  <2> QED BY <2>1, <2>2 DEF DialogsInv, DialogsKept, NoSilentQuit, Prompt, ChoicePrompts
<1>2. F1 => DialogsKept
  <2>1. InOrder(ToggleHelp(shown)) /\ InOrder(ToggleHelp(close_theme(shown)))
    BY <1>0, HandlersKeepOrder, ThemeKeepsOrder
  <2>2. /\ "theme" \notin shown \/ "help" \in shown => ThemeWhole(ToggleHelp(shown))
        /\ "help" \notin shown => ThemeWhole(ToggleHelp(close_theme(shown)))
    BY <1>0, WholeKeyboard
  <2> QED BY <2>1, <2>2, ShowKeeps DEF F1
<1>3. F2 => DialogsKept
  <2>1. /\ InOrder(ToggleThemeDebug(close_theme(shown)))
        /\ \A any \in BOOLEAN : InOrder(ToggleThemeDebug(open_theme_ui(shown, any)))
    BY <1>0, HandlersKeepOrder, ThemeKeepsOrder
  <2>2. /\ "theme" \in shown => ThemeWhole(ToggleThemeDebug(close_theme(shown)))
        /\ "theme" \notin shown => \A any \in BOOLEAN : ThemeWhole(ToggleThemeDebug(open_theme_ui(shown, any)))
    BY <1>0, WholeKeyboard
  <2> QED BY <2>1, <2>2, ShowKeeps DEF F2
<1>4. F3 \/ Slash \/ ShiftC => DialogsKept
  <2>1. F3 => "theme" \notin shown
    BY <1>0 DEF F3, Takes, ThemeWhole
  <2>2. "theme" \notin shown => ThemeWhole(ToggleSettings(shown))
    BY <1>0, WholeKeyboard
  <2> QED BY <1>0, <2>1, <2>2, HandlersKeepOrder, HandlersKeepTheme, ShowKeeps DEF F3, Slash, ShiftC
<1> QED BY <1>1, <1>2, <1>3, <1>4

(* Escape, by who gets it.                                                 *)
LEMMA EscShownKeeps ==
  ASSUME InOrder(shown), ThemeWhole(shown), NEW i \in DOMAIN Takers, To(Takers[i])
  PROVE  InOrder(EscShown(Takers[i])) /\ ThemeWhole(EscShown(Takers[i]))
<1> DEFINE t == Takers[i]
<1>1. Takes(t)
  BY DEF To
<1>2. CASE t = "theme"
  <2>1. /\ InOrder(shown \ {"editing_hex"}) /\ InOrder(shown \ {"theme_editor"})
        /\ InOrder(dismiss_theme(shown))
    BY ThemePartsKeepOrder, ThemeKeepsOrder DEF ThemeParts
  <2>2. InOrder(EscTheme(shown)) /\ ThemeWhole(EscTheme(shown))
    BY <2>1, WholeKeyboard DEF EscTheme
  <2> QED BY <1>2, <2>2 DEF EscShown
<1>3. CASE t = "help"
  BY <1>1, <1>3, HandlersKeepOrder, WholeKeyboard DEF EscShown, Takes
<1>4. CASE t = "settings"
  BY <1>1, <1>4, HandlersKeepOrder, WholeKeyboard DEF EscShown, Takes
<1>5. CASE t \in {"filter", "key_picker", "quick_connect", "bookmarks"}
  BY <1>5, HandlersKeepOrder, HandlersKeepTheme DEF EscShown
<1>6. CASE t = "panes"
  BY <1>6 DEF EscShown, InOrder, ThemeWhole, FullScreen
<1>7. CASE t \notin {"theme", "help", "settings", "filter", "key_picker", "quick_connect", "bookmarks", "panes"}
  BY <1>7 DEF EscShown
<1> QED BY <1>2, <1>3, <1>4, <1>5, <1>6, <1>7

LEMMA EscKeeps ==
  DialogsInv /\ Esc => DialogsKept
<1> SUFFICES ASSUME DialogsInv, NEW i \in DOMAIN Takers, To(Takers[i]),
                    shown' = EscShown(Takers[i]), prompt_kind' \in EscPrompts(Takers[i]), quit' = quit
             PROVE  DialogsKept
  BY DEF Esc
<1>1. InOrder(shown') /\ ThemeWhole(shown')
  BY EscShownKeeps DEF DialogsInv
<1>2. prompt_kind' \in Prompt
  BY DEF EscPrompts, EscText, Prompt, ChoicePrompts, DialogsInv
<1> QED BY <1>1, <1>2 DEF DialogsKept, DialogsInv, NoSilentQuit, InOrder, ThemeWhole

LEMMA DialogKeysKeep ==
  DialogsInv /\ (\/ ThemeEnter \/ ThemeEdit \/ save_theme_palette \/ FilterEnter \/ SettingsEnter
                 \/ AnswerOverwrite \/ AnswerEditConflict \/ AcceptChoice \/ TextTab \/ TextEnter
                 \/ PickerEnter \/ ConnectEnter \/ ConnectBrowse
                 \/ LoadBookmark \/ ConnectBookmark \/ AskBookmarkDelete
                 \/ OpenPrompt \/ ToggleMark \/ OpenDialog) => DialogsKept
<1> SUFFICES ASSUME DialogsInv
             PROVE  /\ ThemeEnter \/ ThemeEdit \/ save_theme_palette => DialogsKept
                    /\ FilterEnter \/ SettingsEnter \/ PickerEnter \/ ConnectEnter \/ ConnectBrowse => DialogsKept
                    /\ LoadBookmark \/ ConnectBookmark \/ OpenDialog => DialogsKept
                    /\ AnswerOverwrite \/ AnswerEditConflict \/ TextTab \/ TextEnter \/ AskBookmarkDelete
                         \/ OpenPrompt => DialogsKept
                    /\ AcceptChoice \/ ToggleMark => DialogsKept
  OBVIOUS
<1>0. InOrder(shown) /\ ThemeWhole(shown)
  BY DEF DialogsInv
<1>1. ThemeEnter \/ ThemeEdit \/ save_theme_palette => DialogsKept
  <2>1. /\ InOrder(shown \ {"editing_hex"}) /\ InOrder(shown \cup {"editing_hex"})
        /\ InOrder(shown \cup {"theme_editor"}) /\ InOrder(dismiss_theme(shown))
    BY <1>0, ThemePartsKeepOrder, ThemeKeepsOrder DEF ThemeParts
  <2>2. ThemeWhole(shown \ {"editing_hex"})
    BY <1>0 DEF ThemeWhole
  <2>3. "theme_editor" \in shown => ThemeWhole(shown \cup {"editing_hex"})
    BY <1>0 DEF ThemeWhole
  <2>4. "theme" \in shown => ThemeWhole(shown \cup {"theme_editor"})
    BY <1>0 DEF ThemeWhole
  <2>5. ThemeEdit => "theme" \in shown
    BY DEF ThemeEdit, To, Takes
  <2>6. ThemeWhole(dismiss_theme(shown))
    BY <1>0, WholeKeyboard
  <2> QED BY <2>1, <2>2, <2>3, <2>4, <2>5, <2>6, ShowKeeps DEF ThemeEnter, ThemeEdit, save_theme_palette
<1>2. FilterEnter \/ SettingsEnter \/ PickerEnter \/ ConnectEnter \/ ConnectBrowse => DialogsKept
  <2>1. ConnectBrowse => "quick_connect" \in shown
    BY DEF ConnectBrowse, To, Takes
  <2>2. SettingsEnter => ThemeWhole(ToggleSettings(shown))
    <3>1. SettingsEnter => "settings" \in shown
      BY DEF SettingsEnter, To, Takes
    <3> QED BY <1>0, <3>1, WholeKeyboard
  <2> QED BY <1>0, <2>1, <2>2, HandlersKeepOrder, HandlersKeepTheme, ShowKeeps
          DEF FilterEnter, SettingsEnter, PickerEnter, ConnectEnter, ConnectBrowse
<1>3. LoadBookmark \/ ConnectBookmark \/ OpenDialog => DialogsKept
  BY <1>0, HandlersKeepOrder, HandlersKeepTheme, ShowKeeps DEF LoadBookmark, ConnectBookmark, OpenDialog
<1>4. AnswerOverwrite \/ AnswerEditConflict \/ TextTab \/ TextEnter \/ AskBookmarkDelete \/ OpenPrompt => DialogsKept
  <2>1. TextTab => \E p \in {"CreateFile", "CreateFolder"} : Ask(p)
    <3>1. \E p \in {"CreateFile", "CreateFolder"} : p # prompt_kind
      OBVIOUS
    <3>2. (CHOOSE p \in {"CreateFile", "CreateFolder"} : p # prompt_kind) \in {"CreateFile", "CreateFolder"}
      BY <3>1
    <3> QED BY <3>2 DEF TextTab
  <2> QED BY <2>1, AskKeeps
        DEF AnswerOverwrite, AnswerEditConflict, TextEnter, AskBookmarkDelete, OpenPrompt,
            Prompt, TextPrompts, ChoicePrompts
<1>5. AcceptChoice \/ ToggleMark => DialogsKept
  BY <1>0 DEF AcceptChoice, ToggleMark, DialogsInv, DialogsKept, NoSilentQuit, Prompt
<1> QED BY <1>1, <1>2, <1>3, <1>4, <1>5

LEMMA OutsideStepsKeep ==
  DialogsInv /\ (Draw \/ ClickBrowse \/ ClickBookmark \/ ClickKeyFile \/ TaskAsks \/ WorkersChange) => DialogsKept
<1> SUFFICES ASSUME DialogsInv
             PROVE  Draw \/ ClickBrowse \/ ClickBookmark \/ ClickKeyFile \/ TaskAsks \/ WorkersChange => DialogsKept
  OBVIOUS
<1>0. InOrder(shown) /\ ThemeWhole(shown)
  BY DEF DialogsInv
<1>1. ClickBrowse \/ ClickBookmark \/ ClickKeyFile => DialogsKept
  BY <1>0, HandlersKeepOrder, HandlersKeepTheme, ShowKeeps DEF ClickBrowse, ClickBookmark, ClickKeyFile
<1>2. TaskAsks => DialogsKept
  BY AskKeeps DEF TaskAsks, Prompt, ChoicePrompts
<1>3. Draw \/ WorkersChange => DialogsKept
  BY DEF Draw, WorkersChange, DialogsInv, DialogsKept, NoSilentQuit
<1> QED BY <1>1, <1>2, <1>3

(* Escape takes something away from a finite set of flags.                 *)
LEMMA OverlaysAreFinite == IsFiniteSet(Overlay)
<1>1. \A S, x : IsFiniteSet(S) => IsFiniteSet(S \cup {x})
  BY FS_AddElement
<1>2. IsFiniteSet({})
  BY FS_EmptySet
<1>3. ASSUME NEW a, NEW b, NEW c
      PROVE  IsFiniteSet({a, b, c})
  <2>1. IsFiniteSet(({} \cup {a}) \cup {b})
    BY <1>1, <1>2
  <2>2. IsFiniteSet((({} \cup {a}) \cup {b}) \cup {c})
    BY <1>1, <2>1
  <2>3. (({} \cup {a}) \cup {b}) \cup {c} = {a, b, c}
    OBVIOUS
  <2> QED BY <2>2, <2>3
<1>4. Overlay = (({"help", "filter", "settings"} \cup {"theme", "theme_picker", "theme_editor"})
                 \cup {"editing_hex", "quick_connect", "bookmarks"}) \cup {"key_picker", "compare", "compare"}
  BY DEF Overlay
<1>5. \A S, T : IsFiniteSet(S) /\ IsFiniteSet(T) => IsFiniteSet(S \cup T)
  BY FS_Union
<1> QED BY <1>3, <1>4, <1>5

LEMMA FewerFlags ==
  ASSUME NEW S, S \subseteq Overlay, NEW T, T \subseteq S, T # S
  PROVE  /\ Cardinality(S) \in Nat /\ Cardinality(T) \in Nat
         /\ Cardinality(T) < Cardinality(S)
<1>1. IsFiniteSet(S)
  BY OverlaysAreFinite, FS_Subset
<1>2. IsFiniteSet(T) /\ Cardinality(T) <= Cardinality(S) /\ Cardinality(T) # Cardinality(S)
  BY <1>1, FS_Subset
<1>3. Cardinality(S) \in Nat /\ Cardinality(T) \in Nat
  BY <1>1, <1>2, FS_CardinalityType
<1> QED BY <1>2, <1>3

LEMMA SomebodyTakesEsc ==
  ASSUME ~quit
  PROVE  \E i \in DOMAIN Takers : To(Takers[i])
<1> DEFINE who == {i \in 1..10 : Takes(Takers[i])}
<1>1. DOMAIN Takers = 1..10 /\ Takers[10] = "panes"
  BY DEF Takers
<1>2. Takes("panes")
  BY DEF Takes
<1>3. PICK i \in who : \A m \in who : i <= m
  <2>1. 10 \in who
    BY <1>1, <1>2
  <2> QED BY <2>1, LeastNumber
<1>4. \A k \in 1..(i - 1) : k \in 1..10 /\ k \notin who
  BY <1>3
<1>5. To(Takers[i])
  BY <1>1, <1>3, <1>4 DEF To
<1> QED BY <1>1, <1>5

LEMMA PanesHearEsc ==
  ASSUME DialogsInv, To("panes"), Weight(shown, prompt_kind) > 0
  PROVE  "compare" \in shown
<1>1. \A t \in {"theme", "help", "filter", "settings", "choice", "text", "key_picker", "quick_connect", "bookmarks"} :
        ~Takes(t)
  <2>1. \A i \in DOMAIN Takers : Takers[i] = "panes" => i = 10
    BY DEF Takers
  <2>2. \A k \in 1..9 : ~Takes(Takers[k])
    BY <2>1 DEF To
  <2> QED BY <2>2 DEF Takers
<1>2. prompt_kind = "None"
  BY <1>1 DEF Takes, DialogsInv, Prompt
<1>3. shown \subseteq {"compare"}
  <2>1. shown \cap {"help", "filter", "settings", "key_picker", "quick_connect", "bookmarks"} = {}
    BY <1>1 DEF Takes
  <2>2. shown \cap {"theme", "theme_editor", "theme_picker", "editing_hex"} = {}
    BY <1>1 DEF Takes, DialogsInv, ThemeWhole
  <2> QED BY <2>1, <2>2 DEF DialogsInv, InOrder, Overlay
<1>4. shown # {}
  BY <1>2, FS_EmptySet DEF Weight
<1> QED BY <1>3, <1>4

LEMMA EscTakesAway ==
  ASSUME DialogsInv, NEW i \in DOMAIN Takers, To(Takers[i]), Weight(shown, prompt_kind) > 0,
         Takers[i] \notin {"choice", "text"}
  PROVE  EscShown(Takers[i]) \subseteq shown /\ EscShown(Takers[i]) # shown
<1> DEFINE t == Takers[i]
<1>1. Takes(t)
  BY DEF To
<1>2. CASE t = "theme"
  <2>1. "theme" \in shown /\ shown \cap {"theme_editor", "theme_picker"} # {}
    BY <1>1, <1>2 DEF Takes
  <2>2. dismiss_theme(shown) = (shown \ ThemeParts) \ {"theme"}
    BY <2>1 DEF dismiss_theme, ToggleThemeDebug, Toggled, close_theme, ThemeParts
  <2>3. EscTheme(shown) \subseteq shown /\ EscTheme(shown) # shown
    BY <2>1, <2>2 DEF EscTheme
  <2> QED BY <1>2, <2>3 DEF EscShown
<1>3. CASE t \in {"help", "filter", "settings"}
  BY <1>1, <1>3 DEF EscShown, Takes, ToggleHelp, ToggleFilter, ToggleSettings, Toggled
<1>4. CASE t \in {"key_picker", "quick_connect", "bookmarks"}
  BY <1>1, <1>4 DEF EscShown, Takes, CloseKeyPicker, ToggleQuickConnect, ToggleBookmarks
<1>5. CASE t = "panes"
  BY <1>5, PanesHearEsc DEF EscShown
<1>6. t \in {"theme", "help", "filter", "settings", "key_picker", "quick_connect", "bookmarks", "panes"}
  BY DEF Takers
<1> QED BY <1>2, <1>3, <1>4, <1>5, <1>6

(* Escape never leaves more to close than there was: EscAlwaysCloses.      *)
LEMMA EscCloses ==
  DialogsInv => EscAlwaysCloses
<1> SUFFICES ASSUME DialogsInv, ~quit, Weight(shown, prompt_kind) > 0
             PROVE  \E i \in DOMAIN Takers :
                      /\ To(Takers[i])
                      /\ \A p \in EscPrompts(Takers[i]) :
                           Weight(EscShown(Takers[i]), p) < Weight(shown, prompt_kind)
  BY DEF EscAlwaysCloses
<1>1. PICK i \in DOMAIN Takers : To(Takers[i])
  BY SomebodyTakesEsc
<1>2. shown \subseteq Overlay
  BY DEF DialogsInv, InOrder
<1>3. Cardinality(shown) \in Nat
  BY <1>2, OverlaysAreFinite, FS_Subset, FS_CardinalityType
<1>4. ASSUME NEW p \in EscPrompts(Takers[i])
      PROVE  Weight(EscShown(Takers[i]), p) < Weight(shown, prompt_kind)
  <2>1. CASE Takers[i] \in {"choice", "text"}
    <3>1. EscShown(Takers[i]) = shown
      BY <2>1 DEF EscShown
    <3>2. prompt_kind # "None"
      BY <1>1, <2>1 DEF To, Takes, TextPrompts, ChoicePrompts
    <3>3. p = "None" \/ (p = "Overwrite" /\ prompt_kind = "OverwriteRename")
      BY <1>4, <2>1 DEF EscPrompts, EscText
    <3> QED BY <1>3, <3>1, <3>2, <3>3 DEF Weight
  <2>2. CASE Takers[i] \notin {"choice", "text"}
    <3>1. p = prompt_kind
      BY <1>4, <2>2 DEF EscPrompts
    <3>2. Cardinality(EscShown(Takers[i])) \in Nat
          /\ Cardinality(EscShown(Takers[i])) < Cardinality(shown)
      BY <1>1, <1>2, <2>2, EscTakesAway, FewerFlags
    <3> QED BY <1>3, <3>1, <3>2 DEF Weight
  <2> QED BY <2>1, <2>2
<1> QED BY <1>1, <1>4

(* Escape closes something as long as anything is open, no dialog stands   *)
(* without the one it belongs to, no two have the whole keyboard, and      *)
(* running transfers are given up only after the question: handle_key,     *)
(* handle_mouse and the toggles of reducer.rs.                             *)
THEOREM DialogsAreInOrder == DialogsSpec => DialogsStayInOrder
<1>1. DialogsInit => DialogsInv
  BY DEF DialogsInit, DialogsInv, InOrder, ThemeWhole, Prompt
<1>2. DialogsInv /\ DialogsNext => DialogsKept
  BY GlobalKeysKeep, EscKeeps, DialogKeysKeep, OutsideStepsKeep DEF DialogsNext
<1>3. DialogsInv /\ [DialogsNext]_dialogVars => DialogsInv'
  BY <1>2 DEF DialogsKept, DialogsInv, InOrder, ThemeWhole, dialogVars
<1>4. DialogsInv /\ [DialogsNext]_dialogVars => [NoSilentQuit]_dialogVars
  BY <1>2 DEF DialogsKept
<1>5. DialogsSpec => []DialogsInv
  BY <1>1, <1>3, PTL DEF DialogsSpec
<1>6. DialogsInv => EscAlwaysCloses /\ OneFullScreen /\ PickerHasForm
  BY EscCloses, InOrderIsEnough DEF DialogsInv
<1>7. DialogsSpec => [](EscAlwaysCloses /\ OneFullScreen /\ PickerHasForm) /\ [][NoSilentQuit]_dialogVars
  BY <1>4, <1>5, <1>6, PTL DEF DialogsSpec
<1> QED BY <1>7 DEF DialogsStayInOrder

-----------------------------------------------------------------------------
(***************************************************************************)
(* The connection form and its key picker, for any folders, whatever       *)
(* changes in them, and any saved connections. The text in the editor is   *)
(* what its field says at every step, and a row that is a folder lies      *)
(* below the folder that is shown.                                         *)
(***************************************************************************)

(* Below a folder is what has it as its parent.                            *)
RowsBelow(rows, folder) ==
  \A i \in DOMAIN rows :
    rows[i].dir /\ rows[i].name \notin {".", ".."} =>
      rows[i].name \in Dir /\ Parent[rows[i].name] = folder

(* A key that is filled in lies in a folder.                               *)
KeyIsSomewhere(q) == Len(q["PrivateKey"]) = 2 => q["PrivateKey"][1] \in Dir

(* What is in the form and in its editor, whichever field it is in.        *)
ConnectionInv(q, f, text) ==
  /\ q = [x \in Field |-> q[x]]
  /\ f \in Field
  /\ q["Port"] = Parse(q["Port"])
  /\ KeyIsSomewhere(q)
  /\ f # "Protocol" =>
       IF f = "Port" THEN q["Port"] = Parse(text)
       ELSE q[f] = text \/ (q[f] = NoText /\ text = <<>>)

PickerInv ==
  /\ disk \in Disk
  /\ picker \in [cwd : Dir, rows : Seq(PickerRow), selected : Nat]
  /\ picking => picker.selected < Len(picker.rows) /\ RowsBelow(picker.rows, picker.cwd)

FormIInv == ConnectionInv(quick_connect, active, qc_field) /\ PickerInv

LEMMA FormFields == Field = {"Name", "Host", "Port", "Username", "Password", "PrivateKey", "Protocol", "Path"}
BY DEF Field, Order

LEMMA ParsedTwice ==
  ASSUME NEW t
  PROVE  Parse(Parse(t)) = Parse(t)
<1>1. CASE t \in {<<"022">>, <<"22">>}
  BY <1>1 DEF Parse
<1>2. CASE t \notin {<<"022">>, <<"22">>}
  <2>1. Parse(t) = <<"0">>
    BY <1>2 DEF Parse
  <2>2. <<"0">>[1] = "0" /\ <<"022">>[1] = "022" /\ <<"22">>[1] = "22" /\ "0" # "022" /\ "0" # "22"
    OBVIOUS
  <2>3. <<"0">> \notin {<<"022">>, <<"22">>}
    BY <2>2
  <2> QED BY <2>1, <2>3 DEF Parse
<1> QED BY <1>1, <1>2

(* Only a key that was picked is a path.                                   *)
LEMMA PathFacts ==
  /\ Len(NoText) = 1 /\ \A t \in Texts : Len(t) < 2
  /\ \A d, n : Len(Key(d, n)) = 2 /\ Key(d, n)[1] = d
<1>1. \A x : Len(<<x>>) = 1
  OBVIOUS
<1>2. Len(<<>>) = 0
  OBVIOUS
<1> QED BY <1>1, <1>2 DEF NoText, Texts, Key

-----------------------------------------------------------------------------
(* The picker's rows.                                                      *)
LEMMA FirstIsARow ==
  ASSUME NEW n \in Nat, NEW places, places \subseteq 1..n, NEW otherwise \in Nat, otherwise < n
  PROVE  /\ First(places, otherwise) \in Nat /\ First(places, otherwise) < n
         /\ places # {} => First(places, otherwise) + 1 \in places
<1>1. places \subseteq Nat
  OBVIOUS
<1>2. places # {} => Min(places) \in places
  BY <1>1, MinIsIn
<1>3. places # {} => Min(places) \in 1..n
  BY <1>2
<1> QED BY <1>2, <1>3 DEF First

LEMMA IndexIsARow ==
  ASSUME NEW rows \in Seq(PickerRow), Len(rows) >= 1, NEW name, NEW ssh \in BOOLEAN
  PROVE  LET i == key_picker_index(rows, name, ssh)
         IN  /\ i \in Nat /\ i < Len(rows)
             /\ (\E k \in DOMAIN rows : rows[k].name = name) => rows[i + 1].name = name
<1> DEFINE S == IF ssh THEN {k \in Named(rows, ".ssh") : rows[k].dir} ELSE {}
           P == {k \in DOMAIN rows : rows[k].name \notin {".", ".."}}
           last == First(P, 0)
           some == First(S, last)
<1>1. Len(rows) \in Nat /\ DOMAIN rows = 1..Len(rows)
  BY LenProperties
<1>2. Named(rows, name) \subseteq 1..Len(rows) /\ S \subseteq 1..Len(rows) /\ P \subseteq 1..Len(rows)
  BY <1>1 DEF Named
<1>3. key_picker_index(rows, name, ssh) = First(Named(rows, name), some)
  BY DEF key_picker_index
<1> HIDE DEF S, P
<1>4. last \in Nat /\ last < Len(rows)
  <2>1. 0 \in Nat /\ 0 < Len(rows)
    BY <1>1
  <2> QED BY <1>1, <1>2, <2>1, FirstIsARow
<1> HIDE DEF last
<1>5. some \in Nat /\ some < Len(rows)
  BY <1>1, <1>2, <1>4, FirstIsARow
<1> HIDE DEF some
<1>6. /\ First(Named(rows, name), some) \in Nat /\ First(Named(rows, name), some) < Len(rows)
      /\ Named(rows, name) # {} => First(Named(rows, name), some) + 1 \in Named(rows, name)
  BY <1>1, <1>2, <1>5, FirstIsARow
<1> QED BY <1>3, <1>6 DEF Named

LEMMA DiskRows ==
  ASSUME disk \in Disk, NEW dir \in Dir
  PROVE  disk[dir] \in Seq(PickerRow) /\ Len(disk[dir]) >= 2 /\ RowsBelow(disk[dir], dir)
BY FormAssumption DEF PickerRow, RowsBelow

LEMMA LoadedRows ==
  ASSUME PickerInv, NEW dir \in Dir, NEW name, LoadReset(dir, name), UNCHANGED disk
  PROVE  /\ PickerInv'
         /\ picker'.cwd = dir
         /\ (\E i \in DOMAIN picker'.rows : picker'.rows[i].name = name) =>
              picker'.rows[picker'.selected + 1].name = name
<1>1. disk[dir] \in Seq(PickerRow) /\ Len(disk[dir]) >= 2 /\ RowsBelow(disk[dir], dir)
  BY DiskRows DEF PickerInv
<1>2. Len(disk[dir]) >= 1
  BY <1>1, LenProperties
<1>3. picker' = [cwd |-> dir, rows |-> disk[dir], selected |-> key_picker_index(disk[dir], name, FALSE)]
  BY DEF LoadReset, key_picker_load
<1>4. /\ key_picker_index(disk[dir], name, FALSE) \in Nat
      /\ key_picker_index(disk[dir], name, FALSE) < Len(disk[dir])
      /\ (\E i \in DOMAIN disk[dir] : disk[dir][i].name = name) =>
           disk[dir][key_picker_index(disk[dir], name, FALSE) + 1].name = name
  BY <1>1, <1>2, IndexIsARow
<1> QED BY <1>1, <1>3, <1>4 DEF PickerInv

LEMMA SelectedRow ==
  ASSUME PickerInv, picking
  PROVE  selected_entry \in PickerRow
         /\ (selected_entry.dir /\ selected_entry.name \notin {".", ".."} =>
              selected_entry.name \in Dir /\ Parent[selected_entry.name] = picker.cwd)
<1>1. picker.rows \in Seq(PickerRow) /\ picker.selected + 1 \in DOMAIN picker.rows
  BY LenProperties DEF PickerInv
<1> QED BY <1>1, ElementOfSeq, LenProperties DEF selected_entry, PickerInv, RowsBelow

-----------------------------------------------------------------------------
(* The form.                                                               *)
Sound(q) == q = [x \in Field |-> q[x]] /\ q["Port"] = Parse(q["Port"]) /\ KeyIsSomewhere(q)

LEMMA HydratedFits ==
  ASSUME NEW q, Sound(q), NEW f \in Field
  PROVE  ConnectionInv(q, f, qc_active_value(q, f))
<1>1. CASE f = "Port"
  <2>1. q["Port"] # NoText
    <3>1. <<"22">>[1] = "22" /\ <<"0">>[1] = "0" /\ <<"none">>[1] = "none" /\ "22" # "none" /\ "0" # "none"
      OBVIOUS
    <3>2. <<"22">> # NoText /\ <<"0">> # NoText
      BY <3>1 DEF NoText
    <3> QED BY <3>2 DEF Sound, Parse
  <2>2. qc_active_value(q, f) = q["Port"]
    BY <1>1, <2>1 DEF qc_active_value
  <2> QED BY <1>1, <2>2 DEF Sound, ConnectionInv
<1>2. CASE f # "Port"
  BY <1>2 DEF Sound, ConnectionInv, qc_active_value
<1> QED BY <1>1, <1>2

LEMMA FlushedIsSound ==
  ASSUME NEW q, Sound(q), NEW f \in Field, NEW text,
         f = "PrivateKey" => (Len(text) = 2 => text[1] \in Dir)
  PROVE  /\ Sound(Flushed(q, f, text))
         /\ \A x \in Field \ {f} : Flushed(q, f, text)[x] = q[x]
         /\ f # "Protocol" => ConnectionInv(Flushed(q, f, text), f, text)
<1> DEFINE new == Flushed(q, f, text)
<1>1. CASE f = "Protocol"
  BY <1>1 DEF Flushed
<1>2. CASE f # "Protocol"
  <2>1. new = [q EXCEPT ![f] = IF f = "Port" THEN Parse(text) ELSE text]
    BY <1>2 DEF Flushed
  <2>2. /\ new = [x \in Field |-> new[x]]
        /\ new[f] = IF f = "Port" THEN Parse(text) ELSE text
        /\ \A x \in Field \ {f} : new[x] = q[x]
    BY <2>1 DEF Sound
  <2>3. "Port" \in Field /\ "PrivateKey" \in Field
    BY FormFields
  <2>4. new["Port"] = Parse(new["Port"])
    BY <2>2, <2>3, ParsedTwice DEF Sound
  <2>5. KeyIsSomewhere(new)
    BY <2>2, <2>3 DEF Sound, KeyIsSomewhere
  <2> HIDE DEF new
  <2>6. Sound(new) /\ ConnectionInv(new, f, text)
    BY <2>2, <2>4, <2>5 DEF Sound, ConnectionInv
  <2> QED BY <2>2, <2>6 DEF new
<1> QED BY <1>1, <1>2

LEMMA SavedIsSound ==
  \A s \in Saved : Sound(s)
BY FormAssumption DEF Sound, KeyIsSomewhere

LEMMA FormIsSound ==
  FormIInv => Sound(quick_connect) /\ (active = "PrivateKey" => (Len(qc_field) = 2 => qc_field[1] \in Dir))
BY PathFacts, FormFields DEF FormIInv, ConnectionInv, Sound, KeyIsSomewhere, NoText

FormKept == FormIInv' /\ EditsStayInField /\ PickerReturns

(* The picker is as it was, or shut.                                       *)
LEMMA PickerShut ==
  ASSUME PickerInv, UNCHANGED disk, picking' => picking /\ UNCHANGED picker,
         picker' = picker \/ picker' = [picker EXCEPT !.rows = <<>>, !.selected = 0]
  PROVE  PickerInv' /\ PickerReturns
<1>1. <<>> \in Seq(PickerRow) /\ 0 \in Nat
  OBVIOUS
<1>2. picker' \in [cwd : Dir, rows : Seq(PickerRow), selected : Nat]
  BY <1>1 DEF PickerInv
<1> QED BY <1>2 DEF PickerInv, PickerReturns

LEMMA EditFieldKeeps ==
  FormIInv /\ EditField => FormKept
<1> SUFFICES ASSUME FormIInv, EditField PROVE FormKept
  OBVIOUS
<1>1. active \in Field /\ active' = active /\ qc_field' \in Texts \cup PortTexts
  BY DEF EditField, FormIInv, ConnectionInv
<1>2. active = "PrivateKey" => qc_field' \in Texts
  BY DEF EditField
<1>3. Sound(quick_connect) /\ quick_connect' = Flushed(quick_connect, active, qc_field')
  BY FormIsSound DEF EditField
<1>4. active = "PrivateKey" => (Len(qc_field') = 2 => qc_field'[1] \in Dir)
  BY <1>2, PathFacts
<1>5. /\ Sound(quick_connect')
      /\ \A x \in Field \ {active} : quick_connect'[x] = quick_connect[x]
      /\ active # "Protocol" => ConnectionInv(quick_connect', active, qc_field')
  BY <1>1, <1>3, <1>4, FlushedIsSound
<1>6. ConnectionInv(quick_connect', active', qc_field')
  BY <1>1, <1>5 DEF ConnectionInv, Sound
<1>7. PickerInv' /\ PickerReturns
  BY PickerShut DEF EditField, PickerStays, FormIInv
<1>8. EditsStayInField
  BY <1>5 DEF EditsStayInField
<1> QED BY <1>6, <1>7, <1>8 DEF FormKept, FormIInv

(* The form is shown anew, at a field or with another connection.          *)
LEMMA ShownAnewKeeps ==
  ASSUME FormIInv, NEW q, Sound(q), q = quick_connect \/ q \in Saved, NEW f \in Field, Hydrate(q, f),
         UNCHANGED disk, picking' => picking /\ UNCHANGED picker,
         picker' = picker \/ picker' = [picker EXCEPT !.rows = <<>>, !.selected = 0]
  PROVE  FormKept
<1>1. ConnectionInv(quick_connect', active', qc_field')
  BY HydratedFits DEF Hydrate
<1>2. PickerInv' /\ PickerReturns
  BY PickerShut DEF FormIInv
<1>3. EditsStayInField
  BY DEF EditsStayInField, Hydrate
<1> QED BY <1>1, <1>2, <1>3 DEF FormKept, FormIInv

LEMMA FieldAfterIsAField ==
  ASSUME NEW f \in Field, NEW step \in Nat
  PROVE  FieldAfter(f, step) \in Field
<1>1. DOMAIN Order = 1..8 /\ Len(Order) = 8
  BY DEF Order
<1> DEFINE i == CHOOSE k \in DOMAIN Order : Order[k] = f
<1>2. i \in 1..8
  BY <1>1 DEF Field
<1> HIDE DEF i
<1>3. (i - 1 + step) \in Nat
  BY <1>2
<1>4. ((i - 1 + step) % 8) + 1 \in 1..8
  BY <1>3
<1> QED BY <1>1, <1>4 DEF FieldAfter, Field, i

LEMMA FormMovesKeep ==
  FormIInv /\ (NextField \/ PrevField \/ (\E f \in Editable : ClickField(f)) \/ ReopenForm \/ SetFromBookmark)
    => FormKept
<1> SUFFICES ASSUME FormIInv,
                    NextField \/ PrevField \/ (\E f \in Editable : ClickField(f)) \/ ReopenForm \/ SetFromBookmark
             PROVE  FormKept
  OBVIOUS
<1>1. Sound(quick_connect) /\ active \in Field /\ "Name" \in Field /\ Editable \subseteq Field
  BY FormIsSound, FormFields, FormAssumption DEF FormIInv, ConnectionInv
<1>2. FieldAfter(active, 1) \in Field /\ FieldAfter(active, Len(Order) - 1) \in Field
  <2>1. Len(Order) = 8
    BY DEF Order
  <2> QED BY <1>1, <2>1, FieldAfterIsAField
<1>3. CASE NextField \/ PrevField \/ (\E f \in Editable : ClickField(f))
  <2>1. PICK f \in Field : Hydrate(quick_connect, f)
    BY <1>1, <1>2, <1>3 DEF NextField, PrevField, ClickField
  <2>2. UNCHANGED <<picking, picker, disk>> /\ ~picking
    BY <1>3 DEF NextField, PrevField, ClickField, PickerStays
  <2> QED BY <1>1, <2>1, <2>2, ShownAnewKeeps
<1>4. CASE ReopenForm
  BY <1>1, <1>4, ShownAnewKeeps DEF ReopenForm
<1>5. CASE SetFromBookmark
  <2>1. PICK s \in Saved : Hydrate(s, "Name")
    BY <1>5 DEF SetFromBookmark
  <2>2. UNCHANGED <<picking, picker, disk>> /\ ~picking
    BY <1>5 DEF SetFromBookmark, PickerStays
  <2> QED BY <1>1, <2>1, <2>2, SavedIsSound, ShownAnewKeeps
<1> QED BY <1>3, <1>4, <1>5

LEMMA CycleProtocolKeeps ==
  FormIInv /\ CycleProtocol => FormKept
<1> SUFFICES ASSUME FormIInv, CycleProtocol PROVE FormKept
  OBVIOUS
<1>1. PICK p : quick_connect' = [quick_connect EXCEPT !["Protocol"] = p]
  BY DEF CycleProtocol
<1>2. quick_connect = [x \in Field |-> quick_connect[x]]
  BY DEF FormIInv, ConnectionInv
<1>3. /\ quick_connect' = [x \in Field |-> quick_connect'[x]]
      /\ \A x \in Field \ {"Protocol"} : quick_connect'[x] = quick_connect[x]
  BY <1>1, <1>2
<1>4. {"Port", "PrivateKey"} \subseteq Field \ {"Protocol"} /\ UNCHANGED <<active, qc_field>>
  BY FormFields DEF CycleProtocol
<1>5. ConnectionInv(quick_connect', active', qc_field')
  BY <1>3, <1>4 DEF FormIInv, ConnectionInv, KeyIsSomewhere
<1>6. PickerInv' /\ PickerReturns
  BY PickerShut DEF CycleProtocol, PickerStays, FormIInv
<1>7. EditsStayInField
  BY <1>3 DEF EditsStayInField
<1> QED BY <1>5, <1>6, <1>7 DEF FormKept, FormIInv

-----------------------------------------------------------------------------
(* The picker.                                                             *)
LEMMA OpenPickerKeeps ==
  FormIInv /\ open_key_picker => FormKept
<1> SUFFICES ASSUME FormIInv, open_key_picker PROVE FormKept
  OBVIOUS
<1> DEFINE q == Flushed(quick_connect, active, qc_field)
           dir == key_picker_start_dir(q["PrivateKey"])
           at == key_picker_index(disk[dir], key_picker_prefer_name(q["PrivateKey"]), TRUE)
<1>1. /\ ~picking /\ picking' = TRUE /\ UNCHANGED disk /\ Hydrate(q, "PrivateKey")
      /\ picker' = [cwd |-> dir, rows |-> disk[dir], selected |-> at]
  BY DEF open_key_picker
<1>2. active \in Field /\ "PrivateKey" \in Field
  BY FormFields DEF FormIInv, ConnectionInv
<1>3. Sound(q) /\ \A x \in Field \ {active} : q[x] = quick_connect[x]
  BY <1>2, FormIsSound, FlushedIsSound
<1> HIDE DEF q
<1>4. dir \in Dir
  BY <1>3, FormAssumption DEF Sound, KeyIsSomewhere, key_picker_start_dir
<1> HIDE DEF dir
<1>5. disk[dir] \in Seq(PickerRow) /\ Len(disk[dir]) >= 2 /\ RowsBelow(disk[dir], dir)
  BY <1>4, DiskRows DEF FormIInv, PickerInv
<1>6. at \in Nat /\ at < Len(disk[dir])
  <2>1. Len(disk[dir]) >= 1
    BY <1>5, LenProperties
  <2> QED BY <1>5, <2>1, IndexIsARow
<1> HIDE DEF at
<1>7. PickerInv' /\ PickerReturns
  BY <1>1, <1>4, <1>5, <1>6 DEF FormIInv, PickerInv, PickerReturns
<1>8. ConnectionInv(quick_connect', active', qc_field')
  BY <1>1, <1>2, <1>3, HydratedFits DEF Hydrate
<1>9. EditsStayInField
  BY <1>1, <1>3 DEF EditsStayInField, Hydrate
<1> QED BY <1>7, <1>8, <1>9 DEF FormKept, FormIInv

LEMMA ConnectionStaysKeeps ==
  ASSUME FormIInv, ConnectionStays, PickerInv', PickerReturns
  PROVE  FormKept
<1>1. EditsStayInField
  BY DEF ConnectionStays, EditsStayInField
<1> QED BY <1>1 DEF ConnectionStays, FormKept, FormIInv

LEMMA ConfirmKeeps ==
  FormIInv /\ picking /\ KeyPickerConfirm => FormKept
<1> SUFFICES ASSUME FormIInv, picking, KeyPickerConfirm PROVE FormKept
  OBVIOUS
<1> DEFINE q == [quick_connect EXCEPT !["PrivateKey"] = Key(picker.cwd, selected_entry.name)]
<1>1. {"PrivateKey", "Port"} \subseteq Field /\ picker.cwd \in Dir /\ Sound(quick_connect)
  BY FormFields, FormIsSound DEF FormIInv, PickerInv
<1>2. /\ q = [x \in Field |-> q[x]] /\ \A x \in Field \ {"PrivateKey"} : q[x] = quick_connect[x]
      /\ q["PrivateKey"] = Key(picker.cwd, selected_entry.name)
  BY <1>1 DEF Sound
<1>3. Hydrate(q, "PrivateKey")
  BY DEF KeyPickerConfirm
<1> HIDE DEF q
<1>4. Sound(q)
  BY <1>1, <1>2, PathFacts DEF Sound, KeyIsSomewhere
<1>5. ConnectionInv(quick_connect', active', qc_field')
  BY <1>1, <1>3, <1>4, HydratedFits DEF Hydrate
<1>6. PickerInv' /\ PickerReturns
  BY PickerShut DEF FormIInv, KeyPickerConfirm
<1>7. EditsStayInField
  BY <1>2, <1>3 DEF EditsStayInField, Hydrate
<1> QED BY <1>5, <1>6, <1>7 DEF FormKept, FormIInv

LEMMA ReloadKeepsPicker ==
  ASSUME FormIInv, picking, UNCHANGED <<disk, picking>>, Reload
  PROVE  PickerInv' /\ PickerReturns
<1> DEFINE rows == disk[picker.cwd]
           clamped == IF picker.selected < Len(rows) THEN picker.selected ELSE Len(rows) - 1
           at == First(Named(rows, selected_entry.name), clamped)
<1>1. picker.cwd \in Dir /\ picker.selected \in Nat
  BY DEF FormIInv, PickerInv
<1>2. rows \in Seq(PickerRow) /\ Len(rows) >= 2 /\ RowsBelow(rows, picker.cwd)
  BY <1>1, DiskRows DEF FormIInv, PickerInv
<1>3. picker' = [cwd |-> picker.cwd, rows |-> rows, selected |-> at]
  BY DEF Reload, key_picker_load
<1> HIDE DEF rows
<1>4. Len(rows) \in Nat /\ clamped \in Nat /\ clamped < Len(rows)
  BY <1>1, <1>2, LenProperties
<1>5. Named(rows, selected_entry.name) \subseteq 1..Len(rows)
  BY <1>2, LenProperties DEF Named
<1> HIDE DEF clamped
<1>6. at \in Nat /\ at < Len(rows)
  BY <1>4, <1>5, FirstIsARow
<1> HIDE DEF at
<1> QED BY <1>1, <1>2, <1>3, <1>6 DEF FormIInv, PickerInv, PickerReturns

(* Up from a folder, the folder is selected.  Down, the folder entered is  *)
(* not the one above, since above a folder are only others.                *)
LEMMA LoadResetKeeps ==
  ASSUME FormIInv, picking, ConnectionStays, UNCHANGED picking, NEW dir \in Dir, NEW name, LoadReset(dir, name),
         name = picker.cwd \/ Parent[dir] = picker.cwd
  PROVE  FormKept
<1>1. /\ PickerInv' /\ picker'.cwd = dir
      /\ (\E i \in DOMAIN picker'.rows : picker'.rows[i].name = name) =>
           picker'.rows[picker'.selected + 1].name = name
  BY LoadedRows DEF FormIInv, ConnectionStays
<1>2. picker.cwd \in Dir
  BY DEF FormIInv, PickerInv
<1>3. CASE name = picker.cwd
  BY <1>1, <1>3, ConnectionStaysKeeps DEF PickerReturns
<1>4. CASE Parent[dir] = picker.cwd
  <2>1. dir = Parent[picker.cwd] => dir = picker.cwd
    BY <1>2, <1>4, FormAssumption
  <2>2. PickerReturns
    BY <1>1, <2>1 DEF PickerReturns
  <2> QED BY <1>1, <2>2, ConnectionStaysKeeps
<1> QED BY <1>3, <1>4

LEMMA ActivateKeeps ==
  FormIInv /\ key_picker_activate_selected => FormKept
<1> SUFFICES ASSUME FormIInv, key_picker_activate_selected PROVE FormKept
  OBVIOUS
<1>1. picking
  BY DEF key_picker_activate_selected
<1>2. CASE ~selected_entry.dir /\ KeyPickerConfirm
  BY <1>1, <1>2, ConfirmKeeps
<1>3. CASE selected_entry.dir /\ ConnectionStays /\ UNCHANGED picking
           /\ CASE selected_entry.name = "." -> Reload
                [] selected_entry.name = ".." -> LoadReset(Parent[picker.cwd], picker.cwd)
                [] OTHER -> LoadReset(selected_entry.name, "nothing")
  <2>1. ".." # "." /\ picker.cwd \in Dir
    BY DEF FormIInv, PickerInv
  <2>2. CASE selected_entry.name = "."
    <3>1. Reload /\ UNCHANGED <<disk, picking>> /\ ConnectionStays
      BY <1>3, <2>2 DEF ConnectionStays
    <3> QED BY <1>1, <3>1, ReloadKeepsPicker, ConnectionStaysKeeps
  <2>3. CASE selected_entry.name = ".."
    <3>1. LoadReset(Parent[picker.cwd], picker.cwd)
      BY <1>3, <2>1, <2>3
    <3>2. Parent[picker.cwd] \in Dir
      BY <2>1, FormAssumption
    <3> QED BY <1>1, <1>3, <3>1, <3>2, LoadResetKeeps
  <2>4. CASE selected_entry.name \notin {".", ".."}
    <3>1. selected_entry.name \in Dir /\ Parent[selected_entry.name] = picker.cwd
      BY <1>1, <1>3, <2>4, SelectedRow DEF FormIInv
    <3>2. LoadReset(selected_entry.name, "nothing")
      BY <1>3, <2>4
    <3> QED BY <1>1, <1>3, <3>1, <3>2, LoadResetKeeps
  <2> QED BY <2>2, <2>3, <2>4
<1> QED BY <1>2, <1>3 DEF key_picker_activate_selected

LEMMA PickerKeysKeep ==
  FormIInv /\ (key_picker_go_parent \/ PickerMove \/ close_key_picker \/ DiskChanges) => FormKept
<1> SUFFICES ASSUME FormIInv, key_picker_go_parent \/ PickerMove \/ close_key_picker \/ DiskChanges PROVE FormKept
  OBVIOUS
<1>1. CASE key_picker_go_parent
  <2>1. Parent[picker.cwd] \in Dir
    BY FormAssumption DEF FormIInv, PickerInv
  <2> QED BY <1>1, <2>1, LoadResetKeeps DEF key_picker_go_parent
<1>2. CASE PickerMove
  <2>1. PICK i \in 0..(Len(picker.rows) - 1) : picker' = [picker EXCEPT !.selected = i]
    BY <1>2 DEF PickerMove
  <2>2. i \in Nat /\ i < Len(picker.rows)
    BY LenProperties DEF FormIInv, PickerInv
  <2>3. picker' \in [cwd : Dir, rows : Seq(PickerRow), selected : Nat] /\ picker'.selected = i
        /\ picker'.cwd = picker.cwd /\ picker'.rows = picker.rows
    BY <2>1, <2>2 DEF FormIInv, PickerInv
  <2>4. PickerInv' /\ PickerReturns
    BY <1>2, <2>2, <2>3 DEF FormIInv, PickerInv, PickerReturns, PickerMove, ConnectionStays
  <2> QED BY <1>2, <2>4, ConnectionStaysKeeps DEF PickerMove
<1>3. CASE close_key_picker
  <2>1. PickerInv' /\ PickerReturns
    BY <1>3, PickerShut DEF FormIInv, close_key_picker, ConnectionStays
  <2> QED BY <1>3, <2>1, ConnectionStaysKeeps DEF close_key_picker
<1>4. CASE DiskChanges
  BY <1>4 DEF DiskChanges, FormKept, FormIInv, PickerInv, EditsStayInField, PickerReturns
<1> QED BY <1>1, <1>2, <1>3, <1>4

LEMMA FormStarts == FormInit => FormIInv
<1> SUFFICES ASSUME FormInit PROVE FormIInv
  OBVIOUS
<1>1. "Name" \in Field
  BY FormFields
<1>2. ConnectionInv(quick_connect, active, qc_field)
  BY <1>1, SavedIsSound, HydratedFits DEF FormInit
<1>3. PickerInv
  BY FormAssumption DEF FormInit, PickerInv
<1> QED BY <1>2, <1>3 DEF FormIInv

LEMMA FormImplied ==
  FormIInv => FormIsOnScreen /\ PickerOnARow
<1> SUFFICES ASSUME FormIInv, active # "Protocol"
             PROVE  quick_connect[active] \in {Flushed(quick_connect, active, qc_field)[active]}
                                              \cup (IF qc_field = <<>> THEN {NoText} ELSE {})
  BY DEF FormIInv, FormIsOnScreen, PickerOnARow, PickerInv
<1>1. quick_connect = [x \in Field |-> quick_connect[x]] /\ active \in Field
  BY DEF FormIInv, ConnectionInv
<1>2. Flushed(quick_connect, active, qc_field)[active] = IF active = "Port" THEN Parse(qc_field) ELSE qc_field
  BY <1>1 DEF Flushed
<1> QED BY <1>2 DEF FormIInv, ConnectionInv

LEMMA FormKeeps ==
  /\ FormIInv /\ [FormNext]_formVars => FormIInv'
  /\ FormIInv /\ [FormNext]_formVars => [EditsStayInField /\ PickerReturns]_formVars
<1>1. FormIInv /\ UNCHANGED formVars => FormIInv'
  BY DEF formVars, FormIInv, PickerInv
<1>2. FormIInv /\ FormNext => FormKept
  BY EditFieldKeeps, FormMovesKeep, CycleProtocolKeeps, OpenPickerKeeps, ActivateKeeps, PickerKeysKeep DEF FormNext
<1> QED BY <1>1, <1>2 DEF FormKept

(* What is typed, clicked or picked goes to the field it is meant for: the *)
(* quick connect form of state.rs and the key picker of events.rs, for any *)
(* folders and bookmarks.                                                  *)
THEOREM FormHolds == FormSpec => FormHoldsWhatIsTyped
<1>1. FormSpec => []FormIInv
  BY FormStarts, FormKeeps, PTL DEF FormSpec
<1>2. FormSpec => [](FormIsOnScreen /\ PickerOnARow) /\ [][EditsStayInField /\ PickerReturns]_formVars
  BY <1>1, FormKeeps, FormImplied, PTL DEF FormSpec
<1> QED BY <1>2 DEF FormHoldsWhatIsTyped

-----------------------------------------------------------------------------
(***************************************************************************)
(* The settings, for any limit of workers, texts and folders. What the     *)
(* dialog's drafts make of the file reads back as what they put in force,  *)
(* and the first lines of it as that or as the defaults.                   *)
(***************************************************************************)

SettingPolicy == {"ask", "skip_all", "overwrite_all"}

Drafts == [editor : Text, workers : 1..WORKER_MAX, hide : BOOLEAN, overwrite : SettingPolicy,
           auto : BOOLEAN, last : Text]

Live == [editor : Text, workers : 1..WORKER_MAX, hide : BOOLEAN, overwrite : SettingPolicy, auto : BOOLEAN]

(* What is read of a file, also of one that was written by hand.           *)
Legible(written) ==
  /\ written.workers \in Nat \cup {None} /\ written.editor \in Text \cup {None}
  /\ written.hide \in BOOLEAN /\ written.auto \in BOOLEAN

SettingsIInv ==
  /\ live \in Live /\ draft \in Drafts
  /\ form_field \in {Fields[i] : i \in 1..6}
  /\ local_cwd \in Folder
  /\ config \notin {None, Torn} => Legible(config)
  /\ policies = [default |-> live.overwrite, current |-> policies.current]
  /\ ~batch => policies.current = live.overwrite
  /\ unsaved \subseteq Live
  /\ LiveIsSaved /\ FailureInventsNothing

LEMMA WorkerLimit ==
  WORKER_MAX \in Nat /\ WORKER_MAX >= 2
<1>1. WORKER_MAX \in Nat \ {0, 1}
  BY SettingsAssumption, Zenon
<1> QED BY <1>1

LEMMA SettingsFacts ==
  /\ \A n \in Nat : n # None
  /\ None # "skip_all" /\ None # "overwrite_all" /\ None \notin File
  /\ "" \in Text /\ \A t \in Text : trim[t] \in Text
  /\ Folder \subseteq Text /\ "." \in Folder
<1>2. (\A n \in Nat : n # None) /\ None # "skip_all" /\ None # "overwrite_all" /\ None \notin File
  BY SettingsAssumption
<1>3. "" \in Text /\ \A t \in Text : trim[t] \in Text
  BY SettingsAssumption
<1>4. Folder \subseteq {trim[t] : t \in Text}
  BY SettingsAssumption
<1>5. "." \in Folder
  BY SettingsAssumption, Zenon
<1> QED BY <1>2, <1>3, <1>4, <1>5

LEMMA ClampInRange ==
  ASSUME NEW n \in Int
  PROVE  clamp(n) \in 1..WORKER_MAX /\ (n \in 1..WORKER_MAX => clamp(n) = n)
BY WorkerLimit DEF clamp

LEMMA PolicyRead ==
  /\ \A s : from_config(s) \in SettingPolicy
  /\ from_config("ask") = "ask" /\ from_config("skip_all") = "skip_all"
  /\ from_config("overwrite_all") = "overwrite_all"
BY DEF from_config, SettingPolicy

LEMMA SettingsAreLive ==
  ASSUME NEW written, Legible(written)
  PROVE  Settings(written) \in Live
<1>1. worker_max_or_default(written) \in 1..WORKER_MAX
  BY ClampInRange DEF Legible, worker_max_or_default
<1>2. editor_or_empty(written) \in Text
  BY SettingsFacts DEF Legible, editor_or_empty
<1> QED BY <1>1, <1>2, PolicyRead DEF Settings, Live, Legible

LEMMA DefaultIsLegible == Legible(DefaultConfig)
BY DEF Legible, DefaultConfig

(* What is written means the same when it is read.                         *)
LEMMA WrittenAsMeant ==
  ASSUME NEW d \in Drafts
  PROVE  /\ Config(d) \in File /\ Legible(Config(d)) /\ ApplySettings(d) = Settings(Config(d))
         /\ ApplySettings(d).overwrite = d.overwrite
<1>1. /\ d.editor \in Text /\ d.last \in Text /\ d.workers \in 1..WORKER_MAX /\ d.overwrite \in SettingPolicy
      /\ d.hide \in BOOLEAN /\ d.auto \in BOOLEAN
  BY DEF Drafts
<1>2. \A t \in Text : trim[t] \in Text /\ (trim[t] # "" => trim[t] \in Written)
  BY SettingsFacts DEF Written
<1>3. Config(d) \in File
  BY <1>1, <1>2 DEF Config, File, SettingPolicy
<1>4. Legible(Config(d))
  <2>1. d.workers \in Nat
    BY <1>1, WorkerLimit
  <2> QED BY <1>1, <1>2, <2>1 DEF Config, Legible
<1>5. overwrite_policy_or_default(Config(d)) = d.overwrite
  <2>1. CASE d.overwrite = "ask"
    BY <2>1 DEF overwrite_policy_or_default, Config
  <2>2. CASE d.overwrite # "ask"
    BY <1>1, <2>2, SettingsFacts DEF overwrite_policy_or_default, Config, SettingPolicy
  <2> QED BY <2>1, <2>2
<1>6. from_config(d.overwrite) = d.overwrite
  BY <1>1, PolicyRead DEF SettingPolicy
<1>7. worker_max_or_default(Config(d)) = clamp(d.workers)
  <2>1. Config(d).workers = d.workers
    BY DEF Config
  <2>2. d.workers \in Nat
    BY <1>1, WorkerLimit
  <2>3. d.workers # None
    BY <2>2, SettingsFacts
  <2> QED BY <2>1, <2>3 DEF worker_max_or_default
<1>8. Config(d).hide = d.hide /\ Config(d).auto = d.auto
  BY DEF Config
<1> QED BY <1>3, <1>4, <1>5, <1>6, <1>7, <1>8 DEF ApplySettings, Settings

(* Cut after any of its lines it reads as it was meant, or as nothing was. *)
LEMMA LinesAsMeant ==
  ASSUME NEW d \in Drafts, NEW n \in 0..6
  PROVE  LET cut == Lines(Config(d), n)
             whole == Settings(Config(d))
         IN  /\ Legible(cut) /\ cut # None /\ whole \in Live
             /\ \A s \in {"editor", "workers", "hide", "overwrite", "auto"} :
                  Settings(cut)[s] \in {whole[s], Settings(DefaultConfig)[s]}
<1> DEFINE c == Config(d)
           cut == Lines(c, n)
<1>1. c \in File /\ Legible(c)
  BY WrittenAsMeant
<1>2. Settings(c) \in Live
  BY <1>1, SettingsAreLive
<1> HIDE DEF c
<1>3. /\ cut.editor \in {c.editor, None} /\ cut.workers \in {c.workers, None} /\ cut.overwrite \in {c.overwrite, None}
      /\ cut.last \in {c.last, None}
  BY DEF Lines
<1>4. cut.hide \in {c.hide, FALSE} /\ cut.auto \in {c.auto, FALSE} /\ c.hide \in BOOLEAN /\ c.auto \in BOOLEAN
  <2>1. (n >= 4) \in BOOLEAN /\ (n >= 6) \in BOOLEAN /\ c.hide \in BOOLEAN /\ c.auto \in BOOLEAN
    BY <1>1 DEF Legible
  <2>2. cut.hide = (n >= 4 /\ c.hide) /\ cut.auto = (n >= 6 /\ c.auto)
    BY DEF Lines
  <2> QED BY <2>1, <2>2, Zenon
<1>5. cut \in File
  <2>1. cut = [editor |-> cut.editor, workers |-> cut.workers, last |-> cut.last, hide |-> cut.hide,
               overwrite |-> cut.overwrite, auto |-> cut.auto]
    BY DEF Lines
  <2>2. /\ c.editor \in {None} \cup Written /\ c.workers \in {None} \cup 1..WORKER_MAX
        /\ c.overwrite \in {None, "skip_all", "overwrite_all"} /\ c.last \in {None} \cup Written
    BY <1>1 DEF File
  <2>3. /\ cut.editor \in {None} \cup Written /\ cut.workers \in {None} \cup 1..WORKER_MAX
        /\ cut.overwrite \in {None, "skip_all", "overwrite_all"} /\ cut.last \in {None} \cup Written
        /\ cut.hide \in BOOLEAN /\ cut.auto \in BOOLEAN
    BY <1>3, <1>4, <2>2, Zenon
  <2> HIDE DEF cut
  <2> QED BY <2>1, <2>3 DEF File
<1>6. cut # None
  BY <1>5, SettingsFacts
<1>7. Legible(cut)
  <2>1. c.workers \in Nat \cup {None} /\ c.editor \in Text \cup {None}
    BY <1>1 DEF Legible
  <2>2. cut.workers \in Nat \cup {None} /\ cut.editor \in Text \cup {None} /\ cut.hide \in BOOLEAN /\ cut.auto \in BOOLEAN
    BY <1>3, <1>4, <2>1, Zenon
  <2> QED BY <2>2, Zenon DEF Legible
<1> HIDE DEF cut
<1>8. /\ editor_or_empty(cut) \in {editor_or_empty(c), editor_or_empty(DefaultConfig)}
      /\ worker_max_or_default(cut) \in {worker_max_or_default(c), worker_max_or_default(DefaultConfig)}
      /\ overwrite_policy_or_default(cut) \in {overwrite_policy_or_default(c), overwrite_policy_or_default(DefaultConfig)}
      /\ DefaultConfig.hide = FALSE /\ DefaultConfig.auto = FALSE
  BY <1>3 DEF editor_or_empty, worker_max_or_default, overwrite_policy_or_default, DefaultConfig
<1>9. /\ Settings(cut).editor \in {Settings(c).editor, Settings(DefaultConfig).editor}
      /\ Settings(cut).workers \in {Settings(c).workers, Settings(DefaultConfig).workers}
      /\ Settings(cut).overwrite \in {Settings(c).overwrite, Settings(DefaultConfig).overwrite}
  BY <1>8 DEF Settings
<1>10. /\ Settings(cut).hide \in {Settings(c).hide, Settings(DefaultConfig).hide}
       /\ Settings(cut).auto \in {Settings(c).auto, Settings(DefaultConfig).auto}
  BY <1>4, <1>8, Zenon DEF Settings
<1>11. \A s \in {"editor", "workers", "hide", "overwrite", "auto"} :
         Settings(cut)[s] \in {Settings(c)[s], Settings(DefaultConfig)[s]}
  BY <1>9, <1>10, Zenon
<1> QED BY <1>2, <1>6, <1>7, <1>11 DEF c, cut

LEMMA TurnedInRange ==
  ASSUME NEW i \in Int, NEW n \in Nat \ {0}, NEW step \in {1, -1}
  PROVE  Around(i, step, n) \in 1..n
<1>1. i - 1 + step \in Int
  OBVIOUS
<1>2. (i - 1 + step) % n \in 0..(n - 1)
  BY <1>1
<1> QED BY <1>2 DEF Around

LEMMA CycledIsADraft ==
  ASSUME NEW d \in Drafts, NEW f, NEW step \in {1, -1}
  PROVE  Cycled(d, f, step) \in Drafts
<1>1. Around(d.workers, step, WORKER_MAX) \in Int
  <2>1. d.workers \in Int /\ WORKER_MAX \in Nat \ {0}
    BY WorkerLimit DEF Drafts
  <2>2. Around(d.workers, step, WORKER_MAX) \in 1..WORKER_MAX
    BY <2>1, TurnedInRange
  <2> QED BY <2>1, <2>2
<1>2. clamp(Around(d.workers, step, WORKER_MAX)) \in 1..WORKER_MAX
  BY <1>1, ClampInRange
<1>3. settings_next(d.overwrite, step) \in SettingPolicy
  <2>1. DOMAIN SettingsPolicy = 1..3 /\ \A i \in 1..3 : SettingsPolicy[i] \in SettingPolicy
    BY DEF SettingsPolicy, SettingPolicy
  <2>2. \E i \in 1..3 : SettingsPolicy[i] = d.overwrite
    BY DEF SettingsPolicy, SettingPolicy, Drafts
  <2>3. Index(SettingsPolicy, d.overwrite) \in 1..3
    BY <2>1, <2>2 DEF Index
  <2>4. Around(Index(SettingsPolicy, d.overwrite), step, 3) \in 1..3
    <3>1. Index(SettingsPolicy, d.overwrite) \in Int /\ 3 \in Nat \ {0}
      BY <2>3
    <3> QED BY <3>1, TurnedInRange
  <2> QED BY <2>1, <2>4 DEF settings_next
<1> QED BY <1>2, <1>3 DEF Cycled, Drafts

SettingsKept == SettingsIInv' /\ BatchKeepsItsPolicy /\ FailureIsNotLive

LEMMA NoDraftIsADraft == NoDraft \in Drafts /\ "Editor" \in {Fields[i] : i \in 1..6}
<1>1. NoDraft \in Drafts
  <2>1. 2 \in 1..WORKER_MAX
    BY WorkerLimit
  <2> QED BY <2>1, SettingsFacts DEF NoDraft, Drafts, SettingPolicy
<1>2. Fields[1] = "Editor"
  BY DEF Fields
<1> QED BY <1>1, <1>2

LEMMA RestartKeeps ==
  SettingsIInv /\ Restart => SettingsKept
<1> SUFFICES ASSUME SettingsIInv, Restart PROVE SettingsKept
  OBVIOUS
<1> DEFINE cfg == IF config = Torn THEN DefaultConfig ELSE load_or_default(config)
<1>1. Legible(cfg)
  BY DefaultIsLegible DEF SettingsIInv, load_or_default
<1>2. /\ live' = Settings(cfg) /\ policies' = [default |-> live'.overwrite, current |-> live'.overwrite]
      /\ local_cwd' \in Folder
      /\ draft' = NoDraft /\ form_field' = "Editor" /\ batch' = FALSE /\ unsaved' = {} /\ UNCHANGED config
  <2>1. Start(config) /\ Closed /\ batch' = FALSE /\ unsaved' = {} /\ UNCHANGED config
    BY DEF Restart
  <2>2. local_cwd' = IF cfg.last \in Folder THEN cfg.last ELSE "."
    BY <2>1 DEF Start
  <2>3. local_cwd' \in Folder
    BY <2>2, SettingsFacts, Zenon
  <2> QED BY <2>1, <2>3 DEF Start, Closed
<1>3. config # Torn => cfg = load_or_default(config)
  OBVIOUS
<1> HIDE DEF cfg
<1>4. live' \in Live
  BY <1>1, <1>2, SettingsAreLive
<1>5. LiveIsSaved'
  <2>1. live' = [live' EXCEPT !.hide = live'.hide] /\ live'.workers \in 1..WORKER_MAX
    BY <1>4 DEF Live
  <2> QED BY <1>2, <1>3, <2>1 DEF LiveIsSaved
<1> QED BY <1>2, <1>4, <1>5, NoDraftIsADraft DEF SettingsIInv, SettingsKept, BatchKeepsItsPolicy,
       FailureIsNotLive, FailureInventsNothing

LEMMA SaveKeeps ==
  SettingsIInv /\ save_settings => SettingsKept
<1> SUFFICES ASSUME SettingsIInv, save_settings PROVE SettingsKept
  OBVIOUS
<1>1. /\ config' = Config(draft) /\ live' = ApplySettings(draft) /\ draft' = NoDraft /\ form_field' = "Editor"
      /\ policies' = PoliciesAfter(draft) /\ unsaved' = {} /\ UNCHANGED batch
  BY DEF save_settings, Closed
<1>2. draft \in Drafts
  BY DEF SettingsIInv
<1>3. /\ config' \in File /\ Legible(config') /\ live' = Settings(config') /\ live'.overwrite = draft.overwrite
  BY <1>1, <1>2, WrittenAsMeant
<1>4. local_cwd' \in Folder
  BY DEF save_settings, SettingsIInv
<1>5. live' \in Live
  BY <1>3, SettingsAreLive
<1>6. config' # None
  BY <1>3, SettingsFacts
<1>7. LiveIsSaved'
  <2>1. live' = [live' EXCEPT !.hide = live'.hide] /\ live'.workers \in 1..WORKER_MAX
    BY <1>5 DEF Live
  <2> QED BY <1>3, <1>6, <2>1 DEF LiveIsSaved, load_or_default
<1>8. /\ policies' = [default |-> live'.overwrite, current |-> policies'.current]
      /\ ~batch' => policies'.current = live'.overwrite
      /\ batch => policies'.current = policies.current
  BY <1>1, <1>3 DEF PoliciesAfter
<1> QED BY <1>1, <1>3, <1>4, <1>5, <1>7, <1>8, NoDraftIsADraft DEF SettingsIInv, SettingsKept, BatchKeepsItsPolicy,
       FailureIsNotLive, FailureInventsNothing

(* The dialog's keys touch the drafts only.                                *)
LEMMA DraftingKeeps ==
  ASSUME SettingsIInv, FormStays, draft' \in Drafts, form_field' \in {Fields[i] : i \in 1..6}
  PROVE  SettingsKept
BY DEF SettingsIInv, SettingsKept, FormStays, BatchKeepsItsPolicy, LiveIsSaved,
     FailureIsNotLive, FailureInventsNothing, Live

LEMMA FormKeysKeep ==
  SettingsIInv /\ (OpenSettings \/ CancelSettings \/ SelectField \/ CycleValue \/ ClickValue \/ TypeText)
    => SettingsKept
<1> SUFFICES ASSUME SettingsIInv,
                    OpenSettings \/ CancelSettings \/ SelectField \/ CycleValue \/ ClickValue \/ TypeText
             PROVE  SettingsKept
  OBVIOUS
<1>1. FormStays
  BY DEF OpenSettings, CancelSettings, SelectField, CycleValue, ClickValue, TypeText
<1>2. DOMAIN Fields = 1..6 /\ draft \in Drafts /\ form_field \in {Fields[i] : i \in 1..6}
  BY DEF Fields, SettingsIInv
<1>3. CASE OpenSettings
  <2>1. live \in Live /\ clamp(live.workers) \in 1..WORKER_MAX
    BY ClampInRange DEF SettingsIInv, Live
  <2>2. local_cwd \in Text
    BY SettingsFacts DEF SettingsIInv
  <2>3. draft' \in Drafts
    BY <1>3, <2>1, <2>2 DEF OpenSettings, Live, Drafts
  <2> QED BY <1>1, <1>3, <2>3, NoDraftIsADraft, DraftingKeeps DEF OpenSettings
<1>4. CASE CancelSettings
  BY <1>1, <1>4, NoDraftIsADraft, DraftingKeeps DEF CancelSettings, Closed
<1>5. CASE SelectField
  <2>1. PICK step \in {1, -1} : form_field' = Fields[Around(Index(Fields, form_field), step, 6)]
    BY <1>5 DEF SelectField
  <2>2. Index(Fields, form_field) \in 1..6
    BY <1>2 DEF Index
  <2>3. Around(Index(Fields, form_field), step, 6) \in 1..6
    <3>1. Index(Fields, form_field) \in Int /\ 6 \in Nat \ {0}
      BY <2>2
    <3> QED BY <3>1, TurnedInRange
  <2> QED BY <1>1, <1>2, <1>5, <2>1, <2>3, DraftingKeeps DEF SelectField
<1>6. CASE CycleValue
  BY <1>1, <1>2, <1>6, CycledIsADraft, DraftingKeeps DEF CycleValue
<1>7. CASE ClickValue
  <2>1. Fields[2] = "Workers" /\ Fields[3] = "HideDotfiles" /\ Fields[4] = "Overwrite" /\ Fields[5] = "AutoConnect"
    BY DEF Fields
  <2>2. form_field' \in {Fields[i] : i \in 1..6}
    BY <1>7, <2>1 DEF ClickValue
  <2> QED BY <1>1, <1>2, <1>7, <2>2, CycledIsADraft, DraftingKeeps DEF ClickValue
<1>8. CASE TypeText
  <2>1. draft' \in Drafts
    BY <1>2, <1>8 DEF TypeText, Drafts
  <2> QED BY <1>1, <1>2, <1>8, <2>1, DraftingKeeps DEF TypeText
<1> QED BY <1>3, <1>4, <1>5, <1>6, <1>7, <1>8

LEMMA OutsideKeeps ==
  SettingsIInv /\ (\/ SaveFails \/ ToggleHideDotfiles \/ NavigateLocal
                   \/ BatchStarts \/ AnswerForRest \/ clear_scan_state)
    => SettingsKept
<1>1. SettingsIInv /\ SaveFails => SettingsKept
  <2> SUFFICES ASSUME SettingsIInv, SaveFails PROVE SettingsKept
    OBVIOUS
  <2>1. UNCHANGED <<live, draft, form_field, local_cwd, policies, batch>>
    BY DEF SaveFails
  <2>2. live = [live EXCEPT !.hide = live.hide]
    BY DEF SettingsIInv, Live
  <2>3. CASE UNCHANGED <<config, unsaved>>
    BY <2>1, <2>2, <2>3 DEF SettingsIInv, SettingsKept, BatchKeepsItsPolicy, LiveIsSaved, FailureIsNotLive,
       FailureInventsNothing
  <2>4. CASE /\ config' \in {Torn} \cup {Lines(Config(draft), n) : n \in 0..6}
             /\ unsaved' = {Settings(Config(draft))}
    <3>1. draft \in Drafts
      BY DEF SettingsIInv
    <3>2. Settings(Config(draft)) \in Live
      BY <3>1, WrittenAsMeant, SettingsAreLive
    <3>3. \/ config' = Torn
          \/ \E n \in 0..6 : config' = Lines(Config(draft), n)
      BY <2>4
    <3>4. config' # Torn =>
            /\ Legible(config') /\ config' # None
            /\ \A s \in {"editor", "workers", "hide", "overwrite", "auto"} :
                 Settings(config')[s] \in {Settings(Config(draft))[s], Settings(DefaultConfig)[s]}
      BY <3>1, <3>3, LinesAsMeant
    <3>5. FailureInventsNothing'
      BY <2>4, <3>4, Zenon DEF FailureInventsNothing, load_or_default
    <3>6. LiveIsSaved' /\ unsaved' \subseteq Live
      BY <2>4, <3>2 DEF LiveIsSaved
    <3>7. SettingsIInv'
      BY <2>1, <3>4, <3>5, <3>6 DEF SettingsIInv
    <3>8. BatchKeepsItsPolicy /\ FailureIsNotLive
      BY <2>1, <2>2 DEF BatchKeepsItsPolicy, FailureIsNotLive, SettingsIInv
    <3> QED BY <3>7, <3>8 DEF SettingsKept
  <2> QED BY <2>3, <2>4 DEF SaveFails
<1>2. SettingsIInv /\ ToggleHideDotfiles => SettingsKept
  <2> SUFFICES ASSUME SettingsIInv, ToggleHideDotfiles PROVE SettingsKept
    OBVIOUS
  <2>1. live' \in Live /\ live'.overwrite = live.overwrite /\ live'.workers = live.workers
        /\ live' = [live EXCEPT !.hide = live'.hide]
    BY DEF ToggleHideDotfiles, SettingsIInv, Live
  <2>2. UNCHANGED <<draft, form_field, local_cwd, config, policies, batch, unsaved>>
    BY DEF ToggleHideDotfiles
  <2>3. LiveIsSaved'
    <3> SUFFICES ASSUME config # Torn, unsaved = {}
                 PROVE  /\ [Settings(load_or_default(config)) EXCEPT !.hide = live'.hide] = live'
                        /\ live'.workers \in 1..WORKER_MAX
      BY <2>2 DEF LiveIsSaved
    <3> DEFINE read == Settings(load_or_default(config))
    <3>1. [read EXCEPT !.hide = live.hide] = live /\ live.workers \in 1..WORKER_MAX
      BY DEF SettingsIInv, LiveIsSaved
    <3>2. Legible(load_or_default(config))
      BY DefaultIsLegible DEF SettingsIInv, load_or_default
    <3>3. read \in Live
      BY <3>2, SettingsAreLive
    <3> HIDE DEF read
    <3>4. [read EXCEPT !.hide = live'.hide] = live'
      BY <2>1, <3>1, <3>3 DEF Live
    <3> QED BY <2>1, <3>1, <3>4 DEF read
  <2>4. FailureInventsNothing'
    BY <2>2 DEF FailureInventsNothing, SettingsIInv
  <2>5. SettingsIInv'
    BY <2>1, <2>2, <2>3, <2>4 DEF SettingsIInv
  <2>6. FailureIsNotLive
    BY <2>1 DEF FailureIsNotLive, SettingsIInv, Live
  <2>7. BatchKeepsItsPolicy
    BY <2>1, <2>2 DEF BatchKeepsItsPolicy, SettingsIInv
  <2> QED BY <2>5, <2>6, <2>7 DEF SettingsKept
<1>3. SettingsIInv /\ NavigateLocal => SettingsKept
  BY DEF NavigateLocal, SettingsIInv, SettingsKept, BatchKeepsItsPolicy, LiveIsSaved,
     FailureIsNotLive, FailureInventsNothing, Live
<1>4. SettingsIInv /\ BatchStarts => SettingsKept
  BY DEF BatchStarts, SettingsIInv, SettingsKept, BatchKeepsItsPolicy, LiveIsSaved,
     FailureIsNotLive, FailureInventsNothing, Live
<1>5. SettingsIInv /\ AnswerForRest => SettingsKept
  BY DEF AnswerForRest, SettingsIInv, SettingsKept, BatchKeepsItsPolicy, LiveIsSaved,
     FailureIsNotLive, FailureInventsNothing, Live
<1>6. SettingsIInv /\ clear_scan_state => SettingsKept
  BY DEF clear_scan_state, SettingsIInv, SettingsKept, BatchKeepsItsPolicy, LiveIsSaved,
     FailureIsNotLive, FailureInventsNothing, Live
<1> QED BY <1>1, <1>2, <1>3, <1>4, <1>5, <1>6

LEMMA SettingsStarts == SettingsInit => SettingsIInv
<1> SUFFICES ASSUME SettingsInit PROVE SettingsIInv
  OBVIOUS
<1>1. config = None \/ Legible(config)
  <2> SUFFICES ASSUME config # None PROVE Legible(config)
    OBVIOUS
  <2>1. PICK w \in {None, 0, 99}, o \in {None, "skip", "odd"} : config = FileOf("", w, o, "gone")
    BY Zenon DEF SettingsInit
  <2>2. w \in Nat \cup {None}
    OBVIOUS
  <2>3. /\ config.workers = w /\ config.editor = "" /\ config.hide = FALSE /\ config.auto = TRUE
    BY <2>1 DEF FileOf
  <2> QED BY <2>2, <2>3, SettingsFacts DEF Legible
<1>2. Legible(load_or_default(config))
  BY <1>1, DefaultIsLegible DEF load_or_default
<1>3. live \in Live /\ live = Settings(load_or_default(config))
  BY <1>2, SettingsAreLive DEF SettingsInit
<1>4. live = [live EXCEPT !.hide = live.hide] /\ live.workers \in 1..WORKER_MAX
  BY <1>3 DEF Live
<1>5. /\ draft = NoDraft /\ form_field = "Editor" /\ local_cwd = "." /\ batch = FALSE
      /\ policies = [default |-> live.overwrite, current |-> live.overwrite]
  BY Zenon DEF SettingsInit
<1>6. LiveIsSaved /\ FailureInventsNothing /\ unsaved \subseteq Live
  BY <1>3, <1>4 DEF LiveIsSaved, FailureInventsNothing, SettingsInit
<1>7. draft \in Drafts /\ form_field \in {Fields[i] : i \in 1..6}
  BY <1>5, NoDraftIsADraft
<1>8. local_cwd \in Folder
  BY <1>5, SettingsFacts, Zenon
<1>9. policies = [default |-> live.overwrite, current |-> policies.current] /\ policies.current = live.overwrite
  BY <1>5
<1> QED BY <1>1, <1>3, <1>6, <1>7, <1>8, <1>9 DEF SettingsIInv

LEMMA SettingsKeeps ==
  /\ SettingsIInv /\ [SettingsNext]_settingsVars => SettingsIInv'
  /\ SettingsIInv /\ [SettingsNext]_settingsVars => [BatchKeepsItsPolicy /\ FailureIsNotLive]_settingsVars
  /\ SettingsIInv => LiveIsSaved /\ FailureInventsNothing
<1>1. SettingsIInv /\ UNCHANGED settingsVars => SettingsIInv'
  BY DEF settingsVars, SettingsIInv, LiveIsSaved, FailureInventsNothing
<1>2. SettingsIInv /\ SettingsNext => SettingsKept
  BY RestartKeeps, SaveKeeps, FormKeysKeep, OutsideKeeps DEF SettingsNext
<1>3. SettingsIInv => LiveIsSaved /\ FailureInventsNothing
  BY DEF SettingsIInv
<1> QED BY <1>1, <1>2, <1>3 DEF SettingsKept

(* The settings in force are those the next start reads; after a save that *)
(* failed with the file begun it reads each as it was to be saved or at its *)
(* default, and the program goes on as it was; and a batch that is being   *)
(* asked about keeps its policy: save_settings, write_private, AppConfig   *)
(* and clear_scan_state, for any limit of workers and any texts.           *)
THEOREM SettingsTakeEffect == SettingsSpec => SettingsTakeEffectOnce
<1>1. SettingsSpec => []SettingsIInv
  BY SettingsStarts, SettingsKeeps, PTL DEF SettingsSpec
<1>2. SettingsSpec => /\ [](LiveIsSaved /\ FailureInventsNothing)
                      /\ [][BatchKeepsItsPolicy /\ FailureIsNotLive]_settingsVars
  BY <1>1, SettingsKeeps, PTL DEF SettingsSpec
<1> QED BY <1>2 DEF SettingsTakeEffectOnce

-----------------------------------------------------------------------------
(***************************************************************************)
(* The bookmarks, for any names, accounts and passwords, and any number of *)
(* sites. A file that a command has left, torn or whole, lists an account  *)
(* once and has its default first; a list on the screen lists an account   *)
(* once; and as long as nothing has failed the keyring follows the list.   *)
(***************************************************************************)

(* There is one entry for an account.                                      *)
OneEach(list) == \A i, j \in DOMAIN list : list[i].account = list[j].account => i = j

(* The lists of sites, with and without their passwords.                   *)
SiteLists == {list \in Seq(Form) : OneEach(list)}

Bare == {list \in SiteLists : \A i \in DOMAIN list : list[i].password = NoSecret}

(* A file that a command or a torn write of one has left.                  *)
SoundFile(cfg) == /\ cfg = [list |-> cfg.list, default |-> cfg.default]
                  /\ cfg.list \in Bare
                  /\ cfg.default = IF cfg.list = <<>> THEN 0 ELSE 1

BookmarksIInv ==
  /\ sites = Unreadable \/ SoundFile(sites)
  /\ bookmarks \in SiteLists
  /\ selected_bookmark \in Nat
  /\ keyring \in [Account -> Secret \cup {NoSecret}]
  /\ form \in Form
  /\ stale => faulty
  /\ StarMarksDefault /\ OneBookmarkPerAccount /\ ListIsOnDisk /\ PasswordsAreListed

LEMMA LoadIsSound ==
  BookmarksIInv => SoundFile(load_sites)
<1> SUFFICES ASSUME BookmarksIInv, sites = Unreadable PROVE SoundFile(NoSites)
  BY DEF BookmarksIInv, load_sites
<1>1. NoSites.list = <<>> /\ NoSites.default = 0 /\ NoSites = [list |-> NoSites.list, default |-> NoSites.default]
  BY DEF NoSites
<1>2. <<>> \in Seq(Form) /\ DOMAIN <<>> = {}
  OBVIOUS
<1>3. <<>> \in Bare
  BY <1>2 DEF Bare, SiteLists, OneEach
<1> QED BY <1>1, <1>3 DEF SoundFile

LEMMA FirstIsIn ==
  ASSUME NEW list \in Seq(Form), NEW P, P \subseteq DOMAIN list
  PROVE  /\ P = {} => FirstOf(P) = 0
         /\ P # {} => FirstOf(P) \in P /\ FirstOf(P) \in 1..Len(list)
<1>1. P \subseteq Nat /\ DOMAIN list = 1..Len(list)
  OBVIOUS
<1> QED BY <1>1, MinIsIn DEF FirstOf

(* A list without its passwords is the same in the rest.                   *)
LEMMA StrippedIsBare ==
  ASSUME NEW list \in SiteLists
  PROVE  /\ Stripped(list) \in Bare
         /\ Len(Stripped(list)) = Len(list) /\ DOMAIN Stripped(list) = DOMAIN list
         /\ Stripped(list) = <<>> <=> list = <<>>
         /\ \A i \in DOMAIN list : /\ Stripped(list)[i].account = list[i].account
                                   /\ Stripped(list)[i].name = list[i].name
                                   /\ list[i].password = NoSecret => Stripped(list)[i] = list[i]
         /\ list \in Bare => Stripped(list) = list
<1>1. list \in Seq(Form) /\ OneEach(list) /\ DOMAIN list = 1..Len(list) /\ Len(list) \in Nat
  BY DEF SiteLists
<1>2. \A i \in DOMAIN list : list[i] \in Form
  BY <1>1
<1>3. ASSUME NEW i \in DOMAIN list
      PROVE  /\ Stripped(list)[i] \in Form /\ Stripped(list)[i].password = NoSecret
             /\ Stripped(list)[i].account = list[i].account
             /\ Stripped(list)[i].name = list[i].name
             /\ list[i].password = NoSecret => Stripped(list)[i] = list[i]
  BY <1>2 DEF Stripped, Form
<1>4. Stripped(list) = [i \in 1..Len(list) |-> Stripped(list)[i]]
  BY <1>1 DEF Stripped
<1>5. Stripped(list) \in Seq(Form)
  BY <1>1, <1>3, <1>4
<1>6. Len(Stripped(list)) = Len(list) /\ DOMAIN Stripped(list) = DOMAIN list
  BY <1>1, <1>4, <1>5
<1>7. Stripped(list) \in Bare
  BY <1>1, <1>3, <1>5, <1>6 DEF Bare, SiteLists, OneEach
<1>8. Stripped(list) = <<>> <=> list = <<>>
  BY <1>1, <1>5, <1>6
<1>9. list \in Bare => Stripped(list) = list
  <2> SUFFICES ASSUME list \in Bare PROVE Stripped(list) = list
    OBVIOUS
  <2>1. \A i \in DOMAIN list : Stripped(list)[i] = list[i]
    BY <1>3 DEF Bare
  <2> QED BY <1>1, <1>5, <1>6, <2>1
<1> QED BY <1>3, <1>6, <1>7, <1>8, <1>9

LEMMA WithSiteIsListed ==
  ASSUME NEW cfg, SoundFile(cfg), NEW info \in Form
  PROVE  LET after == WithSite(cfg, info)
         IN  /\ after = [list |-> after.list, default |-> after.default]
             /\ after.list \in SiteLists /\ after.list # <<>> /\ after.default = 1
             /\ Accounts(after.list) = Accounts(cfg.list) \cup {info.account}
             /\ \A k \in DOMAIN after.list : after.list[k].password = NoSecret \/ after.list[k] = info
             /\ \A i \in DOMAIN cfg.list :
                  cfg.list[i].account = info.account \/ \E k \in DOMAIN after.list : after.list[k] = cfg.list[i]
<1> DEFINE list == cfg.list
           i == FirstOf(HasAccount(list, info.account))
           new == WithSite(cfg, info).list
<1>1. /\ list \in Seq(Form) /\ DOMAIN list = 1..Len(list) /\ Len(list) \in Nat
      /\ \A k \in DOMAIN list : list[k] \in Form /\ list[k].password = NoSecret
      /\ \A k, m \in DOMAIN list : list[k].account = list[m].account => k = m
      /\ cfg.default = IF list = <<>> THEN 0 ELSE 1
  BY DEF SoundFile, Bare, SiteLists, OneEach
<1>2. WithSite(cfg, info) = [list |-> IF i = 0 THEN Append(list, info) ELSE [list EXCEPT ![i] = info],
                             default |-> IF cfg.default # 0 THEN cfg.default ELSE IF i = 0 THEN 1 ELSE i]
  BY DEF WithSite
<1>3. HasAccount(list, info.account) \subseteq DOMAIN list
  BY DEF HasAccount
<1>4. /\ \A k \in HasAccount(list, info.account) : list[k].account = info.account
      /\ \A k \in DOMAIN list : list[k].account = info.account => k \in HasAccount(list, info.account)
  BY DEF HasAccount
<1>5. \/ i = 0 /\ \A k \in DOMAIN list : list[k].account # info.account
      \/ i \in 1..Len(list) /\ list[i].account = info.account
  BY <1>1, <1>3, <1>4, FirstIsIn
<1>6. list = <<>> => i = 0
  BY <1>1, <1>5
<1> HIDE DEF i, list
<1>7. CASE i = 0
  <2>1. \A k \in DOMAIN list : list[k].account # info.account
    BY <1>1, <1>5, <1>7
  <2>2. /\ new = Append(list, info) /\ WithSite(cfg, info).default = 1
        /\ WithSite(cfg, info) = [list |-> new, default |-> 1]
    BY <1>1, <1>2, <1>7
  <2>3. /\ new \in Seq(Form) /\ DOMAIN new = 1..(Len(list) + 1) /\ Len(new) = Len(list) + 1
        /\ new[Len(list) + 1] = info /\ \A k \in 1..Len(list) : new[k] = list[k]
    BY <1>1, <2>2
  <2> HIDE DEF new
  <2>4. OneEach(new)
    BY <1>1, <2>1, <2>3 DEF OneEach
  <2>5. Accounts(new) = Accounts(list) \cup {info.account}
    BY <1>1, <2>3 DEF Accounts
  <2>6. new # <<>>
    BY <1>1, <2>3
  <2>7. \A k \in DOMAIN new : new[k].password = NoSecret \/ new[k] = info
    BY <1>1, <2>3
  <2>8. \A k \in DOMAIN list : \E m \in DOMAIN new : new[m] = list[k]
    BY <1>1, <2>3
  <2> QED BY <2>2, <2>3, <2>4, <2>5, <2>6, <2>7, <2>8 DEF SiteLists, new, list
<1>8. CASE i # 0
  <2>1. i \in 1..Len(list) /\ list[i].account = info.account
    BY <1>5, <1>8
  <2>2. /\ new = [list EXCEPT ![i] = info] /\ WithSite(cfg, info).default = 1
        /\ WithSite(cfg, info) = [list |-> new, default |-> 1]
    BY <1>1, <1>2, <1>6, <1>8
  <2>3. /\ new \in Seq(Form) /\ DOMAIN new = 1..Len(list) /\ Len(new) = Len(list)
        /\ new[i] = info /\ \A k \in 1..Len(list) : k # i => new[k] = list[k]
    BY <1>1, <2>1, <2>2
  <2> HIDE DEF new
  <2>4. \A k \in DOMAIN list : new[k].account = list[k].account
    BY <1>1, <2>1, <2>3
  <2>5. OneEach(new)
    BY <1>1, <2>3, <2>4 DEF OneEach
  <2>6. Accounts(new) = Accounts(list) \cup {info.account}
    BY <1>1, <2>1, <2>3, <2>4 DEF Accounts
  <2>7. new # <<>>
    BY <1>1, <2>1, <2>3
  <2>8. \A k \in DOMAIN new : new[k].password = NoSecret \/ new[k] = info
    BY <1>1, <2>3
  <2>9. \A k \in DOMAIN list : list[k].account = info.account \/ \E m \in DOMAIN new : new[m] = list[k]
    BY <1>1, <2>1, <2>3
  <2> QED BY <2>2, <2>3, <2>5, <2>6, <2>7, <2>8, <2>9 DEF SiteLists, new, list
<1> QED BY <1>7, <1>8

LEMMA RemovedIsListed ==
  ASSUME NEW list \in Bare, NEW i \in 1..Len(list)
  PROVE  /\ RemoveAt(list, i) \in Bare
         /\ Accounts(RemoveAt(list, i)) = Accounts(list) \ {list[i].account}
         /\ RemoveAt(list, i) = <<>> <=> Len(list) = 1
         /\ \A k \in DOMAIN list : k # i => \E m \in DOMAIN RemoveAt(list, i) : RemoveAt(list, i)[m] = list[k]
<1> DEFINE new == RemoveAt(list, i)
<1>1. /\ list \in Seq(Form) /\ DOMAIN list = 1..Len(list) /\ Len(list) \in Nat
      /\ \A k \in DOMAIN list : list[k].password = NoSecret
      /\ \A k, m \in DOMAIN list : list[k].account = list[m].account => k = m
  BY DEF Bare, SiteLists, OneEach
<1>2. /\ new \in Seq(Form) /\ Len(new) = Len(list) - 1 /\ DOMAIN new = 1..(Len(list) - 1)
      /\ \A k \in 1..(i - 1) : new[k] = list[k]
      /\ \A k \in i..(Len(list) - 1) : new[k] = list[k + 1]
  <2>0. list \in Seq(Form) /\ i \in 1..Len(list)
    BY <1>1
  <2>1. /\ RemoveAt(list, i) \in Seq(Form) /\ Len(RemoveAt(list, i)) = Len(list) - 1
        /\ \A k \in 1..(i - 1) : RemoveAt(list, i)[k] = list[k]
        /\ \A k \in i..(Len(list) - 1) : RemoveAt(list, i)[k] = list[k + 1]
    BY <2>0, RemoveAtIndices
  <2> HIDE DEF new
  <2>2. new = RemoveAt(list, i)
    BY DEF new
  <2>3. DOMAIN new = 1..Len(new)
    BY <2>1, <2>2
  <2> QED BY <2>1, <2>2, <2>3
<1> HIDE DEF new
<1>3. \A k \in DOMAIN new : \/ k < i /\ k \in DOMAIN list /\ new[k] = list[k]
                            \/ k >= i /\ k + 1 \in DOMAIN list /\ new[k] = list[k + 1]
  BY <1>1, <1>2
<1>4. \A k \in DOMAIN list : k # i => \E m \in DOMAIN new : new[m] = list[k]
  <2> SUFFICES ASSUME NEW k \in DOMAIN list, k # i PROVE \E m \in DOMAIN new : new[m] = list[k]
    OBVIOUS
  <2>1. CASE k < i
    <3>1. k \in DOMAIN new /\ new[k] = list[k]
      BY <1>1, <1>2, <2>1
    <3> QED BY <3>1
  <2>2. CASE k > i
    <3>1. k - 1 \in DOMAIN new /\ new[k - 1] = list[k]
      <4>1. k \in Nat /\ k <= Len(list) /\ i \in Nat /\ i >= 1
        BY <1>1
      <4>2. k - 1 \in i..(Len(list) - 1) /\ k - 1 \in 1..(Len(list) - 1) /\ (k - 1) + 1 = k
        BY <1>1, <2>2, <4>1
      <4> QED BY <1>2, <4>2
    <3> QED BY <3>1
  <2> QED BY <1>1, <2>1, <2>2
<1>5. OneEach(new)
  <2> SUFFICES ASSUME NEW k \in DOMAIN new, NEW m \in DOMAIN new, new[k].account = new[m].account PROVE k = m
    BY DEF OneEach
  <2> QED BY <1>1, <1>2, <1>3
<1>6. \A k \in DOMAIN new : new[k].password = NoSecret
  BY <1>1, <1>3
<1>7. Accounts(new) = Accounts(list) \ {list[i].account}
  <2>1. \A k \in DOMAIN new : new[k].account \in Accounts(list) /\ new[k].account # list[i].account
    <3> SUFFICES ASSUME NEW k \in DOMAIN new
                 PROVE  new[k].account \in Accounts(list) /\ new[k].account # list[i].account
      OBVIOUS
    <3>1. PICK m \in DOMAIN list : m # i /\ new[k] = list[m]
      <4>1. CASE k < i /\ k \in DOMAIN list /\ new[k] = list[k]
        BY <4>1
      <4>2. CASE k >= i /\ k + 1 \in DOMAIN list /\ new[k] = list[k + 1]
        <5>1. k + 1 # i
          BY <1>2, <4>2
        <5> QED BY <4>2, <5>1
      <4> QED BY <1>3, <4>1, <4>2
    <3>2. new[k].account # list[i].account
      BY <1>1, <3>1
    <3> QED BY <3>1, <3>2 DEF Accounts
  <2>2. \A k \in DOMAIN list : list[k].account # list[i].account => list[k].account \in Accounts(new)
    BY <1>4 DEF Accounts
  <2>3. Accounts(new) \subseteq Accounts(list) \ {list[i].account}
    BY <2>1 DEF Accounts
  <2>4. Accounts(list) \ {list[i].account} \subseteq Accounts(new)
    BY <2>2 DEF Accounts
  <2> QED BY <2>3, <2>4
<1>8. new = <<>> <=> Len(list) = 1
  BY <1>1, <1>2
<1> QED BY <1>2, <1>4, <1>5, <1>6, <1>7, <1>8 DEF Bare, SiteLists, new

LEMMA SwappedIsListed ==
  ASSUME NEW list \in Bare, NEW i \in 1..Len(list)
  PROVE  /\ Swapped(list, i) \in Bare /\ Swapped(list, i) # <<>>
         /\ Accounts(Swapped(list, i)) = Accounts(list)
         /\ \A k \in DOMAIN list : \E m \in DOMAIN Swapped(list, i) : Swapped(list, i)[m] = list[k]
<1> DEFINE new == Swapped(list, i)
           Place(k) == IF k = i THEN 1 ELSE IF k = 1 THEN i ELSE k
<1>1. /\ list \in Seq(Form) /\ DOMAIN list = 1..Len(list) /\ Len(list) \in Nat /\ 1 \in 1..Len(list)
      /\ \A k \in DOMAIN list : list[k].password = NoSecret
      /\ \A k, m \in DOMAIN list : list[k].account = list[m].account => k = m
  BY DEF Bare, SiteLists, OneEach
<1>2. /\ new \in Seq(Form) /\ Len(new) = Len(list) /\ DOMAIN new = 1..Len(list)
      /\ \A k \in 1..Len(list) : Place(k) \in 1..Len(list) /\ Place(Place(k)) = k /\ new[k] = list[Place(k)]
  BY <1>1 DEF Swapped
<1> HIDE DEF new, Place
<1>3. OneEach(new)
  <2> SUFFICES ASSUME NEW k \in 1..Len(list), NEW m \in 1..Len(list), new[k].account = new[m].account PROVE k = m
    BY <1>2 DEF OneEach
  <2>1. Place(k) = Place(m)
    BY <1>1, <1>2
  <2> QED BY <1>2, <2>1
<1>4. \A k \in DOMAIN list : \E m \in DOMAIN new : new[m] = list[k]
  BY <1>1, <1>2
<1>5. \A k \in DOMAIN new : \E m \in DOMAIN list : new[k] = list[m]
  BY <1>1, <1>2
<1>6. Accounts(new) = Accounts(list)
  BY <1>4, <1>5 DEF Accounts
<1>7. \A k \in DOMAIN new : new[k].password = NoSecret
  BY <1>1, <1>5
<1>8. new # <<>>
  BY <1>1, <1>2
<1> QED BY <1>2, <1>3, <1>4, <1>6, <1>7, <1>8 DEF Bare, SiteLists, new

LEMMA PrefixIsListed ==
  ASSUME NEW list \in SiteLists, NEW n \in 1..Len(list)
  PROVE  SubSeq(list, 1, n) \in SiteLists /\ SubSeq(list, 1, n) # <<>>
<1>1. list \in Seq(Form) /\ DOMAIN list = 1..Len(list) /\ Len(list) \in Nat
  BY DEF SiteLists
<1>2. /\ SubSeq(list, 1, n) \in Seq(Form) /\ Len(SubSeq(list, 1, n)) = n
      /\ DOMAIN SubSeq(list, 1, n) = 1..n
      /\ \A k \in 1..n : k \in 1..Len(list) /\ SubSeq(list, 1, n)[k] = list[k]
  BY <1>1
<1>3. OneEach(SubSeq(list, 1, n))
  BY <1>1, <1>2 DEF SiteLists, OneEach
<1> QED BY <1>2, <1>3 DEF SiteLists

(* The two ways a write of a list ends.                                    *)
Wrote(list) == /\ sites' # Unreadable /\ SoundFile(sites') /\ sites'.list = Stripped(list)
               /\ bookmarks' = list /\ selected_bookmark' = 0
               /\ stale' = FALSE

NotWritten == /\ sites' = Unreadable \/ SoundFile(sites')
              /\ stale' = TRUE
              /\ UNCHANGED <<bookmarks, selected_bookmark>>

LEMMA WriteIsSound ==
  ASSUME BookmarksIInv, NEW list \in SiteLists, NEW d, d = IF list = <<>> THEN 0 ELSE 1,
         Write([list |-> list, default |-> d])
  PROVE  Wrote(list) \/ NotWritten
<1> DEFINE cfg == [list |-> list, default |-> d]
<1>1. cfg.list = list /\ cfg.default = d
  OBVIOUS
<1>2. CASE sites' = [cfg EXCEPT !.list = Stripped(@)] /\ SetBookmarks(cfg.list, 0) /\ stale' = FALSE
  <2>1. sites' = [list |-> Stripped(list), default |-> d]
    BY <1>2
  <2>2. Stripped(list) \in Bare /\ (Stripped(list) = <<>> <=> list = <<>>) /\ Stripped(list) \in Seq(Form)
    BY StrippedIsBare DEF Bare, SiteLists
  <2>3. sites' # Unreadable
    <3>1. d \in {0, 1}
      OBVIOUS
    <3>2. sites' \in [list : Seq(Form), default : {0, 1}]
      BY <2>1, <2>2, <3>1
    <3> QED BY <3>2, BookmarksAssumption
  <2>4. SoundFile(sites') /\ sites'.list = Stripped(list)
    BY <2>1, <2>2 DEF SoundFile
  <2> QED BY <1>2, <2>3, <2>4 DEF Wrote, SetBookmarks
<1>3. CASE sites' \in TornSites(cfg) /\ stale' = TRUE /\ UNCHANGED <<bookmarks, selected_bookmark>>
  <2>1. sites' \in TornSites(cfg)
    BY <1>3
  <2>2. CASE sites' = Unreadable \/ sites' = sites
    BY <1>3, <2>2 DEF NotWritten, BookmarksIInv, SoundFile
  <2>3. CASE \E n \in 1..(Len(list) - 1) : sites' = [list |-> Stripped(SubSeq(list, 1, n)), default |-> d]
    <3>1. PICK n \in 1..(Len(list) - 1) : sites' = [list |-> Stripped(SubSeq(list, 1, n)), default |-> d]
      BY <2>3
    <3>2. list \in Seq(Form) /\ Len(list) \in Nat /\ n \in 1..Len(list)
      BY DEF SiteLists
    <3>3. SubSeq(list, 1, n) \in SiteLists /\ SubSeq(list, 1, n) # <<>>
      BY <3>2, PrefixIsListed
    <3>4. Stripped(SubSeq(list, 1, n)) \in Bare /\ Stripped(SubSeq(list, 1, n)) # <<>>
      BY <3>3, StrippedIsBare
    <3>5. d = 1
      BY <3>2
    <3>6. SoundFile(sites')
      BY <3>1, <3>4, <3>5 DEF SoundFile
    <3> QED BY <1>3, <3>6 DEF NotWritten
  <2>4. \/ sites' = Unreadable \/ sites' = sites
        \/ \E n \in 1..(Len(list) - 1) : sites' = [list |-> Stripped(SubSeq(list, 1, n)), default |-> d]
    BY <1>1, <2>1 DEF TornSites
  <2> QED BY <2>2, <2>3, <2>4
<1> QED BY <1>2, <1>3 DEF Write

BookmarksKept == BookmarksIInv' /\ OthersAreKept

LEMMA NotWrittenKeeps ==
  ASSUME BookmarksIInv, NotWritten, faulty' = TRUE, form' \in Form, keyring' \in [Account -> Secret \cup {NoSecret}]
  PROVE  BookmarksKept
BY DEF BookmarksIInv, BookmarksKept, NotWritten, OthersAreKept, StarMarksDefault, OneBookmarkPerAccount,
       ListIsOnDisk, PasswordsAreListed, SoundFile

(* What the keyring must say of a list.                                    *)
InKeyring(ring, list) ==
  /\ \A a \in Account : ring[a] # NoSecret => a \in Accounts(list)
  /\ \A i \in DOMAIN list : list[i].password # NoSecret => ring[list[i].account] = list[i].password

LEMMA WroteKeeps ==
  ASSUME BookmarksIInv, NEW list \in SiteLists, Wrote(list), form' \in Form,
         keyring' \in [Account -> Secret \cup {NoSecret}], ~faulty' => InKeyring(keyring', list), OthersAreKept
  PROVE  BookmarksKept
<1>1. OneBookmarkPerAccount'
  BY DEF Wrote, SiteLists, OneEach, OneBookmarkPerAccount
<1>2. StarMarksDefault'
  BY DEF Wrote, SoundFile, StarMarksDefault
<1>3. ListIsOnDisk'
  BY DEF Wrote, ListIsOnDisk, load_sites
<1>4. PasswordsAreListed'
  BY DEF Wrote, PasswordsAreListed, InKeyring
<1> QED BY <1>1, <1>2, <1>3, <1>4 DEF BookmarksIInv, BookmarksKept, Wrote

LEMMA FileHasAccounts ==
  ASSUME BookmarksIInv, ~faulty
  PROVE  \A a \in Account : keyring[a] # NoSecret => a \in Accounts(load_sites.list)
<1>1. ~stale /\ Stripped(bookmarks) = load_sites.list /\ bookmarks \in SiteLists
  BY DEF BookmarksIInv, ListIsOnDisk
<1>2. Accounts(Stripped(bookmarks)) = Accounts(bookmarks)
  BY <1>1, StrippedIsBare DEF Accounts
<1>3. \A a \in Account : keyring[a] # NoSecret => a \in Accounts(bookmarks)
  BY DEF BookmarksIInv, PasswordsAreListed
<1> QED BY <1>1, <1>2, <1>3

LEMMA OthersStay ==
  ASSUME BookmarksIInv, NEW list \in SiteLists, Wrote(list),
         \A i \in DOMAIN load_sites.list :
           \/ \E k \in DOMAIN list : list[k] = load_sites.list[i]
           \/ load_sites.list[i].account = form.account
           \/ load_sites.list[i].name = prompt_target
  PROVE  OthersAreKept
<1> SUFFICES ASSUME sites # Unreadable, NEW i \in DOMAIN sites.list
             PROVE  \/ \E k \in DOMAIN sites'.list : sites'.list[k] = sites.list[i]
                    \/ sites.list[i].account = form.account
                    \/ sites.list[i].name = prompt_target
  BY DEF OthersAreKept
<1>1. load_sites = sites /\ sites.list \in Bare
  BY DEF load_sites, BookmarksIInv, SoundFile
<1>2. sites.list[i].password = NoSecret
  BY <1>1 DEF Bare
<1>3. CASE \E k \in DOMAIN list : list[k] = sites.list[i]
  <2>1. PICK k \in DOMAIN list : list[k] = sites.list[i]
    BY <1>3
  <2>2. k \in DOMAIN Stripped(list) /\ Stripped(list)[k] = list[k]
    BY <1>2, <2>1, StrippedIsBare
  <2> QED BY <2>1, <2>2 DEF Wrote
<1> QED BY <1>1, <1>3

LEMMA SaveSiteKeeps ==
  BookmarksIInv /\ save_quick_connect_bookmark => BookmarksKept
<1> SUFFICES ASSUME BookmarksIInv, save_quick_connect_bookmark PROVE BookmarksKept
  OBVIOUS
<1> DEFINE cfg == load_sites
           after == WithSite(cfg, form)
<1>1. /\ form' = form /\ form \in Form /\ form.account \in Account /\ form.password \in Secret \cup {NoSecret}
      /\ keyring \in [Account -> Secret \cup {NoSecret}] /\ Remembered \in [Account -> Secret \cup {NoSecret}]
  <2>1. form' = form /\ form \in Form /\ keyring \in [Account -> Secret \cup {NoSecret}]
    BY DEF save_quick_connect_bookmark, BookmarksIInv
  <2>2. form.account \in Account /\ form.password \in Secret \cup {NoSecret}
    BY <2>1 DEF Form
  <2> QED BY <2>1, <2>2 DEF Remembered
<1>2. CASE SecretFails
  <2>1. /\ UNCHANGED <<sites, bookmarks, selected_bookmark, stale>> /\ faulty' = TRUE
        /\ keyring' \in [Account -> Secret \cup {NoSecret}]
    BY <1>1, <1>2 DEF SecretFails
  <2>2. OthersAreKept
    BY <2>1 DEF OthersAreKept
  <2>3. ListIsOnDisk' /\ StarMarksDefault' /\ OneBookmarkPerAccount' /\ PasswordsAreListed'
    BY <2>1 DEF BookmarksIInv, ListIsOnDisk, StarMarksDefault, OneBookmarkPerAccount, PasswordsAreListed, load_sites
  <2> QED BY <1>1, <2>1, <2>2, <2>3 DEF BookmarksIInv, BookmarksKept
<1>3. CASE keyring' = (IF form.password = NoSecret THEN keyring ELSE Remembered) /\ Write(after) /\ Faults
  <2>1. SoundFile(cfg)
    BY LoadIsSound
  <2>2. /\ after = [list |-> after.list, default |-> after.default]
        /\ after.list \in SiteLists /\ after.list # <<>> /\ after.default = 1
        /\ Accounts(after.list) = Accounts(cfg.list) \cup {form.account}
        /\ \A k \in DOMAIN after.list : after.list[k].password = NoSecret \/ after.list[k] = form
        /\ \A i \in DOMAIN cfg.list :
             cfg.list[i].account = form.account \/ \E k \in DOMAIN after.list : after.list[k] = cfg.list[i]
    BY <1>1, <2>1, WithSiteIsListed
  <2> HIDE DEF cfg, after
  <2>3. keyring' \in [Account -> Secret \cup {NoSecret}]
    BY <1>1, <1>3
  <2>4. Wrote(after.list) \/ NotWritten
    <3>1. Write([list |-> after.list, default |-> after.default])
      BY <1>3, <2>2
    <3> QED BY <2>2, <3>1, WriteIsSound
  <2>5. CASE NotWritten
    BY <1>1, <1>3, <2>3, <2>5, NotWrittenKeeps DEF Faults, NotWritten
  <2>6. CASE Wrote(after.list)
    <3>1. ~faulty' => InKeyring(keyring', after.list)
      <4> SUFFICES ASSUME ~faulty' PROVE InKeyring(keyring', after.list)
        OBVIOUS
      <4>1. ~faulty
        BY <1>3 DEF Faults
      <4>2. \A a \in Account : keyring[a] # NoSecret => a \in Accounts(cfg.list)
        BY <4>1, FileHasAccounts DEF cfg
      <4>3. \A a \in Account : a # form.account => keyring'[a] = keyring[a]
        BY <1>1, <1>3 DEF Remembered
      <4>4. form.password # NoSecret => keyring'[form.account] = form.password
        BY <1>1, <1>3 DEF Remembered
      <4> QED BY <2>2, <4>2, <4>3, <4>4 DEF InKeyring
    <3>2. OthersAreKept
      BY <2>2, <2>6, OthersStay DEF cfg
    <3> QED BY <1>1, <2>2, <2>3, <2>6, <3>1, <3>2, WroteKeeps
  <2> QED BY <2>4, <2>5, <2>6
<1> QED BY <1>2, <1>3 DEF save_quick_connect_bookmark

LEMMA DeleteSiteKeeps ==
  BookmarksIInv /\ delete_bookmark_named => BookmarksKept
<1> SUFFICES ASSUME BookmarksIInv, delete_bookmark_named PROVE BookmarksKept
  OBVIOUS
<1> DEFINE cfg == load_sites
           i == FirstOf(HasName(cfg.list, prompt_target))
<1>1. SoundFile(cfg) /\ cfg.list \in Bare /\ cfg.list \in Seq(Form) /\ form' = form /\ form \in Form
      /\ keyring \in [Account -> Secret \cup {NoSecret}]
  BY LoadIsSound DEF delete_bookmark_named, BookmarksIInv, SoundFile, Bare, SiteLists
<1>2. HasName(cfg.list, prompt_target) \subseteq DOMAIN cfg.list
  BY DEF HasName
<1>3. \/ i = 0
      \/ i \in 1..Len(cfg.list) /\ cfg.list[i].name = prompt_target
  BY <1>1, <1>2, FirstIsIn DEF HasName
<1>4. CASE i = 0
  <2>1. UNCHANGED <<sites, bookmarks, selected_bookmark, keyring, stale, faulty>>
    BY <1>4 DEF delete_bookmark_named
  <2>2. OthersAreKept
    BY <2>1 DEF OthersAreKept
  <2>3. ListIsOnDisk' /\ StarMarksDefault' /\ OneBookmarkPerAccount' /\ PasswordsAreListed'
    BY <2>1 DEF BookmarksIInv, ListIsOnDisk, StarMarksDefault, OneBookmarkPerAccount, PasswordsAreListed, load_sites
  <2> QED BY <1>1, <2>1, <2>2, <2>3 DEF BookmarksIInv, BookmarksKept
<1>5. CASE i # 0
  <2>1. i \in 1..Len(cfg.list) /\ cfg.list[i].name = prompt_target /\ Len(cfg.list) \in Nat
    BY <1>1, <1>3, <1>5
  <2>2. /\ Write([list |-> RemoveAt(cfg.list, i), default |-> DefaultAfter(cfg, i)])
        /\ delete_password(cfg.list[i])
    BY <1>5 DEF delete_bookmark_named
  <2> HIDE DEF cfg, i
  <2> DEFINE new == RemoveAt(cfg.list, i)
             site == cfg.list[i]
  <2>3. /\ new \in Bare /\ Accounts(new) = Accounts(cfg.list) \ {site.account}
        /\ new = <<>> <=> Len(cfg.list) = 1
        /\ \A k \in DOMAIN cfg.list : k # i => \E m \in DOMAIN new : new[m] = cfg.list[k]
    BY <1>1, <2>1, RemovedIsListed
  <2>4. new \in SiteLists /\ \A k \in DOMAIN new : new[k].password = NoSecret
    BY <2>3 DEF Bare
  <2>5. DefaultAfter(cfg, i) = IF new = <<>> THEN 0 ELSE 1
    <3>1. cfg.default = 1
      BY <1>1, <2>1 DEF SoundFile
    <3>2. Len(cfg.list) # 1 => i = 1 \/ ~(cfg.default > i)
      BY <2>1, <3>1
    <3>3. DefaultAfter(cfg, i) = IF Len(cfg.list) = 1 THEN 0 ELSE 1
      BY <2>1, <3>1, <3>2 DEF DefaultAfter
    <3> QED BY <2>3, <3>3
  <2>6. site \in Form /\ site.account \in Account
    <3>1. site \in Form
      BY <1>1, <2>1
    <3> QED BY <3>1 DEF Form
  <2> HIDE DEF new, site
  <2>7. \/ keyring' = [keyring EXCEPT ![site.account] = NoSecret] /\ Faults
        \/ keyring' = keyring /\ faulty' = TRUE
    BY <2>2 DEF delete_password, site
  <2>8. keyring' \in [Account -> Secret \cup {NoSecret}] /\ (stale' => faulty' = TRUE)
    BY <1>1, <2>6, <2>7 DEF Faults
  <2>9. Wrote(new) \/ NotWritten
    BY <2>2, <2>4, <2>5, WriteIsSound DEF new
  <2>10. CASE NotWritten
    BY <1>1, <2>8, <2>10, NotWrittenKeeps DEF NotWritten
  <2>11. CASE Wrote(new)
    <3>1. ~faulty' => InKeyring(keyring', new)
      <4> SUFFICES ASSUME ~faulty' PROVE InKeyring(keyring', new)
        OBVIOUS
      <4>1. ~faulty /\ keyring' = [keyring EXCEPT ![site.account] = NoSecret]
        BY <2>7 DEF Faults
      <4>2. \A a \in Account : keyring[a] # NoSecret => a \in Accounts(cfg.list)
        BY <4>1, FileHasAccounts DEF cfg
      <4> QED BY <1>1, <2>3, <2>4, <2>6, <4>1, <4>2 DEF InKeyring
    <3>2. OthersAreKept
      BY <2>1, <2>3, <2>4, <2>11, OthersStay DEF cfg
    <3> QED BY <1>1, <2>4, <2>8, <2>11, <3>1, <3>2, WroteKeeps
  <2> QED BY <2>9, <2>10, <2>11
<1> QED BY <1>4, <1>5

LEMMA DefaultSiteKeeps ==
  BookmarksIInv /\ set_default_bookmark => BookmarksKept
<1> SUFFICES ASSUME BookmarksIInv, set_default_bookmark PROVE BookmarksKept
  OBVIOUS
<1> DEFINE cfg == load_sites
           new == Swapped(cfg.list, selected_bookmark + 1)
<1>1. SoundFile(cfg) /\ cfg.list \in Bare /\ cfg.list \in Seq(Form) /\ form' = form /\ form \in Form
      /\ keyring \in [Account -> Secret \cup {NoSecret}] /\ keyring' = keyring
  BY LoadIsSound DEF set_default_bookmark, BookmarksIInv, SoundFile, Bare, SiteLists
<1>2. selected_bookmark + 1 \in 1..Len(cfg.list)
  BY <1>1 DEF set_default_bookmark, BookmarksIInv
<1>3. Write([list |-> new, default |-> 1]) /\ Faults
  BY DEF set_default_bookmark
<1> HIDE DEF cfg
<1>4. /\ new \in Bare /\ new # <<>> /\ Accounts(new) = Accounts(cfg.list)
      /\ \A k \in DOMAIN cfg.list : \E m \in DOMAIN new : new[m] = cfg.list[k]
  BY <1>1, <1>2, SwappedIsListed
<1>5. new \in SiteLists /\ \A k \in DOMAIN new : new[k].password = NoSecret
  BY <1>4 DEF Bare
<1> HIDE DEF new
<1>6. Wrote(new) \/ NotWritten
  BY <1>3, <1>4, <1>5, WriteIsSound
<1>7. CASE NotWritten
  BY <1>1, <1>3, <1>7, NotWrittenKeeps DEF NotWritten, Faults
<1>8. CASE Wrote(new)
  <2>1. ~faulty' => InKeyring(keyring', new)
    BY <1>1, <1>3, <1>4, <1>5, FileHasAccounts DEF InKeyring, Faults, cfg
  <2>2. OthersAreKept
    BY <1>4, <1>5, <1>8, OthersStay DEF cfg
  <2> QED BY <1>1, <1>5, <1>8, <2>1, <2>2, WroteKeeps
<1> QED BY <1>6, <1>7, <1>8

LEMMA HydratedIsAForm ==
  ASSUME BookmarksIInv, NEW site \in Form, NEW f \in Hydrated(site)
  PROVE  f \in Form
<1>1. site.account \in Account /\ keyring[site.account] \in Secret \cup {NoSecret}
  BY DEF Form, BookmarksIInv
<1> QED BY <1>1 DEF Hydrated, Form

(* Nothing is written.                                                     *)
LEMMA ReadingKeeps ==
  ASSUME BookmarksIInv, UNCHANGED <<sites, bookmarks, keyring, stale, faulty>>, form' \in Form,
         selected_bookmark' \in Nat, selected_bookmark' = 0 \/ selected_bookmark' < Len(bookmarks)
  PROVE  BookmarksKept
<1>1. OthersAreKept
  BY DEF OthersAreKept
<1>2. ListIsOnDisk'
  BY DEF BookmarksIInv, ListIsOnDisk, load_sites
<1>3. StarMarksDefault' /\ OneBookmarkPerAccount' /\ PasswordsAreListed'
  BY DEF BookmarksIInv, StarMarksDefault, OneBookmarkPerAccount, PasswordsAreListed
<1> QED BY <1>1, <1>2, <1>3 DEF BookmarksIInv, BookmarksKept

LEMMA ListKeysKeep ==
  BookmarksIInv /\ (EditForm \/ SelectBookmark \/ HydrateForm \/ AskDelete \/ Decline) => BookmarksKept
<1> SUFFICES ASSUME BookmarksIInv, EditForm \/ SelectBookmark \/ HydrateForm \/ AskDelete \/ Decline
             PROVE  BookmarksKept
  OBVIOUS
<1>1. /\ bookmarks \in Seq(Form) /\ Len(bookmarks) \in Nat /\ form \in Form
      /\ selected_bookmark \in Nat /\ (selected_bookmark = 0 \/ selected_bookmark < Len(bookmarks))
  BY DEF BookmarksIInv, ListIsOnDisk, SiteLists
<1>2. UNCHANGED <<sites, bookmarks, keyring, stale, faulty>>
  BY DEF EditForm, SelectBookmark, HydrateForm, AskDelete, Decline
<1>3. CASE SelectBookmark
  BY <1>1, <1>2, <1>3, ReadingKeeps DEF SelectBookmark
<1>4. CASE HydrateForm
  <2>1. form' \in Form
    BY <1>1, <1>4, HydratedIsAForm DEF HydrateForm
  <2> QED BY <1>1, <1>2, <1>4, <2>1, ReadingKeeps DEF HydrateForm
<1>5. CASE EditForm \/ AskDelete \/ Decline
  BY <1>1, <1>2, <1>5, ReadingKeeps DEF EditForm, AskDelete, Decline
<1> QED BY <1>3, <1>4, <1>5

LEMMA RestartSitesKeeps ==
  BookmarksIInv /\ RestartSites => BookmarksKept
<1> SUFFICES ASSUME BookmarksIInv, RestartSites PROVE BookmarksKept
  OBVIOUS
<1> DEFINE cfg == load_sites
<1>1. SoundFile(cfg) /\ cfg.list \in Bare /\ cfg.list \in SiteLists /\ cfg.list \in Seq(Form)
  BY LoadIsSound DEF SoundFile, Bare, SiteLists
<1>2. UNCHANGED <<sites, keyring, faulty>> /\ stale' = FALSE
  BY DEF RestartSites, StartSites
<1>3. bookmarks' = cfg.list /\ selected_bookmark' = 0 /\ form' \in Form
  <2>1. CASE cfg.list = <<>>
    BY <2>1 DEF RestartSites, StartSites, SetBookmarks
  <2>2. CASE cfg.list # <<>>
    <3>1. cfg.default = 1 /\ 1 \in 1..Len(cfg.list) /\ Len(cfg.list) \in Nat
      BY <1>1, <2>2 DEF SoundFile
    <3>2. bookmarks' = cfg.list /\ selected_bookmark' = 0 /\ form' \in Hydrated(cfg.list[1])
      BY <2>2, <3>1 DEF RestartSites, StartSites, SetBookmarks
    <3> QED BY <1>1, <3>1, <3>2, HydratedIsAForm
  <2> QED BY <2>1, <2>2
<1>4. OthersAreKept
  BY <1>2 DEF OthersAreKept
<1>5. ListIsOnDisk'
  BY <1>1, <1>2, <1>3, StrippedIsBare DEF ListIsOnDisk, load_sites
<1>6. OneBookmarkPerAccount'
  BY <1>1, <1>3 DEF SiteLists, OneEach, OneBookmarkPerAccount
<1>7. PasswordsAreListed'
  BY <1>1, <1>2, <1>3, FileHasAccounts DEF PasswordsAreListed, Bare
<1>8. StarMarksDefault'
  BY <1>2 DEF BookmarksIInv, StarMarksDefault
<1> QED BY <1>1, <1>2, <1>3, <1>4, <1>5, <1>6, <1>7, <1>8 DEF BookmarksIInv, BookmarksKept

LEMMA BookmarksStart == BookmarksInit => BookmarksIInv
<1> SUFFICES ASSUME BookmarksInit PROVE BookmarksIInv
  OBVIOUS
<1>1. /\ sites = NoSites /\ bookmarks = <<>> /\ selected_bookmark = 0 /\ keyring = [a \in Account |-> NoSecret]
      /\ form \in Form /\ stale = FALSE
  BY DEF BookmarksInit
<1>2. <<>> \in Seq(Form) /\ DOMAIN <<>> = {} /\ NoSites.list = <<>> /\ NoSites.default = 0
  BY DEF NoSites
<1>3. <<>> \in Bare /\ <<>> \in SiteLists
  BY <1>2 DEF Bare, SiteLists, OneEach
<1>4. SoundFile(NoSites)
  BY <1>2, <1>3 DEF SoundFile, NoSites
<1>5. load_sites.list = <<>> /\ Stripped(<<>>) = <<>>
  BY <1>1, <1>2, <1>3, StrippedIsBare DEF load_sites
<1>6. StarMarksDefault /\ OneBookmarkPerAccount /\ ListIsOnDisk /\ PasswordsAreListed
  BY <1>1, <1>2, <1>5 DEF StarMarksDefault, OneBookmarkPerAccount, ListIsOnDisk, PasswordsAreListed
<1> QED BY <1>1, <1>3, <1>4, <1>6 DEF BookmarksIInv

LEMMA BookmarksKeep ==
  /\ BookmarksIInv /\ [BookmarksNext]_bookmarkVars => BookmarksIInv'
  /\ BookmarksIInv /\ [BookmarksNext]_bookmarkVars => [OthersAreKept]_bookmarkVars
  /\ BookmarksIInv => StarMarksDefault /\ OneBookmarkPerAccount /\ ListIsOnDisk /\ PasswordsAreListed
<1>1. BookmarksIInv /\ UNCHANGED bookmarkVars => BookmarksIInv'
  BY DEF bookmarkVars, BookmarksIInv, StarMarksDefault, OneBookmarkPerAccount, ListIsOnDisk, PasswordsAreListed,
         load_sites
<1>2. BookmarksIInv /\ BookmarksNext => BookmarksKept
  BY RestartSitesKeeps, SaveSiteKeeps, DeleteSiteKeeps, DefaultSiteKeeps, ListKeysKeep DEF BookmarksNext
<1>3. BookmarksIInv => StarMarksDefault /\ OneBookmarkPerAccount /\ ListIsOnDisk /\ PasswordsAreListed
  BY DEF BookmarksIInv
<1> QED BY <1>1, <1>2, <1>3 DEF BookmarksKept

(* List, file and keyring say the same of the bookmarks and no command     *)
(* loses another site, for any labels, accounts and number of sites:       *)
(* bookmarks.rs over site_manager.rs and secrets.rs.                       *)
THEOREM BookmarksStay == BookmarksSpec => BookmarksAreKept
<1>1. BookmarksSpec => []BookmarksIInv
  BY BookmarksStart, BookmarksKeep, PTL DEF BookmarksSpec
<1>2. BookmarksSpec => [](StarMarksDefault /\ OneBookmarkPerAccount /\ ListIsOnDisk /\ PasswordsAreListed)
                       /\ [][OthersAreKept]_bookmarkVars
  BY <1>1, BookmarksKeep, PTL DEF BookmarksSpec
<1> QED BY <1>2 DEF BookmarksAreKept

-----------------------------------------------------------------------------
(***************************************************************************)
(* The themes, for any number of desktop themes and colours. Picker and    *)
(* editor remember the theme there was before them.                        *)
(***************************************************************************)

(* A followed or named theme starts from the colours of a theme there was. *)
Grounded(theme) == /\ theme.choice = "named" => theme.base = MaxDesktop + 1
                   /\ theme.choice = "follow" => theme.base # 0

(* Both the picker and the editor remember the theme there was before the  *)
(* dialog; an editor over the picker need not, and its snapshot is not     *)
(* what CloseTheme restores.                                               *)
ThemeIInv ==
  /\ painted \in Palette /\ Grounded(painted) /\ kept \in Palette /\ Grounded(kept)
  /\ theme_files \in [Target -> Palette \cup {NoTheme}]
  /\ desktop \in 0..MaxDesktop
  /\ theme_picker \in ThemePicker \cup {NoTheme}
  /\ theme_editor \in ThemeEditor \cup {NoTheme}
  /\ theme_picker # NoTheme => theme_picker.snapshot = palette_from_theme(kept)
  /\ theme_picker = NoTheme /\ theme_editor # NoTheme => theme_editor.snapshot = palette_from_theme(kept)
  /\ theme_editor # NoTheme => /\ Grounded(theme_editor.snapshot)
                               /\ palette_from_theme(theme_editor.snapshot) = theme_editor.snapshot
  /\ PreviewIsTemporary /\ PreviewIsSaved

LEMMA ThemeBounds ==
  MaxDesktop \in Nat /\ MaxTint \in Nat
BY ThemeAssumption

LEMMA PaletteMade ==
  /\ \A c \in Choice, b \in 0..(MaxDesktop + 1), t \in 0..MaxTint, l \in BOOLEAN :
       [choice |-> c, base |-> b, tint |-> t, labels |-> l] \in Palette
  /\ \A p \in Palette, l \in BOOLEAN : [p EXCEPT !.labels = l] \in Palette
  /\ \A p \in Palette : p.labels = FALSE => palette_from_theme(p) = p
  /\ "custom" \in Choice /\ "follow" \in Choice /\ "named" \in Choice
  /\ 0 \in 0..(MaxDesktop + 1) /\ 0 \in 0..MaxTint /\ MaxTint \in 0..MaxTint
BY ThemeBounds DEF Palette, Choice, palette_from_theme

LEMMA PaletteFacts ==
  /\ Builtin \in Palette /\ Grounded(Builtin) /\ palette_from_theme(Builtin) = Builtin
  /\ \A p \in Palette, t \in 0..MaxTint : LET q == [p EXCEPT !.tint = t]
                                         IN  q \in Palette /\ (Grounded(p) => Grounded(q))
                                             /\ (palette_from_theme(p) = p => palette_from_theme(q) = q)
  /\ \A p \in Palette : render_yaml(p) \in Palette
<1>1. Builtin \in Palette /\ Grounded(Builtin) /\ palette_from_theme(Builtin) = Builtin
  <2>1. Builtin \in Palette
    BY PaletteMade, Zenon DEF Builtin
  <2>2. Builtin.labels = FALSE /\ Builtin.choice = "custom"
    BY DEF Builtin
  <2>3. Grounded(Builtin)
    BY <2>2 DEF Grounded
  <2> QED BY <2>1, <2>2, <2>3, PaletteMade, Zenon
<1>2. ASSUME NEW p \in Palette, NEW t \in 0..MaxTint
      PROVE  LET q == [p EXCEPT !.tint = t]
             IN  q \in Palette /\ (Grounded(p) => Grounded(q))
                 /\ (palette_from_theme(p) = p => palette_from_theme(q) = q)
  BY ThemeBounds DEF Palette, Choice, Grounded, palette_from_theme
<1>3. \A p \in Palette : render_yaml(p) \in Palette
  <2> SUFFICES ASSUME NEW p \in Palette, p.choice # "custom" PROVE [p EXCEPT !.base = 0, !.labels = FALSE] \in Palette
    BY DEF render_yaml
  <2>1. [p EXCEPT !.base = 0] \in Palette
    BY ThemeBounds DEF Palette
  <2>2. [[p EXCEPT !.base = 0] EXCEPT !.labels = FALSE] \in Palette
    BY <2>1, PaletteMade, Zenon
  <2> QED BY <2>2
<1> QED BY <1>1, <1>2, <1>3

(* What a palette paints, and the palette of what is painted.              *)
LEMMA PaintedFacts ==
  ASSUME NEW p \in Palette
  PROVE  /\ apply_palette(p) \in Palette /\ palette_from_theme(p) \in Palette
         /\ palette_from_theme(p) = apply_palette(p)
         /\ palette_from_theme(apply_palette(p)) = apply_palette(p)
         /\ Grounded(p) => Grounded(apply_palette(p))
BY DEF Palette, apply_palette, palette_from_theme, Grounded

LEMMA LoadedFacts ==
  ASSUME desktop \in 0..MaxDesktop
  PROVE  /\ \A c \in Choice : CanLoad(c) => LET q == Linked(c, load_colors(c))
                                           IN  q \in Palette /\ Grounded(q) /\ palette_from_theme(q) = q
         /\ \A p \in Palette : finish_palette(p) \in Palette /\ Grounded(finish_palette(p))
         /\ \A files \in [Target -> Palette \cup {NoTheme}] :
              load_resolved(files) \in Palette /\ Grounded(load_resolved(files))
<1>1. MaxDesktop \in Nat /\ \A c \in Choice : load_colors(c) \in 0..(MaxDesktop + 1)
  BY ThemeBounds DEF load_colors
<1>2. ASSUME NEW c \in Choice, CanLoad(c)
      PROVE  LET q == Linked(c, load_colors(c)) IN q \in Palette /\ Grounded(q) /\ palette_from_theme(q) = q
  <2>1. Linked(c, load_colors(c)) \in Palette
    BY <1>1, PaletteMade, Zenon DEF Linked
  <2>2. Grounded(Linked(c, load_colors(c)))
    BY <1>2 DEF Linked, load_colors, Grounded, CanLoad
  <2>3. palette_from_theme(Linked(c, load_colors(c))) = Linked(c, load_colors(c))
    <3>1. Linked(c, load_colors(c)).labels = FALSE
      BY DEF Linked
    <3> QED BY <2>1, <3>1, PaletteMade, Zenon
  <2> QED BY <2>1, <2>2, <2>3
<1>3. ASSUME NEW p \in Palette PROVE finish_palette(p) \in Palette /\ Grounded(finish_palette(p))
  <2>1. CASE ~CanLoad(p.choice)
    BY <2>1, PaletteFacts DEF finish_palette
  <2>2. CASE CanLoad(p.choice)
    <3>1. p.choice \in Choice /\ finish_palette(p) = apply_omarchy(p)
      BY <2>2 DEF finish_palette, Palette
    <3>2. apply_omarchy(p) \in Palette
      BY <1>1, <3>1 DEF apply_omarchy, Palette
    <3>3. Grounded(apply_omarchy(p))
      BY <2>2, <3>1 DEF apply_omarchy, Grounded, CanLoad, load_colors, Palette
    <3> QED BY <3>1, <3>2, <3>3
  <2> QED BY <2>1, <2>2
<1>4. \A files \in [Target -> Palette \cup {NoTheme}] :
        load_resolved(files) \in Palette /\ Grounded(load_resolved(files))
  BY <1>3, PaletteFacts DEF load_resolved, Target
<1> QED BY <1>2, <1>3, <1>4

LEMMA ThemeStarts == ThemeInit => ThemeIInv
<1> SUFFICES ASSUME ThemeInit PROVE ThemeIInv
  OBVIOUS
<1>1. FileTheme \subseteq Palette \cup {NoTheme}
  <2>1. Builtin \in Palette /\ Linked("follow", 0) \in Palette /\ Linked("named", 0) \in Palette
    BY PaletteMade, Zenon DEF Builtin, Linked
  <2>2. [Builtin EXCEPT !.tint = MaxTint] \in Palette
    BY <2>1, PaletteMade, PaletteFacts, Zenon
  <2> DEFINE themes == {Builtin, [Builtin EXCEPT !.tint = MaxTint], Linked("follow", 0), Linked("named", 0)}
  <2>3. \A theme \in themes : theme \in Palette
    BY <2>1, <2>2
  <2> HIDE DEF themes
  <2>4. \A theme \in themes, own \in BOOLEAN : [theme EXCEPT !.labels = own] \in Palette
    BY <2>3, PaletteMade, Zenon
  <2>5. FileTheme = {NoTheme} \cup {[theme EXCEPT !.labels = own] : own \in BOOLEAN, theme \in themes}
    BY DEF FileTheme, themes
  <2> QED BY <2>4, <2>5
<1>2. theme_files \in [Target -> Palette \cup {NoTheme}]
  BY <1>1 DEF ThemeInit
<1>3. desktop \in 0..MaxDesktop
  BY ThemeAssumption DEF ThemeInit
<1> QED BY <1>2, <1>3, LoadedFacts DEF ThemeInit, ThemeIInv, PreviewIsTemporary, PreviewIsSaved, is_open

LEMMA NotNoTheme ==
  /\ \A p \in ThemePicker : p # NoTheme
  /\ \A e \in ThemeEditor : e # NoTheme
BY ThemeAssumption

ThemeKept == ThemeIInv' /\ SavedIsSeen

LEMMA ReloadKeeps ==
  ThemeIInv /\ (RestartTheme \/ refresh_followed_theme) => ThemeKept
<1> SUFFICES ASSUME ThemeIInv, RestartTheme \/ refresh_followed_theme PROVE ThemeKept
  OBVIOUS
<1>1. load_resolved(theme_files) \in Palette /\ Grounded(load_resolved(theme_files))
  BY LoadedFacts DEF ThemeIInv
<1>2. UNCHANGED <<theme_files, desktop>> /\ reload_theme(theme_files)
      /\ theme_picker' = NoTheme /\ theme_editor' = NoTheme
  BY DEF RestartTheme, refresh_followed_theme, is_open
<1> QED BY <1>1, <1>2 DEF ThemeIInv, ThemeKept, SavedIsSeen, reload_theme, PreviewIsTemporary, PreviewIsSaved, is_open

LEMMA OpenThemeKeeps ==
  ThemeIInv /\ OpenTheme => ThemeKept
<1> SUFFICES ASSUME ThemeIInv, OpenTheme PROVE ThemeKept
  OBVIOUS
<1> DEFINE palette == palette_from_theme(painted)
<1>1. palette \in Palette /\ Grounded(palette)
  BY PaintedFacts DEF ThemeIInv
<1>2. palette = palette_from_theme(kept)
  BY PaintedFacts DEF ThemeIInv, OpenTheme, PreviewIsTemporary
<1>3. \/ theme_picker' = NewPicker(palette) /\ theme_editor' = NoTheme
      \/ theme_picker' = NoTheme /\ theme_editor' = NewEditor(palette, "global")
  BY DEF OpenTheme, is_open
<1>4. UNCHANGED <<painted, theme_files, desktop, kept>>
  BY DEF OpenTheme
<1>5. UNCHANGED palette_from_theme(painted) /\ UNCHANGED palette_from_theme(kept)
  BY <1>4
<1> HIDE DEF palette
<1>6. NewPicker(palette) \in ThemePicker /\ NewPicker(palette).snapshot = palette
      /\ NewPicker(palette).palette = palette
  BY <1>1 DEF NewPicker, ThemePicker, Target, Choice
<1>7. /\ NewEditor(palette, "global") \in ThemeEditor
      /\ NewEditor(palette, "global").snapshot = palette /\ NewEditor(palette, "global").palette = palette
  BY <1>1 DEF NewEditor, ThemeEditor, Target
<1>8. palette = palette_from_theme(painted) /\ palette_from_theme(palette) = palette
  BY PaintedFacts DEF palette, ThemeIInv
<1>9. SavedIsSeen
  BY <1>4 DEF SavedIsSeen
<1>10. CASE theme_picker' = NewPicker(palette) /\ theme_editor' = NoTheme
  <2>1. theme_picker' \in ThemePicker /\ theme_picker' # NoTheme
    BY <1>6, <1>10, NotNoTheme
  <2>2. theme_picker'.snapshot = palette /\ theme_picker'.palette = palette
    BY <1>6, <1>10
  <2> QED BY <1>2, <1>4, <1>5, <1>8, <1>9, <1>10, <2>1, <2>2
          DEF ThemeIInv, ThemeKept, PreviewIsTemporary, PreviewIsSaved, is_open
<1>11. CASE theme_picker' = NoTheme /\ theme_editor' = NewEditor(palette, "global")
  <2>1. theme_editor' \in ThemeEditor /\ theme_editor' # NoTheme
    BY <1>7, <1>11, NotNoTheme
  <2>2. theme_editor'.snapshot = palette /\ theme_editor'.palette = palette
    BY <1>7, <1>11
  <2>3. Grounded(theme_editor'.snapshot) /\ palette_from_theme(theme_editor'.snapshot) = theme_editor'.snapshot
    BY <1>1, <1>8, <2>2
  <2> QED BY <1>2, <1>4, <1>5, <1>8, <1>9, <1>11, <2>1, <2>2, <2>3
          DEF ThemeIInv, ThemeKept, PreviewIsTemporary, PreviewIsSaved, is_open, Grounded, palette_from_theme
<1> QED BY <1>3, <1>10, <1>11

LEMMA CloseThemeKeeps ==
  ThemeIInv /\ CloseTheme => ThemeKept
<1> SUFFICES ASSUME ThemeIInv, CloseTheme PROVE ThemeKept
  OBVIOUS
<1>1. painted' = apply_palette(palette_from_theme(kept))
  BY DEF ThemeIInv, CloseTheme, is_open
<1>2. /\ apply_palette(palette_from_theme(kept)) = apply_palette(kept)
      /\ apply_palette(kept) \in Palette /\ Grounded(apply_palette(kept))
  BY DEF ThemeIInv, Palette, Grounded, apply_palette, palette_from_theme
<1>3. UNCHANGED <<theme_files, desktop, kept>> /\ theme_picker' = NoTheme /\ theme_editor' = NoTheme
  BY DEF CloseTheme
<1>4. UNCHANGED apply_palette(kept)
  BY <1>3
<1> QED BY <1>1, <1>2, <1>3, <1>4 DEF ThemeIInv, ThemeKept, SavedIsSeen, PreviewIsTemporary, PreviewIsSaved, is_open

LEMMA ApplySelectedKeeps ==
  ThemeIInv /\ ApplySelected => ThemeKept
<1> SUFFICES ASSUME ThemeIInv, ApplySelected PROVE ThemeKept
  OBVIOUS
<1>1. PICK choice \in theme_picker.rows :
        /\ CanLoad(choice)
        /\ theme_picker' = [theme_picker EXCEPT !.palette = palette_for(choice, theme_picker.snapshot)]
        /\ painted' = apply_palette(theme_picker'.palette)
  BY DEF ApplySelected
<1>2. /\ theme_picker \in ThemePicker /\ theme_picker # NoTheme /\ theme_editor = NoTheme
      /\ theme_picker.snapshot = palette_from_theme(kept) /\ choice \in Choice
  BY DEF ApplySelected, Picking, ThemeIInv, ThemePicker
<1> DEFINE p == palette_for(choice, theme_picker.snapshot)
<1>3. p \in Palette /\ Grounded(p) /\ palette_from_theme(p) = p
  <2>1. /\ theme_picker.snapshot \in Palette /\ Grounded(theme_picker.snapshot)
        /\ palette_from_theme(theme_picker.snapshot) = theme_picker.snapshot
    BY <1>2, PaintedFacts DEF ThemeIInv
  <2> QED BY <1>1, <1>2, <2>1, LoadedFacts, PaletteFacts DEF palette_for, ThemeIInv
<1> HIDE DEF p
<1>4. theme_picker' = [theme_picker EXCEPT !.palette = p]
  BY <1>1 DEF p
<1>5. /\ theme_picker' \in ThemePicker /\ theme_picker'.palette = p
      /\ theme_picker'.snapshot = theme_picker.snapshot
  BY <1>2, <1>3, <1>4 DEF ThemePicker
<1>6. painted' = apply_palette(p) /\ UNCHANGED <<theme_editor, theme_files, desktop, kept>>
  BY <1>1, <1>5 DEF ApplySelected, DialogStays
<1>7. painted' \in Palette /\ Grounded(painted') /\ palette_from_theme(painted') = p
  BY <1>3, <1>6, PaintedFacts
<1>8. UNCHANGED palette_from_theme(kept) /\ palette_from_theme(painted)' = p
  BY <1>6, <1>7 DEF palette_from_theme
<1> QED BY <1>2, <1>5, <1>6, <1>7, <1>8, NotNoTheme
        DEF ThemeIInv, ThemeKept, SavedIsSeen, PreviewIsTemporary, PreviewIsSaved, is_open

LEMMA EditColorsKeeps ==
  ThemeIInv /\ EditColors => ThemeKept
<1> SUFFICES ASSUME ThemeIInv, EditColors PROVE ThemeKept
  OBVIOUS
<1>1. theme_picker \in ThemePicker /\ theme_picker # NoTheme /\ theme_picker.palette = palette_from_theme(painted)
  BY DEF EditColors, Picking, ThemeIInv, PreviewIsSaved
<1>2. /\ theme_editor' \in ThemeEditor /\ theme_editor'.palette = theme_picker.palette
      /\ theme_editor'.snapshot = theme_picker.palette
  BY <1>1 DEF EditColors, NewEditor, ThemeEditor, ThemePicker
<1>3. Grounded(theme_picker.palette) /\ palette_from_theme(theme_picker.palette) = theme_picker.palette
  BY <1>1, PaintedFacts DEF ThemeIInv
<1>4. UNCHANGED <<painted, theme_picker, theme_files, desktop, kept>>
  BY DEF EditColors, DialogStays
<1>5. UNCHANGED palette_from_theme(painted) /\ UNCHANGED palette_from_theme(kept)
  BY <1>4
<1> QED BY <1>1, <1>2, <1>3, <1>4, <1>5, NotNoTheme
        DEF ThemeIInv, ThemeKept, SavedIsSeen, PreviewIsTemporary, PreviewIsSaved, is_open

LEMMA ToggleTargetKeeps ==
  ThemeIInv /\ ToggleTarget => ThemeKept
<1> SUFFICES ASSUME ThemeIInv, ToggleTarget PROVE ThemeKept
  OBVIOUS
<1> DEFINE Other(t) == IF t = "local" THEN "global" ELSE "local"
<1>1. UNCHANGED <<painted, theme_files, desktop, kept>>
  BY DEF ToggleTarget, DialogStays
<1>2. CASE Picking /\ theme_picker' = [theme_picker EXCEPT !.target = Other(@)] /\ UNCHANGED theme_editor
  <2>1. theme_picker \in ThemePicker /\ theme_picker # NoTheme
    BY <1>2 DEF Picking, ThemeIInv
  <2>2. /\ theme_picker' \in ThemePicker
        /\ theme_picker'.palette = theme_picker.palette /\ theme_picker'.snapshot = theme_picker.snapshot
    BY <1>2, <2>1 DEF ThemePicker, Target
  <2> QED BY <1>1, <1>2, <2>1, <2>2, NotNoTheme
          DEF ThemeIInv, ThemeKept, SavedIsSeen, PreviewIsTemporary, PreviewIsSaved, is_open
<1>3. CASE theme_editor # NoTheme /\ theme_editor' = [theme_editor EXCEPT !.target = Other(@)]
           /\ UNCHANGED theme_picker
  <2>1. theme_editor \in ThemeEditor
    BY <1>3 DEF ThemeIInv
  <2>2. /\ theme_editor' \in ThemeEditor
        /\ theme_editor'.palette = theme_editor.palette /\ theme_editor'.snapshot = theme_editor.snapshot
    BY <1>3, <2>1 DEF ThemeEditor, Target
  <2> QED BY <1>1, <1>3, <2>1, <2>2, NotNoTheme
          DEF ThemeIInv, ThemeKept, SavedIsSeen, PreviewIsTemporary, PreviewIsSaved, is_open
<1> QED BY <1>2, <1>3 DEF ToggleTarget

LEMMA SyncedFacts ==
  ASSUME ThemeIInv, NEW editor \in ThemeEditor, Synced(editor),
         Grounded(editor.palette), palette_from_theme(editor.palette) = editor.palette
  PROVE  /\ painted' \in Palette /\ Grounded(painted') /\ palette_from_theme(painted)' = editor.palette
         /\ theme_picker = NoTheme => theme_picker' = NoTheme
         /\ theme_picker # NoTheme => /\ theme_picker' \in ThemePicker /\ theme_picker' # NoTheme
                                      /\ theme_picker'.palette = editor.palette
                                      /\ theme_picker'.snapshot = theme_picker.snapshot
<1>1. editor.palette \in Palette /\ editor.target \in Target
  BY DEF ThemeEditor
<1>2. theme_picker # NoTheme => /\ theme_picker' \in ThemePicker
                                /\ theme_picker'.palette = editor.palette
                                /\ theme_picker'.snapshot = theme_picker.snapshot
  BY <1>1 DEF Synced, ThemeIInv, ThemePicker
<1>3. painted' = apply_palette(editor.palette)
  BY DEF Synced
<1>4. painted' \in Palette /\ Grounded(painted') /\ palette_from_theme(painted') = editor.palette
  BY <1>1, <1>3, PaintedFacts
<1>5. palette_from_theme(painted)' = editor.palette
  BY <1>4 DEF palette_from_theme
<1> QED BY <1>2, <1>4, <1>5, NotNoTheme DEF Synced

LEMMA EditColorKeeps ==
  ThemeIInv /\ EditColor => ThemeKept
<1> SUFFICES ASSUME ThemeIInv, EditColor PROVE ThemeKept
  OBVIOUS
<1>1. theme_editor \in ThemeEditor /\ theme_editor # NoTheme /\ theme_editor.palette \in Palette
  BY DEF EditColor, ThemeIInv, ThemeEditor
<1>2. Grounded(theme_editor.palette) /\ palette_from_theme(theme_editor.palette) = theme_editor.palette
  BY <1>1, PaintedFacts DEF ThemeIInv, PreviewIsSaved
<1>3. PICK palette \in Palette : /\ PaletteChanged(palette)
                                 /\ Grounded(palette) /\ palette_from_theme(palette) = palette
  <2>1. ASSUME NEW t \in 1..MaxTint
        PROVE  LET q == [theme_editor.palette EXCEPT !.tint = t]
               IN  q \in Palette /\ Grounded(q) /\ palette_from_theme(q) = q
    <3>1. t \in 0..MaxTint
      BY ThemeAssumption
    <3> QED BY <1>1, <1>2, <3>1, PaletteFacts
  <2> QED BY <2>1, PaletteFacts DEF EditColor
<1>4. theme_editor' \in ThemeEditor /\ theme_editor'.palette = palette
      /\ theme_editor'.snapshot = theme_editor.snapshot
  BY <1>1, <1>3 DEF PaletteChanged, ThemeEditor
<1>5. Synced(theme_editor')
  BY <1>3 DEF PaletteChanged
<1>6. UNCHANGED <<theme_files, desktop, kept>>
  BY <1>3 DEF PaletteChanged, DialogStays
<1>7. UNCHANGED palette_from_theme(kept)
  BY <1>6
<1> QED BY <1>1, <1>3, <1>4, <1>5, <1>6, <1>7, SyncedFacts, NotNoTheme
        DEF ThemeIInv, ThemeKept, SavedIsSeen, PreviewIsTemporary, PreviewIsSaved, is_open

LEMMA EscEditorKeeps ==
  ThemeIInv /\ EscEditor => ThemeKept
<1> SUFFICES ASSUME ThemeIInv, EscEditor PROVE ThemeKept
  OBVIOUS
<1> DEFINE back == [theme_editor EXCEPT !.palette = theme_editor.snapshot]
<1>1. back \in ThemeEditor /\ back.palette = theme_editor.snapshot
  BY DEF EscEditor, ThemeIInv, ThemeEditor
<1>2. Synced(back)
  BY DEF EscEditor
<1>3. Grounded(theme_editor.snapshot) /\ palette_from_theme(theme_editor.snapshot) = theme_editor.snapshot
  BY DEF EscEditor, ThemeIInv
<1>4. UNCHANGED <<theme_files, desktop, kept>> /\ theme_editor' = NoTheme /\ theme_picker # NoTheme
  BY DEF EscEditor, DialogStays
<1>5. UNCHANGED palette_from_theme(kept)
  BY <1>4
<1> HIDE DEF back
<1> QED BY <1>1, <1>2, <1>3, <1>4, <1>5, SyncedFacts
        DEF ThemeIInv, ThemeKept, SavedIsSeen, PreviewIsTemporary, PreviewIsSaved, is_open

LEMMA SavePaletteKeeps ==
  ThemeIInv /\ SavePalette => ThemeKept
<1> SUFFICES ASSUME ThemeIInv, SavePalette PROVE ThemeKept
  OBVIOUS
<1> DEFINE p == palette_from_theme(painted)
<1>1. RequestSave.palette = p /\ RequestSave.target \in Target
  BY DEF SavePalette, is_open, RequestSave, ThemeIInv, PreviewIsSaved, ThemePicker, ThemeEditor
<1>2. p \in Palette /\ Grounded(p) /\ p = apply_palette(painted) /\ apply_palette(p) = p
      /\ p.choice = painted.choice /\ p.base = painted.base
  BY PaintedFacts DEF ThemeIInv, apply_palette, palette_from_theme, Palette, Grounded
<1>3. p.labels = FALSE
  BY DEF ThemeIInv, palette_from_theme, Palette
<1> HIDE DEF p
<1>4. theme_files' = [theme_files EXCEPT ![RequestSave.target] = render_yaml(p)]
  BY <1>1 DEF SavePalette
<1>5. painted' = p /\ kept' = p /\ UNCHANGED desktop /\ theme_picker' = NoTheme /\ theme_editor' = NoTheme
  BY <1>1, <1>2 DEF SavePalette
<1>6. theme_files' \in [Target -> Palette \cup {NoTheme}]
  BY <1>1, <1>2, <1>4, PaletteFacts DEF ThemeIInv
<1>7. ASSUME p.choice = "follow" => p.base = desktop
      PROVE  finish_palette(render_yaml(p)) = p
  <2>1. render_yaml(p).choice = p.choice /\ CanLoad(p.choice)
    BY <1>2, <1>7 DEF render_yaml, CanLoad, Grounded, Palette
  <2>2. apply_omarchy(render_yaml(p)) = p
    <3>1. CASE p.choice = "custom"
      BY <3>1 DEF apply_omarchy, render_yaml
    <3>2. CASE p.choice # "custom"
      <4>1. apply_omarchy(render_yaml(p)) = [p EXCEPT !.base = load_colors(p.choice), !.labels = FALSE]
        BY <1>2, <3>2 DEF apply_omarchy, render_yaml, Palette
      <4>2. load_colors(p.choice) = p.base
        <5>1. p.choice \in {"follow", "named"}
          BY <1>2, <3>2 DEF Palette, Choice
        <5>2. CASE p.choice = "follow"
          BY <1>7, <5>2 DEF load_colors
        <5>3. CASE p.choice = "named"
          <6>1. p.base = MaxDesktop + 1
            BY <1>2, <5>3, Zenon DEF Grounded
          <6>2. load_colors(p.choice) = MaxDesktop + 1
            BY <5>3 DEF load_colors
          <6> QED BY <6>1, <6>2
        <5> QED BY <5>1, <5>2, <5>3
      <4>3. \A q \in Palette : q.labels = FALSE => [q EXCEPT !.base = q.base, !.labels = FALSE] = q
        BY DEF Palette
      <4> QED BY <1>2, <1>3, <4>1, <4>2, <4>3
    <3> QED BY <3>1, <3>2
  <2> QED BY <2>1, <2>2 DEF finish_palette
<1>8. SavedIsSeen
  <2> SUFFICES ASSUME NEW t \in Target, theme_files'[t] # theme_files[t]
               PROVE  /\ painted' = apply_palette(painted)
                      /\ (painted.choice = "follow" => painted.base = desktop)
                           => finish_palette(theme_files'[t]) = painted'
    BY DEF SavedIsSeen
  <2>1. theme_files'[t] = render_yaml(p)
    BY <1>1, <1>4 DEF ThemeIInv
  <2> QED BY <1>2, <1>5, <1>7, <2>1
<1> QED BY <1>2, <1>5, <1>6, <1>8 DEF ThemeIInv, ThemeKept, PreviewIsTemporary, PreviewIsSaved, is_open

LEMMA ThemeKeeps ==
  /\ ThemeIInv /\ [ThemeNext]_themeVars => ThemeIInv'
  /\ ThemeIInv /\ [ThemeNext]_themeVars => [SavedIsSeen]_themeVars
  /\ ThemeIInv => PreviewIsTemporary /\ PreviewIsSaved
<1>1. ThemeIInv /\ DesktopChanges => ThemeKept
  BY DEF DesktopChanges, ThemeIInv, ThemeKept, SavedIsSeen, PreviewIsTemporary, PreviewIsSaved, is_open
<1>2. ThemeIInv /\ UNCHANGED themeVars => ThemeIInv'
  BY DEF themeVars, ThemeIInv, PreviewIsTemporary, PreviewIsSaved, is_open
<1>3. ThemeIInv /\ ThemeNext => ThemeKept
  BY <1>1, ReloadKeeps, OpenThemeKeeps, CloseThemeKeeps, ApplySelectedKeeps, EditColorsKeeps, ToggleTargetKeeps,
     EditColorKeeps, EscEditorKeeps, SavePaletteKeeps DEF ThemeNext
<1> QED BY <1>2, <1>3 DEF ThemeKept, ThemeIInv

(* A preview ends with its dialog, whichever way through picker and editor *)
(* it is left, but for the colour of active labels that the file had; and  *)
(* a saved file loads what is on the screen, unless it follows a desktop   *)
(* whose theme is no longer the one previewed: theme.rs.                   *)
THEOREM PreviewsEnd == ThemeSpec => PreviewsEndOrAreSaved
<1>1. ThemeSpec => []ThemeIInv
  BY ThemeStarts, ThemeKeeps, PTL DEF ThemeSpec
<1>2. ThemeSpec => [](PreviewIsTemporary /\ PreviewIsSaved) /\ [][SavedIsSeen]_themeVars
  BY <1>1, ThemeKeeps, PTL DEF ThemeSpec
<1> QED BY <1>2 DEF PreviewsEndOrAreSaved

==============================================================================
