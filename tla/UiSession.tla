----------------------------- MODULE UiSession -----------------------------
(***************************************************************************)
(* The session of the user interface: connecting, with the question about  *)
(* an unknown host key, then listings and file operations.                 *)
(*                                                                         *)
(* The event loop owns the session in `handle'.  A listing or a file       *)
(* operation takes it along in a task, which puts it down in the shared    *)
(* `park' slot and then reports over the channel of session messages; the  *)
(* handler of the report picks it up there.  A task of an older            *)
(* generation, one from before a disconnect, uses the same slot.           *)
(*                                                                         *)
(* A session is named by the generation that opened it.                    *)
(***************************************************************************)
EXTENDS Integers, Sequences

CONSTANTS
  IoTask,               \* slots for tasks; a handled report frees its slot
  Server, FtpServer,    \* the FTP and FTPS servers have no host key
  NoServer, NoTask,
  MaxGeneration         \* bound: connects and disconnects

ASSUME UiConstantsAssumption ==
  /\ FtpServer \subseteq Server
  /\ NoServer \notin Server
  /\ NoTask \notin IoTask
  /\ MaxGeneration \in Nat

VARIABLES
  connected, active_connection, generation,
  in_flight,            \* what the event loop waits for
  handle, park,
  prompt,               \* the one prompt that may be on the screen
  io_rx,                \* the channel of session messages
  io,                   \* the tasks
  known_hosts,          \* the servers whose key the known_hosts file holds
  wanted, approved,     \* history: the server asked for, the keys accepted
  clean                 \* history: no older listing ran at the connect

connVars == <<connected, active_connection, generation, wanted, clean>>
trustVars == <<known_hosts, approved>>
uiVars == <<connVars, in_flight, handle, park, prompt, io_rx, io, trustVars>>

-----------------------------------------------------------------------------
NoSession == 0

NotInFlight == [kind |-> "None", generation |-> 0, reply |-> NoTask]

Waiting(kind, g) == [NotInFlight EXCEPT !.kind = kind, !.generation = g]

IdleIo == [pc |-> "idle", kind |-> "None", generation |-> 0, session |-> NoSession,
           server |-> NoServer, remote |-> FALSE, ok |-> FALSE]

UiInit ==
  /\ connected = FALSE
  /\ active_connection = NoServer
  /\ generation = 0
  /\ in_flight = NotInFlight
  /\ handle = NoSession
  /\ park = NoSession
  /\ prompt = "None"
  /\ io_rx = <<>>
  /\ io = [t \in IoTask |-> IdleIo]
  /\ known_hosts \in SUBSET (Server \ FtpServer)
  /\ wanted = NoServer
  /\ approved = known_hosts
  /\ clean = TRUE

IoBusy == in_flight.kind # "None"

-----------------------------------------------------------------------------
(* The tasks.                                                              *)

Moves(t, change) ==
  /\ io' = [io EXCEPT ![t] = change]
  /\ UNCHANGED <<connVars, in_flight, handle, prompt>>

(* connect_task: the key of an SFTP server is looked up in known_hosts; an *)
(* unknown or changed one is put to the user, and the task waits.          *)
CheckHostKey(t) ==
  /\ io[t].pc = "work" /\ io[t].kind = "Connect"
  /\ IF io[t].server \in FtpServer \cup known_hosts
     THEN /\ Moves(t, [io[t] EXCEPT !.pc = "login"])
          /\ UNCHANGED io_rx
     ELSE /\ Moves(t, [io[t] EXCEPT !.pc = "asked"])
          /\ io_rx' = Append(io_rx, [kind |-> "HostKeyChallenge", task |-> t])
  /\ UNCHANGED <<park, trustVars>>

(* Mutant: the key is saved before the answer is there.                    *)
AppendAtOnce(t) ==
  /\ io[t].pc \in {"asked", "accepted"}
  /\ Moves(t, [io[t] EXCEPT !.pc = IF io[t].pc = "asked" THEN "asked" ELSE "login"])
  /\ known_hosts' = known_hosts \cup {io[t].server}
  /\ UNCHANGED <<park, io_rx, approved>>

AppendKnownHost(t) ==
  /\ io[t].pc = "accepted"
  /\ Moves(t, [io[t] EXCEPT !.pc = "login"])
  /\ known_hosts' = known_hosts \cup {io[t].server}
  /\ UNCHANGED <<park, io_rx, approved>>

(* The handshake, the host key file, the login or the first listing fails. *)
ConnectFails(t) ==
  /\ io[t].kind = "Connect"
  /\ io[t].pc \in {"work", "accepted", "login"}
  /\ Moves(t, [io[t] EXCEPT !.pc = "report"])
  /\ UNCHANGED <<park, io_rx, trustVars>>

Login(t) ==
  /\ io[t].pc = "login"
  /\ Moves(t, [io[t] EXCEPT !.pc = "report", !.ok = TRUE,
                            !.session = io[t].generation])
  /\ UNCHANGED <<park, io_rx, trustVars>>

(* A listing or a file operation; a remote one without a session fails.    *)
WorkEnds(t, ok) ==
  /\ io[t].pc = "work" /\ io[t].kind \in {"List", "Fs"}
  /\ ok => ~io[t].remote \/ io[t].session # NoSession
  /\ Moves(t, [io[t] EXCEPT !.pc = "park", !.ok = ok])
  /\ UNCHANGED <<park, io_rx, trustVars>>

ParkSession(t) ==
  /\ io[t].pc = "park"
  /\ park' = IF io[t].session = NoSession THEN park ELSE io[t].session
  /\ Moves(t, [io[t] EXCEPT !.pc = "report", !.session = NoSession])
  /\ UNCHANGED <<io_rx, trustVars>>

(* Mutant: a task that failed says nothing.                                *)
ReportSuccess(t) ==
  /\ io[t].pc = "report"
  /\ io_rx' = IF io[t].ok THEN Append(io_rx, [kind |-> "Done", task |-> t]) ELSE io_rx
  /\ Moves(t, [io[t] EXCEPT !.pc = "sent"])
  /\ UNCHANGED <<park, trustVars>>

ReportIo(t) ==
  /\ io[t].pc = "report"
  /\ io_rx' = Append(io_rx, [kind |-> "Done", task |-> t])
  /\ Moves(t, [io[t] EXCEPT !.pc = "sent"])
  /\ UNCHANGED <<park, trustVars>>

IoStep(t) ==
  \/ CheckHostKey(t) \/ AppendKnownHost(t) \/ ConnectFails(t) \/ Login(t)
  \/ WorkEnds(t, TRUE) \/ WorkEnds(t, FALSE) \/ ParkSession(t) \/ ReportIo(t)

-----------------------------------------------------------------------------
(* handle_io_message.                                                      *)

Receives(kind, t) ==
  /\ io_rx # <<>>
  /\ Head(io_rx) = [kind |-> kind, task |-> t]
  /\ io_rx' = Tail(io_rx)

DoneOf(kind, t) == io[t].kind = kind /\ Receives("Done", t)

(* A new task in slot t takes the session with it when it is remote.       *)
NewTask(kind, session, remote) ==
  [IdleIo EXCEPT !.pc = "work", !.kind = kind, !.generation = generation,
                 !.session = IF remote THEN session ELSE NoSession,
                 !.remote = remote]

SpawnsInto(t, kind, session, remote) ==
  /\ in_flight' = Waiting(kind, generation)
  /\ io' = [io EXCEPT ![t] = NewTask(kind, session, remote)]
  /\ handle' = IF remote THEN NoSession ELSE session

Finishes(t, session) ==
  /\ in_flight' = NotInFlight
  /\ io' = [io EXCEPT ![t] = IdleIo]
  /\ handle' = session

(* Another report of a connect would be ignored.  None comes: while one is *)
(* in flight there is no connection to drop and no other can be asked for. *)
ExpectsConnect(t) ==
  /\ io[t].generation = generation
  /\ in_flight.kind \in {"Connect", "HostKey"}
  /\ in_flight.generation = io[t].generation

(* Mutant: the connection shown is not updated.                            *)
ConnectUpUnseen(t) ==
  /\ DoneOf("Connect", t)
  /\ ExpectsConnect(t)
  /\ io[t].ok
  /\ connected' = TRUE
  /\ UNCHANGED <<active_connection, generation, wanted, clean, park, prompt, trustVars>>

ConnectUp(t) ==
  /\ DoneOf("Connect", t)
  /\ ExpectsConnect(t)
  /\ io[t].ok
  /\ connected' = TRUE
  /\ active_connection' = io[t].server
  /\ UNCHANGED <<generation, wanted, clean, park, prompt, trustVars>>

ConnectDown(t) ==
  /\ DoneOf("Connect", t)
  /\ ExpectsConnect(t)
  /\ ~io[t].ok
  /\ park' = NoSession
  /\ connected' = FALSE
  /\ wanted' = NoServer
  /\ UNCHANGED <<active_connection, generation, clean, prompt, trustVars>>

ConnectSucceeded(t) == ConnectUp(t) /\ Finishes(t, io[t].session)

ConnectFailed(t) == ConnectDown(t) /\ Finishes(t, NoSession)

(* Both ListDone and FsDone first empty the park slot.  A report of an     *)
(* older generation drops what it finds there.                             *)
StaleWorkDone(t) ==
  /\ DoneOf("List", t) \/ DoneOf("Fs", t)
  /\ io[t].generation # generation
  /\ park' = NoSession
  /\ io' = [io EXCEPT ![t] = IdleIo]
  /\ UNCHANGED <<connVars, in_flight, handle, prompt, trustVars>>

(* Mutant: the session stays where the task put it down.                   *)
NotAdopted == handle

Adopted == IF handle = NoSession THEN park ELSE handle

(* A report of this generation is the one in flight.                       *)
TakesReport(kind, t) ==
  /\ DoneOf(kind, t)
  /\ io[t].generation = generation
  /\ in_flight.kind = kind
  /\ in_flight.generation = generation
  /\ park' = NoSession
  /\ UNCHANGED <<connVars, trustVars>>

ExpectsWork(kind, t) == TakesReport(kind, t) /\ UNCHANGED prompt

ListDone(t) == ExpectsWork("List", t) /\ Finishes(t, Adopted)

(* A remote operation that succeeded is followed by a listing.             *)
FsDone(t) ==
  /\ ExpectsWork("Fs", t)
  /\ IF io[t].ok /\ io[t].remote /\ connected
     THEN SpawnsInto(t, "List", Adopted, TRUE)
     ELSE Finishes(t, Adopted)

Replied(t, yes) == [io EXCEPT ![t].pc = IF yes THEN "accepted" ELSE "report"]

(* A question of the connect in flight takes the place of whatever prompt  *)
(* is on the screen; any other is answered with no.                        *)
HostKeyChallenge(t) ==
  /\ Receives("HostKeyChallenge", t)
  /\ IF /\ io[t].generation = generation
        /\ in_flight.kind = "Connect"
        /\ in_flight.generation = io[t].generation
     THEN /\ in_flight' = [in_flight EXCEPT !.kind = "HostKey", !.reply = t]
          /\ prompt' = "HostKey"
          /\ UNCHANGED io
     ELSE /\ io' = Replied(t, FALSE)
          /\ UNCHANGED <<in_flight, prompt>>
  /\ UNCHANGED <<connVars, handle, park, trustVars>>

HandleIoMessage(t) ==
  \/ ConnectSucceeded(t) \/ ConnectFailed(t) \/ ListDone(t) \/ FsDone(t)
  \/ StaleWorkDone(t) \/ HostKeyChallenge(t)

-----------------------------------------------------------------------------
(* Keys.  While a prompt is on the screen they go to the prompt.           *)

DropsConnection ==
  /\ connected' = FALSE
  /\ active_connection' = NoServer
  /\ handle' = NoSession
  /\ park' = NoSession

(* connect_off_thread; with a connection up it begins with a disconnect,   *)
(* and each of the two moves the generation on.                            *)
Connect(t, s) ==
  /\ prompt = "None"
  /\ ~IoBusy
  /\ io[t].pc = "idle"
  /\ IF connected \/ handle # NoSession
     THEN generation' = generation + 2 /\ DropsConnection
     ELSE /\ generation' = generation + 1
          /\ UNCHANGED <<connected, active_connection, handle, park>>
  /\ generation' <= MaxGeneration
  /\ in_flight' = Waiting("Connect", generation')
  /\ io' = [io EXCEPT ![t] = [IdleIo EXCEPT !.pc = "work", !.kind = "Connect",
              !.generation = generation', !.server = s]]
  /\ wanted' = s
  /\ clean' = \A u \in IoTask : io[u].kind \in {"None", "Connect"}
  /\ UNCHANGED <<prompt, io_rx, trustVars>>

(* Mutant: what was in flight is not forgotten.                            *)
DisconnectKeepsInFlight ==
  /\ connected
  /\ prompt = "None"
  /\ generation < MaxGeneration
  /\ generation' = generation + 1
  /\ DropsConnection
  /\ wanted' = NoServer
  /\ UNCHANGED <<in_flight, clean, prompt, io_rx, io, trustVars>>

(* disconnect_session, from the c key.  No host key question can be open:  *)
(* it would have the keys.                                                 *)
Disconnect ==
  /\ connected
  /\ prompt = "None"
  /\ generation < MaxGeneration
  /\ generation' = generation + 1
  /\ in_flight' = NotInFlight
  /\ DropsConnection
  /\ wanted' = NoServer
  /\ UNCHANGED <<clean, prompt, io_rx, io, trustVars>>

(* A listing is asked for by a key or by a finished transfer, which does   *)
(* not look at the prompt.                                                 *)
RequestList(t) ==
  /\ connected
  /\ ~IoBusy
  /\ io[t].pc = "idle"
  /\ SpawnsInto(t, "List", handle, TRUE)
  /\ UNCHANGED <<connVars, park, prompt, io_rx, trustVars>>

(* Creating, renaming and chmod begin with Enter in a prompt; chmod is     *)
(* remote, the others work on either pane.                                 *)
RequestFs(t, remote) ==
  /\ prompt = "Other"
  /\ prompt' = "None"
  /\ ~IoBusy
  /\ remote => connected
  /\ io[t].pc = "idle"
  /\ SpawnsInto(t, "Fs", handle, remote)
  /\ UNCHANGED <<connVars, park, io_rx, trustVars>>

OpenPrompt ==
  /\ prompt = "None"
  /\ prompt' = "Other"
  /\ UNCHANGED <<connVars, in_flight, handle, park, io_rx, io, trustVars>>

ClosePrompt ==
  /\ prompt = "Other"
  /\ prompt' = "None"
  /\ UNCHANGED <<connVars, in_flight, handle, park, io_rx, io, trustVars>>

(* y and n at the question about the host key; Ctrl+Q is an n there.       *)
AnswerHostKey(yes) ==
  /\ prompt = "HostKey"
  /\ prompt' = "None"
  /\ IF in_flight.kind = "HostKey"
     THEN /\ io' = Replied(in_flight.reply, yes)
          /\ in_flight' = [in_flight EXCEPT !.kind = "Connect", !.reply = NoTask]
          /\ approved' = IF yes THEN approved \cup {io[in_flight.reply].server}
                                ELSE approved
     ELSE UNCHANGED <<io, in_flight, approved>>
  /\ UNCHANGED <<connVars, handle, park, io_rx, known_hosts>>

Key ==
  \/ \E t \in IoTask, s \in Server : Connect(t, s)
  \/ Disconnect
  \/ \E t \in IoTask : RequestList(t)
  \/ \E t \in IoTask, remote \in BOOLEAN : RequestFs(t, remote)
  \/ OpenPrompt \/ ClosePrompt
  \/ \E yes \in BOOLEAN : AnswerHostKey(yes)

UiNext ==
  \/ \E t \in IoTask : IoStep(t) \/ HandleIoMessage(t)
  \/ Key

UiSpec == UiInit /\ [][UiNext]_uiVars

(* Tasks run on and the event loop reads its channel.  Nobody has to press *)
(* a key.                                                                  *)
UiFairness ==
  /\ \A t \in IoTask : WF_uiVars(IoStep(t))
  /\ WF_uiVars(\E t \in IoTask : HandleIoMessage(t))

LiveUiSpec == UiSpec /\ UiFairness

-----------------------------------------------------------------------------
Session == 0..MaxGeneration

UiTypeOK ==
  /\ connected \in BOOLEAN
  /\ active_connection \in Server \cup {NoServer}
  /\ generation \in 0..MaxGeneration
  /\ in_flight \in [kind : {"None", "Connect", "HostKey", "List", "Fs"},
                    generation : 0..MaxGeneration, reply : IoTask \cup {NoTask}]
  /\ in_flight.generation <= generation
  /\ handle \in 0..generation
  /\ park \in 0..generation
  /\ prompt \in {"None", "Other", "HostKey"}
  /\ io_rx \in Seq([kind : {"Done", "HostKeyChallenge"}, task : IoTask])
  /\ io \in [IoTask -> [pc : {"idle", "work", "asked", "accepted", "login", "park",
                              "report", "sent"},
                        kind : {"None", "Connect", "List", "Fs"},
                        generation : 0..MaxGeneration, session : Session,
                        server : Server \cup {NoServer}, remote : BOOLEAN,
                        ok : BOOLEAN]]
  /\ known_hosts \subseteq Server
  /\ wanted \in Server \cup {NoServer}
  /\ approved \subseteq Server
  /\ clean \in BOOLEAN

(* What the event loop waits for, exactly one task is on the way to        *)
(* report: the slot in_flight never blocks the user for ever, and never    *)
(* takes one report for another.                                           *)
Carries(t) ==
  /\ io[t].generation = in_flight.generation
  /\ io[t].kind = IF in_flight.kind = "HostKey" THEN "Connect" ELSE in_flight.kind

BusyIsAnswered ==
  IoBusy => /\ in_flight.generation = generation
            /\ \E t \in IoTask : \A u \in IoTask : Carries(u) <=> u = t

(* The question about a host key is on the screen exactly while a task     *)
(* waits for its answer, and the answer goes to the task that connects     *)
(* now.                                                                    *)
HostKeyAnswerable ==
  /\ prompt = "HostKey" <=> in_flight.kind = "HostKey"
  /\ in_flight.kind = "HostKey" => /\ io[in_flight.reply].pc = "asked"
                                   /\ io[in_flight.reply].generation = generation

(* The invariant of the event loop's books: what is in flight, the tasks,   *)
(* the prompt and the generations fit each other, so nobody waits for an   *)
(* answer that cannot come.                                                *)
UiInv == UiTypeOK /\ BusyIsAnswered /\ HostKeyAnswerable

(* known_hosts grows only by keys the user said yes to.                    *)
TrustNeedsYes == known_hosts \subseteq approved

(* The session comes back: with a connection up and nothing in flight, the *)
(* event loop holds the session of this very connection, provided no       *)
(* listing or file operation of an older one was still running when it was *)
(* asked for.                                                              *)
SessionIsKept == connected /\ ~IoBusy /\ clean => handle = generation

(* session.rs:379 says so of every connection.                             *)
SessionIsParkedOnlyWhileBusy == connected /\ ~IoBusy => handle = generation

(* Connecting and listing end, or wait for the user's answer about a key.  *)
BusyEnds == IoBusy ~> in_flight.kind \in {"None", "HostKey"}

(* The connection the user sees is the one asked for last.                 *)
Connection == INSTANCE ConnectionLife WITH
  status <- CASE connected -> "on"
              [] ~connected /\ in_flight.kind \in {"Connect", "HostKey"} -> "connecting"
              [] OTHER -> "off",
  server <- IF connected THEN active_connection ELSE wanted

ImplementsConnection == Connection!Spec
============================================================================
