-------------------------- MODULE UiSessionProofs --------------------------
(***************************************************************************)
(* The invariants of the session of the user interface hold for every      *)
(* number of tasks, servers and generations, and the connection the user   *)
(* sees behaves as ConnectionLife promises.                                *)
(*                                                                         *)
(* The inductive invariant has four parts.  Books: the tasks, what is in   *)
(* flight and the channel fit each other; the one fact everything rests on *)
(* is that a task of the current generation is live exactly while the      *)
(* event loop waits, and that there is one.  PromptInv: the question about *)
(* a host key.  TrustInv: the keys.  SessionInv: where the session is.     *)
(*                                                                         *)
(* A handler frees the slot of the task that reported, or starts from a    *)
(* free slot; either way no task but that slot's is current (Rest), and    *)
(* the lemmas about Finishes and SpawnsInto begin there.  The modules that *)
(* share the session with more prompts and more messages use them too, so  *)
(* Books says nothing of the prompt, and of the channel only what concerns *)
(* the session's own messages.                                             *)
(***************************************************************************)
EXTENDS UiSession, SequenceTheorems, TLAPS

IoTasks == [pc : {"idle", "work", "asked", "accepted", "login", "park", "report", "sent"},
            kind : {"None", "Connect", "List", "Fs"}, generation : 0..MaxGeneration,
            session : Session, server : Server \cup {NoServer}, remote : BOOLEAN,
            ok : BOOLEAN]

Flights == [kind : {"None", "Connect", "HostKey", "List", "Fs"},
            generation : 0..MaxGeneration, reply : IoTask \cup {NoTask}]

(* The types of UiSession but for the prompt, the channel and the keys. *)
ConnTypeOK ==
  /\ connected \in BOOLEAN
  /\ active_connection \in Server \cup {NoServer}
  /\ wanted \in Server \cup {NoServer}
  /\ clean \in BOOLEAN

SessionTypeOK ==
  /\ ConnTypeOK
  /\ generation \in 0..MaxGeneration
  /\ in_flight \in Flights
  /\ in_flight.generation <= generation
  /\ handle \in 0..generation
  /\ park \in 0..generation
  /\ io \in [IoTask -> IoTasks]

Connecting == in_flight.kind \in {"Connect", "HostKey"}

Live(t) == io[t].kind # "None"

Current(t) == Live(t) /\ io[t].generation = generation

(* What one task is and has. *)
TasksInv ==
  \A t \in IoTask :
    /\ io[t].pc = "idle" <=> io[t].kind = "None"
    /\ io[t].generation <= generation
    /\ io[t].session <= io[t].generation
    /\ io[t].pc \in {"asked", "accepted", "login"} => io[t].kind = "Connect"
    /\ io[t].pc = "park" => io[t].kind # "Connect"

(* A connect is never stale: nothing can be dropped while it runs. *)
ConnectsInv ==
  /\ Connecting => ~connected
  /\ connected => generation # 0
  /\ \A t \in IoTask :
       io[t].kind = "Connect" =>
         /\ io[t].generation = generation /\ generation # 0
         /\ Connecting
         /\ io[t].server \in Server /\ io[t].server = wanted
         /\ io[t].ok => io[t].session = generation

(* The event loop waits exactly while a task of this generation is live,   *)
(* and for that one.                                                       *)
CarrierInv ==
  /\ IoBusy => in_flight.generation = generation /\ \E t \in IoTask : Current(t)
  /\ \A t \in IoTask : Current(t) => IoBusy /\ Carries(t)
  /\ \A t, u \in IoTask : Current(t) /\ Current(u) => t = u

Own == {"Done", "HostKeyChallenge"}

(* The session's messages of channel q fit the tasks f and what is in      *)
(* flight, e: each comes from a task that waits for its being handled, and *)
(* no task has two.                                                        *)
Fits(q, f, e) ==
  /\ \A i \in 1..Len(q) :
       /\ q[i].kind \in Own => q[i].task \in IoTask
       /\ q[i].kind = "Done" => f[q[i].task].pc = "sent"
       /\ q[i].kind = "HostKeyChallenge" => f[q[i].task].pc = "asked" /\ e.kind = "Connect"
  /\ \A i, j \in 1..Len(q) :
       q[i].kind \in Own /\ q[j].kind \in Own /\ q[i].task = q[j].task => i = j

Books == SessionTypeOK /\ TasksInv /\ ConnectsInv /\ CarrierInv /\ Fits(io_rx, io, in_flight)

PromptInv ==
  /\ prompt = "HostKey" <=> in_flight.kind = "HostKey"
  /\ in_flight.kind = "HostKey" =>
       /\ in_flight.reply \in IoTask
       /\ io[in_flight.reply].pc = "asked"
       /\ io[in_flight.reply].generation = generation

TrustInv ==
  /\ known_hosts \subseteq approved
  /\ approved \subseteq Server
  /\ \A t \in IoTask : io[t].pc = "accepted" => io[t].server \in approved

(* Where the session of this connection is while a task t has it. *)
HasSession(t) ==
  IF io[t].remote
  THEN /\ handle = NoSession
       /\ io[t].pc \in {"work", "park"} => io[t].session = generation
       /\ io[t].pc \in {"report", "sent"} => park = generation
  ELSE handle = generation

SessionInv ==
  /\ \A t \in IoTask : io[t].kind \in {"List", "Fs"} /\ ~io[t].remote => io[t].session = NoSession
  /\ clean /\ (connected \/ Connecting) => \A t \in IoTask : Live(t) => Current(t)
  /\ clean /\ connected => IF IoBusy THEN \A t \in IoTask : Current(t) => HasSession(t)
                                     ELSE handle = generation

ChannelTypeOK ==
  /\ prompt \in {"None", "Other", "HostKey"}
  /\ io_rx \in Seq([kind : Own, task : IoTask])

(* What every module that shares the session keeps. *)
UiCore == Books /\ PromptInv /\ TrustInv /\ SessionInv

UiIInv == ChannelTypeOK /\ UiCore

-----------------------------------------------------------------------------
(* Facts about the channel.                                                *)

LEMMA FitsAppend ==
  ASSUME NEW S, NEW q \in Seq(S), NEW m \in S, NEW f, NEW g, NEW e,
         Fits(q, f, e), m.kind \in Own, m.task \in IoTask,
         \A i \in 1..Len(q) : q[i].kind \in Own => q[i].task # m.task,
         \A u \in IoTask \ {m.task} : g[u] = f[u],
         m.kind = "Done" => g[m.task].pc = "sent",
         m.kind = "HostKeyChallenge" => g[m.task].pc = "asked" /\ e.kind = "Connect"
  PROVE  Fits(Append(q, m), g, e)
<1> DEFINE p == Append(q, m)
<1>1. /\ Len(p) = Len(q) + 1 /\ Len(q) \in Nat
      /\ \A i \in 1..Len(q) : p[i] = q[i]
      /\ p[Len(q) + 1] = m
  OBVIOUS
<1>2. \A i \in 1..Len(p) : i \in 1..Len(q) \/ i = Len(q) + 1
  BY <1>1
<1> HIDE DEF p
<1>3. ASSUME NEW i \in 1..Len(p)
      PROVE  /\ p[i].kind \in Own => p[i].task \in IoTask
             /\ p[i].kind = "Done" => g[p[i].task].pc = "sent"
             /\ p[i].kind = "HostKeyChallenge" => g[p[i].task].pc = "asked" /\ e.kind = "Connect"
  <2>1. CASE i = Len(q) + 1
    BY <1>1, <2>1
  <2>2. CASE i \in 1..Len(q)
    <3>1. p[i] = q[i] /\ (q[i].kind \in Own => q[i].task \in IoTask \ {m.task})
      BY <1>1, <2>2 DEF Fits
    <3> QED BY <2>2, <3>1 DEF Fits, Own
  <2> QED BY <1>2, <2>1, <2>2
<1>4. ASSUME NEW i \in 1..Len(p), NEW j \in 1..Len(p),
             p[i].kind \in Own, p[j].kind \in Own, p[i].task = p[j].task
      PROVE  i = j
  <2>1. CASE i \in 1..Len(q) /\ j \in 1..Len(q)
    BY <1>1, <1>4, <2>1 DEF Fits
  <2>2. CASE i = Len(q) + 1 \/ j = Len(q) + 1
    BY <1>1, <1>2, <1>4, <2>2
  <2> QED BY <1>2, <2>1, <2>2
<1> QED BY <1>3, <1>4 DEF Fits, p

LEMMA FitsTail ==
  ASSUME NEW S, NEW q \in Seq(S), q # <<>>, NEW f, NEW e, Fits(q, f, e)
  PROVE  /\ Fits(Tail(q), f, e)
         /\ Head(q).kind \in Own =>
              \A i \in 1..Len(Tail(q)) : Tail(q)[i].kind \in Own => Tail(q)[i].task # Head(q).task
<1> DEFINE p == Tail(q)
<1>1. /\ Len(q) \in Nat /\ Len(q) >= 1 /\ Len(p) = Len(q) - 1
      /\ \A i \in 1..Len(p) : i + 1 \in 1..Len(q) /\ p[i] = q[i + 1]
      /\ Head(q) = q[1] /\ 1 \in 1..Len(q)
  OBVIOUS
<1> HIDE DEF p
<1>2. Fits(p, f, e)
  <2>1. ASSUME NEW i \in 1..Len(p)
        PROVE  /\ p[i].kind \in Own => p[i].task \in IoTask
               /\ p[i].kind = "Done" => f[p[i].task].pc = "sent"
               /\ p[i].kind = "HostKeyChallenge" => f[p[i].task].pc = "asked" /\ e.kind = "Connect"
    BY <1>1 DEF Fits
  <2>2. ASSUME NEW i \in 1..Len(p), NEW j \in 1..Len(p),
               p[i].kind \in Own, p[j].kind \in Own, p[i].task = p[j].task
        PROVE  i = j
    <3>1. i + 1 = j + 1
      BY <1>1, <2>2 DEF Fits
    <3> QED BY <3>1
  <2> QED BY <2>1, <2>2 DEF Fits
<1>3. ASSUME Head(q).kind \in Own, NEW i \in 1..Len(p), p[i].kind \in Own
      PROVE  p[i].task # Head(q).task
  BY <1>1, <1>3 DEF Fits
<1> QED BY <1>2, <1>3 DEF p

(* A task without a message may change. *)
LEMMA FitsOther ==
  ASSUME NEW q, NEW f, NEW g, NEW e, NEW d, NEW t, Fits(q, f, e),
         \A i \in 1..Len(q) : q[i].kind \in Own => q[i].task # t,
         \A u \in IoTask \ {t} : g[u] = f[u],
         d.kind = e.kind \/ \A i \in 1..Len(q) : q[i].kind # "HostKeyChallenge"
  PROVE  Fits(q, g, d)
<1>1. ASSUME NEW i \in 1..Len(q), q[i].kind \in Own
      PROVE  q[i].task \in IoTask /\ g[q[i].task] = f[q[i].task]
  BY <1>1 DEF Fits
<1> QED BY <1>1 DEF Fits, Own

-----------------------------------------------------------------------------
(* Facts about the slots.                                                  *)

LEMMA IdleType == IdleIo \in IoTasks
BY UiConstantsAssumption DEF IdleIo, IoTasks, Session, NoSession

LEMMA NewTaskType ==
  ASSUME NEW kind \in {"List", "Fs"}, NEW remote \in BOOLEAN, generation \in 0..MaxGeneration,
         NEW session \in 0..generation
  PROVE  /\ NewTask(kind, session, remote) \in IoTasks
         /\ NewTask(kind, session, remote).pc = "work"
         /\ NewTask(kind, session, remote).kind = kind
         /\ NewTask(kind, session, remote).generation = generation
         /\ NewTask(kind, session, remote).session = IF remote THEN session ELSE NoSession
         /\ NewTask(kind, session, remote).remote = remote
<1>1. ASSUME NEW a \in Session
      PROVE  LET r == [IdleIo EXCEPT !.pc = "work", !.kind = kind, !.generation = generation,
                                     !.session = a, !.remote = remote]
             IN  /\ r \in IoTasks /\ r.pc = "work" /\ r.kind = kind
                 /\ r.generation = generation /\ r.session = a /\ r.remote = remote
  BY UiConstantsAssumption DEF IdleIo, IoTasks, NoSession, Session
<1>2. session \in Session /\ NoSession \in Session
  BY UiConstantsAssumption DEF Session, NoSession
<1> QED
  BY <1>1, <1>2 DEF NewTask

LEMMA WaitingType ==
  ASSUME NEW kind \in {"None", "Connect", "HostKey", "List", "Fs"}, NEW g \in 0..MaxGeneration
  PROVE  /\ Waiting(kind, g) \in Flights
         /\ Waiting(kind, g).kind = kind
         /\ Waiting(kind, g).generation = g
BY DEF Waiting, NotInFlight, Flights

LEMMA NotInFlightType == NotInFlight \in Flights /\ NotInFlight.kind = "None" /\ NotInFlight.generation = 0
BY UiConstantsAssumption DEF NotInFlight, Flights

-----------------------------------------------------------------------------
(* A slot becomes free.                                                    *)

OthersAreStale(t) ==
  \A u \in IoTask \ {t} : Live(u) =>
    /\ io[u].kind \in {"List", "Fs"}
    /\ io[u].generation <= generation /\ io[u].generation # generation

NoQuestions(q) == \A i \in 1..Len(q) : q[i].kind # "HostKeyChallenge"

(* Nothing but slot t is of this connection, and no report of t waits.     *)
Rest(t) ==
  /\ OthersAreStale(t)
  /\ Fits(io_rx', io, in_flight)
  /\ NoQuestions(io_rx')
  /\ \A i \in 1..Len(io_rx') : io_rx'[i].kind \in Own => io_rx'[i].task # t

LEMMA LiveKinds ==
  ASSUME SessionTypeOK, NEW t \in IoTask
  PROVE  /\ io[t] \in IoTasks
         /\ io[t].pc \in {"idle", "work", "asked", "accepted", "login", "park", "report", "sent"}
         /\ Live(t) => io[t].kind \in {"Connect", "List", "Fs"}
         /\ io[t].generation \in 0..MaxGeneration /\ io[t].session \in 0..MaxGeneration
         /\ io[t].remote \in BOOLEAN /\ io[t].ok \in BOOLEAN
BY DEF SessionTypeOK, IoTasks, Live, Session

(* Only the task in flight asks a question. *)
LEMMA AskedIsCurrent ==
  ASSUME Books, NEW t \in IoTask, io[t].pc \in {"asked", "accepted", "login"}
  PROVE  io[t].kind = "Connect" /\ Current(t)
BY DEF Books, TasksInv, ConnectsInv, Current, Live

LEMMA FreeSlot ==
  ASSUME Books, NEW t \in IoTask, io[t].pc = "idle", ~IoBusy,
         io_rx' = io_rx \/ Fits(io_rx', io, in_flight)
  PROVE  Rest(t)
<1>1. OthersAreStale(t)
  <2> SUFFICES ASSUME NEW u \in IoTask \ {t}, Live(u)
               PROVE  /\ io[u].kind \in {"List", "Fs"}
                      /\ io[u].generation <= generation /\ io[u].generation # generation
    BY DEF OthersAreStale
  <2>1. ~Current(u) /\ io[u].generation <= generation
    BY DEF Books, CarrierInv, TasksInv
  <2> QED BY <2>1, LiveKinds DEF Books, ConnectsInv, Current
<1>2. Fits(io_rx', io, in_flight)
  BY DEF Books
<1>3. ASSUME NEW i \in 1..Len(io_rx')
      PROVE  /\ io_rx'[i].kind # "HostKeyChallenge"
             /\ io_rx'[i].kind \in Own => io_rx'[i].task # t
  <2>1. io_rx'[i].kind = "HostKeyChallenge" => in_flight.kind = "Connect"
    BY <1>2 DEF Fits
  <2>2. io_rx'[i].kind = "Done" => io[io_rx'[i].task].pc = "sent"
    BY <1>2 DEF Fits
  <2> QED BY <2>1, <2>2 DEF IoBusy, Own
<1> QED BY <1>1, <1>2, <1>3 DEF Rest, NoQuestions

LEMMA Reported ==
  ASSUME Books, NEW S, io_rx \in Seq(S), NEW t \in IoTask, Receives("Done", t), Current(t)
  PROVE  Rest(t)
<1>1. OthersAreStale(t)
  <2> SUFFICES ASSUME NEW u \in IoTask \ {t}, Live(u)
               PROVE  /\ io[u].kind \in {"List", "Fs"}
                      /\ io[u].generation <= generation /\ io[u].generation # generation
    BY DEF OthersAreStale
  <2>1. ~Current(u) /\ io[u].generation <= generation
    BY DEF Books, CarrierInv, TasksInv
  <2> QED BY <2>1, LiveKinds DEF Books, ConnectsInv, Current
<1>2. io_rx # <<>> /\ io_rx' = Tail(io_rx) /\ Head(io_rx).kind = "Done" /\ Head(io_rx).task = t
  BY DEF Receives
<1>3. /\ Fits(io_rx', io, in_flight)
      /\ \A i \in 1..Len(io_rx') : io_rx'[i].kind \in Own => io_rx'[i].task # t
  BY <1>2, FitsTail DEF Books, Own
<1>4. io[t].pc = "sent"
  <2>1. Head(io_rx) = io_rx[1] /\ 1 \in 1..Len(io_rx)
    BY <1>2
  <2> QED BY <1>2, <2>1 DEF Books, Fits
<1>5. ASSUME NEW i \in 1..Len(io_rx'), io_rx'[i].kind = "HostKeyChallenge"
      PROVE  FALSE
  <2>1. io_rx'[i].task \in IoTask /\ io[io_rx'[i].task].pc = "asked"
    BY <1>3, <1>5 DEF Fits, Own
  <2>2. Current(io_rx'[i].task)
    BY <2>1, AskedIsCurrent
  <2>3. io_rx'[i].task = t
    BY <2>1, <2>2 DEF Books, CarrierInv
  <2> QED BY <1>4, <2>1, <2>3
<1> QED BY <1>1, <1>3, <1>5 DEF Rest, NoQuestions

(* What the two ways out of a free slot have in common. *)
LEMMA SlotFits ==
  ASSUME NEW t \in IoTask, Rest(t), \A u \in IoTask \ {t} : io'[u] = io[u]
  PROVE  Fits(io_rx', io', in_flight')
BY FitsOther DEF Rest, NoQuestions

(* What a handler does to the connection besides. *)
ConnectionKept ==
  /\ ConnTypeOK'
  /\ generation' = generation
  /\ connected' => generation # 0
  /\ park' \in 0..generation

LEMMA FinishBooks ==
  ASSUME Books, NEW t \in IoTask, Rest(t), NEW session \in 0..generation,
         Finishes(t, session), ConnectionKept
  PROVE  Books'
<1>1. /\ io' \in [IoTask -> IoTasks]
      /\ io'[t] = IdleIo /\ \A u \in IoTask \ {t} : io'[u] = io[u]
      /\ in_flight' = NotInFlight /\ handle' = session
  BY IdleType DEF Finishes, Books, SessionTypeOK
<1>2. IdleIo.pc = "idle" /\ IdleIo.kind = "None" /\ IdleIo.generation = 0 /\ IdleIo.session = 0
  BY DEF IdleIo, NoSession
<1>3. generation \in 0..MaxGeneration
  BY DEF Books, SessionTypeOK
<1>4. SessionTypeOK'
  BY <1>1, <1>3, NotInFlightType, UiConstantsAssumption DEF SessionTypeOK, ConnectionKept
<1>5. TasksInv'
  BY <1>1, <1>2, <1>3 DEF Books, TasksInv, ConnectionKept
<1>6. \A u \in IoTask : ~Current(u)' /\ io'[u].kind # "Connect"
  BY <1>1, <1>2 DEF Rest, OthersAreStale, Live, Current, ConnectionKept
<1>7. ConnectsInv' /\ CarrierInv'
  BY <1>1, <1>6, NotInFlightType DEF ConnectsInv, CarrierInv, Connecting, ConnectionKept, IoBusy
<1> QED BY <1>1, <1>4, <1>5, <1>7, SlotFits DEF Books

LEMMA SpawnBooks ==
  ASSUME Books, NEW t \in IoTask, Rest(t), NEW session \in 0..generation,
         NEW kind \in {"List", "Fs"}, NEW remote \in BOOLEAN,
         SpawnsInto(t, kind, session, remote), ConnectionKept
  PROVE  Books'
<1> DEFINE new == NewTask(kind, session, remote)
<1>1. generation \in 0..MaxGeneration
  BY DEF Books, SessionTypeOK
<1>2. /\ new \in IoTasks /\ new.pc = "work" /\ new.kind = kind /\ new.generation = generation
      /\ new.session \in 0..generation
  BY <1>1, NewTaskType DEF NoSession
<1> HIDE DEF new
<1>3. /\ io' \in [IoTask -> IoTasks]
      /\ io'[t] = new /\ \A u \in IoTask \ {t} : io'[u] = io[u]
      /\ in_flight' = Waiting(kind, generation) /\ handle' \in 0..generation
  BY <1>1, <1>2 DEF SpawnsInto, Books, SessionTypeOK, NoSession, new
<1>4. /\ in_flight' \in Flights /\ in_flight'.kind = kind /\ in_flight'.generation = generation
  BY <1>1, <1>3, WaitingType
<1>5. SessionTypeOK'
  BY <1>1, <1>3, <1>4, UiConstantsAssumption DEF SessionTypeOK, ConnectionKept
<1>6. TasksInv'
  BY <1>1, <1>2, <1>3 DEF Books, TasksInv, ConnectionKept
<1>7. /\ Current(t)'
      /\ \A u \in IoTask \ {t} : ~Current(u)'
      /\ \A u \in IoTask : io'[u].kind # "Connect"
  BY <1>2, <1>3 DEF Rest, OthersAreStale, Live, Current, ConnectionKept
<1>8. ConnectsInv'
  BY <1>4, <1>7 DEF ConnectsInv, Connecting, ConnectionKept
<1>9. CarrierInv'
  BY <1>2, <1>3, <1>4, <1>7 DEF CarrierInv, IoBusy, Carries, ConnectionKept
<1> QED BY <1>3, <1>5, <1>6, <1>8, <1>9, SlotFits DEF Books

-----------------------------------------------------------------------------
(* The steps that need no free slot.                                       *)

Question(t) == [kind |-> "HostKeyChallenge", task |-> t]

Report(t) == [kind |-> "Done", task |-> t]

(* What a step of task t does to the session. *)
TaskMoves(t) ==
  /\ io' \in [IoTask -> IoTasks]
  /\ \A u \in IoTask \ {t} : io'[u] = io[u]
  /\ io'[t].kind = io[t].kind /\ io'[t].generation = io[t].generation
  /\ io'[t].server = io[t].server /\ io'[t].remote = io[t].remote
  /\ io[t].pc \notin {"idle", "asked", "sent"}
  /\ io'[t].pc \notin {"idle", "accepted"}
  /\ io'[t].pc \in {"asked", "login"} => io[t].kind = "Connect"
  /\ io'[t].pc = "park" => io[t].kind # "Connect"
  /\ io'[t].session \in {io[t].session, NoSession, io[t].generation}
  /\ io[t].kind = "Connect" =>
       \/ io'[t].ok = io[t].ok /\ io'[t].session = io[t].session
       \/ io'[t].session = io[t].generation
  /\ UNCHANGED <<connVars, in_flight, handle, prompt>>
  /\ park' \in {park, io[t].session}
  /\ \/ io_rx' = io_rx
     \/ io_rx' = Append(io_rx, Question(t)) /\ io[t].pc = "work" /\ io'[t].pc = "asked"
     \/ io_rx' = Append(io_rx, Report(t)) /\ io'[t].pc = "sent"

(* Updating a slot. *)
LEMMA SlotUpdate ==
  ASSUME NEW f \in [IoTask -> IoTasks], NEW t \in IoTask, NEW r \in IoTasks
  PROVE  /\ [f EXCEPT ![t] = r] \in [IoTask -> IoTasks]
         /\ [f EXCEPT ![t] = r][t] = r
         /\ \A u \in IoTask \ {t} : [f EXCEPT ![t] = r][u] = f[u]
OBVIOUS

LEMMA TaskSteps ==
  ASSUME Books, NEW t \in IoTask, IoStep(t)
  PROVE  TaskMoves(t)
<1> DEFINE r == io[t]
<1>1. io \in [IoTask -> IoTasks] /\ r \in IoTasks
  BY DEF Books, SessionTypeOK
<1>2. /\ r.pc = "park" => r.kind # "Connect"
      /\ r.pc \in {"asked", "accepted", "login"} => r.kind = "Connect"
  BY DEF Books, TasksInv
<1> HIDE DEF r
<1>3. ASSUME NEW p \in {"work", "asked", "login", "park", "report", "sent"}
      PROVE  LET s == [r EXCEPT !.pc = p]
             IN  s \in IoTasks /\ s.pc = p /\ s.kind = r.kind /\ s.generation = r.generation
                 /\ s.session = r.session /\ s.server = r.server /\ s.remote = r.remote /\ s.ok = r.ok
  BY <1>1 DEF IoTasks
<1>4. CASE CheckHostKey(t)
  <2>1. r.pc = "work" /\ r.kind = "Connect" /\ park' = park
    BY <1>4 DEF CheckHostKey, r
  <2>2. \/ Moves(t, [r EXCEPT !.pc = "login"]) /\ io_rx' = io_rx
        \/ Moves(t, [r EXCEPT !.pc = "asked"]) /\ io_rx' = Append(io_rx, Question(t))
    BY <1>4 DEF CheckHostKey, Question, r
  <2>3. ASSUME NEW p \in {"login", "asked"}, Moves(t, [r EXCEPT !.pc = p]),
               \/ io_rx' = io_rx
               \/ io_rx' = Append(io_rx, Question(t)) /\ p = "asked"
        PROVE  TaskMoves(t)
    BY <1>1, <1>3, <2>1, <2>3, SlotUpdate DEF Moves, TaskMoves, r
  <2> QED BY <2>2, <2>3
<1>5. CASE AppendKnownHost(t)
  BY <1>1, <1>2, <1>3, <1>5, SlotUpdate DEF AppendKnownHost, Moves, TaskMoves, r
<1>6. CASE ConnectFails(t)
  BY <1>1, <1>3, <1>6, SlotUpdate DEF ConnectFails, Moves, TaskMoves, r
<1>7. CASE Login(t)
  <2>1. LET s == [r EXCEPT !.pc = "report", !.ok = TRUE, !.session = r.generation]
        IN  s \in IoTasks /\ s.pc = "report" /\ s.kind = r.kind /\ s.generation = r.generation
            /\ s.session = r.generation /\ s.server = r.server /\ s.remote = r.remote
    BY <1>1 DEF IoTasks, Session
  <2> QED BY <1>1, <1>7, <2>1, SlotUpdate DEF Login, Moves, TaskMoves, r
<1>8. CASE WorkEnds(t, TRUE) \/ WorkEnds(t, FALSE)
  <2>1. ASSUME NEW s, \/ s = [r EXCEPT !.pc = "park", !.ok = TRUE]
                     \/ s = [r EXCEPT !.pc = "park", !.ok = FALSE]
        PROVE  s \in IoTasks /\ s.pc = "park" /\ s.kind = r.kind /\ s.generation = r.generation
               /\ s.session = r.session /\ s.server = r.server /\ s.remote = r.remote
    BY <1>1, <2>1 DEF IoTasks
  <2> QED BY <1>1, <1>8, <2>1, SlotUpdate DEF WorkEnds, Moves, TaskMoves, r
<1>9. CASE ParkSession(t)
  <2>1. LET s == [r EXCEPT !.pc = "report", !.session = NoSession]
        IN  s \in IoTasks /\ s.pc = "report" /\ s.kind = r.kind /\ s.generation = r.generation
            /\ s.session = NoSession /\ s.server = r.server /\ s.remote = r.remote
    <3>1. NoSession \in Session
      BY UiConstantsAssumption DEF Session, NoSession
    <3> QED BY <1>1, <3>1 DEF IoTasks
  <2> QED BY <1>1, <1>2, <1>9, <2>1, SlotUpdate DEF ParkSession, Moves, TaskMoves, r
<1>10. CASE ReportIo(t)
  BY <1>1, <1>3, <1>10, SlotUpdate DEF ReportIo, Moves, TaskMoves, Report, r
<1> QED
  BY <1>4, <1>5, <1>6, <1>7, <1>8, <1>9, <1>10 DEF IoStep

(* The channel has no message of a task that works. *)
LEMMA NoMessage ==
  ASSUME Books, NEW t \in IoTask, io[t].pc \notin {"asked", "sent"}
  PROVE  \A i \in 1..Len(io_rx) : io_rx[i].kind \in Own => io_rx[i].task # t
BY DEF Books, Fits, Own

LEMMA TaskBooks ==
  ASSUME Books, PromptInv, NEW S, io_rx \in Seq(S), NEW t \in IoTask,
         Question(t) \in S, Report(t) \in S, TaskMoves(t)
  PROVE  Books'
<1>1. generation' = generation /\ in_flight' = in_flight /\ connected' = connected /\ wanted' = wanted
  BY DEF TaskMoves, connVars
<1>2. /\ io[t].generation <= generation /\ io[t].session <= io[t].generation
      /\ io[t].generation \in 0..MaxGeneration /\ io[t].session \in 0..MaxGeneration
      /\ generation \in 0..MaxGeneration
  BY LiveKinds DEF Books, TasksInv, SessionTypeOK
<1>3. SessionTypeOK'
  BY <1>2 DEF Books, SessionTypeOK, ConnTypeOK, TaskMoves, connVars
<1>4. TasksInv'
  <2> SUFFICES ASSUME NEW u \in IoTask
               PROVE  /\ io'[u].pc = "idle" <=> io'[u].kind = "None"
                      /\ io'[u].generation <= generation
                      /\ io'[u].session <= io'[u].generation
                      /\ io'[u].pc \in {"asked", "accepted", "login"} => io'[u].kind = "Connect"
                      /\ io'[u].pc = "park" => io'[u].kind # "Connect"
    BY <1>1 DEF TasksInv
  <2>1. CASE u = t
    BY <1>2, <2>1 DEF Books, TasksInv, TaskMoves, NoSession
  <2>2. CASE u # t
    BY <2>2 DEF Books, TasksInv, TaskMoves
  <2> QED BY <2>1, <2>2
<1>5. \A u \in IoTask : Live(u)' = Live(u) /\ Current(u)' = Current(u) /\ Carries(u)' = Carries(u)
  BY <1>1 DEF TaskMoves, Live, Current, Carries
<1>6. ConnectsInv'
  <2> SUFFICES ASSUME NEW u \in IoTask, io'[u].kind = "Connect"
               PROVE  /\ io'[u].generation = generation /\ generation # 0
                      /\ Connecting
                      /\ io'[u].server \in Server /\ io'[u].server = wanted
                      /\ io'[u].ok => io'[u].session = generation
    BY <1>1 DEF Books, ConnectsInv, Connecting
  <2>1. CASE u = t
    BY <2>1 DEF Books, ConnectsInv, TaskMoves
  <2>2. CASE u # t
    BY <2>2 DEF Books, ConnectsInv, TaskMoves
  <2> QED BY <2>1, <2>2
<1>7. CarrierInv'
  BY <1>1, <1>5 DEF Books, CarrierInv, IoBusy
<1>8. \A i \in 1..Len(io_rx) : io_rx[i].kind \in Own => io_rx[i].task # t
  BY NoMessage DEF TaskMoves
<1>9. Fits(io_rx', io', in_flight')
  <2>1. CASE io_rx' = io_rx
    BY <1>1, <1>8, <2>1, FitsOther DEF Books, TaskMoves
  <2>2. CASE io_rx' = Append(io_rx, Question(t)) /\ io[t].pc = "work" /\ io'[t].pc = "asked"
    <3>1. Current(t) /\ io[t].kind = "Connect"
      BY <2>2 DEF TaskMoves, Books, ConnectsInv, Current, Live
    <3>2. in_flight.kind = "Connect"
      <4>1. in_flight.kind \in {"Connect", "HostKey"}
        BY <3>1 DEF Books, ConnectsInv, Connecting
      <4>2. ASSUME in_flight.kind = "HostKey" PROVE FALSE
        <5>1. Current(in_flight.reply)
          BY <4>2, AskedIsCurrent DEF PromptInv
        <5>2. in_flight.reply = t
          BY <3>1, <4>2, <5>1 DEF PromptInv, Books, CarrierInv
        <5> QED BY <2>2, <4>2, <5>2 DEF PromptInv
      <4> QED BY <4>1, <4>2
    <3>3. Question(t).kind = "HostKeyChallenge" /\ Question(t).task = t
      BY DEF Question
    <3> QED BY <1>1, <1>8, <2>2, <3>2, <3>3, FitsAppend DEF Books, TaskMoves, Own
  <2>3. CASE io_rx' = Append(io_rx, Report(t)) /\ io'[t].pc = "sent"
    <3>1. Report(t).kind = "Done" /\ Report(t).task = t
      BY DEF Report
    <3> QED BY <1>1, <1>8, <2>3, <3>1, FitsAppend DEF Books, TaskMoves, Own
  <2> QED BY <2>1, <2>2, <2>3 DEF TaskMoves
<1> QED BY <1>3, <1>4, <1>6, <1>7, <1>9 DEF Books

(* With a connection up no question is on its way. *)
LEMMA UpMeansNoQuestions ==
  ASSUME Books, connected
  PROVE  NoQuestions(io_rx) /\ \A t \in IoTask : io[t].kind # "Connect"
BY DEF Books, ConnectsInv, Connecting, Fits, NoQuestions

LEMMA ConnectBooks ==
  ASSUME Books, NEW t \in IoTask, NEW s \in Server, Connect(t, s)
  PROVE  Books' /\ connected' = FALSE /\ in_flight'.kind = "Connect"
         /\ \A u \in IoTask : io'[u].pc \in {io[u].pc, "work"}
<1> DEFINE new == [IdleIo EXCEPT !.pc = "work", !.kind = "Connect", !.generation = generation',
                                 !.server = s]
<1>1. generation \in 0..MaxGeneration /\ handle \in 0..generation /\ park \in 0..generation
      /\ connected \in BOOLEAN
  BY DEF Books, SessionTypeOK, ConnTypeOK
<1>2. /\ generation' \in 0..MaxGeneration /\ generation' > generation
      /\ connected' = FALSE /\ active_connection' \in Server \cup {NoServer}
      /\ handle' \in 0..generation' /\ park' \in 0..generation'
  <2>1. CASE connected \/ handle # NoSession
    BY <1>1, <2>1, UiConstantsAssumption DEF Connect, DropsConnection, NoSession
  <2>2. CASE ~(connected \/ handle # NoSession)
    BY <1>1, <2>2, UiConstantsAssumption DEF Connect, Books, SessionTypeOK, ConnTypeOK
  <2> QED BY <2>1, <2>2
<1>3. /\ new \in IoTasks /\ new.pc = "work" /\ new.kind = "Connect"
      /\ new.generation = generation' /\ new.session = NoSession /\ new.server = s /\ ~new.ok
  <2>1. ASSUME NEW g \in 0..MaxGeneration
        PROVE  LET r == [IdleIo EXCEPT !.pc = "work", !.kind = "Connect", !.generation = g,
                                       !.server = s]
               IN  /\ r \in IoTasks /\ r.pc = "work" /\ r.kind = "Connect"
                   /\ r.generation = g /\ r.session = NoSession /\ r.server = s /\ r.ok = FALSE
    <3>1. s \in Server \cup {NoServer} /\ NoSession \in Session
      BY UiConstantsAssumption DEF Session, NoSession
    <3> QED BY <3>1 DEF IdleIo, IoTasks
  <2> QED BY <1>2, <2>1
<1> HIDE DEF new
<1>4. /\ io' \in [IoTask -> IoTasks]
      /\ io'[t] = new /\ \A u \in IoTask \ {t} : io'[u] = io[u]
      /\ in_flight' = Waiting("Connect", generation') /\ wanted' = s /\ clean' \in BOOLEAN
      /\ io_rx' = io_rx /\ ~IoBusy /\ io[t].pc = "idle"
  BY <1>3 DEF Connect, Books, SessionTypeOK, new
<1>5. in_flight' \in Flights /\ in_flight'.kind = "Connect" /\ in_flight'.generation = generation'
  BY <1>2, <1>4, WaitingType
<1>6. Rest(t)
  BY <1>4, FreeSlot
<1>7. SessionTypeOK'
  <2>1. ConnTypeOK'
    BY <1>2, <1>4 DEF ConnTypeOK
  <2>2. in_flight'.generation <= generation'
    BY <1>2, <1>5
  <2> QED BY <1>2, <1>4, <1>5, <2>1, <2>2 DEF SessionTypeOK
<1>8. \A u \in IoTask : io[u].generation \in 0..generation
  BY LiveKinds DEF Books, TasksInv
<1>9. TasksInv'
  BY <1>1, <1>2, <1>3, <1>4, <1>8 DEF Books, TasksInv, NoSession
<1>10. /\ Current(t)' /\ \A u \in IoTask \ {t} : ~Current(u)' /\ io'[u].kind # "Connect"
  BY <1>1, <1>2, <1>3, <1>4, <1>6, <1>8 DEF Rest, OthersAreStale, Live, Current
<1>11. ConnectsInv'
  BY <1>1, <1>2, <1>3, <1>4, <1>5, <1>10 DEF ConnectsInv, Connecting
<1>12. CarrierInv'
  BY <1>3, <1>4, <1>5, <1>10 DEF CarrierInv, IoBusy, Carries
<1>13. \A u \in IoTask : io'[u].pc \in {io[u].pc, "work"}
  BY <1>3, <1>4
<1> QED BY <1>2, <1>4, <1>5, <1>6, <1>7, <1>9, <1>11, <1>12, <1>13, SlotFits DEF Books

LEMMA DisconnectBooks ==
  ASSUME Books, Disconnect
  PROVE  Books' /\ in_flight.kind # "HostKey"
<1>1. generation \in 0..MaxGeneration /\ generation' = generation + 1 /\ io' = io /\ io_rx' = io_rx
      /\ in_flight' = NotInFlight /\ connected' = FALSE /\ handle' = 0 /\ park' = 0
      /\ generation' \in 0..MaxGeneration
  BY UiConstantsAssumption DEF Disconnect, DropsConnection, Books, SessionTypeOK, NoSession
<1>2. SessionTypeOK'
  <2>1. ConnTypeOK'
    BY DEF Disconnect, DropsConnection, Books, SessionTypeOK, ConnTypeOK
  <2>2. in_flight' \in Flights /\ in_flight'.generation <= generation'
    BY <1>1, NotInFlightType
  <2>3. io' \in [IoTask -> IoTasks]
    BY <1>1 DEF Books, SessionTypeOK
  <2>4. handle' \in 0..generation' /\ park' \in 0..generation'
    BY <1>1
  <2> QED BY <1>1, <2>1, <2>2, <2>3, <2>4 DEF SessionTypeOK
<1>3. \A u \in IoTask : io[u].generation \in 0..generation
  BY LiveKinds DEF Books, TasksInv
<1>4. TasksInv' /\ \A u \in IoTask : ~Current(u)'
  BY <1>1, <1>3 DEF Books, TasksInv, Current
<1>5. NoQuestions(io_rx) /\ \A u \in IoTask : io[u].kind # "Connect"
  BY UpMeansNoQuestions DEF Disconnect
<1>6. ConnectsInv' /\ CarrierInv'
  BY <1>1, <1>4, <1>5, NotInFlightType DEF ConnectsInv, CarrierInv, Connecting, IoBusy
<1>7. Fits(io_rx', io', in_flight')
  BY <1>1, <1>5 DEF Books, Fits, NoQuestions
<1>8. in_flight.kind # "HostKey"
  BY DEF Disconnect, Books, ConnectsInv, Connecting
<1> QED BY <1>2, <1>4, <1>6, <1>7, <1>8 DEF Books

LEMMA StaleBooks ==
  ASSUME Books, NEW S, io_rx \in Seq(S), NEW t \in IoTask, StaleWorkDone(t)
  PROVE  Books' /\ io'[t] = IdleIo /\ ~Current(t) /\ io[t].pc = "sent"
<1>1. /\ io_rx # <<>> /\ io_rx' = Tail(io_rx) /\ Head(io_rx).kind = "Done" /\ Head(io_rx).task = t
      /\ io[t].generation # generation
  BY DEF StaleWorkDone, DoneOf, Receives
<1>2. /\ io' \in [IoTask -> IoTasks]
      /\ io'[t] = IdleIo /\ \A u \in IoTask \ {t} : io'[u] = io[u]
      /\ UNCHANGED <<connVars, in_flight, handle, prompt>> /\ park' = 0
  BY IdleType DEF StaleWorkDone, Books, SessionTypeOK, NoSession
<1>3. IdleIo.pc = "idle" /\ IdleIo.kind = "None" /\ IdleIo.generation = 0 /\ IdleIo.session = 0
  BY DEF IdleIo, NoSession
<1>4. generation \in 0..MaxGeneration
  BY DEF Books, SessionTypeOK
<1>5. SessionTypeOK'
  BY <1>2, <1>4 DEF Books, SessionTypeOK, ConnTypeOK, connVars
<1>6. TasksInv'
  BY <1>2, <1>3, <1>4 DEF Books, TasksInv, connVars
<1>7. \A u \in IoTask : Current(u)' <=> Current(u)
  BY <1>1, <1>2, <1>3 DEF Current, Live, connVars
<1>8. \A u \in IoTask : Current(u) => io'[u] = io[u]
  BY <1>1, <1>2 DEF Current
<1>9. ConnectsInv'
  BY <1>2, <1>3 DEF Books, ConnectsInv, Connecting, connVars
<1>10. CarrierInv'
  BY <1>2, <1>7, <1>8 DEF Books, CarrierInv, IoBusy, Carries, connVars
<1>11. Fits(io_rx', io', in_flight')
  <2>1. /\ Fits(Tail(io_rx), io, in_flight)
        /\ \A i \in 1..Len(Tail(io_rx)) : Tail(io_rx)[i].kind \in Own => Tail(io_rx)[i].task # t
    BY <1>1, FitsTail DEF Books, Own
  <2> QED BY <1>1, <1>2, <2>1, FitsOther
<1>12. io[t].pc = "sent"
  <2>1. Head(io_rx) = io_rx[1] /\ 1 \in 1..Len(io_rx)
    BY <1>1
  <2> QED BY <1>1, <2>1 DEF Books, Fits
<1> QED BY <1>1, <1>2, <1>5, <1>6, <1>9, <1>10, <1>11, <1>12 DEF Books, Current

(* The question of the connect in flight: it is always that one's. *)
LEMMA ChallengeBooks ==
  ASSUME Books, NEW S, io_rx \in Seq(S), NEW t \in IoTask, HostKeyChallenge(t)
  PROVE  /\ Books' /\ io' = io /\ io[t].pc = "asked" /\ Current(t) /\ prompt' = "HostKey"
         /\ in_flight'.kind = "HostKey" /\ in_flight'.reply = t /\ in_flight.kind = "Connect"
<1>1. /\ io_rx # <<>> /\ io_rx' = Tail(io_rx) /\ Head(io_rx).kind = "HostKeyChallenge"
      /\ Head(io_rx).task = t
      /\ UNCHANGED <<connVars, handle, park, trustVars>>
  BY DEF HostKeyChallenge, Receives
<1>2. io[t].pc = "asked" /\ in_flight.kind = "Connect"
  <2>1. Head(io_rx) = io_rx[1] /\ 1 \in 1..Len(io_rx)
    BY <1>1
  <2> QED BY <1>1, <2>1 DEF Books, Fits
<1>3. Current(t)
  BY <1>2, AskedIsCurrent
<1>4. in_flight.generation = generation
  BY <1>3 DEF Books, CarrierInv
<1>5. io' = io /\ prompt' = "HostKey" /\ in_flight' = [in_flight EXCEPT !.kind = "HostKey", !.reply = t]
  BY <1>2, <1>3, <1>4 DEF HostKeyChallenge, Current
<1>6. /\ in_flight' \in Flights /\ in_flight'.kind = "HostKey" /\ in_flight'.reply = t
      /\ in_flight'.generation = generation
  BY <1>4, <1>5 DEF Books, SessionTypeOK, Flights
<1>7. SessionTypeOK'
  BY <1>1, <1>4, <1>5, <1>6 DEF Books, SessionTypeOK, ConnTypeOK, connVars
<1>8. TasksInv' /\ ConnectsInv'
  BY <1>1, <1>2, <1>5, <1>6 DEF Books, TasksInv, ConnectsInv, Connecting, connVars
<1>9. CarrierInv'
  BY <1>1, <1>2, <1>3, <1>4, <1>5, <1>6
     DEF Books, CarrierInv, IoBusy, Carries, Current, Live, connVars
<1>10. Fits(io_rx', io', in_flight')
  <2>1. /\ Fits(io_rx', io, in_flight)
        /\ \A i \in 1..Len(io_rx') : io_rx'[i].kind \in Own => io_rx'[i].task # t
    BY <1>1, FitsTail DEF Books, Own
  <2>2. ASSUME NEW i \in 1..Len(io_rx'), io_rx'[i].kind = "HostKeyChallenge" PROVE FALSE
    <3>1. io_rx'[i].task \in IoTask /\ io[io_rx'[i].task].pc = "asked" /\ io_rx'[i].task # t
      BY <2>1, <2>2 DEF Fits, Own
    <3>2. Current(io_rx'[i].task)
      BY <3>1, AskedIsCurrent
    <3> QED BY <1>3, <3>1, <3>2 DEF Books, CarrierInv
  <2>3. Fits(io_rx', io, in_flight')
    BY <2>1, <2>2 DEF Fits
  <2> QED BY <1>5, <2>3
<1> QED BY <1>2, <1>3, <1>5, <1>6, <1>7, <1>8, <1>9, <1>10 DEF Books

LEMMA AnswerBooks ==
  ASSUME Books, PromptInv, NEW yes \in BOOLEAN, AnswerHostKey(yes)
  PROVE  /\ Books' /\ prompt' = "None" /\ in_flight'.kind = "Connect" /\ Connecting
         /\ in_flight.reply \in IoTask /\ Current(in_flight.reply)
         /\ \A u \in IoTask \ {in_flight.reply} : io'[u] = io[u]
         /\ io'[in_flight.reply].pc \in {"accepted", "report"}
         /\ io'[in_flight.reply].pc = "accepted" => yes
         /\ io'[in_flight.reply].kind = "Connect"
         /\ io'[in_flight.reply].server = io[in_flight.reply].server
<1> DEFINE t == in_flight.reply
<1>1. /\ in_flight.kind = "HostKey" /\ t \in IoTask /\ io[t].pc = "asked"
      /\ prompt' = "None" /\ UNCHANGED <<connVars, handle, park, io_rx>>
  BY DEF AnswerHostKey, PromptInv
<1>2. /\ io' = Replied(t, yes)
      /\ in_flight' = [in_flight EXCEPT !.kind = "Connect", !.reply = NoTask]
  BY <1>1 DEF AnswerHostKey
<1> HIDE DEF t
<1>3. Current(t) /\ io[t].kind = "Connect"
  BY <1>1, AskedIsCurrent
<1>4. in_flight.generation = generation
  BY <1>1, <1>3 DEF Books, CarrierInv
<1>5. in_flight' \in Flights /\ in_flight'.kind = "Connect" /\ in_flight'.generation = generation
  BY <1>2, <1>4 DEF Books, SessionTypeOK, Flights
<1>6. /\ io' \in [IoTask -> IoTasks]
      /\ \A u \in IoTask \ {t} : io'[u] = io[u]
      /\ io'[t].pc = IF yes THEN "accepted" ELSE "report"
      /\ io'[t].kind = "Connect" /\ io'[t].generation = io[t].generation
      /\ io'[t].server = io[t].server /\ io'[t].session = io[t].session /\ io'[t].ok = io[t].ok
  <2>1. io[t] \in IoTasks /\ io \in [IoTask -> IoTasks]
    BY <1>1 DEF Books, SessionTypeOK
  <2>2. ASSUME NEW p \in {"accepted", "report"}
        PROVE  LET r == [io[t] EXCEPT !.pc = p]
               IN  r \in IoTasks /\ r.pc = p /\ r.kind = io[t].kind /\ r.generation = io[t].generation
                   /\ r.server = io[t].server /\ r.session = io[t].session /\ r.ok = io[t].ok
    BY <2>1 DEF IoTasks
  <2>3. Replied(t, yes) = [io EXCEPT ![t] = [io[t] EXCEPT !.pc = IF yes THEN "accepted" ELSE "report"]]
    BY DEF Replied
  <2> QED BY <1>1, <1>2, <1>3, <2>1, <2>2, <2>3, SlotUpdate
<1>7. SessionTypeOK'
  BY <1>1, <1>4, <1>5, <1>6 DEF Books, SessionTypeOK, ConnTypeOK, connVars
<1>8. TasksInv'
  <2> SUFFICES ASSUME NEW u \in IoTask
               PROVE  /\ io'[u].pc = "idle" <=> io'[u].kind = "None"
                      /\ io'[u].generation <= generation
                      /\ io'[u].session <= io'[u].generation
                      /\ io'[u].pc \in {"asked", "accepted", "login"} => io'[u].kind = "Connect"
                      /\ io'[u].pc = "park" => io'[u].kind # "Connect"
    BY <1>1 DEF TasksInv, connVars
  <2>1. CASE u = t
    BY <1>3, <1>6, <2>1 DEF Books, TasksInv
  <2>2. CASE u # t
    BY <1>6, <2>2 DEF Books, TasksInv
  <2> QED BY <2>1, <2>2
<1>9. \A u \in IoTask : /\ io'[u].kind = io[u].kind /\ io'[u].generation = io[u].generation
                        /\ io'[u].server = io[u].server /\ io'[u].session = io[u].session
                        /\ io'[u].ok = io[u].ok
  BY <1>1, <1>3, <1>6
<1>10. ConnectsInv'
  BY <1>1, <1>5, <1>9 DEF Books, ConnectsInv, Connecting, connVars
<1>11. \A u \in IoTask : Current(u)' <=> Current(u)
  BY <1>1, <1>9 DEF Current, Live, connVars
<1>12. CarrierInv'
  BY <1>1, <1>4, <1>5, <1>9, <1>11 DEF Books, CarrierInv, IoBusy, Carries, connVars
<1>13. Fits(io_rx', io', in_flight')
  <2>1. \A i \in 1..Len(io_rx) : io_rx[i].kind # "HostKeyChallenge"
    BY <1>1 DEF Books, Fits
  <2>2. \A i \in 1..Len(io_rx) : io_rx[i].kind \in Own => io_rx[i].task # t
    BY <1>1, <2>1 DEF Books, Fits, Own
  <2> QED BY <1>1, <1>6, <2>1, <2>2, FitsOther DEF Books
<1> QED
  BY <1>1, <1>3, <1>5, <1>6, <1>7, <1>8, <1>10, <1>12, <1>13 DEF Books, Connecting, t

(* A key or a prompt that has nothing to do with the session. *)
LEMMA SameBooks ==
  ASSUME Books, UNCHANGED <<connVars, in_flight, handle, park, io_rx, io>>
  PROVE  Books'
BY DEF Books, SessionTypeOK, ConnTypeOK, TasksInv, ConnectsInv, CarrierInv, Fits, connVars,
       Connecting, IoBusy, Current, Live, Carries

-----------------------------------------------------------------------------
(* The reports of work and of connects, as UiSession handles them.         *)

LEMMA ConnectReports ==
  ASSUME Books, NEW S, io_rx \in Seq(S), NEW t \in IoTask,
         ConnectUp(t) \/ ConnectDown(t)
  PROVE  /\ Rest(t) /\ Current(t) /\ ConnectionKept /\ Connecting /\ io[t].kind = "Connect"
         /\ io[t].session \in 0..generation
         /\ ConnectUp(t) => io[t].session = generation
<1>1. DoneOf("Connect", t) /\ io[t].generation = generation /\ Connecting /\ generation' = generation
  BY DEF ConnectUp, ConnectDown, ExpectsConnect, Connecting
<1>2. Current(t) /\ Receives("Done", t) /\ io[t].kind = "Connect"
  BY <1>1 DEF DoneOf, Current, Live
<1>3. Rest(t)
  BY <1>2, Reported
<1>4. /\ generation \in 0..MaxGeneration /\ park \in 0..generation /\ ConnTypeOK
      /\ io[t].server \in Server /\ generation # 0
      /\ io[t].session \in 0..generation
      /\ io[t].ok => io[t].session = generation
  BY <1>1, <1>2, LiveKinds DEF Books, SessionTypeOK, ConnectsInv, TasksInv
<1>5. ConnTypeOK'
  <2>1. CASE ConnectUp(t)
    BY <1>4, <2>1 DEF ConnTypeOK, ConnectUp
  <2>2. CASE ConnectDown(t)
    BY <1>4, <2>2 DEF ConnTypeOK, ConnectDown
  <2> QED BY <2>1, <2>2
<1>6. park' \in 0..generation
  BY <1>4 DEF ConnectUp, ConnectDown, NoSession
<1> QED
  BY <1>1, <1>2, <1>3, <1>4, <1>5, <1>6 DEF ConnectionKept, ConnectUp

LEMMA WorkReports ==
  ASSUME Books, NEW S, io_rx \in Seq(S), NEW t \in IoTask, NEW kind \in {"List", "Fs"},
         TakesReport(kind, t)
  PROVE  /\ Rest(t) /\ Current(t) /\ ConnectionKept /\ io[t].kind = kind /\ in_flight.kind = kind
         /\ io[t].pc = "sent" /\ Adopted \in 0..generation /\ io[t].remote \in BOOLEAN
<1>1. /\ Receives("Done", t) /\ io[t].kind = kind /\ io[t].generation = generation
      /\ in_flight.kind = kind /\ park' = 0 /\ UNCHANGED connVars
  BY DEF TakesReport, DoneOf, NoSession
<1>2. Current(t)
  BY <1>1 DEF Current, Live
<1>3. Rest(t)
  BY <1>1, <1>2, Reported
<1>4. generation \in 0..MaxGeneration /\ handle \in 0..generation /\ park \in 0..generation
      /\ ConnTypeOK /\ (connected => generation # 0)
  BY DEF Books, SessionTypeOK, ConnectsInv
<1>5. ConnectionKept
  BY <1>1, <1>4 DEF ConnectionKept, ConnTypeOK, connVars
<1>6. io[t].pc = "sent"
  <2>1. io_rx # <<>> /\ Head(io_rx).kind = "Done" /\ Head(io_rx).task = t
    BY <1>1 DEF Receives
  <2>2. Head(io_rx) = io_rx[1] /\ 1 \in 1..Len(io_rx)
    BY <2>1
  <2> QED BY <2>1, <2>2 DEF Books, Fits
<1> QED BY <1>1, <1>2, <1>3, <1>4, <1>5, <1>6, LiveKinds DEF Adopted, Books

LEMMA RequestKeeps ==
  ASSUME Books, UNCHANGED <<connVars, park>>
  PROVE  ConnectionKept /\ handle \in 0..generation
<1>1. generation \in 0..MaxGeneration /\ handle \in 0..generation /\ park \in 0..generation
      /\ ConnTypeOK /\ (connected => generation # 0)
  BY DEF Books, SessionTypeOK, ConnectsInv
<1> QED BY <1>1 DEF ConnectionKept, ConnTypeOK, connVars

-----------------------------------------------------------------------------
(* The question about a host key.                                          *)

LEMMA NoPrompt ==
  ASSUME in_flight'.kind # "HostKey", prompt' # "HostKey"
  PROVE  PromptInv'
BY DEF PromptInv

LEMMA TaskPrompt ==
  ASSUME PromptInv, NEW t \in IoTask, TaskMoves(t)
  PROVE  PromptInv'
BY DEF PromptInv, TaskMoves, connVars

(* A connect that reports is not asking. *)
LEMMA ReportedIsNotAsked ==
  ASSUME Books, PromptInv, NEW t \in IoTask, Current(t), io[t].pc # "asked"
  PROVE  in_flight.kind # "HostKey" /\ prompt # "HostKey"
<1> SUFFICES ASSUME in_flight.kind = "HostKey" PROVE FALSE
  BY DEF PromptInv
<1>1. in_flight.reply \in IoTask /\ io[in_flight.reply].pc = "asked"
  BY DEF PromptInv
<1>2. Current(in_flight.reply)
  BY <1>1, AskedIsCurrent
<1>3. in_flight.reply = t
  BY <1>1, <1>2 DEF Books, CarrierInv
<1> QED BY <1>1, <1>3

LEMMA ChallengePrompt ==
  ASSUME Books, NEW S, io_rx \in Seq(S), NEW t \in IoTask, HostKeyChallenge(t)
  PROVE  PromptInv'
<1>1. generation' = generation
  BY DEF HostKeyChallenge, connVars
<1> QED BY <1>1, ChallengeBooks DEF PromptInv, Current

-----------------------------------------------------------------------------
(* The keys.                                                               *)

LEMMA TrustKept ==
  ASSUME TrustInv, UNCHANGED trustVars,
         \A u \in IoTask : io'[u].pc = "accepted" => io[u].pc = "accepted" /\ io'[u].server = io[u].server
  PROVE  TrustInv'
BY DEF TrustInv, trustVars

LEMMA TaskTrust ==
  ASSUME Books, TrustInv, NEW t \in IoTask, IoStep(t)
  PROVE  TrustInv'
<1>1. TaskMoves(t)
  BY TaskSteps
<1>2. \A u \in IoTask : io'[u].pc = "accepted" => io'[u] = io[u]
  BY <1>1 DEF TaskMoves
<1>3. \/ UNCHANGED trustVars
      \/ /\ io[t].pc = "accepted"
         /\ known_hosts' = known_hosts \cup {io[t].server} /\ approved' = approved
  BY DEF IoStep, CheckHostKey, AppendKnownHost, ConnectFails, Login, WorkEnds, ParkSession, ReportIo
<1> QED BY <1>2, <1>3 DEF TrustInv, trustVars

LEMMA AnswerTrust ==
  ASSUME Books, PromptInv, TrustInv, NEW yes \in BOOLEAN, AnswerHostKey(yes)
  PROVE  TrustInv'
<1> DEFINE t == in_flight.reply
<1>1. /\ t \in IoTask /\ \A u \in IoTask \ {t} : io'[u] = io[u]
      /\ io'[t].pc = "accepted" => yes
      /\ io'[t].server = io[t].server /\ Current(t)
  BY AnswerBooks
<1>2. in_flight.kind = "HostKey" /\ io[t].pc = "asked"
  BY DEF AnswerHostKey, PromptInv
<1>3. /\ known_hosts' = known_hosts
      /\ approved' = IF yes THEN approved \cup {io[t].server} ELSE approved
  BY <1>2 DEF AnswerHostKey
<1>4. io[t].server \in Server
  BY <1>1, <1>2, AskedIsCurrent DEF Books, ConnectsInv
<1> HIDE DEF t
<1> QED BY <1>1, <1>3, <1>4 DEF TrustInv

-----------------------------------------------------------------------------
(* Where the session is.                                                   *)

LEMMA WorkSteps ==
  ASSUME Books, NEW t \in IoTask, IoStep(t), io[t].kind \in {"List", "Fs"}
  PROVE  \/ /\ io[t].pc = "work" /\ io'[t].pc = "park" /\ io'[t].session = io[t].session
            /\ park' = park
         \/ /\ io[t].pc = "park" /\ io'[t].pc = "report" /\ io'[t].session = NoSession
            /\ park' = IF io[t].session = NoSession THEN park ELSE io[t].session
         \/ /\ io[t].pc = "report" /\ io'[t].pc = "sent" /\ io'[t].session = io[t].session
            /\ park' = park
<1>1. io \in [IoTask -> IoTasks] /\ io[t] \in IoTasks
  BY DEF Books, SessionTypeOK
<1>2. io[t].pc \notin {"asked", "accepted", "login"}
  BY DEF Books, TasksInv
<1>3. ~CheckHostKey(t) /\ ~AppendKnownHost(t) /\ ~ConnectFails(t) /\ ~Login(t)
  BY <1>2 DEF CheckHostKey, AppendKnownHost, ConnectFails, Login
<1>4. CASE WorkEnds(t, TRUE) \/ WorkEnds(t, FALSE)
  BY <1>1, <1>4 DEF WorkEnds, Moves, IoTasks
<1>5. CASE ParkSession(t)
  BY <1>1, <1>5 DEF ParkSession, Moves, IoTasks
<1>6. CASE ReportIo(t)
  BY <1>1, <1>6 DEF ReportIo, Moves, IoTasks
<1> QED BY <1>3, <1>4, <1>5, <1>6 DEF IoStep

LEMMA TaskSession ==
  ASSUME Books, SessionInv, NEW t \in IoTask, IoStep(t)
  PROVE  SessionInv'
<1>1. TaskMoves(t)
  BY TaskSteps
<1>2. /\ UNCHANGED <<generation, connected, clean, in_flight, handle>>
      /\ \A u \in IoTask \ {t} : io'[u] = io[u]
  BY <1>1 DEF TaskMoves, connVars
<1>3. \A u \in IoTask : Live(u)' = Live(u) /\ Current(u)' = Current(u)
  BY <1>1, <1>2 DEF TaskMoves, Live, Current
<1>4. Live(t)
  BY <1>1 DEF TaskMoves, Books, TasksInv, Live
<1>5. \A u \in IoTask : io'[u].kind \in {"List", "Fs"} /\ ~io'[u].remote => io'[u].session = NoSession
  <2> SUFFICES ASSUME NEW u \in IoTask, io'[u].kind \in {"List", "Fs"}, ~io'[u].remote
               PROVE  io'[u].session = NoSession
    OBVIOUS
  <2>1. CASE u # t
    BY <1>2, <2>1 DEF SessionInv
  <2>2. CASE u = t
    <3>1. io[t].kind \in {"List", "Fs"} /\ io[t].session = NoSession
      BY <1>1, <2>2 DEF TaskMoves, SessionInv
    <3> QED BY <2>2, <3>1, WorkSteps
  <2> QED BY <2>1, <2>2
<1>6. clean /\ (connected \/ Connecting) => \A u \in IoTask : Live(u)' => Current(u)'
  BY <1>3 DEF SessionInv
<1>7. ASSUME clean, connected
      PROVE  IoBusy /\ \A u \in IoTask : Current(u) => u = t /\ HasSession(t)'
  <2>1. Current(t) /\ IoBusy
    BY <1>4, <1>7 DEF SessionInv, Books, CarrierInv
  <2>2. \A u \in IoTask : Current(u) => u = t
    BY <2>1 DEF Books, CarrierInv
  <2>3. io[t].kind \in {"List", "Fs"} /\ generation # 0
    BY <1>4, <1>7, LiveKinds DEF Books, ConnectsInv
  <2>4. HasSession(t)
    BY <1>7, <2>1 DEF SessionInv
  <2>5. io'[t].remote = io[t].remote
    BY <1>1 DEF TaskMoves
  <2>6. ~io[t].remote => io[t].session = NoSession
    BY <2>3 DEF SessionInv
  <2>7. HasSession(t)'
    BY <1>2, <2>3, <2>4, <2>5, <2>6, WorkSteps DEF HasSession, NoSession
  <2> QED BY <2>1, <2>2, <2>7
<1> QED BY <1>2, <1>3, <1>5, <1>6, <1>7 DEF SessionInv, Connecting, IoBusy

(* Ending or starting work with the session of the connection. *)
LEMMA FinishSession ==
  ASSUME Books, SessionInv, NEW t \in IoTask, Rest(t), ConnectionKept, NEW session,
         Finishes(t, session), clean' = clean,
         clean /\ connected' => (connected \/ Connecting) /\ session = generation
  PROVE  SessionInv'
<1>1. /\ io'[t] = IdleIo /\ \A u \in IoTask \ {t} : io'[u] = io[u]
      /\ in_flight' = NotInFlight /\ handle' = session /\ generation' = generation
  BY DEF Finishes, ConnectionKept, Books, SessionTypeOK
<1>2. IdleIo.kind = "None" /\ in_flight'.kind = "None"
  BY <1>1, NotInFlightType DEF IdleIo
<1>3. \A u \in IoTask : io'[u].kind \in {"List", "Fs"} /\ ~io'[u].remote => io'[u].session = NoSession
  BY <1>1, <1>2 DEF SessionInv
<1>4. clean' /\ connected' => \A u \in IoTask : Live(u)' => Current(u)'
  BY <1>1, <1>2 DEF SessionInv, Live, Current
<1> QED BY <1>1, <1>2, <1>3, <1>4 DEF SessionInv, Connecting, IoBusy

LEMMA SpawnSession ==
  ASSUME Books, SessionInv, NEW t \in IoTask, Rest(t), ConnectionKept,
         NEW session \in 0..generation, NEW kind \in {"List", "Fs"}, NEW remote \in BOOLEAN,
         SpawnsInto(t, kind, session, remote), clean' = clean,
         clean /\ connected' => (connected \/ Connecting) /\ session = generation
  PROVE  SessionInv'
<1> DEFINE new == NewTask(kind, session, remote)
<1>1. /\ new.pc = "work" /\ new.kind = kind /\ new.generation = generation
      /\ new.session = IF remote THEN session ELSE NoSession
      /\ new.remote = remote
  BY NewTaskType DEF Books, SessionTypeOK
<1> HIDE DEF new
<1>2. /\ io'[t] = new /\ \A u \in IoTask \ {t} : io'[u] = io[u]
      /\ in_flight' = Waiting(kind, generation)
      /\ handle' = IF remote THEN NoSession ELSE session
      /\ generation' = generation
  BY DEF SpawnsInto, ConnectionKept, Books, SessionTypeOK, new
<1>3. in_flight'.kind = kind
  BY <1>2, WaitingType DEF Books, SessionTypeOK
<1>4. \A u \in IoTask : io'[u].kind \in {"List", "Fs"} /\ ~io'[u].remote => io'[u].session = NoSession
  BY <1>1, <1>2 DEF SessionInv
<1>5. clean' /\ connected' => \A u \in IoTask : Live(u)' => Current(u)'
  BY <1>1, <1>2 DEF SessionInv, Live, Current
<1>6. \A u \in IoTask : Current(u)' => u = t
  BY <1>2 DEF Rest, OthersAreStale, Live, Current
<1>7. clean' /\ connected' => HasSession(t)'
  BY <1>1, <1>2 DEF HasSession
<1> QED BY <1>3, <1>4, <1>5, <1>6, <1>7 DEF SessionInv, Connecting, IoBusy

(* The session that a report brings back. *)
LEMMA AdoptsSession ==
  ASSUME Books, SessionInv, NEW S, io_rx \in Seq(S), NEW t \in IoTask, NEW kind \in {"List", "Fs"},
         TakesReport(kind, t), clean, connected
  PROVE  Adopted = generation
<1>1. Current(t) /\ io[t].pc = "sent" /\ IoBusy
  BY WorkReports DEF Books, CarrierInv
<1>2. HasSession(t) /\ generation # 0
  BY <1>1 DEF SessionInv, Books, ConnectsInv
<1> QED BY <1>1, <1>2 DEF Adopted, HasSession, NoSession

(* The slot of a task that ended or starts. *)
LEMMA FinishSlot ==
  ASSUME Books, NEW t \in IoTask, NEW session, Finishes(t, session)
  PROVE  /\ in_flight'.kind = "None" /\ io'[t].pc = "idle"
         /\ \A u \in IoTask \ {t} : io'[u] = io[u]
BY NotInFlightType DEF Finishes, IdleIo, Books, SessionTypeOK

LEMMA SpawnSlot ==
  ASSUME Books, NEW t \in IoTask, NEW session \in 0..generation, NEW kind \in {"List", "Fs"},
         NEW remote \in BOOLEAN, SpawnsInto(t, kind, session, remote)
  PROVE  /\ in_flight'.kind = kind /\ io'[t].pc = "work"
         /\ \A u \in IoTask \ {t} : io'[u] = io[u]
<1>1. io \in [IoTask -> IoTasks] /\ generation \in 0..MaxGeneration
  BY DEF Books, SessionTypeOK
<1> QED BY <1>1, WaitingType, NewTaskType DEF SpawnsInto

(* What is in flight is what one task will report. *)
LEMMA AnsweredWhileBusy ==
  ASSUME Books
  PROVE  BusyIsAnswered
<1> SUFFICES ASSUME IoBusy
             PROVE  /\ in_flight.generation = generation
                    /\ \E t \in IoTask : \A u \in IoTask : Carries(u) <=> u = t
  BY DEF BusyIsAnswered
<1>1. in_flight.generation = generation
  BY DEF Books, CarrierInv
<1>2. PICK t \in IoTask : Current(t)
  BY DEF Books, CarrierInv
<1>3. ASSUME NEW u \in IoTask PROVE Carries(u) <=> u = t
  <2>1. Carries(u) => Current(u)
    BY <1>1 DEF Carries, Current, Live, IoBusy
  <2> QED BY <1>2, <2>1 DEF Books, CarrierInv
<1> QED BY <1>1, <1>2, <1>3

-----------------------------------------------------------------------------
(* Every operation keeps the core.                                         *)

(* A step of a task, here and wherever the channel carries more. *)
LEMMA IoStepCore ==
  ASSUME UiCore, NEW S, io_rx \in Seq(S), NEW t \in IoTask,
         Question(t) \in S, Report(t) \in S, IoStep(t)
  PROVE  UiCore'
BY TaskSteps, TaskBooks, TaskPrompt, TaskTrust, TaskSession DEF UiCore

(* The slot of a task serves the next one, or none. *)
Serves(t, session) ==
  \/ Finishes(t, session)
  \/ \E kind \in {"List", "Fs"}, remote \in BOOLEAN : SpawnsInto(t, kind, session, remote)

LEMMA ServesCore ==
  ASSUME UiCore, NEW t \in IoTask, Rest(t), NEW session \in 0..generation, Serves(t, session),
         ConnectionKept, clean' = clean, UNCHANGED trustVars, prompt' # "HostKey",
         clean /\ connected' => (connected \/ Connecting) /\ session = generation
  PROVE  UiCore'
<1>1. Books' /\ SessionInv'
  <2>1. CASE Finishes(t, session)
    BY <2>1, FinishBooks, FinishSession DEF UiCore
  <2>2. ASSUME NEW kind \in {"List", "Fs"}, NEW remote \in BOOLEAN,
               SpawnsInto(t, kind, session, remote)
        PROVE  Books' /\ SessionInv'
    BY <2>2, SpawnBooks, SpawnSession DEF UiCore
  <2> QED BY <2>1, <2>2 DEF Serves
<1>2. /\ in_flight'.kind # "HostKey" /\ io'[t].pc \in {"idle", "work"}
      /\ \A u \in IoTask \ {t} : io'[u] = io[u]
  BY FinishSlot, SpawnSlot DEF UiCore, Serves
<1>3. PromptInv'
  BY <1>2, NoPrompt
<1>4. TrustInv'
  BY <1>2, TrustKept DEF UiCore
<1> QED BY <1>1, <1>3, <1>4 DEF UiCore

LEMMA ConnectDoneCore ==
  ASSUME UiCore, NEW S, io_rx \in Seq(S), NEW t \in IoTask, NEW session,
         \/ ConnectUp(t) /\ session = io[t].session
         \/ ConnectDown(t) /\ session = NoSession,
         Serves(t, session)
  PROVE  UiCore' /\ prompt' = prompt
<1>1. /\ Rest(t) /\ Current(t) /\ ConnectionKept /\ Connecting
      /\ clean' = clean /\ prompt' = prompt /\ UNCHANGED trustVars
  BY ConnectReports DEF UiCore, ConnectUp, ConnectDown
<1>2. session \in 0..generation /\ (connected' => session = generation)
  <2>1. CASE ConnectUp(t) /\ session = io[t].session
    BY <2>1, ConnectReports DEF UiCore
  <2>2. CASE ConnectDown(t) /\ session = NoSession
    <3>1. 0 \in 0..generation
      BY DEF UiCore, Books, SessionTypeOK
    <3> QED BY <2>2, <3>1 DEF ConnectDown, NoSession
  <2> QED BY <2>1, <2>2
<1>3. io[t].pc = "sent"
  <2>1. /\ io_rx # <<>> /\ Head(io_rx).kind = "Done" /\ Head(io_rx).task = t
    BY DEF ConnectUp, ConnectDown, DoneOf, Receives
  <2>2. Head(io_rx) = io_rx[1] /\ 1 \in 1..Len(io_rx)
    BY <2>1
  <2> QED BY <2>1, <2>2 DEF UiCore, Books, Fits
<1>4. prompt' # "HostKey"
  BY <1>1, <1>3, ReportedIsNotAsked DEF UiCore
<1> QED BY <1>1, <1>2, <1>4, ServesCore

LEMMA WorkDoneCore ==
  ASSUME UiCore, NEW S, io_rx \in Seq(S), NEW t \in IoTask, NEW kind \in {"List", "Fs"},
         TakesReport(kind, t), prompt' = prompt \/ prompt' # "HostKey", Serves(t, Adopted)
  PROVE  UiCore'
<1>1. /\ Rest(t) /\ ConnectionKept /\ in_flight.kind = kind /\ Adopted \in 0..generation
  BY WorkReports DEF UiCore
<1>2. UNCHANGED <<clean, connected>> /\ UNCHANGED trustVars
  BY DEF TakesReport, connVars
<1>3. clean /\ connected => Adopted = generation
  BY AdoptsSession DEF UiCore
<1>4. prompt' # "HostKey"
  BY <1>1 DEF UiCore, PromptInv
<1> QED BY <1>1, <1>2, <1>3, <1>4, ServesCore

(* The event loop starts a task while it waits for none. *)
LEMMA RequestCore ==
  ASSUME UiCore, NEW t \in IoTask, io[t].pc = "idle", ~IoBusy,
         io_rx' = io_rx \/ Fits(io_rx', io, in_flight), UNCHANGED <<connVars, park>>, UNCHANGED trustVars,
         prompt' = prompt \/ prompt' # "HostKey", Serves(t, handle)
  PROVE  UiCore'
<1>1. Rest(t) /\ ConnectionKept /\ handle \in 0..generation
  BY FreeSlot, RequestKeeps DEF UiCore
<1>2. UNCHANGED <<clean, connected>>
  BY DEF connVars
<1>3. clean /\ connected => handle = generation
  BY DEF UiCore, SessionInv
<1>4. prompt' # "HostKey"
  BY DEF UiCore, PromptInv, IoBusy
<1> QED BY <1>1, <1>2, <1>3, <1>4, ServesCore

LEMMA StaleCore ==
  ASSUME UiCore, NEW S, io_rx \in Seq(S), NEW t \in IoTask, StaleWorkDone(t)
  PROVE  UiCore'
<1>1. Books' /\ io'[t] = IdleIo /\ ~Current(t) /\ io[t].pc = "sent"
  BY StaleBooks DEF UiCore
<1>2. /\ \A u \in IoTask \ {t} : io'[u] = io[u]
      /\ UNCHANGED <<connVars, in_flight, handle, prompt>> /\ UNCHANGED trustVars
  BY DEF StaleWorkDone, UiCore, Books, SessionTypeOK
<1>3. IdleIo.pc = "idle" /\ IdleIo.kind = "None"
  BY DEF IdleIo
<1>4. PromptInv'
  BY <1>1, <1>2 DEF UiCore, PromptInv, connVars
<1>5. TrustInv'
  BY <1>1, <1>2, <1>3, TrustKept DEF UiCore
<1>6. Live(t)
  BY <1>1 DEF UiCore, Books, TasksInv, Live
<1>7. SessionInv'
  BY <1>1, <1>2, <1>3, <1>6 DEF UiCore, SessionInv, connVars, Connecting
<1> QED BY <1>1, <1>4, <1>5, <1>7 DEF UiCore

LEMMA HostKeyChallengeCore ==
  ASSUME UiCore, NEW S, io_rx \in Seq(S), NEW t \in IoTask, HostKeyChallenge(t)
  PROVE  UiCore' /\ prompt' = "HostKey"
<1>1. /\ Books' /\ io' = io /\ prompt' = "HostKey"
      /\ in_flight'.kind = "HostKey" /\ in_flight.kind = "Connect"
  BY ChallengeBooks DEF UiCore
<1>2. UNCHANGED <<connVars, handle, park>> /\ UNCHANGED trustVars
  BY DEF HostKeyChallenge
<1>3. PromptInv'
  BY ChallengePrompt DEF UiCore
<1>4. TrustInv'
  BY <1>1, <1>2, TrustKept DEF UiCore
<1>5. ~connected
  BY <1>1 DEF UiCore, Books, ConnectsInv, Connecting
<1>6. SessionInv'
  BY <1>1, <1>2, <1>5 DEF UiCore, SessionInv, connVars, Connecting, Live, Current
<1> QED BY <1>1, <1>3, <1>4, <1>6 DEF UiCore

LEMMA ConnectCore ==
  ASSUME UiCore, NEW t \in IoTask, NEW s \in Server, Connect(t, s)
  PROVE  UiCore'
<1>1. /\ Books' /\ connected' = FALSE /\ in_flight'.kind = "Connect"
      /\ \A u \in IoTask : io'[u].pc \in {io[u].pc, "work"}
  BY ConnectBooks DEF UiCore
<1>2. /\ prompt' = prompt /\ prompt = "None" /\ UNCHANGED trustVars /\ ~IoBusy
      /\ \A u \in IoTask \ {t} : io'[u] = io[u]
      /\ clean' = \A u \in IoTask : io[u].kind \in {"None", "Connect"}
  BY DEF Connect, UiCore, Books, SessionTypeOK
<1>3. io'[t].pc = "work" /\ io'[t].kind = "Connect" /\ io'[t].generation = generation'
  BY DEF Connect, UiCore, Books, SessionTypeOK, IdleIo
<1>4. PromptInv'
  BY <1>1, <1>2, NoPrompt
<1>5. TrustInv'
  BY <1>2, <1>3, TrustKept DEF UiCore
<1>6. \A u \in IoTask : io[u].kind # "Connect"
  BY <1>2 DEF UiCore, Books, ConnectsInv, Connecting, IoBusy
<1>7. SessionInv'
  BY <1>1, <1>2, <1>3, <1>6 DEF UiCore, SessionInv, Connecting, Live, Current
<1> QED BY <1>1, <1>4, <1>5, <1>7 DEF UiCore

LEMMA DisconnectCore ==
  ASSUME UiCore, Disconnect
  PROVE  UiCore'
<1>1. Books'
  BY DisconnectBooks DEF UiCore
<1>2. /\ prompt' = prompt /\ prompt = "None" /\ io' = io /\ UNCHANGED trustVars
      /\ connected' = FALSE /\ in_flight'.kind = "None"
  BY NotInFlightType DEF Disconnect, DropsConnection
<1>3. PromptInv'
  BY <1>2, NoPrompt
<1>4. TrustInv'
  BY <1>2, TrustKept DEF UiCore
<1>5. SessionInv'
  BY <1>2 DEF UiCore, SessionInv, Connecting
<1> QED BY <1>1, <1>3, <1>4, <1>5 DEF UiCore

LEMMA AnswerCore ==
  ASSUME UiCore, NEW yes \in BOOLEAN, AnswerHostKey(yes)
  PROVE  UiCore'
<1> DEFINE t == in_flight.reply
<1>1. /\ Books' /\ prompt' = "None" /\ in_flight'.kind = "Connect" /\ Connecting
      /\ t \in IoTask /\ io'[t].kind = "Connect" /\ Current(t)
      /\ \A u \in IoTask \ {t} : io'[u] = io[u]
  BY AnswerBooks DEF UiCore
<1>2. UNCHANGED connVars
  BY DEF AnswerHostKey
<1>3. PromptInv'
  BY <1>1, NoPrompt
<1>4. TrustInv'
  BY AnswerTrust DEF UiCore
<1> HIDE DEF t
<1>5. ~connected
  BY <1>1 DEF UiCore, Books, ConnectsInv
<1>6. \A u \in IoTask : Live(u)' /\ Current(u) => Current(u)'
  BY <1>1, <1>2 DEF Books, ConnectsInv, Current, Live, connVars
<1>7. \A u \in IoTask : Live(u)' => Live(u)
  BY <1>1 DEF Live, Current
<1>8. SessionInv'
  BY <1>1, <1>2, <1>5, <1>6, <1>7 DEF UiCore, SessionInv, connVars
<1> QED BY <1>1, <1>3, <1>4, <1>8 DEF UiCore

(* A prompt of another kind, or no step at all. *)
LEMMA OtherPromptCore ==
  ASSUME UiCore, UNCHANGED <<connVars, in_flight, handle, park, io_rx, io, trustVars>>,
         prompt' = "HostKey" <=> prompt = "HostKey"
  PROVE  UiCore'
<1>1. Books'
  BY SameBooks DEF UiCore
<1>2. PromptInv'
  BY DEF UiCore, PromptInv, connVars
<1>3. TrustInv'
  BY TrustKept DEF UiCore
<1>4. SessionInv'
  BY DEF UiCore, SessionInv, connVars, Connecting, IoBusy, Live, Current, HasSession
<1> QED BY <1>1, <1>2, <1>3, <1>4 DEF UiCore

-----------------------------------------------------------------------------
(* UiSession: every action preserves the invariant.                        *)

UiMessages == [kind : Own, task : IoTask]

LEMMA UiInitInv == UiInit => UiIInv
<1> SUFFICES ASSUME UiInit PROVE UiIInv
  OBVIOUS
<1>1. /\ IdleIo.pc = "idle" /\ IdleIo.kind = "None" /\ IdleIo.generation = 0 /\ IdleIo.session = 0
  BY DEF IdleIo, NoSession
<1>2. /\ \A t \in IoTask : io[t] = IdleIo
      /\ in_flight = NotInFlight /\ generation = 0 /\ io_rx = <<>> /\ connected = FALSE
      /\ Len(io_rx) = 0
  BY DEF UiInit
<1>3. SessionTypeOK
  <2>1. ConnTypeOK
    BY DEF UiInit, ConnTypeOK
  <2>2. generation \in 0..MaxGeneration /\ handle \in 0..generation /\ park \in 0..generation
    BY UiConstantsAssumption DEF UiInit, NoSession
  <2>3. io \in [IoTask -> IoTasks]
    BY IdleType DEF UiInit
  <2> QED BY <1>2, <2>1, <2>2, <2>3, NotInFlightType DEF SessionTypeOK
<1>4. TasksInv /\ ConnectsInv /\ CarrierInv /\ Fits(io_rx, io, in_flight)
  BY <1>1, <1>2, NotInFlightType
     DEF TasksInv, ConnectsInv, CarrierInv, Fits, Connecting, IoBusy, Current, Live
<1>5. PromptInv
  BY <1>2, NotInFlightType DEF UiInit, PromptInv
<1>6. TrustInv
  BY <1>1, <1>2 DEF UiInit, TrustInv
<1>7. SessionInv
  BY <1>1, <1>2, NotInFlightType DEF SessionInv, Connecting, Live
<1>8. ChannelTypeOK
  BY DEF UiInit, ChannelTypeOK
<1> QED BY <1>3, <1>4, <1>5, <1>6, <1>7, <1>8 DEF UiIInv, UiCore, Books

LEMMA UiMessageTypes ==
  ASSUME NEW t \in IoTask
  PROVE  Question(t) \in UiMessages /\ Report(t) \in UiMessages
BY DEF Question, Report, UiMessages, Own

(* The channel stays as it is, gets a message or loses one. *)
LEMMA ChannelKept ==
  ASSUME ChannelTypeOK, prompt' \in {"None", "Other", "HostKey"},
         \/ io_rx' = io_rx
         \/ io_rx # <<>> /\ io_rx' = Tail(io_rx)
         \/ \E t \in IoTask : io_rx' \in {Append(io_rx, Question(t)), Append(io_rx, Report(t))}
  PROVE  ChannelTypeOK'
<1>1. io_rx \in Seq(UiMessages)
  BY DEF ChannelTypeOK, UiMessages
<1>2. io_rx' \in Seq(UiMessages)
  BY <1>1, UiMessageTypes, AppendProperties, HeadTailProperties
<1> QED BY <1>2 DEF ChannelTypeOK, UiMessages

LEMMA TaskStepInv ==
  ASSUME UiIInv, NEW t \in IoTask, IoStep(t)
  PROVE  UiIInv'
<1>1. TaskMoves(t) /\ io_rx \in Seq(UiMessages)
  BY TaskSteps DEF UiIInv, UiCore, ChannelTypeOK, UiMessages
<1>2. UiCore'
  BY <1>1, UiMessageTypes, IoStepCore DEF UiIInv
<1>3. ChannelTypeOK'
  BY <1>1, ChannelKept DEF UiIInv, ChannelTypeOK, TaskMoves
<1> QED BY <1>2, <1>3 DEF UiIInv

LEMMA HandlerInv ==
  ASSUME UiIInv, NEW t \in IoTask, HandleIoMessage(t)
  PROVE  UiIInv'
<1>1. io_rx \in Seq(UiMessages)
  BY DEF UiIInv, ChannelTypeOK, UiMessages
<1>2. io_rx # <<>> /\ io_rx' = Tail(io_rx)
  BY DEF HandleIoMessage, ConnectSucceeded, ConnectFailed, ConnectUp, ConnectDown, ListDone, FsDone,
         ExpectsWork, TakesReport, StaleWorkDone, DoneOf, Receives, HostKeyChallenge
<1>3. CASE ConnectSucceeded(t) \/ ConnectFailed(t)
  <2>1. UiCore' /\ prompt' = prompt
    BY <1>1, <1>3, ConnectDoneCore DEF UiIInv, ConnectSucceeded, ConnectFailed, Serves
  <2> QED BY <1>2, <2>1, ChannelKept DEF UiIInv, ChannelTypeOK
<1>4. CASE ListDone(t) \/ FsDone(t)
  <2>1. PICK kind \in {"List", "Fs"} :
          TakesReport(kind, t) /\ prompt' = prompt /\ Serves(t, Adopted)
    BY <1>4 DEF ListDone, FsDone, ExpectsWork, Serves
  <2>2. UiCore'
    BY <1>1, <2>1, WorkDoneCore DEF UiIInv
  <2> QED BY <1>2, <2>1, <2>2, ChannelKept DEF UiIInv, ChannelTypeOK
<1>5. CASE StaleWorkDone(t)
  <2>1. UiCore' /\ prompt' = prompt
    BY <1>1, <1>5, StaleCore DEF UiIInv, StaleWorkDone
  <2> QED BY <1>2, <2>1, ChannelKept DEF UiIInv, ChannelTypeOK
<1>6. CASE HostKeyChallenge(t)
  <2>1. UiCore' /\ prompt' = "HostKey"
    BY <1>1, <1>6, HostKeyChallengeCore DEF UiIInv
  <2> QED BY <1>2, <2>1, ChannelKept DEF UiIInv
<1> QED BY <1>3, <1>4, <1>5, <1>6 DEF HandleIoMessage

LEMMA RequestInv ==
  ASSUME UiCore, NEW t \in IoTask, NEW remote \in BOOLEAN,
         RequestList(t) \/ RequestFs(t, remote)
  PROVE  UiCore'
<1>1. /\ UNCHANGED <<connVars, park>> /\ UNCHANGED trustVars
      /\ io_rx' = io_rx /\ ~IoBusy /\ io[t].pc = "idle"
      /\ prompt' = prompt \/ prompt' # "HostKey"
      /\ Serves(t, handle)
  BY DEF RequestList, RequestFs, Serves
<1> QED BY <1>1, RequestCore

LEMMA KeyInv ==
  ASSUME UiIInv, Key
  PROVE  UiIInv'
<1>1. io_rx' = io_rx /\ (prompt' = prompt \/ prompt' \in {"None", "Other"})
  BY DEF Key, Connect, Disconnect, RequestList, RequestFs, OpenPrompt, ClosePrompt, AnswerHostKey
<1>2. ChannelTypeOK'
  BY <1>1, ChannelKept DEF UiIInv, ChannelTypeOK
<1>3. CASE OpenPrompt \/ ClosePrompt
  BY <1>2, <1>3, OtherPromptCore DEF UiIInv, OpenPrompt, ClosePrompt
<1> QED
  BY <1>2, <1>3, ConnectCore, DisconnectCore, RequestInv, AnswerCore DEF Key, UiIInv

LEMMA UiStepInv == UiIInv /\ [UiNext]_uiVars => UiIInv'
<1>1. ASSUME UiIInv, UNCHANGED uiVars PROVE UiIInv'
  BY <1>1, OtherPromptCore, ChannelKept DEF UiIInv, uiVars, ChannelTypeOK
<1> QED BY <1>1, TaskStepInv, HandlerInv, KeyInv DEF UiNext

THEOREM UiInvariant == UiSpec => []UiIInv
BY UiInitInv, UiStepInv, PTL DEF UiSpec

(* The event loop's books are in order in every reachable state: types, a   *)
(* task for what is in flight, a question on the screen that the connecting *)
(* task waits for.                                                          *)
THEOREM UiInvHolds == UiSpec => []UiInv
<1>1. UiIInv => UiInv
  <2> SUFFICES ASSUME UiIInv PROVE UiInv
    OBVIOUS
  <2>1. UiTypeOK
    <3>1. known_hosts \subseteq Server
      BY DEF UiIInv, UiCore, TrustInv
    <3> QED
      BY <3>1 DEF UiIInv, UiCore, ChannelTypeOK, Own, Books, SessionTypeOK, ConnTypeOK, TrustInv, UiTypeOK,
                  IoTasks, Flights
  <2>2. BusyIsAnswered
    BY AnsweredWhileBusy DEF UiIInv, UiCore
  <2>3. HostKeyAnswerable
    BY DEF UiIInv, UiCore, PromptInv, HostKeyAnswerable
  <2> QED BY <2>1, <2>2, <2>3 DEF UiInv
<1> QED BY <1>1, UiInvariant, PTL

(* known_hosts never holds a key that the user did not say yes to. *)
THEOREM KeysNeedYes == UiSpec => []TrustNeedsYes
<1>1. UiIInv => TrustNeedsYes
  BY DEF UiIInv, UiCore, TrustInv, TrustNeedsYes
<1> QED BY <1>1, UiInvariant, PTL

(* The session of the connection comes back to the event loop, unless a     *)
(* listing of an older connection was still running at the connect.         *)
THEOREM SessionComesBack == UiSpec => []SessionIsKept
<1>1. UiIInv => SessionIsKept
  BY DEF UiIInv, UiCore, SessionInv, SessionIsKept
<1> QED BY <1>1, UiInvariant, PTL

-----------------------------------------------------------------------------
(* The connection implements ConnectionLife: Connect asks, ConnectUp        *)
(* succeeds, ConnectDown and Disconnect give up, all else stutters.         *)

Status == CASE connected -> "on"
            [] ~connected /\ in_flight.kind \in {"Connect", "HostKey"} -> "connecting"
            [] OTHER -> "off"

Shown == IF connected THEN active_connection ELSE wanted

LEMMA Stutters ==
  ASSUME UNCHANGED <<connected, active_connection, wanted>>,
         ~connected => (Connecting' <=> Connecting)
  PROVE  Status' = Status /\ Shown' = Shown
BY DEF Status, Shown, Connecting

(* The session serves the next request, or none, with no connect under way. *)
LEMMA ServesAside ==
  ASSUME Books, NEW t \in IoTask, NEW session \in 0..generation, Serves(t, session),
         UNCHANGED <<connected, active_connection, wanted>>, ~Connecting
  PROVE  Status' = Status /\ Shown' = Shown
<1>1. in_flight'.kind \in {"None", "List", "Fs"}
  BY FinishSlot, SpawnSlot DEF Serves
<1> QED BY <1>1, Stutters DEF Connecting

(* A connect is answered, whatever the session serves next. *)
LEMMA ConnectAnswered ==
  ASSUME Books, NEW S, io_rx \in Seq(S), NEW t \in IoTask, NEW session,
         \/ ConnectUp(t) /\ session = io[t].session
         \/ ConnectDown(t) /\ session = NoSession,
         Serves(t, session)
  PROVE  Connection!Next
<1>1. CASE ConnectUp(t)
  <2>1. io[t].kind = "Connect" /\ Connecting
    BY <1>1, ConnectReports
  <2>2. ~connected /\ connected' = TRUE /\ active_connection' = wanted
    BY <1>1, <2>1 DEF ConnectUp, Books, ConnectsInv
  <2>3. Status = "connecting" /\ Status' = "on" /\ Shown' = Shown
    BY <2>1, <2>2 DEF Status, Shown, Connecting
  <2> QED BY <2>3 DEF Connection!Next, Connection!Succeed, Status, Shown
<1>2. CASE ConnectDown(t) /\ session = NoSession
  <2>1. Connecting /\ session \in 0..generation
    BY <1>2, ConnectReports DEF NoSession, Books, SessionTypeOK
  <2>2. in_flight'.kind \in {"None", "List", "Fs"}
    BY <2>1, FinishSlot, SpawnSlot DEF Serves
  <2>3. ~connected /\ connected' = FALSE /\ wanted' = NoServer
    BY <1>2, <2>1 DEF ConnectDown, Books, ConnectsInv
  <2>4. Status = "connecting" /\ Status' = "off" /\ Shown' = NoServer
    BY <2>1, <2>2, <2>3 DEF Status, Shown, Connecting
  <2> QED BY <2>4 DEF Connection!Next, Connection!GiveUp, Status, Shown
<1> QED BY <1>1, <1>2

LEMMA ConnectAsks ==
  ASSUME Books, NEW t \in IoTask, NEW s \in Server, Connect(t, s)
  PROVE  Connection!Next
<1>1. connected' = FALSE /\ in_flight'.kind = "Connect" /\ wanted' = s
  BY ConnectBooks DEF Connect
<1>2. Status' = "connecting" /\ Shown' = s
  BY <1>1 DEF Status, Shown
<1> QED BY <1>2 DEF Connection!Next, Connection!Ask, Status, Shown

LEMMA DisconnectGivesUp ==
  ASSUME Disconnect
  PROVE  Connection!Next
<1>1. connected /\ connected' = FALSE /\ wanted' = NoServer /\ in_flight'.kind = "None"
  BY NotInFlightType DEF Disconnect, DropsConnection
<1>2. Status = "on" /\ Status' = "off" /\ Shown' = NoServer
  BY <1>1 DEF Status, Shown
<1> QED BY <1>2 DEF Connection!Next, Connection!GiveUp, Status, Shown

(* The question about a host key and its answer are part of connecting. *)
LEMMA QuestionAside ==
  ASSUME Books, PromptInv, NEW S, io_rx \in Seq(S), NEW t \in IoTask, NEW yes \in BOOLEAN,
         HostKeyChallenge(t) \/ AnswerHostKey(yes)
  PROVE  Status' = Status /\ Shown' = Shown
<1>1. Connecting /\ Connecting' /\ UNCHANGED connVars
  BY ChallengeBooks, AnswerBooks DEF HostKeyChallenge, AnswerHostKey, Connecting
<1> QED BY <1>1, Stutters DEF connVars

LEMMA RequestAside ==
  ASSUME Books, NEW t \in IoTask, NEW remote \in BOOLEAN, RequestList(t) \/ RequestFs(t, remote)
  PROVE  Status' = Status /\ Shown' = Shown
<1>1. UNCHANGED connVars /\ ~IoBusy /\ handle \in 0..generation
  BY DEF RequestList, RequestFs, Books, SessionTypeOK
<1>2. Serves(t, handle)
  BY DEF RequestList, RequestFs, Serves
<1> QED BY <1>1, <1>2, ServesAside DEF connVars, Connecting, IoBusy

LEMMA ConnectionStep ==
  UiIInv /\ [UiNext]_uiVars => [Connection!Next]_(Connection!vars)
<1> SUFFICES ASSUME UiIInv, [UiNext]_uiVars
             PROVE  Connection!Next \/ (Status' = Status /\ Shown' = Shown)
  BY DEF Connection!vars, Status, Shown
<1>1. io_rx \in Seq(UiMessages) /\ Books /\ PromptInv
  BY DEF UiIInv, UiCore, ChannelTypeOK, UiMessages
<1>2. CASE UNCHANGED <<connVars, in_flight>>
  BY <1>2, Stutters DEF connVars, Connecting
<1>3. ASSUME NEW t \in IoTask, IoStep(t) PROVE UNCHANGED <<connVars, in_flight>>
  BY <1>1, <1>3, TaskSteps DEF TaskMoves
<1>4. ASSUME NEW t \in IoTask, ConnectSucceeded(t) \/ ConnectFailed(t) PROVE Connection!Next
  <2>1. PICK session :
          /\ \/ ConnectUp(t) /\ session = io[t].session
             \/ ConnectDown(t) /\ session = NoSession
          /\ Serves(t, session)
    BY <1>4 DEF ConnectSucceeded, ConnectFailed, Serves
  <2> QED BY <1>1, <2>1, ConnectAnswered
<1>5. ASSUME NEW t \in IoTask, ListDone(t) \/ FsDone(t)
      PROVE  Status' = Status /\ Shown' = Shown
  <2>1. PICK kind \in {"List", "Fs"} : TakesReport(kind, t) /\ Serves(t, Adopted)
    BY <1>5 DEF ListDone, FsDone, ExpectsWork, Serves
  <2>2. Adopted \in 0..generation /\ in_flight.kind = kind /\ UNCHANGED connVars
    BY <1>1, <2>1, WorkReports DEF TakesReport
  <2> QED BY <1>1, <2>1, <2>2, ServesAside DEF connVars, Connecting
<1>6. ASSUME NEW t \in IoTask, StaleWorkDone(t) PROVE UNCHANGED <<connVars, in_flight>>
  BY <1>6 DEF StaleWorkDone
<1>7. CASE OpenPrompt \/ ClosePrompt
  BY <1>2, <1>7 DEF OpenPrompt, ClosePrompt
<1>8. CASE UNCHANGED uiVars
  BY <1>2, <1>8 DEF uiVars
<1>9. ASSUME NEW t \in IoTask, HostKeyChallenge(t) PROVE Status' = Status /\ Shown' = Shown
  BY <1>1, <1>9, QuestionAside
<1>10. ASSUME NEW yes \in BOOLEAN, AnswerHostKey(yes) PROVE Status' = Status /\ Shown' = Shown
  <2>1. in_flight.reply \in IoTask
    BY <1>1, <1>10, AnswerBooks
  <2> QED BY <1>1, <1>10, <2>1, QuestionAside
<1> QED
  BY <1>1, <1>2, <1>3, <1>4, <1>5, <1>6, <1>7, <1>8, <1>9, <1>10, ConnectAsks, DisconnectGivesUp,
     RequestAside DEF UiNext, HandleIoMessage, Key

(* What the user sees of the connection is what ConnectionLife promises: it *)
(* comes up only to the server asked for last, however many questions and   *)
(* late reports lie between.                                                *)
THEOREM ConnectionImplemented == UiSpec => ImplementsConnection
<1>1. UiInit => Connection!Init
  BY NotInFlightType DEF UiInit, Connection!Init
<1> QED
  BY <1>1, UiInvariant, ConnectionStep, PTL DEF UiSpec, ImplementsConnection, Connection!Spec
=============================================================================
