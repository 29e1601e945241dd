----------------------------- MODULE DrainProofs -----------------------------
(***************************************************************************)
(* What Drain promises holds for any files, names, batches and answers.    *)
(*                                                                         *)
(* The books of the session are those of UiSession (UiCore), which every   *)
(* handler of the drain keeps because it ends a task or starts one in its  *)
(* slot.  To these the invariant adds where each file is that was asked    *)
(* for (FilesFit), that the scan sends each file once and its end last     *)
(* (WalkInv, SentOnce), that a scan and an errand exclude each other       *)
(* (QuietInv), what the one task, the one prompt and the flags are about   *)
(* (FrontInv), that the names the drain decides by contain what was there  *)
(* at first (LooksInv), and how long a policy lives (PolicyInv).           *)
(*                                                                         *)
(* The steps of the drain are functions of the record Now.  A lemma about  *)
(* each says what it does to the record's files; the handlers follow from  *)
(* these and from what they do with the result (Keeps).                    *)
(*                                                                         *)
(* What BatchLife promises of a batch follows at the end: whatever a step  *)
(* of the drain comes to, it has decided files from the front (Advances).  *)
(***************************************************************************)
EXTENDS Drain, UiSessionProofs, SequenceFacts

-----------------------------------------------------------------------------
(* The invariant.                                                          *)

Questions == {"Overwrite", "Rename"}

EndKinds == {"ScanDone", "ScanError"}

ScanKinds == {"ScanItem"} \cup EndKinds

Messages == UiMessages \cup [kind : ScanKinds, task : File \cup {NoFile}]

BelowInv ==
  /\ prompt \in {"None", "Choice"} \cup Questions
  /\ io_rx \in Seq(Messages)
  /\ UiCore
  /\ generation # 0

Copy == "copy"

(* Copy is a string; the provers have to be told. *)
Parts == STRING \cup Nat \cup {Copy}

Names == Seq(Parts)

Files == [name : Names, delete_source : BOOLEAN, fate : Fate]

(* The name of file f was not taken when the program started. *)
WasFree(f, name) == <<Place(f), name>> \notin original \/ IsCopy(name)

(* The names contain all that was at the place of file f then. *)
SawAll(f, names) == \A e \in original : e[1] = Place(f) => e[2] \in names

(* The files in the channel. *)
Carried(q) == {q[i].task : i \in {j \in 1..Len(q) : q[j].kind = "ScanItem"}}

(* The files that the scan has still to hand over. *)
Coming == IF Scanning THEN ToSet(walk.left) \cup Carried(io_rx) ELSE {}

(* The scan sends nothing more. *)
ScanIsOver(q, w) ==
  w.pc # "walking" /\ \A i \in 1..Len(q) : q[i].kind \notin ScanKinds

(* The files and the queue of d, while those in coming are on their way. *)
FilesFit(d, coming) ==
  /\ d.pending \in Seq(File) /\ IsInjective(d.pending)
  /\ ToSet(d.pending) \cap coming = {}
  /\ d.file \in [File -> Files]
  /\ \A f \in File : d.file[f].fate = "waiting" <=> f \in ToSet(d.pending) \cup coming
  /\ \A f \in File : d.file[f].fate \in {"free", "renamed"} => WasFree(f, d.file[f].name)

(* Under a cancel request nothing of a batch is left. *)
PolicyFits(d) ==
  /\ d.policy \in Policy
  /\ d.cancelled => d.pending = <<>> /\ d.policy = DefaultPolicy /\ d.mkdirs = <<>>

(* A policy outlives its batch only as a leak. *)
PolicyLasts(d) == d.pending = <<>> => d.policy = DefaultPolicy \/ d.leaked

PolicyInv == PolicyFits(Now) /\ PolicyLasts(Now)

WalkInv ==
  /\ walk \in [pc : {"idle", "walking", "over"}, left : Seq(File), upload : BOOLEAN,
               generation : Nat]
  /\ scan_delete_source \in BOOLEAN
  /\ walk.generation <= generation
  /\ scan_generation \in 0..generation
  /\ scan_generation # 0 => Scanning
  /\ connected /\ scan_generation = 0 => ScanIsOver(io_rx, walk)

(* No errand and no question during a scan. *)
QuietInv ==
  /\ drain_list \in BOOLEAN /\ drain_mkdir \in BOOLEAN
  /\ scan_generation # 0 => ~drain_list /\ ~drain_mkdir /\ prompt \notin Questions

(* Each file is sent once, and the end last. *)
SentOnce(q, w) ==
  /\ IsInjective(w.left)
  /\ \A i \in 1..Len(q) : q[i].kind = "ScanItem" => q[i].task \in File \ ToSet(w.left)
  /\ \A i, j \in 1..Len(q) :
       q[i].kind = "ScanItem" /\ q[j].kind = "ScanItem" /\ q[i].task = q[j].task => i = j
  /\ \A i, j \in 1..Len(q) : q[i].kind \in EndKinds /\ q[j].kind \in ScanKinds => j <= i
  /\ \A i \in 1..Len(q) : q[i].kind \in EndKinds => w.pc # "walking"
  /\ \A i \in 1..Len(q) : q[i].kind = "ScanDone" => w.left = <<>>

FrontInv ==
  /\ about \in File \cup {NoFile}
  /\ drain_list \/ drain_mkdir =>
       /\ pending_scan = <<>> \/ Head(pending_scan) = about
       /\ prompt \notin Questions
  /\ prompt \in Questions => pending_scan # <<>> /\ Head(pending_scan) = about
  /\ drain_list => in_flight.kind = "List"
  /\ drain_mkdir => in_flight.kind = "Fs"
  /\ mkdir_queue # <<>> => drain_mkdir /\ pending_scan # <<>>

ErrandIs(e) == e = [kind |-> e.kind, file |-> e.file, found |-> e.found]

LooksInv ==
  /\ original \subseteq exists
  /\ \A e \in original : e = <<e[1], e[2]>>
  /\ errand = [t \in IoTask |-> errand[t]]
  /\ \A t \in IoTask : ErrandIs(errand[t])
  /\ drain_list => \A t \in IoTask : Current(t) =>
       /\ errand[t].kind = "list" /\ errand[t].file = about
       /\ io[t].ok => SawAll(about, errand[t].found)
  /\ prompt \in Questions /\ about \in Upload => SawAll(about, listed_dest_names)

(* The inductive invariant.                                                *)
DrainIInv ==
  /\ BelowInv
  /\ FilesFit(Now, Coming)
  /\ PolicyInv
  /\ WalkInv
  /\ SentOnce(io_rx, walk)
  /\ QuietInv
  /\ FrontInv
  /\ LooksInv
  /\ pending_delete \in Seq(File)

-----------------------------------------------------------------------------
(* The record the drain works on.                                          *)

IsDrain(d) ==
  d = [pending |-> d.pending, file |-> d.file, policy |-> d.policy, listed |-> d.listed,
       mkdirs |-> d.mkdirs, cancelled |-> d.cancelled, leaked |-> d.leaked]

(* All but the queue, the files and the names listed. *)
SameBatch(d, e) ==
  /\ e.policy = d.policy
  /\ e.mkdirs = d.mkdirs
  /\ e.cancelled = d.cancelled
  /\ e.leaked = d.leaked

LEMMA NowFields ==
  /\ IsDrain(Now)
  /\ Now.pending = pending_scan /\ Now.file = file /\ Now.policy = overwrite_policy
  /\ Now.listed = listed_dest_names /\ Now.mkdirs = mkdir_queue
  /\ Now.cancelled = worker_cancel_requested /\ Now.leaked = leaked
BY DEF Now, IsDrain

LEMMA PopFields ==
  ASSUME NEW d, IsDrain(d), NEW fate
  PROVE  LET h == Head(d.pending)
             e == PopAs(d, fate)
         IN  /\ IsDrain(e) /\ SameBatch(d, e) /\ e.listed = d.listed
             /\ e.pending = Tail(d.pending)
             /\ e.file = [d.file EXCEPT ![h] = [d.file[h] EXCEPT !.fate = fate]]
<1> DEFINE h == Head(d.pending)
           g == [d.file EXCEPT ![h] = [d.file[h] EXCEPT !.fate = fate]]
<1>1. PopAs(d, fate) = [d EXCEPT !.pending = Tail(d.pending), !.file = g]
  BY DEF PopAs
<1> HIDE DEF g, h
<1>2. PopAs(d, fate) = [pending |-> Tail(d.pending), file |-> g, policy |-> d.policy,
                        listed |-> d.listed, mkdirs |-> d.mkdirs, cancelled |-> d.cancelled,
                        leaked |-> d.leaked]
  BY <1>1 DEF IsDrain
<1> QED BY <1>2 DEF IsDrain, SameBatch, g, h

LEMMA EndFields ==
  ASSUME NEW d, IsDrain(d)
  PROVE  /\ IsDrain(BatchEnds(d))
         /\ BatchEnds(d).pending = d.pending /\ BatchEnds(d).file = d.file
         /\ BatchEnds(d).policy = DefaultPolicy /\ BatchEnds(d).mkdirs = <<>>
         /\ BatchEnds(d).listed = d.listed /\ BatchEnds(d).cancelled = d.cancelled
<1> DEFINE l == FALSE
<1>1. BatchEnds(d) = [d EXCEPT !.policy = DefaultPolicy, !.mkdirs = <<>>, !.leaked = l]
  BY DEF BatchEnds
<1> HIDE DEF l
<1>2. BatchEnds(d) = [pending |-> d.pending, file |-> d.file, policy |-> DefaultPolicy,
                      listed |-> d.listed, mkdirs |-> <<>>, cancelled |-> d.cancelled,
                      leaked |-> l]
  BY <1>1 DEF IsDrain
<1> QED BY <1>2 DEF IsDrain

LEMMA HeldFields ==
  ASSUME NEW d, IsDrain(d)
  PROVE  /\ IsDrain(HeldUp(d))
         /\ HeldUp(d).pending = d.pending /\ HeldUp(d).file = d.file
         /\ HeldUp(d).policy = d.policy /\ HeldUp(d).mkdirs = d.mkdirs
         /\ HeldUp(d).listed = d.listed /\ HeldUp(d).cancelled = d.cancelled
         /\ d.pending = <<>> /\ ~d.cancelled => HeldUp(d).leaked
         /\ d.leaked => HeldUp(d).leaked
<1> DEFINE l == d.leaked \/ (d.pending = <<>> /\ ~d.cancelled)
<1>1. HeldUp(d) = [d EXCEPT !.leaked = l]
  BY DEF HeldUp
<1> HIDE DEF l
<1>2. HeldUp(d) = [pending |-> d.pending, file |-> d.file, policy |-> d.policy,
                   listed |-> d.listed, mkdirs |-> d.mkdirs, cancelled |-> d.cancelled,
                   leaked |-> l]
  BY <1>1 DEF IsDrain
<1>3. /\ HeldUp(d).pending = d.pending /\ HeldUp(d).file = d.file
      /\ HeldUp(d).policy = d.policy /\ HeldUp(d).mkdirs = d.mkdirs
      /\ HeldUp(d).listed = d.listed /\ HeldUp(d).cancelled = d.cancelled
      /\ HeldUp(d).leaked = l
  BY <1>2
<1>4. IsDrain(HeldUp(d))
  BY <1>2, <1>3 DEF IsDrain
<1>5. l <=> d.leaked \/ (d.pending = <<>> /\ ~d.cancelled)
  BY Zenon DEF l
<1>6. /\ d.pending = <<>> /\ ~d.cancelled => HeldUp(d).leaked
      /\ d.leaked => HeldUp(d).leaked
  BY <1>3, <1>5, Zenon
<1> QED BY <1>3, <1>4, <1>6

LEMMA GivenFields ==
  ASSUME NEW d, IsDrain(d), NEW S, NEW fate
  PROVE  LET e == Given(d, S, fate)
         IN  /\ IsDrain(e) /\ SameBatch(d, e) /\ e.listed = d.listed /\ e.pending = <<>>
             /\ e.file = [f \in File |-> IF f \in S THEN [d.file[f] EXCEPT !.fate = fate]
                                         ELSE d.file[f]]
<1> DEFINE g == [f \in File |-> IF f \in S THEN [d.file[f] EXCEPT !.fate = fate] ELSE d.file[f]]
<1>1. Given(d, S, fate) = [d EXCEPT !.pending = <<>>, !.file = g]
  BY DEF Given
<1> HIDE DEF g
<1>2. Given(d, S, fate) = [pending |-> <<>>, file |-> g, policy |-> d.policy,
                           listed |-> d.listed, mkdirs |-> d.mkdirs, cancelled |-> d.cancelled,
                           leaked |-> d.leaked]
  BY <1>1 DEF IsDrain
<1> QED BY <1>2 DEF IsDrain, SameBatch, g

-----------------------------------------------------------------------------
(* Names.                                                                  *)

LEMMA StringNames == \A name \in Seq(STRING) : name \in Names
<1>1. STRING \subseteq Parts
  BY DEF Parts
<1> DEFINE S == STRING
<1> HIDE DEF S
<1>2. S \subseteq Parts
  BY <1>1 DEF S
<1>3. \A name \in Seq(S) : name \in Seq(Parts)
  BY <1>2, SeqGrows
<1> QED BY <1>3 DEF S, Names

LEMMA UniqueName ==
  ASSUME NEW name \in Names, NEW taken
  PROVE  /\ Uniquify(name, taken) \in Names
         /\ Uniquify(name, taken) \notin taken \/ IsCopy(Uniquify(name, taken))
<1> DEFINE Free == FreeSuffixes(name, taken)
<1>1. Free \subseteq Nat /\ \A n \in Free : Append(name, n) \notin taken
  BY SuffixAssumption DEF FreeSuffixes
<1>2. Free # {} => Smallest(Free) \in Free
  BY <1>1, LeastNumber DEF Smallest
<1>3. \A n \in Nat : Append(name, n) \in Names
  <2> TAKE n \in Nat
  <2>1. n \in Parts
    BY DEF Parts
  <2> QED BY <2>1, AppendProperties DEF Names
<1>4. Append(name, Copy) \in Names /\ IsCopy(Append(name, Copy))
  <2>2. Copy \in Parts
    BY DEF Parts
  <2>1. /\ Append(name, Copy) \in Names
        /\ Append(name, Copy) # <<>>
        /\ Len(Append(name, Copy)) = Len(name) + 1
        /\ Append(name, Copy)[Len(name) + 1] = Copy
    BY <2>2, AppendProperties DEF Names
  <2> QED BY <2>1 DEF IsCopy, Copy
<1> HIDE DEF Free
<1>5. CASE name \notin taken
  BY <1>5 DEF Uniquify
<1>6. CASE name \in taken /\ Free = {}
  BY <1>4, <1>6 DEF Uniquify, Free, Copy
<1>7. CASE name \in taken /\ Free # {}
  <2>1. Uniquify(name, taken) = Append(name, Smallest(Free))
    BY <1>7 DEF Uniquify, Free
  <2> QED BY <1>1, <1>2, <1>3, <1>7, <2>1
<1> QED BY <1>5, <1>6, <1>7

LEMMA FreeOfAll ==
  ASSUME NEW f, NEW names, NEW name, SawAll(f, names), name \notin names \/ IsCopy(name)
  PROVE  WasFree(f, name)
BY DEF SawAll, WasFree

(* What is on the disk contains what was there. *)
LEMMA DiskSeesAll ==
  ASSUME LooksInv, NEW f
  PROVE  /\ SawAll(f, NamesAt(Place(f)))
         /\ \A name : <<Place(f), name>> \notin exists => WasFree(f, name)
<1>1. /\ original \subseteq exists
      /\ \A e \in original : e = <<e[1], e[2]>>
  BY DEF LooksInv
<1>2. SawAll(f, NamesAt(Place(f)))
  BY <1>1 DEF SawAll, NamesAt
<1>3. \A name : <<Place(f), name>> \notin exists => WasFree(f, name)
  BY <1>1 DEF WasFree
<1> QED BY <1>2, <1>3

-----------------------------------------------------------------------------
(* The front file is settled.                                              *)

(* What was skipped or given up stays so. *)
Final(d, e) ==
  \A f \in File : d.file[f].fate \in {"skipped", "dropped"} => e.file[f].fate = d.file[f].fate

(* What may become of a file that is decided. *)
Verdicts == {"free", "allowed", "renamed", "parked", "unlisted", "skipped", "dropped"}

LEMMA VerdictFates == Verdicts \subseteq Fate \ {"none", "waiting", "done"}
BY DEF Verdicts, Fate

(* The files in front are decided, and nothing else changes. *)
Advances(d, e) ==
  /\ d.pending \in Seq(File)
  /\ \E n \in 0..Len(d.pending) :
       /\ e.pending = SubSeq(d.pending, n + 1, Len(d.pending))
       /\ \A f \in File :
            /\ (\E i \in 1..n : d.pending[i] = f) => e.file[f].fate \in Verdicts
            /\ ~(\E i \in 1..n : d.pending[i] = f) => e.file[f] = d.file[f]

Onward(d, e) == Final(d, e) /\ Advances(d, e)

LEMMA FinalTrans ==
  ASSUME NEW d, NEW e, NEW r, Final(d, e), Final(e, r)
  PROVE  Final(d, r)
BY DEF Final

LEMMA AdvancesTrans ==
  ASSUME NEW d, NEW e, NEW r, Advances(d, e), Advances(e, r)
  PROVE  Advances(d, r)
<1>1. PICK n \in 0..Len(d.pending) :
        /\ e.pending = SubSeq(d.pending, n + 1, Len(d.pending))
        /\ \A f \in File :
            /\ (\E i \in 1..n : d.pending[i] = f) => e.file[f].fate \in Verdicts
            /\ ~(\E i \in 1..n : d.pending[i] = f) => e.file[f] = d.file[f]
  BY DEF Advances
<1>2. PICK m \in 0..Len(e.pending) :
        /\ r.pending = SubSeq(e.pending, m + 1, Len(e.pending))
        /\ \A f \in File :
            /\ (\E i \in 1..m : e.pending[i] = f) => r.file[f].fate \in Verdicts
            /\ ~(\E i \in 1..m : e.pending[i] = f) => r.file[f] = e.file[f]
  BY DEF Advances
<1> DEFINE k == n + m
<1>3. d.pending \in Seq(File) /\ Len(d.pending) \in Nat
  BY DEF Advances
<1>4. Len(e.pending) = Len(d.pending) - n
  BY <1>1, <1>3, SubSeqProperties
<1>5. m \in 0..(Len(d.pending) - n)
  BY <1>4
<1>6. /\ k \in 0..Len(d.pending)
      /\ \A i \in 1..m : e.pending[i] = d.pending[n + i]
      /\ r.pending = SubSeq(d.pending, k + 1, Len(d.pending))
  BY <1>1, <1>2, <1>3, <1>5, SuffixOfSuffix
<1>7. \A i \in 1..k : i \in 1..n \/ (i - n \in 1..m /\ n + (i - n) = i)
  BY <1>3, <1>5
<1>8. \A i \in 1..m : n + i \in 1..k
  BY <1>3, <1>5
<1>9. \A i \in 1..n : i \in 1..k
  BY <1>3, <1>5
<1>10. \A f \in File : (\E i \in 1..k : d.pending[i] = f) <=>
         (\E i \in 1..n : d.pending[i] = f) \/ (\E i \in 1..m : e.pending[i] = f)
  <2> TAKE f \in File
  <2>1. ASSUME NEW i \in 1..k, d.pending[i] = f
        PROVE  (\E j \in 1..n : d.pending[j] = f) \/ (\E j \in 1..m : e.pending[j] = f)
    <3>1. CASE i \in 1..n
      BY <2>1, <3>1
    <3>2. CASE i - n \in 1..m /\ n + (i - n) = i
      BY <1>6, <2>1, <3>2
    <3> QED BY <1>7, <3>1, <3>2
  <2>2. ASSUME NEW i \in 1..n, d.pending[i] = f PROVE \E j \in 1..k : d.pending[j] = f
    BY <1>9, <2>2
  <2>3. ASSUME NEW i \in 1..m, e.pending[i] = f PROVE \E j \in 1..k : d.pending[j] = f
    BY <1>6, <1>8, <2>3
  <2> QED BY <2>1, <2>2, <2>3
<1> HIDE DEF k
<1>11. \A f \in File :
         /\ (\E i \in 1..k : d.pending[i] = f) => r.file[f].fate \in Verdicts
         /\ ~(\E i \in 1..k : d.pending[i] = f) => r.file[f] = d.file[f]
  BY <1>1, <1>2, <1>10
<1> QED BY <1>3, <1>6, <1>11 DEF Advances

LEMMA OnwardTrans ==
  ASSUME NEW d, NEW e, NEW r, Onward(d, e), Onward(e, r)
  PROVE  Onward(d, r)
BY FinalTrans, AdvancesTrans DEF Onward

(* A record a file may have once it is decided. *)
Settles(f, r) ==
  /\ r \in Files /\ r.fate \in Verdicts
  /\ r.fate \in {"free", "renamed"} => WasFree(f, r.name)

(* The file in front goes with record r. *)
FrontGoes(d, e, r) ==
  /\ IsDrain(e) /\ SameBatch(d, e) /\ d.listed \subseteq e.listed
  /\ e.pending = Tail(d.pending)
  /\ e.file = [d.file EXCEPT ![Head(d.pending)] = r]

LEMMA FrontFits ==
  ASSUME NEW d, NEW e, NEW r, NEW c, FilesFit(d, c), d.pending # <<>>,
         Settles(Head(d.pending), r), FrontGoes(d, e, r)
  PROVE  FilesFit(e, c) /\ Onward(d, e)
<1> DEFINE h == Head(d.pending)
<1>1. /\ d.pending \in Seq(File) /\ IsInjective(d.pending) /\ d.file \in [File -> Files]
      /\ ToSet(d.pending) \cap c = {}
      /\ \A f \in File : d.file[f].fate = "waiting" <=> f \in ToSet(d.pending) \cup c
      /\ \A f \in File : d.file[f].fate \in {"free", "renamed"} => WasFree(f, d.file[f].name)
  BY DEF FilesFit
<1>2. /\ h \in File /\ e.pending \in Seq(File) /\ IsInjective(e.pending)
      /\ ToSet(d.pending) = ToSet(e.pending) \cup {h} /\ h \notin ToSet(e.pending)
  BY <1>1, TailElements DEF FrontGoes
<1>3. /\ e.file \in [File -> Files] /\ e.file[h] = r
      /\ \A f \in File \ {h} : e.file[f] = d.file[f]
  BY <1>1, <1>2 DEF FrontGoes, Settles
<1> HIDE DEF h
<1>4. \A f \in File : e.file[f].fate = "waiting" <=> f \in ToSet(e.pending) \cup c
  BY <1>1, <1>2, <1>3, VerdictFates DEF Settles, h
<1>5. \A f \in File : e.file[f].fate \in {"free", "renamed"} => WasFree(f, e.file[f].name)
  BY <1>1, <1>3 DEF Settles, h
<1>6. Final(d, e)
  BY <1>1, <1>2, <1>3 DEF Final
<1>7. Advances(d, e)
  <2>1. e.pending = SubSeq(d.pending, 1 + 1, Len(d.pending)) /\ d.pending[1] = h /\ 1 \in 0..Len(d.pending)
    BY <1>1 DEF FrontGoes, h
  <2>2. r.fate \in Verdicts
    BY DEF Settles
  <2>3. \A f \in File : (\E i \in 1..1 : d.pending[i] = f) <=> f = h
    BY <2>1
  <2> QED BY <1>1, <1>3, <2>1, <2>2, <2>3 DEF Advances
<1> QED BY <1>1, <1>2, <1>3, <1>4, <1>5, <1>6, <1>7 DEF FilesFit, Onward

(* PopAs, with a fate that promises nothing or what is known. *)
LEMMA PopGoes ==
  ASSUME NEW d, IsDrain(d), Head(d.pending) \in File, d.file \in [File -> Files], NEW fate \in Verdicts,
         fate \in {"free", "renamed"} => WasFree(Head(d.pending), d.file[Head(d.pending)].name)
  PROVE  \E r : Settles(Head(d.pending), r) /\ FrontGoes(d, PopAs(d, fate), r)
<1> DEFINE h == Head(d.pending)
           r == [d.file[h] EXCEPT !.fate = fate]
<1>1. h \in File /\ d.file[h] \in Files
  OBVIOUS
<1>2. r \in Files /\ r.fate = fate /\ r.name = d.file[h].name
  BY <1>1, VerdictFates DEF Files
<1>3. FrontGoes(d, PopAs(d, fate), r)
  BY PopFields DEF FrontGoes
<1> HIDE DEF r
<1>4. Settles(h, r)
  BY <1>2 DEF Settles
<1> QED BY <1>3, <1>4

LEMMA RenameGoes ==
  ASSUME NEW d, IsDrain(d), Head(d.pending) \in File, d.file \in [File -> Files],
         SawAll(Head(d.pending), TakenNames(d))
  PROVE  \E r : Settles(Head(d.pending), r) /\ FrontGoes(d, AutoRenamed(d), r)
<1> DEFINE h == Head(d.pending)
           unique == Uniquify(d.file[h].name, TakenNames(d))
           g == [d.file[h] EXCEPT !.fate = "renamed"]
           r == [g EXCEPT !.name = unique]
           l == IF h \in Upload THEN d.listed \cup {unique} ELSE d.listed
           p == PopAs(d, "renamed")
<1>1. h \in File /\ d.file[h] \in Files /\ d.file \in [File -> Files]
  OBVIOUS
<1>2. d.file[h].name \in Names
  BY <1>1 DEF Files
<1>3. unique \in Names /\ WasFree(h, unique)
  BY <1>2, UniqueName, FreeOfAll
<1>4. /\ IsDrain(p) /\ SameBatch(d, p) /\ p.listed = d.listed /\ p.pending = Tail(d.pending)
      /\ p.file = [d.file EXCEPT ![h] = g]
  BY PopFields
<1>5. g \in Files /\ g.fate = "renamed"
  BY <1>1 DEF Files, Fate
<1>6. AutoRenamed(d) = [p EXCEPT !.file[h].name = unique, !.listed = l]
  BY <1>4 DEF AutoRenamed
<1> HIDE DEF unique, l, p, h, g
<1>7. AutoRenamed(d) = [p EXCEPT !.file = [p.file EXCEPT ![h] = [p.file[h] EXCEPT !.name = unique]],
                                 !.listed = l]
  BY <1>6
<1>8. p.file[h] = g /\ [p.file EXCEPT ![h] = r] = [d.file EXCEPT ![h] = r]
  BY <1>1, <1>4, <1>5
<1>9. AutoRenamed(d) = [pending |-> p.pending, file |-> [d.file EXCEPT ![h] = r],
                        policy |-> p.policy, listed |-> l, mkdirs |-> p.mkdirs,
                        cancelled |-> p.cancelled, leaked |-> p.leaked]
  BY <1>4, <1>7, <1>8 DEF IsDrain
<1>10. d.listed \subseteq l
  BY DEF l
<1>11. r \in Files /\ r.fate = "renamed" /\ r.name = unique
  BY <1>3, <1>5 DEF Files
<1> HIDE DEF r
<1>12. FrontGoes(d, AutoRenamed(d), r)
  BY <1>4, <1>9, <1>10 DEF FrontGoes, IsDrain, SameBatch, h
<1>13. Settles(h, r)
  BY <1>3, <1>11 DEF Settles, Verdicts
<1> QED BY <1>12, <1>13 DEF h

(* The front file once its destination is known: it goes, or waits for the *)
(* user.                                                                   *)
LEMMA ResolvedGoes ==
  ASSUME NEW d, IsDrain(d), Head(d.pending) \in File, d.file \in [File -> Files], NEW there \in BOOLEAN,
         SawAll(Head(d.pending), TakenNames(d)),
         ~there => WasFree(Head(d.pending), d.file[Head(d.pending)].name)
  PROVE  \/ \E r : Settles(Head(d.pending), r) /\ FrontGoes(d, Resolved(d, there), r)
         \/ /\ Resolved(d, there) = d
            /\ ResolveConflict(there, Head(d.pending) \in Newer, d.policy)
                 \notin {"Enqueue", "Skip", "RenameAuto"}
<1> DEFINE verdict == ResolveConflict(there, Head(d.pending) \in Newer, d.policy)
<1>1. CASE verdict = "Enqueue"
  <2>1. Resolved(d, there) = PopAs(d, IF there THEN "allowed" ELSE "free")
    BY <1>1 DEF Resolved
  <2>2. CASE there
    <3>1. "allowed" \in Verdicts /\ Resolved(d, there) = PopAs(d, "allowed")
      BY <2>1, <2>2 DEF Verdicts
    <3> QED BY <3>1, PopGoes
  <2>3. CASE ~there
    <3>1. "free" \in Verdicts /\ Resolved(d, there) = PopAs(d, "free")
      BY <2>1, <2>3 DEF Verdicts
    <3> QED BY <2>3, <3>1, PopGoes
  <2> QED BY <2>2, <2>3
<1>2. CASE verdict = "Skip"
  <2>1. Resolved(d, there) = PopAs(d, "skipped") /\ "skipped" \in Verdicts
    BY <1>2 DEF Resolved, Verdicts
  <2> QED BY <2>1, PopGoes
<1>3. CASE verdict = "RenameAuto"
  <2>1. Resolved(d, there) = AutoRenamed(d)
    BY <1>3 DEF Resolved
  <2> QED BY <2>1, RenameGoes
<1>4. CASE verdict \notin {"Enqueue", "Skip", "RenameAuto"}
  <2>1. Resolved(d, there) = d
    BY <1>4 DEF Resolved
  <2> QED BY <1>4, <2>1
<1> QED BY <1>1, <1>2, <1>3, <1>4

(* The first n files of the queue are settled. *)
SeveralGo(d, e, n) ==
  /\ e.pending = SubSeq(d.pending, n + 1, Len(d.pending))
  /\ e.file \in [File -> Files]
  /\ \A f \in File : (\E i \in 1..n : d.pending[i] = f) => Settles(f, e.file[f])
  /\ \A f \in File : ~(\E i \in 1..n : d.pending[i] = f) => e.file[f] = d.file[f]

LEMMA SeveralFit ==
  ASSUME NEW d, NEW e, NEW c, FilesFit(d, c), NEW n \in 0..Len(d.pending), SeveralGo(d, e, n)
  PROVE  FilesFit(e, c) /\ Onward(d, e)
<1> DEFINE front == {d.pending[i] : i \in 1..n}
<1>1. /\ d.pending \in Seq(File) /\ IsInjective(d.pending) /\ d.file \in [File -> Files]
      /\ ToSet(d.pending) \cap c = {}
      /\ \A f \in File : d.file[f].fate = "waiting" <=> f \in ToSet(d.pending) \cup c
      /\ \A f \in File : d.file[f].fate \in {"free", "renamed"} => WasFree(f, d.file[f].name)
  BY DEF FilesFit
<1>2. /\ e.pending \in Seq(File) /\ IsInjective(e.pending)
      /\ ToSet(d.pending) = front \cup ToSet(e.pending) /\ front \cap ToSet(e.pending) = {}
  BY <1>1, SuffixElements DEF SeveralGo
<1>3. \A f \in front : f \in File => Settles(f, e.file[f])
  BY DEF SeveralGo
<1>4. \A f \in File \ front : e.file[f] = d.file[f]
  BY DEF SeveralGo
<1> HIDE DEF front
<1>8. e.file \in [File -> Files]
  BY DEF SeveralGo
<1>5. \A f \in File : e.file[f].fate = "waiting" <=> f \in ToSet(e.pending) \cup c
  BY <1>1, <1>2, <1>3, <1>4, VerdictFates DEF Settles
<1>6. \A f \in File : e.file[f].fate \in {"free", "renamed"} => WasFree(f, e.file[f].name)
  BY <1>1, <1>3, <1>4 DEF Settles
<1>7. Final(d, e)
  BY <1>1, <1>2, <1>3, <1>4 DEF Final
<1>9. Advances(d, e)
  BY <1>1 DEF Advances, SeveralGo, Settles
<1> QED BY <1>1, <1>2, <1>5, <1>6, <1>7, <1>9 DEF FilesFit, SeveralGo, Onward

LEMMA ComparedFile ==
  ASSUME LooksInv, NEW d, IsDrain(d), d.file \in [File -> Files],
         NEW f \in File, f \notin Upload, Compared(d, f).pending = <<>>
  PROVE  Settles(f, Compared(d, f).file[f])
<1> DEFINE x == [d EXCEPT !.pending = <<f>>]
           there == <<Place(f), d.file[f].name>> \in exists
<1>1. /\ IsDrain(x) /\ x.file = d.file /\ x.pending = <<f>>
  <2> DEFINE q == <<f>>
  <2> HIDE DEF q
  <2>1. [d EXCEPT !.pending = q] =
          [pending |-> q, file |-> d.file, policy |-> d.policy, listed |-> d.listed,
           mkdirs |-> d.mkdirs, cancelled |-> d.cancelled, leaked |-> d.leaked]
    BY DEF IsDrain
  <2>2. IsDrain([d EXCEPT !.pending = q]) /\ [d EXCEPT !.pending = q].file = d.file
        /\ [d EXCEPT !.pending = q].pending = q
    BY <2>1 DEF IsDrain
  <2> QED BY <2>2 DEF q
<1>2. Compared(d, f) = Resolved(x, there)
  BY DEF Compared
<1>3. there \in BOOLEAN
  OBVIOUS
<1>4. ~there => WasFree(f, d.file[f].name)
  BY DiskSeesAll
<1> HIDE DEF x, there
<1>5. Head(x.pending) = f /\ x.pending # <<>> /\ Head(<<f>>) = f
  BY <1>1
<1>6. SawAll(f, TakenNames(x))
  BY <1>5, DiskSeesAll DEF TakenNames
<1>7. \/ \E r : Settles(f, r) /\ FrontGoes(x, Resolved(x, there), r)
      \/ Resolved(x, there) = x
  BY <1>1, <1>3, <1>4, <1>5, <1>6, ResolvedGoes
<1>8. PICK r : Settles(f, r) /\ FrontGoes(x, Resolved(x, there), r)
  BY <1>2, <1>5, <1>7
<1>9. Compared(d, f).file[f] = r
  BY <1>1, <1>2, <1>5, <1>8 DEF FrontGoes
<1> QED BY <1>8, <1>9

(* Where the drain stops nothing before it needed an answer. *)
LEMMA StopsAt ==
  ASSUME NEW d, d.pending \in Seq(File)
  PROVE  \E n \in 0..Len(d.pending) :
           /\ DownloadsDrained(d) = FrontSettled(d, n)
           /\ \A i \in 1..n : ~NeedsAnswer(d, d.pending[i])
<1> DEFINE I == {i \in 1..Len(d.pending) : NeedsAnswer(d, d.pending[i])}
           first == IF I # {} THEN Min(I) ELSE 0
           n == IF first = 0 THEN Len(d.pending) ELSE first - 1
<1>1. I \subseteq Nat /\ I \subseteq 1..Len(d.pending) /\ Len(d.pending) \in Nat
  OBVIOUS
<1>3. SelectInSeq(d.pending, LAMBDA f : NeedsAnswer(d, f)) = first
  BY DEF SelectInSeq
<1> HIDE DEF I
<1>7. I # {} => Min(I) \in I /\ \A i \in I : Min(I) <= i
  BY <1>1, MinIsIn
<1>2. /\ first \in 0..Len(d.pending)
      /\ first = 0 => I = {}
      /\ first # 0 => first \in I /\ \A i \in I : first <= i
  <2>1. CASE I = {}
    BY <1>1, <2>1
  <2>2. CASE I # {}
    <3>1. first = Min(I)
      BY <2>2
    <3>2. first \in I /\ \A i \in I : first <= i
      BY <1>7, <2>2, <3>1
    <3> HIDE DEF first
    <3>3. first \in 1..Len(d.pending)
      BY <1>1, <3>2
    <3> QED BY <1>1, <3>2, <3>3
  <2> QED BY <2>1, <2>2
<1> HIDE DEF first
<1>4. DownloadsDrained(d) = FrontSettled(d, n)
  BY <1>3, Zenon DEF DownloadsDrained
<1>5. n \in 0..Len(d.pending) /\ \A i \in 1..n : i \in 1..Len(d.pending) /\ i \notin I
  BY <1>1, <1>2
<1>6. \A i \in 1..n : ~NeedsAnswer(d, d.pending[i])
  BY <1>5 DEF I
<1> HIDE DEF n
<1> QED BY <1>4, <1>5, <1>6

LEMMA DrainedFits ==
  ASSUME LooksInv, NEW d, IsDrain(d), NEW c, FilesFit(d, c)
  PROVE  LET r == DownloadsDrained(d)
         IN  /\ IsDrain(r) /\ SameBatch(d, r) /\ r.listed = d.listed
             /\ FilesFit(r, c) /\ Onward(d, r)
<1>1. d.pending \in Seq(File) /\ d.file \in [File -> Files]
  BY DEF FilesFit
<1>2. PICK n \in 0..Len(d.pending) :
           /\ DownloadsDrained(d) = FrontSettled(d, n)
           /\ \A i \in 1..n : ~NeedsAnswer(d, d.pending[i])
  BY <1>1, StopsAt
<1> DEFINE r == FrontSettled(d, n)
           q == SubSeq(d.pending, n + 1, Len(d.pending))
           g == [f \in File |-> IF \E i \in 1..n : d.pending[i] = f
                                THEN Compared(d, f).file[f] ELSE d.file[f]]
<1>3. r = [d EXCEPT !.pending = q, !.file = g]
  BY DEF FrontSettled
<1> HIDE DEF q, g, r
<1>4. r = [pending |-> q, file |-> g, policy |-> d.policy, listed |-> d.listed,
           mkdirs |-> d.mkdirs, cancelled |-> d.cancelled, leaked |-> d.leaked]
  BY <1>3 DEF IsDrain
<1>5. IsDrain(r) /\ SameBatch(d, r) /\ r.listed = d.listed /\ r.pending = q /\ r.file = g
  BY <1>4 DEF IsDrain, SameBatch
<1>6. \A f \in File : (\E i \in 1..n : d.pending[i] = f) => Settles(f, g[f])
  <2> SUFFICES ASSUME NEW i \in 1..n, d.pending[i] \in File
               PROVE  Settles(d.pending[i], g[d.pending[i]])
    OBVIOUS
  <2>1. d.pending[i] \notin Upload /\ Compared(d, d.pending[i]).pending = <<>>
    BY <1>2 DEF NeedsAnswer
  <2>2. g[d.pending[i]] = Compared(d, d.pending[i]).file[d.pending[i]]
    BY DEF g
  <2> QED BY <1>1, <2>1, <2>2, ComparedFile
<1>7. \A f \in File : ~(\E i \in 1..n : d.pending[i] = f) => g[f] = d.file[f]
  BY DEF g
<1>8. g \in [File -> Files]
  <2>1. \A f \in File : g[f] \in Files
    BY <1>1, <1>6, <1>7 DEF Settles
  <2>2. g = [f \in File |-> g[f]]
    BY DEF g
  <2> QED BY <2>1, <2>2
<1>9. FilesFit(r, c) /\ Onward(d, r)
  <2>1. SeveralGo(d, r, n)
    BY <1>5, <1>6, <1>7, <1>8 DEF q, SeveralGo
  <2> QED BY <2>1, SeveralFit
<1> QED BY <1>2, <1>5, <1>9 DEF r

-----------------------------------------------------------------------------
(* How a handler leaves the slot of task t, with the record e kept.        *)

Prompting == {"None", "Choice"} \cup Questions

(* The question on the screen is about the front file. *)
Asked(e) ==
  /\ e.pending # <<>> /\ Head(e.pending) = about
  /\ about \in Upload => SawAll(about, e.listed)

LeavesIdle(t, session, e) ==
  \E shown \in {"None", prompt} :
    /\ Idles(t, session, e, shown) /\ about' = about /\ e.mkdirs = <<>>
    /\ shown \in Questions => Asked(e)

LeavesErrand(t, session, e) ==
  \E kind \in {"list", "mkdir"}, shown \in {"None", prompt} \ Questions :
    /\ AsksFor(t, session, e, kind, shown)
    /\ e.pending # <<>> /\ scan_generation' = 0
    /\ kind = "list" => e.mkdirs = <<>>

LeavesQuestion(t, session, e) ==
  /\ AsksUser(t, session, e)
  /\ e.pending # <<>> /\ e.mkdirs = <<>> /\ scan_generation' = 0
  /\ Head(e.pending) \in Upload => SawAll(Head(e.pending), e.listed)

LeavesOther(t, session, e) ==
  \E kind \in {"List", "Fs"}, remote \in BOOLEAN : \E errand_kind, f :
    /\ Sends(t, session, e, kind, errand_kind, remote, f)
    /\ ~drain_list /\ ~drain_mkdir /\ e.mkdirs = <<>>
    /\ prompt \in Questions => Asked(e)

Leaves(t, session, e) ==
  \/ LeavesIdle(t, session, e)
  \/ LeavesErrand(t, session, e)
  \/ LeavesQuestion(t, session, e)
  \/ LeavesOther(t, session, e)

LEMMA LeavesServes ==
  ASSUME NEW t, NEW session, NEW e, Leaves(t, session, e), prompt \in Prompting
  PROVE  /\ Keeps(e) /\ Serves(t, session)
         /\ prompt' \in Prompting /\ prompt' # "HostKey"
<1>1. CASE LeavesIdle(t, session, e)
  BY <1>1 DEF LeavesIdle, Idles, Serves, Prompting, Questions
<1>2. CASE LeavesErrand(t, session, e)
  <2>1. PICK kind \in {"list", "mkdir"}, shown \in {"None", prompt} \ Questions :
          AsksFor(t, session, e, kind, shown)
    BY <1>2 DEF LeavesErrand
  <2>2. (IF kind = "list" THEN "List" ELSE "Fs") \in {"List", "Fs"} /\ TRUE \in BOOLEAN
    OBVIOUS
  <2>3. Keeps(e) /\ Serves(t, session) /\ prompt' = shown
    BY <2>1, <2>2 DEF AsksFor, Serves
  <2> QED BY <2>3 DEF Prompting, Questions
<1>3. CASE LeavesQuestion(t, session, e)
  BY <1>3 DEF LeavesQuestion, AsksUser, Idles, Serves, Prompting, Questions
<1>4. CASE LeavesOther(t, session, e)
  BY <1>4 DEF LeavesOther, Sends, Serves, Prompting, Questions
<1> QED BY <1>1, <1>2, <1>3, <1>4 DEF Leaves

LEMMA ErrandChange ==
  ASSUME LooksInv, NEW t \in IoTask, NEW r, ErrandIs(r), errand' = [errand EXCEPT ![t] = r]
  PROVE  /\ errand' = [u \in IoTask |-> errand'[u]]
         /\ \A u \in IoTask : ErrandIs(errand'[u])
         /\ errand'[t] = r
         /\ \A u \in IoTask \ {t} : errand'[u] = errand[u]
BY DEF LooksInv

LEMMA ErrandTypes ==
  /\ ErrandIs(NoErrand)
  /\ \A kind, f : LET r == [NoErrand EXCEPT !.kind = kind, !.file = f]
                  IN  ErrandIs(r) /\ r.kind = kind /\ r.file = f
<1>1. ErrandIs(NoErrand)
  BY DEF NoErrand, ErrandIs
<1>2. ASSUME NEW n, ErrandIs(n), NEW kind, NEW f, NEW r, r = [n EXCEPT !.kind = kind, !.file = f]
      PROVE  r = [kind |-> kind, file |-> f, found |-> n.found]
  BY <1>2 DEF ErrandIs
<1>3. ASSUME NEW kind, NEW f
      PROVE  LET r == [NoErrand EXCEPT !.kind = kind, !.file = f]
             IN  ErrandIs(r) /\ r.kind = kind /\ r.file = f
  <2> DEFINE r == [NoErrand EXCEPT !.kind = kind, !.file = f]
  <2>1. r = [kind |-> kind, file |-> f, found |-> NoErrand.found]
    BY <1>1, <1>2
  <2> HIDE DEF r
  <2>2. r.kind = kind /\ r.file = f /\ r.found = NoErrand.found
    BY <2>1
  <2>3. ErrandIs(r)
    BY <2>1, <2>2, Zenon DEF ErrandIs
  <2> QED BY <2>2, <2>3 DEF r
<1> QED BY <1>1, <1>3

(* The drain is left in order: flags, question and errand fit. *)
LEMMA LeavesFront ==
  ASSUME BelowInv, FrontInv, LooksInv, QuietInv,
         NEW t \in IoTask, NEW session \in 0..generation, NEW e, NEW c, FilesFit(e, c), Leaves(t, session, e),
         Books', generation' = generation, original' = original, exists \subseteq exists',
         scan_generation' # 0 => prompt \notin Questions
  PROVE  FrontInv' /\ LooksInv' /\ QuietInv'
<1>1. /\ original' \subseteq exists'
      /\ \A x \in original' : x = <<x[1], x[2]>>
      /\ about \in File \cup {NoFile}
  BY DEF LooksInv, FrontInv
<1>2. Books
  BY DEF BelowInv, UiCore
<1>3. \A f, names : SawAll(f, names)' = SawAll(f, names)
  BY DEF SawAll
<1>4. CASE LeavesIdle(t, session, e)
  <2>1. PICK shown \in {"None", prompt} :
          /\ Idles(t, session, e, shown) /\ about' = about /\ e.mkdirs = <<>>
          /\ shown \in Questions => Asked(e)
    BY <1>4 DEF LeavesIdle
  <2>2. /\ pending_scan' = e.pending /\ listed_dest_names' = e.listed /\ mkdir_queue' = e.mkdirs
        /\ prompt' = shown /\ drain_list' = FALSE /\ drain_mkdir' = FALSE
        /\ errand' = [errand EXCEPT ![t] = NoErrand]
    BY <2>1 DEF Idles, Keeps
  <2>3. FrontInv'
    BY <1>1, <2>1, <2>2 DEF FrontInv, Asked
  <2>4. LooksInv'
    BY <1>1, <1>3, <2>1, <2>2, ErrandChange, ErrandTypes DEF LooksInv, Asked
  <2> QED BY <2>1, <2>2, <2>3, <2>4 DEF Questions, QuietInv
<1>5. CASE LeavesErrand(t, session, e)
  <2>1. PICK kind \in {"list", "mkdir"}, shown \in {"None", prompt} \ Questions :
          /\ AsksFor(t, session, e, kind, shown)
          /\ e.pending # <<>> /\ scan_generation' = 0
          /\ kind = "list" => e.mkdirs = <<>>
    BY <1>5 DEF LeavesErrand
  <2> DEFINE r == [NoErrand EXCEPT !.kind = kind, !.file = Head(e.pending)]
             k == IF kind = "list" THEN "List" ELSE "Fs"
  <2>2. /\ pending_scan' = e.pending /\ listed_dest_names' = e.listed /\ mkdir_queue' = e.mkdirs
        /\ prompt' = shown /\ about' = Head(e.pending)
        /\ errand' = [errand EXCEPT ![t] = r]
        /\ SpawnsInto(t, k, session, TRUE)
    BY <2>1 DEF AsksFor, Keeps
  <2>7. (drain_list' <=> kind = "list") /\ (drain_mkdir' <=> kind = "mkdir")
        /\ drain_list' \in BOOLEAN /\ drain_mkdir' \in BOOLEAN
    BY <2>1 DEF AsksFor
  <2>3. ErrandIs(r) /\ r.kind = kind /\ r.file = Head(e.pending)
    BY ErrandTypes
  <2> HIDE DEF r
  <2>4. /\ in_flight'.kind = k
        /\ io'[t].kind = k /\ io'[t].generation = generation /\ ~io'[t].ok
    <3>1. k \in {"List", "Fs"} /\ TRUE \in BOOLEAN
      OBVIOUS
    <3>2. io'[t] = NewTask(k, session, TRUE)
      BY <1>2, <2>2 DEF SpawnsInto, Books, SessionTypeOK
    <3>3. in_flight'.kind = k
      BY <1>2, <2>2, <3>1, SpawnSlot
    <3> HIDE DEF k
    <3>4. ~NewTask(k, session, TRUE).ok
      BY DEF NewTask, IdleIo
    <3>5. /\ NewTask(k, session, TRUE).kind = k
          /\ NewTask(k, session, TRUE).generation = generation
      BY DEF NewTask, IdleIo
    <3> QED BY <3>2, <3>3, <3>4, <3>5
  <2>5. Head(e.pending) \in File
    BY <2>1, TailElements DEF FilesFit
  <2>6. FrontInv'
    BY <2>1, <2>2, <2>4, <2>5, <2>7 DEF FrontInv
  <2>8. drain_list' => \A u \in IoTask : Current(u)' => u = t
    <3>1. Current(t)'
      BY <2>4 DEF Current, Live
    <3> QED BY <3>1 DEF Books, CarrierInv
  <2>9. (drain_list => \A u \in IoTask : Current(u) =>
           /\ errand[u].kind = "list" /\ errand[u].file = about
           /\ io[u].ok => SawAll(about, errand[u].found))'
    <3>1. errand'[t] = r
      BY <2>2, <2>3, ErrandChange
    <3> QED BY <2>2, <2>3, <2>4, <2>7, <2>8, <3>1
  <2>10. LooksInv'
    <3>1. prompt' \notin Questions
      BY <2>1, <2>2
    <3>2. errand' = [u \in IoTask |-> errand'[u]] /\ \A u \in IoTask : ErrandIs(errand'[u])
      BY <2>2, <2>3, ErrandChange
    <3>3. \A u \in IoTask : ErrandIs(errand[u])'
      BY <3>2 DEF ErrandIs
    <3>4. (prompt \in Questions /\ about \in Upload => SawAll(about, listed_dest_names))'
      BY <3>1
    <3> QED BY <1>1, <2>9, <3>2, <3>3, <3>4 DEF LooksInv
  <2> QED BY <2>1, <2>2, <2>6, <2>7, <2>10 DEF QuietInv
<1>6. CASE LeavesQuestion(t, session, e)
  <2>1. /\ AsksUser(t, session, e)
        /\ e.pending # <<>> /\ e.mkdirs = <<>> /\ scan_generation' = 0
        /\ Head(e.pending) \in Upload => SawAll(Head(e.pending), e.listed)
    BY <1>6 DEF LeavesQuestion
  <2>2. /\ pending_scan' = e.pending /\ listed_dest_names' = e.listed /\ mkdir_queue' = e.mkdirs
        /\ prompt' = "Overwrite" /\ drain_list' = FALSE /\ drain_mkdir' = FALSE
        /\ errand' = [errand EXCEPT ![t] = NoErrand]
        /\ about' = Head(e.pending)
    BY <2>1 DEF AsksUser, Idles, Keeps
  <2>3. Head(e.pending) \in File
    BY <2>1, TailElements DEF FilesFit
  <2>4. FrontInv'
    BY <2>1, <2>2, <2>3 DEF FrontInv
  <2>5. LooksInv'
    BY <1>1, <1>3, <2>1, <2>2, ErrandChange, ErrandTypes DEF LooksInv
  <2> QED BY <2>1, <2>2, <2>4, <2>5 DEF QuietInv
<1>7. CASE LeavesOther(t, session, e)
  <2>0. PICK kind \in {"List", "Fs"}, remote \in BOOLEAN : \E errand_kind, f :
          /\ Sends(t, session, e, kind, errand_kind, remote, f)
          /\ ~drain_list /\ ~drain_mkdir /\ e.mkdirs = <<>>
          /\ prompt \in Questions => Asked(e)
    BY <1>7 DEF LeavesOther
  <2>1. PICK errand_kind, f :
          /\ Sends(t, session, e, kind, errand_kind, remote, f)
          /\ ~drain_list /\ ~drain_mkdir /\ e.mkdirs = <<>>
          /\ prompt \in Questions => Asked(e)
    BY <2>0
  <2> DEFINE r == [NoErrand EXCEPT !.kind = errand_kind, !.file = f]
  <2>2. /\ pending_scan' = e.pending /\ listed_dest_names' = e.listed /\ mkdir_queue' = e.mkdirs
        /\ prompt' = prompt /\ drain_list' = drain_list /\ drain_mkdir' = drain_mkdir
        /\ errand' = [errand EXCEPT ![t] = r]
        /\ about' = about
    BY <2>1 DEF Sends, Keeps
  <2>3. ErrandIs(r)
    BY ErrandTypes
  <2> HIDE DEF r
  <2>4. FrontInv'
    BY <1>1, <2>1, <2>2 DEF FrontInv, Asked
  <2>5. LooksInv'
    BY <1>1, <1>3, <2>1, <2>2, <2>3, ErrandChange DEF LooksInv, Asked
  <2>6. drain_list' \in BOOLEAN /\ drain_mkdir' \in BOOLEAN
    BY <2>2 DEF QuietInv
  <2> QED BY <2>1, <2>2, <2>4, <2>5, <2>6 DEF QuietInv
<1> QED BY <1>4, <1>5, <1>6, <1>7 DEF Leaves

-----------------------------------------------------------------------------
(* drain_scan_next keeps the books of what it drains.                      *)

(* What becomes of record d while the files in c are on their way. *)
Becomes(d, e, c) ==
  /\ IsDrain(e) /\ FilesFit(e, c) /\ PolicyFits(e) /\ PolicyLasts(e) /\ Onward(d, e)
  /\ e.cancelled = d.cancelled

LEMMA SameFiles ==
  ASSUME NEW d, NEW e, NEW c, FilesFit(d, c), e.pending = d.pending, e.file = d.file
  PROVE  FilesFit(e, c) /\ Onward(d, e)
<1>1. FilesFit(e, c) /\ Final(d, e)
  BY DEF FilesFit, Final
<1>2. d.pending \in Seq(File) /\ d.pending = SubSeq(d.pending, 0 + 1, Len(d.pending))
  BY SubSeqProperties DEF FilesFit
<1>3. 0 \in 0..Len(d.pending) /\ \A f \in File : ~(\E i \in 1..0 : d.pending[i] = f)
  BY <1>2
<1>4. Advances(d, e)
  BY <1>2, <1>3 DEF Advances
<1> QED BY <1>1, <1>4 DEF Onward

LEMMA HeldBecomes ==
  ASSUME NEW d, IsDrain(d), NEW c, FilesFit(d, c), PolicyFits(d)
  PROVE  Becomes(d, HeldUp(d), c)
<1>1. IsDrain(HeldUp(d)) /\ FilesFit(HeldUp(d), c) /\ Onward(d, HeldUp(d))
  BY HeldFields, SameFiles
<1>2. /\ HeldUp(d).pending = d.pending /\ HeldUp(d).policy = d.policy
      /\ HeldUp(d).mkdirs = d.mkdirs /\ HeldUp(d).cancelled = d.cancelled
  BY HeldFields
<1>3. PolicyFits(HeldUp(d))
  BY <1>2, Zenon DEF PolicyFits
<1>4. d.pending = <<>> /\ ~d.cancelled => HeldUp(d).leaked
  BY HeldFields
<1>5. PolicyLasts(HeldUp(d))
  BY <1>2, <1>4, Zenon DEF PolicyFits, PolicyLasts
<1> QED BY <1>1, <1>2, <1>3, <1>5 DEF Becomes

LEMMA EndBecomes ==
  ASSUME NEW d, IsDrain(d), NEW c, FilesFit(d, c), d.cancelled => d.pending = <<>>
  PROVE  Becomes(d, BatchEnds(d), c)
<1>1. IsDrain(BatchEnds(d)) /\ FilesFit(BatchEnds(d), c) /\ Onward(d, BatchEnds(d))
  BY EndFields, SameFiles
<1>2. /\ BatchEnds(d).pending = d.pending /\ BatchEnds(d).policy = DefaultPolicy
      /\ BatchEnds(d).mkdirs = <<>> /\ BatchEnds(d).cancelled = d.cancelled
  BY EndFields
<1>3. DefaultPolicy \in Policy
  BY FileAssumption DEF Policy
<1>4. PolicyFits(BatchEnds(d))
  BY <1>2, <1>3, Zenon DEF PolicyFits
<1>5. PolicyLasts(BatchEnds(d))
  BY <1>2, Zenon DEF PolicyLasts
<1> QED BY <1>1, <1>2, <1>4, <1>5 DEF Becomes

LEMMA ScanNext ==
  ASSUME LooksInv, NEW t, NEW session, NEW d, IsDrain(d), NEW c, FilesFit(d, c), PolicyFits(d),
         d.mkdirs = <<>>, NEW shown \in {"None", prompt}, shown \in Questions => Asked(d),
         scan_generation' = 0, DrainScanNext(t, session, d, shown)
  PROVE  \E e : Becomes(d, e, c) /\ Leaves(t, session, e)
<1> DEFINE r == DownloadsDrained(d)
<1>1. /\ IsDrain(r) /\ SameBatch(d, r) /\ FilesFit(r, c) /\ Onward(d, r)
      /\ r.policy = d.policy /\ r.mkdirs = <<>> /\ r.cancelled = d.cancelled
  BY DrainedFits DEF SameBatch
<1> HIDE DEF r
<1>2. CASE Holds(d, shown)
  <2>1. Idles(t, session, HeldUp(d), shown) /\ about' = about
    BY <1>2 DEF DrainScanNext
  <2>2. HeldUp(d).mkdirs = <<>> /\ (shown \in Questions => Asked(HeldUp(d)))
    BY HeldFields DEF Asked
  <2>3. LeavesIdle(t, session, HeldUp(d))
    BY <2>1, <2>2 DEF LeavesIdle
  <2> QED BY <2>3, HeldBecomes DEF Leaves
<1>3. CASE ~Holds(d, shown)
  <2>1. ~d.cancelled /\ ~r.cancelled
    BY <1>1, <1>3, Zenon DEF Holds
  <2>2. shown \notin Questions
    BY <1>3 DEF Holds, Questions
  <2>3. PolicyFits(r)
    BY <1>1, <2>1, Zenon DEF PolicyFits
  <2>4. CASE r.pending = <<>>
    <3>1. Idles(t, session, BatchEnds(r), shown) /\ about' = about
      BY <1>3, <2>4 DEF DrainScanNext, r
    <3>2. Becomes(r, BatchEnds(r), c) /\ BatchEnds(r).mkdirs = <<>>
      BY <1>1, <2>1, EndBecomes, EndFields
    <3>3. LeavesIdle(t, session, BatchEnds(r))
      BY <2>2, <3>1, <3>2 DEF LeavesIdle
    <3>4. Becomes(d, BatchEnds(r), c)
      BY <1>1, <3>2, OnwardTrans DEF Becomes
    <3> QED BY <3>3, <3>4 DEF Leaves
  <2>5. CASE r.pending # <<>>
    <3>1. Becomes(d, r, c)
      BY <1>1, <2>3, <2>5 DEF Becomes, PolicyLasts
    <3>2. CASE Head(r.pending) \in Upload
      <4>1. AsksFor(t, session, r, "list", shown)
        BY <1>3, <2>5, <3>2 DEF DrainScanNext, r
      <4>2. LeavesErrand(t, session, r)
        BY <1>1, <2>2, <2>5, <4>1 DEF LeavesErrand
      <4> QED BY <3>1, <4>2 DEF Leaves
    <3>3. CASE Head(r.pending) \notin Upload
      <4>1. AsksUser(t, session, r)
        BY <1>3, <2>5, <3>3 DEF DrainScanNext, r
      <4>2. LeavesQuestion(t, session, r)
        BY <1>1, <2>5, <3>3, <4>1 DEF LeavesQuestion
      <4> QED BY <3>1, <4>2 DEF Leaves
    <3> QED BY <3>2, <3>3
  <2> QED BY <2>4, <2>5
<1> QED BY <1>2, <1>3

-----------------------------------------------------------------------------
(* The channel and the scan.                                               *)

LEMMA AppendParts ==
  ASSUME NEW S, NEW q \in Seq(S), NEW m \in S
  PROVE  /\ Append(q, m) \in Seq(S) /\ Len(q) \in Nat /\ Len(Append(q, m)) = Len(q) + 1
         /\ \A i \in 1..Len(q) : i \in 1..Len(Append(q, m)) /\ Append(q, m)[i] = q[i]
         /\ Append(q, m)[Len(q) + 1] = m /\ Len(q) + 1 \in 1..Len(Append(q, m))
         /\ \A i \in 1..Len(Append(q, m)) : i \in 1..Len(q) \/ i = Len(q) + 1
BY AppendProperties

LEMMA TailParts ==
  ASSUME NEW S, NEW q \in Seq(S), q # <<>>
  PROVE  /\ Tail(q) \in Seq(S) /\ Len(q) \in Nat /\ Len(Tail(q)) = Len(q) - 1
         /\ Head(q) = q[1] /\ 1 \in 1..Len(q) /\ Head(q) \in S
         /\ \A i \in 1..Len(Tail(q)) : i + 1 \in 1..Len(q) /\ Tail(q)[i] = q[i + 1]
         /\ \A i \in 1..Len(q) : i = 1 \/ (i - 1 \in 1..Len(Tail(q)) /\ q[i] = Tail(q)[i - 1])
<1> DEFINE p == Tail(q)
<1>1. /\ p \in Seq(S) /\ Len(q) \in Nat /\ Len(q) >= 1 /\ Len(p) = Len(q) - 1
      /\ Head(q) = q[1] /\ Head(q) \in S
      /\ \A i \in 1..Len(p) : p[i] = q[i + 1]
  BY HeadTailProperties, EmptySeq
<1> HIDE DEF p
<1>2. \A i \in 1..Len(p) : i + 1 \in 1..Len(q) /\ p[i] = q[i + 1]
  BY <1>1
<1>3. \A i \in 1..Len(q) : i = 1 \/ (i - 1 \in 1..Len(p) /\ q[i] = p[i - 1])
  <2>1. ASSUME NEW i \in 1..Len(q), i # 1
        PROVE  i - 1 \in 1..Len(p) /\ q[i] = p[i - 1]
    <3>1. i - 1 \in 1..Len(p) /\ (i - 1) + 1 = i
      BY <1>1, <2>1
    <3> QED BY <1>1, <3>1
  <2> QED BY <2>1
<1>4. 1 \in 1..Len(q)
  BY <1>1
<1>5. /\ p \in Seq(S) /\ Len(q) \in Nat /\ Len(p) = Len(q) - 1
      /\ Head(q) = q[1] /\ 1 \in 1..Len(q) /\ Head(q) \in S
      /\ \A i \in 1..Len(p) : i + 1 \in 1..Len(q) /\ p[i] = q[i + 1]
      /\ \A i \in 1..Len(q) : i = 1 \/ (i - 1 \in 1..Len(p) /\ q[i] = p[i - 1])
  BY <1>1, <1>2, <1>3, <1>4, Zenon
<1> QED BY <1>5, Zenon DEF p

LEMMA CarriedAppend ==
  ASSUME NEW S, NEW q \in Seq(S), NEW m \in S
  PROVE  Carried(Append(q, m)) = IF m.kind = "ScanItem" THEN Carried(q) \cup {m.task} ELSE Carried(q)
<1> DEFINE p == Append(q, m)
<1>1. /\ Len(q) \in Nat /\ Len(p) = Len(q) + 1
      /\ \A i \in 1..Len(q) : i \in 1..Len(p) /\ p[i] = q[i]
      /\ p[Len(q) + 1] = m /\ Len(q) + 1 \in 1..Len(p)
      /\ \A i \in 1..Len(p) : i \in 1..Len(q) \/ i = Len(q) + 1
  BY AppendParts
<1> HIDE DEF p
<1>2. Carried(p) = IF m.kind = "ScanItem" THEN Carried(q) \cup {m.task} ELSE Carried(q)
  BY <1>1 DEF Carried
<1> QED BY <1>2 DEF p

LEMMA CarriedTail ==
  ASSUME NEW S, NEW q \in Seq(S), q # <<>>
  PROVE  Carried(q) = IF Head(q).kind = "ScanItem" THEN Carried(Tail(q)) \cup {Head(q).task}
                      ELSE Carried(Tail(q))
<1> DEFINE p == Tail(q)
<1>1. /\ Head(q) = q[1] /\ 1 \in 1..Len(q)
      /\ \A i \in 1..Len(p) : i + 1 \in 1..Len(q) /\ p[i] = q[i + 1]
      /\ \A i \in 1..Len(q) : i = 1 \/ (i - 1 \in 1..Len(p) /\ q[i] = p[i - 1])
  BY TailParts
<1> HIDE DEF p
<1>2. Carried(q) \subseteq IF Head(q).kind = "ScanItem" THEN Carried(p) \cup {Head(q).task} ELSE Carried(p)
  <2> SUFFICES ASSUME NEW i \in 1..Len(q), q[i].kind = "ScanItem"
               PROVE  q[i].task \in IF Head(q).kind = "ScanItem" THEN Carried(p) \cup {Head(q).task}
                                    ELSE Carried(p)
    BY DEF Carried
  <2>1. CASE i = 1
    BY <1>1, <2>1
  <2>2. CASE i # 1
    <3>1. i - 1 \in 1..Len(p) /\ q[i] = p[i - 1]
      BY <1>1, <2>2
    <3>2. q[i].task \in Carried(p)
      BY <3>1 DEF Carried
    <3> QED BY <3>2
  <2> QED BY <2>1, <2>2
<1>3. Carried(p) \subseteq Carried(q) /\ (Head(q).kind = "ScanItem" => Head(q).task \in Carried(q))
  BY <1>1 DEF Carried
<1> QED BY <1>2, <1>3 DEF p

(* A message of another user of the session. *)
LEMMA FitsForeign ==
  ASSUME NEW S, NEW q \in Seq(S), NEW m \in S, m.kind \notin Own, NEW f, NEW e, Fits(q, f, e)
  PROVE  Fits(Append(q, m), f, e)
<1> DEFINE p == Append(q, m)
<1>1. /\ \A i \in 1..Len(q) : p[i] = q[i]
      /\ p[Len(q) + 1] = m
      /\ \A i \in 1..Len(p) : i \in 1..Len(q) \/ i = Len(q) + 1
  BY AppendParts
<1> HIDE DEF p
<1>2. \A i \in 1..Len(p) : p[i].kind \in Own => i \in 1..Len(q) /\ p[i] = q[i]
  BY <1>1
<1>3. Fits(p, f, e)
  BY <1>2 DEF Fits, Own
<1> QED BY <1>3 DEF p

LEMMA SentAppend ==
  ASSUME NEW S, NEW q \in Seq(S), NEW m \in S, NEW w, NEW x, SentOnce(q, w),
         \/ m.kind \notin ScanKinds /\ x = w
         \/ /\ m.kind = "ScanItem" /\ w.pc = "walking" /\ w.left # <<>> /\ w.left \in Seq(File)
            /\ m.task = Head(w.left) /\ x.left = Tail(w.left) /\ x.pc = w.pc
         \/ /\ m.kind \in EndKinds /\ w.pc = "walking" /\ x.left = w.left /\ x.pc = "over"
            /\ m.kind = "ScanDone" => w.left = <<>>
  PROVE  SentOnce(Append(q, m), x)
<1> DEFINE p == Append(q, m)
<1>1. /\ Len(q) \in Nat /\ Len(p) = Len(q) + 1
      /\ \A i \in 1..Len(q) : p[i] = q[i]
      /\ p[Len(q) + 1] = m
      /\ \A i \in 1..Len(p) : i \in 1..Len(q) \/ i = Len(q) + 1
  BY AppendParts
<1> HIDE DEF p
<1>2. CASE m.kind \notin ScanKinds /\ x = w
  <2>1. \A i \in 1..Len(p) : p[i].kind \in ScanKinds => i \in 1..Len(q) /\ p[i] = q[i]
    BY <1>1, <1>2
  <2>2. SentOnce(p, w)
    BY <2>1, <1>1 DEF SentOnce, ScanKinds, EndKinds
  <2> QED BY <1>2, <2>2 DEF p
<1>3. CASE /\ m.kind = "ScanItem" /\ w.pc = "walking" /\ w.left # <<>> /\ w.left \in Seq(File)
           /\ m.task = Head(w.left) /\ x.left = Tail(w.left) /\ x.pc = w.pc
  <2>1. /\ m.task \in File /\ m.task \in ToSet(w.left) /\ m.task \notin ToSet(x.left)
        /\ ToSet(x.left) \subseteq ToSet(w.left) /\ IsInjective(x.left)
    BY <1>3, TailElements DEF SentOnce
  <2>2. \A i \in 1..Len(q) : q[i].kind \notin EndKinds
    BY <1>3 DEF SentOnce
  <2>3. \A i \in 1..Len(p) : p[i].kind = "ScanItem" => p[i].task \in File \ ToSet(x.left)
    BY <1>1, <2>1 DEF SentOnce
  <2>4. \A i, j \in 1..Len(p) :
          p[i].kind = "ScanItem" /\ p[j].kind = "ScanItem" /\ p[i].task = p[j].task => i = j
    BY <1>1, <2>1 DEF SentOnce
  <2>5. \A i \in 1..Len(p) : p[i].kind \notin EndKinds
    BY <1>1, <1>3, <2>2 DEF EndKinds
  <2> QED BY <2>1, <2>3, <2>4, <2>5 DEF SentOnce, EndKinds, p
<1>4. CASE /\ m.kind \in EndKinds /\ w.pc = "walking" /\ x.left = w.left /\ x.pc = "over"
           /\ m.kind = "ScanDone" => w.left = <<>>
  <2>1. \A i \in 1..Len(q) : q[i].kind \notin EndKinds
    BY <1>4 DEF SentOnce
  <2>2. \A i \in 1..Len(p) : p[i].kind = "ScanItem" => i \in 1..Len(q) /\ p[i] = q[i]
    BY <1>1, <1>4 DEF EndKinds
  <2>3. \A i \in 1..Len(p) : p[i].kind \in EndKinds => i = Len(p) /\ p[i] = m
    BY <1>1, <2>1
  <2>4. SentOnce(p, x)
    BY <1>1, <1>4, <2>2, <2>3 DEF SentOnce, EndKinds
  <2> QED BY <2>4 DEF p
<1> QED BY <1>2, <1>3, <1>4

LEMMA SentTail ==
  ASSUME NEW S, NEW q \in Seq(S), q # <<>>, NEW w, SentOnce(q, w)
  PROVE  /\ SentOnce(Tail(q), w)
         /\ Head(q).kind = "ScanItem" =>
              /\ Head(q).task \in File /\ Head(q).task \notin ToSet(w.left)
              /\ Head(q).task \notin Carried(Tail(q))
         /\ Head(q).kind \in EndKinds => ScanIsOver(Tail(q), w) /\ Carried(q) = {}
         /\ Head(q).kind = "ScanDone" => w.left = <<>>
<1> DEFINE p == Tail(q)
<1>1. /\ Len(q) \in Nat /\ Len(p) = Len(q) - 1
      /\ Head(q) = q[1] /\ 1 \in 1..Len(q)
      /\ \A i \in 1..Len(p) : i + 1 \in 1..Len(q) /\ p[i] = q[i + 1]
  BY TailParts
<1> HIDE DEF p
<1>2. SentOnce(p, w)
  <2>1. ASSUME NEW i \in 1..Len(p), NEW j \in 1..Len(p),
               p[i].kind = "ScanItem", p[j].kind = "ScanItem", p[i].task = p[j].task
        PROVE  i = j
    <3>1. i + 1 = j + 1
      BY <1>1, <2>1 DEF SentOnce
    <3> QED BY <3>1
  <2>2. ASSUME NEW i \in 1..Len(p), NEW j \in 1..Len(p), p[i].kind \in EndKinds, p[j].kind \in ScanKinds
        PROVE  j <= i
    <3>1. j + 1 <= i + 1
      BY <1>1, <2>2 DEF SentOnce
    <3> QED BY <3>1
  <2> QED BY <1>1, <2>1, <2>2 DEF SentOnce
<1>3. ASSUME Head(q).kind = "ScanItem"
      PROVE  /\ Head(q).task \in File /\ Head(q).task \notin ToSet(w.left)
             /\ Head(q).task \notin Carried(p)
  <2>1. q[1].task \in File \ ToSet(w.left)
    BY <1>1, <1>3 DEF SentOnce
  <2>2. ASSUME NEW i \in 1..Len(p), p[i].kind = "ScanItem", p[i].task = q[1].task
        PROVE  FALSE
    <3>1. i + 1 = 1
      BY <1>1, <1>3, <2>2 DEF SentOnce
    <3> QED BY <3>1
  <2> QED BY <1>1, <2>1, <2>2 DEF Carried
<1>4. ASSUME Head(q).kind \in EndKinds
      PROVE  ScanIsOver(p, w) /\ Carried(q) = {}
  <2>1. \A i \in 1..Len(q) : q[i].kind \in ScanKinds => i <= 1
    BY <1>1, <1>4 DEF SentOnce
  <2>2. \A i \in 1..Len(p) : p[i].kind \notin ScanKinds
    BY <1>1, <2>1
  <2>3. \A i \in 1..Len(q) : q[i].kind # "ScanItem"
    BY <1>1, <1>4, <2>1 DEF ScanKinds, EndKinds
  <2>4. w.pc # "walking"
    BY <1>1, <1>4 DEF SentOnce
  <2> QED BY <2>2, <2>3, <2>4 DEF ScanIsOver, Carried
<1>5. Head(q).kind = "ScanDone" => w.left = <<>>
  BY <1>1 DEF SentOnce
<1> QED BY <1>2, <1>3, <1>4, <1>5 DEF p

LEMMA MessageTypes ==
  /\ \A t \in IoTask : Question(t) \in Messages /\ Report(t) \in Messages
  /\ \A kind \in ScanKinds, f \in File \cup {NoFile} : Message(kind, f) \in Messages
BY UiMessageTypes DEF Messages, Message

(* The scan takes no part in the step. *)
ScanIdles ==
  /\ UNCHANGED scanVars /\ UNCHANGED <<generation, connected>>
  /\ \/ io_rx' = io_rx
     \/ io_rx # <<>> /\ io_rx' = Tail(io_rx) /\ Head(io_rx).kind \in Own
     \/ \E t \in IoTask : io_rx' \in {Append(io_rx, Question(t)), Append(io_rx, Report(t))}

LEMMA ScanKept ==
  ASSUME io_rx \in Seq(Messages), WalkInv, SentOnce(io_rx, walk), ScanIdles
  PROVE  io_rx' \in Seq(Messages) /\ WalkInv' /\ SentOnce(io_rx, walk)' /\ Coming' = Coming
<1>1. /\ io_rx' \in Seq(Messages) /\ SentOnce(io_rx', walk) /\ Carried(io_rx') = Carried(io_rx)
      /\ ScanIsOver(io_rx, walk) => ScanIsOver(io_rx', walk)
  <2>1. CASE io_rx' = io_rx
    BY <2>1
  <2>2. CASE io_rx # <<>> /\ io_rx' = Tail(io_rx) /\ Head(io_rx).kind \in Own
    <3>1. Head(io_rx).kind # "ScanItem"
      BY <2>2 DEF Own
    <3>2. io_rx' \in Seq(Messages) /\ SentOnce(io_rx', walk) /\ Carried(io_rx') = Carried(io_rx)
      BY <2>2, <3>1, TailParts, SentTail, CarriedTail
    <3>3. \A i \in 1..Len(io_rx') : i + 1 \in 1..Len(io_rx) /\ io_rx'[i] = io_rx[i + 1]
      BY <2>2, TailParts
    <3> QED BY <3>2, <3>3 DEF ScanIsOver
  <2>3. ASSUME NEW m \in Messages, m.kind \in Own, io_rx' = Append(io_rx, m)
        PROVE  /\ io_rx' \in Seq(Messages) /\ SentOnce(io_rx', walk) /\ Carried(io_rx') = Carried(io_rx)
               /\ ScanIsOver(io_rx, walk) => ScanIsOver(io_rx', walk)
    <3>1. m.kind \notin ScanKinds /\ m.kind # "ScanItem"
      BY <2>3 DEF Own, ScanKinds, EndKinds
    <3>2. io_rx' \in Seq(Messages) /\ SentOnce(io_rx', walk) /\ Carried(io_rx') = Carried(io_rx)
      BY <2>3, <3>1, AppendParts, SentAppend, CarriedAppend
    <3>3. /\ \A i \in 1..Len(io_rx) : io_rx'[i] = io_rx[i]
          /\ io_rx'[Len(io_rx) + 1] = m
          /\ \A i \in 1..Len(io_rx') : i \in 1..Len(io_rx) \/ i = Len(io_rx) + 1
      BY <2>3, AppendParts
    <3>4. \A i \in 1..Len(io_rx') : io_rx'[i].kind \in ScanKinds =>
            i \in 1..Len(io_rx) /\ io_rx[i].kind \in ScanKinds
      BY <3>1, <3>3
    <3> QED BY <3>2, <3>4 DEF ScanIsOver
  <2>4. \A t \in IoTask : Question(t).kind \in Own /\ Report(t).kind \in Own
    BY DEF Question, Report, Own
  <2> QED BY <2>1, <2>2, <2>3, <2>4, MessageTypes DEF ScanIdles
<1>2. UNCHANGED <<scan_generation, scan_delete_source, walk, generation, connected>>
  BY DEF ScanIdles, scanVars
<1>3. SentOnce(io_rx, walk)'
  BY <1>1, <1>2
<1>4. WalkInv'
  BY <1>1, <1>2 DEF WalkInv, Scanning
<1>5. Coming' = Coming
  BY <1>1, <1>2 DEF Coming, Scanning
<1> QED BY <1>1, <1>3, <1>4, <1>5

(* Only the channel and the prompt change. *)
LEMMA ChannelCore ==
  ASSUME UiCore, UNCHANGED <<connVars, in_flight, handle, park, io, trustVars>>,
         prompt' = "HostKey" <=> prompt = "HostKey",
         io_rx' = io_rx \/ Fits(io_rx', io, in_flight)
  PROVE  UiCore'
<1>1. Books'
  BY DEF UiCore, Books, SessionTypeOK, ConnTypeOK, TasksInv, ConnectsInv, CarrierInv, connVars,
         Connecting, IoBusy, Current, Live, Carries
<1>2. PromptInv'
  BY DEF UiCore, PromptInv, connVars
<1>3. TrustInv'
  BY TrustKept DEF UiCore
<1>4. SessionInv'
  BY DEF UiCore, SessionInv, connVars, Connecting, IoBusy, Live, Current, HasSession
<1> QED BY <1>1, <1>2, <1>3, <1>4 DEF UiCore

-----------------------------------------------------------------------------
(* The steps that drain.                                                   *)

(* The user's word that a file is not to go. *)
StaysOut ==
  \A f \in File : file[f].fate \in {"skipped", "dropped"} => file'[f].fate = file[f].fate

(* The record kept fits what is on its way. *)
LEMMA KeepsFit ==
  ASSUME NEW d, NEW e, NEW c, Becomes(d, e, c), Keeps(e), worker_cancel_requested' = e.cancelled,
         Coming' = c, original' = original
  PROVE  FilesFit(Now, Coming)' /\ PolicyInv' /\ (Final(Now, d) => StaysOut) /\ Onward(d, Now')
<1>1. /\ Now'.pending = e.pending /\ Now'.file = e.file /\ Now'.policy = e.policy
      /\ Now'.mkdirs = e.mkdirs /\ Now'.cancelled = e.cancelled /\ Now'.leaked = e.leaked
      /\ pending_scan' = e.pending /\ overwrite_policy' = e.policy /\ leaked' = e.leaked
      /\ file' = e.file
  BY DEF Now, Keeps
<1>2. \A f, name : WasFree(f, name)' <=> WasFree(f, name)
  BY DEF WasFree
<1>3. FilesFit(e, c) /\ PolicyFits(e) /\ PolicyLasts(e) /\ Onward(d, e)
  BY DEF Becomes
<1>4. FilesFit(Now, Coming)'
  BY <1>1, <1>2, <1>3 DEF FilesFit
<1>5. PolicyFits(Now)'
  BY <1>1, <1>3, Zenon DEF PolicyFits
<1>6. PolicyInv'
  BY <1>1, <1>3, <1>5, Zenon DEF PolicyInv, PolicyLasts
<1>7. Final(Now, d) => StaysOut
  BY <1>1, <1>3, NowFields DEF Final, Onward, StaysOut
<1>8. Onward(d, Now')
  BY <1>1, <1>3 DEF Onward, Final, Advances
<1> QED BY <1>4, <1>6, <1>7, <1>8

(* A handler drains, or lets the slot do something else. *)
LEMMA LeftInv ==
  ASSUME DrainIInv, NEW t \in IoTask, NEW session \in 0..generation, NEW d, NEW e,
         Becomes(d, e, Coming'), Leaves(t, session, e), worker_cancel_requested' = e.cancelled,
         UiCore', io_rx' \in Seq(Messages), WalkInv', SentOnce(io_rx, walk)',
         generation' = generation, original' = original, exists \subseteq exists',
         scan_generation' # 0 => prompt \notin Questions,
         pending_delete' \in Seq(File)
  PROVE  DrainIInv' /\ (Final(Now, d) => StaysOut) /\ Onward(d, Now')
<1>1. Keeps(e) /\ prompt' \in Prompting
  BY LeavesServes DEF DrainIInv, BelowInv, Prompting
<1>2. BelowInv'
  BY <1>1 DEF DrainIInv, BelowInv, Prompting
<1>3. FilesFit(Now, Coming)' /\ PolicyInv' /\ (Final(Now, d) => StaysOut) /\ Onward(d, Now')
  BY <1>1, KeepsFit
<1>4. FrontInv' /\ LooksInv' /\ QuietInv'
  <2>1. FilesFit(e, Coming') /\ Books'
    BY DEF Becomes, UiCore
  <2> QED BY <2>1, LeavesFront DEF DrainIInv
<1> QED BY <1>2, <1>3, <1>4 DEF DrainIInv

(* One task reports, and the handler goes on in its slot. *)
LEMMA ReportInv ==
  ASSUME DrainIInv, NEW t \in IoTask, NEW kind \in {"List", "Fs"}, TakesReport(kind, t),
         UNCHANGED scanVars, UNCHANGED diskVars, UNCHANGED worker_cancel_requested,
         pending_delete' \in Seq(File),
         \E e : Becomes(Now, e, Coming) /\ Leaves(t, Adopted, e)
  PROVE  DrainIInv' /\ StaysOut /\ Onward(Now, Now')
<1>1. PICK e : Becomes(Now, e, Coming) /\ Leaves(t, Adopted, e)
  OBVIOUS
<1>2. /\ UiCore /\ io_rx \in Seq(Messages) /\ prompt \in Prompting
  BY DEF DrainIInv, BelowInv, Prompting
<1>3. /\ Serves(t, Adopted) /\ prompt' # "HostKey"
  BY <1>1, <1>2, LeavesServes
<1>4. UiCore' /\ Adopted \in 0..generation
  BY <1>2, <1>3, WorkDoneCore, WorkReports DEF UiCore
<1>5. /\ generation' = generation /\ connected' = connected
      /\ io_rx # <<>> /\ io_rx' = Tail(io_rx) /\ Head(io_rx).kind = "Done"
  BY DEF TakesReport, DoneOf, Receives, connVars
<1>6. io_rx' \in Seq(Messages) /\ WalkInv' /\ SentOnce(io_rx, walk)' /\ Coming' = Coming
  <2>1. ScanIdles
    BY <1>5 DEF ScanIdles, Own
  <2> QED BY <2>1, ScanKept DEF DrainIInv, BelowInv
<1>7. Becomes(Now, e, Coming')
  BY <1>1, <1>6
<1>8. scan_generation' # 0 => prompt \notin Questions
  BY DEF DrainIInv, QuietInv, scanVars
<1>9. worker_cancel_requested' = e.cancelled
  BY <1>1, NowFields DEF Becomes
<1>10. Final(Now, Now) /\ original' = original /\ exists \subseteq exists'
  BY DEF diskVars, Final
<1> QED
  BY <1>1, <1>4, <1>5, <1>6, <1>7, <1>8, <1>9, <1>10, LeftInv

-----------------------------------------------------------------------------
(* The reports of listings and of folders made.                            *)

LEMMA NowReady ==
  ASSUME DrainIInv
  PROVE  /\ IsDrain(Now) /\ FilesFit(Now, Coming) /\ PolicyFits(Now) /\ Becomes(Now, Now, Coming)
         /\ ~drain_mkdir => Now.mkdirs = <<>>
         /\ prompt \in Questions => Asked(Now)
<1>1. IsDrain(Now) /\ FilesFit(Now, Coming) /\ PolicyFits(Now) /\ PolicyLasts(Now)
  BY NowFields DEF DrainIInv, PolicyInv
<1>2. Becomes(Now, Now, Coming)
  BY <1>1, SameFiles DEF Becomes
<1>3. ~drain_mkdir => Now.mkdirs = <<>>
  BY NowFields DEF DrainIInv, FrontInv
<1>4. prompt \in Questions => Asked(Now)
  BY NowFields DEF DrainIInv, FrontInv, LooksInv, Asked
<1> QED BY <1>1, <1>2, <1>3, <1>4

LEMMA BecomesTrans ==
  ASSUME NEW d, NEW e, NEW r, NEW c, Onward(d, e), e.cancelled = d.cancelled, Becomes(e, r, c)
  PROVE  Becomes(d, r, c)
BY OnwardTrans DEF Becomes

(* The front file goes, and nothing was cancelled. *)
LEMMA GoesOn ==
  ASSUME NEW d, NEW e, NEW r, NEW c, FilesFit(d, c), PolicyFits(d), ~d.cancelled, d.pending # <<>>,
         Settles(Head(d.pending), r), FrontGoes(d, e, r)
  PROVE  /\ IsDrain(e) /\ FilesFit(e, c) /\ PolicyFits(e) /\ Onward(d, e)
         /\ e.mkdirs = d.mkdirs /\ e.cancelled = d.cancelled
<1>1. FilesFit(e, c) /\ Onward(d, e)
  BY FrontFits
<1>2. IsDrain(e) /\ e.policy = d.policy /\ e.mkdirs = d.mkdirs /\ e.cancelled = d.cancelled
  BY DEF FrontGoes, SameBatch
<1>3. PolicyFits(e)
  BY <1>2, Zenon DEF PolicyFits
<1> QED BY <1>1, <1>2, <1>3

(* The front file is given up, or queued unseen. *)
LEMMA FrontDropped ==
  ASSUME NEW d, IsDrain(d), NEW c, FilesFit(d, c), PolicyFits(d), ~d.cancelled, d.pending # <<>>,
         NEW fate \in {"dropped", "unlisted", "skipped", "allowed"}
  PROVE  LET e == PopAs(d, fate)
         IN  /\ IsDrain(e) /\ FilesFit(e, c) /\ PolicyFits(e) /\ Onward(d, e)
             /\ e.mkdirs = d.mkdirs /\ e.cancelled = d.cancelled
<1>1. Head(d.pending) \in File /\ d.file \in [File -> Files]
  BY TailElements DEF FilesFit
<1>2. fate \in Verdicts /\ fate \notin {"free", "renamed"}
  BY DEF Verdicts
<1>3. PICK r : Settles(Head(d.pending), r) /\ FrontGoes(d, PopAs(d, fate), r)
  BY <1>1, <1>2, PopGoes
<1> QED BY <1>3, GoesOn

LEMMA MkdirFields ==
  ASSUME NEW d, IsDrain(d), NEW m
  PROVE  LET e == [d EXCEPT !.mkdirs = m]
         IN  /\ IsDrain(e) /\ e.mkdirs = m /\ e.pending = d.pending /\ e.file = d.file
             /\ e.policy = d.policy /\ e.cancelled = d.cancelled /\ e.leaked = d.leaked
             /\ e.listed = d.listed
<1>1. [d EXCEPT !.mkdirs = m] =
        [pending |-> d.pending, file |-> d.file, policy |-> d.policy, listed |-> d.listed,
         mkdirs |-> m, cancelled |-> d.cancelled, leaked |-> d.leaked]
  BY DEF IsDrain
<1> QED BY <1>1 DEF IsDrain

LEMMA ListedFields ==
  ASSUME NEW d, IsDrain(d), NEW names
  PROVE  LET e == [d EXCEPT !.listed = names]
         IN  /\ IsDrain(e) /\ e.mkdirs = d.mkdirs /\ e.pending = d.pending /\ e.file = d.file
             /\ e.policy = d.policy /\ e.cancelled = d.cancelled /\ e.leaked = d.leaked
             /\ e.listed = names
<1>1. [d EXCEPT !.listed = names] =
        [pending |-> d.pending, file |-> d.file, policy |-> d.policy, listed |-> names,
         mkdirs |-> d.mkdirs, cancelled |-> d.cancelled, leaked |-> d.leaked]
  BY DEF IsDrain
<1> QED BY <1>1 DEF IsDrain

(* Changes to what is listed or to be made. *)
LEMMA SideBecomes ==
  ASSUME NEW d, NEW e, NEW c, Becomes(d, d, c), IsDrain(e), ~d.cancelled,
         e.pending = d.pending, e.file = d.file, e.policy = d.policy, e.cancelled = d.cancelled,
         e.leaked = d.leaked
  PROVE  Becomes(d, e, c)
<1>1. FilesFit(e, c) /\ Onward(d, e)
  BY SameFiles DEF Becomes
<1>2. PolicyFits(d) /\ PolicyLasts(d)
  BY DEF Becomes
<1>3. PolicyFits(e) /\ PolicyLasts(e)
  BY <1>2, Zenon DEF PolicyFits, PolicyLasts
<1> QED BY <1>1, <1>3 DEF Becomes

(* Where the errand of a drain finds the books. *)
LEMMA ErrandOpen ==
  ASSUME DrainIInv, drain_list \/ drain_mkdir
  PROVE  /\ scan_generation = 0 /\ prompt \notin Questions
         /\ drain_list => ~drain_mkdir
BY DEF DrainIInv, QuietInv, FrontInv

LEMMA ListedLeaves ==
  ASSUME DrainIInv, drain_list, NEW t \in IoTask, Current(t), io[t].ok, ~worker_cancel_requested,
         pending_scan # <<>>, UNCHANGED scanVars, ListedForDrain(t)
  PROVE  \E e : Becomes(Now, e, Coming) /\ Leaves(t, Adopted, e)
<1> DEFINE found == errand[t].found
           d == [Now EXCEPT !.listed = found]
           h == Head(pending_scan)
           there == file[h].name \in found
           verdict == ResolveConflict(there, h \in Newer, overwrite_policy)
<1>1. /\ IsDrain(Now) /\ FilesFit(Now, Coming) /\ PolicyFits(Now) /\ Becomes(Now, Now, Coming)
      /\ Now.mkdirs = <<>>
      /\ Now.pending = pending_scan /\ Now.file = file /\ Now.policy = overwrite_policy
      /\ ~Now.cancelled
  BY NowReady, NowFields, ErrandOpen
<1>2. /\ IsDrain(d) /\ d.mkdirs = <<>> /\ d.pending = pending_scan /\ d.file = file
      /\ d.policy = overwrite_policy /\ d.cancelled = Now.cancelled /\ d.leaked = Now.leaked
      /\ d.listed = found
  BY <1>1, ListedFields
<1>3. scan_generation = 0 /\ scan_generation' = 0 /\ prompt \notin Questions
  BY ErrandOpen DEF scanVars
<1>4. h = about /\ SawAll(h, found)
  BY DEF DrainIInv, FrontInv, LooksInv
<1> HIDE DEF d, found
<1>5. Becomes(Now, d, Coming) /\ FilesFit(d, Coming) /\ PolicyFits(d) /\ Onward(Now, d)
  <2>1. Becomes(Now, d, Coming)
    BY <1>1, <1>2, SideBecomes
  <2> QED BY <2>1 DEF Becomes
<1>6. h \in File /\ file \in [File -> Files]
  BY <1>1, TailElements DEF FilesFit
<1>7. CASE verdict = "Prompt"
  <2>1. AsksUser(t, Adopted, d)
    BY <1>7 DEF ListedForDrain, d, found
  <2>2. LeavesQuestion(t, Adopted, d)
    BY <1>2, <1>3, <1>4, <2>1 DEF LeavesQuestion
  <2> QED BY <1>5, <2>2 DEF Leaves
<1>8. CASE verdict # "Prompt"
  <2> DEFINE x == Resolved(d, there)
  <2>1. DrainScanNext(t, Adopted, x, prompt)
    BY <1>8 DEF ListedForDrain, d, found
  <2>2. SawAll(h, TakenNames(d))
    <3>1. CASE h \in Upload
      BY <1>2, <1>4, <3>1 DEF TakenNames, SawAll
    <3>2. CASE h \notin Upload
      BY <1>2, <3>2, DiskSeesAll DEF TakenNames, DrainIInv
    <3> QED BY <3>1, <3>2
  <2>3. ~there => WasFree(h, file[h].name)
    BY <1>4, FreeOfAll
  <2>4. there \in BOOLEAN
    OBVIOUS
  <2> HIDE DEF there
  <2>5. \/ \E r : Settles(h, r) /\ FrontGoes(d, x, r)
        \/ x = d
    BY <1>2, <1>6, <2>2, <2>3, <2>4, ResolvedGoes
  <2> HIDE DEF x
  <2>6. /\ IsDrain(x) /\ FilesFit(x, Coming) /\ PolicyFits(x) /\ Onward(d, x)
        /\ x.mkdirs = <<>> /\ x.cancelled = d.cancelled
    <3>1. CASE x = d
      BY <1>2, <1>5, <3>1, SameFiles
    <3>2. ASSUME NEW r, Settles(h, r), FrontGoes(d, x, r)
          PROVE  /\ IsDrain(x) /\ FilesFit(x, Coming) /\ PolicyFits(x) /\ Onward(d, x)
                 /\ x.mkdirs = d.mkdirs /\ x.cancelled = d.cancelled
      BY <1>1, <1>2, <1>5, <3>2, GoesOn
    <3> QED BY <1>2, <2>5, <3>1, <3>2
  <2>7. PICK e : Becomes(x, e, Coming) /\ Leaves(t, Adopted, e)
    <3>1. prompt \in {"None", prompt}
      OBVIOUS
    <3> QED BY <1>3, <2>1, <2>6, <3>1, ScanNext DEF DrainIInv
  <2>8. Onward(Now, x) /\ x.cancelled = Now.cancelled
    BY <1>2, <1>5, <2>6, OnwardTrans
  <2> QED BY <2>7, <2>8, BecomesTrans
<1> QED BY <1>7, <1>8

LEMMA ForgetsLeaves ==
  ASSUME DrainIInv, NEW t \in IoTask, Now.mkdirs = <<>>, Idles(t, Adopted, Now, prompt), about' = about
  PROVE  Becomes(Now, Now, Coming) /\ Leaves(t, Adopted, Now)
<1>1. LeavesIdle(t, Adopted, Now)
  BY NowReady DEF LeavesIdle
<1> QED BY <1>1, NowReady DEF Leaves

(* The drain goes on with a record that fits, after what it had to do. *)
LEMMA ResumesWith ==
  ASSUME DrainIInv, NEW t \in IoTask, NEW d, IsDrain(d), FilesFit(d, Coming), PolicyFits(d),
         Onward(Now, d), d.cancelled = Now.cancelled, d.mkdirs = <<>>,
         prompt \in Questions => Asked(d), scan_generation' = 0,
         DrainScanNext(t, Adopted, d, prompt)
  PROVE  \E e : Becomes(Now, e, Coming) /\ Leaves(t, Adopted, e)
<1>1. prompt \in {"None", prompt}
  OBVIOUS
<1>2. PICK e : Becomes(d, e, Coming) /\ Leaves(t, Adopted, e)
  BY <1>1, ScanNext DEF DrainIInv
<1> QED BY <1>2, BecomesTrans

LEMMA NotListedLeaves ==
  ASSUME DrainIInv, drain_list, NEW t \in IoTask, ~worker_cancel_requested,
         pending_scan # <<>>, UNCHANGED scanVars, NotListedForDrain(t)
  PROVE  \E e : Becomes(Now, e, Coming) /\ Leaves(t, Adopted, e)
<1> DEFINE chain == MkdirChain(<<>>, ParentOf(Head(pending_scan)))
           d == [Now EXCEPT !.mkdirs = chain]
<1>1. /\ IsDrain(Now) /\ FilesFit(Now, Coming) /\ PolicyFits(Now) /\ Becomes(Now, Now, Coming)
      /\ Now.mkdirs = <<>> /\ Now.pending = pending_scan /\ ~Now.cancelled
  BY NowReady, NowFields, ErrandOpen
<1>2. scan_generation' = 0 /\ prompt \notin Questions
  BY ErrandOpen DEF scanVars
<1>3. CASE chain = <<>>
  <2>1. DrainScanNext(t, Adopted, PopAs(Now, "dropped"), prompt)
    BY <1>3 DEF NotListedForDrain
  <2>2. "dropped" \in {"dropped", "unlisted", "skipped", "allowed"}
    OBVIOUS
  <2> QED BY <1>1, <1>2, <2>1, <2>2, FrontDropped, ResumesWith
<1>4. CASE chain # <<>>
  <2>1. AsksFor(t, Adopted, d, "mkdir", prompt)
    BY <1>4 DEF NotListedForDrain
  <2> HIDE DEF chain
  <2>2. Becomes(Now, d, Coming) /\ d.pending = pending_scan
    BY <1>1, MkdirFields, SideBecomes
  <2> HIDE DEF d
  <2>3. LeavesErrand(t, Adopted, d)
    BY <1>2, <2>1, <2>2 DEF LeavesErrand
  <2> QED BY <2>2, <2>3 DEF Leaves
<1> QED BY <1>3, <1>4

LEMMA FolderLeaves ==
  ASSUME DrainIInv, drain_mkdir, NEW t \in IoTask, ~worker_cancel_requested,
         UNCHANGED scanVars, FolderMade(t) \/ FolderNotMade(t)
  PROVE  \E e : Becomes(Now, e, Coming) /\ Leaves(t, Adopted, e)
<1>1. /\ IsDrain(Now) /\ FilesFit(Now, Coming) /\ PolicyFits(Now) /\ Becomes(Now, Now, Coming)
      /\ Now.pending = pending_scan /\ ~Now.cancelled /\ Now.mkdirs = mkdir_queue
  BY NowReady, NowFields
<1>2. scan_generation' = 0 /\ prompt \notin Questions
  BY ErrandOpen DEF scanVars
<1>3. ASSUME NEW m
      PROVE  LET d == [Now EXCEPT !.mkdirs = m]
             IN  /\ IsDrain(d) /\ FilesFit(d, Coming) /\ PolicyFits(d) /\ Becomes(Now, d, Coming)
                 /\ Onward(Now, d)
                 /\ d.cancelled = Now.cancelled /\ d.mkdirs = m /\ d.pending = pending_scan
  <2> DEFINE d == [Now EXCEPT !.mkdirs = m]
  <2>1. Becomes(Now, d, Coming) /\ d.pending = pending_scan /\ d.cancelled = Now.cancelled /\ d.mkdirs = m
    BY <1>1, MkdirFields, SideBecomes
  <2> HIDE DEF d
  <2>2. IsDrain(d) /\ FilesFit(d, Coming) /\ PolicyFits(d) /\ Onward(Now, d)
    BY <2>1 DEF Becomes
  <2> QED BY <2>1, <2>2 DEF d
<1>4. ASSUME NEW d, d = [Now EXCEPT !.mkdirs = <<>>], NEW fate \in {"unlisted", "dropped"},
             DrainScanNext(t, Adopted, IF pending_scan = <<>> THEN d ELSE PopAs(d, fate), prompt)
      PROVE  \E e : Becomes(Now, e, Coming) /\ Leaves(t, Adopted, e)
  <2>1. /\ IsDrain(d) /\ FilesFit(d, Coming) /\ PolicyFits(d) /\ Onward(Now, d)
        /\ d.cancelled = Now.cancelled /\ d.mkdirs = <<>> /\ d.pending = pending_scan
    BY <1>3, <1>4
  <2>2. CASE pending_scan = <<>>
    BY <1>2, <1>4, <2>1, <2>2, ResumesWith
  <2>3. CASE pending_scan # <<>>
    <3> DEFINE x == PopAs(d, fate)
    <3>1. DrainScanNext(t, Adopted, x, prompt)
      BY <1>4, <2>3
    <3>2. /\ IsDrain(x) /\ FilesFit(x, Coming) /\ PolicyFits(x) /\ Onward(d, x)
          /\ x.mkdirs = d.mkdirs /\ x.cancelled = d.cancelled
      BY <1>1, <2>1, <2>3, FrontDropped
    <3> HIDE DEF x
    <3> QED BY <1>2, <2>1, <3>1, <3>2, OnwardTrans, ResumesWith
  <2> QED BY <2>2, <2>3
<1>5. CASE FolderMade(t)
  <2> DEFINE left == IF mkdir_queue = <<>> THEN <<>> ELSE Tail(mkdir_queue)
             d == [Now EXCEPT !.mkdirs = left]
  <2>1. CASE left # <<>>
    <3>1. AsksFor(t, Adopted, d, "mkdir", prompt)
      BY <1>5, <2>1 DEF FolderMade
    <3>2. pending_scan # <<>>
      BY <2>1 DEF DrainIInv, FrontInv
    <3>3. Becomes(Now, d, Coming) /\ d.pending = pending_scan
      BY <1>3
    <3> HIDE DEF d
    <3>4. LeavesErrand(t, Adopted, d)
      BY <1>2, <3>1, <3>2, <3>3 DEF LeavesErrand
    <3> QED BY <3>3, <3>4 DEF Leaves
  <2>2. CASE left = <<>>
    <3>1. DrainScanNext(t, Adopted, IF pending_scan = <<>> THEN d ELSE PopAs(d, "unlisted"), prompt)
      BY <1>5, <2>2 DEF FolderMade
    <3>2. d = [Now EXCEPT !.mkdirs = <<>>]
      BY <2>2
    <3> HIDE DEF d, left
    <3>3. "unlisted" \in {"unlisted", "dropped"}
      OBVIOUS
    <3> QED BY <1>4, <3>1, <3>2, <3>3
  <2> QED BY <2>1, <2>2
<1>6. CASE FolderNotMade(t)
  <2> DEFINE d == [Now EXCEPT !.mkdirs = <<>>]
  <2>1. DrainScanNext(t, Adopted, IF pending_scan = <<>> THEN d ELSE PopAs(d, "dropped"), prompt)
    BY <1>6 DEF FolderNotMade
  <2>2. "dropped" \in {"unlisted", "dropped"}
    OBVIOUS
  <2> QED BY <1>4, <2>1, <2>2
<1> QED BY <1>5, <1>6

LEMMA OtherLeaves ==
  ASSUME NEW t, NEW session, NEW e, NEW kind \in {"List", "Fs"}, NEW errand_kind,
         NEW remote \in BOOLEAN, NEW f, Sends(t, session, e, kind, errand_kind, remote, f),
         e.mkdirs = <<>>, prompt \in Questions => Asked(e), ~drain_list, ~drain_mkdir
  PROVE  Leaves(t, session, e)
<1>1. LeavesOther(t, session, e)
  BY Zenon DEF LeavesOther
<1> QED BY <1>1 DEF Leaves

LEMMA DeleteLeaves ==
  ASSUME NEW t, NEW session, NEW e, NEW queue \in Seq(File), queue # <<>>,
         e.mkdirs = <<>>, prompt \in Questions => Asked(e), ~drain_list, ~drain_mkdir,
         StartNextDelete(t, session, e, queue)
  PROVE  Leaves(t, session, e) /\ pending_delete' \in Seq(File)
<1>1. CASE Head(queue) \notin Upload /\ ~connected
  <2>1. LeavesIdle(t, session, e)
    BY <1>1 DEF StartNextDelete, LeavesIdle
  <2>2. pending_delete' = <<>>
    BY <1>1 DEF StartNextDelete
  <2> QED BY <2>1, <2>2 DEF Leaves
<1>2. CASE ~(Head(queue) \notin Upload /\ ~connected)
  <2> DEFINE away == Head(queue) \notin Upload
             f == Head(queue)
  <2>1. pending_delete' = queue /\ Sends(t, session, e, "Fs", "delete", away, f)
    BY <1>2 DEF StartNextDelete
  <2>2. away \in BOOLEAN /\ "Fs" \in {"List", "Fs"}
    OBVIOUS
  <2> HIDE DEF away, f
  <2> QED BY <2>1, <2>2, OtherLeaves
<1> QED BY <1>1, <1>2

LEMMA RelistLeaves ==
  ASSUME NEW t, NEW session, NEW e,
         e.mkdirs = <<>>, prompt \in Questions => Asked(e), ~drain_list, ~drain_mkdir,
         Relists(t, session, e)
  PROVE  Leaves(t, session, e)
<1>1. "List" \in {"List", "Fs"} /\ TRUE \in BOOLEAN
  OBVIOUS
<1>2. Sends(t, session, e, "List", "none", TRUE, NoFile)
  BY DEF Relists
<1> QED BY <1>1, <1>2, OtherLeaves

LEMMA ResumeLeaves ==
  ASSUME DrainIInv, NEW t \in IoTask, ~drain_list, ~drain_mkdir, NEW queue \in Seq(File),
         UNCHANGED scanVars, MaybeResume(t, Adopted, queue)
  PROVE  /\ pending_delete' \in Seq(File)
         /\ \E e : Becomes(Now, e, Coming) /\ Leaves(t, Adopted, e)
<1>1. /\ IsDrain(Now) /\ FilesFit(Now, Coming) /\ PolicyFits(Now) /\ Becomes(Now, Now, Coming)
      /\ Now.mkdirs = <<>> /\ (prompt \in Questions => Asked(Now))
  BY NowReady
<1>2. CASE ~worker_cancel_requested /\ scan_generation = 0 /\ pending_scan # <<>>
  <2>1. DrainScanNext(t, Adopted, Now, prompt) /\ pending_delete' = queue
    BY <1>2 DEF MaybeResume
  <2>2. scan_generation' = 0
    BY <1>2 DEF scanVars
  <2>3. Onward(Now, Now)
    BY <1>1, SameFiles
  <2> QED BY <1>1, <2>1, <2>2, <2>3, ResumesWith
<1>3. CASE ~worker_cancel_requested /\ scan_generation = 0 /\ pending_scan = <<>> /\ queue # <<>>
  <2>1. StartNextDelete(t, Adopted, Now, queue)
    BY <1>3 DEF MaybeResume
  <2> QED BY <1>1, <1>3, <2>1, DeleteLeaves
<1>4. CASE /\ ~(~worker_cancel_requested /\ scan_generation = 0 /\ pending_scan # <<>>)
           /\ ~(~worker_cancel_requested /\ scan_generation = 0 /\ pending_scan = <<>> /\ queue # <<>>)
  <2>1. Idles(t, Adopted, Now, prompt) /\ about' = about /\ pending_delete' = queue
    BY <1>4 DEF MaybeResume
  <2> QED BY <1>1, <2>1, ForgetsLeaves
<1> QED BY <1>2, <1>3, <1>4

-----------------------------------------------------------------------------
(* Every action keeps the invariant.                                       *)

LEMMA ListDoneForDrainInv ==
  ASSUME DrainIInv, NEW t \in IoTask, ListDoneForDrain(t)
  PROVE  DrainIInv' /\ StaysOut /\ Onward(Now, Now')
<1>1. /\ TakesReport("List", t) /\ drain_list /\ UNCHANGED scanVars /\ UNCHANGED diskVars
      /\ UNCHANGED worker_cancel_requested /\ pending_delete' \in Seq(File) /\ "List" \in {"List", "Fs"}
  BY DEF ListDoneForDrain, DrainIInv
<1>2. Current(t)
  BY <1>1, WorkReports DEF DrainIInv, BelowInv, UiCore
<1>3. \E e : Becomes(Now, e, Coming) /\ Leaves(t, Adopted, e)
  <2>1. CASE worker_cancel_requested \/ pending_scan = <<>>
    <3>1. DrainForgets(t)
      BY <2>1 DEF ListDoneForDrain
    <3>2. Now.mkdirs = <<>>
      BY <1>1, NowReady, ErrandOpen
    <3> QED BY <3>1, <3>2, ForgetsLeaves DEF DrainForgets
  <2>2. CASE ~worker_cancel_requested /\ pending_scan # <<>> /\ io[t].ok
    <3>1. ListedForDrain(t)
      BY <2>2 DEF ListDoneForDrain
    <3> QED BY <1>1, <1>2, <2>2, <3>1, ListedLeaves
  <2>3. CASE ~worker_cancel_requested /\ pending_scan # <<>> /\ ~io[t].ok
    <3>1. NotListedForDrain(t)
      BY <2>3 DEF ListDoneForDrain
    <3> QED BY <1>1, <2>3, <3>1, NotListedLeaves
  <2> QED BY <2>1, <2>2, <2>3
<1> QED BY <1>1, <1>3, ReportInv

LEMMA ListDoneForPaneInv ==
  ASSUME DrainIInv, NEW t \in IoTask, ListDoneForPane(t)
  PROVE  DrainIInv' /\ StaysOut /\ Onward(Now, Now')
<1>1. /\ TakesReport("List", t) /\ ~drain_list /\ UNCHANGED scanVars /\ UNCHANGED diskVars
      /\ UNCHANGED worker_cancel_requested /\ MaybeResume(t, Adopted, pending_delete)
      /\ pending_delete \in Seq(File) /\ "List" \in {"List", "Fs"}
  BY DEF ListDoneForPane, DrainIInv
<1>2. in_flight.kind = "List" /\ ~drain_mkdir
  BY <1>1 DEF TakesReport, DrainIInv, FrontInv
<1> QED BY <1>1, <1>2, ResumeLeaves, ReportInv

LEMMA FsDoneForDrainInv ==
  ASSUME DrainIInv, NEW t \in IoTask, FsDoneForDrain(t)
  PROVE  DrainIInv' /\ StaysOut /\ Onward(Now, Now')
<1>1. /\ TakesReport("Fs", t) /\ drain_mkdir /\ UNCHANGED scanVars /\ UNCHANGED diskVars
      /\ UNCHANGED worker_cancel_requested /\ pending_delete' \in Seq(File) /\ "Fs" \in {"List", "Fs"}
  BY DEF FsDoneForDrain, DrainIInv
<1>2. \E e : Becomes(Now, e, Coming) /\ Leaves(t, Adopted, e)
  <2>1. CASE worker_cancel_requested
    <3>1. DrainForgets(t)
      BY <2>1 DEF FsDoneForDrain
    <3>2. Now.mkdirs = <<>>
      BY <2>1, NowFields DEF DrainIInv, PolicyInv, PolicyFits
    <3> QED BY <3>1, <3>2, ForgetsLeaves DEF DrainForgets
  <2>2. CASE ~worker_cancel_requested
    <3>1. FolderMade(t) \/ FolderNotMade(t)
      BY <2>2 DEF FsDoneForDrain
    <3> QED BY <1>1, <2>2, <3>1, FolderLeaves
  <2> QED BY <2>1, <2>2
<1> QED BY <1>1, <1>2, ReportInv

LEMMA FsDoneForPaneInv ==
  ASSUME DrainIInv, NEW t \in IoTask, FsDoneForPane(t)
  PROVE  DrainIInv' /\ StaysOut /\ Onward(Now, Now')
<1> DEFINE queue == IF errand[t].kind # "delete" \/ pending_delete = <<>> THEN pending_delete
                    ELSE IF io[t].ok THEN Tail(pending_delete) ELSE <<>>
<1>1. /\ TakesReport("Fs", t) /\ ~drain_mkdir /\ UNCHANGED scanVars /\ UNCHANGED diskVars
      /\ UNCHANGED worker_cancel_requested /\ pending_delete \in Seq(File) /\ "Fs" \in {"List", "Fs"}
  BY DEF FsDoneForPane, DrainIInv
<1>2. ~drain_list
  BY <1>1 DEF TakesReport, DrainIInv, FrontInv
<1>3. queue \in Seq(File)
  BY <1>1, TailElements
<1>4. \/ MaybeResume(t, Adopted, queue)
      \/ queue # <<>> /\ StartNextDelete(t, Adopted, Now, queue)
      \/ pending_delete' = queue /\ Relists(t, Adopted, Now)
      \/ pending_delete' = queue /\ Idles(t, Adopted, Now, prompt) /\ about' = about
  BY DEF FsDoneForPane
<1> HIDE DEF queue
<1>5. Becomes(Now, Now, Coming) /\ Now.mkdirs = <<>> /\ (prompt \in Questions => Asked(Now))
  BY <1>1, NowReady
<1>6. /\ pending_delete' \in Seq(File)
      /\ \E e : Becomes(Now, e, Coming) /\ Leaves(t, Adopted, e)
  <2>1. CASE MaybeResume(t, Adopted, queue)
    BY <1>1, <1>2, <1>3, <2>1, ResumeLeaves
  <2>2. CASE queue # <<>> /\ StartNextDelete(t, Adopted, Now, queue)
    BY <1>1, <1>2, <1>3, <1>5, <2>2, DeleteLeaves
  <2>3. CASE pending_delete' = queue /\ Relists(t, Adopted, Now)
    BY <1>1, <1>2, <1>3, <1>5, <2>3, RelistLeaves
  <2>4. CASE pending_delete' = queue /\ Idles(t, Adopted, Now, prompt) /\ about' = about
    BY <1>3, <1>5, <2>4, ForgetsLeaves
  <2> QED BY <1>4, <2>1, <2>2, <2>3, <2>4
<1> QED BY <1>1, <1>6, ReportInv

-----------------------------------------------------------------------------
(* The keys and the scan.                                                  *)

(* A key drains, now or when the session is back. *)
LEMMA DrainFromKeyInv ==
  ASSUME DrainIInv, NEW d, IsDrain(d), FilesFit(d, Coming'), PolicyFits(d), d.mkdirs = <<>>,
         worker_cancel_requested' = d.cancelled, NEW shown \in {"None", prompt},
         shown \in Questions => Asked(d), ~drain_list, ~drain_mkdir,
         UNCHANGED <<connVars, park>>, UNCHANGED trustVars, UNCHANGED diskVars,
         UNCHANGED pending_delete, scan_generation' = 0,
         io_rx' = io_rx \/ Fits(io_rx', io, in_flight),
         io_rx' \in Seq(Messages), WalkInv', SentOnce(io_rx, walk)', DrainFromKey(d, shown)
  PROVE  DrainIInv' /\ (Final(Now, d) => StaysOut) /\ Onward(d, Now')
<1>1. /\ UiCore /\ prompt \in Prompting /\ FrontInv /\ LooksInv /\ QuietInv /\ BelowInv
      /\ pending_delete' \in Seq(File)
  BY DEF DrainIInv, BelowInv, Prompting
<1>2. generation' = generation /\ original' = original /\ exists' = exists
  BY DEF connVars, diskVars
<1>3. CASE IoBusy
  <2> DEFINE e == HeldUp(d)
  <2>1. /\ Keeps(e) /\ prompt' = shown
        /\ UNCHANGED <<in_flight, io, handle, errand, drain_list, drain_mkdir, about>>
    BY <1>3 DEF DrainFromKey
  <2>2. Becomes(d, e, Coming') /\ e.cancelled = d.cancelled /\ e.mkdirs = <<>>
        /\ e.pending = d.pending /\ e.listed = d.listed
    BY HeldBecomes, HeldFields
  <2> HIDE DEF e
  <2>3. FilesFit(Now, Coming)' /\ PolicyInv' /\ (Final(Now, d) => StaysOut) /\ Onward(d, Now')
    BY <1>2, <2>1, <2>2, KeepsFit
  <2>4. prompt' \in Prompting /\ (prompt' = "HostKey" <=> prompt = "HostKey")
    BY <1>1, <2>1 DEF Prompting, Questions
  <2>5. UiCore'
    BY <1>1, <2>1, <2>4, ChannelCore
  <2>6. BelowInv'
    BY <1>1, <1>2, <2>4, <2>5 DEF BelowInv, Prompting
  <2>7. QuietInv'
    BY <1>1, <2>1 DEF QuietInv
  <2>8. pending_scan' = d.pending /\ listed_dest_names' = d.listed /\ mkdir_queue' = <<>>
    BY <2>1, <2>2 DEF Keeps
  <2>9. FrontInv'
    BY <1>1, <2>1, <2>8 DEF FrontInv, Asked
  <2>10. LooksInv'
    <3>1. \A f, names : SawAll(f, names)' = SawAll(f, names)
      BY <1>2 DEF SawAll
    <3> QED BY <1>1, <1>2, <2>1, <2>8, <3>1 DEF LooksInv, Asked
  <2> QED BY <1>1, <2>3, <2>6, <2>7, <2>9, <2>10 DEF DrainIInv
<1>4. CASE ~IoBusy
  <2>1. PICK t \in IoTask : io[t].pc = "idle" /\ DrainScanNext(t, handle, d, shown)
    BY <1>4 DEF DrainFromKey
  <2>2. PICK e : Becomes(d, e, Coming') /\ Leaves(t, handle, e)
    BY <1>1, <2>1, ScanNext
  <2>3. Serves(t, handle) /\ prompt' # "HostKey"
    BY <1>1, <2>2, LeavesServes
  <2>4. UiCore'
    BY <1>1, <1>4, <2>1, <2>3, RequestCore
  <2>5. handle \in 0..generation
    BY <1>1 DEF UiCore, Books, SessionTypeOK
  <2>6. worker_cancel_requested' = e.cancelled
    BY <2>2 DEF Becomes
  <2> QED BY <1>1, <1>2, <2>2, <2>4, <2>5, <2>6, LeftInv
<1> QED BY <1>3, <1>4

(* The other flags are off while a question is open or a scan runs. *)
LEMMA FlagsOff ==
  ASSUME DrainIInv, prompt \in Questions \/ scan_generation # 0 \/ ~IoBusy
  PROVE  ~drain_list /\ ~drain_mkdir /\ Now.mkdirs = <<>>
<1>1. ~drain_list /\ ~drain_mkdir
  BY DEF DrainIInv, FrontInv, QuietInv, IoBusy
<1> QED BY <1>1, NowReady

(* What a key finds while a question is open. *)
LEMMA QuestionOpen ==
  ASSUME DrainIInv, prompt \in Questions
  PROVE  /\ pending_scan # <<>> /\ scan_generation = 0 /\ ~worker_cancel_requested
         /\ Head(pending_scan) = about
         /\ about \in Upload => SawAll(about, listed_dest_names)
<1>1. pending_scan # <<>> /\ scan_generation = 0 /\ Head(pending_scan) = about
  BY DEF DrainIInv, FrontInv, QuietInv
<1>2. ~worker_cancel_requested
  BY <1>1, NowFields, Zenon DEF DrainIInv, PolicyInv, PolicyFits
<1> QED BY <1>1, <1>2 DEF DrainIInv, LooksInv

(* Neither the scan nor the channel takes part. *)
LEMMA ScanAside ==
  ASSUME DrainIInv, UNCHANGED scanVars, UNCHANGED connVars, io_rx' = io_rx
  PROVE  io_rx' \in Seq(Messages) /\ WalkInv' /\ SentOnce(io_rx, walk)' /\ Coming' = Coming
<1>1. ScanIdles
  BY DEF ScanIdles, connVars
<1> QED BY <1>1, ScanKept DEF DrainIInv, BelowInv

LEMMA SettledFits ==
  ASSUME DrainIInv, prompt \in Questions, NEW answer
  PROVE  LET e == Settled(answer)
         IN  /\ IsDrain(e) /\ FilesFit(e, Coming) /\ PolicyFits(e) /\ Onward(Now, e)
             /\ e.mkdirs = <<>> /\ e.cancelled = Now.cancelled
<1> DEFINE d == [Now EXCEPT !.policy = PolicyOf(answer)]
           h == Head(pending_scan)
           e == Settled(answer)
<1>1. /\ IsDrain(Now) /\ FilesFit(Now, Coming) /\ PolicyFits(Now)
      /\ Now.mkdirs = <<>> /\ Now.pending = pending_scan /\ ~Now.cancelled /\ pending_scan # <<>>
      /\ Now.listed = listed_dest_names /\ Now.policy = overwrite_policy
  BY NowReady, NowFields, FlagsOff, QuestionOpen
<1>2. PolicyOf(answer) \in Policy
  BY <1>1 DEF PolicyOf, PolicyFits
<1>3. d = [pending |-> Now.pending, file |-> Now.file, policy |-> PolicyOf(answer),
           listed |-> Now.listed, mkdirs |-> Now.mkdirs, cancelled |-> Now.cancelled,
           leaked |-> Now.leaked]
  BY <1>1 DEF IsDrain
<1>4. /\ IsDrain(d) /\ d.pending = pending_scan /\ d.file = Now.file /\ d.mkdirs = <<>>
      /\ d.cancelled = Now.cancelled /\ d.policy \in Policy /\ d.listed = listed_dest_names
  BY <1>1, <1>2, <1>3 DEF IsDrain
<1>5. /\ e = PopAs(d, "allowed") \/ e = PopAs(d, "skipped") \/ e = AutoRenamed(d)
  BY DEF Settled
<1> HIDE DEF d, e
<1>6. FilesFit(d, Coming) /\ Onward(Now, d)
  BY <1>1, <1>4, SameFiles
<1>7. ~d.cancelled
  BY <1>1, <1>4, Zenon
<1>8. PolicyFits(d)
  BY <1>4, <1>7, Zenon DEF PolicyFits
<1>9. h \in File /\ d.file \in [File -> Files]
  BY <1>4, <1>6, <1>1, TailElements DEF FilesFit
<1>10. SawAll(h, TakenNames(d))
  <2>1. CASE h \in Upload
    BY <1>4, <2>1, QuestionOpen DEF TakenNames, SawAll
  <2>2. CASE h \notin Upload
    BY <1>4, <2>2, DiskSeesAll DEF TakenNames, DrainIInv
  <2> QED BY <2>1, <2>2
<1>11. ASSUME NEW r, Settles(h, r), FrontGoes(d, e, r)
       PROVE  /\ IsDrain(e) /\ FilesFit(e, Coming) /\ PolicyFits(e) /\ Onward(Now, e)
              /\ e.mkdirs = <<>> /\ e.cancelled = Now.cancelled
  BY <1>1, <1>4, <1>6, <1>7, <1>8, <1>11, GoesOn, OnwardTrans
<1>12. \E r : Settles(h, r) /\ FrontGoes(d, e, r)
  <2>1. CASE e = AutoRenamed(d)
    BY <1>4, <1>9, <1>10, <2>1, RenameGoes
  <2>2. ASSUME NEW fate \in {"allowed", "skipped"}, e = PopAs(d, fate)
        PROVE  \E r : Settles(h, r) /\ FrontGoes(d, e, r)
    <3>1. fate \in Verdicts /\ fate \notin {"free", "renamed"}
      BY DEF Verdicts
    <3> QED BY <1>4, <1>9, <2>2, <3>1, PopGoes
  <2> QED BY <1>5, <2>1, <2>2
<1> QED BY <1>11, <1>12 DEF e

LEMMA AnswerOverwriteInv ==
  ASSUME DrainIInv, NEW answer, AnswerOverwrite(answer)
  PROVE  DrainIInv' /\ StaysOut /\ Onward(Now, Now')
<1> DEFINE e == Settled(answer)
<1>1. /\ prompt \in Questions /\ DrainFromKey(e, "None") /\ io_rx' = io_rx
      /\ UNCHANGED <<connVars, park>> /\ UNCHANGED trustVars /\ UNCHANGED diskVars
      /\ UNCHANGED pending_delete /\ UNCHANGED scanVars
      /\ worker_cancel_requested' = worker_cancel_requested
  BY DEF AnswerOverwrite, Asking, Questions
<1>2. /\ IsDrain(e) /\ FilesFit(e, Coming) /\ PolicyFits(e) /\ Onward(Now, e)
      /\ e.mkdirs = <<>> /\ e.cancelled = Now.cancelled
  BY <1>1, SettledFits
<1> HIDE DEF e
<1>3. /\ ~drain_list /\ ~drain_mkdir /\ scan_generation' = 0
      /\ worker_cancel_requested' = e.cancelled
  BY <1>1, <1>2, FlagsOff, QuestionOpen, NowFields DEF scanVars
<1>4. io_rx' \in Seq(Messages) /\ WalkInv' /\ SentOnce(io_rx, walk)' /\ Coming' = Coming
  BY <1>1, ScanAside
<1>5. "None" \in {"None", prompt} /\ "None" \notin Questions
  BY DEF Questions
<1>6. Final(Now, e)
  BY <1>2 DEF Onward
<1>7. DrainIInv' /\ StaysOut /\ Onward(e, Now')
  BY <1>1, <1>2, <1>3, <1>4, <1>5, <1>6, DrainFromKeyInv
<1> QED BY <1>2, <1>7, OnwardTrans

LEMMA RenameFrontInv ==
  ASSUME DrainIInv, NEW name \in NewNames, RenameFront(name)
  PROVE  /\ DrainIInv' /\ StaysOut
         /\ \E e : /\ Onward(e, Now') /\ e.pending = pending_scan
                   /\ \A f \in File : e.file[f].fate = file[f].fate
                   /\ \A f \in File \ ToSet(pending_scan) : e.file[f] = file[f]
<1> DEFINE h == Head(pending_scan)
           g == [file EXCEPT ![h].name = name]
           e == [Now EXCEPT !.file = g]
<1>1. /\ prompt \in Questions /\ io_rx' = io_rx
      /\ UNCHANGED <<connVars, park>> /\ UNCHANGED trustVars /\ UNCHANGED diskVars
      /\ UNCHANGED pending_delete /\ UNCHANGED scanVars
      /\ worker_cancel_requested' = worker_cancel_requested
  BY DEF RenameFront, Questions
<1>2. DrainFromKey(e, "None")
  <2>1. [Now EXCEPT !.file[Head(pending_scan)].name = name] = e
    BY NowFields
  <2> QED BY <2>1 DEF RenameFront
<1>3. /\ IsDrain(Now) /\ FilesFit(Now, Coming) /\ PolicyFits(Now)
      /\ Now.mkdirs = <<>> /\ Now.pending = pending_scan /\ ~Now.cancelled /\ pending_scan # <<>>
      /\ Now.file = file
  BY <1>1, NowReady, NowFields, FlagsOff, QuestionOpen
<1> HIDE DEF g
<1>4. e = [pending |-> Now.pending, file |-> g, policy |-> Now.policy,
           listed |-> Now.listed, mkdirs |-> Now.mkdirs, cancelled |-> Now.cancelled,
           leaked |-> Now.leaked]
  BY <1>3 DEF IsDrain
<1> HIDE DEF e
<1>5. /\ IsDrain(e) /\ e.pending = pending_scan /\ e.file = g /\ e.mkdirs = <<>>
      /\ e.cancelled = Now.cancelled /\ e.policy = Now.policy
  BY <1>3, <1>4 DEF IsDrain
<1>6. /\ pending_scan \in Seq(File) /\ IsInjective(pending_scan) /\ file \in [File -> Files]
      /\ ToSet(pending_scan) \cap Coming = {}
      /\ \A f \in File : file[f].fate = "waiting" <=> f \in ToSet(pending_scan) \cup Coming
      /\ \A f \in File : file[f].fate \in {"free", "renamed"} => WasFree(f, file[f].name)
  BY <1>3 DEF FilesFit
<1>7. h \in File /\ h \in ToSet(pending_scan) /\ file[h].fate = "waiting" /\ file[h] \in Files
  BY <1>3, <1>6, TailElements
<1>8. name \in Names
  <2>1. NewNames \subseteq Seq(STRING)
    BY FileAssumption
  <2> QED BY <2>1, StringNames
<1> HIDE DEF h
<1>9. LET r == [file[h] EXCEPT !.name = name]
      IN  r \in Files /\ r.fate = "waiting" /\ g = [file EXCEPT ![h] = r]
  BY <1>7, <1>8 DEF Files, g, h
<1>10. /\ g \in [File -> Files] /\ g[h].fate = "waiting"
       /\ \A f \in File \ {h} : g[f] = file[f]
  BY <1>6, <1>7, <1>9
<1>11. FilesFit(e, Coming) /\ Final(Now, e)
  BY <1>3, <1>5, <1>6, <1>7, <1>10 DEF FilesFit, Final
<1>12. PolicyFits(e)
  BY <1>3, <1>5, Zenon DEF PolicyFits
<1>13. /\ ~drain_list /\ ~drain_mkdir /\ scan_generation' = 0
       /\ worker_cancel_requested' = e.cancelled
  BY <1>1, <1>5, FlagsOff, QuestionOpen, NowFields DEF scanVars
<1>14. io_rx' \in Seq(Messages) /\ WalkInv' /\ SentOnce(io_rx, walk)' /\ Coming' = Coming
  BY <1>1, ScanAside
<1>15. "None" \in {"None", prompt} /\ "None" \notin Questions
  BY DEF Questions
<1>16. DrainIInv' /\ StaysOut /\ Onward(e, Now')
  BY <1>1, <1>2, <1>5, <1>11, <1>12, <1>13, <1>14, <1>15, DrainFromKeyInv
<1>17. /\ \A f \in File : e.file[f].fate = file[f].fate
       /\ \A f \in File \ ToSet(pending_scan) : e.file[f] = file[f]
  BY <1>5, <1>7, <1>10
<1> QED BY <1>5, <1>16, <1>17

(* No scan: no files are on their way. *)
LEMMA NoScan ==
  ASSUME generation # 0, scan_generation = 0
  PROVE  Coming = {}
BY DEF Coming, Scanning

(* The record of the drain is left alone. *)
LEMMA SameRecord ==
  ASSUME FilesFit(Now, Coming), PolicyInv, UNCHANGED drainVars,
         UNCHANGED <<worker_cancel_requested, original>>, Coming' = Coming
  PROVE  FilesFit(Now, Coming)' /\ PolicyInv' /\ StaysOut
<1>1. /\ pending_scan' = pending_scan /\ file' = file /\ overwrite_policy' = overwrite_policy
      /\ listed_dest_names' = listed_dest_names /\ mkdir_queue' = mkdir_queue
      /\ leaked' = leaked /\ worker_cancel_requested' = worker_cancel_requested
  BY DEF drainVars
<1>2. Now' = Now
  BY <1>1 DEF Now
<1>3. \A f, name : WasFree(f, name)' <=> WasFree(f, name)
  BY DEF WasFree
<1>4. FilesFit(Now, Coming)'
  BY <1>2, <1>3 DEF FilesFit
<1>5. PolicyInv'
  BY <1>2 DEF PolicyInv, PolicyFits, PolicyLasts
<1>6. StaysOut
  BY <1>1 DEF StaysOut
<1> QED BY <1>4, <1>5, <1>6

(* The flags, the errand and the question are left alone, or the question *)
(* is closed.                                                              *)
LEMMA FrontKept ==
  ASSUME FrontInv, LooksInv, QuietInv,
         UNCHANGED <<drain_list, drain_mkdir, about, in_flight, io, generation, errand, original>>,
         exists \subseteq exists', scan_generation' # 0 => scan_generation # 0,
         prompt' \in Questions => prompt \in Questions,
         \/ UNCHANGED <<pending_scan, mkdir_queue, listed_dest_names>>
         \/ /\ prompt' \notin Questions /\ mkdir_queue' = <<>>
            /\ pending_scan' = <<>> \/ (~drain_list /\ ~drain_mkdir)
  PROVE  FrontInv' /\ LooksInv' /\ QuietInv'
<1>1. QuietInv' /\ FrontInv'
  BY DEF QuietInv, FrontInv
<1>2. \A f, names : SawAll(f, names)' = SawAll(f, names)
  BY DEF SawAll
<1>3. \A t \in IoTask : Current(t)' <=> Current(t)
  BY DEF Current, Live
<1>4. LooksInv'
  BY <1>2, <1>3 DEF LooksInv, ErrandIs
<1> QED BY <1>1, <1>4

(* The keys of prompts that only show another. *)
LEMMA PromptsInv ==
  ASSUME DrainIInv, NEW shown \in {"None", "Choice"} \cup Questions, Prompts(shown),
         shown \in Questions => prompt \in Questions
  PROVE  DrainIInv' /\ StaysOut
<1>1. /\ BelowInv /\ FrontInv /\ LooksInv /\ QuietInv /\ FilesFit(Now, Coming) /\ PolicyInv
      /\ pending_delete \in Seq(File)
  BY DEF DrainIInv
<1>2. /\ prompt' = shown /\ io_rx' = io_rx /\ UNCHANGED scanVars /\ UNCHANGED connVars
      /\ UNCHANGED drainVars /\ UNCHANGED diskVars /\ UNCHANGED errand
      /\ UNCHANGED <<worker_cancel_requested, original>> /\ pending_delete' = pending_delete
      /\ UNCHANGED <<connVars, in_flight, handle, park, io_rx, io, trustVars>>
  BY DEF Prompts, diskVars
<1>3. io_rx' \in Seq(Messages) /\ WalkInv' /\ SentOnce(io_rx, walk)' /\ Coming' = Coming
  BY <1>2, ScanAside
<1>4. FilesFit(Now, Coming)' /\ PolicyInv' /\ StaysOut
  BY <1>1, <1>2, <1>3, SameRecord
<1>5. UiCore'
  BY <1>1, <1>2, OtherPromptCore DEF BelowInv, Questions
<1>6. BelowInv'
  BY <1>1, <1>2, <1>3, <1>5 DEF BelowInv, connVars
<1>7. FrontInv' /\ LooksInv' /\ QuietInv'
  BY <1>1, <1>2, FrontKept DEF drainVars, scanVars, connVars, diskVars
<1> QED BY <1>1, <1>2, <1>3, <1>4, <1>6, <1>7 DEF DrainIInv

LEMMA AskNameInv ==
  ASSUME DrainIInv, AskName
  PROVE  DrainIInv' /\ StaysOut
<1>1. Prompts("Rename") /\ prompt \in Questions /\ "Rename" \in {"None", "Choice"} \cup Questions
  BY DEF AskName, Asking, Questions
<1> QED BY <1>1, PromptsInv

LEMMA AskAgainInv ==
  ASSUME DrainIInv, AskAgain
  PROVE  DrainIInv' /\ StaysOut
<1>1. Prompts("Overwrite") /\ prompt \in Questions /\ "Overwrite" \in {"None", "Choice"} \cup Questions
  BY DEF AskAgain, Questions
<1> QED BY <1>1, PromptsInv

LEMMA ChoiceInv ==
  ASSUME DrainIInv, RequestQuit \/ OpenChoice \/ CloseChoice
  PROVE  DrainIInv' /\ StaysOut
<1>1. /\ "Choice" \in {"None", "Choice"} \cup Questions /\ "Choice" \notin Questions
      /\ "None" \in {"None", "Choice"} \cup Questions /\ "None" \notin Questions
  BY DEF Questions
<1>2. Prompts("Choice") \/ Prompts("None")
  BY DEF RequestQuit, OpenChoice, CloseChoice
<1> QED BY <1>1, <1>2, PromptsInv

LEMMA RetryTransfersInv ==
  ASSUME DrainIInv, RetryTransfers
  PROVE  DrainIInv' /\ StaysOut
<1>1. /\ BelowInv /\ FrontInv /\ LooksInv /\ QuietInv /\ FilesFit(Now, Coming) /\ PolicyInv
      /\ pending_delete \in Seq(File)
  BY DEF DrainIInv
<1>2. /\ prompt' = prompt /\ io_rx' = io_rx /\ UNCHANGED scanVars /\ UNCHANGED connVars
      /\ UNCHANGED drainVars /\ UNCHANGED diskVars /\ UNCHANGED errand
      /\ pending_delete' = pending_delete /\ worker_cancel_requested' = FALSE
      /\ UNCHANGED <<connVars, in_flight, handle, park, io_rx, io, trustVars>>
  BY DEF RetryTransfers, uiVars
<1>3. io_rx' \in Seq(Messages) /\ WalkInv' /\ SentOnce(io_rx, walk)' /\ Coming' = Coming
  BY <1>2, ScanAside
<1>4. UiCore'
  BY <1>1, <1>2, OtherPromptCore DEF BelowInv
<1>5. BelowInv'
  BY <1>1, <1>2, <1>3, <1>4 DEF BelowInv, connVars
<1>6. FrontInv' /\ LooksInv' /\ QuietInv'
  BY <1>1, <1>2, FrontKept DEF drainVars, scanVars, connVars, diskVars
<1>7. \A f, name : WasFree(f, name)' <=> WasFree(f, name)
  BY <1>2 DEF WasFree, diskVars
<1>8. /\ Now'.pending = Now.pending /\ Now'.file = Now.file /\ Now'.policy = Now.policy
      /\ Now'.mkdirs = Now.mkdirs /\ Now'.cancelled = FALSE /\ Now'.leaked = Now.leaked
      /\ file' = file
  BY <1>2 DEF Now, drainVars
<1>9. FilesFit(Now, Coming)'
  BY <1>1, <1>3, <1>7, <1>8 DEF FilesFit
<1>10. PolicyFits(Now)'
  BY <1>1, <1>8, Zenon DEF PolicyInv, PolicyFits
<1>11. PolicyLasts(Now)'
  BY <1>1, <1>8, Zenon DEF PolicyInv, PolicyLasts
<1>12. StaysOut
  BY <1>8 DEF StaysOut
<1> QED BY <1>1, <1>2, <1>3, <1>5, <1>6, <1>9, <1>10, <1>11, <1>12 DEF DrainIInv, PolicyInv

(* Nothing waits any more: the files in S go, what is in k is on its way.  *)
LEMMA GivenFits ==
  ASSUME NEW d, IsDrain(d), NEW c, FilesFit(d, c), NEW S, NEW fate \in {"parked", "dropped"},
         NEW k, \A f \in File : f \in k <=> f \in ToSet(d.pending) \cup c /\ f \notin S,
         \A f \in File : f \in S => d.file[f].fate \notin {"skipped", "dropped"}
  PROVE  /\ FilesFit(Given(d, S, fate), k) /\ Final(d, Given(d, S, fate))
         /\ IsDrain(Given(d, S, fate)) /\ Given(d, S, fate).pending = <<>>
<1> DEFINE e == Given(d, S, fate)
<1>1. /\ e.pending = <<>> /\ IsDrain(e)
      /\ e.file = [f \in File |-> IF f \in S THEN [d.file[f] EXCEPT !.fate = fate] ELSE d.file[f]]
  BY GivenFields
<1> HIDE DEF e
<1>2. fate \in Fate /\ fate \notin {"waiting", "free", "renamed"}
  BY DEF Fate
<1>3. /\ d.file \in [File -> Files]
      /\ \A f \in File : d.file[f].fate = "waiting" <=> f \in ToSet(d.pending) \cup c
      /\ \A f \in File : d.file[f].fate \in {"free", "renamed"} => WasFree(f, d.file[f].name)
  BY DEF FilesFit
<1>4. \A f \in File : f \in S => e.file[f] \in Files /\ e.file[f].fate = fate
  BY <1>1, <1>2, <1>3 DEF Files
<1>5. \A f \in File : f \notin S => e.file[f] = d.file[f] /\ e.file[f] \in Files
  BY <1>1, <1>3
<1>6. e.file \in [File -> Files]
  <2>1. e.file = [f \in File |-> e.file[f]]
    BY <1>1
  <2> QED BY <1>4, <1>5, <2>1
<1>7. ToSet(e.pending) = {} /\ IsInjective(e.pending) /\ e.pending \in Seq(File)
  BY <1>1, EmptyElements
<1>8. \A f \in File : e.file[f].fate = "waiting" <=> f \in ToSet(e.pending) \cup k
  BY <1>2, <1>3, <1>4, <1>5, <1>7
<1>9. \A f \in File : e.file[f].fate \in {"free", "renamed"} => WasFree(f, e.file[f].name)
  BY <1>2, <1>3, <1>4, <1>5
<1>10. Final(d, e)
  BY <1>2, <1>4, <1>5 DEF Final
<1>11. FilesFit(e, k)
  BY <1>6, <1>7, <1>8, <1>9 DEF FilesFit
<1> QED BY <1>1, <1>10, <1>11 DEF e

(* The batch is over, whether transfers are cancelled or not. *)
LEMMA GivenKept ==
  ASSUME FilesFit(Now, Coming), NEW S, NEW fate \in {"parked", "dropped"},
         \A f \in File : f \in Coming' <=> f \in ToSet(pending_scan) \cup Coming /\ f \notin S,
         \A f \in File : f \in S => file[f].fate \notin {"skipped", "dropped"},
         Keeps(BatchEnds(Given(Now, S, fate))), original' = original
  PROVE  /\ FilesFit(Now, Coming)' /\ PolicyInv' /\ StaysOut
         /\ pending_scan' = <<>> /\ mkdir_queue' = <<>>
<1> DEFINE g == Given(Now, S, fate)
           e == BatchEnds(g)
<1>1. FilesFit(g, Coming') /\ Final(Now, g) /\ IsDrain(g) /\ g.pending = <<>>
  <2>1. IsDrain(Now) /\ Now.pending = pending_scan /\ Now.file = file
    BY NowFields
  <2> DEFINE k == Coming'
  <2>3. /\ \A f \in File : f \in k <=> f \in ToSet(Now.pending) \cup Coming /\ f \notin S
        /\ \A f \in File : f \in S => Now.file[f].fate \notin {"skipped", "dropped"}
    BY <2>1
  <2> HIDE DEF k
  <2>4. FilesFit(g, k) /\ Final(Now, g) /\ IsDrain(g) /\ g.pending = <<>>
    BY <2>1, <2>3, GivenFits
  <2> QED BY <2>4 DEF k
<1> HIDE DEF g
<1>2. /\ e.pending = <<>> /\ e.file = g.file /\ e.policy = DefaultPolicy /\ e.mkdirs = <<>>
  BY <1>1, EndFields
<1> HIDE DEF e
<1>3. FilesFit(e, Coming') /\ Final(g, e)
  BY <1>1, <1>2, SameFiles DEF Onward
<1>4. Keeps(e)
  BY DEF e, g
<1>5. /\ Now'.pending = <<>> /\ Now'.file = e.file /\ Now'.policy = DefaultPolicy
      /\ Now'.mkdirs = <<>> /\ file' = e.file /\ pending_scan' = <<>> /\ mkdir_queue' = <<>>
  BY <1>2, <1>4 DEF Now, Keeps
<1>6. \A f, name : WasFree(f, name)' <=> WasFree(f, name)
  BY DEF WasFree
<1>7. FilesFit(Now, Coming)'
  BY <1>2, <1>3, <1>5, <1>6 DEF FilesFit
<1>8. DefaultPolicy \in Policy
  BY FileAssumption DEF Policy
<1>9. PolicyFits(Now)'
  BY <1>5, <1>8, Zenon DEF PolicyFits
<1>10. PolicyLasts(Now)'
  BY <1>5, Zenon DEF PolicyLasts
<1>11. StaysOut
  <2>1. Final(Now, e)
    BY <1>1, <1>3, FinalTrans
  <2> QED BY <1>5, <2>1, NowFields DEF Final, StaysOut
<1> QED BY <1>5, <1>7, <1>9, <1>10, <1>11 DEF PolicyInv

(* The batch ends, and with it the errand and the question. *)
LEMMA EndsInv ==
  ASSUME DrainIInv, NEW S, NEW fate \in {"parked", "dropped"},
         \A f \in File : f \in Coming' <=> f \in ToSet(pending_scan) \cup Coming /\ f \notin S,
         \A f \in File : f \in S => file[f].fate \notin {"skipped", "dropped"},
         Keeps(BatchEnds(Given(Now, S, fate))),
         UNCHANGED <<io, errand, about, exists, original, pending_delete>>,
         \/ drain_list' = FALSE /\ drain_mkdir' = FALSE
         \/ UNCHANGED <<drain_list, drain_mkdir, in_flight, generation>>,
         scan_generation' # 0 => scan_generation # 0,
         prompt' \in {"None", "Choice"}, BelowInv', WalkInv', SentOnce(io_rx, walk)'
  PROVE  DrainIInv' /\ StaysOut
<1>1. /\ FrontInv /\ LooksInv /\ QuietInv /\ FilesFit(Now, Coming)
      /\ pending_delete' \in Seq(File)
  BY DEF DrainIInv
<1>2. /\ FilesFit(Now, Coming)' /\ PolicyInv' /\ StaysOut
      /\ pending_scan' = <<>> /\ mkdir_queue' = <<>>
  BY <1>1, GivenKept
<1>3. prompt' \notin Questions
  BY DEF Questions
<1>4. FrontInv' /\ LooksInv' /\ QuietInv'
  <2>1. CASE drain_list' = FALSE /\ drain_mkdir' = FALSE
    <3>1. QuietInv' /\ FrontInv'
      BY <1>1, <1>2, <1>3, <2>1 DEF QuietInv, FrontInv
    <3>2. LooksInv'
      BY <1>1, <1>3, <2>1 DEF LooksInv, ErrandIs
    <3> QED BY <3>1, <3>2
  <2>2. CASE UNCHANGED <<drain_list, drain_mkdir, in_flight, generation>>
    <3>1. /\ exists \subseteq exists' /\ (prompt' \in Questions => prompt \in Questions)
          /\ scan_generation' # 0 => scan_generation # 0
          /\ prompt' \notin Questions /\ mkdir_queue' = <<>>
          /\ pending_scan' = <<>>
      BY <1>2, <1>3
    <3>2. UNCHANGED <<drain_list, drain_mkdir, about, in_flight, io, generation, errand, original>>
      BY <2>2
    <3>3. FrontInv /\ LooksInv /\ QuietInv
      BY <1>1
    <3> QED BY <3>1, <3>2, <3>3, FrontKept
  <2> QED BY <2>1, <2>2
<1> QED BY <1>1, <1>2, <1>4 DEF DrainIInv

(* The files that wait are those drained and those on their way. *)
LEMMA Waiters ==
  ASSUME FilesFit(Now, Coming)
  PROVE  /\ \A f \in File : f \in ToSet(pending_scan) \cup Coming <=> file[f].fate = "waiting"
         /\ \A f \in File : f \in WaitsIn(Now) <=> file[f].fate = "waiting"
         /\ ToSet(pending_scan) \cap Coming = {}
BY NowFields DEF FilesFit, WaitsIn

LEMMA CancelTransfersInv ==
  ASSUME DrainIInv, CancelTransfers
  PROVE  DrainIInv' /\ StaysOut
<1> DEFINE S == ToSet(pending_scan)
<1>1. BelowInv /\ FilesFit(Now, Coming)
  BY DEF DrainIInv
<1>2. /\ prompt' = "None" /\ io_rx' = io_rx /\ UNCHANGED scanVars /\ UNCHANGED connVars
      /\ Keeps(BatchEnds(Given(Now, S, "parked")))
      /\ UNCHANGED <<io, errand, about, exists, original, pending_delete>>
      /\ UNCHANGED <<drain_list, drain_mkdir, in_flight, generation>>
      /\ UNCHANGED <<connVars, in_flight, handle, park, io_rx, io, trustVars>> /\ prompt = "None"
  BY DEF CancelTransfers, Parked, uiVars, diskVars, connVars
<1>3. io_rx' \in Seq(Messages) /\ WalkInv' /\ SentOnce(io_rx, walk)' /\ Coming' = Coming
  BY <1>2, ScanAside
<1>4. UiCore'
  BY <1>1, <1>2, OtherPromptCore DEF BelowInv
<1>5. BelowInv'
  BY <1>1, <1>2, <1>3, <1>4 DEF BelowInv, connVars
<1>6. /\ \A f \in File : f \in Coming' <=> f \in ToSet(pending_scan) \cup Coming /\ f \notin S
      /\ \A f \in File : f \in S => file[f].fate \notin {"skipped", "dropped"}
  BY <1>1, <1>3, Waiters
<1>7. /\ scan_generation' # 0 => scan_generation # 0
      /\ prompt' \in {"None", "Choice"} /\ "parked" \in {"parked", "dropped"}
  BY <1>2 DEF scanVars
<1> HIDE DEF S
<1> QED BY <1>2, <1>3, <1>5, <1>6, <1>7, EndsInv

LEMMA AbortDrainInv ==
  ASSUME DrainIInv, NEW shown \in {"None", "Choice"}, AbortDrain(shown)
  PROVE  DrainIInv' /\ StaysOut
<1> DEFINE S == WaitsIn(Now)
<1>1. BelowInv /\ FilesFit(Now, Coming)
  BY DEF DrainIInv
<1>2. prompt \in Questions /\ scan_generation = 0
  BY QuestionOpen DEF AbortDrain, Asking, Questions
<1>3. /\ prompt' = shown /\ io_rx' = io_rx /\ UNCHANGED scanVars /\ UNCHANGED connVars
      /\ Keeps(BatchEnds(Given(Now, S, "dropped")))
      /\ UNCHANGED <<io, errand, about, exists, original, pending_delete>>
      /\ drain_list' = FALSE /\ drain_mkdir' = FALSE
      /\ UNCHANGED <<connVars, in_flight, handle, park, io_rx, io, trustVars>>
  BY <1>2 DEF AbortDrain, Cleared, diskVars, scanVars
<1>4. io_rx' \in Seq(Messages) /\ WalkInv' /\ SentOnce(io_rx, walk)' /\ Coming' = {} /\ Coming = {}
  BY <1>1, <1>2, <1>3, ScanAside, NoScan DEF BelowInv
<1>5. UiCore'
  BY <1>1, <1>2, <1>3, OtherPromptCore DEF BelowInv, Questions
<1>6. BelowInv'
  BY <1>1, <1>3, <1>4, <1>5 DEF BelowInv, connVars
<1>7. /\ \A f \in File : f \in Coming' <=> f \in ToSet(pending_scan) \cup Coming /\ f \notin S
      /\ \A f \in File : f \in S => file[f].fate \notin {"skipped", "dropped"}
  BY <1>1, <1>4, Waiters
<1>8. /\ scan_generation' # 0 => scan_generation # 0
      /\ prompt' \in {"None", "Choice"} /\ "dropped" \in {"parked", "dropped"}
  BY <1>3 DEF scanVars
<1> HIDE DEF S
<1> QED BY <1>3, <1>4, <1>6, <1>7, <1>8, EndsInv

LEMMA DisconnectEndsInv ==
  ASSUME DrainIInv, DisconnectEnds
  PROVE  DrainIInv' /\ StaysOut
<1> DEFINE S == {f \in File : InQueue(f)} \cup WaitsIn(Now)
<1>1. BelowInv /\ FilesFit(Now, Coming) /\ WalkInv /\ SentOnce(io_rx, walk)
  BY DEF DrainIInv
<1>2. /\ Disconnect /\ prompt' = "None" /\ io_rx' = io_rx /\ connected' = FALSE
      /\ generation' = generation + 1 /\ scan_generation' = 0
      /\ Keeps(BatchEnds(Given(Now, S, "dropped")))
      /\ UNCHANGED <<io, errand, about, exists, original, pending_delete>>
      /\ drain_list' = FALSE /\ drain_mkdir' = FALSE
      /\ UNCHANGED <<walk, scan_delete_source>>
  BY DEF DisconnectEnds, GivesUp, Disconnect, DropsConnection, diskVars
<1>3. generation \in Nat
  BY <1>1, UiConstantsAssumption DEF BelowInv, UiCore, Books, SessionTypeOK
<1>4. WalkInv' /\ SentOnce(io_rx, walk)' /\ generation' # 0
  BY <1>1, <1>2, <1>3 DEF WalkInv
<1>5. Coming' = {}
  BY <1>2, <1>4 DEF Coming, Scanning
<1>6. UiCore'
  BY <1>1, <1>2, DisconnectCore DEF BelowInv
<1>7. BelowInv'
  BY <1>1, <1>2, <1>4, <1>6 DEF BelowInv
<1>8. /\ \A f \in File : f \in Coming' <=> f \in ToSet(pending_scan) \cup Coming /\ f \notin S
      /\ \A f \in File : f \in S => file[f].fate \notin {"skipped", "dropped"}
  BY <1>1, <1>5, Waiters DEF InQueue
<1>9. /\ scan_generation' # 0 => scan_generation # 0
      /\ prompt' \in {"None", "Choice"} /\ "dropped" \in {"parked", "dropped"}
  BY <1>2
<1> HIDE DEF S
<1> QED BY <1>2, <1>4, <1>7, <1>8, <1>9, EndsInv

(* A message of the scan is read; nothing else of the session changes. *)
LEMMA ReadsScan ==
  ASSUME BelowInv, SentOnce(io_rx, walk), NEW kind \in ScanKinds, NEW f, ReceivesScan(kind, f)
  PROVE  /\ io_rx' \in Seq(Messages) /\ Fits(io_rx', io, in_flight)
         /\ SentOnce(io_rx, walk)' /\ walk' = walk /\ generation' = generation
         /\ connected' = connected
         /\ ScanIsOver(io_rx, walk) => ScanIsOver(io_rx', walk)
         /\ kind = "ScanItem" =>
              /\ Carried(io_rx) = Carried(io_rx') \cup {f}
              /\ f \in File /\ f \notin ToSet(walk.left) /\ f \notin Carried(io_rx')
         /\ kind # "ScanItem" => ScanIsOver(io_rx', walk) /\ Carried(io_rx') = Carried(io_rx)
         /\ kind # "ScanItem" => Carried(io_rx) = {}
         /\ kind = "ScanDone" => walk.left = <<>>
<1>1. /\ io_rx \in Seq(Messages) /\ io_rx # <<>> /\ io_rx' = Tail(io_rx)
      /\ Head(io_rx).kind = kind /\ Head(io_rx).task = f
      /\ walk' = walk /\ generation' = generation /\ connected' = connected
  BY DEF BelowInv, ReceivesScan, Message, connVars
<1>2. io_rx' \in Seq(Messages) /\ \A i \in 1..Len(io_rx') : i + 1 \in 1..Len(io_rx) /\ io_rx'[i] = io_rx[i + 1]
  BY <1>1, TailParts
<1>3. Fits(io_rx', io, in_flight)
  BY <1>1, FitsTail DEF BelowInv, UiCore, Books
<1>4. /\ SentOnce(io_rx', walk)
      /\ kind = "ScanItem" =>
           /\ f \in File /\ f \notin ToSet(walk.left) /\ f \notin Carried(io_rx')
      /\ kind \in EndKinds => ScanIsOver(io_rx', walk) /\ Carried(io_rx) = {}
      /\ kind = "ScanDone" => walk.left = <<>>
  BY <1>1, SentTail
<1>5. Carried(io_rx) = IF kind = "ScanItem" THEN Carried(io_rx') \cup {f} ELSE Carried(io_rx')
  BY <1>1, CarriedTail
<1>6. ScanIsOver(io_rx, walk) => ScanIsOver(io_rx', walk)
  BY <1>2 DEF ScanIsOver
<1>7. kind # "ScanItem" => kind \in EndKinds
  BY DEF ScanKinds
<1> QED BY <1>1, <1>2, <1>3, <1>4, <1>5, <1>6, <1>7

(* It changes nothing but the channel. *)
LEMMA ReadInv ==
  ASSUME DrainIInv, io_rx' \in Seq(Messages), Fits(io_rx', io, in_flight), WalkInv',
         SentOnce(io_rx, walk)', UNCHANGED <<connVars, in_flight, handle, park, io, trustVars>>,
         prompt' = prompt
  PROVE  BelowInv'
<1>1. UiCore'
  BY ChannelCore DEF DrainIInv, BelowInv
<1> QED BY <1>1 DEF DrainIInv, BelowInv, connVars

LEMMA ScanItemInv ==
  ASSUME DrainIInv, NEW f \in File, ScanItem(f)
  PROVE  DrainIInv' /\ StaysOut
<1>1. /\ BelowInv /\ FrontInv /\ LooksInv /\ QuietInv /\ FilesFit(Now, Coming) /\ PolicyInv
      /\ WalkInv /\ SentOnce(io_rx, walk) /\ pending_delete \in Seq(File) /\ generation # 0
  BY DEF DrainIInv, BelowInv
<1>2. /\ ReceivesScan("ScanItem", f) /\ "ScanItem" \in ScanKinds
      /\ UNCHANGED <<connVars, in_flight, handle, park, io, trustVars>> /\ prompt' = prompt
      /\ UNCHANGED <<drain_list, drain_mkdir, about, in_flight, io, generation, errand, original>>
      /\ exists' = exists /\ scan_generation' = scan_generation /\ pending_delete' = pending_delete
      /\ UNCHANGED <<mkdir_queue, overwrite_policy, listed_dest_names, leaked>>
      /\ UNCHANGED <<scan_delete_source, worker_cancel_requested>>
  BY DEF ScanItem, ReceivesScan, ScanKinds, connVars, diskVars
<1>3. /\ io_rx' \in Seq(Messages) /\ Fits(io_rx', io, in_flight)
      /\ SentOnce(io_rx, walk)' /\ walk' = walk /\ generation' = generation
      /\ connected' = connected
      /\ ScanIsOver(io_rx, walk) => ScanIsOver(io_rx', walk)
      /\ Carried(io_rx) = Carried(io_rx') \cup {f}
      /\ f \notin ToSet(walk.left) /\ f \notin Carried(io_rx')
  BY <1>1, <1>2, ReadsScan
<1>4. WalkInv'
  BY <1>1, <1>2, <1>3 DEF WalkInv, Scanning
<1>5. BelowInv'
  BY <1>2, <1>3, <1>4, ReadInv
<1>6. ~Scanning => scan_generation = 0
  BY <1>1 DEF WalkInv
<1>7. Scanning => scan_generation # 0
  BY <1>1 DEF Scanning
<1>8. Scanning' = Scanning
  BY <1>2, <1>3 DEF Scanning
<1>9. \A g, name : WasFree(g, name)' <=> WasFree(g, name)
  BY <1>2 DEF WasFree
<1>10. CASE ~Scanning
  <2>1. Coming' = Coming
    BY <1>8, <1>10 DEF Coming
  <2>2. file' = file /\ pending_scan' = pending_scan
    BY <1>10 DEF ScanItem
  <2>3. UNCHANGED drainVars /\ UNCHANGED <<worker_cancel_requested, original>>
    BY <1>2, <2>2 DEF drainVars
  <2>4. FilesFit(Now, Coming)' /\ PolicyInv' /\ StaysOut
    BY <1>1, <2>1, <2>3, SameRecord
  <2>5. FrontInv' /\ LooksInv' /\ QuietInv'
    BY <1>1, <1>2, <2>2, FrontKept
  <2> QED BY <1>1, <1>2, <1>3, <1>4, <1>5, <2>4, <2>5 DEF DrainIInv
<1>11. CASE Scanning
  <2>1. /\ ~drain_list /\ ~drain_mkdir /\ prompt \notin Questions /\ mkdir_queue = <<>>
        /\ scan_generation # 0
    BY <1>1, <1>7, <1>11 DEF QuietInv, FrontInv
  <2>2. Coming = Coming' \cup {f} /\ f \notin Coming'
    BY <1>3, <1>8, <1>11 DEF Coming
  <2>3. /\ pending_scan \in Seq(File) /\ IsInjective(pending_scan) /\ file \in [File -> Files]
        /\ ToSet(pending_scan) \cap Coming = {}
        /\ \A g \in File : file[g].fate = "waiting" <=> g \in ToSet(pending_scan) \cup Coming
        /\ \A g \in File : file[g].fate \in {"free", "renamed"} => WasFree(g, file[g].name)
    BY <1>1, NowFields DEF FilesFit
  <2>4. f \notin ToSet(pending_scan) /\ file[f].fate = "waiting" /\ file[f] \in Files
    BY <2>2, <2>3
  <2>5. /\ Now'.pending = pending_scan' /\ Now'.file = file' /\ Now'.policy = overwrite_policy
        /\ Now'.mkdirs = <<>> /\ Now'.cancelled = worker_cancel_requested /\ Now'.leaked = leaked
    BY <1>2, <2>1 DEF Now
  <2>6. exists \subseteq exists' /\ (scan_generation' # 0 => scan_generation # 0)
        /\ (prompt' \in Questions => prompt \in Questions)
        /\ prompt' \notin Questions /\ mkdir_queue' = <<>>
    BY <1>2, <2>1
  <2>7. FrontInv' /\ LooksInv' /\ QuietInv'
    BY <1>1, <1>2, <2>1, <2>6, FrontKept
  <2>8. CASE worker_cancel_requested
    <3>1. file' = [file EXCEPT ![f].fate = "parked"] /\ pending_scan' = pending_scan
      BY <1>11, <2>8 DEF ScanItem
    <3>2. "parked" \in Fate
      BY DEF Fate
    <3>3. LET r == [file[f] EXCEPT !.fate = "parked"]
          IN  r \in Files /\ r.fate = "parked" /\ file' = [file EXCEPT ![f] = r]
      BY <2>4, <3>1, <3>2 DEF Files
    <3>4. /\ file' \in [File -> Files] /\ file'[f].fate = "parked"
          /\ \A g \in File \ {f} : file'[g] = file[g]
      BY <2>3, <3>3
    <3>5. FilesFit(Now, Coming)'
      BY <1>9, <2>2, <2>3, <2>4, <2>5, <3>1, <3>4 DEF FilesFit
    <3>6. PolicyFits(Now)' /\ PolicyLasts(Now)'
      <4>1. PolicyFits(Now) /\ PolicyLasts(Now) /\ Now.pending = pending_scan
            /\ Now.policy = overwrite_policy /\ Now.cancelled = worker_cancel_requested
            /\ Now.leaked = leaked
        BY <1>1, NowFields DEF PolicyInv
      <4> QED BY <2>5, <3>1, <4>1, Zenon DEF PolicyFits, PolicyLasts
    <3>7. StaysOut
      BY <2>3, <2>4, <3>4 DEF StaysOut
    <3> QED BY <1>1, <1>2, <1>3, <1>4, <1>5, <2>7, <3>5, <3>6, <3>7 DEF DrainIInv, PolicyInv
  <2>9. CASE ~worker_cancel_requested
    <3>1. /\ pending_scan' = Append(pending_scan, f)
          /\ file' = [file EXCEPT ![f].delete_source = scan_delete_source]
      BY <1>11, <2>9 DEF ScanItem
    <3>2. scan_delete_source \in BOOLEAN
      BY <1>1 DEF WalkInv
    <3>3. LET r == [file[f] EXCEPT !.delete_source = scan_delete_source]
          IN  /\ r \in Files /\ r.fate = file[f].fate /\ r.name = file[f].name
              /\ file' = [file EXCEPT ![f] = r]
      BY <2>4, <3>1, <3>2 DEF Files
    <3>4. /\ file' \in [File -> Files]
          /\ \A g \in File : file'[g].fate = file[g].fate /\ file'[g].name = file[g].name
      BY <2>3, <3>3
    <3>5. /\ pending_scan' \in Seq(File) /\ IsInjective(pending_scan')
          /\ ToSet(pending_scan') = ToSet(pending_scan) \cup {f} /\ pending_scan' # <<>>
      <4>1. Append(pending_scan, f) # <<>>
        BY <2>3, AppendParts
      <4> QED BY <2>3, <2>4, <3>1, <4>1, AppendElements
    <3>6. FilesFit(Now, Coming)'
      BY <1>9, <2>2, <2>3, <2>4, <2>5, <3>4, <3>5 DEF FilesFit
    <3>7. PolicyFits(Now)' /\ PolicyLasts(Now)'
      <4>1. overwrite_policy \in Policy
        BY <1>1, NowFields DEF PolicyInv, PolicyFits
      <4> QED BY <2>5, <2>9, <3>5, <4>1, Zenon DEF PolicyFits, PolicyLasts
    <3>8. StaysOut
      BY <3>4 DEF StaysOut
    <3> QED BY <1>1, <1>2, <1>3, <1>4, <1>5, <2>7, <3>6, <3>7, <3>8 DEF DrainIInv, PolicyInv
  <2> QED BY <2>8, <2>9
<1> QED BY <1>10, <1>11

(* The end of a scan that was given up. *)
LEMMA ScanIgnored ==
  ASSUME DrainIInv, NEW kind \in EndKinds, ReceivesScan(kind, NoFile), ~Scanning,
         UNCHANGED <<in_flight, handle, prompt, io, errand>>, UNCHANGED drainVars,
         scan_generation' = scan_generation
  PROVE  DrainIInv' /\ StaysOut
<1>1. /\ BelowInv /\ FrontInv /\ LooksInv /\ QuietInv /\ FilesFit(Now, Coming) /\ PolicyInv
      /\ WalkInv /\ SentOnce(io_rx, walk) /\ pending_delete \in Seq(File) /\ kind \in ScanKinds
  BY DEF DrainIInv, ScanKinds
<1>2. /\ UNCHANGED <<connVars, in_flight, handle, park, io, trustVars>> /\ prompt' = prompt
      /\ UNCHANGED <<drain_list, drain_mkdir, about, in_flight, io, generation, errand, original>>
      /\ UNCHANGED <<pending_scan, mkdir_queue, listed_dest_names>>
      /\ exists' = exists /\ pending_delete' = pending_delete
      /\ UNCHANGED <<scan_delete_source, worker_cancel_requested>>
  BY DEF ReceivesScan, connVars, diskVars, drainVars
<1>3. /\ io_rx' \in Seq(Messages) /\ Fits(io_rx', io, in_flight)
      /\ SentOnce(io_rx, walk)' /\ walk' = walk /\ generation' = generation
      /\ connected' = connected
      /\ ScanIsOver(io_rx, walk) => ScanIsOver(io_rx', walk)
  BY <1>1, ReadsScan
<1>4. WalkInv' /\ Coming' = Coming
  BY <1>1, <1>2, <1>3 DEF WalkInv, Scanning, Coming
<1>5. BelowInv'
  BY <1>2, <1>3, <1>4, ReadInv
<1>6. FilesFit(Now, Coming)' /\ PolicyInv' /\ StaysOut
  <2>1. UNCHANGED <<worker_cancel_requested, original>>
    BY <1>2
  <2> QED BY <1>1, <1>4, <2>1, SameRecord
<1>7. FrontInv' /\ LooksInv' /\ QuietInv'
  BY <1>1, <1>2, FrontKept
<1> QED BY <1>1, <1>2, <1>3, <1>4, <1>5, <1>6, <1>7 DEF DrainIInv

(* The end of the scan that runs. *)
LEMMA ScanCloses ==
  ASSUME DrainIInv, NEW kind \in EndKinds, ReceivesScan(kind, NoFile), Scanning,
         scan_generation' = 0
  PROVE  /\ io_rx' \in Seq(Messages) /\ Fits(io_rx', io, in_flight) /\ SentOnce(io_rx, walk)'
         /\ WalkInv' /\ Coming' = {} /\ (kind = "ScanDone" => Coming = {})
         /\ ~drain_list /\ ~drain_mkdir /\ Now.mkdirs = <<>> /\ prompt \in {"None", "Choice"}
<1>1. /\ BelowInv /\ WalkInv /\ SentOnce(io_rx, walk) /\ kind \in ScanKinds /\ generation # 0
      /\ kind # "ScanItem" /\ QuietInv /\ scan_delete_source' = scan_delete_source
  BY DEF DrainIInv, BelowInv, ScanKinds, EndKinds, ReceivesScan
<1>2. /\ io_rx' \in Seq(Messages) /\ Fits(io_rx', io, in_flight)
      /\ SentOnce(io_rx, walk)' /\ walk' = walk /\ generation' = generation
      /\ ScanIsOver(io_rx', walk) /\ Carried(io_rx) = {}
      /\ kind = "ScanDone" => walk.left = <<>>
  BY <1>1, ReadsScan
<1>3. WalkInv'
  <2>1. scan_generation' \in 0..generation'
    <3>1. generation \in 0..MaxGeneration
      BY <1>1 DEF BelowInv, UiCore, Books, SessionTypeOK
    <3> QED BY <1>2, <3>1
  <2> QED BY <1>1, <1>2, <2>1 DEF WalkInv
<1>4. Coming' = {}
  BY <1>1, <1>2, NoScan DEF Coming, Scanning
<1>5. kind = "ScanDone" => Coming = {}
  BY <1>2, EmptyElements DEF Coming
<1>6. scan_generation # 0
  BY <1>1 DEF Scanning
<1>7. ~drain_list /\ ~drain_mkdir /\ Now.mkdirs = <<>>
  BY <1>6, FlagsOff
<1>8. prompt \in {"None", "Choice"}
  BY <1>1, <1>6 DEF QuietInv, BelowInv
<1> QED BY <1>2, <1>3, <1>4, <1>5, <1>7, <1>8

LEMMA ScanErrorInv ==
  ASSUME DrainIInv, ScanError
  PROVE  DrainIInv' /\ StaysOut
<1>1. /\ ReceivesScan("ScanError", NoFile) /\ "ScanError" \in EndKinds
      /\ UNCHANGED <<in_flight, handle, prompt, io, errand>>
  BY DEF ScanError, EndKinds
<1>2. CASE ~Scanning
  <2>1. UNCHANGED drainVars /\ scan_generation' = scan_generation
    BY <1>2 DEF ScanError
  <2> QED BY <1>1, <1>2, <2>1, ScanIgnored
<1>3. CASE Scanning
  <2> DEFINE S == WaitsIn(Now)
  <2>1. /\ scan_generation' = 0 /\ drain_list' = FALSE /\ drain_mkdir' = FALSE
        /\ about' = about /\ Keeps(BatchEnds(Given(Now, S, "dropped")))
    BY <1>3 DEF ScanError, Cleared
  <2>2. /\ UNCHANGED <<io, errand, about, exists, original, pending_delete>>
        /\ UNCHANGED <<connVars, in_flight, handle, park, io, trustVars>> /\ prompt' = prompt
    BY <1>1, <2>1 DEF ReceivesScan, diskVars
  <2>3. /\ io_rx' \in Seq(Messages) /\ Fits(io_rx', io, in_flight) /\ SentOnce(io_rx, walk)'
        /\ WalkInv' /\ Coming' = {} /\ prompt \in {"None", "Choice"}
    BY <1>1, <1>3, <2>1, ScanCloses
  <2>4. BelowInv'
    BY <2>2, <2>3, ReadInv
  <2>5. /\ \A f \in File : f \in Coming' <=> f \in ToSet(pending_scan) \cup Coming /\ f \notin S
        /\ \A f \in File : f \in S => file[f].fate \notin {"skipped", "dropped"}
    <3>1. FilesFit(Now, Coming)
      BY DEF DrainIInv
    <3> QED BY <2>3, <3>1, Waiters
  <2>6. /\ scan_generation' # 0 => scan_generation # 0
        /\ prompt' \in {"None", "Choice"} /\ "dropped" \in {"parked", "dropped"}
    BY <2>1, <2>2, <2>3
  <2> HIDE DEF S
  <2> QED BY <2>1, <2>2, <2>3, <2>4, <2>5, <2>6, EndsInv
<1> QED BY <1>2, <1>3

LEMMA ScanDoneInv ==
  ASSUME DrainIInv, ScanDone
  PROVE  /\ DrainIInv' /\ StaysOut
         /\ Scanning /\ ~worker_cancel_requested => Onward(Now, Now')
<1>1. ReceivesScan("ScanDone", NoFile) /\ "ScanDone" \in EndKinds
  BY DEF ScanDone, EndKinds
<1>2. CASE ~Scanning
  <2>1. /\ UNCHANGED drainVars /\ scan_generation' = scan_generation
        /\ UNCHANGED <<in_flight, handle, prompt, io, errand>>
    BY <1>2 DEF ScanDone
  <2> QED BY <1>1, <1>2, <2>1, ScanIgnored
<1>3. ASSUME Scanning
      PROVE  /\ scan_generation' = 0
             /\ io_rx' \in Seq(Messages) /\ Fits(io_rx', io, in_flight) /\ SentOnce(io_rx, walk)'
             /\ WalkInv' /\ Coming' = {} /\ Coming = {} /\ prompt \in {"None", "Choice"}
             /\ ~drain_list /\ ~drain_mkdir /\ Now.mkdirs = <<>>
             /\ FilesFit(Now, Coming) /\ PolicyFits(Now)
  <2>1. scan_generation' = 0
    BY <1>3 DEF ScanDone
  <2> QED BY <1>1, <1>3, <2>1, ScanCloses DEF DrainIInv, PolicyInv
<1>4. CASE Scanning /\ worker_cancel_requested
  <2> DEFINE S == ToSet(pending_scan)
  <2>1. /\ Keeps(BatchEnds(Given(Now, S, "parked")))
        /\ UNCHANGED <<in_flight, handle, prompt, io, errand, drain_list, drain_mkdir, about>>
    BY <1>4 DEF ScanDone, Parked
  <2>2. /\ UNCHANGED <<io, errand, about, exists, original, pending_delete>>
        /\ UNCHANGED <<connVars, in_flight, handle, park, io, trustVars>> /\ prompt' = prompt
        /\ UNCHANGED <<drain_list, drain_mkdir, in_flight, generation>>
    BY <1>1, <2>1 DEF ReceivesScan, diskVars, connVars
  <2>3. BelowInv'
    BY <1>3, <1>4, <2>2, ReadInv
  <2>4. /\ \A f \in File : f \in Coming' <=> f \in ToSet(pending_scan) \cup Coming /\ f \notin S
        /\ \A f \in File : f \in S => file[f].fate \notin {"skipped", "dropped"}
    BY <1>3, <1>4, Waiters
  <2>5. /\ scan_generation' # 0 => scan_generation # 0
        /\ prompt' \in {"None", "Choice"} /\ "parked" \in {"parked", "dropped"}
    BY <1>3, <1>4, <2>2
  <2> HIDE DEF S
  <2> QED BY <1>3, <1>4, <2>1, <2>2, <2>3, <2>4, <2>5, EndsInv
<1>5. CASE Scanning /\ ~worker_cancel_requested
  <2>1. DrainFromKey(Now, prompt)
    BY <1>5 DEF ScanDone
  <2>2. /\ UNCHANGED <<connVars, park>> /\ UNCHANGED trustVars /\ UNCHANGED diskVars
        /\ UNCHANGED pending_delete /\ worker_cancel_requested' = Now.cancelled
    BY <1>1, NowFields DEF ReceivesScan
  <2>3. IsDrain(Now) /\ prompt \in {"None", prompt} /\ Final(Now, Now) /\ prompt \notin Questions
    BY <1>3, <1>5, NowFields DEF Final, Questions
  <2>4. FilesFit(Now, Coming')
    BY <1>3, <1>5
  <2> QED BY <1>3, <1>5, <2>1, <2>2, <2>3, <2>4, DrainFromKeyInv
<1> QED BY <1>2, <1>4, <1>5

-----------------------------------------------------------------------------
(* The steps of the scan.                                                  *)

LEMMA ScanSendsInv ==
  ASSUME DrainIInv, ScanFinds \/ ScanEnds \/ ScanFails
  PROVE  DrainIInv' /\ StaysOut
<1>1. /\ BelowInv /\ FrontInv /\ LooksInv /\ QuietInv /\ FilesFit(Now, Coming) /\ PolicyInv
      /\ WalkInv /\ SentOnce(io_rx, walk) /\ pending_delete \in Seq(File)
      /\ io_rx \in Seq(Messages) /\ Fits(io_rx, io, in_flight)
  BY DEF DrainIInv, BelowInv, UiCore, Books
<1>2. /\ walk.left \in Seq(File) /\ walk.pc \in {"idle", "walking", "over"}
      /\ walk = [pc |-> walk.pc, left |-> walk.left, upload |-> walk.upload,
                 generation |-> walk.generation]
      /\ walk.upload \in BOOLEAN /\ walk.generation \in Nat
  BY <1>1 DEF WalkInv
<1>3. \E m \in Messages :
        /\ walk.pc = "walking" /\ io_rx' = Append(io_rx, m) /\ m.kind \notin Own
        /\ walk'.generation = walk.generation
        /\ walk' \in [pc : {"idle", "walking", "over"}, left : Seq(File), upload : BOOLEAN,
                      generation : Nat]
        /\ \/ /\ m.kind = "ScanItem" /\ walk.left # <<>>
              /\ m.task = Head(walk.left) /\ walk'.left = Tail(walk.left) /\ walk'.pc = walk.pc
           \/ /\ m.kind \in EndKinds /\ walk'.left = walk.left /\ walk'.pc = "over"
              /\ m.kind = "ScanDone" => walk.left = <<>>
  <2>1. CASE ScanFinds
    <3> DEFINE m == Message("ScanItem", Head(walk.left))
               l == Tail(walk.left)
    <3>1. /\ walk.left # <<>> /\ io_rx' = Append(io_rx, m) /\ walk.pc = "walking"
          /\ walk' = [walk EXCEPT !.left = l]
      BY <2>1 DEF ScanFinds, ScanSends
    <3>2. Head(walk.left) \in File /\ l \in Seq(File)
      BY <1>2, <3>1, TailElements
    <3>3. m \in Messages
      BY <3>2, MessageTypes DEF ScanKinds
    <3>4. m.kind = "ScanItem" /\ m.task = Head(walk.left) /\ m.kind \notin Own
      BY DEF Message, Own
    <3> HIDE DEF m, l
    <3>5. walk' = [pc |-> walk.pc, left |-> l, upload |-> walk.upload,
                   generation |-> walk.generation]
      BY <1>2, <3>1
    <3>6. /\ walk'.left = l /\ walk'.pc = walk.pc /\ walk'.generation = walk.generation
          /\ walk' \in [pc : {"idle", "walking", "over"}, left : Seq(File), upload : BOOLEAN,
                        generation : Nat]
      BY <1>2, <3>2, <3>5
    <3>7. walk'.left = Tail(walk.left)
      BY <3>6 DEF l
    <3> QED BY <3>1, <3>3, <3>4, <3>6, <3>7
  <2>2. ASSUME NEW kind \in EndKinds, ScanSends(Message(kind, NoFile), [walk EXCEPT !.pc = "over"]),
               kind = "ScanDone" => walk.left = <<>>
        PROVE  \E m \in Messages :
                 /\ walk.pc = "walking" /\ io_rx' = Append(io_rx, m) /\ m.kind \notin Own
                 /\ walk'.generation = walk.generation
                 /\ walk' \in [pc : {"idle", "walking", "over"}, left : Seq(File), upload : BOOLEAN,
                               generation : Nat]
                 /\ m.kind \in EndKinds /\ walk'.left = walk.left /\ walk'.pc = "over"
                 /\ m.kind = "ScanDone" => walk.left = <<>>
    <3> DEFINE m == Message(kind, NoFile)
    <3>1. io_rx' = Append(io_rx, m) /\ walk.pc = "walking" /\ walk' = [walk EXCEPT !.pc = "over"]
      BY <2>2 DEF ScanSends
    <3>2. m \in Messages /\ m.kind = kind
      BY MessageTypes DEF ScanKinds, Message
    <3> HIDE DEF m
    <3>3. walk' = [pc |-> "over", left |-> walk.left, upload |-> walk.upload,
                   generation |-> walk.generation]
      BY <1>2, <3>1
    <3>4. /\ walk'.left = walk.left /\ walk'.pc = "over" /\ walk'.generation = walk.generation
          /\ walk' \in [pc : {"idle", "walking", "over"}, left : Seq(File), upload : BOOLEAN,
                        generation : Nat]
      BY <1>2, <3>3
    <3>5. m.kind \notin Own
      BY <3>2 DEF Own, EndKinds
    <3> QED BY <2>2, <3>1, <3>2, <3>4, <3>5
  <2>3. CASE ScanEnds
    <3>1. /\ "ScanDone" \in EndKinds /\ walk.left = <<>>
          /\ ScanSends(Message("ScanDone", NoFile), [walk EXCEPT !.pc = "over"])
      BY <2>3 DEF ScanEnds, EndKinds
    <3> QED BY <2>2, <3>1
  <2>4. CASE ScanFails
    <3>1. /\ "ScanError" \in EndKinds
          /\ ScanSends(Message("ScanError", NoFile), [walk EXCEPT !.pc = "over"])
      BY <2>4 DEF ScanFails, EndKinds
    <3> QED BY <2>2, <3>1
  <2> QED BY <2>1, <2>3, <2>4
<1>4. /\ UNCHANGED <<connVars, in_flight, handle, park, io, trustVars>> /\ prompt' = prompt
      /\ UNCHANGED <<drain_list, drain_mkdir, about, in_flight, io, generation, errand, original>>
      /\ UNCHANGED <<pending_scan, mkdir_queue, listed_dest_names>> /\ UNCHANGED drainVars
      /\ exists' = exists /\ pending_delete' = pending_delete /\ scan_generation' = scan_generation
      /\ connected' = connected /\ generation' = generation
      /\ UNCHANGED <<scan_delete_source, worker_cancel_requested>>
      /\ UNCHANGED <<worker_cancel_requested, original>>
  BY DEF ScanFinds, ScanEnds, ScanFails, ScanSends, connVars, diskVars, drainVars
<1>5. PICK m \in Messages :
        /\ walk.pc = "walking" /\ io_rx' = Append(io_rx, m) /\ m.kind \notin Own
        /\ walk'.generation = walk.generation
        /\ walk' \in [pc : {"idle", "walking", "over"}, left : Seq(File), upload : BOOLEAN,
                      generation : Nat]
        /\ \/ /\ m.kind = "ScanItem" /\ walk.left # <<>>
              /\ m.task = Head(walk.left) /\ walk'.left = Tail(walk.left) /\ walk'.pc = walk.pc
           \/ /\ m.kind \in EndKinds /\ walk'.left = walk.left /\ walk'.pc = "over"
              /\ m.kind = "ScanDone" => walk.left = <<>>
  BY <1>3
<1>6. io_rx' \in Seq(Messages) /\ Fits(io_rx', io, in_flight)
  BY <1>1, <1>5, AppendParts, FitsForeign
<1>7. SentOnce(io_rx, walk)'
  BY <1>1, <1>2, <1>5, SentAppend
<1>8. ToSet(walk.left) \cup Carried(io_rx) = ToSet(walk'.left) \cup Carried(io_rx')
  <2>1. Carried(io_rx') = IF m.kind = "ScanItem" THEN Carried(io_rx) \cup {m.task} ELSE Carried(io_rx)
    BY <1>1, <1>5, CarriedAppend
  <2>2. CASE m.kind = "ScanItem" /\ walk.left # <<>>
             /\ m.task = Head(walk.left) /\ walk'.left = Tail(walk.left)
    <3>1. ToSet(walk.left) = ToSet(walk'.left) \cup {m.task}
      BY <1>2, <2>2, TailElements
    <3> QED BY <2>1, <2>2, <3>1
  <2>3. CASE m.kind \in EndKinds /\ walk'.left = walk.left
    BY <2>1, <2>3 DEF EndKinds
  <2> QED BY <1>5, <2>2, <2>3
<1>9. WalkInv' /\ Coming' = Coming
  <2>1. Scanning' = Scanning
    BY <1>4, <1>5 DEF Scanning
  <2>2. ~(connected /\ scan_generation = 0)
    BY <1>1, <1>5 DEF WalkInv, ScanIsOver
  <2> QED BY <1>1, <1>4, <1>5, <1>8, <2>1, <2>2 DEF WalkInv, Coming
<1>10. BelowInv'
  BY <1>4, <1>6, <1>7, <1>9, ReadInv
<1>11. FilesFit(Now, Coming)' /\ PolicyInv' /\ StaysOut
  BY <1>1, <1>4, <1>9, SameRecord
<1>12. FrontInv' /\ LooksInv' /\ QuietInv'
  BY <1>1, <1>4, FrontKept
<1> QED BY <1>1, <1>4, <1>6, <1>7, <1>9, <1>10, <1>11, <1>12 DEF DrainIInv

-----------------------------------------------------------------------------
(* The tasks, and a listing that a key asks for.                           *)

(* The looks of a step that leaves the drain's own state alone. *)
LEMMA LooksKept ==
  ASSUME LooksInv, NEW t \in IoTask, NEW r, ErrandIs(r),
         errand' = [errand EXCEPT ![t] = r] \/ errand' = errand,
         UNCHANGED <<exists, original, drain_list, about, prompt, listed_dest_names, generation>>,
         \A u \in IoTask \ {t} : io'[u] = io[u],
         drain_list /\ Current(t)' =>
           /\ errand'[t].kind = "list" /\ errand'[t].file = about
           /\ io'[t].ok => SawAll(about, errand'[t].found)
  PROVE  LooksInv'
<1>1. /\ original \subseteq exists /\ \A e \in original : e = <<e[1], e[2]>>
      /\ errand = [u \in IoTask |-> errand[u]] /\ \A u \in IoTask : ErrandIs(errand[u])
      /\ drain_list => \A u \in IoTask : Current(u) =>
           /\ errand[u].kind = "list" /\ errand[u].file = about
           /\ io[u].ok => SawAll(about, errand[u].found)
      /\ prompt \in Questions /\ about \in Upload => SawAll(about, listed_dest_names)
  BY DEF LooksInv
<1>2. /\ errand' = [u \in IoTask |-> errand'[u]] /\ \A u \in IoTask : ErrandIs(errand'[u])
      /\ \A u \in IoTask \ {t} : errand'[u] = errand[u]
  <2>1. CASE errand' = errand
    BY <1>1, <2>1
  <2>2. CASE errand' = [errand EXCEPT ![t] = r]
    BY <2>2, ErrandChange
  <2> QED BY <2>1, <2>2
<1>3. \A f, names : SawAll(f, names)' = SawAll(f, names)
  BY DEF SawAll
<1>4. \A u \in IoTask \ {t} : Current(u)' <=> Current(u)
  BY DEF Current, Live
<1>5. (drain_list => \A u \in IoTask : Current(u) =>
         /\ errand[u].kind = "list" /\ errand[u].file = about
         /\ io[u].ok => SawAll(about, errand[u].found))'
  BY <1>1, <1>2, <1>3, <1>4
<1>6. \A u \in IoTask : ErrandIs(errand[u])'
  BY <1>2 DEF ErrandIs
<1> QED BY <1>1, <1>2, <1>3, <1>5, <1>6 DEF LooksInv

LEMMA StaleReportInv ==
  ASSUME DrainIInv, NEW t \in IoTask, StaleReport(t)
  PROVE  DrainIInv' /\ StaysOut
<1>1. /\ BelowInv /\ FrontInv /\ LooksInv /\ QuietInv /\ FilesFit(Now, Coming) /\ PolicyInv
      /\ WalkInv /\ SentOnce(io_rx, walk) /\ pending_delete \in Seq(File)
      /\ io_rx \in Seq(Messages) /\ UiCore /\ Books
  BY DEF DrainIInv, BelowInv, UiCore
<1>2. /\ StaleWorkDone(t) /\ errand' = [errand EXCEPT ![t] = NoErrand]
      /\ UNCHANGED scanVars /\ UNCHANGED drainVars /\ UNCHANGED diskVars
      /\ UNCHANGED <<worker_cancel_requested, original>> /\ pending_delete' = pending_delete
      /\ prompt' = prompt /\ in_flight' = in_flight /\ generation' = generation
      /\ connected' = connected
      /\ io_rx # <<>> /\ io_rx' = Tail(io_rx) /\ Head(io_rx).kind = "Done"
  BY DEF StaleReport, StaleWorkDone, DoneOf, Receives, connVars, diskVars
<1>3. UiCore'
  BY <1>1, <1>2, StaleCore
<1>4. io_rx' \in Seq(Messages) /\ WalkInv' /\ SentOnce(io_rx, walk)' /\ Coming' = Coming
  <2>1. ScanIdles
    BY <1>2 DEF ScanIdles, Own
  <2> QED BY <1>1, <2>1, ScanKept
<1>5. BelowInv'
  BY <1>1, <1>2, <1>3, <1>4 DEF BelowInv
<1>6. FilesFit(Now, Coming)' /\ PolicyInv' /\ StaysOut
  BY <1>1, <1>2, <1>4, SameRecord
<1>7. FrontInv' /\ QuietInv'
  BY <1>1, <1>2 DEF FrontInv, QuietInv, drainVars, scanVars
<1>8. LooksInv'
  <2>1. io'[t] = IdleIo /\ \A u \in IoTask \ {t} : io'[u] = io[u]
    BY <1>1, <1>2, StaleBooks DEF StaleWorkDone, Books, SessionTypeOK
  <2>2. ~Current(t)'
    BY <2>1 DEF Current, Live, IdleIo
  <2>3. ErrandIs(NoErrand)
    BY ErrandTypes
  <2> QED BY <1>1, <1>2, <2>1, <2>2, <2>3, LooksKept DEF drainVars, diskVars
<1> QED BY <1>1, <1>2, <1>4, <1>5, <1>6, <1>7, <1>8 DEF DrainIInv

LEMMA RelistPaneInv ==
  ASSUME DrainIInv, RelistPane
  PROVE  DrainIInv' /\ StaysOut
<1>1. /\ BelowInv /\ FrontInv /\ LooksInv /\ QuietInv /\ FilesFit(Now, Coming) /\ PolicyInv
      /\ pending_delete \in Seq(File) /\ io_rx \in Seq(Messages) /\ UiCore
  BY DEF DrainIInv, BelowInv
<1>2. PICK t \in IoTask : RequestList(t)
  BY DEF RelistPane
<1>3. /\ ~IoBusy /\ io[t].pc = "idle" /\ SpawnsInto(t, "List", handle, TRUE)
      /\ UNCHANGED connVars /\ UNCHANGED <<connVars, park>> /\ UNCHANGED trustVars
      /\ prompt' = prompt /\ io_rx' = io_rx
  BY <1>2 DEF RequestList
<1>4. /\ drain_list' = FALSE /\ prompt = "None" /\ UNCHANGED scanVars
      /\ UNCHANGED <<pending_scan, drain_mkdir, mkdir_queue, overwrite_policy,
                     listed_dest_names, file, about, leaked>>
      /\ UNCHANGED <<worker_cancel_requested, original>>
      /\ exists' = exists /\ errand' = errand /\ pending_delete' = pending_delete
  BY DEF RelistPane, diskVars
<1>5. io_rx' \in Seq(Messages) /\ WalkInv' /\ SentOnce(io_rx, walk)' /\ Coming' = Coming
  BY <1>3, <1>4, ScanAside
<1>6. UiCore'
  <2>1. Serves(t, handle)
    <3>1. "List" \in {"List", "Fs"} /\ TRUE \in BOOLEAN
      OBVIOUS
    <3> QED BY <1>3, <3>1 DEF Serves
  <2> QED BY <1>1, <1>3, <2>1, RequestCore
<1>7. BelowInv'
  BY <1>1, <1>3, <1>5, <1>6 DEF BelowInv, connVars
<1>8. /\ ~drain_list /\ ~drain_mkdir /\ mkdir_queue = <<>> /\ prompt \notin Questions
  BY <1>3, <1>4, FlagsOff, NowFields DEF Questions
<1>9. FilesFit(Now, Coming)' /\ PolicyInv' /\ StaysOut
  <2>1. drain_list' = drain_list
    BY <1>1, <1>4, <1>8 DEF QuietInv
  <2>2. UNCHANGED drainVars
    BY <1>4, <2>1 DEF drainVars
  <2> QED BY <1>1, <1>4, <1>5, <2>2, SameRecord
<1>10. QuietInv' /\ FrontInv'
  BY <1>1, <1>3, <1>4, <1>8 DEF QuietInv, FrontInv, scanVars
<1>11. LooksInv'
  BY <1>1, <1>3, <1>4, <1>8 DEF LooksInv, ErrandIs
<1> QED BY <1>1, <1>4, <1>5, <1>7, <1>9, <1>10, <1>11 DEF DrainIInv

(* What a task finds out. *)
LEMMA WorkFinds ==
  ASSUME LooksInv, NEW t \in IoTask, Work(t)
  PROVE  \E r : /\ ErrandIs(r)
                /\ errand' = [errand EXCEPT ![t] = r] \/ errand' = errand
                /\ errand[t].kind = "list" =>
                     /\ errand'[t].kind = "list" /\ errand'[t].file = errand[t].file
                     /\ errand'[t].found =
                          IF io[t].pc # "work" THEN errand[t].found
                          ELSE IF io'[t].ok THEN NamesAt(Place(errand[t].file)) ELSE {}
<1>1. ErrandIs(errand[t])
  BY DEF LooksInv
<1>2. ASSUME NEW x, errand' = [errand EXCEPT ![t].found = x]
      PROVE  LET r == [errand[t] EXCEPT !.found = x]
             IN  /\ ErrandIs(r) /\ errand' = [errand EXCEPT ![t] = r]
                 /\ errand'[t].kind = errand[t].kind /\ errand'[t].file = errand[t].file
                 /\ errand'[t].found = x
  <2> DEFINE r == [errand[t] EXCEPT !.found = x]
  <2>1. r = [kind |-> errand[t].kind, file |-> errand[t].file, found |-> x]
    BY <1>1 DEF ErrandIs
  <2>2. errand' = [errand EXCEPT ![t] = r]
    BY <1>2
  <2> HIDE DEF r
  <2>3. ErrandIs(r) /\ r.kind = errand[t].kind /\ r.file = errand[t].file /\ r.found = x
    BY <2>1 DEF ErrandIs
  <2>4. errand'[t] = r
    BY <2>2, <2>3, ErrandChange
  <2> QED BY <2>2, <2>3, <2>4 DEF r
<1>3. CASE io[t].pc = "work" /\ errand[t].kind = "list"
  <2> DEFINE x == IF io'[t].ok THEN NamesAt(Place(errand[t].file)) ELSE {}
  <2>1. errand' = [errand EXCEPT ![t].found = x]
    BY <1>3 DEF Work
  <2> HIDE DEF x
  <2>2. /\ ErrandIs([errand[t] EXCEPT !.found = x])
        /\ errand' = [errand EXCEPT ![t] = [errand[t] EXCEPT !.found = x]]
        /\ errand'[t].kind = errand[t].kind /\ errand'[t].file = errand[t].file
        /\ errand'[t].found = x
    BY <1>2, <2>1
  <2> QED BY <1>3, <2>2 DEF x
<1>4. CASE io[t].pc = "work" /\ errand[t].kind = "mkdir"
  <2>1. PICK x : errand' = [errand EXCEPT ![t].found = x]
    BY <1>4 DEF Work
  <2>2. /\ ErrandIs([errand[t] EXCEPT !.found = x])
        /\ errand' = [errand EXCEPT ![t] = [errand[t] EXCEPT !.found = x]]
    BY <1>2, <2>1
  <2> QED BY <1>4, <2>2
<1>5. CASE ~(io[t].pc = "work" /\ errand[t].kind \in {"list", "mkdir"})
  <2>1. errand' = errand
    BY <1>5 DEF Work
  <2> QED BY <1>1, <1>5, <2>1
<1> QED BY <1>3, <1>4, <1>5

LEMMA WorkInv ==
  ASSUME DrainIInv, NEW t \in IoTask, Work(t)
  PROVE  DrainIInv' /\ StaysOut
<1>1. /\ BelowInv /\ FrontInv /\ LooksInv /\ QuietInv /\ FilesFit(Now, Coming) /\ PolicyInv
      /\ WalkInv /\ SentOnce(io_rx, walk) /\ pending_delete \in Seq(File)
      /\ io_rx \in Seq(Messages) /\ UiCore /\ Books
  BY DEF DrainIInv, BelowInv, UiCore
<1>2. /\ IoStep(t) /\ UNCHANGED scanVars /\ UNCHANGED drainVars
      /\ UNCHANGED <<worker_cancel_requested, original>> /\ pending_delete' = pending_delete
      /\ exists' = exists
  BY DEF Work
<1>3. TaskMoves(t)
  BY <1>1, <1>2, TaskSteps
<1>4. UiCore'
  BY <1>1, <1>2, MessageTypes, IoStepCore
<1>5. /\ prompt' = prompt /\ in_flight' = in_flight /\ generation' = generation
      /\ connected' = connected /\ \A u \in IoTask \ {t} : io'[u] = io[u]
      /\ io'[t].kind = io[t].kind /\ io'[t].generation = io[t].generation
      /\ io_rx' = io_rx \/ io_rx' \in {Append(io_rx, Question(t)), Append(io_rx, Report(t))}
  BY <1>3 DEF TaskMoves, connVars
<1>6. io_rx' \in Seq(Messages) /\ WalkInv' /\ SentOnce(io_rx, walk)' /\ Coming' = Coming
  <2>1. ScanIdles
    BY <1>2, <1>5 DEF ScanIdles
  <2> QED BY <1>1, <2>1, ScanKept
<1>7. BelowInv'
  BY <1>1, <1>4, <1>5, <1>6 DEF BelowInv
<1>8. FilesFit(Now, Coming)' /\ PolicyInv' /\ StaysOut
  BY <1>1, <1>2, <1>6, SameRecord
<1>9. FrontInv' /\ QuietInv'
  BY <1>1, <1>2, <1>5 DEF FrontInv, QuietInv, drainVars, scanVars
<1>10. ASSUME drain_list, Current(t)'
       PROVE  /\ errand'[t].kind = "list" /\ errand'[t].file = about
              /\ io'[t].ok => SawAll(about, errand'[t].found)
  <2>1. Current(t)
    BY <1>5, <1>10 DEF Current, Live
  <2>2. /\ errand[t].kind = "list" /\ errand[t].file = about
        /\ io[t].ok => SawAll(about, errand[t].found)
    BY <1>1, <1>10, <2>1 DEF LooksInv
  <2>3. io[t].kind = "List"
    BY <1>1, <1>10, <2>1 DEF Books, CarrierInv, Carries, FrontInv
  <2>4. /\ errand'[t].kind = "list" /\ errand'[t].file = about
        /\ errand'[t].found = IF io[t].pc # "work" THEN errand[t].found
                              ELSE IF io'[t].ok THEN NamesAt(Place(about)) ELSE {}
    BY <1>1, <2>2, WorkFinds
  <2>5. CASE io[t].pc = "work"
    BY <1>1, <2>4, <2>5, DiskSeesAll
  <2>6. CASE io[t].pc # "work"
    <3>1. io'[t].ok = io[t].ok
      <4>1. io[t] \in IoTasks /\ io \in [IoTask -> IoTasks]
        BY <1>1 DEF Books, SessionTypeOK
      <4>2. ParkSession(t) \/ ReportIo(t)
        BY <1>1, <1>2, <2>3, <2>6, AskedIsCurrent
        DEF IoStep, CheckHostKey, AppendKnownHost, ConnectFails, Login, WorkEnds
      <4>3. PICK r \in {[io[t] EXCEPT !.pc = "report", !.session = NoSession], [io[t] EXCEPT !.pc = "sent"]} :
              io' = [io EXCEPT ![t] = r]
        BY <4>2 DEF ParkSession, ReportIo, Moves
      <4>4. r.ok = io[t].ok
        BY <4>1, <4>3 DEF IoTasks
      <4> QED BY <4>1, <4>3, <4>4
    <3> QED BY <2>2, <2>4, <2>6, <3>1
  <2> QED BY <2>4, <2>5, <2>6
<1>11. LooksInv'
  <2>1. PICK r : ErrandIs(r) /\ (errand' = [errand EXCEPT ![t] = r] \/ errand' = errand)
    BY <1>1, WorkFinds
  <2> QED BY <1>1, <1>2, <1>5, <1>10, <2>1, LooksKept DEF drainVars
<1> QED BY <1>1, <1>2, <1>6, <1>7, <1>8, <1>9, <1>11 DEF DrainIInv

-----------------------------------------------------------------------------
(* A transfer that is done.                                                *)

LEMMA DoneFields ==
  ASSUME NEW d, IsDrain(d), NEW f \in File, d.file \in [File -> Files]
  PROVE  LET e == [d EXCEPT !.file[f].fate = "done"]
         IN  /\ IsDrain(e) /\ SameBatch(d, e) /\ e.listed = d.listed /\ e.pending = d.pending
             /\ e.file \in [File -> Files] /\ e.file[f].fate = "done"
             /\ \A g \in File \ {f} : e.file[g] = d.file[g]
<1> DEFINE r == [d.file[f] EXCEPT !.fate = "done"]
           g == [d.file EXCEPT ![f] = r]
           e == [d EXCEPT !.file[f].fate = "done"]
<1>1. e = [d EXCEPT !.file = g]
  OBVIOUS
<1>2. "done" \in Fate /\ d.file[f] \in Files
  BY DEF Fate
<1>3. r \in Files /\ r.fate = "done"
  BY <1>2 DEF Files
<1> HIDE DEF r
<1>4. g \in [File -> Files] /\ g[f].fate = "done" /\ \A h \in File \ {f} : g[h] = d.file[h]
  BY <1>3
<1> HIDE DEF g, e
<1>5. e = [pending |-> d.pending, file |-> g, policy |-> d.policy, listed |-> d.listed,
           mkdirs |-> d.mkdirs, cancelled |-> d.cancelled, leaked |-> d.leaked]
  BY <1>1 DEF IsDrain
<1>6. IsDrain(e) /\ SameBatch(d, e) /\ e.listed = d.listed /\ e.pending = d.pending /\ e.file = g
  BY <1>5 DEF IsDrain, SameBatch
<1> QED BY <1>4, <1>6 DEF e

LEMMA DoneBecomes ==
  ASSUME DrainIInv, NEW f \in File, InQueue(f)
  PROVE  LET d == [Now EXCEPT !.file[f].fate = "done"]
         IN  /\ Becomes(d, d, Coming) /\ Final(Now, d) /\ d.pending = pending_scan /\ d.listed = listed_dest_names
             /\ d.mkdirs = mkdir_queue /\ d.cancelled = worker_cancel_requested
<1> DEFINE d == [Now EXCEPT !.file[f].fate = "done"]
<1>1. /\ IsDrain(Now) /\ FilesFit(Now, Coming) /\ PolicyFits(Now) /\ PolicyLasts(Now)
      /\ Now.file = file /\ Now.pending = pending_scan /\ Now.listed = listed_dest_names
      /\ Now.mkdirs = mkdir_queue /\ Now.cancelled = worker_cancel_requested
  BY NowFields DEF DrainIInv, PolicyInv
<1>2. Now.file \in [File -> Files] /\ Now.file[f].fate \notin {"waiting", "skipped", "dropped"}
  BY <1>1 DEF FilesFit, InQueue
<1>3. /\ IsDrain(d) /\ SameBatch(Now, d) /\ d.listed = Now.listed /\ d.pending = Now.pending
      /\ d.file \in [File -> Files] /\ d.file[f].fate = "done"
      /\ \A g \in File \ {f} : d.file[g] = Now.file[g]
  BY <1>1, <1>2, DoneFields
<1> HIDE DEF d
<1>4. FilesFit(d, Coming) /\ Final(Now, d)
  BY <1>1, <1>2, <1>3 DEF FilesFit, Final
<1>5. d.policy = Now.policy /\ d.mkdirs = Now.mkdirs /\ d.cancelled = Now.cancelled
      /\ d.leaked = Now.leaked
  BY <1>3 DEF SameBatch
<1>6. PolicyFits(d) /\ PolicyLasts(d)
  BY <1>1, <1>3, <1>5, Zenon DEF PolicyFits, PolicyLasts
<1>7. Becomes(d, d, Coming)
  BY <1>3, <1>4, <1>6, SameFiles DEF Becomes
<1> QED BY <1>1, <1>3, <1>4, <1>5, <1>7 DEF d

LEMMA TransferDoneInv ==
  ASSUME DrainIInv, NEW f \in File, TransferDone(f)
  PROVE  DrainIInv' /\ StaysOut
<1> DEFINE d == [Now EXCEPT !.file[f].fate = "done"]
           queue == IF file[f].delete_source THEN Append(pending_delete, f) ELSE pending_delete
<1>1. /\ BelowInv /\ FrontInv /\ LooksInv /\ QuietInv /\ FilesFit(Now, Coming) /\ PolicyInv
      /\ pending_delete \in Seq(File) /\ UiCore
  BY DEF DrainIInv, BelowInv
<1>2. /\ InQueue(f) /\ exists \subseteq exists' /\ io_rx' = io_rx
      /\ UNCHANGED <<connVars, park>> /\ UNCHANGED trustVars /\ UNCHANGED scanVars
      /\ UNCHANGED connVars /\ original' = original /\ generation' = generation
      /\ worker_cancel_requested' = worker_cancel_requested
  BY DEF TransferDone, connVars
<1>3. \/ /\ Keeps(d) /\ pending_delete' = queue
         /\ UNCHANGED <<in_flight, handle, io, errand, drain_list, drain_mkdir, about, prompt>>
      \/ /\ ~IoBusy
         /\ \E t \in IoTask :
              /\ io[t].pc = "idle"
              /\ \/ queue # <<>> /\ StartNextDelete(t, handle, d, queue)
                 \/ Relists(t, handle, d) /\ pending_delete' = pending_delete
  BY DEF TransferDone
<1>4. /\ Becomes(d, d, Coming) /\ d.pending = pending_scan /\ d.listed = listed_dest_names
      /\ d.mkdirs = mkdir_queue /\ d.cancelled = worker_cancel_requested
  BY <1>2, DoneBecomes
<1>8. Final(Now, d)
  BY <1>2, DoneBecomes
<1> HIDE DEF d
<1>5. queue \in Seq(File)
  BY <1>1, AppendElements
<1> HIDE DEF queue
<1>6. io_rx' \in Seq(Messages) /\ WalkInv' /\ SentOnce(io_rx, walk)' /\ Coming' = Coming
  BY <1>2, ScanAside
<1>7. Becomes(d, d, Coming')
  BY <1>4, <1>6
<1>9. CASE /\ Keeps(d) /\ pending_delete' = queue
           /\ UNCHANGED <<in_flight, handle, io, errand, drain_list, drain_mkdir, about, prompt>>
  <2>1. FilesFit(Now, Coming)' /\ PolicyInv' /\ StaysOut
    BY <1>2, <1>4, <1>7, <1>8, <1>9, KeepsFit
  <2>2. UNCHANGED <<connVars, in_flight, handle, park, io_rx, io, trustVars>>
    BY <1>2, <1>9
  <2>3. UiCore'
    BY <1>1, <1>9, <2>2, OtherPromptCore
  <2>4. BelowInv'
    BY <1>1, <1>2, <1>6, <1>9, <2>3 DEF BelowInv
  <2>5. UNCHANGED <<pending_scan, mkdir_queue, listed_dest_names>>
    BY <1>4, <1>9 DEF Keeps
  <2>6. /\ UNCHANGED <<drain_list, drain_mkdir, about, in_flight, io, generation, errand, original>>
        /\ scan_generation' # 0 => scan_generation # 0
        /\ prompt' \in Questions => prompt \in Questions
    BY <1>2, <1>9 DEF scanVars
  <2>7. FrontInv' /\ LooksInv' /\ QuietInv'
    BY <1>1, <1>2, <2>5, <2>6, FrontKept
  <2> QED BY <1>5, <1>6, <1>9, <2>1, <2>4, <2>7 DEF DrainIInv
<1>10. ASSUME ~IoBusy, NEW t \in IoTask, io[t].pc = "idle",
              \/ queue # <<>> /\ StartNextDelete(t, handle, d, queue)
              \/ Relists(t, handle, d) /\ pending_delete' = pending_delete
       PROVE  DrainIInv' /\ StaysOut
  <2>1. /\ ~drain_list /\ ~drain_mkdir /\ d.mkdirs = <<>> /\ (prompt \in Questions => Asked(d))
    <3>1. ~drain_list /\ ~drain_mkdir /\ Now.mkdirs = <<>>
      BY <1>10, FlagsOff
    <3>2. prompt \in Questions => Asked(Now)
      BY NowReady
    <3> QED BY <1>4, <3>1, <3>2, NowFields DEF Asked
  <2>2. Leaves(t, handle, d) /\ pending_delete' \in Seq(File)
    <3>1. CASE queue # <<>> /\ StartNextDelete(t, handle, d, queue)
      BY <1>5, <2>1, <3>1, DeleteLeaves
    <3>2. CASE Relists(t, handle, d) /\ pending_delete' = pending_delete
      BY <1>1, <2>1, <3>2, RelistLeaves
    <3> QED BY <1>10, <3>1, <3>2
  <2>3. Serves(t, handle) /\ prompt' # "HostKey"
    <3>1. prompt \in Prompting
      BY <1>1 DEF BelowInv, Prompting
    <3> QED BY <2>2, <3>1, LeavesServes
  <2>4. UiCore'
    BY <1>1, <1>2, <1>10, <2>3, RequestCore
  <2>5. handle \in 0..generation
    BY <1>1 DEF UiCore, Books, SessionTypeOK
  <2>6. scan_generation' # 0 => prompt \notin Questions
    BY <1>1, <1>2 DEF QuietInv, scanVars
  <2> QED BY <1>2, <1>4, <1>6, <1>7, <1>8, <2>2, <2>4, <2>5, <2>6, LeftInv
<1> QED BY <1>3, <1>9, <1>10

-----------------------------------------------------------------------------
(* The keys that ask for files.                                            *)

AskedFor(plain, S, move) ==
  [f \in File |-> IF f \in S THEN [file[f] EXCEPT !.fate = "waiting",
                                                 !.delete_source = move /\ f \in plain]
                            ELSE file[f]]

(* The record with the files in S asked for, the plain ones in front. *)
Enqueued(plain, S, move) ==
  [Now EXCEPT
     !.cancelled = FALSE,
     !.pending = SetToSeq(plain),
     !.file = [f \in File |->
                 IF f \in S THEN [@[f] EXCEPT !.fate = "waiting",
                                              !.delete_source = move /\ f \in plain]
                            ELSE @[f]]]

LEMMA EnqueuedFields ==
  ASSUME NEW plain, NEW S, NEW move \in BOOLEAN
  PROVE  LET d == Enqueued(plain, S, move)
         IN  /\ IsDrain(d) /\ ~d.cancelled /\ d.pending = SetToSeq(plain)
             /\ d.policy = overwrite_policy /\ d.listed = listed_dest_names
             /\ d.mkdirs = mkdir_queue /\ d.leaked = leaked
             /\ d.file = AskedFor(plain, S, move)
<1> DEFINE g == AskedFor(plain, S, move)
           c == FALSE
           q == SetToSeq(plain)
           d == Enqueued(plain, S, move)
<1>1. d = [Now EXCEPT !.cancelled = c, !.pending = q, !.file = g]
  BY NowFields DEF Enqueued, AskedFor
<1> HIDE DEF g, c, q, d
<1>2. d = [pending |-> q, file |-> g, policy |-> overwrite_policy, listed |-> listed_dest_names,
           mkdirs |-> mkdir_queue, cancelled |-> c, leaked |-> leaked]
  BY <1>1, NowFields DEF IsDrain
<1>3. /\ IsDrain(d) /\ d.cancelled = c /\ d.pending = q
      /\ d.policy = overwrite_policy /\ d.listed = listed_dest_names
      /\ d.mkdirs = mkdir_queue /\ d.leaked = leaked /\ d.file = g
  BY <1>2 DEF IsDrain
<1>4. ~c
  BY DEF c
<1>5. ~d.cancelled
  BY <1>3, <1>4
<1> QED BY <1>3, <1>5 DEF d, q, g

LEMMA FewFiles ==
  ASSUME NEW S, S \subseteq File
  PROVE  IsFiniteSet(S)
<1>1. IsFiniteSet(File)
  BY FileAssumption
<1> QED BY <1>1, FS_Subset

LEMMA EnqueuedFits ==
  ASSUME FilesFit(Now, {}), pending_scan = <<>>, NEW plain, NEW walked, NEW move \in BOOLEAN,
         plain \subseteq File, walked \subseteq File, plain \cap walked = {},
         \A f \in plain \cup walked : file[f].fate = "none"
  PROVE  LET d == Enqueued(plain, plain \cup walked, move)
         IN  FilesFit(d, walked) /\ Final(Now, d)
<1> DEFINE S == plain \cup walked
           d == Enqueued(plain, S, move)
<1>a. d.pending = SetToSeq(plain) /\ d.file = AskedFor(plain, S, move)
  BY EnqueuedFields
<1> HIDE DEF d
<1>1. /\ d.pending = SetToSeq(plain)
      /\ d.file = [f \in File |->
                     IF f \in S THEN [file[f] EXCEPT !.fate = "waiting",
                                                     !.delete_source = move /\ f \in plain]
                     ELSE file[f]]
  BY <1>a DEF AskedFor
<1>2. /\ file \in [File -> Files] /\ \A f \in File : file[f].fate # "waiting"
      /\ \A f \in File : file[f].fate \in {"free", "renamed"} => WasFree(f, file[f].name)
  BY EmptyElements, NowFields DEF FilesFit
<1>3. IsFiniteSet(plain)
  BY FewFiles
<1>4. /\ d.pending \in Seq(plain) /\ IsInjective(d.pending) /\ ToSet(d.pending) = plain
  BY <1>1, <1>3, SetToSeqElements
<1>5. d.pending \in Seq(File)
  BY <1>4, SeqGrows
<1>6. "waiting" \in Fate
  BY DEF Fate
<1>7. \A f \in File : f \in S => d.file[f] \in Files /\ d.file[f].fate = "waiting"
  <2> TAKE f \in File
  <2> HAVE f \in S
  <2> DEFINE b == move /\ f \in plain
  <2>1. b \in BOOLEAN /\ file[f] \in Files
    BY <1>2
  <2>2. d.file[f] = [file[f] EXCEPT !.fate = "waiting", !.delete_source = b]
    BY <1>1
  <2> HIDE DEF b
  <2>3. d.file[f] = [name |-> file[f].name, delete_source |-> b, fate |-> "waiting"]
    BY <2>1, <2>2 DEF Files
  <2>4. file[f].name \in Names
    BY <2>1 DEF Files
  <2> QED BY <1>6, <2>1, <2>3, <2>4 DEF Files
<1>8. \A f \in File : f \notin S => d.file[f] = file[f]
  BY <1>1
<1>9. d.file \in [File -> Files]
  <2>1. d.file = [f \in File |-> d.file[f]]
    BY <1>1
  <2> QED BY <1>2, <1>7, <1>8, <2>1
<1>10. \A f \in File : d.file[f].fate = "waiting" <=> f \in ToSet(d.pending) \cup walked
  BY <1>2, <1>4, <1>7, <1>8
<1>11. \A f \in File : d.file[f].fate \in {"free", "renamed"} => WasFree(f, d.file[f].name)
  BY <1>2, <1>7, <1>8
<1>12. Final(Now, d)
  BY <1>8, NowFields DEF Final
<1>13. FilesFit(d, walked)
  BY <1>4, <1>5, <1>9, <1>10, <1>11 DEF FilesFit
<1> QED BY <1>12, <1>13 DEF d

LEMMA EnqueueEntriesInv ==
  ASSUME DrainIInv, NEW S \in Batches, NEW move \in BOOLEAN, EnqueueEntries(S, move)
  PROVE  DrainIInv' /\ StaysOut /\ Onward(Enqueued(S \ InFolder, S, move), Now')
<1> DEFINE plain == S \ InFolder
           walked == S \cap InFolder
           d == Enqueued(plain, S, move)
<1>1. /\ BelowInv /\ FrontInv /\ LooksInv /\ QuietInv /\ FilesFit(Now, Coming) /\ PolicyInv
      /\ WalkInv /\ SentOnce(io_rx, walk)
      /\ pending_delete \in Seq(File) /\ io_rx \in Seq(Messages) /\ UiCore /\ generation # 0
  BY DEF DrainIInv, BelowInv
<1>2. /\ prompt = "None" /\ connected /\ ~DrainBusy /\ ~IoBusy
      /\ \A f \in S : file[f].fate = "none"
      /\ worker_cancel_requested' = FALSE /\ io_rx' = io_rx
      /\ UNCHANGED <<connVars, park>> /\ UNCHANGED trustVars /\ UNCHANGED diskVars
      /\ UNCHANGED connVars /\ UNCHANGED pending_delete
  BY DEF EnqueueEntries
<1>3. IF walked = {}
      THEN DrainFromKey(d, prompt) /\ UNCHANGED scanVars
      ELSE /\ Keeps(d)
           /\ scan_generation' = generation
           /\ scan_delete_source' = move
           /\ walk' = [pc |-> "walking", left |-> SetToSeq(walked),
                       upload |-> walked \subseteq Upload,
                       generation |-> generation]
           /\ UNCHANGED <<in_flight, io, handle, prompt, errand, drain_list,
                          drain_mkdir, about>>
  BY DEF EnqueueEntries, Enqueued
<1>4. /\ pending_scan = <<>> /\ scan_generation = 0 /\ ~drain_list /\ ~drain_mkdir
      /\ Coming = {} /\ mkdir_queue = <<>>
  BY <1>1, <1>2, NoScan DEF DrainBusy, FrontInv
<1>5. /\ plain \subseteq File /\ walked \subseteq File /\ plain \cap walked = {}
      /\ S = plain \cup walked
  BY FileAssumption
<1>6. /\ IsDrain(d) /\ ~d.cancelled /\ d.mkdirs = <<>> /\ d.policy = overwrite_policy
      /\ d.leaked = leaked /\ d.pending = SetToSeq(plain)
  BY <1>4, EnqueuedFields
<1>7. FilesFit(d, walked) /\ Final(Now, d)
  <2>1. FilesFit(Now, {})
    BY <1>1, <1>4
  <2>2. \A f \in plain \cup walked : file[f].fate = "none"
    BY <1>2, <1>5
  <2> HIDE DEF plain, walked
  <2>3. LET e == Enqueued(plain, plain \cup walked, move)
        IN  FilesFit(e, walked) /\ Final(Now, e)
    BY <1>4, <1>5, <2>1, <2>2, EnqueuedFits
  <2> QED BY <1>5, <2>3
<1>12. d = Enqueued(S \ InFolder, S, move)
  OBVIOUS
<1> HIDE DEF d
<1>8. PolicyFits(d)
  <2>1. overwrite_policy \in Policy
    BY <1>1, NowFields DEF PolicyInv, PolicyFits
  <2> QED BY <1>6, <2>1, Zenon DEF PolicyFits
<1>9. worker_cancel_requested' = d.cancelled
  <2>1. d.cancelled = FALSE
    BY <1>6 DEF IsDrain
  <2> QED BY <1>2, <2>1
<1>10. CASE walked = {}
  <2>1. DrainFromKey(d, prompt) /\ UNCHANGED scanVars
    BY <1>3, <1>10
  <2>2. io_rx' \in Seq(Messages) /\ WalkInv' /\ SentOnce(io_rx, walk)' /\ Coming' = {}
    BY <1>2, <1>4, <2>1, ScanAside
  <2>3. FilesFit(d, Coming')
    BY <1>7, <1>10, <2>2
  <2>4. scan_generation' = 0 /\ prompt \in {"None", prompt} /\ prompt \notin Questions
    BY <1>2, <1>4, <2>1 DEF scanVars, Questions
  <2>5. DrainIInv' /\ StaysOut /\ Onward(d, Now')
    BY <1>2, <1>4, <1>6, <1>7, <1>8, <1>9, <2>1, <2>2, <2>3, <2>4, DrainFromKeyInv
  <2> QED BY <1>12, <2>5
<1>11. CASE walked # {}
  <2>1. /\ Keeps(d) /\ scan_generation' = generation /\ scan_delete_source' = move
        /\ walk' = [pc |-> "walking", left |-> SetToSeq(walked),
                    upload |-> walked \subseteq Upload, generation |-> generation]
        /\ UNCHANGED <<in_flight, io, handle, prompt, errand, drain_list, drain_mkdir, about>>
    BY <1>3, <1>11
  <2>2. generation' = generation /\ connected' = connected /\ generation \in 0..MaxGeneration
    BY <1>1, <1>2 DEF connVars, UiCore, Books, SessionTypeOK
  <2>3. /\ SetToSeq(walked) \in Seq(File) /\ IsInjective(SetToSeq(walked))
        /\ ToSet(SetToSeq(walked)) = walked
    <3> HIDE DEF walked
    <3>1. IsFiniteSet(walked)
      BY <1>5, FewFiles
    <3>2. /\ SetToSeq(walked) \in Seq(walked) /\ IsInjective(SetToSeq(walked))
          /\ ToSet(SetToSeq(walked)) = walked
      BY <3>1, SetToSeqElements
    <3> QED BY <1>5, <3>2, SeqGrows
  <2> DEFINE left == SetToSeq(walked)
             upload == walked \subseteq Upload
  <2>4. upload \in BOOLEAN
    OBVIOUS
  <2> HIDE DEF left, upload
  <2>5. /\ walk' = [pc |-> "walking", left |-> left, upload |-> upload, generation |-> generation]
        /\ left \in Seq(File) /\ IsInjective(left) /\ ToSet(left) = walked
    BY <2>1, <2>3 DEF left, upload
  <2>6. walk'.left = left /\ walk'.pc = "walking" /\ walk'.generation = generation
    BY <2>5
  <2>7. WalkInv'
    <3>1. generation \in Nat /\ generation \in 0..generation
      BY <2>2, UiConstantsAssumption
    <3>2. walk' \in [pc : {"idle", "walking", "over"}, left : Seq(File), upload : BOOLEAN,
                     generation : Nat]
      BY <2>4, <2>5, <3>1
    <3>3. scan_generation' # 0 => Scanning'
      BY <2>1, <2>2, <2>6 DEF Scanning
    <3>4. walk'.generation <= generation'
      BY <2>2, <2>6, <3>1
    <3>5. scan_generation' # 0
      BY <1>1, <2>1
    <3> QED BY <2>1, <2>2, <3>1, <3>2, <3>3, <3>4, <3>5 DEF WalkInv
  <2>8. \A i \in 1..Len(io_rx) : io_rx[i].kind \notin ScanKinds
    BY <1>1, <1>2, <1>4 DEF WalkInv, ScanIsOver
  <2>9. SentOnce(io_rx, walk)'
    BY <1>2, <2>5, <2>6, <2>8 DEF SentOnce, ScanKinds, EndKinds
  <2>10. Coming' = walked
    <3>1. Carried(io_rx') = {}
      BY <1>2, <2>8 DEF Carried, ScanKinds
    <3>2. Scanning'
      BY <2>1, <2>2, <2>6 DEF Scanning
    <3> QED BY <2>5, <2>6, <3>1, <3>2 DEF Coming
  <2>11. Becomes(d, d, Coming') /\ original' = original /\ exists' = exists
    <3>1. PolicyLasts(d)
      <4>1. overwrite_policy = DefaultPolicy \/ leaked
        BY <1>1, <1>4, NowFields DEF PolicyInv, PolicyLasts
      <4> QED BY <1>6, <4>1, Zenon DEF PolicyLasts
    <3>2. FilesFit(d, Coming') /\ Onward(d, d)
      BY <1>7, <2>10, SameFiles
    <3> QED BY <1>2, <1>6, <1>8, <3>1, <3>2 DEF Becomes, diskVars
  <2>12. FilesFit(Now, Coming)' /\ PolicyInv' /\ StaysOut /\ Onward(d, Now')
    BY <1>7, <1>9, <2>1, <2>11, KeepsFit
  <2>13. UiCore'
    <3>1. UNCHANGED <<connVars, in_flight, handle, park, io_rx, io, trustVars>> /\ prompt' = prompt
      BY <1>2, <2>1
    <3> QED BY <1>1, <3>1, OtherPromptCore
  <2>14. BelowInv'
    BY <1>1, <1>2, <2>1, <2>2, <2>13 DEF BelowInv
  <2>15. mkdir_queue' = <<>> /\ prompt' \notin Questions /\ ~drain_list' /\ ~drain_mkdir'
    BY <1>2, <1>4, <1>6, <2>1 DEF Keeps, Questions
  <2>16. QuietInv' /\ FrontInv'
    BY <1>1, <2>1, <2>15 DEF QuietInv, FrontInv
  <2>17. LooksInv'
    BY <1>1, <2>1, <2>11, <2>15 DEF LooksInv, ErrandIs
  <2> QED BY <1>1, <1>2, <1>12, <2>7, <2>9, <2>12, <2>14, <2>16, <2>17 DEF DrainIInv
<1> QED BY <1>10, <1>11

-----------------------------------------------------------------------------
(* The invariant.                                                          *)

LEMMA ConnectedCore == Connected => UiCore
<1> SUFFICES ASSUME Connected PROVE UiCore
  OBVIOUS
<1>1. /\ IdleIo.pc = "idle" /\ IdleIo.kind = "None" /\ IdleIo.generation = 0
      /\ IdleIo.session = 0 /\ IdleIo.remote \in BOOLEAN
  BY DEF IdleIo, NoSession
<1>2. /\ \A t \in IoTask : io[t] = IdleIo
      /\ in_flight = NotInFlight /\ generation = 1 /\ io_rx = <<>> /\ connected = TRUE
      /\ handle = 1 /\ Len(io_rx) = 0 /\ prompt = "None"
  BY DEF Connected
<1>3. SessionTypeOK
  <2>1. ConnTypeOK
    BY DEF Connected, ConnTypeOK
  <2>2. MaxGeneration \in Nat \ {0}
    BY UiConstantsAssumption, FileAssumption
  <2>3. generation \in 0..MaxGeneration /\ handle \in 0..generation /\ park \in 0..generation
    BY <1>2, <2>2 DEF Connected, NoSession
  <2>4. io \in [IoTask -> IoTasks]
    BY IdleType DEF Connected
  <2> QED BY <1>2, <2>1, <2>3, <2>4, NotInFlightType DEF SessionTypeOK
<1>4. TasksInv /\ ConnectsInv /\ CarrierInv /\ Fits(io_rx, io, in_flight)
  BY <1>1, <1>2, NotInFlightType
     DEF TasksInv, ConnectsInv, CarrierInv, Fits, Connecting, IoBusy, Current, Live
<1>5. PromptInv
  BY <1>2, NotInFlightType DEF PromptInv
<1>6. TrustInv
  BY <1>1, <1>2 DEF Connected, TrustInv
<1>7. SessionInv
  BY <1>1, <1>2, NotInFlightType DEF SessionInv, Connecting, Live, IoBusy
<1> QED BY <1>3, <1>4, <1>5, <1>6, <1>7 DEF UiCore, Books

LEMMA InitInv == Init => DrainIInv
<1> SUFFICES ASSUME Init PROVE DrainIInv
  OBVIOUS
<1>1. /\ Connected /\ pending_scan = <<>> /\ scan_generation = 0 /\ scan_delete_source = FALSE
      /\ walk = NoWalk /\ ~drain_list /\ ~drain_mkdir /\ mkdir_queue = <<>>
      /\ overwrite_policy = DefaultPolicy /\ worker_cancel_requested = FALSE
      /\ pending_delete = <<>> /\ original = exists /\ about = NoFile /\ leaked = FALSE
      /\ errand = [t \in IoTask |-> NoErrand]
      /\ file = [f \in File |-> [name |-> FileName(f), delete_source |-> FALSE,
                                 fate |-> "none"]]
  BY DEF Init
<1>2. io_rx = <<>> /\ prompt = "None" /\ generation = 1 /\ Len(io_rx) = 0
  BY <1>1 DEF Connected
<1>3. /\ walk.pc = "idle" /\ walk.left = <<>> /\ walk.generation = 0
      /\ walk \in [pc : {"idle", "walking", "over"}, left : Seq(File), upload : BOOLEAN,
                   generation : Nat]
  BY <1>1 DEF NoWalk
<1>4. BelowInv
  BY <1>1, <1>2, ConnectedCore DEF BelowInv
<1>5. Coming = {}
  BY <1>2, <1>3 DEF Coming, Scanning
<1>6. FilesFit(Now, Coming)
  <2>1. \A f \in File : file[f].fate = "none" /\ file[f] \in Files
    <3> TAKE f \in File
    <3>1. file[f] = [name |-> FileName(f), delete_source |-> FALSE, fate |-> "none"]
      BY <1>1
    <3>2. FileName(f) \in Names
      BY FileAssumption, StringNames
    <3>3. "none" \in Fate
      BY DEF Fate
    <3> QED BY <3>1, <3>2, <3>3 DEF Files
  <2>2. file \in [File -> Files]
    BY <1>1, <2>1
  <2>3. pending_scan \in Seq(File) /\ IsInjective(pending_scan) /\ ToSet(pending_scan) = {}
    BY <1>1, EmptyElements
  <2> QED BY <1>5, <2>1, <2>2, <2>3, NowFields DEF FilesFit
<1>7. PolicyInv
  <2>1. DefaultPolicy \in Policy
    BY FileAssumption DEF Policy
  <2> QED BY <1>1, <2>1, NowFields DEF PolicyInv, PolicyFits, PolicyLasts
<1>8. WalkInv
  <2>1. scan_delete_source \in BOOLEAN
    BY Zenon DEF Init
  <2>2. ScanIsOver(io_rx, walk)
    BY <1>2, <1>3 DEF ScanIsOver
  <2>3. walk.generation <= generation /\ scan_generation \in 0..generation
    BY <1>1, <1>2, <1>3
  <2> QED BY <1>1, <1>3, <2>1, <2>2, <2>3 DEF WalkInv
<1>9. SentOnce(io_rx, walk)
  BY <1>2, <1>3, EmptyElements DEF SentOnce
<1>10. QuietInv
  <2>1. drain_list \in BOOLEAN /\ drain_mkdir \in BOOLEAN
    BY Zenon DEF Init
  <2> QED BY <1>1, <1>2, <2>1 DEF QuietInv
<1>11. FrontInv
  BY <1>1, <1>2 DEF FrontInv, Questions
<1>12. LooksInv
  <2>1. \A e \in original : e = <<e[1], e[2]>>
    BY <1>1 DEF Init, Target
  <2>2. /\ errand = [t \in IoTask |-> errand[t]]
        /\ \A t \in IoTask : ErrandIs(errand[t])
    BY <1>1 DEF ErrandIs, NoErrand
  <2> QED BY <1>1, <1>2, <2>1, <2>2 DEF LooksInv, Questions
<1> QED BY <1>1, <1>4, <1>6, <1>7, <1>8, <1>9, <1>10, <1>11, <1>12 DEF DrainIInv

LEMMA HandleInv ==
  ASSUME DrainIInv, Handle
  PROVE  DrainIInv' /\ StaysOut
<1>1. CASE \E t \in IoTask : ListDoneForDrain(t) \/ ListDoneForPane(t) \/ FsDoneForDrain(t)
                             \/ FsDoneForPane(t) \/ StaleReport(t)
  <2> PICK t \in IoTask : ListDoneForDrain(t) \/ ListDoneForPane(t) \/ FsDoneForDrain(t)
                          \/ FsDoneForPane(t) \/ StaleReport(t)
    BY <1>1
  <2>1. CASE ListDoneForDrain(t)
    BY <2>1, ListDoneForDrainInv
  <2>2. CASE ListDoneForPane(t)
    BY <2>2, ListDoneForPaneInv
  <2>3. CASE FsDoneForDrain(t)
    BY <2>3, FsDoneForDrainInv
  <2>4. CASE FsDoneForPane(t)
    BY <2>4, FsDoneForPaneInv
  <2>5. CASE StaleReport(t)
    BY <2>5, StaleReportInv
  <2> QED BY <2>1, <2>2, <2>3, <2>4, <2>5
<1>2. CASE \E f \in File : ScanItem(f)
  BY <1>2, ScanItemInv
<1>3. CASE ScanDone
  BY <1>3, ScanDoneInv
<1>4. CASE ScanError
  BY <1>4, ScanErrorInv
<1> QED BY <1>1, <1>2, <1>3, <1>4 DEF Handle

(* A step of a key. *)
LEMMA KeysInv ==
  ASSUME DrainIInv,
         \/ \E S \in Batches, move \in BOOLEAN :
               (move => S \in Movable) /\ EnqueueEntries(S, move)
         \/ \E answer \in Answers : AnswerOverwrite(answer)
         \/ \E shown \in {"None", "Choice"} : AbortDrain(shown)
         \/ AskName \/ AskAgain
         \/ \E name \in NewNames : RenameFront(name)
         \/ RequestQuit \/ OpenChoice \/ CloseChoice \/ RelistPane
         \/ CancelTransfers \/ RetryTransfers \/ DisconnectEnds
  PROVE  DrainIInv' /\ StaysOut
<1>1. CASE \E S \in Batches, move \in BOOLEAN :
              (move => S \in Movable) /\ EnqueueEntries(S, move)
  BY <1>1, EnqueueEntriesInv
<1>2. CASE \E answer \in Answers : AnswerOverwrite(answer)
  BY <1>2, AnswerOverwriteInv
<1>3. CASE \E shown \in {"None", "Choice"} : AbortDrain(shown)
  BY <1>3, AbortDrainInv
<1>4. CASE AskName \/ AskAgain
  BY <1>4, AskNameInv, AskAgainInv
<1>5. CASE \E name \in NewNames : RenameFront(name)
  BY <1>5, RenameFrontInv
<1>6. CASE RequestQuit \/ OpenChoice \/ CloseChoice
  BY <1>6, ChoiceInv
<1>7. CASE RelistPane
  BY <1>7, RelistPaneInv
<1>8. CASE CancelTransfers \/ RetryTransfers
  BY <1>8, CancelTransfersInv, RetryTransfersInv
<1>9. CASE DisconnectEnds
  BY <1>9, DisconnectEndsInv
<1> QED BY <1>1, <1>2, <1>3, <1>4, <1>5, <1>6, <1>7, <1>8, <1>9

LEMMA StandStillInv ==
  ASSUME DrainIInv, UNCHANGED vars
  PROVE  DrainIInv' /\ StaysOut
<1>1. /\ BelowInv /\ FrontInv /\ LooksInv /\ QuietInv /\ FilesFit(Now, Coming) /\ PolicyInv
      /\ pending_delete \in Seq(File)
  BY DEF DrainIInv
<1>2. /\ prompt' = prompt /\ io_rx' = io_rx /\ UNCHANGED scanVars /\ UNCHANGED connVars
      /\ UNCHANGED drainVars /\ UNCHANGED diskVars /\ UNCHANGED errand
      /\ pending_delete' = pending_delete /\ worker_cancel_requested' = worker_cancel_requested
      /\ UNCHANGED <<connVars, in_flight, handle, park, io_rx, io, trustVars>>
  BY DEF vars, uiVars
<1>3. io_rx' \in Seq(Messages) /\ WalkInv' /\ SentOnce(io_rx, walk)' /\ Coming' = Coming
  BY <1>2, ScanAside
<1>4. UiCore'
  BY <1>1, <1>2, OtherPromptCore DEF BelowInv
<1>5. BelowInv'
  BY <1>1, <1>2, <1>3, <1>4 DEF BelowInv, connVars
<1>6. FrontInv' /\ LooksInv' /\ QuietInv'
  BY <1>1, <1>2, FrontKept DEF drainVars, scanVars, connVars, diskVars
<1>7. \A f, name : WasFree(f, name)' <=> WasFree(f, name)
  BY <1>2 DEF WasFree, diskVars
<1>8. Now' = Now /\ file' = file
  BY <1>2 DEF Now, drainVars
<1>9. FilesFit(Now, Coming)'
  BY <1>1, <1>3, <1>7, <1>8 DEF FilesFit
<1>10. PolicyInv'
  BY <1>1, <1>8, Zenon DEF PolicyInv, PolicyFits, PolicyLasts
<1>11. StaysOut
  BY <1>8 DEF StaysOut
<1> QED BY <1>1, <1>2, <1>3, <1>5, <1>6, <1>9, <1>10, <1>11 DEF DrainIInv

LEMMA StepInv ==
  ASSUME DrainIInv, [Next]_vars
  PROVE  DrainIInv' /\ StaysOut
<1>1. CASE \E t \in IoTask : Work(t)
  BY <1>1, WorkInv
<1>2. CASE ScanFinds \/ ScanEnds \/ ScanFails
  BY <1>2, ScanSendsInv
<1>3. CASE Handle
  BY <1>3, HandleInv
<1>4. CASE \E f \in File : TransferDone(f)
  BY <1>4, TransferDoneInv
<1>5. CASE UNCHANGED vars
  BY <1>5, StandStillInv
<1> QED BY <1>1, <1>2, <1>3, <1>4, <1>5, KeysInv DEF Next

(* The invariant holds in every state, and what was skipped or given up    *)
(* stays so in every step.                                                 *)
THEOREM DrainInvariant == Spec => []DrainIInv /\ [][StaysOut]_vars
<1>1. DrainIInv /\ [Next]_vars => DrainIInv'
  BY StepInv
<1>2. DrainIInv /\ [Next]_vars => [StaysOut]_vars
  BY StepInv
<1> QED BY <1>1, <1>2, InitInv, PTL DEF Spec

(* What the drain has asked for, shown and sent is about the file in       *)
(* front: the answer of a listing (handle_drain_list_result), of a folder  *)
(* made (handle_drain_mkdir_result) and of the user                        *)
(* (apply_overwrite_choice) is never applied to another file, and a choice *)
(* for the rest is forgotten with its batch or was leaked.                 *)
THEOREM DrainInvHolds == Spec => []DrainInv
<1>1. ASSUME DrainIInv PROVE DrainInv
  <2>1. /\ BelowInv /\ FrontInv /\ LooksInv /\ QuietInv /\ FilesFit(Now, Coming) /\ PolicyInv
        /\ WalkInv /\ pending_delete \in Seq(File)
    BY <1>1 DEF DrainIInv
  <2>2. TypeOK
    <3>1. pending_scan \in Seq(File) /\ \A f \in File : file[f] \in Files
      BY <2>1, NowFields DEF FilesFit
    <3>2. \A f \in File : file[f].fate \in Fate /\ file[f].delete_source \in BOOLEAN
      BY <3>1 DEF Files
    <3>3. overwrite_policy \in Policy
      BY <2>1, NowFields DEF PolicyInv, PolicyFits
    <3>4. prompt \in {"None", "Choice", "Overwrite", "Rename"}
      BY <2>1 DEF BelowInv, Questions
    <3>5. /\ scan_generation \in 0..generation /\ scan_delete_source \in BOOLEAN
          /\ walk.pc \in {"idle", "walking", "over"} /\ walk.left \in Seq(File)
      BY <2>1 DEF WalkInv
    <3>6. drain_list \in BOOLEAN /\ drain_mkdir \in BOOLEAN /\ about \in File \cup {NoFile}
      BY <2>1 DEF QuietInv, FrontInv
    <3> QED BY <2>1, <3>1, <3>2, <3>3, <3>4, <3>5, <3>6 DEF TypeOK
  <2>3. BusyIsAnswered
    BY <2>1, AnsweredWhileBusy DEF BelowInv, UiCore
  <2>4. AnswersFitTheFront /\ FlagsFitTheReport
    BY <2>1 DEF FrontInv, AnswersFitTheFront, FlagsFitTheReport, Questions
  <2>5. FreshDrainUnlessLeaked
    BY <2>1, NowFields DEF PolicyInv, PolicyLasts, FreshDrainUnlessLeaked, DrainBusy
  <2> QED BY <2>2, <2>3, <2>4, <2>5 DEF DrainInv
<1> QED BY <1>1, DrainInvariant, PTL

LEMMA AtMostOne ==
  ASSUME NEW S, \A x, y \in S : x = y
  PROVE  Cardinality(S) = IF S = {} THEN 0 ELSE 1
<1>1. CASE S = {}
  BY <1>1, FS_EmptySet
<1>2. CASE S # {}
  <2> PICK x \in S : TRUE
    BY <1>2
  <2>1. S = {x}
    OBVIOUS
  <2> QED BY <1>2, <2>1, FS_Singleton
<1> QED BY <1>1, <1>2

LEMMA OnceInSeq ==
  ASSUME NEW s \in Seq(File), IsInjective(s), NEW f
  PROVE  Cardinality({i \in 1..Len(s) : s[i] = f}) = IF f \in ToSet(s) THEN 1 ELSE 0
<1> DEFINE S == {i \in 1..Len(s) : s[i] = f}
<1>1. \A i, j \in S : i = j
  BY DEF IsInjective
<1>2. S = {} <=> f \notin ToSet(s)
  BY DEF ToSet
<1> HIDE DEF S
<1>3. Cardinality(S) = IF S = {} THEN 0 ELSE 1
  BY <1>1, AtMostOne
<1>4. Cardinality(S) = IF f \in ToSet(s) THEN 1 ELSE 0
  BY <1>2, <1>3
<1> QED BY <1>4 DEF S

LEMMA OnceInChannel ==
  ASSUME io_rx \in Seq(Messages), SentOnce(io_rx, walk), NEW f
  PROVE  Cardinality({i \in 1..Len(io_rx) : io_rx[i] = Message("ScanItem", f)})
           = IF f \in Carried(io_rx) THEN 1 ELSE 0
<1> DEFINE S == {i \in 1..Len(io_rx) : io_rx[i] = Message("ScanItem", f)}
<1>1. \A i \in 1..Len(io_rx) : io_rx[i].kind = "ScanItem" => io_rx[i] = Message("ScanItem", io_rx[i].task)
  <2> TAKE i \in 1..Len(io_rx)
  <2>1. io_rx[i] \in Messages
    BY ElementOfSeq
  <2> QED BY <2>1 DEF Messages, UiMessages, Own, Message
<1>2. \A i \in S : io_rx[i].kind = "ScanItem" /\ io_rx[i].task = f
  BY DEF Message
<1>3. \A i, j \in S : i = j
  BY <1>2 DEF SentOnce
<1>4. S = {} <=> f \notin Carried(io_rx)
  BY <1>1, <1>2 DEF Carried
<1> HIDE DEF S
<1>5. Cardinality(S) = IF S = {} THEN 0 ELSE 1
  BY <1>3, AtMostOne
<1>6. Cardinality(S) = IF f \in Carried(io_rx) THEN 1 ELSE 0
  BY <1>4, <1>5
<1> QED BY <1>6 DEF S

(* A file asked for is before the drain, in the channel or still to be     *)
(* scanned, in one place and there once, until it is queued, skipped or    *)
(* given up; no other file is in any of them (enqueue_entries,             *)
(* handle_scan_item, park_pending_scan).                                   *)
THEOREM FilesKept == Spec => []NoFileLost
<1>1. ASSUME DrainIInv PROVE NoFileLost
  <2>1. /\ BelowInv /\ FilesFit(Now, Coming) /\ WalkInv /\ SentOnce(io_rx, walk)
        /\ io_rx \in Seq(Messages)
    BY <1>1 DEF DrainIInv, BelowInv
  <2>2. /\ pending_scan \in Seq(File) /\ IsInjective(pending_scan)
        /\ ToSet(pending_scan) \cap Coming = {}
        /\ \A f \in File : file[f].fate = "waiting" <=> f \in ToSet(pending_scan) \cup Coming
    BY <2>1, NowFields DEF FilesFit
  <2>3. walk.left \in Seq(File) /\ IsInjective(walk.left)
    BY <2>1 DEF WalkInv, SentOnce
  <2>4. Carried(io_rx) \cap ToSet(walk.left) = {}
    BY <2>1 DEF Carried, SentOnce
  <2> SUFFICES ASSUME NEW f \in File
               PROVE  Places(f) = IF file[f].fate = "waiting" THEN 1 ELSE 0
    BY DEF NoFileLost
  <2> DEFINE waits == Cardinality({i \in 1..Len(pending_scan) : pending_scan[i] = f})
             left == Cardinality({i \in 1..Len(walk.left) : walk.left[i] = f})
             sent == Cardinality({i \in 1..Len(io_rx) : io_rx[i] = Message("ScanItem", f)})
  <2>5. waits = IF f \in ToSet(pending_scan) THEN 1 ELSE 0
    BY <2>2, OnceInSeq
  <2>6. left = IF f \in ToSet(walk.left) THEN 1 ELSE 0
    BY <2>3, OnceInSeq
  <2>7. sent = IF f \in Carried(io_rx) THEN 1 ELSE 0
    BY <2>1, OnceInChannel
  <2>8. Places(f) = waits + (IF Scanning THEN left + sent ELSE 0)
    BY DEF Places
  <2> HIDE DEF waits, left, sent
  <2>9. CASE Scanning
    <3>1. Coming = ToSet(walk.left) \cup Carried(io_rx)
      BY <2>9 DEF Coming
    <3> QED BY <2>2, <2>4, <2>5, <2>6, <2>7, <2>8, <2>9, <3>1
  <2>10. CASE ~Scanning
    <3>1. Coming = {}
      BY <2>10 DEF Coming
    <3> QED BY <2>2, <2>5, <2>8, <2>10, <3>1
  <2> QED BY <2>9, <2>10
<1> QED BY <1>1, DrainInvariant, PTL

(* A file is queued over what was at its destination when the program      *)
(* started by the user's word or the policy, unless nobody had looked: it  *)
(* waited when Ctrl+C was pressed, or its folder could not be listed. One  *)
(* that goes through as free or renamed has a name that was not taken      *)
(* there, whatever was transferred or renamed since (drain_scan_next,      *)
(* apply_auto_rename, apply_overwrite_rename, park_pending_scan,           *)
(* handle_drain_mkdir_result).                                             *)
THEOREM WordOrUnseen == Spec => []OverwritesOnWordOrUnseen
<1>1. ASSUME DrainIInv PROVE OverwritesOnWordOrUnseen
  <2>1. FilesFit(Now, Coming)
    BY <1>1 DEF DrainIInv
  <2>2. \A f \in File : file[f].fate \in {"free", "renamed"} => WasFree(f, file[f].name)
    BY <2>1, NowFields DEF FilesFit
  <2> QED BY <2>2 DEF WasFree, OverwritesOnWordOrUnseen, Unseen, InQueue, DestOf
<1> QED BY <1>1, DrainInvariant, PTL

(* A file that was skipped or given up is never transferred after all: no  *)
(* handler, retry or late report of a task or a scan brings it back.       *)
THEOREM SkippedForGood == Spec => SkipIsFinal
<1>1. [StaysOut]_vars =>
        [\A f \in File : file[f].fate \in {"skipped", "dropped"}
           => file'[f].fate = file[f].fate]_vars
  BY DEF StaysOut
<1> QED BY <1>1, DrainInvariant, PTL DEF SkipIsFinal

(* The drain keeps what the session promises: it comes back to the event   *)
(* loop after every listing and every folder made, and no key is trusted   *)
(* without a yes.                                                          *)
THEOREM DrainKeepsSession == Spec => [](SessionIsKept /\ TrustNeedsYes)
<1>1. DrainIInv => SessionIsKept /\ TrustNeedsYes
  BY DEF DrainIInv, BelowInv, UiCore, SessionInv, SessionIsKept, TrustInv, TrustNeedsYes
<1> QED BY <1>1, DrainInvariant, PTL

-----------------------------------------------------------------------------
(* What the user is promised of a batch.                                   *)

InQueueFates == {"free", "renamed", "allowed", "parked", "unlisted"}

LEMMA Meanings ==
  ASSUME NEW fate \in Fate
  PROVE  /\ Meaning[fate] = "new" <=> fate = "none"
         /\ Meaning[fate] = "open" <=> fate = "waiting"
         /\ Meaning[fate] = "clear" <=> fate \in {"free", "renamed"}
         /\ Meaning[fate] \in Batch!Queued <=> fate \in InQueueFates
         /\ Meaning[fate] \in Batch!Decided <=> fate \in Verdicts
<1>1. /\ Meaning["none"] = "new" /\ Meaning["waiting"] = "open" /\ Meaning["free"] = "clear"
      /\ Meaning["renamed"] = "clear" /\ Meaning["allowed"] = "over"
      /\ Meaning["parked"] = "unseen" /\ Meaning["unlisted"] = "unseen"
      /\ Meaning["skipped"] = "left" /\ Meaning["dropped"] = "left" /\ Meaning["done"] = "done"
  BY DEF Meaning
<1> QED BY <1>1 DEF Fate, Verdicts, InQueueFates, Batch!Queued, Batch!Decided

LEMMA MeaningOf ==
  /\ Meaning["parked"] = "unseen" /\ Meaning["dropped"] = "left" /\ Meaning["done"] = "done"
  /\ Meaning["none"] = "new" /\ Meaning["waiting"] = "open"
BY DEF Meaning

LEMMA BatchSet == \A q : Batch!ToSet(q) = ToSet(q)
BY DEF ToSet, Batch!ToSet

(* Where every batch step starts. *)
LEMMA BatchBooks ==
  ASSUME DrainIInv
  PROVE  /\ file \in [File -> Files] /\ pending_scan \in Seq(File)
         /\ \A f \in File : file[f].fate = "waiting" <=> f \in ToSet(pending_scan) \cup Coming
         /\ ToSet(pending_scan) \cap Coming = {}
<1>1. FilesFit(Now, Coming)
  BY DEF DrainIInv
<1> QED BY <1>1, NowFields DEF FilesFit

(* Files whose new fates are known get them. *)
LEMMA BatchGets ==
  ASSUME DrainIInv, DrainIInv', NEW S, S \subseteq File, NEW fates,
         \A f \in S : Meaning[file'[f].fate] \in fates,
         \A f \in File \ S : file'[f].fate = file[f].fate
  PROVE  Batch!Get(S, fates)
<1>1. /\ file' \in [File -> Files]
      /\ \A f \in File : file'[f].fate \in {"free", "renamed"} => WasFree(f, file[f].name)'
  <2>1. FilesFit(Now, Coming)' /\ Now'.file = file'
    BY DEF DrainIInv, Now
  <2> QED BY <2>1 DEF FilesFit
<1>2. \A f \in File : Meaning[file'[f].fate] = "clear" => file'[f].fate \in {"free", "renamed"}
  BY <1>1, Meanings DEF Files
<1>3. \A f \in File : Meaning[file'[f].fate] = "clear" =>
        ~(DestOf(f)' \in original' /\ ~IsCopy(file'[f].name))
  BY <1>1, <1>2 DEF WasFree, DestOf, Place
<1> QED BY <1>3 DEF Batch!Get

(* Nothing happens to the batch. *)
LEMMA BatchRests ==
  ASSUME pending_scan' = pending_scan, connected' = connected, original' = original,
         \A f \in File : file'[f].fate = file[f].fate /\ file'[f].name = file[f].name
  PROVE  UNCHANGED Batch!vars
BY DEF Batch!vars, DestOf

(* Names change for none but these files. *)
LEMMA SameTaken ==
  ASSUME NEW S, original' = original, \A f \in File \ S : file'[f].name = file[f].name
  PROVE  \A f \in File \ S :
           f \in {g \in File : DestOf(g) \in original /\ ~IsCopy(file[g].name)}' <=>
           f \in {g \in File : DestOf(g) \in original /\ ~IsCopy(file[g].name)}
BY DEF DestOf, Place

(* The drain goes on from record d: the files in front are decided. *)
LEMMA DrainDecides ==
  ASSUME DrainIInv, DrainIInv', original' = original, connected' = connected,
         NEW d, Onward(d, Now'), d.pending = pending_scan,
         \A f \in File : d.file[f].fate = file[f].fate,
         \A f \in File \ ToSet(pending_scan) : d.file[f] = file[f]
  PROVE  Batch!Next
<1>1. PICK n \in 0..Len(pending_scan) :
        /\ pending_scan' = SubSeq(pending_scan, n + 1, Len(pending_scan))
        /\ \A f \in File :
            /\ (\E i \in 1..n : pending_scan[i] = f) => file'[f].fate \in Verdicts
            /\ ~(\E i \in 1..n : pending_scan[i] = f) => file'[f] = d.file[f]
  BY DEF Onward, Advances, Now
<1> DEFINE S == {pending_scan[i] : i \in 1..n}
<1>2. pending_scan \in Seq(File) /\ S \subseteq ToSet(pending_scan) /\ S \subseteq File
  <2>1. pending_scan \in Seq(File) /\ ToSet(pending_scan) \subseteq File
    BY BatchBooks DEF ToSet
  <2>2. ToSet(pending_scan) = S \cup ToSet(SubSeq(pending_scan, n + 1, Len(pending_scan)))
    BY <2>1, SuffixElements
  <2> QED BY <2>1, <2>2
<1>3. \A f \in S : Meaning[file'[f].fate] \in Batch!Decided
  BY <1>1, <1>2, VerdictFates, Meanings
<1>4. \A f \in File \ S : file'[f] = d.file[f]
  BY <1>1
<1>5. Batch!Get(S, Batch!Decided)
  <2>1. \A f \in File \ S : file'[f].fate = file[f].fate
    BY <1>4
  <2> HIDE DEF S
  <2> QED BY <1>2, <1>3, <2>1, BatchGets
<1>6. \A f \in File \ ToSet(pending_scan) : file'[f].name = file[f].name
  BY <1>2, <1>4
<1>7. Batch!Decide(n)
  BY <1>1, <1>5, <1>6, SameTaken, BatchSet DEF Batch!Decide
<1> QED BY <1>1, <1>7 DEF Batch!Next

LEMMA NowDecides ==
  ASSUME DrainIInv, DrainIInv', original' = original, connected' = connected, Onward(Now, Now')
  PROVE  Batch!Next
BY DrainDecides, NowFields

(* Everything left waiting goes one way. *)
LEMMA GivenFiles ==
  ASSUME DrainIInv, NEW S, NEW fate, Keeps(BatchEnds(Given(Now, S, fate)))
  PROVE  /\ pending_scan' = <<>>
         /\ \A f \in File : f \in S => file'[f].fate = fate /\ file'[f].name = file[f].name
         /\ \A f \in File : f \notin S => file'[f] = file[f]
<1> DEFINE g == Given(Now, S, fate)
<1>1. /\ IsDrain(g) /\ g.pending = <<>>
      /\ g.file = [f \in File |-> IF f \in S THEN [file[f] EXCEPT !.fate = fate] ELSE file[f]]
  BY GivenFields, NowFields
<1> HIDE DEF g
<1>2. pending_scan' = <<>> /\ file' = g.file
  BY <1>1, EndFields DEF Keeps, g
<1>3. \A f \in File : f \in S => file'[f] = [file[f] EXCEPT !.fate = fate]
  BY <1>1, <1>2
<1>4. \A f \in File : file[f] \in Files
  BY BatchBooks
<1>5. \A r \in Files : [r EXCEPT !.fate = fate].fate = fate /\ [r EXCEPT !.fate = fate].name = r.name
  BY DEF Files
<1> QED BY <1>1, <1>2, <1>3, <1>4, <1>5

LEMMA BatchParks ==
  ASSUME DrainIInv, DrainIInv', original' = original, connected' = connected,
         NEW S, S \subseteq File, ToSet(pending_scan) \subseteq S,
         \A f \in S : file[f].fate = "waiting", pending_scan' = <<>>,
         \A f \in S : file'[f].fate = "parked" /\ file'[f].name = file[f].name,
         \A f \in File \ S : file'[f] = file[f]
  PROVE  Batch!Next
<1>1. \A f \in S : Meaning[file'[f].fate] \in {"unseen"} /\ Meaning[file[f].fate] = "open"
  BY MeaningOf
<1>2. Batch!Get(S, {"unseen"})
  BY <1>1, BatchGets
<1>3. \A f \in File : file'[f].name = file[f].name
  OBVIOUS
<1>4. {f \in File : DestOf(f) \in original /\ ~IsCopy(file[f].name)}' =
      {f \in File : DestOf(f) \in original /\ ~IsCopy(file[f].name)}
  BY <1>3 DEF DestOf
<1>5. S \subseteq Batch!With({"open"})
  BY <1>1 DEF Batch!With
<1>6. Batch!Park(S)
  BY <1>2, <1>4, <1>5, BatchSet DEF Batch!Park
<1> QED BY <1>6 DEF Batch!Next

LEMMA BatchGivenUp ==
  ASSUME DrainIInv, DrainIInv', original' = original, connected' = connected,
         Keeps(Cleared)
  PROVE  Batch!Next
<1> DEFINE S == WaitsIn(Now)
<1>1. /\ pending_scan' = <<>>
      /\ \A f \in File : f \in S => file'[f].fate = "dropped" /\ file'[f].name = file[f].name
      /\ \A f \in File : f \notin S => file'[f] = file[f]
  <2> HIDE DEF S
  <2> QED BY GivenFiles DEF Cleared, S
<1>2. S \subseteq File /\ S = Batch!With({"open"})
  BY BatchBooks, NowFields, Meanings DEF WaitsIn, Batch!With, Files
<1> HIDE DEF S
<1>3. \A f \in S : Meaning[file'[f].fate] \in {"left"}
  BY <1>1, <1>2, MeaningOf
<1>4. Batch!Get(S, {"left"})
  BY <1>1, <1>2, <1>3, BatchGets
<1>5. \A f \in File : file'[f].name = file[f].name
  BY <1>1
<1>6. {f \in File : DestOf(f) \in original /\ ~IsCopy(file[f].name)}' =
      {f \in File : DestOf(f) \in original /\ ~IsCopy(file[f].name)}
  BY <1>5 DEF DestOf
<1>7. Batch!GiveUp
  BY <1>1, <1>2, <1>4, <1>6 DEF Batch!GiveUp
<1> QED BY <1>7 DEF Batch!Next

(* A batch is asked for, and what comes before the first question decided. *)
LEMMA EnqueueAsks ==
  ASSUME DrainIInv, DrainIInv', NEW S \in Batches, NEW move \in BOOLEAN, EnqueueEntries(S, move)
  PROVE  Batch!Next
<1> DEFINE plain == S \ InFolder
           d == Enqueued(plain, S, move)
<1>1. /\ connected /\ pending_scan = <<>> /\ scan_generation = 0
      /\ \A f \in S : file[f].fate = "none"
      /\ UNCHANGED diskVars /\ UNCHANGED connVars
  BY DEF EnqueueEntries, DrainBusy
<1>2. original' = original /\ connected' = connected /\ Coming = {}
  BY <1>1, NoScan DEF DrainIInv, BelowInv, diskVars, connVars
<1>3. S \subseteq File /\ plain \subseteq File
  BY FileAssumption
<1>4. Onward(d, Now')
  BY EnqueueEntriesInv
<1>5. d.pending = SetToSeq(plain) /\ d.file = AskedFor(plain, S, move)
  BY EnqueuedFields
<1> HIDE DEF d, plain
<1>6. PICK n \in 0..Len(d.pending) :
        /\ pending_scan' = SubSeq(d.pending, n + 1, Len(d.pending))
        /\ \A f \in File :
            /\ (\E i \in 1..n : d.pending[i] = f) => file'[f].fate \in Verdicts
            /\ ~(\E i \in 1..n : d.pending[i] = f) => file'[f] = d.file[f]
  BY <1>4 DEF Onward, Advances, Now
<1>7. /\ file \in [File -> Files]
      /\ \A f \in File : file[f].fate # "waiting"
  BY <1>1, <1>2, BatchBooks, EmptyElements
<1>8. \A f \in S : d.file[f].fate = "waiting"
  <2> TAKE f \in S
  <2> DEFINE b == move /\ f \in plain
  <2>1. d.file[f] = [file[f] EXCEPT !.fate = "waiting", !.delete_source = b] /\ file[f] \in Files
    BY <1>3, <1>5, <1>7 DEF AskedFor
  <2> HIDE DEF b
  <2> QED BY <2>1 DEF Files
<1>9. \A f \in File \ S : d.file[f] = file[f]
  BY <1>5 DEF AskedFor
<1>10. /\ d.pending \in Seq(plain) /\ ToSet(d.pending) = plain
  BY <1>3, <1>5, FewFiles, SetToSeqElements
<1>11. \A i \in 1..n : d.pending[i] \in S
  BY <1>10 DEF plain
<1>12. \A f \in File \ S : file'[f] = file[f]
  BY <1>6, <1>9, <1>11
<1>13. \A f \in S : Meaning[file'[f].fate] \in {"open"} \cup Batch!Decided
  <2> TAKE f \in S
  <2>1. file'[f].fate \in Verdicts \/ file'[f].fate = "waiting"
    BY <1>3, <1>6, <1>8
  <2> QED BY <2>1, VerdictFates, Meanings, MeaningOf
<1>14. Batch!Get(S, {"open"} \cup Batch!Decided)
  BY <1>3, <1>12, <1>13, BatchGets
<1>15. ToSet(pending_scan') \subseteq {f \in S : Meaning[file'[f].fate] = "open"}
  <2>1. \A f \in ToSet(pending_scan') : f \in File /\ file'[f].fate = "waiting"
    <3>1. FilesFit(Now, Coming)' /\ Now'.file = file' /\ Now'.pending = pending_scan'
      BY DEF DrainIInv, Now
    <3>2. pending_scan' \in Seq(File)
      BY <3>1 DEF FilesFit
    <3>3. ToSet(pending_scan') \subseteq File
      BY <3>2 DEF ToSet
    <3>4. \A f \in File : file'[f].fate = "waiting" <=> f \in ToSet(pending_scan') \cup Coming'
      BY <3>1 DEF FilesFit
    <3> QED BY <3>3, <3>4
  <2> QED BY <1>7, <1>12, <2>1, MeaningOf
<1>16. Batch!With({"open"}) = {} /\ S \subseteq Batch!With({"new"})
  <2>1. \A f \in File : Meaning[file[f].fate] # "open"
    BY <1>7, Meanings DEF Files
  <2>2. \A f \in S : Meaning[file[f].fate] = "new"
    BY <1>1, MeaningOf
  <2> QED BY <1>3, <2>1, <2>2 DEF Batch!With
<1>17. \A f \in File \ S : file'[f].name = file[f].name
  BY <1>12
<1>18. ToSet(pending_scan') \subseteq
         {f \in S : [g \in File |-> Meaning[file[g].fate]]'[f] = "open"}
  BY <1>3, <1>15
<1>19. Batch!Ask(S)
  BY <1>1, <1>2, <1>14, <1>16, <1>17, <1>18, SameTaken, BatchSet DEF Batch!Ask
<1> QED BY <1>3, <1>19 DEF Batch!Next

(* The scan hands a file over. *)
LEMMA ScanItemFinds ==
  ASSUME DrainIInv, DrainIInv', NEW f \in File, ScanItem(f)
  PROVE  [Batch!Next]_Batch!vars
<1>1. /\ io_rx # <<>> /\ Head(io_rx) = Message("ScanItem", f)
      /\ original' = original /\ connected' = connected /\ io_rx \in Seq(Messages)
  BY DEF ScanItem, ReceivesScan, diskVars, connVars, DrainIInv, BelowInv
<1>2. CASE ~Scanning
  <2>1. UNCHANGED <<file, pending_scan>>
    BY <1>2 DEF ScanItem
  <2> QED BY <1>1, <2>1, BatchRests
<1>3. CASE Scanning
  <2>1. f \in Coming
    <3>1. Len(io_rx) \in Nat \ {0} /\ io_rx[1].kind = "ScanItem" /\ io_rx[1].task = f
      BY <1>1 DEF Message
    <3>2. f \in Carried(io_rx)
      BY <3>1 DEF Carried
    <3> QED BY <1>3, <3>2 DEF Coming
  <2>2. /\ file \in [File -> Files] /\ pending_scan \in Seq(File)
        /\ file[f].fate = "waiting" /\ f \notin ToSet(pending_scan) /\ file[f] \in Files
    BY <2>1, BatchBooks
  <2>3. CASE worker_cancel_requested
    <3>1. file' = [file EXCEPT ![f].fate = "parked"] /\ pending_scan' = pending_scan
      BY <1>3, <2>3 DEF ScanItem
    <3>2. pending_scan = <<>>
      BY <2>3, NowFields DEF DrainIInv, PolicyInv, PolicyFits
    <3>3. file'[f].fate = "parked" /\ file'[f].name = file[f].name
      BY <2>2, <3>1 DEF Files
    <3>4. \A g \in File \ {f} : file'[g] = file[g]
      BY <2>2, <3>1
    <3>5. ToSet(pending_scan) \subseteq {f} /\ {f} \subseteq File
      BY <3>2, EmptyElements
    <3> DEFINE S == {f}
    <3>6. /\ S \subseteq File /\ ToSet(pending_scan) \subseteq S
          /\ \A g \in S : file[g].fate = "waiting"
          /\ \A g \in S : file'[g].fate = "parked" /\ file'[g].name = file[g].name
          /\ \A g \in File \ S : file'[g] = file[g]
      BY <2>2, <3>3, <3>4, <3>5
    <3> HIDE DEF S
    <3> QED BY <1>1, <3>1, <3>2, <3>6, BatchParks
  <2>4. CASE ~worker_cancel_requested
    <3>1. /\ pending_scan' = Append(pending_scan, f)
          /\ file' = [file EXCEPT ![f].delete_source = scan_delete_source]
      BY <1>3, <2>4 DEF ScanItem
    <3>2. \A g \in File : file'[g].fate = file[g].fate /\ file'[g].name = file[g].name
      BY <2>2, <3>1 DEF Files
    <3>3. f \in Batch!With({"open"})
      BY <2>2, MeaningOf DEF Batch!With
    <3>4. [g \in File |-> Meaning[file[g].fate]]' = [g \in File |-> Meaning[file[g].fate]]
      BY <3>2
    <3>5. {g \in File : DestOf(g) \in original /\ ~IsCopy(file[g].name)}' =
          {g \in File : DestOf(g) \in original /\ ~IsCopy(file[g].name)}
      BY <1>1, <3>2 DEF DestOf
    <3>6. Batch!Find(f)
      BY <1>1, <2>2, <3>1, <3>3, <3>4, <3>5, BatchSet DEF Batch!Find
    <3> QED BY <3>6 DEF Batch!Next
  <2> QED BY <2>3, <2>4
<1> QED BY <1>2, <1>3

(* Ctrl+C, and the end of a scan under it. *)
LEMMA ParkedParks ==
  ASSUME DrainIInv, DrainIInv', original' = original, connected' = connected, Keeps(Parked)
  PROVE  Batch!Next
<1> DEFINE S == ToSet(pending_scan)
<1>1. /\ pending_scan' = <<>>
      /\ \A f \in File : f \in S => file'[f].fate = "parked" /\ file'[f].name = file[f].name
      /\ \A f \in File : f \notin S => file'[f] = file[f]
  <2> HIDE DEF S
  <2> QED BY GivenFiles DEF Parked, S
<1>2. S \subseteq File
  BY BatchBooks DEF ToSet
<1>3. \A f \in S : file[f].fate = "waiting"
  BY <1>2, BatchBooks
<1> HIDE DEF S
<1>4. ToSet(pending_scan) \subseteq S
  BY DEF S
<1> QED BY <1>1, <1>2, <1>3, <1>4, BatchParks

LEMMA DisconnectLeaves ==
  ASSUME DrainIInv, DrainIInv', DisconnectEnds
  PROVE  Batch!Next
<1> DEFINE S == {f \in File : InQueue(f)} \cup WaitsIn(Now)
<1>1. /\ connected /\ ~connected' /\ original' = original
      /\ Keeps(BatchEnds(Given(Now, S, "dropped")))
  BY DEF DisconnectEnds, Disconnect, DropsConnection, GivesUp, diskVars
<1>2. S \subseteq File /\ S = Batch!With({"open"} \cup Batch!Queued)
  <2>1. \A f \in File : file[f].fate \in Fate
    BY BatchBooks DEF Files
  <2>2. \A f \in File : f \in S <=> file[f].fate \in InQueueFates \/ file[f].fate = "waiting"
    BY NowFields DEF InQueue, WaitsIn, InQueueFates
  <2>3. \A f \in File : Meaning[file[f].fate] \in {"open"} \cup Batch!Queued <=>
          file[f].fate \in InQueueFates \/ file[f].fate = "waiting"
    BY <2>1, Meanings
  <2>4. S \subseteq File
    BY DEF WaitsIn
  <2> HIDE DEF S
  <2> QED BY <2>2, <2>3, <2>4 DEF Batch!With
<1> HIDE DEF S
<1>3. /\ pending_scan' = <<>>
      /\ \A f \in File : f \in S => file'[f].fate = "dropped" /\ file'[f].name = file[f].name
      /\ \A f \in File : f \notin S => file'[f] = file[f]
  BY <1>1, GivenFiles
<1>4. \A f \in S : Meaning[file'[f].fate] \in {"left"}
  BY <1>2, <1>3, MeaningOf
<1>5. Batch!Get(S, {"left"})
  BY <1>2, <1>3, <1>4, BatchGets
<1>6. \A f \in File : file'[f].name = file[f].name
  BY <1>3
<1>7. {f \in File : DestOf(f) \in original /\ ~IsCopy(file[f].name)}' =
      {f \in File : DestOf(f) \in original /\ ~IsCopy(file[f].name)}
  BY <1>1, <1>6 DEF DestOf
<1>8. Batch!Leave
  BY <1>1, <1>2, <1>3, <1>5, <1>7 DEF Batch!Leave
<1> QED BY <1>8 DEF Batch!Next

LEMMA TransferEnds ==
  ASSUME DrainIInv, DrainIInv', NEW f \in File, TransferDone(f)
  PROVE  Batch!Next
<1> DEFINE d == [Now EXCEPT !.file[f].fate = "done"]
           queue == IF file[f].delete_source THEN Append(pending_delete, f) ELSE pending_delete
<1>1. /\ InQueue(f) /\ connected /\ UNCHANGED connVars /\ original' = original
  BY DEF TransferDone
<1>2. Keeps(d)
  <2>1. \/ Keeps(d)
        \/ \E t \in IoTask : StartNextDelete(t, handle, d, queue) \/ Relists(t, handle, d)
    BY DEF TransferDone
  <2> HIDE DEF d, queue
  <2> QED BY <2>1 DEF StartNextDelete, Relists, Idles, Sends
<1>3. /\ file \in [File -> Files] /\ Now.file = file /\ Now.pending = pending_scan
      /\ IsDrain(Now)
  BY BatchBooks, NowFields
<1>4. /\ d.pending = pending_scan /\ d.file \in [File -> Files] /\ d.file[f].fate = "done"
      /\ \A g \in File \ {f} : d.file[g] = file[g]
  <2>1. Now.file \in [File -> Files]
    BY <1>3
  <2>2. /\ IsDrain(d) /\ SameBatch(Now, d) /\ d.listed = Now.listed /\ d.pending = Now.pending
        /\ d.file \in [File -> Files] /\ d.file[f].fate = "done"
        /\ \A g \in File \ {f} : d.file[g] = Now.file[g]
    BY <1>3, <2>1, DoneFields
  <2> HIDE DEF d
  <2> QED BY <1>3, <2>2
<1>5. d.file[f].name = file[f].name
  <2> DEFINE r == [file[f] EXCEPT !.fate = "done"]
  <2>1. r.name = file[f].name /\ file[f] \in Files
    BY <1>3 DEF Files
  <2>2. d.file[f] = r
    <3>1. d.file = [file EXCEPT ![f] = r]
      BY <1>3 DEF IsDrain
    <3> QED BY <1>3, <3>1
  <2> QED BY <2>1, <2>2
<1>6. pending_scan' = pending_scan /\ file' = d.file /\ connected' = connected
  BY <1>1, <1>2, <1>4 DEF Keeps, connVars
<1> HIDE DEF d
<1> DEFINE S == {f}
<1>7. /\ S \subseteq File /\ \A g \in S : Meaning[file'[g].fate] \in {"done"}
      /\ \A g \in File \ S : file'[g].fate = file[g].fate
  BY <1>4, <1>6, MeaningOf
<1>8. \A g \in File : file'[g].name = file[g].name
  BY <1>4, <1>5, <1>6
<1> HIDE DEF S
<1>9. Batch!Get(S, {"done"})
  BY <1>7, BatchGets
<1>10. {g \in File : DestOf(g) \in original /\ ~IsCopy(file[g].name)}' =
       {g \in File : DestOf(g) \in original /\ ~IsCopy(file[g].name)}
  BY <1>1, <1>8 DEF DestOf
<1>11. f \in Batch!With(Batch!Queued)
  <2>1. file[f].fate \in Fate /\ file[f].fate \in InQueueFates
    BY <1>1, <1>3 DEF Files, InQueue, InQueueFates
  <2> QED BY <2>1, Meanings DEF Batch!With
<1>12. Batch!Transfer(f)
  BY <1>1, <1>6, <1>9, <1>10, <1>11 DEF Batch!Transfer, S
<1> QED BY <1>12 DEF Batch!Next

(* The end of a scan. *)
LEMMA ScanEndsBatch ==
  ASSUME DrainIInv, DrainIInv', ScanDone \/ ScanError
  PROVE  [Batch!Next]_Batch!vars
<1>1. original' = original /\ connected' = connected
  BY DEF ScanDone, ScanError, ReceivesScan, diskVars, connVars
<1>2. CASE ~Scanning
  <2>1. UNCHANGED drainVars
    BY <1>2 DEF ScanDone, ScanError
  <2> QED BY <1>1, <2>1, BatchRests DEF drainVars
<1>3. CASE Scanning /\ ScanError
  <2>1. Keeps(Cleared)
    BY <1>3 DEF ScanError
  <2> QED BY <1>1, <2>1, BatchGivenUp
<1>4. CASE Scanning /\ ScanDone /\ worker_cancel_requested
  <2>1. Keeps(Parked)
    BY <1>4 DEF ScanDone
  <2> QED BY <1>1, <2>1, ParkedParks
<1>5. CASE Scanning /\ ScanDone /\ ~worker_cancel_requested
  <2>1. Onward(Now, Now')
    BY <1>5, ScanDoneInv
  <2> QED BY <1>1, <2>1, NowDecides
<1> QED BY <1>2, <1>3, <1>4, <1>5

LEMMA HandleKeepsBatch ==
  ASSUME DrainIInv, DrainIInv', Handle
  PROVE  [Batch!Next]_Batch!vars
<1>1. ASSUME NEW t \in IoTask, \/ ListDoneForDrain(t) \/ ListDoneForPane(t)
                               \/ FsDoneForDrain(t) \/ FsDoneForPane(t)
      PROVE  Batch!Next
  <2>1. Onward(Now, Now')
    BY <1>1, ListDoneForDrainInv, ListDoneForPaneInv, FsDoneForDrainInv, FsDoneForPaneInv
  <2>2. UNCHANGED diskVars /\ \E kind \in {"List", "Fs"} : TakesReport(kind, t)
    BY <1>1 DEF ListDoneForDrain, ListDoneForPane, FsDoneForDrain, FsDoneForPane
  <2>3. original' = original /\ connected' = connected
    BY <2>2 DEF TakesReport, diskVars, connVars
  <2> QED BY <2>1, <2>3, NowDecides
<1>2. ASSUME NEW t \in IoTask, StaleReport(t) PROVE UNCHANGED Batch!vars
  <2>1. UNCHANGED drainVars /\ original' = original /\ connected' = connected
    BY <1>2 DEF StaleReport, StaleWorkDone, diskVars, connVars
  <2> QED BY <2>1, BatchRests DEF drainVars
<1>3. ASSUME NEW f \in File, ScanItem(f) PROVE [Batch!Next]_Batch!vars
  BY <1>3, ScanItemFinds
<1>4. CASE ScanDone \/ ScanError
  BY <1>4, ScanEndsBatch
<1> QED BY <1>1, <1>2, <1>3, <1>4 DEF Handle

(* The keys that leave the files alone. *)
LEMMA KeysAside ==
  ASSUME \/ AskName \/ AskAgain \/ RequestQuit \/ OpenChoice \/ CloseChoice \/ RelistPane \/ RetryTransfers
  PROVE  UNCHANGED Batch!vars
<1>1. UNCHANGED <<pending_scan, file>> /\ original' = original /\ connected' = connected
  <2>1. CASE AskName \/ AskAgain \/ RequestQuit \/ OpenChoice \/ CloseChoice
    BY <2>1 DEF AskName, AskAgain, RequestQuit, OpenChoice, CloseChoice, Prompts, drainVars, diskVars, connVars
  <2>2. CASE RelistPane
    BY <2>2 DEF RelistPane, RequestList, diskVars, connVars
  <2>3. CASE RetryTransfers
    BY <2>3 DEF RetryTransfers, drainVars, diskVars, uiVars, connVars
  <2> QED BY <2>1, <2>2, <2>3
<1> QED BY <1>1, BatchRests

(* Every step of the drain is a step of its batch. *)
LEMMA BatchStep ==
  ASSUME DrainIInv, DrainIInv', [Next]_vars
  PROVE  [Batch!Next]_Batch!vars
<1>1. ASSUME NEW t \in IoTask, Work(t) PROVE UNCHANGED Batch!vars
  <2>1. connected' = connected
    BY <1>1 DEF Work, IoStep, CheckHostKey, AppendKnownHost, ConnectFails, Login, WorkEnds,
                ParkSession, ReportIo, Moves, connVars
  <2>2. UNCHANGED <<pending_scan, file>> /\ original' = original
    BY <1>1 DEF Work, drainVars
  <2> QED BY <2>1, <2>2, BatchRests
<1>2. CASE ScanFinds \/ ScanEnds \/ ScanFails
  <2>1. UNCHANGED <<pending_scan, file>> /\ original' = original /\ connected' = connected
    BY <1>2 DEF ScanFinds, ScanEnds, ScanFails, ScanSends, drainVars, diskVars, connVars
  <2> QED BY <2>1, BatchRests
<1>3. CASE Handle
  BY <1>3, HandleKeepsBatch
<1>4. CASE \E f \in File : TransferDone(f)
  BY <1>4, TransferEnds
<1>5. CASE \E S \in Batches, move \in BOOLEAN : (move => S \in Movable) /\ EnqueueEntries(S, move)
  BY <1>5, EnqueueAsks
<1>6. ASSUME NEW answer \in Answers, AnswerOverwrite(answer) PROVE Batch!Next
  <2>1. original' = original /\ connected' = connected
    BY <1>6 DEF AnswerOverwrite, diskVars, connVars
  <2> QED BY <1>6, <2>1, AnswerOverwriteInv, NowDecides
<1>7. ASSUME NEW shown \in {"None", "Choice"}, AbortDrain(shown) PROVE Batch!Next
  <2>1. original' = original /\ connected' = connected /\ Keeps(Cleared)
    BY <1>7 DEF AbortDrain, diskVars, connVars
  <2> QED BY <2>1, BatchGivenUp
<1>8. ASSUME NEW name \in NewNames, RenameFront(name) PROVE Batch!Next
  <2>1. original' = original /\ connected' = connected
    BY <1>8 DEF RenameFront, diskVars, connVars
  <2> QED BY <1>8, <2>1, RenameFrontInv, DrainDecides
<1>9. CASE AskName \/ AskAgain \/ RequestQuit \/ OpenChoice \/ CloseChoice \/ RelistPane \/ RetryTransfers
  BY <1>9, KeysAside
<1>10. CASE CancelTransfers
  <2>1. original' = original /\ connected' = connected /\ Keeps(Parked)
    BY <1>10 DEF CancelTransfers, diskVars, uiVars, connVars
  <2> QED BY <2>1, ParkedParks
<1>11. CASE DisconnectEnds
  BY <1>11, DisconnectLeaves
<1>12. CASE UNCHANGED vars
  <2>1. UNCHANGED <<pending_scan, file>> /\ original' = original /\ connected' = connected
    BY <1>12 DEF vars, drainVars, diskVars, uiVars, connVars
  <2> QED BY <2>1, BatchRests
<1> QED BY <1>1, <1>2, <1>3, <1>4, <1>5, <1>6, <1>7, <1>8, <1>9, <1>10, <1>11, <1>12 DEF Next

(* The drain implements what the user is promised of a batch (BatchLife):   *)
(* files are decided from the front of one line, once and for good, what    *)
(* was found clear goes nowhere where something was, and only what is       *)
(* queued is transferred, with scans, listings, questions and a cancel in   *)
(* any order (drain_scan_next, park_pending_scan, clear_scan_state).        *)
THEOREM BatchImplemented == Spec => ImplementsBatch
<1>1. Init => Batch!Init
  BY MeaningOf DEF Init, Connected, Batch!Init
<1>2. DrainIInv /\ DrainIInv' /\ [Next]_vars => [Batch!Next]_Batch!vars
  BY BatchStep
<1> QED BY <1>1, <1>2, DrainInvariant, PTL DEF Spec, ImplementsBatch, Batch!Spec
=============================================================================
