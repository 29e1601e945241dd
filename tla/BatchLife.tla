----------------------------- MODULE BatchLife -----------------------------
(***************************************************************************)
(* What the user is promised of the files asked for, with no scan, task,   *)
(* prompt or policy: they stand in one line and are decided from its front *)
(* only, each once and for good; one that is found clear does not go where *)
(* something was; all that is open can be queued unseen or given up at     *)
(* once; and only what is queued is ever transferred.  Drain implements    *)
(* this specification.                                                     *)
(***************************************************************************)
EXTENDS Naturals, SequencesExt

CONSTANT File

VARIABLES
  line,            \* the files that wait for their decision, the next in front
  fate,            \* of each file; an "open" one may still be on its way to the line
  taken,           \* the files with a name that was taken at their destination
  online

vars == <<line, fate, taken, online>>

Queued == {"clear", "over", "unseen"}

Decided == Queued \cup {"left"}

With(fates) == {f \in File : fate[f] \in fates}

Init ==
  /\ line = <<>>
  /\ fate = [f \in File |-> "new"]
  /\ taken \subseteq File
  /\ online = TRUE

(* The files in S get one of these fates, the others keep theirs.          *)
Get(S, fates) ==
  /\ \A f \in S : fate'[f] \in fates /\ (fate'[f] = "clear" => f \notin taken')
  /\ \A f \in File \ S : fate'[f] = fate[f]

(* A batch is asked for when no other is open; some of it may be decided   *)
(* at once.                                                                *)
Ask(S) ==
  /\ online
  /\ With({"open"}) = {}
  /\ S \subseteq With({"new"})
  /\ Get(S, {"open"} \cup Decided)
  /\ ToSet(line') \subseteq {f \in S : fate'[f] = "open"}
  /\ \A f \in File \ S : f \in taken' <=> f \in taken
  /\ UNCHANGED online

Find(f) ==
  /\ f \in With({"open"}) \ ToSet(line)
  /\ line' = Append(line, f)
  /\ UNCHANGED <<fate, taken, online>>

(* The first n files are decided.  The name of a file is settled while it  *)
(* waits.                                                                  *)
Decide(n) ==
  /\ line' = SubSeq(line, n + 1, Len(line))
  /\ Get({line[i] : i \in 1..n}, Decided)
  /\ \A f \in File \ ToSet(line) : f \in taken' <=> f \in taken
  /\ UNCHANGED online

(* What waits is queued unseen, with or without what is on its way.        *)
Park(S) ==
  /\ S \subseteq With({"open"}) /\ ToSet(line) \subseteq S
  /\ line' = <<>>
  /\ Get(S, {"unseen"})
  /\ UNCHANGED <<taken, online>>

GiveUp ==
  /\ line' = <<>>
  /\ Get(With({"open"}), {"left"})
  /\ UNCHANGED <<taken, online>>

Leave ==
  /\ online /\ ~online'
  /\ line' = <<>>
  /\ Get(With({"open"} \cup Queued), {"left"})
  /\ UNCHANGED taken

Transfer(f) ==
  /\ online
  /\ f \in With(Queued)
  /\ Get({f}, {"done"})
  /\ UNCHANGED <<line, taken, online>>

Next ==
  \/ \E n \in 0..Len(line) : Decide(n)
  \/ \E f \in File : Find(f) \/ Transfer(f)
  \/ \E S \in SUBSET File : Ask(S) \/ Park(S)
  \/ GiveUp \/ Leave

Spec == Init /\ [][Next]_vars
=============================================================================
