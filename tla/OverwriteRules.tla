--------------------------- MODULE OverwriteRules ---------------------------
(***************************************************************************)
(* What happens to one file of a scanned set: whether it is transferred,   *)
(* skipped, renamed or put to the user, under which name, and which        *)
(* folders have to be made for it.                                         *)
(*                                                                         *)
(* A name is a sequence: <<"a">> for a.txt, <<"a", 1>> for a-1.txt.  A     *)
(* path is the sequence of its components.                                 *)
(***************************************************************************)
EXTENDS Integers, SequencesExt

CONSTANT MaxSuffix      \* the last number tried, 9999 in the code

ASSUME SuffixAssumption == MaxSuffix \in Nat

Policy == {"Ask", "OverwriteAll", "SkipAll", "OverwriteNewer", "SkipNewer",
           "RenameNewer"}

-----------------------------------------------------------------------------
NoTime == -1

(* Newer only when both times are known.                                   *)
DestIsNewer(source, dest) == source # NoTime /\ dest # NoTime /\ dest > source

ResolveConflict(dest_exists, dest_newer, policy) ==
  CASE ~dest_exists -> "Enqueue"
    [] dest_exists /\ policy = "OverwriteAll" -> "Enqueue"
    [] dest_exists /\ policy = "SkipAll" -> "Skip"
    [] dest_exists /\ dest_newer /\ policy = "OverwriteNewer" -> "Enqueue"
    [] dest_exists /\ dest_newer /\ policy = "SkipNewer" -> "Skip"
    [] dest_exists /\ dest_newer /\ policy = "RenameNewer" -> "RenameAuto"
    [] OTHER -> "Prompt"

-----------------------------------------------------------------------------
(* uniquify_filename: the first free one of name, name-1, name-2, ...;     *)
(* when none is free, name-copy, free or not.                              *)
FreeSuffixes(name, taken) ==
  {n \in 1..MaxSuffix : Append(name, n) \notin taken}

Smallest(S) == CHOOSE n \in S : \A m \in S : n <= m

Uniquify(name, taken) ==
  IF name \notin taken THEN name
  ELSE IF FreeSuffixes(name, taken) = {} THEN Append(name, "copy")
  ELSE Append(name, Smallest(FreeSuffixes(name, taken)))

-----------------------------------------------------------------------------
(* remote_mkdir_chain: the folders from cwd down to parent.  A parent that *)
(* is not below cwd is taken as if it were.                                *)
BelowCwd(cwd, parent) ==
  IF IsPrefix(cwd, parent) THEN SubSeq(parent, Len(cwd) + 1, Len(parent)) ELSE parent

MkdirChain(cwd, parent) ==
  IF parent = cwd \/ parent = <<>> THEN <<>>
  ELSE LET rel == BelowCwd(cwd, parent)
       IN  [i \in 1..Len(rel) |-> cwd \o SubSeq(rel, 1, i)]
=============================================================================
