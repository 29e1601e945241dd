------------------------------ MODULE MCScreen ------------------------------
(***************************************************************************)
(* The parts of the screen for TLC, one at a time: `part' says which of    *)
(* them is used in a behaviour, and the others stay as they started.       *)
(***************************************************************************)
EXTENDS TextField, QueuePane, Panes, ListView, TLC

VARIABLE part

MCName == {<<46, 46>>, <<46, 98>>, <<97>>}
MCDirs == {<<46, 46>>, <<46, 98>>}
MCBytes == [n \in MCName |-> IF n = <<97>> THEN 1 ELSE 2]
MCListable == {S \in SUBSET MCName : <<46, 46>> \in S}
MCUsers == {{"arrange", "mark", "refresh"}, {"navigate", "refresh", "ask"},
            {"navigate", "arrange"}}

Symmetry == Permutations(Job)

screenVars == <<field, paneVars, filesVars, listVars, part>>

AtRest == /\ part # "files" => ~remote /\ user = {"navigate", "arrange"} /\ entries = <<<<46, 46>>>>
          /\ part # "list" => list_kind = "Pane" /\ row_count = 0

MCInit == /\ part \in {"text", "queue", "files", "list"}
          /\ TextInit /\ PaneInit /\ FilesInit /\ ListInit
          /\ AtRest

MCText == part = "text" /\ TextNext /\ UNCHANGED <<paneVars, filesVars, listVars, part>>
MCQueue == part = "queue" /\ PaneNext /\ UNCHANGED <<field, filesVars, listVars, part>>
MCFiles == part = "files" /\ FilesNext /\ UNCHANGED <<field, paneVars, listVars, part>>
MCList == part = "list" /\ ListNext /\ UNCHANGED <<field, paneVars, filesVars, part>>

MCNext == MCText \/ MCQueue \/ MCFiles \/ MCList

MCSpec == MCInit /\ [][MCNext]_screenVars
=============================================================================
