-------------------------- MODULE ConnectionLife --------------------------
(***************************************************************************)
(* What the user is promised of a connection: it is asked for, then made   *)
(* to the very server asked for or given up, and it lasts until it is      *)
(* dropped or another is asked for.                                        *)
(***************************************************************************)
CONSTANTS Server, NoServer

VARIABLES status, server

vars == <<status, server>>

Init == status = "off" /\ server = NoServer

Ask(s) == status' = "connecting" /\ server' = s

Succeed == status = "connecting" /\ status' = "on" /\ UNCHANGED server

GiveUp ==
  /\ status \in {"connecting", "on"}
  /\ status' = "off"
  /\ server' = NoServer

Next == (\E s \in Server : Ask(s)) \/ Succeed \/ GiveUp

Spec == Init /\ [][Next]_vars
===========================================================================
