------------------------------ MODULE MCDrain ------------------------------
(* A download, an upload to the remote directory, and one in a folder.     *)
EXTENDS Drain

CONSTANTS d1, u1, u2

MCFileName(f) == IF f = d1 THEN <<"a">> ELSE <<"b">>

MCOtherNames == {<<"b", 1>>}

MCNewNames == {<<"b">>}
=============================================================================
