---------------------------- MODULE MCRemoteEdit ----------------------------
(* One remote file, MaxJob transfers.                                      *)
EXTENDS RemoteEdit
=============================================================================
