---------------------------- MODULE MCWorkerPool ----------------------------
(* Model-checking instance of the transfer workers. *)
EXTENDS WorkerPool

JobTaskSymmetry == Permutations(Job) \cup Permutations(Task)
=============================================================================
