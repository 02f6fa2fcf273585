-------------------------- MODULE MCWorkerThreads --------------------------
(* The instance of WorkerThreads for TLC. *)
EXTENDS WorkerThreads

FewSizes == {-1, 0, 1, 2}
=============================================================================
