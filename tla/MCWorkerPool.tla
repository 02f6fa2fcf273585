---------------------------- MODULE MCWorkerPool ----------------------------
(* Instances of WorkerPool for TLC. *)
EXTENDS WorkerPool

AllSizes == {-1, 0, 2, 3}
TwoSizes == 1..2
=============================================================================
