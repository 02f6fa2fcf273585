--------------------------- MODULE MCCounterLock ---------------------------
(* Instances of the counting programs for TLC. *)
EXTENDS CounterLock

CONSTANTS th1, th2, th3

ThreeThreads == {th1, th2, th3}
=============================================================================
