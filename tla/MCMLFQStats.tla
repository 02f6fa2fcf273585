----------------------------- MODULE MCMLFQStats -----------------------------
(* The instances of the scheduler, with the history of its statistics. *)
EXTENDS MCMLFQ, MLFQStats
=============================================================================
