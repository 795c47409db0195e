----------------------------- MODULE MCEvalQueue ----------------------------
(* An instance of EvalQueue for TLC: two processes with a WORKER_ID each.   *)
(* A process that restarts claims under the name its predecessor had.       *)
EXTENDS EvalQueue, TLC

CONSTANTS p1, p2, w1, w2

OwnIds == p1 :> w1 @@ p2 :> w2
=============================================================================
