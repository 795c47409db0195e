---------------------------- MODULE MCContestRun ----------------------------
(* Instances of ContestRun for TLC. *)
EXTENDS ContestRun, TLC

(* Every process under one id, as the replicas of a deployment are. *)
SameId == [p \in Procs |-> CHOOSE w \in WorkerIds : TRUE]
=============================================================================
