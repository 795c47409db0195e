------------------------------ MODULE JobTable ------------------------------
(***************************************************************************)
(* The eval_jobs table of internal/evalqueue/pool.go: one row per job and  *)
(* one operator per SQL statement of PoolExecutor.  Every statement is     *)
(* atomic in Postgres, so every operator is a single step; the handlers    *)
(* that string statements together live in EvalQueue and ContestRun.     *)
(*                                                                         *)
(* A claim token is a fresh random secret.  Only its identity matters, so  *)
(* the token of a job's n-th claim is the number n, and 0 is the empty     *)
(* claim_token_hash.                                                       *)
(***************************************************************************)
EXTENDS Naturals

CONSTANTS
  Jobs,         \* eval_jobs.id of every job ever submitted
  WorkerIds,    \* the ids worker processes claim under (WORKER_ID)
  Suites,       \* refs in the suite registry
  NoWorker,     \* worker_id = ''
  NoSuite,      \* suite_ref = ''
  MaxAttempts   \* eval_jobs.max_attempts

ASSUME MaxAttemptsAssumption == MaxAttempts \in Nat \ {0}
ASSUME NoWorkerAssumption    == NoWorker \notin WorkerIds
ASSUME NoSuiteAssumption     == NoSuite \notin Suites

VARIABLES
  status,     \* eval_jobs.status; "absent" before the row exists
  attempts,   \* eval_jobs.attempts
  worker,     \* eval_jobs.worker_id
  token,      \* eval_jobs.claim_token_hash
  lease,      \* lease_expires_at against now(): NULL, in the future, in the past
  suite,      \* eval_jobs.suite_ref
  created,    \* eval_jobs.created_at as a rank; 0 before the row exists
  clock       \* the last created_at rank handed out

jobVars == <<status, attempts, worker, token, lease, suite, created, clock>>

Status   == {"absent", "queued", "running", "done", "failed", "cancelled"}
Terminal == {"done", "failed", "cancelled"}

JobTypeOK ==
  /\ status   \in [Jobs -> Status]
  /\ attempts \in [Jobs -> 0..MaxAttempts]
  /\ worker   \in [Jobs -> WorkerIds \cup {NoWorker}]
  /\ token    \in [Jobs -> 0..MaxAttempts]
  /\ lease    \in [Jobs -> {"none", "live", "lapsed"}]
  /\ suite    \in [Jobs -> Suites \cup {NoSuite}]
  /\ created  \in [Jobs -> Nat]
  /\ clock    \in Nat

JobInit ==
  /\ status   = [j \in Jobs |-> "absent"]
  /\ attempts = [j \in Jobs |-> 0]
  /\ worker   = [j \in Jobs |-> NoWorker]
  /\ token    = [j \in Jobs |-> 0]
  /\ lease    = [j \in Jobs |-> "none"]
  /\ suite    = [j \in Jobs |-> NoSuite]
  /\ created  = [j \in Jobs |-> 0]
  /\ clock    = 0

-----------------------------------------------------------------------------
(* Reads. *)

(* VerifyClaim: the row is running, its lease is live and the hash matches. *)
ClaimVerifies(j, t) ==
  /\ status[j] = "running"
  /\ lease[j] = "live"
  /\ token[j] = t

(* The secret Claim draws: one the job never had. *)
FreshToken(j) == attempts[j] + 1

(* The rows Claim's subquery selects. *)
Claimable(j) ==
  /\ status[j] = "queued" \/ (status[j] = "running" /\ lease[j] = "lapsed")
  /\ attempts[j] < MaxAttempts

(* WHERE id = $1 AND worker_id = $2 AND status = 'running'. *)
HeldByAny(j, w) == status[j] = "running"   \* mutant: worker_id not compared

HeldBy(j, w) == status[j] = "running" /\ worker[j] = w

(* The rows ReapExpired's WHERE selects. *)
Reapable(j) ==
  /\ status[j] = "running"
  /\ lease[j] = "lapsed"
  /\ attempts[j] >= MaxAttempts

-----------------------------------------------------------------------------
(* Writes. *)

(* Leaving "running" blanks the claim: worker_id, claim_token_hash and      *)
(* lease_expires_at are reset by the statement that moves the status.       *)
Release(S, newStatus) ==
  /\ status' = [j \in Jobs |-> IF j \in S THEN newStatus[j] ELSE status[j]]
  /\ worker' = [j \in Jobs |-> IF j \in S THEN NoWorker ELSE worker[j]]
  /\ token'  = [j \in Jobs |-> IF j \in S THEN 0 ELSE token[j]]
  /\ lease'  = [j \in Jobs |-> IF j \in S THEN "none" ELSE lease[j]]
  /\ UNCHANGED <<attempts, suite, created, clock>>

(* Submit: a job may name a suite or leave the worker to derive one. *)
Submit(j, s) ==
  /\ status[j] = "absent"
  /\ status'  = [status EXCEPT ![j] = "queued"]
  /\ suite'   = [suite EXCEPT ![j] = s]
  /\ created' = [created EXCEPT ![j] = clock + 1]
  /\ clock'   = clock + 1
  /\ UNCHANGED <<attempts, worker, token, lease>>

Cancel(j) ==
  /\ status[j] \in {"queued", "running"}
  /\ Release({j}, [k \in Jobs |-> "cancelled"])

(* Claim under SKIP LOCKED: the oldest claimable row that no open           *)
(* transaction has locked.  A row locked by a statement running at the      *)
(* same moment stops being claimable when that statement commits, so only   *)
(* the locks a transaction keeps between its statements can be skipped.     *)
Claim(j, w, locked) ==
  /\ Claimable(j)
  /\ j \notin locked
  /\ \A k \in Jobs \ locked : Claimable(k) => created[j] <= created[k]
  /\ status'   = [status EXCEPT ![j] = "running"]
  /\ attempts' = [attempts EXCEPT ![j] = @ + 1]
  /\ worker'   = [worker EXCEPT ![j] = w]
  /\ token'    = [token EXCEPT ![j] = FreshToken(j)]
  /\ lease'    = [lease EXCEPT ![j] = "live"]
  /\ UNCHANGED <<suite, created, clock>>

(* Heartbeat extends the lease of a running row its worker still owns, a    *)
(* lapsed one too.                                                          *)
Heartbeat(j, w) ==
  /\ HeldBy(j, w)
  /\ lease' = [lease EXCEPT ![j] = "live"]
  /\ UNCHANGED <<status, attempts, worker, token, suite, created, clock>>

Complete(j, w) ==
  /\ HeldBy(j, w)
  /\ Release({j}, [k \in Jobs |-> "done"])

(* What Fail does to the status: back to the pool while attempts remain. *)
AfterFailEarly(j) ==   \* mutant: gives up one attempt early
  IF attempts[j] + 1 >= MaxAttempts THEN "failed" ELSE "queued"

AfterFailNever(j) == "queued"   \* mutant: a spent job goes back to the pool

AfterFail(j) == IF attempts[j] >= MaxAttempts THEN "failed" ELSE "queued"

Fail(j, w) ==
  /\ HeldBy(j, w)
  /\ Release({j}, [k \in Jobs |-> AfterFail(k)])

(* One sweep of ReapExpired takes every row it selects.  A row a            *)
(* transaction holds is waited for, so the sweep is not taken meanwhile.    *)
ReapExpired(locked) ==
  LET reaped == {j \in Jobs : Reapable(j)}
  IN  /\ reaped # {}
      /\ reaped \cap locked = {}
      /\ Release(reaped, [k \in Jobs |-> "failed"])

(* SetSuiteRef and RecordDerivedSuite: the same UPDATE by id alone. *)
SetSuiteRef(j, s) ==
  /\ suite' = [suite EXCEPT ![j] = s]
  /\ UNCHANGED <<status, attempts, worker, token, lease, created, clock>>

(* now() passes lease_expires_at. *)
LeaseLapses(j) ==
  /\ lease[j] = "live"
  /\ lease' = [lease EXCEPT ![j] = "lapsed"]
  /\ UNCHANGED <<status, attempts, worker, token, suite, created, clock>>
=============================================================================
