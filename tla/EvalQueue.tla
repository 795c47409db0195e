----------------------------- MODULE EvalQueue ------------------------------
(***************************************************************************)
(* The eval job queue end to end: worker processes (internal/worker),      *)
(* their HTTP client with its retries (cli/client), and the handlers of    *)
(* internal/evalqueue/routes.go, over the table of JobTable.               *)
(*                                                                         *)
(* A handler first verifies the claim token, then writes.  The two are     *)
(* separate statements, and the client may have given up, retried, or      *)
(* crashed in between: a request keeps running on the server whatever its  *)
(* sender does.  The report handler alone opens a transaction, which holds *)
(* the row lock from its first write to its commit.                        *)
(***************************************************************************)
EXTENDS JobTable

CONSTANTS
  Procs,      \* worker processes
  WorkerOf,   \* the WORKER_ID each process claims under
  Handlers,   \* server goroutines that can serve a request at the same time
  NoJob       \* a process or a handler with nothing to do

ASSUME WorkerOfAssumption == WorkerOf \in [Procs -> WorkerIds]
ASSUME NoJobAssumption    == NoJob \notin Jobs

VARIABLES
  proc,     \* per process: what its run loop is doing, and under which claim
  handler,  \* per handler: the request it serves and how far it got
  scores,   \* per job: how many verified quality rows name it
  measured  \* per job: the suite its last quality row measured against

vars == <<jobVars, proc, handler, scores, measured>>

(* A run-loop state: RunOnce is between claims ("idle"), inside runJob      *)
(* ("running", and "pushing" in its PushSuite call), in PostReport          *)
(* ("reporting") or in FailJob ("failing").                                 *)
ProcState == [pc    : {"idle", "running", "pushing", "reporting", "failing"},
              job   : Jobs \cup {NoJob},
              token : 0..MaxAttempts,
              suite : Suites \cup {NoSuite}]

Idle == [pc |-> "idle", job |-> NoJob, token |-> 0, suite |-> NoSuite]

(* A request: sent by a worker, verified against the claim, and for a       *)
(* report, open once its transaction has locked the job's row.  worker and  *)
(* jobSuite are the columns VerifyClaim's Get read from the row.            *)
Request == [op       : {"none", "heartbeat", "fail", "push", "report"},
            phase    : {"sent", "verified", "open"},
            job      : Jobs \cup {NoJob},
            token    : 0..MaxAttempts,
            suite    : Suites \cup {NoSuite},
            worker   : WorkerIds \cup {NoWorker},
            jobSuite : Suites \cup {NoSuite}]

Free == [op |-> "none", phase |-> "sent", job |-> NoJob, token |-> 0,
         suite |-> NoSuite, worker |-> NoWorker, jobSuite |-> NoSuite]

TypeOK ==
  /\ JobTypeOK
  /\ proc    \in [Procs -> ProcState]
  /\ handler \in [Handlers -> Request]
  /\ scores  \in [Jobs -> Nat]
  /\ measured \in [Jobs -> Suites \cup {NoSuite}]

Init ==
  /\ JobInit
  /\ proc    = [p \in Procs |-> Idle]
  /\ handler = [h \in Handlers |-> Free]
  /\ scores  = [j \in Jobs |-> 0]
  /\ measured = [j \in Jobs |-> NoSuite]

(* The rows an open report transaction has locked. *)
Locked == {handler[h].job : h \in {g \in Handlers : handler[g].phase = "open"}}

-----------------------------------------------------------------------------
(* Operators of the server: no request of a worker is involved. *)

SubmitJob(j) ==
  /\ \E s \in Suites \cup {NoSuite} : Submit(j, s)
  /\ UNCHANGED <<proc, handler, scores, measured>>

CancelJob(j) ==
  /\ j \notin Locked
  /\ Cancel(j)
  /\ UNCHANGED <<proc, handler, scores, measured>>

Reap ==
  /\ ReapExpired(Locked)
  /\ UNCHANGED <<proc, handler, scores, measured>>

Lapse(j) ==
  /\ LeaseLapses(j)
  /\ UNCHANGED <<proc, handler, scores, measured>>

-----------------------------------------------------------------------------
(* The worker process. *)

(* POST claim commits in one statement.  A response the worker never gets   *)
(* (a dropped connection, or a 500 after the claim committed) leaves a      *)
(* running job nobody works on; the client retries and claims afresh.       *)
ClaimJob(p, j) ==
  /\ proc[p].pc = "idle"
  /\ Claim(j, WorkerOf[p], Locked)
  /\ \/ proc' = [proc EXCEPT ![p] = [pc |-> "running", job |-> j,
                                     token |-> FreshToken(j),
                                     suite |-> suite[j]]]
     \/ UNCHANGED proc
  /\ UNCHANGED <<handler, scores, measured>>

(* One HTTP attempt of the call the process is in.  The client re-sends the *)
(* same request after a timeout, a connection error or a 502/503/504.       *)
Send(p, h, op, s) ==
  /\ handler[h].op = "none"
  /\ handler' = [handler EXCEPT ![h] =
                   [Free EXCEPT !.op = op, !.job = proc[p].job,
                                !.token = proc[p].token, !.suite = s]]
  /\ UNCHANGED <<jobVars, proc, scores, measured>>

SendHeartbeat(p, h) ==
  /\ proc[p].pc \in {"running", "pushing"}
  /\ Send(p, h, "heartbeat", NoSuite)

SendPush(p, h) ==
  /\ proc[p].pc = "pushing"
  /\ Send(p, h, "push", proc[p].suite)

SendReport(p, h) ==
  /\ proc[p].pc = "reporting"
  /\ Send(p, h, "report", proc[p].suite)

SendFail(p, h) ==
  /\ proc[p].pc = "failing"
  /\ Send(p, h, "fail", NoSuite)

(* A job that names no suite has one derived, and pushed under its claim. *)
Derive(p) ==
  /\ proc[p].pc = "running"
  /\ proc[p].suite = NoSuite
  /\ \E s \in Suites : proc' = [proc EXCEPT ![p].suite = s, ![p].pc = "pushing"]
  /\ UNCHANGED <<jobVars, handler, scores, measured>>

(* The run ends with a report, once the job's suite is known. *)
FinishRun(p) ==
  /\ proc[p].pc = "running"
  /\ proc[p].suite # NoSuite
  /\ proc' = [proc EXCEPT ![p].pc = "reporting"]
  /\ UNCHANGED <<jobVars, handler, scores, measured>>

(* Any step of runJob errs, or PostReport gives up: RunOnce calls FailJob.  *)
RunErrs(p) ==
  /\ proc[p].pc \in {"running", "pushing", "reporting"}
  /\ proc' = [proc EXCEPT ![p].pc = "failing"]
  /\ UNCHANGED <<jobVars, handler, scores, measured>>

(* FailJob gives up and the loop goes on, or the process dies and restarts. *)
Forget(p) ==
  /\ proc[p].pc # "idle"
  /\ proc' = [proc EXCEPT ![p] = Idle]
  /\ UNCHANGED <<jobVars, handler, scores, measured>>

-----------------------------------------------------------------------------
(* The handlers. *)

(* The process is still waiting in the call request r belongs to. *)
Waiting(p, r) ==
  /\ proc[p].job = r.job
  /\ proc[p].token = r.token
  /\ CASE r.op = "heartbeat" -> proc[p].pc \in {"running", "pushing"}
       [] r.op = "push"      -> proc[p].pc = "pushing"
       [] r.op = "report"    -> proc[p].pc = "reporting"
       [] OTHER              -> proc[p].pc = "failing"

(* What the worker does with the response to r. *)
Receive(p, r, ok) ==
  CASE r.op = "push" /\ ok             -> [proc[p] EXCEPT !.pc = "running"]
    [] r.op = "heartbeat" /\ ok        -> proc[p]
    [] r.op = "fail" \/ ok             -> Idle
    [] OTHER                           -> [proc[p] EXCEPT !.pc = "failing"]

(* The response frees the handler and reaches the waiting process or not.   *)
Respond(h, ok) ==
  LET r == handler[h]
  IN  /\ handler' = [handler EXCEPT ![h] = Free]
      /\ \/ \E p \in Procs : /\ Waiting(p, r)
                             /\ proc' = [proc EXCEPT ![p] = Receive(p, r, ok)]
         \/ UNCHANGED proc

(* VerifyClaim passes.  It reads the row, then the hash: a row whose hash   *)
(* matches carried the same claim at the first read, so both are one step.  *)
(* A push also needs a job with no suite of its own, a report needs the     *)
(* job's suite unless the job names none.                                   *)
Verify(h) ==
  LET r == handler[h]
  IN  /\ r.op # "none" /\ r.phase = "sent"
      /\ ClaimVerifies(r.job, r.token)
      /\ r.op = "push" => suite[r.job] = NoSuite
      /\ r.op = "report" => suite[r.job] \in {NoSuite, r.suite}
      /\ handler' = [handler EXCEPT ![h].phase = "verified",
                                    ![h].worker = worker[r.job],
                                    ![h].jobSuite = suite[r.job]]
      /\ UNCHANGED <<jobVars, proc, scores, measured>>

(* 403, 409 or 422: the claim does not verify or the suite does not match.  *)
Refuse(h) ==
  LET r == handler[h]
  IN  /\ r.op # "none" /\ r.phase = "sent"
      /\ \/ ~ClaimVerifies(r.job, r.token)
         \/ r.op = "push" /\ suite[r.job] # NoSuite
         \/ r.op = "report" /\ suite[r.job] \notin {NoSuite, r.suite}
      /\ Respond(h, FALSE)
      /\ UNCHANGED <<jobVars, scores, measured>>

(* 500, a cancelled context or a server restart: an open transaction is     *)
(* rolled back, and nothing else was written yet.  A heartbeat that fails   *)
(* this way is only logged.                                                 *)
Abort(h) ==
  /\ handler[h].op # "none"
  /\ \/ handler[h].op # "heartbeat" /\ Respond(h, FALSE)
     \/ handler' = [handler EXCEPT ![h] = Free] /\ UNCHANGED proc
  /\ UNCHANGED <<jobVars, scores, measured>>

DoHeartbeat(h) ==
  LET r == handler[h]
  IN  /\ r.op = "heartbeat" /\ r.phase = "verified" /\ r.job \notin Locked
      /\ \/ Heartbeat(r.job, r.worker) /\ Respond(h, TRUE)
         \/ ~HeldBy(r.job, r.worker) /\ Respond(h, FALSE) /\ UNCHANGED jobVars
      /\ UNCHANGED <<scores, measured>>

DoFail(h) ==
  LET r == handler[h]
  IN  /\ r.op = "fail" /\ r.phase = "verified" /\ r.job \notin Locked
      /\ \/ Fail(r.job, r.worker) /\ Respond(h, TRUE)
         \/ ~HeldBy(r.job, r.worker) /\ Respond(h, FALSE) /\ UNCHANGED jobVars
      /\ UNCHANGED <<scores, measured>>

(* PutDerived: the suite row and the job's suite_ref in one transaction.    *)
DoPush(h) ==
  LET r == handler[h]
  IN  /\ r.op = "push" /\ r.phase = "verified" /\ r.job \notin Locked
      /\ SetSuiteRef(r.job, r.suite)
      /\ Respond(h, TRUE)
      /\ UNCHANGED <<scores, measured>>

(* The report's transaction has inserted the score and run Complete, which  *)
(* locks the row; the effects appear when it commits.                       *)
OpenReportUnchecked(h) ==   \* mutant: Complete's affected rows not checked
  LET r == handler[h]
  IN  /\ r.op = "report" /\ r.phase = "verified" /\ r.job \notin Locked
      /\ handler' = [handler EXCEPT ![h].phase = "open"]
      /\ UNCHANGED <<jobVars, proc, scores, measured>>

OpenReport(h) ==
  LET r == handler[h]
  IN  /\ r.op = "report" /\ r.phase = "verified" /\ r.job \notin Locked
      /\ HeldBy(r.job, r.worker)
      /\ handler' = [handler EXCEPT ![h].phase = "open"]
      /\ UNCHANGED <<jobVars, proc, scores, measured>>

(* Complete matched no row: the transaction rolls back, the score with it.  *)
LateReport(h) ==
  LET r == handler[h]
  IN  /\ r.op = "report" /\ r.phase = "verified" /\ r.job \notin Locked
      /\ ~HeldBy(r.job, r.worker)
      /\ Respond(h, FALSE)
      /\ UNCHANGED <<jobVars, scores, measured>>

(* A job submitted without a suite gets the measured ref in the same        *)
(* transaction (SetSuiteRef), whoever set it since the claim verified.      *)
CommitReport(h) ==
  LET r == handler[h]
  IN  /\ r.op = "report" /\ r.phase = "open"
      /\ status' = [status EXCEPT ![r.job] = "done"]
      /\ worker' = [worker EXCEPT ![r.job] = NoWorker]
      /\ token'  = [token EXCEPT ![r.job] = 0]
      /\ lease'  = [lease EXCEPT ![r.job] = "none"]
      /\ suite'  = [suite EXCEPT ![r.job] =
                      IF r.jobSuite = NoSuite THEN r.suite ELSE @]
      /\ scores' = [scores EXCEPT ![r.job] = @ + 1]
      /\ measured' = [measured EXCEPT ![r.job] = r.suite]
      /\ Respond(h, TRUE)
      /\ UNCHANGED <<attempts, created, clock>>

-----------------------------------------------------------------------------
ServerStep ==
  \/ \E j \in Jobs : SubmitJob(j) \/ CancelJob(j) \/ Lapse(j)
  \/ Reap

WorkerStep(p) ==
  \/ \E j \in Jobs : ClaimJob(p, j)
  \/ \E h \in Handlers : \/ SendHeartbeat(p, h) \/ SendPush(p, h)
                         \/ SendReport(p, h) \/ SendFail(p, h)
  \/ Derive(p) \/ FinishRun(p) \/ RunErrs(p) \/ Forget(p)

HandlerStep(h) ==
  \/ Verify(h) \/ Refuse(h) \/ Abort(h)
  \/ DoHeartbeat(h) \/ DoFail(h) \/ DoPush(h)
  \/ OpenReport(h) \/ LateReport(h) \/ CommitReport(h)

Next ==
  \/ ServerStep
  \/ \E p \in Procs : WorkerStep(p)
  \/ \E h \in Handlers : HandlerStep(h)

Spec == Init /\ [][Next]_vars

(***************************************************************************)
(* Fairness.  Requests are served, the reaper runs every minute, a run or  *)
(* an HTTP call ends (every session and call has a timeout), and a process *)
(* between claims keeps polling.  A lease is bound to lapse only when no   *)
(* process is inside the run that would renew it.                          *)
(***************************************************************************)
Attended(j) ==
  \E p \in Procs : /\ proc[p].pc \in {"running", "pushing"}
                   /\ proc[p].job = j
                   /\ proc[p].token = token[j]

EndsCall(p) == Derive(p) \/ FinishRun(p) \/ RunErrs(p) \/ Forget(p)

Fairness ==
  /\ WF_vars(Reap)
  /\ \A j \in Jobs : WF_vars(~Attended(j) /\ Lapse(j))
  /\ \A h \in Handlers : WF_vars(HandlerStep(h))
  /\ \A p \in Procs : /\ WF_vars(EndsCall(p))
                      /\ WF_vars(\E j \in Jobs : ClaimJob(p, j))

FairSpec == Spec /\ Fairness

-----------------------------------------------------------------------------
(* Properties. *)

(* A finished job has exactly one verified quality row and no other job has *)
(* any: a report re-sent after a timeout, a report overtaken by a cancel,   *)
(* a lapsed lease or a second claim never adds a row (routes.go: "either    *)
(* both land, or neither does").                                            *)
OneScorePerDoneJob ==
  \A j \in Jobs : scores[j] = IF status[j] = "done" THEN 1 ELSE 0

(* A job fails for good only when its last attempt is spent, whichever of   *)
(* Fail and ReapExpired decides it.                                         *)
FailedMeansExhausted ==
  \A j \in Jobs : status[j] = "failed" => attempts[j] = MaxAttempts

(* The process is inside the claim the row currently records. *)
HoldsClaim(p, j) ==
  /\ proc[p].pc # "idle"
  /\ proc[p].job = j
  /\ status[j] = "running"
  /\ proc[p].token = token[j]

(* No two processes ever work under one claim, and the row names the worker *)
(* id of the one that does: a reclaim leaves the previous holder with a     *)
(* token no statement accepts.                                              *)
SoleClaimant ==
  \A p \in Procs, j \in Jobs : HoldsClaim(p, j) =>
    /\ worker[j] = WorkerOf[p]
    /\ \A q \in Procs \ {p} : ~HoldsClaim(q, j)

(* done, failed and cancelled are final: no late heartbeat, fail, report,   *)
(* claim or sweep brings a job back or changes how it ended.                *)
FinalStatus ==
  [][\A j \in Jobs : status[j] \in Terminal => status'[j] = status[j]]_vars

(* A quality row appears only in the step that completes the job, under the *)
(* worker id that holds it: a report whose claim another worker took over   *)
(* while it was being processed writes nothing.                             *)
ScoreNeedsTheClaim ==
  [][\A j \in Jobs : scores'[j] # scores[j] =>
       /\ status[j] = "running" /\ status'[j] = "done"
       /\ \E h \in Handlers : /\ handler[h].job = j
                              /\ handler[h].op = "report"
                              /\ handler[h].worker = worker[j]]_vars

(* The row of a finished job names the suite its score was measured against *)
(* (pool.go, SetSuiteRef: "the ref a derive job's worker actually measured  *)
(* against").                                                               *)
DoneSuiteIsMeasured ==
  \A j \in Jobs : status[j] = "done" => suite[j] = measured[j]

-----------------------------------------------------------------------------
(* The inductive invariant: what the properties above need of every step.   *)

(* A claim exists exactly while the row is running, its token is the        *)
(* number of the attempt it started, and only the last attempt fails a job. *)
RowOK(j) ==
  /\ status[j] = "running" =>
       /\ worker[j] \in WorkerIds
       /\ token[j] = attempts[j]
       /\ attempts[j] >= 1
       /\ lease[j] # "none"
  /\ status[j] # "running" =>
       token[j] = 0 /\ worker[j] = NoWorker /\ lease[j] = "none"
  /\ status[j] = "failed" => attempts[j] = MaxAttempts
  /\ status[j] = "absent" => attempts[j] = 0

(* A request carries a token the job once issued; a verified one knows the  *)
(* worker id, which is the row's as long as its claim is the current one;   *)
(* an open one holds its row, alone.                                        *)
RequestOK(h) ==
  LET r == handler[h]
  IN  /\ r.op # "none" => r.job \in Jobs /\ r.token \in 1..attempts[r.job]
      /\ r.phase # "sent" =>
           /\ r.op # "none"
           /\ r.worker \in WorkerIds
           /\ token[r.job] = r.token => worker[r.job] = r.worker
      /\ r.phase = "open" =>
           /\ r.op = "report"
           /\ HeldBy(r.job, r.worker)
           /\ \A g \in Handlers \ {h} :
                handler[g].phase = "open" => handler[g].job # r.job

(* A process works under a token its job issued, and no other process has   *)
(* the same one; if it is the current one, the row names its worker id.     *)
ProcOK(p) ==
  proc[p].pc # "idle" =>
    /\ proc[p].job \in Jobs
    /\ proc[p].token \in 1..attempts[proc[p].job]
    /\ \A q \in Procs \ {p} : proc[q].pc # "idle" =>
         proc[q].job # proc[p].job \/ proc[q].token # proc[p].token
    /\ token[proc[p].job] = proc[p].token =>
         worker[proc[p].job] = WorkerOf[p]

IInv ==
  /\ TypeOK
  /\ \A j \in Jobs     : RowOK(j)
  /\ \A h \in Handlers : RequestOK(h)
  /\ \A p \in Procs    : ProcOK(p)
  /\ OneScorePerDoneJob
-----------------------------------------------------------------------------
(* The queue implements EvalBoard: a job is open while it is queued or      *)
(* running, and every handler, worker and server step is a step of the      *)
(* board or invisible on it.                                                *)
PhaseOf(j) ==
  CASE status[j] \in {"queued", "running"} -> "open"
    [] status[j] = "done"                   -> "measured"
    [] status[j] = "failed"                 -> "given up"
    [] OTHER                                -> status[j]

Board == INSTANCE EvalBoard WITH
  phase <- [j \in Jobs |-> PhaseOf(j)],
  tries <- attempts,
  rows  <- scores

ImplementsBoard == Board!BoardSpec

(* Every submitted job ends, whatever is lost, retried or crashes, as long  *)
(* as the processes keep polling and the reaper runs.                       *)
JobsFinish == \A j \in Jobs : status[j] = "queued" ~> status[j] \in Terminal
=============================================================================
