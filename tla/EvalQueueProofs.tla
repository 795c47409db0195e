-------------------------- MODULE EvalQueueProofs ---------------------------
(***************************************************************************)
(* Proofs about EvalQueue for any number of jobs, workers, handlers and    *)
(* attempts.  The inductive invariant IInv ties the row's claim columns to *)
(* the attempt counter, the requests to the claims they were sent under,   *)
(* and the open transactions to the rows they lock.                        *)
(***************************************************************************)
EXTENDS EvalQueue, TLAPS

(* What a step may do to the processes short of a claim: each one stays     *)
(* under its claim or drops it.                                             *)
ProcKeeps ==
  /\ proc' \in [Procs -> ProcState]
  /\ \A p \in Procs : proc'[p].pc # "idle" =>
       /\ proc[p].pc # "idle"
       /\ proc'[p].job = proc[p].job
       /\ proc'[p].token = proc[p].token

(* A response frees its handler and leaves every process under its claim    *)
(* or idle (client and run loop of internal/worker).                        *)
LEMMA RespondKeeps ==
  ASSUME TypeOK, NEW h \in Handlers, NEW ok \in BOOLEAN, Respond(h, ok)
  PROVE  /\ handler' = [handler EXCEPT ![h] = Free]
         /\ ProcKeeps
<1> DEFINE r == handler[h]
<1>1. handler' = [handler EXCEPT ![h] = Free]
  BY DEF Respond
<1>2. ASSUME UNCHANGED proc PROVE ProcKeeps
  BY <1>2 DEF ProcKeeps, TypeOK
<1>3. ASSUME NEW p \in Procs, Waiting(p, r),
             proc' = [proc EXCEPT ![p] = Receive(p, r, ok)]
      PROVE  ProcKeeps
  <2>1. proc[p] \in ProcState /\ r \in Request
    BY DEF TypeOK
  <2>2. proc[p].pc # "idle"
    BY <1>3 DEF Waiting
  <2>3. Receive(p, r, ok) \in
          {proc[p], Idle, [proc[p] EXCEPT !.pc = "failing"],
           [proc[p] EXCEPT !.pc = "running"]}
    BY DEF Receive
  <2>4. /\ Receive(p, r, ok) \in ProcState
        /\ Receive(p, r, ok).pc # "idle" =>
             /\ Receive(p, r, ok).job = proc[p].job
             /\ Receive(p, r, ok).token = proc[p].token
    BY <2>1, <2>3, MaxAttemptsAssumption DEF Idle, ProcState
  <2> QED
    BY <1>3, <2>2, <2>4 DEF ProcKeeps, TypeOK
<1> QED
  BY <1>1, <1>2, <1>3 DEF Respond

-----------------------------------------------------------------------------
(* Most steps claim nothing and open no transaction.  Such a step keeps the *)
(* invariant as soon as it leaves the rows well formed, ends claims rather  *)
(* than starting them, and leaves the rows of open transactions alone.      *)

RowsKeepClaims ==
  \A j \in Jobs :
    /\ attempts'[j] = attempts[j]
    /\ status'[j] = "running" => /\ status[j] = "running"
                                 /\ token'[j] = token[j]
                                 /\ worker'[j] = worker[j]

HandlersKeep ==
  \A h \in Handlers :
    /\ handler'[h] \in {handler[h], Free}
    /\ handler'[h].phase = "open" =>
         /\ status'[handler[h].job] = status[handler[h].job]
         /\ worker'[handler[h].job] = worker[handler[h].job]

LEMMA QuietStep ==
  ASSUME IInv, TypeOK', \A j \in Jobs : RowOK(j)', OneScorePerDoneJob',
         ProcKeeps, RowsKeepClaims, HandlersKeep
  PROVE  IInv'
<1>1. ASSUME NEW h \in Handlers PROVE RequestOK(h)'
  <2>1. CASE handler'[h] = Free
    BY <2>1 DEF RequestOK, Free
  <2>2. CASE handler'[h] = handler[h]
    <3>1. RequestOK(h) /\ handler[h] \in Request
      BY DEF IInv, TypeOK
    <3>2. handler[h].op # "none" =>
            /\ attempts'[handler[h].job] = attempts[handler[h].job]
            /\ token'[handler[h].job] = handler[h].token =>
                 /\ token[handler[h].job] = handler[h].token
                 /\ worker'[handler[h].job] = worker[handler[h].job]
      BY <3>1, \A j \in Jobs : RowOK(j)' DEF RequestOK, RowsKeepClaims, RowOK, Request
    <3>3. \A g \in Handlers : handler'[g].phase = "open" => handler'[g] = handler[g]
      BY DEF HandlersKeep, Free
    <3> QED
      BY <2>2, <3>1, <3>2, <3>3 DEF RequestOK, HandlersKeep, HeldBy
  <2> QED
    BY <2>1, <2>2 DEF HandlersKeep
<1>2. ASSUME NEW p \in Procs PROVE ProcOK(p)'
  <2> SUFFICES ASSUME proc'[p].pc # "idle"
               PROVE  ProcOK(p)'
    BY DEF ProcOK
  <2>1. /\ ProcOK(p)
        /\ proc[p].pc # "idle"
        /\ proc'[p].job = proc[p].job
        /\ proc'[p].token = proc[p].token
    BY DEF ProcKeeps, IInv
  <2>2. /\ attempts'[proc[p].job] = attempts[proc[p].job]
        /\ token'[proc[p].job] = proc[p].token =>
             /\ token[proc[p].job] = proc[p].token
             /\ worker'[proc[p].job] = worker[proc[p].job]
    BY <2>1, \A j \in Jobs : RowOK(j)' DEF ProcOK, RowsKeepClaims, RowOK
  <2> QED
    BY <2>1, <2>2 DEF ProcKeeps, ProcOK
<1> QED
  BY <1>1, <1>2 DEF IInv

-----------------------------------------------------------------------------
(* The statements of JobTable keep rows well formed. *)

RowsOK == JobTypeOK /\ \A j \in Jobs : RowOK(j)

(* Leaving "running" or "queued" clears the claim with the status; only a   *)
(* job with no attempts left may go to "failed" (Cancel, Fail, ReapExpired  *)
(* and the report's Complete).                                              *)
LEMMA ReleaseRows ==
  ASSUME RowsOK, NEW S \in SUBSET Jobs,
         NEW new \in [Jobs -> Status \ {"absent", "running"}],
         \A j \in S : new[j] = "failed" => attempts[j] = MaxAttempts,
         Release(S, new)
  PROVE  RowsOK' /\ RowsKeepClaims
<1>1. JobTypeOK'
  BY MaxAttemptsAssumption DEF RowsOK, JobTypeOK, Release, Status
<1>2. ASSUME NEW j \in Jobs PROVE RowOK(j)'
  <2>1. RowOK(j)
    BY DEF RowsOK
  <2> QED
    BY <2>1 DEF RowsOK, RowOK, Release, JobTypeOK
<1>3. RowsKeepClaims
  BY DEF RowsKeepClaims, Release
<1> QED
  BY <1>1, <1>2, <1>3 DEF RowsOK

(* Submit, Heartbeat, SetSuiteRef and the clock touch no claim. *)
LEMMA OtherRows ==
  ASSUME RowsOK, NEW j \in Jobs,
         \/ \E s \in Suites \cup {NoSuite} : Submit(j, s) \/ SetSuiteRef(j, s)
         \/ \E w \in WorkerIds : Heartbeat(j, w)
         \/ LeaseLapses(j)
  PROVE  RowsOK' /\ RowsKeepClaims
<1> USE DEF RowsOK, JobTypeOK, RowsKeepClaims
<1>1. ASSUME NEW s \in Suites \cup {NoSuite}, Submit(j, s)
      PROVE  RowsOK' /\ RowsKeepClaims
  BY <1>1 DEF Submit, RowOK, Status
<1>2. ASSUME NEW s \in Suites \cup {NoSuite}, SetSuiteRef(j, s)
      PROVE  RowsOK' /\ RowsKeepClaims
  BY <1>2 DEF SetSuiteRef, RowOK
<1>3. ASSUME NEW w \in WorkerIds, Heartbeat(j, w)
      PROVE  RowsOK' /\ RowsKeepClaims
  BY <1>3 DEF Heartbeat, HeldBy, RowOK
<1>4. ASSUME LeaseLapses(j) PROVE RowsOK' /\ RowsKeepClaims
  BY <1>4 DEF LeaseLapses, RowOK
<1> QED
  BY <1>1, <1>2, <1>3, <1>4

(* A claim starts the next attempt under a token the job never issued. *)
LEMMA ClaimRows ==
  ASSUME RowsOK, NEW j \in Jobs, NEW w \in WorkerIds, NEW locked, Claim(j, w, locked)
  PROVE  RowsOK'
<1>1. JobTypeOK'
  BY MaxAttemptsAssumption DEF RowsOK, JobTypeOK, Claim, FreshToken, Claimable, Status
<1>2. ASSUME NEW k \in Jobs PROVE RowOK(k)'
  <2>1. RowOK(k)
    BY DEF RowsOK
  <2>2. status[j] \in {"queued", "running"}
    BY DEF Claim, Claimable
  <2> QED
    BY <2>1, <2>2 DEF RowsOK, RowOK, Claim, FreshToken, JobTypeOK
<1> QED
  BY <1>1, <1>2 DEF RowsOK

-----------------------------------------------------------------------------
(* Every step keeps the invariant. *)

LEMMA InitIInv == Init => IInv
  BY MaxAttemptsAssumption
  DEF Init, JobInit, IInv, TypeOK, JobTypeOK, Status, ProcState, Idle, Request, Free,
      RowOK, RequestOK, ProcOK, OneScorePerDoneJob

(* Submissions, cancellations, sweeps and the clock. *)
LEMMA ServerStepIInv ==
  ASSUME IInv, ServerStep
  PROVE  IInv'
<1> DEFINE Unlocked(j) == \A h \in Handlers : handler[h].phase = "open" => handler[h].job # j
            Quiet ==
              /\ RowsOK' /\ RowsKeepClaims
              /\ \A j \in Jobs : (status'[j] = "done") <=> (status[j] = "done")
              /\ \A j \in Jobs : ~Unlocked(j) =>
                   status'[j] = status[j] /\ worker'[j] = worker[j]
<1>1. UNCHANGED <<proc, handler, scores, measured>>
  BY DEF ServerStep, SubmitJob, CancelJob, Reap, Lapse
<1>2. ProcKeeps /\ RowsOK
  BY <1>1 DEF ProcKeeps, IInv, TypeOK, RowsOK
<1>3. SUFFICES Quiet
  <2>1. TypeOK' /\ OneScorePerDoneJob'
    BY <1>1, <1>3 DEF IInv, TypeOK, RowsOK, OneScorePerDoneJob
  <2>2. HandlersKeep
    BY <1>1, <1>3 DEF HandlersKeep, IInv, RequestOK
  <2> QED
    BY <1>2, <1>3, <2>1, <2>2, QuietStep DEF RowsOK
<1>4. ASSUME NEW j \in Jobs, ~Unlocked(j) PROVE status[j] = "running" /\ j \in Locked
  BY <1>4 DEF IInv, RequestOK, HeldBy, Locked
<1>5. ASSUME NEW j \in Jobs, SubmitJob(j) PROVE Quiet
  <2>1. RowsOK' /\ RowsKeepClaims
    BY <1>2, <1>5, OtherRows DEF SubmitJob
  <2> QED
    BY <1>4, <1>5, <2>1 DEF SubmitJob, Submit, RowsOK, JobTypeOK
<1>6. ASSUME NEW j \in Jobs, Lapse(j) PROVE Quiet
  <2>1. RowsOK' /\ RowsKeepClaims
    BY <1>2, <1>6, OtherRows DEF Lapse
  <2> QED
    BY <1>6, <2>1 DEF Lapse, LeaseLapses
<1>7. ASSUME NEW S \in SUBSET Jobs,
             NEW new \in [Jobs -> {"failed", "cancelled"}],
             \A j \in S : new[j] = "failed" => attempts[j] = MaxAttempts,
             \A j \in S : status[j] \in {"queued", "running"},
             S \cap Locked = {}, Release(S, new)
      PROVE  Quiet
  <2>1. new \in [Jobs -> Status \ {"absent", "running"}]
    BY DEF Status
  <2>2. RowsOK' /\ RowsKeepClaims
    BY <1>2, <1>7, <2>1, ReleaseRows
  <2> QED
    BY <1>4, <1>7, <2>2 DEF Release
<1>8. ASSUME NEW j \in Jobs, CancelJob(j) PROVE Quiet
  BY <1>7, <1>8 DEF CancelJob, Cancel
<1>9. ASSUME Reap PROVE Quiet
  <2>1. \A j \in Jobs : Reapable(j) => attempts[j] = MaxAttempts
    BY <1>2, MaxAttemptsAssumption DEF Reapable, RowsOK, JobTypeOK
  <2> QED
    BY <1>7, <1>9, <2>1 DEF Reap, ReapExpired, Reapable
<1> QED
  BY <1>5, <1>6, <1>8, <1>9 DEF ServerStep

(* Claims, sends and the ends of calls. *)
LEMMA WorkerStepIInv ==
  ASSUME IInv, NEW p \in Procs, WorkerStep(p)
  PROVE  IInv'
<1> USE DEF IInv
<1>1. RowsOK
  BY DEF RowsOK, TypeOK
<1>2. ASSUME NEW j \in Jobs, ClaimJob(p, j) PROVE IInv'
  <2>1. Claim(j, WorkerOf[p], Locked) /\ WorkerOf[p] \in WorkerIds
    BY <1>2, WorkerOfAssumption DEF ClaimJob
  <2>2. RowsOK'
    BY <1>1, <2>1, ClaimRows
  <2>3. UNCHANGED <<handler, scores, measured>> /\ proc[p].pc = "idle"
    BY <1>2 DEF ClaimJob
  <2>4. /\ j \notin Locked
        /\ status[j] # "done"
        /\ \A k \in Jobs \ {j} : /\ attempts'[k] = attempts[k]
                                 /\ token'[k] = token[k]
                                 /\ worker'[k] = worker[k]
                                 /\ status'[k] = status[k]
        /\ attempts'[j] = attempts[j] + 1
        /\ token'[j] = attempts[j] + 1
        /\ worker'[j] = WorkerOf[p]
        /\ status'[j] = "running"
    BY <1>1, <2>1 DEF Claim, FreshToken, Claimable, RowsOK, JobTypeOK
  <2>5. \A k \in Jobs : attempts[k] \in Nat /\ attempts'[k] \in 0..MaxAttempts
    BY <1>1, <2>2, MaxAttemptsAssumption DEF RowsOK, JobTypeOK
  <2>6. \/ proc' = [proc EXCEPT ![p] = [pc |-> "running", job |-> j,
                                       token |-> attempts[j] + 1, suite |-> suite[j]]]
        \/ UNCHANGED proc
    BY <1>2 DEF ClaimJob, FreshToken
  <2>7. TypeOK'
    BY <2>2, <2>3, <2>4, <2>5, <2>6, <1>1 DEF TypeOK, RowsOK, ProcState, JobTypeOK
  <2>8. ASSUME NEW h \in Handlers PROVE RequestOK(h)'
    <3>1. RequestOK(h)
      OBVIOUS
    <3>2. handler[h].phase = "open" => handler[h].job # j
      BY <2>4 DEF Locked
    <3>3. handler[h].op # "none" => handler[h].job \in Jobs
                                      /\ handler[h].token \in 1..attempts[handler[h].job]
      BY <3>1 DEF RequestOK
    <3> QED
      BY <2>3, <2>4, <2>5, <3>1, <3>2, <3>3 DEF RequestOK, HeldBy
  <2>9. ASSUME NEW q \in Procs PROVE ProcOK(q)'
    <3>1. \A x \in Procs : ProcOK(x)
      OBVIOUS
    <3>2. CASE UNCHANGED proc
      BY <2>3, <2>4, <2>5, <3>1, <3>2 DEF ProcOK
    <3>3. CASE proc' = [proc EXCEPT ![p] = [pc |-> "running", job |-> j,
                                       token |-> attempts[j] + 1, suite |-> suite[j]]]
      <4>1. \A x \in Procs \ {p} : proc'[x] = proc[x]
        BY <3>3 DEF TypeOK
      <4>2. proc'[p] = [pc |-> "running", job |-> j,
                        token |-> attempts[j] + 1, suite |-> suite[j]]
        BY <3>3 DEF TypeOK
      <4>3. \A x \in Procs \ {p} : proc[x].pc # "idle" =>
              proc[x].job # j \/ (proc[x].token # attempts[j] + 1)
        BY <2>5, <3>1 DEF ProcOK
      <4>4. CASE q = p
        BY <2>4, <2>5, <4>1, <4>2, <4>3, <4>4 DEF ProcOK
      <4>5. CASE q # p
        BY <2>4, <2>5, <3>1, <4>1, <4>2, <4>3, <4>5 DEF ProcOK
      <4> QED
        BY <4>4, <4>5
    <3> QED
      BY <2>6, <3>2, <3>3
  <2>10. OneScorePerDoneJob'
    BY <2>3, <2>4 DEF OneScorePerDoneJob
  <2> QED
    BY <2>2, <2>7, <2>8, <2>9, <2>10 DEF RowsOK
<1>3. ASSUME NEW h \in Handlers, NEW op \in {"heartbeat", "fail", "push", "report"},
             NEW s \in Suites \cup {NoSuite}, proc[p].pc # "idle", Send(p, h, op, s)
      PROVE  IInv'
  <2>1. UNCHANGED <<jobVars, proc, scores, measured>> /\ handler[h].op = "none"
    BY <1>3 DEF Send
  <2>2. ProcOK(p) /\ proc[p] \in ProcState
    BY DEF TypeOK
  <2>3. /\ \A g \in Handlers \ {h} : handler'[g] = handler[g]
        /\ handler'[h] = [op |-> op, phase |-> "sent", job |-> proc[p].job,
                          token |-> proc[p].token, suite |-> s,
                          worker |-> NoWorker, jobSuite |-> NoSuite]
    BY <1>3 DEF Send, Free, TypeOK
  <2>4. handler' \in [Handlers -> Request]
    <3>1. handler'[h] \in Request
      BY <2>2, <2>3 DEF Request, ProcState
    <3>2. handler' = [handler EXCEPT ![h] = handler'[h]]
      BY <1>3 DEF Send, TypeOK
    <3> QED
      BY <3>1, <3>2 DEF TypeOK
  <2>5. TypeOK' /\ OneScorePerDoneJob'
    BY <2>1, <2>4 DEF TypeOK, JobTypeOK, jobVars, OneScorePerDoneJob
  <2>6. (\A j \in Jobs : RowOK(j)') /\ (\A q \in Procs : ProcOK(q)')
    BY <2>1 DEF RowOK, ProcOK, jobVars
  <2>7. ASSUME NEW g \in Handlers PROVE RequestOK(g)'
    BY <1>3, <2>1, <2>2, <2>3 DEF RequestOK, ProcOK, jobVars, HeldBy
  <2> QED
    BY <2>5, <2>6, <2>7
<1>4. ASSUME proc' \in [Procs -> ProcState], ProcKeeps,
             UNCHANGED <<jobVars, handler, scores, measured>>
      PROVE  IInv'
  <2>1. TypeOK'
    BY <1>4 DEF TypeOK, JobTypeOK, jobVars
  <2>2. OneScorePerDoneJob' /\ \A j \in Jobs : RowOK(j)'
    BY <1>4 DEF jobVars, OneScorePerDoneJob, RowOK
  <2>3. RowsKeepClaims /\ HandlersKeep
    BY <1>4 DEF RowsKeepClaims, HandlersKeep, jobVars
  <2> QED
    BY <1>4, <2>1, <2>2, <2>3, QuietStep
<1>5. ASSUME Derive(p) \/ FinishRun(p) \/ RunErrs(p) \/ Forget(p) PROVE IInv'
  <2>1. UNCHANGED <<jobVars, handler, scores, measured>>
    BY <1>5 DEF Derive, FinishRun, RunErrs, Forget
  <2>2. proc \in [Procs -> ProcState] /\ Idle \in ProcState
    BY MaxAttemptsAssumption DEF TypeOK, ProcState, Idle
  <2>3. ASSUME Derive(p) PROVE ProcKeeps
    <3>1. PICK s \in Suites : proc' = [proc EXCEPT ![p] =
            [proc[p] EXCEPT !.suite = s, !.pc = "pushing"]]
      BY <2>2, <2>3 DEF Derive, ProcState
    <3> QED
      BY <2>2, <2>3, <3>1 DEF Derive, ProcKeeps, ProcState
  <2>4. ASSUME FinishRun(p) PROVE ProcKeeps
    BY <2>2, <2>4 DEF FinishRun, ProcKeeps, ProcState
  <2>5. ASSUME RunErrs(p) PROVE ProcKeeps
    BY <2>2, <2>5 DEF RunErrs, ProcKeeps, ProcState
  <2>6. ASSUME Forget(p) PROVE ProcKeeps
    BY <2>2, <2>6 DEF Forget, ProcKeeps, Idle
  <2> QED
    BY <1>4, <1>5, <2>1, <2>3, <2>4, <2>5, <2>6 DEF ProcKeeps
<1>6. ASSUME NEW h \in Handlers, SendHeartbeat(p, h) PROVE IInv'
  BY <1>3, <1>6 DEF SendHeartbeat
<1>7. ASSUME NEW h \in Handlers, SendPush(p, h) PROVE IInv'
  BY <1>3, <1>7 DEF SendPush, TypeOK, ProcState
<1>8. ASSUME NEW h \in Handlers, SendReport(p, h) PROVE IInv'
  BY <1>3, <1>8 DEF SendReport, TypeOK, ProcState
<1>9. ASSUME NEW h \in Handlers, SendFail(p, h) PROVE IInv'
  BY <1>3, <1>9 DEF SendFail
<1> QED
  BY <1>2, <1>5, <1>6, <1>7, <1>8, <1>9 DEF WorkerStep

(* The handlers: verify, refuse, abort, write and commit. *)
LEMMA HandlerStepIInv ==
  ASSUME IInv, NEW h \in Handlers, HandlerStep(h)
  PROVE  IInv'
<1> DEFINE r == handler[h]
<1>1. RowsOK /\ TypeOK /\ RequestOK(h) /\ r \in Request
  BY DEF IInv, RowsOK, TypeOK
<1>2. ASSUME NEW ok \in BOOLEAN, Respond(h, ok), RowsOK', RowsKeepClaims,
             OneScorePerDoneJob', scores' \in [Jobs -> Nat],
             measured' \in [Jobs -> Suites \cup {NoSuite}],
             \A g \in Handlers \ {h} : handler[g].phase = "open" =>
               /\ status'[handler[g].job] = status[handler[g].job]
               /\ worker'[handler[g].job] = worker[handler[g].job]
      PROVE  IInv'
  <2>1. handler' = [handler EXCEPT ![h] = Free] /\ ProcKeeps
    BY <1>1, <1>2, RespondKeeps
  <2>2. Free \in Request
    BY MaxAttemptsAssumption DEF Free, Request
  <2>3. TypeOK'
    BY <1>1, <1>2, <2>1, <2>2 DEF TypeOK, RowsOK, ProcKeeps
  <2>4. HandlersKeep
    BY <1>1, <1>2, <2>1 DEF HandlersKeep, TypeOK, Free
  <2> QED
    BY <1>2, <2>1, <2>3, <2>4, QuietStep DEF RowsOK
<1>3. ASSUME NEW ok \in BOOLEAN, Respond(h, ok), UNCHANGED <<jobVars, scores, measured>>
      PROVE  IInv'
  <2>1. RowsOK' /\ RowsKeepClaims /\ OneScorePerDoneJob'
    BY <1>1, <1>3 DEF IInv, RowsOK, JobTypeOK, RowOK, RowsKeepClaims, OneScorePerDoneJob, jobVars
  <2> QED
    BY <1>1, <1>2, <1>3, <2>1 DEF TypeOK, jobVars
<1>4. ASSUME Refuse(h) \/ Abort(h) \/ LateReport(h) PROVE IInv'
  BY <1>3, <1>4 DEF Refuse, Abort, LateReport, Respond
<1>5. ASSUME r.job \in Jobs, r.job \notin Locked
      PROVE  \A g \in Handlers : handler[g].phase = "open" => handler[g].job # r.job
  BY <1>5 DEF Locked
<1>6. ASSUME DoHeartbeat(h) PROVE IInv'
  <2>1. r.job \in Jobs /\ r.worker \in WorkerIds /\ UNCHANGED <<scores, measured>>
    BY <1>1, <1>6 DEF DoHeartbeat, RequestOK
  <2>2. CASE Heartbeat(r.job, r.worker) /\ Respond(h, TRUE)
    <3>1. RowsOK' /\ RowsKeepClaims
      BY <1>1, <2>1, <2>2, OtherRows
    <3>2. UNCHANGED <<status, worker>>
      BY <2>2 DEF Heartbeat
    <3>3. OneScorePerDoneJob'
      BY <2>1, <3>2 DEF IInv, OneScorePerDoneJob
    <3> QED
      BY <1>1, <1>2, <2>1, <2>2, <3>1, <3>2, <3>3 DEF TypeOK
  <2>3. CASE Respond(h, FALSE) /\ UNCHANGED jobVars
    BY <1>3, <2>1, <2>3
  <2> QED
    BY <1>6, <2>2, <2>3 DEF DoHeartbeat
<1>7. ASSUME DoFail(h) PROVE IInv'
  <2>1. r.job \in Jobs /\ r.worker \in WorkerIds /\ r.job \notin Locked
           /\ UNCHANGED <<scores, measured>>
    BY <1>1, <1>7 DEF DoFail, RequestOK
  <2>2. CASE Fail(r.job, r.worker) /\ Respond(h, TRUE)
    <3> DEFINE new == [k \in Jobs |-> AfterFail(k)]
    <3>1. new \in [Jobs -> Status \ {"absent", "running"}]
      BY DEF AfterFail, Status
    <3>2. new[r.job] = "failed" => attempts[r.job] = MaxAttempts
      BY <1>1, <2>1, MaxAttemptsAssumption DEF AfterFail, RowsOK, JobTypeOK
    <3>3. RowsOK' /\ RowsKeepClaims
      BY <1>1, <2>1, <2>2, <3>1, <3>2, ReleaseRows DEF Fail
    <3>4. /\ status' = [status EXCEPT ![r.job] = AfterFail(r.job)]
          /\ worker' = [worker EXCEPT ![r.job] = NoWorker]
          /\ status[r.job] = "running"
      BY <1>1, <2>1, <2>2 DEF Fail, Release, RowsOK, JobTypeOK, HeldBy
    <3>5. OneScorePerDoneJob'
      BY <1>1, <2>1, <3>4 DEF IInv, OneScorePerDoneJob, AfterFail, RowsOK, JobTypeOK
    <3>6. \A g \in Handlers \ {h} : handler[g].phase = "open" =>
            /\ status'[handler[g].job] = status[handler[g].job]
            /\ worker'[handler[g].job] = worker[handler[g].job]
      BY <1>1, <1>5, <2>1, <3>4 DEF RowsOK, JobTypeOK
    <3>7. scores' \in [Jobs -> Nat] /\ measured' \in [Jobs -> Suites \cup {NoSuite}]
      BY <1>1, <2>1 DEF TypeOK
    <3> QED
      BY <1>2, <2>2, <3>3, <3>5, <3>6, <3>7
  <2>3. CASE Respond(h, FALSE) /\ UNCHANGED jobVars
    BY <1>3, <2>1, <2>3
  <2> QED
    BY <1>7, <2>2, <2>3 DEF DoFail
<1>8. ASSUME DoPush(h) PROVE IInv'
  <2>1. r.job \in Jobs /\ r.suite \in Suites \cup {NoSuite} /\ UNCHANGED <<scores, measured>>
    BY <1>1, <1>8 DEF DoPush, RequestOK, Request
  <2>2. RowsOK' /\ RowsKeepClaims
    BY <1>1, <1>8, <2>1, OtherRows DEF DoPush
  <2>3. UNCHANGED <<status, worker>>
    BY <1>8 DEF DoPush, SetSuiteRef
  <2>4. OneScorePerDoneJob'
    BY <2>1, <2>3 DEF IInv, OneScorePerDoneJob
  <2> QED
    BY <1>1, <1>2, <1>8, <2>1, <2>2, <2>3, <2>4 DEF DoPush, TypeOK
<1>9. ASSUME CommitReport(h) PROVE IInv'
  <2>1. /\ r.job \in Jobs /\ status[r.job] = "running" /\ r.suite \in Suites \cup {NoSuite}
        /\ \A g \in Handlers \ {h} : handler[g].phase = "open" => handler[g].job # r.job
    BY <1>1, <1>9 DEF CommitReport, RequestOK, HeldBy, Request
  <2>2. RowsOK' /\ RowsKeepClaims
    BY <1>1, <1>9, <2>1, MaxAttemptsAssumption
    DEF CommitReport, RowsOK, JobTypeOK, RowOK, RowsKeepClaims, Status
  <2>3. OneScorePerDoneJob'
    BY <1>1, <1>9, <2>1 DEF CommitReport, IInv, OneScorePerDoneJob, TypeOK, JobTypeOK
  <2>4. scores' \in [Jobs -> Nat] /\ measured' \in [Jobs -> Suites \cup {NoSuite}]
    BY <1>1, <1>9, <2>1 DEF CommitReport, TypeOK
  <2>5. \A g \in Handlers \ {h} : handler[g].phase = "open" =>
          /\ status'[handler[g].job] = status[handler[g].job]
          /\ worker'[handler[g].job] = worker[handler[g].job]
    BY <1>1, <1>9, <2>1 DEF CommitReport, TypeOK, JobTypeOK, IInv, RequestOK
  <2> QED
    BY <1>2, <1>9, <2>2, <2>3, <2>4, <2>5 DEF CommitReport
<1>10. ASSUME NEW phase \in {"verified", "open"}, NEW w \in WorkerIds,
              NEW s \in Suites \cup {NoSuite},
              handler' = [handler EXCEPT ![h] =
                            [r EXCEPT !.phase = phase, !.worker = w, !.jobSuite = s]],
              r.op # "none", r.phase # "open",
              token[r.job] = r.token => worker[r.job] = w,
              phase = "open" => r.op = "report" /\ HeldBy(r.job, w) /\ r.job \notin Locked,
              UNCHANGED <<jobVars, proc, scores, measured>>
       PROVE  IInv'
  <2>1. /\ handler'[h] = [r EXCEPT !.phase = phase, !.worker = w, !.jobSuite = s]
        /\ \A g \in Handlers \ {h} : handler'[g] = handler[g]
        /\ handler' \in [Handlers -> Request]
    BY <1>1, <1>10 DEF TypeOK, Request
  <2>2. TypeOK' /\ OneScorePerDoneJob'
    BY <1>1, <1>10, <2>1 DEF IInv, TypeOK, JobTypeOK, jobVars, OneScorePerDoneJob
  <2>3. (\A j \in Jobs : RowOK(j)') /\ (\A p \in Procs : ProcOK(p)')
    BY <1>10 DEF IInv, RowOK, ProcOK, jobVars
  <2>4. RequestOK(h)'
    BY <1>1, <1>10, <2>1, <1>5 DEF RequestOK, Request, HeldBy, jobVars
  <2>5. ASSUME NEW g \in Handlers \ {h} PROVE RequestOK(g)'
    <3>1. RequestOK(g) /\ handler[g].phase = "open" => handler[g].job \in Locked
      BY DEF IInv, Locked
    <3> QED
      BY <1>1, <1>10, <2>1, <2>5, <3>1 DEF IInv, RequestOK, Request, HeldBy, jobVars
  <2> QED
    BY <2>2, <2>3, <2>4, <2>5 DEF IInv
<1>11. ASSUME Verify(h) PROVE IInv'
  <2>1. r.job \in Jobs /\ status[r.job] = "running"
    BY <1>1, <1>11 DEF Verify, RequestOK, ClaimVerifies
  <2>2. worker[r.job] \in WorkerIds /\ suite[r.job] \in Suites \cup {NoSuite}
    BY <1>1, <2>1 DEF RowsOK, RowOK, JobTypeOK
  <2>3. handler' = [handler EXCEPT ![h] = [r EXCEPT !.phase = "verified",
                       !.worker = worker[r.job], !.jobSuite = suite[r.job]]]
    BY <1>1, <1>11 DEF Verify, TypeOK, Request
  <2> QED
    BY <1>10, <1>11, <2>2, <2>3 DEF Verify
<1>12. ASSUME OpenReport(h) PROVE IInv'
  <2>1. r.worker \in WorkerIds /\ r.jobSuite \in Suites \cup {NoSuite}
    BY <1>1, <1>12 DEF OpenReport, RequestOK, Request
  <2>2. handler' = [handler EXCEPT ![h] = [r EXCEPT !.phase = "open",
                       !.worker = r.worker, !.jobSuite = r.jobSuite]]
    BY <1>1, <1>12 DEF OpenReport, TypeOK, Request
  <2>3. token[r.job] = r.token => worker[r.job] = r.worker
    BY <1>1, <1>12 DEF OpenReport, RequestOK
  <2> QED
    BY <1>10, <1>12, <2>1, <2>2, <2>3 DEF OpenReport
<1> QED
  BY <1>4, <1>6, <1>7, <1>8, <1>9, <1>11, <1>12 DEF HandlerStep

LEMMA StepIInv == IInv /\ [Next]_vars => IInv'
<1>1. ASSUME IInv, UNCHANGED vars PROVE IInv'
  <2>1. RowsOK' /\ RowsKeepClaims /\ ProcKeeps /\ TypeOK' /\ OneScorePerDoneJob' /\ HandlersKeep
    BY <1>1 DEF IInv, vars, jobVars, RowsOK, RowOK, TypeOK, JobTypeOK, RowsKeepClaims,
                ProcKeeps, OneScorePerDoneJob, HandlersKeep
  <2> QED
    BY <1>1, <2>1, QuietStep DEF RowsOK
<1> QED
  BY <1>1, ServerStepIInv, WorkerStepIInv, HandlerStepIInv DEF Next

(* The invariant holds of every reachable state of the queue. *)
THEOREM QueueInvariant == Spec => []IInv
<1> QED
  BY InitIInv, StepIInv, PTL DEF Spec

(* Every variable has its type (the columns of eval_jobs and the program    *)
(* counters of the run loop and the handlers).                              *)
THEOREM TypeCorrect == Spec => []TypeOK
<1>1. IInv => TypeOK
  BY DEF IInv
<1> QED
  BY <1>1, QueueInvariant, PTL

(* Exactly one verified quality row per finished job, and none for any      *)
(* other (the report handler's transaction in routes.go).                   *)
THEOREM OneScore == Spec => []OneScorePerDoneJob
<1>1. IInv => OneScorePerDoneJob
  BY DEF IInv
<1> QED
  BY <1>1, QueueInvariant, PTL

(* No job is given up with attempts left (Fail and ReapExpired, pool.go).   *)
THEOREM FailsExhausted == Spec => []FailedMeansExhausted
<1>1. IInv => FailedMeansExhausted
  BY DEF IInv, RowOK, FailedMeansExhausted
<1> QED
  BY <1>1, QueueInvariant, PTL

(* At most one process works under the claim a row records (Claim and       *)
(* VerifyClaim, pool.go).                                                   *)
THEOREM OneClaimant == Spec => []SoleClaimant
<1>1. IInv => SoleClaimant
  BY DEF IInv, ProcOK, SoleClaimant, HoldsClaim
<1> QED
  BY <1>1, QueueInvariant, PTL

-----------------------------------------------------------------------------
(* What a step can do to the status, the attempts and the scores: nothing,  *)
(* or one of the six statements below.                                      *)
Moves(j) ==
  \/ \E s \in Suites \cup {NoSuite} : Submit(j, s) /\ UNCHANGED scores
  \/ Cancel(j) /\ UNCHANGED scores
  \/ \E w \in WorkerIds : Claim(j, w, Locked) /\ UNCHANGED scores
  \/ \E w \in WorkerIds : Fail(j, w) /\ UNCHANGED scores
  \/ \E h \in Handlers : CommitReport(h) /\ handler[h].job = j

LEMMA StepKinds ==
  ASSUME IInv, [Next]_vars
  PROVE  \/ UNCHANGED <<status, attempts, scores>>
         \/ \E j \in Jobs : Moves(j)
         \/ ReapExpired(Locked) /\ UNCHANGED scores
<1> DEFINE Goal == \/ UNCHANGED <<status, attempts, scores>>
                   \/ \E j \in Jobs : Moves(j)
                   \/ ReapExpired(Locked) /\ UNCHANGED scores
<1>1. ASSUME ServerStep PROVE Goal
  BY <1>1 DEF ServerStep, SubmitJob, CancelJob, Lapse, LeaseLapses, Reap, Moves
<1>2. ASSUME NEW p \in Procs, WorkerStep(p) PROVE Goal
  <2>1. ASSUME NEW j \in Jobs, ClaimJob(p, j) PROVE Goal
    BY <2>1, WorkerOfAssumption DEF ClaimJob, Moves
  <2> QED
    BY <1>2, <2>1 DEF WorkerStep, Send, SendHeartbeat, SendPush, SendReport, SendFail,
                      Derive, FinishRun, RunErrs, Forget, jobVars
<1>3. ASSUME NEW h \in Handlers, HandlerStep(h) PROVE Goal
  <2>1. RequestOK(h)
    BY DEF IInv
  <2>2. ASSUME DoFail(h) PROVE Goal
    BY <2>1, <2>2 DEF DoFail, RequestOK, Moves, jobVars
  <2>3. ASSUME CommitReport(h) PROVE Goal
    BY <2>1, <2>3 DEF CommitReport, RequestOK, Moves
  <2> QED
    BY <1>3, <2>2, <2>3 DEF HandlerStep, Verify, Refuse, Abort, DoHeartbeat, Heartbeat,
         DoPush, SetSuiteRef, OpenReport, LateReport, jobVars
<1> QED
  BY <1>1, <1>2, <1>3 DEF Next, vars, jobVars

(* An open report's row is running, so its commit is never late. *)
LEMMA CommitHolds ==
  ASSUME IInv, NEW h \in Handlers, CommitReport(h)
  PROVE  /\ handler[h].job \in Jobs
         /\ status[handler[h].job] = "running"
         /\ worker[handler[h].job] = handler[h].worker
         /\ attempts[handler[h].job] \in 1..MaxAttempts
<1>1. RequestOK(h) /\ JobTypeOK /\ \A j \in Jobs : RowOK(j)
  BY DEF IInv, TypeOK
<1>2. handler[h].job \in Jobs /\ HeldBy(handler[h].job, handler[h].worker)
  BY <1>1 DEF CommitReport, RequestOK
<1> QED
  BY <1>1, <1>2 DEF HeldBy, RowOK, JobTypeOK

(* A job that ended stays as it ended (no statement of pool.go writes the   *)
(* status of a done, failed or cancelled row).                              *)
THEOREM EndsOnce == Spec => FinalStatus
<1>1. ASSUME IInv, [Next]_vars, NEW j \in Jobs, status[j] \in Terminal
      PROVE  status'[j] = status[j]
  <2>1. status \in [Jobs -> Status]
    BY <1>1 DEF IInv, TypeOK, JobTypeOK
  <2>2. ASSUME NEW k \in Jobs, Moves(k) PROVE status'[j] = status[j]
    <3>1. ASSUME NEW h \in Handlers, CommitReport(h) PROVE status'[j] = status[j]
      BY <1>1, <2>1, <3>1, CommitHolds DEF CommitReport, Terminal
    <3> QED
      BY <1>1, <2>1, <2>2, <3>1
      DEF Moves, Submit, Cancel, Claim, Claimable, Fail, HeldBy, Release, Terminal
  <2>3. ASSUME ReapExpired(Locked) PROVE status'[j] = status[j]
    BY <1>1, <2>3 DEF ReapExpired, Reapable, Release, Terminal
  <2> QED
    BY <1>1, <2>2, <2>3, StepKinds
<1>2. IInv /\ [Next]_vars =>
        [\A j \in Jobs : status[j] \in Terminal => status'[j] = status[j]]_vars
  BY <1>1
<1> QED
  BY <1>2, QueueInvariant, PTL DEF Spec, FinalStatus

(* A score is written only by a report whose claim still holds the row when *)
(* it commits (the report handler's Complete in routes.go).                 *)
THEOREM ScoresAreClaimed == Spec => ScoreNeedsTheClaim
<1> DEFINE Claimed(j) == scores'[j] # scores[j] =>
             /\ status[j] = "running" /\ status'[j] = "done"
             /\ \E h \in Handlers : /\ handler[h].job = j
                                    /\ handler[h].op = "report"
                                    /\ handler[h].worker = worker[j]
<1>1. ASSUME IInv, [Next]_vars, NEW j \in Jobs PROVE Claimed(j)
  <2>1. status \in [Jobs -> Status] /\ scores \in [Jobs -> Nat]
    BY <1>1 DEF IInv, TypeOK, JobTypeOK
  <2>2. ASSUME NEW h \in Handlers, CommitReport(h) PROVE Claimed(j)
    <3>1. /\ handler[h].job \in Jobs
          /\ status[handler[h].job] = "running"
          /\ worker[handler[h].job] = handler[h].worker
      BY <1>1, <2>2, CommitHolds
    <3>2. /\ scores' = [scores EXCEPT ![handler[h].job] = @ + 1]
          /\ status' = [status EXCEPT ![handler[h].job] = "done"]
          /\ handler[h].op = "report"
      BY <2>2 DEF CommitReport
    <3> QED
      BY <2>1, <3>1, <3>2
  <2> QED
    BY <1>1, <2>2, StepKinds DEF Moves
<1>2. IInv /\ [Next]_vars => [\A j \in Jobs : Claimed(j)]_vars
  BY <1>1
<1> QED
  BY <1>2, QueueInvariant, PTL DEF Spec, ScoreNeedsTheClaim

-----------------------------------------------------------------------------
(* The queue implements the board. *)

LEMMA InitBoard == Init => Board!BoardInit
  BY DEF Init, JobInit, Board!BoardInit, PhaseOf

(* A commit is the board's Measure: its job had no score and at least one   *)
(* attempt.                                                                 *)
LEMMA CommitMeasures ==
  ASSUME IInv, NEW h \in Handlers, CommitReport(h)
  PROVE  Board!Measure(handler[h].job)
<1> DEFINE j == handler[h].job
<1>1. j \in Jobs /\ status[j] = "running" /\ attempts[j] \in 1..MaxAttempts
  BY CommitHolds
<1>2. scores[j] = 0 /\ scores \in [Jobs -> Nat] /\ status \in [Jobs -> Status]
  BY <1>1 DEF IInv, OneScorePerDoneJob, TypeOK, JobTypeOK
<1>3. /\ status' = [status EXCEPT ![j] = "done"]
      /\ scores' = [scores EXCEPT ![j] = @ + 1]
      /\ UNCHANGED attempts
  BY DEF CommitReport
<1>4. [k \in Jobs |-> PhaseOf(k)]' = [[k \in Jobs |-> PhaseOf(k)] EXCEPT ![j] = "measured"]
  BY <1>1, <1>2, <1>3 DEF PhaseOf
<1>5. scores' = [scores EXCEPT ![j] = 1]
  BY <1>2, <1>3
<1>6. PhaseOf(j) = "open" /\ attempts[j] > 0
  BY <1>1, MaxAttemptsAssumption DEF PhaseOf
<1> QED
  BY <1>1, <1>2, <1>3, <1>4, <1>5, <1>6 DEF Board!Measure

LEMMA MoveBoard ==
  ASSUME IInv, NEW j \in Jobs, Moves(j)
  PROVE  [Board!BoardNext]_(Board!boardVars)
<1> DEFINE Phase == [k \in Jobs |-> PhaseOf(k)]
<1>1. /\ status \in [Jobs -> Status] /\ attempts \in [Jobs -> 0..MaxAttempts]
      /\ RowOK(j)
  BY DEF IInv, TypeOK, JobTypeOK
<1>2. ASSUME NEW s \in Suites \cup {NoSuite}, Submit(j, s), UNCHANGED scores
      PROVE  Board!Open(j)
  BY <1>1, <1>2 DEF Submit, Board!Open, PhaseOf
<1>3. ASSUME Cancel(j), UNCHANGED scores PROVE Board!Withdraw(j)
  <2>1. status' = [status EXCEPT ![j] = "cancelled"] /\ UNCHANGED attempts
    BY <1>1, <1>3 DEF Cancel, Release
  <2> QED
    BY <1>1, <1>3, <2>1 DEF Cancel, Board!Withdraw, PhaseOf
<1>4. ASSUME NEW w \in WorkerIds, Claim(j, w, Locked), UNCHANGED scores
      PROVE  Board!Try(j)
  BY <1>1, <1>4 DEF Claim, Claimable, Board!Try, PhaseOf
<1>5. ASSUME NEW w \in WorkerIds, Fail(j, w), UNCHANGED scores
      PROVE  [Board!BoardNext]_(Board!boardVars)
  <2>1. /\ status' = [status EXCEPT ![j] = AfterFail(j)] /\ UNCHANGED attempts
        /\ status[j] = "running"
    BY <1>1, <1>5 DEF Fail, HeldBy, Release
  <2>2. CASE attempts[j] >= MaxAttempts
    <3>1. attempts[j] = MaxAttempts /\ AfterFail(j) = "failed"
      BY <1>1, <2>2, MaxAttemptsAssumption DEF AfterFail
    <3>2. Phase' = [k \in Jobs |-> IF k \in {j} THEN "given up" ELSE Phase[k]]
      BY <1>1, <2>1, <3>1 DEF PhaseOf
    <3>3. Board!GiveUp({j})
      BY <1>5, <2>1, <3>1, <3>2 DEF Board!GiveUp, PhaseOf
    <3> QED
      BY <3>3 DEF Board!BoardNext
  <2>3. CASE ~(attempts[j] >= MaxAttempts)
    <3>1. Phase' = Phase
      BY <1>1, <2>1, <2>3 DEF AfterFail, PhaseOf
    <3> QED
      BY <1>5, <2>1, <3>1 DEF Board!boardVars
  <2> QED
    BY <2>2, <2>3
<1>6. ASSUME NEW h \in Handlers, CommitReport(h), handler[h].job = j
      PROVE  Board!Measure(j)
  BY <1>6, CommitMeasures
<1> QED
  BY <1>2, <1>3, <1>4, <1>5, <1>6 DEF Moves, Board!BoardNext

(* The sweep gives up exactly the rows whose last lease lapsed. *)
LEMMA ReapBoard ==
  ASSUME IInv, ReapExpired(Locked), UNCHANGED scores
  PROVE  Board!BoardNext
<1> DEFINE reaped == {j \in Jobs : Reapable(j)}
           Phase  == [k \in Jobs |-> PhaseOf(k)]
<1>1. status \in [Jobs -> Status] /\ attempts \in [Jobs -> 0..MaxAttempts]
  BY DEF IInv, TypeOK, JobTypeOK
<1>2. /\ status' = [j \in Jobs |-> IF j \in reaped THEN "failed" ELSE status[j]]
      /\ UNCHANGED attempts
  BY DEF ReapExpired, Release
<1>3. \A j \in reaped : PhaseOf(j) = "open" /\ attempts[j] = MaxAttempts
  BY <1>1, MaxAttemptsAssumption DEF Reapable, PhaseOf
<1>4. Phase' = [j \in Jobs |-> IF j \in reaped THEN "given up" ELSE Phase[j]]
  BY <1>1, <1>2 DEF PhaseOf
<1>5. Board!GiveUp(reaped)
  BY <1>2, <1>3, <1>4 DEF Board!GiveUp
<1> QED
  BY <1>5 DEF Board!BoardNext

(* Every behaviour of the queue, retries, crashes and lost responses        *)
(* included, is one of the board's.                                         *)
THEOREM QueueImplementsBoard == Spec => ImplementsBoard
<1>1. ASSUME IInv, [Next]_vars PROVE [Board!BoardNext]_(Board!boardVars)
  <2>1. CASE UNCHANGED <<status, attempts, scores>>
    BY <2>1 DEF Board!boardVars, PhaseOf
  <2> QED
    BY <1>1, <2>1, StepKinds, MoveBoard, ReapBoard
<1> QED
  BY <1>1, InitBoard, QueueInvariant, PTL DEF Spec, ImplementsBoard, Board!BoardSpec
=============================================================================
