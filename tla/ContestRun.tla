----------------------------- MODULE ContestRun -----------------------------
(***************************************************************************)
(* A contest from request to verdict (internal/contest, the contest half   *)
(* of internal/worker and of the claim route), over the job table.  The    *)
(* contest is a row of its own, tied to the job that runs it by statements *)
(* that are not in one transaction: it is created, its job is submitted,   *)
(* the job is attached; a report stores the verdict and then closes the    *)
(* job.  A contest submits one job, so both have the same name here.       *)
(*                                                                         *)
(* Left out: heartbeats, which only extend a lease that may lapse at any   *)
(* moment anyway, and the derived suite's push (both are in EvalQueue).    *)
(***************************************************************************)
EXTENDS JobTable, FiniteSets

CONSTANTS
  Procs,      \* worker processes
  WorkerOf,   \* the WORKER_ID each process claims under
  Handlers,   \* server goroutines serving a worker's request
  Candidates, \* the entries of a contest
  NoJob       \* a process or a handler with nothing to do

ASSUME ContestAssumption ==
  /\ WorkerOf \in [Procs -> WorkerIds]
  /\ NoJob \notin Jobs
  /\ Cardinality(Candidates) >= 2

VARIABLES
  contest,   \* contests.status; "none" before the row exists
  attached,  \* contests.job_id is set
  creator,   \* what the request that creates the contest has still to do
  verdict,   \* the claim whose reports the last stored verdict was decided on
  evidence,  \* per candidate: contest_candidates.report_json and reused_from
  proc,      \* per worker process: its run loop
  handler    \* per handler: the request it serves

contestVars == <<contest, attached, creator, verdict, evidence>>
vars == <<jobVars, contestVars, proc, handler>>

Closed == {"done", "failed"}

ProcState ==
  [pc    : {"idle", "claimed", "running", "reporting", "failing"},
   job   : Jobs \cup {NoJob},
   token : 0..MaxAttempts,
   fresh : SUBSET Candidates]   \* what this claim measures

Idle == [pc |-> "idle", job |-> NoJob, token |-> 0, fresh |-> {}]

(* usable: decideReports reduces the reports to a verdict.                  *)
Request ==
  [op     : {"none", "report", "complete", "fail"},
   phase  : {"sent", "verified"},
   job    : Jobs \cup {NoJob},
   token  : 0..MaxAttempts,
   fresh  : SUBSET Candidates,
   usable : BOOLEAN,
   worker : WorkerIds \cup {NoWorker}]

Free == [op |-> "none", phase |-> "sent", job |-> NoJob, token |-> 0,
         fresh |-> {}, usable |-> FALSE, worker |-> NoWorker]

TypeOK ==
  /\ JobTypeOK
  /\ contest  \in [Jobs -> {"none", "pending", "running"} \cup Closed]
  /\ attached \in [Jobs -> BOOLEAN]
  /\ creator  \in [Jobs -> {"none", "submit", "attach"}]
  /\ verdict  \in [Jobs -> 0..MaxAttempts]
  /\ evidence \in [Jobs -> [Candidates -> {"none", "measured", "reused"}]]
  /\ proc     \in [Procs -> ProcState]
  /\ handler  \in [Handlers -> Request]

Init ==
  /\ JobInit
  /\ contest  = [j \in Jobs |-> "none"]
  /\ attached = [j \in Jobs |-> FALSE]
  /\ creator  = [j \in Jobs |-> "none"]
  /\ verdict  = [j \in Jobs |-> 0]
  /\ evidence = [j \in Jobs |-> [c \in Candidates |-> "none"]]
  /\ proc     = [p \in Procs |-> Idle]
  /\ handler  = [h \in Handlers |-> Free]

-----------------------------------------------------------------------------
(* The request that creates a contest, one statement at a time. *)

Create(j) ==
  /\ contest[j] = "none"
  /\ contest' = [contest EXCEPT ![j] = "pending"]
  /\ creator' = [creator EXCEPT ![j] = "submit"]
  /\ UNCHANGED <<jobVars, attached, verdict, evidence, proc, handler>>

SubmitJob(j) ==
  /\ creator[j] = "submit"
  /\ \E s \in Suites \cup {NoSuite} : Submit(j, s)
  /\ creator' = [creator EXCEPT ![j] = "attach"]
  /\ UNCHANGED <<contest, attached, verdict, evidence, proc, handler>>

(* The queue refuses the job. *)
SubmitFails(j) ==
  /\ creator[j] = "submit"
  /\ contest' = [contest EXCEPT ![j] = "failed"]
  /\ creator' = [creator EXCEPT ![j] = "none"]
  /\ UNCHANGED <<jobVars, attached, verdict, evidence, proc, handler>>

AttachJob(j) ==
  /\ creator[j] = "attach"
  /\ attached' = [attached EXCEPT ![j] = TRUE]
  /\ contest'  = [contest EXCEPT ![j] = "running"]
  /\ creator'  = [creator EXCEPT ![j] = "none"]
  /\ UNCHANGED <<jobVars, verdict, evidence, proc, handler>>

(* The server stops, or the attaching statement fails. *)
CreatorDies(j) ==
  /\ creator[j] # "none"
  /\ creator' = [creator EXCEPT ![j] = "none"]
  /\ UNCHANGED <<jobVars, contest, attached, verdict, evidence, proc, handler>>

-----------------------------------------------------------------------------
(* The queue's own statements, with what they do to the contest. *)

(* mutant: the job's statement does not close its contest. *)
FailContestsNever(gaveUp) == contest

(* failContests: the contest of each job that failed for good. *)
FailContests(gaveUp) ==
  [j \in Jobs |-> IF j \in gaveUp /\ contest[j] \in {"pending", "running"}
                  THEN "failed" ELSE contest[j]]

Reap ==
  /\ ReapExpired({})
  /\ contest' = FailContests({j \in Jobs : Reapable(j)})
  /\ UNCHANGED <<attached, creator, verdict, evidence, proc, handler>>

CancelJob(j) ==
  /\ Cancel(j)
  /\ UNCHANGED <<contestVars, proc, handler>>

(* A lease is minutes; the statement that attaches the job follows its      *)
(* submission at once.                                                      *)
Lapse(j) ==
  /\ creator[j] = "none"
  /\ LeaseLapses(j)
  /\ UNCHANGED <<contestVars, proc, handler>>

-----------------------------------------------------------------------------
(* The worker. *)

ClaimJob(p, j) ==
  /\ proc[p].pc = "idle"
  /\ Claim(j, WorkerOf[p], {})
  /\ proc' = [proc EXCEPT ![p] = [pc |-> "claimed", job |-> j,
                                  token |-> FreshToken(j), fresh |-> {}]]
  /\ UNCHANGED <<contestVars, handler>>

StatusOnClaim(j) == contest

(* The second statement of the claim route.  It forgets what was reused     *)
(* before and offers today's reports, never for every candidate and only    *)
(* for a suite named beforehand.  Without an attached job it fails, and the *)
(* response may be lost: nobody then works on the job.                      *)
CandidatesForClaim(p) ==
  LET j == proc[p].job
  IN  /\ proc[p].pc = "claimed"
      /\ IF attached[j]
         THEN \E reused \in SUBSET Candidates \ {Candidates} :
                /\ suite[j] = NoSuite => reused = {}
                /\ evidence' = [evidence EXCEPT ![j] =
                     [c \in Candidates |->
                        IF c \in reused THEN "reused"
                        ELSE IF @[c] = "reused" THEN "none" ELSE @[c]]]
                /\ contest' = StatusOnClaim(j)
                /\ \/ proc' = [proc EXCEPT ![p].pc = "running",
                                           ![p].fresh = Candidates \ reused]
                   \/ proc' = [proc EXCEPT ![p] = Idle]
         ELSE /\ proc' = [proc EXCEPT ![p] = Idle]
              /\ UNCHANGED <<evidence, contest>>
      /\ UNCHANGED <<jobVars, attached, creator, verdict, handler>>

(* The candidates ran; some offered reports were of other conditions, and   *)
(* their candidates ran as well.                                            *)
FinishRun(p) ==
  /\ proc[p].pc = "running"
  /\ \E more \in SUBSET Candidates :
       proc' = [proc EXCEPT ![p].pc = "reporting", ![p].fresh = @ \cup more]
  /\ UNCHANGED <<jobVars, contestVars, handler>>

(* A run errs, its lease is lost, or its report is refused. *)
RunErrs(p) ==
  /\ proc[p].pc \in {"running", "reporting"}
  /\ proc' = [proc EXCEPT ![p].pc = "failing"]
  /\ UNCHANGED <<jobVars, contestVars, handler>>

(* An answer, a last error, or a killed process: the loop claims again.     *)
Forget(p) ==
  /\ proc[p].pc # "idle"
  /\ proc' = [proc EXCEPT ![p] = Idle]
  /\ UNCHANGED <<jobVars, contestVars, handler>>

(* One HTTP attempt; a retry is another, and none of them is recalled.      *)
Send(p, h) ==
  /\ proc[p].pc \in {"reporting", "failing"}
  /\ handler[h].op = "none"
  /\ \E usable \in BOOLEAN :
       handler' = [handler EXCEPT ![h] =
         [Free EXCEPT
            !.op = IF proc[p].pc = "reporting" THEN "report" ELSE "fail",
            !.job = proc[p].job, !.token = proc[p].token,
            !.fresh = proc[p].fresh, !.usable = usable]]
  /\ UNCHANGED <<jobVars, contestVars, proc>>

-----------------------------------------------------------------------------
(* The server's handlers. *)

Verified(h, op) == handler[h].op = op /\ handler[h].phase = "verified"

Drop(h) == handler' = [handler EXCEPT ![h] = Free]

(* Every candidate has a report: a fresh one, or one the contest reuses.    *)
Covered(q) ==
  \A c \in Candidates : c \in q.fresh \/ evidence[q.job][c] = "reused"

(* The contest is read, then the claim is verified and the worker_id of the *)
(* job's row is kept; the verdict is decided on what was read here.         *)
Verify(h) ==
  LET q == handler[h]
  IN  /\ q.op # "none" /\ q.phase = "sent"
      /\ IF ClaimVerifies(q.job, q.token) /\ (q.op = "report" => attached[q.job])
         THEN handler' = [handler EXCEPT ![h].phase = "verified",
                                         ![h].worker = worker[q.job],
                                         ![h].usable = @ /\ Covered(q)]
         ELSE Drop(h)
      /\ UNCHANGED <<jobVars, contestVars, proc>>

(* decideReports refuses the reports: the contest fails, the job does not.  *)
FailContest(h) ==
  /\ Verified(h, "report")
  /\ ~handler[h].usable
  /\ contest' = [contest EXCEPT ![handler[h].job] = "failed"]
  /\ Drop(h)
  /\ UNCHANGED <<jobVars, attached, creator, verdict, evidence, proc>>

(* One transaction, by the contest's id alone; its job is closed after it.  *)
Finish(h) ==
  LET q == handler[h]
  IN  /\ Verified(h, "report")
      /\ q.usable
      /\ contest'  = [contest EXCEPT ![q.job] = "done"]
      /\ verdict'  = [verdict EXCEPT ![q.job] = q.token]
      /\ evidence' = [evidence EXCEPT ![q.job] =
                        [c \in Candidates |->
                           IF c \in q.fresh THEN "measured" ELSE @[c]]]
      /\ handler'  = [handler EXCEPT ![h].op = "complete"]
      /\ UNCHANGED <<jobVars, attached, creator, proc>>

AbortFinish(h) == Drop(h)

(* The transaction fails: a 500, nothing stored. *)
FinishFails(h) ==
  /\ Verified(h, "report")
  /\ AbortFinish(h)
  /\ UNCHANGED <<jobVars, contestVars, proc>>

(* The job is closed if the worker still holds it, or the statement fails   *)
(* and is only logged.                                                      *)
CompleteJob(h) ==
  LET q == handler[h]
  IN  /\ Verified(h, "complete")
      /\ Complete(q.job, q.worker) \/ UNCHANGED jobVars
      /\ Drop(h)
      /\ UNCHANGED <<contestVars, proc>>

FailJob(h) ==
  LET q == handler[h]
  IN  /\ Verified(h, "fail")
      /\ \/ /\ Fail(q.job, q.worker)
            /\ contest' = FailContests(
                 IF AfterFail(q.job) = "failed" THEN {q.job} ELSE {})
         \/ ~HeldBy(q.job, q.worker) /\ UNCHANGED <<jobVars, contest>>
      /\ Drop(h)
      /\ UNCHANGED <<attached, creator, verdict, evidence, proc>>

-----------------------------------------------------------------------------
Next ==
  \/ \E j \in Jobs : \/ Create(j) \/ SubmitJob(j) \/ SubmitFails(j)
                     \/ AttachJob(j) \/ CreatorDies(j)
                     \/ CancelJob(j) \/ Lapse(j)
  \/ Reap
  \/ \E p \in Procs : \/ \E j \in Jobs : ClaimJob(p, j)
                      \/ CandidatesForClaim(p) \/ FinishRun(p) \/ RunErrs(p)
                      \/ Forget(p)
                      \/ \E h \in Handlers : Send(p, h)
  \/ \E h \in Handlers : \/ Verify(h) \/ FailContest(h) \/ Finish(h)
                         \/ FinishFails(h) \/ CompleteJob(h) \/ FailJob(h)

Spec == Init /\ [][Next]_vars

(* The reaper runs every minute, time passes, a process that holds a claim  *)
(* gets on with it or dies, some process keeps polling, and a handler ends. *)
Fairness ==
  /\ WF_vars(Reap)
  /\ \A j \in Jobs : /\ WF_vars(AttachJob(j) \/ CreatorDies(j))
                     /\ WF_vars(Lapse(j))
  /\ \A p \in Procs : /\ SF_vars(\E j \in Jobs : ClaimJob(p, j))
                      /\ WF_vars(CandidatesForClaim(p) \/ Forget(p))
  /\ \A h \in Handlers : WF_vars(Verify(h) \/ FailContest(h) \/ Finish(h)
                                   \/ FinishFails(h) \/ CompleteJob(h) \/ FailJob(h))

FairSpec == Spec /\ Fairness

-----------------------------------------------------------------------------
(* A job that failed for good has not left its contest open, whichever of   *)
(* the statements gave it up and whatever the worker and the creating       *)
(* request did meanwhile (pool.go failContests).                            *)
FailedJobClosesContest ==
  \A j \in Jobs : status[j] = "failed" => contest[j] \in Closed

(* A job is only done once a verdict of its contest was stored: the worker  *)
(* that closes it may not be the one that reported (routes.go registerReport). *)
DoneJobWasDecided ==
  \A j \in Jobs : status[j] = "done" =>
    verdict[j] # 0 /\ contest[j] \in Closed

(* A contest that ended is never shown as running again, although its job   *)
(* may be claimed and run once more.                                        *)
ClosedStaysClosed ==
  [][\A j \in Jobs : contest[j] \in Closed => contest'[j] \in Closed]_vars

(* A contest whose job was submitted ends, unless the job was cancelled:    *)
(* also when the creating request died before attaching the job, which      *)
(* makes every claim of it fail.                                            *)
ContestsEnd ==
  \A j \in Jobs :
    status[j] # "absent" ~> (contest[j] \in Closed \/ status[j] = "cancelled")

-----------------------------------------------------------------------------
(* pool.go:408, "nothing else moves a contest out of running once its job   *)
(* gives up, so it runs in the same statement as the job's own update": a   *)
(* job that gives up, by being cancelled too, closes its contest.           *)
GivenUpJobClosesContest ==
  \A j \in Jobs : (status[j] \in {"failed", "cancelled"} /\ creator[j] = "none")
    => contest[j] \in Closed

(* store.go:74, "a verdict without its evidence is the state this whole     *)
(* design exists to avoid".                                                 *)
VerdictHasEvidence ==
  \A j \in Jobs : contest[j] = "done" =>
    \A c \in Candidates : evidence[j][c] # "none"
=============================================================================
