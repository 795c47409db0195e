-------------------------- MODULE ContestRunProofs --------------------------
(* Proofs about ContestRun, for any number of contests, workers, handlers,   *)
(* candidates and attempts.                                                  *)
EXTENDS ContestRun, TLAPS

-----------------------------------------------------------------------------
(* The inductive invariant.                                                  *)

(* How far the creating request came.  Until it attached the job nothing     *)
(* ends the job but a cancel: no report and no failure of it is sent, and    *)
(* its lease lasts.                                                          *)
CreationInOrder ==
  \A j \in Jobs :
    /\ contest[j] = "none" => status[j] = "absent" /\ creator[j] = "none"
    /\ creator[j] = "submit" => status[j] = "absent" /\ contest[j] = "pending"
    /\ creator[j] = "attach" => /\ contest[j] = "pending" /\ lease[j] # "lapsed"
                                /\ status[j] \in {"queued", "running", "cancelled"}
    /\ attached[j] => creator[j] = "none" /\ status[j] # "absent"
    /\ status[j] = "absent" => lease[j] = "none"

RunningIsClaimed == \A j \in Jobs : status[j] = "running" => token[j] # 0

WorkersInOrder ==
  \A p \in Procs :
    /\ proc[p].pc # "idle" => proc[p].job \in Jobs
    /\ proc[p].pc \in {"running", "reporting", "failing"} => attached[proc[p].job]

HandlersInOrder ==
  \A h \in Handlers :
    LET q == handler[h] IN
    /\ q.op # "none" => q.job \in Jobs /\ attached[q.job]
    /\ q.op = "report" /\ q.phase = "verified" => q.token # 0
    /\ q.op = "complete" => verdict[q.job] # 0 /\ contest[q.job] \in Closed

IInv ==
  /\ TypeOK
  /\ CreationInOrder /\ RunningIsClaimed
  /\ WorkersInOrder /\ HandlersInOrder
  /\ FailedJobClosesContest /\ DoneJobWasDecided

-----------------------------------------------------------------------------
(* The statements of JobTable.                                               *)

RowsInOrder == JobTypeOK /\ RunningIsClaimed

LEMMA SubmitRows ==
  ASSUME RowsInOrder, NEW j \in Jobs, NEW s \in Suites \cup {NoSuite}, Submit(j, s)
  PROVE  RowsInOrder'
BY DEF RowsInOrder, JobTypeOK, RunningIsClaimed, Submit, Status

LEMMA ReleaseRows ==
  ASSUME RowsInOrder, NEW S \in SUBSET Jobs,
         NEW new \in [Jobs -> Status \ {"absent", "running"}], Release(S, new)
  PROVE  /\ RowsInOrder'
         /\ \A j \in S : status'[j] = new[j] /\ lease'[j] = "none"
         /\ \A j \in Jobs \ S : status'[j] = status[j] /\ lease'[j] = lease[j]
<1>1. JobTypeOK'
  BY MaxAttemptsAssumption DEF RowsInOrder, JobTypeOK, Release, Status
<1>2. RunningIsClaimed'
  BY DEF RowsInOrder, RunningIsClaimed, Release
<1> QED
  BY <1>1, <1>2 DEF RowsInOrder, Release

LEMMA ClaimRows ==
  ASSUME RowsInOrder, NEW j \in Jobs, NEW w \in WorkerIds, Claim(j, w, {})
  PROVE  RowsInOrder'
<1>1. JobTypeOK'
  BY MaxAttemptsAssumption DEF RowsInOrder, JobTypeOK, Claim, FreshToken, Claimable, Status
<1>2. attempts[j] + 1 # 0
  BY DEF RowsInOrder, JobTypeOK
<1>3. RunningIsClaimed'
  BY <1>2 DEF RowsInOrder, JobTypeOK, RunningIsClaimed, Claim, FreshToken
<1> QED
  BY <1>1, <1>3 DEF RowsInOrder

LEMMA LapseRows ==
  ASSUME RowsInOrder, NEW j \in Jobs, LeaseLapses(j)
  PROVE  RowsInOrder'
BY DEF RowsInOrder, JobTypeOK, RunningIsClaimed, LeaseLapses

-----------------------------------------------------------------------------
(* The request that creates a contest.                                       *)
LEMMA CreatorStep ==
  ASSUME IInv, NEW j \in Jobs,
         Create(j) \/ SubmitJob(j) \/ SubmitFails(j) \/ AttachJob(j) \/ CreatorDies(j)
  PROVE  IInv' /\ (contest[j] \in Closed => contest'[j] \in Closed)
<1>0. RowsInOrder /\ UNCHANGED <<verdict, evidence, proc, handler>>
  BY DEF IInv, TypeOK, RowsInOrder, Create, SubmitJob, SubmitFails, AttachJob, CreatorDies
<1> USE DEF Closed
<1>1. CASE Create(j)
  <2>1. TypeOK'
    BY <1>1 DEF Create, IInv, TypeOK, JobTypeOK, jobVars
  <2>2. CreationInOrder'
    BY <1>1 DEF Create, IInv, TypeOK, CreationInOrder, jobVars
  <2>3. WorkersInOrder' /\ HandlersInOrder' /\ RunningIsClaimed'
    BY <1>1 DEF Create, IInv, TypeOK, WorkersInOrder, HandlersInOrder, RunningIsClaimed, jobVars
  <2>4. FailedJobClosesContest' /\ DoneJobWasDecided'
    BY <1>1 DEF Create, IInv, TypeOK, CreationInOrder, FailedJobClosesContest, DoneJobWasDecided,
                jobVars
  <2> QED
    BY <1>1, <2>1, <2>2, <2>3, <2>4 DEF IInv, Create
<1>2. CASE SubmitJob(j)
  <2>1. PICK s \in Suites \cup {NoSuite} : Submit(j, s)
    BY <1>2 DEF SubmitJob
  <2>2. RowsInOrder'
    BY <1>0, <2>1, SubmitRows
  <2>3. TypeOK'
    BY <1>2, <2>2 DEF SubmitJob, IInv, TypeOK, RowsInOrder
  <2>4. /\ status' = [status EXCEPT ![j] = "queued"] /\ UNCHANGED lease
        /\ creator' = [creator EXCEPT ![j] = "attach"] /\ UNCHANGED <<contest, attached>>
        /\ creator[j] = "submit" /\ status[j] = "absent"
    BY <1>2, <2>1 DEF SubmitJob, Submit
  <2>5. CreationInOrder'
    BY <2>4 DEF IInv, TypeOK, JobTypeOK, CreationInOrder
  <2>6. WorkersInOrder' /\ HandlersInOrder'
    BY <1>0, <2>4 DEF IInv, WorkersInOrder, HandlersInOrder
  <2>7. FailedJobClosesContest' /\ DoneJobWasDecided'
    BY <1>0, <2>4 DEF IInv, TypeOK, JobTypeOK, FailedJobClosesContest, DoneJobWasDecided
  <2> QED
    BY <2>2, <2>3, <2>4, <2>5, <2>6, <2>7 DEF IInv, RowsInOrder
<1>3. CASE SubmitFails(j) \/ CreatorDies(j)
  <2>1. /\ UNCHANGED <<jobVars, attached>> /\ creator' = [creator EXCEPT ![j] = "none"]
        /\ contest' = contest \/ (contest' = [contest EXCEPT ![j] = "failed"] /\ creator[j] = "submit")
        /\ creator[j] # "none"
    BY <1>3 DEF SubmitFails, CreatorDies
  <2>2. TypeOK'
    BY <1>0, <2>1 DEF IInv, TypeOK, JobTypeOK, jobVars
  <2>3. CreationInOrder'
    BY <2>1 DEF IInv, TypeOK, CreationInOrder, jobVars
  <2>4. WorkersInOrder' /\ HandlersInOrder' /\ RunningIsClaimed'
    BY <1>0, <2>1 DEF IInv, TypeOK, WorkersInOrder, HandlersInOrder, RunningIsClaimed, jobVars
  <2>5. FailedJobClosesContest' /\ DoneJobWasDecided'
    BY <1>0, <2>1 DEF IInv, TypeOK, FailedJobClosesContest, DoneJobWasDecided, jobVars
  <2>6. contest[j] \in Closed => contest'[j] \in Closed
    BY <2>1 DEF IInv, TypeOK
  <2> QED
    BY <2>2, <2>3, <2>4, <2>5, <2>6 DEF IInv
<1>4. CASE AttachJob(j)
  <2>1. /\ UNCHANGED jobVars /\ attached' = [attached EXCEPT ![j] = TRUE]
        /\ contest' = [contest EXCEPT ![j] = "running"]
        /\ creator' = [creator EXCEPT ![j] = "none"] /\ creator[j] = "attach"
    BY <1>4 DEF AttachJob
  <2>2. /\ contest[j] = "pending" /\ ~attached[j]
        /\ status[j] \in {"queued", "running", "cancelled"}
    BY <2>1 DEF IInv, CreationInOrder
  <2>3. TypeOK'
    BY <1>0, <2>1 DEF IInv, TypeOK, JobTypeOK, jobVars
  <2>4. CreationInOrder'
    BY <2>1, <2>2 DEF IInv, TypeOK, CreationInOrder, jobVars
  <2>5. WorkersInOrder' /\ RunningIsClaimed'
    BY <1>0, <2>1 DEF IInv, TypeOK, WorkersInOrder, RunningIsClaimed, jobVars
  <2>6. HandlersInOrder'
    BY <1>0, <2>1, <2>2 DEF IInv, TypeOK, HandlersInOrder
  <2>7. FailedJobClosesContest' /\ DoneJobWasDecided'
    BY <1>0, <2>1, <2>2 DEF IInv, TypeOK, FailedJobClosesContest, DoneJobWasDecided, jobVars
  <2> QED
    BY <2>2, <2>3, <2>4, <2>5, <2>6, <2>7 DEF IInv
<1> QED
  BY <1>1, <1>2, <1>3, <1>4

(* The queue's own statements: cancel, reap and the clock.                   *)
LEMMA QueueStep ==
  ASSUME IInv, Reap \/ \E j \in Jobs : CancelJob(j) \/ Lapse(j)
  PROVE  IInv' /\ \A j \in Jobs : contest[j] \in Closed => contest'[j] \in Closed
<1>0. RowsInOrder /\ UNCHANGED <<attached, creator, verdict, evidence, proc, handler>>
  BY DEF IInv, TypeOK, RowsInOrder, Reap, CancelJob, Lapse, contestVars
<1> USE DEF Closed
<1>1. CASE Reap
  <2> DEFINE S == {j \in Jobs : Reapable(j)}
  <2>1. /\ Release(S, [k \in Jobs |-> "failed"]) /\ contest' = FailContests(S)
    BY <1>1 DEF Reap, ReapExpired
  <2>2. /\ RowsInOrder' /\ \A j \in S : status'[j] = "failed" /\ lease'[j] = "none"
        /\ \A j \in Jobs \ S : status'[j] = status[j] /\ lease'[j] = lease[j]
    <3>1. [k \in Jobs |-> "failed"] \in [Jobs -> Status \ {"absent", "running"}]
      BY DEF Status
    <3> QED
      BY <1>0, <2>1, <3>1, ReleaseRows
  <2>3. \A j \in S : status[j] = "running" /\ lease[j] = "lapsed"
    BY DEF Reapable
  <2>4. /\ \A j \in S : contest'[j] \in Closed
        /\ \A j \in Jobs : contest'[j] # contest[j] =>
             contest[j] \in {"pending", "running"} /\ contest'[j] = "failed" /\ j \in S
        /\ contest' \in [Jobs -> {"none", "pending", "running"} \cup Closed]
    BY <2>1, <2>3 DEF FailContests, IInv, TypeOK, CreationInOrder
  <2> HIDE DEF S
  <2>5. TypeOK'
    BY <1>0, <2>2, <2>4 DEF IInv, TypeOK, RowsInOrder
  <2>6. CreationInOrder'
    BY <1>0, <2>2, <2>3, <2>4 DEF IInv, CreationInOrder
  <2>7. WorkersInOrder' /\ HandlersInOrder'
    BY <1>0, <2>4 DEF IInv, TypeOK, WorkersInOrder, HandlersInOrder
  <2>8. FailedJobClosesContest' /\ DoneJobWasDecided'
    BY <1>0, <2>2, <2>4 DEF IInv, FailedJobClosesContest, DoneJobWasDecided
  <2> QED
    BY <2>2, <2>4, <2>5, <2>6, <2>7, <2>8 DEF IInv, RowsInOrder
<1>2. ASSUME NEW j \in Jobs, CancelJob(j) PROVE IInv' /\ UNCHANGED contest
  <2>1. /\ Release({j}, [k \in Jobs |-> "cancelled"]) /\ UNCHANGED contest
        /\ status[j] \in {"queued", "running"}
    BY <1>2 DEF CancelJob, Cancel, contestVars
  <2>2. /\ RowsInOrder' /\ status'[j] = "cancelled" /\ lease'[j] = "none"
        /\ \A k \in Jobs \ {j} : status'[k] = status[k] /\ lease'[k] = lease[k]
    <3>1. [k \in Jobs |-> "cancelled"] \in [Jobs -> Status \ {"absent", "running"}]
      BY DEF Status
    <3> QED
      BY <1>0, <2>1, <3>1, ReleaseRows
  <2>3. TypeOK'
    BY <1>0, <2>1, <2>2 DEF IInv, TypeOK, RowsInOrder
  <2>4. CreationInOrder'
    BY <1>0, <2>1, <2>2 DEF IInv, CreationInOrder
  <2>5. WorkersInOrder' /\ HandlersInOrder'
    BY <1>0, <2>1 DEF IInv, WorkersInOrder, HandlersInOrder
  <2>6. FailedJobClosesContest' /\ DoneJobWasDecided'
    BY <1>0, <2>1, <2>2 DEF IInv, FailedJobClosesContest, DoneJobWasDecided
  <2> QED
    BY <2>1, <2>2, <2>3, <2>4, <2>5, <2>6 DEF IInv, RowsInOrder
<1>3. ASSUME NEW j \in Jobs, Lapse(j) PROVE IInv' /\ UNCHANGED contest
  <2>1. /\ LeaseLapses(j) /\ UNCHANGED <<contest, status>> /\ creator[j] = "none"
        /\ lease[j] = "live" /\ lease' = [lease EXCEPT ![j] = "lapsed"]
    BY <1>3 DEF Lapse, LeaseLapses, contestVars
  <2>2. RowsInOrder'
    BY <1>0, <2>1, LapseRows
  <2>3. TypeOK'
    BY <1>0, <2>1, <2>2 DEF IInv, TypeOK, RowsInOrder
  <2>4. CreationInOrder'
    BY <1>0, <2>1 DEF IInv, TypeOK, JobTypeOK, CreationInOrder
  <2>5. WorkersInOrder' /\ HandlersInOrder'
    BY <1>0, <2>1 DEF IInv, WorkersInOrder, HandlersInOrder
  <2>6. FailedJobClosesContest' /\ DoneJobWasDecided'
    BY <1>0, <2>1 DEF IInv, FailedJobClosesContest, DoneJobWasDecided
  <2> QED
    BY <2>1, <2>2, <2>3, <2>4, <2>5, <2>6 DEF IInv, RowsInOrder
<1> QED
  BY <1>1, <1>2, <1>3

(* A worker claims, runs, reports, forgets.                                  *)
LEMMA WorkerStep ==
  ASSUME IInv, NEW p \in Procs,
         \/ \E j \in Jobs : ClaimJob(p, j)
         \/ CandidatesForClaim(p) \/ FinishRun(p) \/ RunErrs(p) \/ Forget(p)
         \/ \E h \in Handlers : Send(p, h)
  PROVE  IInv' /\ UNCHANGED contest
<1>0. /\ RowsInOrder /\ proc \in [Procs -> ProcState] /\ handler \in [Handlers -> Request]
      /\ evidence \in [Jobs -> [Candidates -> {"none", "measured", "reused"}]]
  BY DEF IInv, TypeOK, RowsInOrder
<1>1. ASSUME NEW j \in Jobs, ClaimJob(p, j) PROVE IInv' /\ UNCHANGED contest
  <2>1. /\ Claim(j, WorkerOf[p], {}) /\ UNCHANGED <<contest, attached, creator, verdict, handler>>
        /\ UNCHANGED evidence
    BY <1>1 DEF ClaimJob, contestVars
  <2>2. RowsInOrder'
    BY <1>0, <2>1, ClaimRows, ContestAssumption
  <2>3. /\ status' = [status EXCEPT ![j] = "running"] /\ lease' = [lease EXCEPT ![j] = "live"]
        /\ status[j] \in {"queued", "running"}
    BY <2>1 DEF Claim, Claimable
  <2>4. PICK row : row = [pc |-> "claimed", job |-> j, token |-> FreshToken(j), fresh |-> {}]
    OBVIOUS
  <2>5. /\ proc' = [proc EXCEPT ![p] = row] /\ row \in ProcState /\ row.pc = "claimed"
        /\ row.job = j
    <3>1. FreshToken(j) \in 0..MaxAttempts
      BY <1>0, <2>1, MaxAttemptsAssumption
         DEF RowsInOrder, JobTypeOK, Claim, Claimable, FreshToken
    <3> QED
      BY <1>1, <2>4, <3>1 DEF ClaimJob, ProcState
  <2>6. TypeOK'
    BY <1>0, <2>1, <2>2, <2>5 DEF IInv, TypeOK, RowsInOrder
  <2>7. CreationInOrder'
    BY <2>1, <2>3 DEF IInv, TypeOK, JobTypeOK, CreationInOrder
  <2>8. WorkersInOrder' /\ HandlersInOrder'
    BY <1>0, <2>1, <2>5 DEF IInv, WorkersInOrder, HandlersInOrder
  <2>9. FailedJobClosesContest' /\ DoneJobWasDecided'
    BY <2>1, <2>3 DEF IInv, TypeOK, JobTypeOK, FailedJobClosesContest, DoneJobWasDecided
  <2> QED
    BY <2>1, <2>2, <2>6, <2>7, <2>8, <2>9 DEF IInv, RowsInOrder
(* Everything else leaves the rows, and moves one process along its claim.   *)
<1>2. ASSUME UNCHANGED <<jobVars, contest, attached, creator, verdict>>,
             evidence' \in [Jobs -> [Candidates -> {"none", "measured", "reused"}]],
             NEW row \in ProcState, proc' = [proc EXCEPT ![p] = row],
             row.pc # "idle" => row.job \in Jobs,
             row.pc \in {"running", "reporting", "failing"} => attached[row.job],
             handler' \in [Handlers -> Request],
             \A h \in Handlers : \/ handler'[h] = handler[h]
                                 \/ /\ handler'[h].op \in {"report", "fail"}
                                    /\ handler'[h].phase = "sent"
                                    /\ handler'[h].job \in Jobs /\ attached[handler'[h].job]
      PROVE  IInv' /\ UNCHANGED contest
  <2>1. TypeOK'
    BY <1>0, <1>2 DEF IInv, TypeOK, JobTypeOK, jobVars
  <2>2. CreationInOrder' /\ RunningIsClaimed' /\ FailedJobClosesContest' /\ DoneJobWasDecided'
    BY <1>2 DEF IInv, CreationInOrder, RunningIsClaimed, FailedJobClosesContest,
                DoneJobWasDecided, jobVars
  <2>3. WorkersInOrder'
    BY <1>0, <1>2 DEF IInv, WorkersInOrder
  <2>4. HandlersInOrder'
    BY <1>0, <1>2 DEF IInv, HandlersInOrder
  <2> QED
    BY <1>2, <2>1, <2>2, <2>3, <2>4 DEF IInv
<1>3. Idle \in ProcState /\ Idle.pc = "idle"
  BY MaxAttemptsAssumption DEF Idle, ProcState
<1>4. PICK old \in ProcState : old = proc[p]
  BY <1>0
<1>5. /\ old.pc # "idle" => old.job \in Jobs
      /\ old.pc \in {"running", "reporting", "failing"} => attached[old.job]
  BY <1>4 DEF IInv, WorkersInOrder
<1>6. CASE CandidatesForClaim(p)
  <2> DEFINE j == old.job
  <2>1. /\ UNCHANGED <<jobVars, attached, creator, verdict, handler>> /\ UNCHANGED contest
        /\ old.pc = "claimed" /\ j \in Jobs
    BY <1>4, <1>5, <1>6 DEF CandidatesForClaim, StatusOnClaim
  <2>2. /\ evidence' \in [Jobs -> [Candidates -> {"none", "measured", "reused"}]]
        /\ \/ proc' = [proc EXCEPT ![p] = Idle]
           \/ \E fresh \in SUBSET Candidates :
                /\ proc' = [proc EXCEPT ![p].pc = "running", ![p].fresh = fresh]
                /\ attached[j]
    <3>1. CASE attached[j]
      <4>1. PICK reused \in SUBSET Candidates \ {Candidates} :
              /\ evidence' = [evidence EXCEPT ![j] =
                   [c \in Candidates |->
                      IF c \in reused THEN "reused"
                      ELSE IF @[c] = "reused" THEN "none" ELSE @[c]]]
              /\ \/ proc' = [proc EXCEPT ![p].pc = "running",
                                         ![p].fresh = Candidates \ reused]
                 \/ proc' = [proc EXCEPT ![p] = Idle]
        BY <1>4, <1>6, <3>1 DEF CandidatesForClaim
      <4>2. evidence' \in [Jobs -> [Candidates -> {"none", "measured", "reused"}]]
        BY <1>0, <2>1, <4>1
      <4>3. PICK fresh \in SUBSET Candidates : fresh = Candidates \ reused
        OBVIOUS
      <4>4. \/ proc' = [proc EXCEPT ![p].pc = "running", ![p].fresh = fresh]
            \/ proc' = [proc EXCEPT ![p] = Idle]
        BY <4>1, <4>3
      <4> QED
        BY <3>1, <4>2, <4>4
    <3>2. CASE ~attached[j]
      BY <1>0, <1>4, <1>6, <3>2 DEF CandidatesForClaim
    <3> QED
      BY <3>1, <3>2
  <2>3. CASE proc' = [proc EXCEPT ![p] = Idle]
    BY <1>0, <1>2, <1>3, <2>1, <2>2, <2>3
  <2>4. ASSUME NEW fresh \in SUBSET Candidates, attached[j],
               proc' = [proc EXCEPT ![p].pc = "running", ![p].fresh = fresh]
        PROVE  IInv' /\ UNCHANGED contest
    <3>1. PICK row : row = [old EXCEPT !.pc = "running", !.fresh = fresh]
      OBVIOUS
    <3>2. row \in ProcState /\ row.pc = "running" /\ row.job = j
      BY <3>1 DEF ProcState
    <3>3. proc' = [proc EXCEPT ![p] = row]
      BY <1>0, <1>4, <2>4, <3>1
    <3> QED
      BY <1>0, <1>2, <2>1, <2>2, <2>4, <3>2, <3>3
  <2> QED
    BY <2>2, <2>3, <2>4
<1>7. CASE FinishRun(p)
  <2>1. PICK more \in SUBSET Candidates :
          proc' = [proc EXCEPT ![p].pc = "reporting", ![p].fresh = @ \cup more]
    BY <1>7 DEF FinishRun
  <2>2. /\ UNCHANGED <<jobVars, contest, attached, creator, verdict, handler>>
        /\ UNCHANGED evidence /\ old.pc = "running"
    BY <1>4, <1>7 DEF FinishRun, contestVars
  <2>3. PICK row : row = [old EXCEPT !.pc = "reporting", !.fresh = @ \cup more]
    OBVIOUS
  <2>4. row \in ProcState /\ row.pc = "reporting" /\ row.job = old.job
    BY <2>3 DEF ProcState
  <2>5. proc' = [proc EXCEPT ![p] = row]
    BY <1>0, <1>4, <2>1, <2>3
  <2> QED
    BY <1>0, <1>2, <1>5, <2>2, <2>4, <2>5
<1>8. CASE RunErrs(p)
  <2>1. /\ UNCHANGED <<jobVars, contest, attached, creator, verdict, handler>>
        /\ UNCHANGED evidence /\ old.pc \in {"running", "reporting"}
        /\ proc' = [proc EXCEPT ![p].pc = "failing"]
    BY <1>4, <1>8 DEF RunErrs, contestVars
  <2>2. PICK row : row = [old EXCEPT !.pc = "failing"]
    OBVIOUS
  <2>3. row \in ProcState /\ row.pc = "failing" /\ row.job = old.job
    BY <2>2 DEF ProcState
  <2>4. proc' = [proc EXCEPT ![p] = row]
    BY <1>0, <1>4, <2>1, <2>2
  <2> QED
    BY <1>0, <1>2, <1>5, <2>1, <2>3, <2>4
<1>9. CASE Forget(p)
  <2>1. /\ UNCHANGED <<jobVars, contest, attached, creator, verdict, handler>>
        /\ UNCHANGED evidence /\ proc' = [proc EXCEPT ![p] = Idle]
    BY <1>9 DEF Forget, contestVars
  <2> QED
    BY <1>0, <1>2, <1>3, <2>1
<1>10. ASSUME NEW h \in Handlers, Send(p, h) PROVE IInv' /\ UNCHANGED contest
  <2>1. PICK usable \in BOOLEAN :
          handler' = [handler EXCEPT ![h] =
            [Free EXCEPT
               !.op = IF proc[p].pc = "reporting" THEN "report" ELSE "fail",
               !.job = proc[p].job, !.token = proc[p].token,
               !.fresh = proc[p].fresh, !.usable = usable]]
    BY <1>10 DEF Send
  <2>2. /\ UNCHANGED <<jobVars, contest, attached, creator, verdict, proc>>
        /\ UNCHANGED evidence /\ old.pc \in {"reporting", "failing"}
    BY <1>4, <1>10 DEF Send, contestVars
  <2>3. PICK q : q = [Free EXCEPT
               !.op = IF proc[p].pc = "reporting" THEN "report" ELSE "fail",
               !.job = proc[p].job, !.token = proc[p].token,
               !.fresh = proc[p].fresh, !.usable = usable]
    OBVIOUS
  <2>4. q = [op |-> IF old.pc = "reporting" THEN "report" ELSE "fail", phase |-> "sent",
             job |-> old.job, token |-> old.token, fresh |-> old.fresh,
             usable |-> usable, worker |-> NoWorker]
    BY <1>4, <2>3 DEF Free
  <2>5. /\ q \in Request /\ q.op \in {"report", "fail"} /\ q.phase = "sent"
        /\ q.job \in Jobs /\ attached[q.job]
    BY <1>5, <2>2, <2>4 DEF Request, ProcState
  <2>6. handler' = [handler EXCEPT ![h] = q] /\ proc' = [proc EXCEPT ![p] = old]
    BY <1>0, <1>4, <2>1, <2>2, <2>3
  <2> QED
    BY <1>0, <1>2, <1>5, <2>2, <2>5, <2>6
<1> QED
  BY <1>1, <1>6, <1>7, <1>8, <1>9, <1>10

-----------------------------------------------------------------------------
(* The server serves a request.                                              *)
LEMMA HandlerStep ==
  ASSUME IInv, NEW h \in Handlers,
         Verify(h) \/ FailContest(h) \/ Finish(h) \/ FinishFails(h) \/ CompleteJob(h) \/ FailJob(h)
  PROVE  IInv' /\ \A j \in Jobs : contest[j] \in Closed => contest'[j] \in Closed
<1> USE DEF Closed
<1>0. /\ RowsInOrder /\ handler \in [Handlers -> Request]
      /\ UNCHANGED <<attached, creator, proc>>
  BY DEF IInv, TypeOK, RowsInOrder, Verify, FailContest, Finish, FinishFails, CompleteJob,
         FailJob, contestVars
<1>1. PICK q \in Request : q = handler[h]
  BY <1>0
<1>2. /\ q.op # "none" => /\ q.job \in Jobs /\ attached[q.job] /\ creator[q.job] = "none"
                          /\ status[q.job] # "absent" /\ contest[q.job] # "none"
      /\ q.op = "report" /\ q.phase = "verified" => q.token # 0
      /\ q.op = "complete" => verdict[q.job] # 0 /\ contest[q.job] \in Closed
  BY <1>1 DEF IInv, HandlersInOrder, CreationInOrder
<1>3. Free \in Request /\ Free.op = "none"
  BY MaxAttemptsAssumption DEF Free, Request
(* A request that ends; what it wrote of the contest closed or decided it.   *)
<1>4. ASSUME NEW row \in Request, handler' = [handler EXCEPT ![h] = row],
             row.op # "none" => row.job \in Jobs /\ attached[row.job],
             row.op = "report" /\ row.phase = "verified" => row.token # 0,
             row.op = "complete" => verdict'[row.job] # 0 /\ contest'[row.job] \in Closed,
             \A j \in Jobs : /\ contest[j] \in Closed => contest'[j] \in Closed
                             /\ verdict[j] # 0 => verdict'[j] # 0
      PROVE  HandlersInOrder'
  BY <1>0, <1>4 DEF IInv, HandlersInOrder
<1>5. WorkersInOrder'
  BY <1>0 DEF IInv, WorkersInOrder
<1>6. CASE Verify(h)
  <2>1. UNCHANGED <<jobVars, contest, verdict, evidence>> /\ q.op # "none" /\ q.phase = "sent"
    BY <1>1, <1>6 DEF Verify, contestVars
  <2>2. CreationInOrder' /\ RunningIsClaimed' /\ FailedJobClosesContest' /\ DoneJobWasDecided'
    BY <1>0, <2>1 DEF IInv, CreationInOrder, RunningIsClaimed, FailedJobClosesContest,
                DoneJobWasDecided, jobVars
  <2>3. CASE ~(ClaimVerifies(q.job, q.token) /\ (q.op = "report" => attached[q.job]))
    <3>1. handler' = [handler EXCEPT ![h] = Free]
      BY <1>1, <1>6, <2>3 DEF Verify, Drop
    <3>2. HandlersInOrder'
      BY <1>3, <1>4, <2>1, <3>1
    <3>3. TypeOK'
      BY <1>0, <1>3, <2>1, <3>1 DEF IInv, TypeOK, JobTypeOK, jobVars
    <3> QED
      BY <1>5, <2>1, <2>2, <3>2, <3>3 DEF IInv
  <2>4. CASE ClaimVerifies(q.job, q.token) /\ (q.op = "report" => attached[q.job])
    <3>1. handler' = [handler EXCEPT ![h].phase = "verified",
                                     ![h].worker = worker[q.job],
                                     ![h].usable = @ /\ Covered(q)]
      BY <1>1, <1>6, <2>4 DEF Verify
    <3>2. PICK covered \in BOOLEAN : covered = (q.usable /\ Covered(q))
      BY DEF Request, Covered
    <3>3. PICK row : row = [q EXCEPT !.phase = "verified", !.worker = worker[q.job],
                                     !.usable = covered]
      OBVIOUS
    <3>4. worker[q.job] \in WorkerIds \cup {NoWorker} /\ q.token # 0
      BY <1>0, <1>2, <2>1, <2>4 DEF RowsInOrder, JobTypeOK, RunningIsClaimed, ClaimVerifies
    <3>5. row \in Request /\ row.op = q.op /\ row.job = q.job /\ row.token = q.token
      BY <3>3, <3>4 DEF Request
    <3>6. handler' = [handler EXCEPT ![h] = row]
      BY <1>0, <1>1, <3>1, <3>2, <3>3
    <3>7. HandlersInOrder'
      BY <1>2, <1>4, <2>1, <3>4, <3>5, <3>6
    <3>8. TypeOK'
      BY <1>0, <2>1, <3>5, <3>6 DEF IInv, TypeOK, JobTypeOK, jobVars
    <3> QED
      BY <1>5, <2>1, <2>2, <3>7, <3>8 DEF IInv
  <2> QED
    BY <2>3, <2>4
(* The contest alone is written.                                             *)
<1>7. ASSUME NEW j \in Jobs, attached[j], NEW to \in {"done", "failed"},
             contest' = [contest EXCEPT ![j] = to], UNCHANGED jobVars,
             verdict' \in [Jobs -> 0..MaxAttempts],
             evidence' \in [Jobs -> [Candidates -> {"none", "measured", "reused"}]],
             \A k \in Jobs : verdict[k] # 0 => verdict'[k] # 0,
             handler' \in [Handlers -> Request]
      PROVE  /\ TypeOK' /\ CreationInOrder' /\ RunningIsClaimed'
             /\ FailedJobClosesContest' /\ DoneJobWasDecided'
             /\ \A k \in Jobs : contest[k] \in Closed => contest'[k] \in Closed
  <2>1. TypeOK'
    BY <1>0, <1>7 DEF IInv, TypeOK, JobTypeOK, jobVars
  <2>2. \A k \in Jobs : contest'[k] = IF k = j THEN to ELSE contest[k]
    BY <1>7 DEF IInv, TypeOK
  <2>3. creator[j] = "none" /\ status[j] # "absent"
    BY <1>7 DEF IInv, CreationInOrder
  <2>4. CreationInOrder' /\ RunningIsClaimed'
    BY <1>0, <1>7, <2>2, <2>3 DEF IInv, CreationInOrder, RunningIsClaimed, jobVars
  <2>5. FailedJobClosesContest' /\ DoneJobWasDecided'
    BY <1>0, <1>7, <2>2 DEF IInv, FailedJobClosesContest, DoneJobWasDecided, jobVars
  <2> QED
    BY <2>1, <2>2, <2>4, <2>5
<1>8. CASE FailContest(h)
  <2>1. /\ UNCHANGED <<jobVars, verdict, evidence>> /\ q.op = "report" /\ q.phase = "verified"
        /\ contest' = [contest EXCEPT ![q.job] = "failed"]
        /\ handler' = [handler EXCEPT ![h] = Free]
    BY <1>1, <1>8 DEF FailContest, Verified, Drop
  <2>2. handler' \in [Handlers -> Request]
    BY <1>0, <1>3, <2>1
  <2>3. PICK to \in {"done", "failed"} : to = "failed"
    OBVIOUS
  <2>4. /\ TypeOK' /\ CreationInOrder' /\ RunningIsClaimed'
        /\ FailedJobClosesContest' /\ DoneJobWasDecided'
        /\ \A k \in Jobs : contest[k] \in Closed => contest'[k] \in Closed
    BY <1>2, <1>7, <2>1, <2>2, <2>3 DEF IInv, TypeOK
  <2>5. HandlersInOrder'
    BY <1>3, <1>4, <2>1, <2>4
  <2> QED
    BY <1>5, <2>4, <2>5 DEF IInv
<1>9. CASE Finish(h)
  <2>1. /\ UNCHANGED jobVars /\ q.op = "report" /\ q.phase = "verified"
        /\ contest' = [contest EXCEPT ![q.job] = "done"]
        /\ verdict' = [verdict EXCEPT ![q.job] = q.token]
        /\ evidence' = [evidence EXCEPT ![q.job] =
                        [c \in Candidates |->
                           IF c \in q.fresh THEN "measured" ELSE @[c]]]
        /\ handler' = [handler EXCEPT ![h].op = "complete"]
    BY <1>1, <1>9 DEF Finish, Verified
  <2>2. PICK row : row = [q EXCEPT !.op = "complete"]
    OBVIOUS
  <2>3. /\ row \in Request /\ row.op = "complete" /\ row.job = q.job
        /\ q.token # 0 /\ q.token \in 0..MaxAttempts
    BY <1>2, <2>1, <2>2 DEF Request
  <2>4. handler' = [handler EXCEPT ![h] = row] /\ handler' \in [Handlers -> Request]
    BY <1>0, <1>1, <2>1, <2>2, <2>3
  <2>5. /\ verdict' \in [Jobs -> 0..MaxAttempts] /\ verdict'[q.job] # 0
        /\ \A k \in Jobs : verdict[k] # 0 => verdict'[k] # 0
    BY <1>2, <2>1, <2>3 DEF IInv, TypeOK
  <2>6. evidence' \in [Jobs -> [Candidates -> {"none", "measured", "reused"}]]
    BY <1>2, <2>1 DEF IInv, TypeOK
  <2>7. PICK to \in {"done", "failed"} : to = "done"
    OBVIOUS
  <2>8. /\ TypeOK' /\ CreationInOrder' /\ RunningIsClaimed'
        /\ FailedJobClosesContest' /\ DoneJobWasDecided'
        /\ \A k \in Jobs : contest[k] \in Closed => contest'[k] \in Closed
    BY <1>2, <1>7, <2>1, <2>4, <2>5, <2>6, <2>7
  <2>9. contest'[q.job] \in Closed
    BY <1>2, <2>1 DEF IInv, TypeOK
  <2>10. HandlersInOrder'
    BY <1>2, <1>4, <2>1, <2>3, <2>4, <2>5, <2>8, <2>9
  <2> QED
    BY <1>5, <2>8, <2>10 DEF IInv
<1>10. ASSUME UNCHANGED <<jobVars, contest, verdict, evidence>>, Drop(h) PROVE IInv' /\ UNCHANGED contest
  <2>1. handler' = [handler EXCEPT ![h] = Free]
    BY <1>10 DEF Drop
  <2>2. HandlersInOrder'
    BY <1>3, <1>4, <1>10, <2>1
  <2>3. TypeOK'
    BY <1>0, <1>3, <1>10, <2>1 DEF IInv, TypeOK, JobTypeOK, jobVars
  <2>4. CreationInOrder' /\ RunningIsClaimed' /\ FailedJobClosesContest' /\ DoneJobWasDecided'
    BY <1>0, <1>10 DEF IInv, CreationInOrder, RunningIsClaimed, FailedJobClosesContest,
                DoneJobWasDecided, jobVars
  <2> QED
    BY <1>5, <1>10, <2>2, <2>3, <2>4 DEF IInv
<1>11. CASE FinishFails(h)
  BY <1>10, <1>11 DEF FinishFails, AbortFinish, contestVars
(* The job ends: done with a verdict, failed with a closed contest, or back  *)
(* in the queue.                                                             *)
<1>12. ASSUME q.op # "none", NEW new \in [Jobs -> Status \ {"absent", "running"}],
              Release({q.job}, new), UNCHANGED <<verdict, evidence>>, Drop(h),
              contest' \in [Jobs -> {"none", "pending", "running"} \cup Closed],
              \A j \in Jobs : contest'[j] = contest[j] \/ (contest'[j] = "failed" /\ j = q.job),
              new[q.job] = "failed" => contest'[q.job] \in Closed,
              new[q.job] = "done" => verdict[q.job] # 0 /\ contest'[q.job] \in Closed
       PROVE  IInv' /\ \A j \in Jobs : contest[j] \in Closed => contest'[j] \in Closed
  <2>1. /\ RowsInOrder' /\ status'[q.job] = new[q.job] /\ lease'[q.job] = "none"
        /\ \A j \in Jobs \ {q.job} : status'[j] = status[j] /\ lease'[j] = lease[j]
    <3>1. {q.job} \in SUBSET Jobs /\ Release({q.job}, new)
      BY <1>2, <1>12
    <3> QED
      BY <1>0, <3>1, ReleaseRows
  <2>2. new[q.job] # "absent"
    BY <1>2, <1>12
  <2>3. handler' = [handler EXCEPT ![h] = Free] /\ handler' \in [Handlers -> Request]
    BY <1>0, <1>3, <1>12 DEF Drop
  <2>4. TypeOK'
    BY <1>0, <1>12, <2>1, <2>3 DEF IInv, TypeOK, RowsInOrder
  <2>5. CreationInOrder'
    BY <1>0, <1>2, <1>12, <2>1, <2>2 DEF IInv, CreationInOrder
  <2>6. \A j \in Jobs : contest[j] \in Closed => contest'[j] \in Closed
    BY <1>12
  <2>7. HandlersInOrder'
    BY <1>3, <1>4, <1>12, <2>3, <2>6
  <2>8. FailedJobClosesContest' /\ DoneJobWasDecided'
    BY <1>12, <2>1, <2>6 DEF IInv, FailedJobClosesContest, DoneJobWasDecided
  <2> QED
    BY <1>5, <2>1, <2>4, <2>5, <2>6, <2>7, <2>8 DEF IInv, RowsInOrder
<1>13. CASE CompleteJob(h)
  <2>1. /\ q.op = "complete" /\ Drop(h) /\ UNCHANGED <<contest, verdict, evidence>>
        /\ Complete(q.job, q.worker) \/ UNCHANGED jobVars
    BY <1>1, <1>13 DEF CompleteJob, Verified, contestVars
  <2>2. CASE UNCHANGED jobVars
    BY <1>10, <2>1, <2>2
  <2>3. CASE Complete(q.job, q.worker)
    <3>1. PICK new \in [Jobs -> Status \ {"absent", "running"}] : new = [k \in Jobs |-> "done"]
      BY DEF Status
    <3>2. Release({q.job}, new) /\ new[q.job] = "done"
      BY <1>2, <2>1, <2>3, <3>1 DEF Complete
    <3> QED
      BY <1>2, <1>12, <2>1, <3>2 DEF IInv, TypeOK
  <2> QED
    BY <2>1, <2>2, <2>3
<1>14. CASE FailJob(h)
  <2>1. /\ q.op = "fail" /\ Drop(h) /\ UNCHANGED <<verdict, evidence>>
        /\ \/ /\ Fail(q.job, q.worker)
              /\ contest' = FailContests(IF AfterFail(q.job) = "failed" THEN {q.job} ELSE {})
           \/ UNCHANGED <<jobVars, contest>>
    BY <1>1, <1>14 DEF FailJob, Verified
  <2>2. CASE UNCHANGED <<jobVars, contest>>
    BY <1>10, <2>1, <2>2
  <2>3. CASE /\ Fail(q.job, q.worker)
             /\ contest' = FailContests(IF AfterFail(q.job) = "failed" THEN {q.job} ELSE {})
    <3>1. PICK new \in [Jobs -> Status \ {"absent", "running"}] : new = [k \in Jobs |-> AfterFail(k)]
      BY DEF Status, AfterFail
    <3>2. Release({q.job}, new) /\ new[q.job] = AfterFail(q.job) /\ new[q.job] # "done"
      BY <1>2, <2>1, <2>3, <3>1 DEF Fail, AfterFail
    <3>3. /\ contest' \in [Jobs -> {"none", "pending", "running"} \cup Closed]
          /\ \A j \in Jobs : contest'[j] = contest[j] \/ (contest'[j] = "failed" /\ j = q.job)
          /\ new[q.job] = "failed" => contest'[q.job] \in Closed
      BY <1>2, <2>1, <2>3, <3>2 DEF FailContests, IInv, TypeOK
    <3> QED
      BY <1>12, <2>1, <3>2, <3>3
  <2> QED
    BY <2>1, <2>2, <2>3
<1> QED
  BY <1>6, <1>8, <1>9, <1>11, <1>13, <1>14, <1>10

-----------------------------------------------------------------------------
(* The theorems.                                                             *)

LEMMA InitKeeps == Init => IInv
BY MaxAttemptsAssumption
   DEF Init, JobInit, IInv, TypeOK, JobTypeOK, Status, ProcState, Idle, Request, Free,
       CreationInOrder, RunningIsClaimed, WorkersInOrder, HandlersInOrder,
       FailedJobClosesContest, DoneJobWasDecided

ClosedStaysClosedStep == \A j \in Jobs : contest[j] \in Closed => contest'[j] \in Closed

LEMMA NextKeeps == IInv /\ [Next]_vars => IInv' /\ ClosedStaysClosedStep
<1>1. ASSUME IInv, UNCHANGED vars PROVE IInv' /\ ClosedStaysClosedStep
  BY <1>1 DEF vars, jobVars, contestVars, IInv, TypeOK, JobTypeOK, CreationInOrder,
       RunningIsClaimed, WorkersInOrder, HandlersInOrder, FailedJobClosesContest,
       DoneJobWasDecided, ClosedStaysClosedStep
<1>2. ASSUME IInv, NEW j \in Jobs,
             Create(j) \/ SubmitJob(j) \/ SubmitFails(j) \/ AttachJob(j) \/ CreatorDies(j)
      PROVE  IInv' /\ ClosedStaysClosedStep
  <2>1. \A k \in Jobs \ {j} : contest'[k] = contest[k]
    BY <1>2 DEF Create, SubmitJob, SubmitFails, AttachJob, CreatorDies, IInv, TypeOK
  <2> QED
    BY <1>2, <2>1, CreatorStep DEF ClosedStaysClosedStep
<1> QED
  BY <1>1, <1>2, QueueStep, WorkerStep, HandlerStep DEF Next, ClosedStaysClosedStep

(* The invariant holds of every behaviour.                                   *)
THEOREM ContestInvariant == Spec => []IInv
<1>1. IInv /\ [Next]_vars => IInv'
  BY NextKeeps
<1> QED
  BY InitKeeps, <1>1, PTL DEF Spec

(* A job that failed for good has closed its contest, whichever statement    *)
(* gave it up (pool.go failContests).                                        *)
THEOREM FailedJobsCloseContests == Spec => []FailedJobClosesContest
<1>1. IInv => FailedJobClosesContest
  BY DEF IInv
<1> QED
  BY ContestInvariant, <1>1, PTL

(* A job is done only once a verdict of its contest was stored, whoever      *)
(* closes it (routes.go registerReport).                                     *)
THEOREM DoneJobsWereDecided == Spec => []DoneJobWasDecided
<1>1. IInv => DoneJobWasDecided
  BY DEF IInv
<1> QED
  BY ContestInvariant, <1>1, PTL

(* A contest that ended stays ended, although its job may run once more.     *)
THEOREM ContestsStayClosed == Spec => ClosedStaysClosed
<1>1. IInv /\ [Next]_vars =>
        [\A j \in Jobs : contest[j] \in Closed => contest'[j] \in Closed]_vars
  BY NextKeeps DEF ClosedStaysClosedStep
<1> QED
  BY ContestInvariant, <1>1, PTL DEF Spec, ClosedStaysClosed
=============================================================================
