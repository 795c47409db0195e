--------------------------- MODULE CommandsProofs ---------------------------
(* What the runs check of a machine's commands (MCCommands), proved for all  *)
(* values of the constants: what an evaluation keeps of its sessions, what   *)
(* whetstone's authoring commands do to a skill, which description a tuning  *)
(* keeps, what a pull does to the skills directory, what a revision writes,  *)
(* and what sandboxes are left.  A part that a behaviour does not pick stays *)
(* as it began, so each invariant is one of the whole specification.         *)
EXTENDS MCCommands, Sequences, FiniteSetTheorems, WellFoundedInduction, TLAPS
-----------------------------------------------------------------------------
(* Every nonempty set of natural numbers has a least member; the reusable    *)
(* baseline that was created last is one of those that may be reused.        *)
Below == {p \in Nat \X Nat : p[1] < p[2]}

LEMMA Least ==
  ASSUME NEW G \in SUBSET Nat, G # {}
  PROVE  \E u \in G : \A v \in G : u <= v
<1>1. IsWellFoundedOn(Below, Nat)
  <2>1. Below = OpToRel(<, Nat)
    BY DEF Below, OpToRel
  <2>. QED BY <2>1, NatLessThanWellFounded, Zenon DEF OpToRel, Below
<1>. QED
  <2>. HIDE DEF Below
  <2>1. PICK x \in G : \A y \in G : ~ (<<y, x>> \in Below)
    BY <1>1, WFMin
  <2>2. \A y \in G : ~ (y < x)
    BY <2>1 DEF Below
  <2>. QED BY <2>2

LEMMA MaxIsThere ==
  ASSUME NEW G \in SUBSET Evals, G # {}
  PROVE  S!Max(G) \in G
<1>. USE EvalsAssumption
<1>1. PICK top \in Evals \cup {0} : \A e \in Evals : e <= top
  OBVIOUS
<1>. DEFINE Above == {u \in Nat : \A g \in G : g <= u}
<1>2. top \in Above
  BY <1>1
<1>3. PICK u \in Above : \A v \in Above : u <= v
  BY <1>2, Least
<1>4. u \in G
  <2>1. CASE u = 0
    <3>1. PICK g \in G : TRUE OBVIOUS
    <3>. QED BY <1>3, <2>1, <3>1
  <2>2. CASE u # 0 /\ u \notin G
    <3>1. u - 1 \in Above
      BY <1>3, <2>2
    <3>. QED BY <1>3, <2>2, <3>1
  <2>. QED BY <1>3, <2>1, <2>2
<1>5. \E x \in G : \A y \in G : x >= y
  BY <1>3, <1>4
<1>. QED BY <1>5 DEF S!Max

-----------------------------------------------------------------------------
(* A row names the evaluation that measured it, which has the same row; so   *)
(* no session can replace the artifacts that a copied row points to.         *)
OwnerHasIt == \A e \in Evals, k \in S!Keys : row[e][k].status = "ok" => row[row[e][k].of][k] = row[e][k]

(* What a session that is under way, or over, stands on.                     *)
SessionOK(e, k) ==
  /\ session[e][k].at \in {"invoked", "written"} =>
       row[e][k].status # "ok" /\ spent[e][k] # 0
  /\ session[e][k].at = "written" /\ session[e][k].status = "ok" => dir[e][k] = spent[e][k]
  /\ session[e][k].at = "known" => k \in Probes
  /\ session[e][k] # S!Waiting => process[e].at = "running"

(* What an evaluation and its process agree on.                              *)
EvalOK(e) ==
  /\ process[e].at # "off" => eval[e].suite = suite
  /\ eval[e].at = "none" => \A k \in S!Keys : row[e][k].status # "ok"

SessionsInv ==
  /\ S!TypeOK /\ S!MeasuredHasEvidence /\ S!OneSuitePerEval /\ OwnerHasIt
  /\ \A e \in Evals : EvalOK(e)
  /\ \A e \in Evals, k \in S!Keys : SessionOK(e, k)

LEMMA Measurement ==
  ASSUME NEW e \in Evals, NEW n0 \in Nat \ {0}, NEW x \in Suites, NEW s \in {"ok", "failed"}
  PROVE  /\ [status |-> s, of |-> e, attempt |-> n0, under |-> x] \in S!Rows
         /\ S!NoRow \in S!Rows /\ S!Claimed \in S!Rows
BY DEF S!Rows

LEMMA OkRows ==
  ASSUME NEW r \in S!Rows, r.status = "ok"
  PROVE  /\ r # S!NoRow /\ r # S!Claimed /\ r.of \in Evals /\ r.under \in Suites
         /\ r.attempt \in Nat \ {0}
BY DEF S!Rows, S!NoRow, S!Claimed

-----------------------------------------------------------------------------
(* The steps of an evaluation. First: only the sessions and the gate change. *)
LEMMA SessionsMove ==
  ASSUME SessionsInv, UNCHANGED << suite, eval, row, dir, spent, process >>,
         session' \in [Evals -> [S!Keys -> S!Sessions]], held' \subseteq Evals,
         \A e \in Evals, k \in S!Keys : SessionOK(e, k)'
  PROVE  SessionsInv'
<1>1. S!TypeOK'
  BY DEF SessionsInv, S!TypeOK
<1>2. S!MeasuredHasEvidence' /\ S!OneSuitePerEval' /\ OwnerHasIt'
  BY DEF SessionsInv, S!MeasuredHasEvidence, S!OneSuitePerEval, OwnerHasIt
<1>3. \A e \in Evals : EvalOK(e)'
  BY DEF SessionsInv, EvalOK
<1>. QED BY <1>1, <1>2, <1>3 DEF SessionsInv

LEMMA OutcomeOK ==
  ASSUME SessionsInv, NEW e \in Evals, NEW k \in S!Keys, NEW s, S!Outcome(e, k, s),
         process[e].at = "running", process' = process
  PROVE  /\ session' \in [Evals -> [S!Keys -> S!Sessions]]
         /\ \A f \in Evals, j \in S!Keys : f # e \/ j # k => session'[f][j] = session[f][j]
         /\ SessionOK(e, k)'
<1>1. PICK at \in {"graded", "known", "lost"} :
        session' = [session EXCEPT ![e][k] = [at |-> at]] /\ (at = "known" => k \in Probes)
  BY DEF S!Outcome, S!Goes, S!Judged, S!Keys, S!Graded
<1>2. session \in [Evals -> [S!Keys -> S!Sessions]] BY DEF SessionsInv, S!TypeOK
<1>3. [at |-> at] \in S!Sessions BY DEF S!Sessions
<1>4. session' \in [Evals -> [S!Keys -> S!Sessions]]
      /\ \A f \in Evals, j \in S!Keys : f # e \/ j # k => session'[f][j] = session[f][j]
  BY <1>1, <1>2, <1>3
<1>5. session'[e][k].at = at
  BY <1>1, <1>2
<1>. QED BY <1>1, <1>4, <1>5 DEF SessionOK

LEMMA RecallOK ==
  ASSUME SessionsInv, NEW e \in Evals, NEW k \in S!Keys, S!Recall(e, k) \/ S!FinishRunFails(e, k)
  PROVE  SessionsInv'
<1>1. UNCHANGED << suite, eval, row, dir, spent, process, held >> /\ \E s \in {"ok", "failed"} : S!Outcome(e, k, s)
  <2>1. S!FinishRunFails(e, k) => session[e][k].status \in {"ok", "failed"}
    <3>1. session[e][k] \in S!Sessions BY DEF SessionsInv, S!TypeOK
    <3>. QED BY <3>1 DEF S!FinishRunFails, S!Sessions, S!Waiting
  <2>. QED BY <2>1 DEF S!Recall, S!FinishRunFails
<1>2. process[e].at = "running"
  BY DEF S!Recall, S!FinishRunFails, S!MayStart, S!Running, SessionsInv, SessionOK, S!Waiting
<1>3. /\ session' \in [Evals -> [S!Keys -> S!Sessions]]
      /\ \A f \in Evals, j \in S!Keys : f # e \/ j # k => session'[f][j] = session[f][j]
      /\ SessionOK(e, k)'
  BY <1>1, <1>2, OutcomeOK
<1>4. \A f \in Evals, j \in S!Keys : SessionOK(f, j)'
  BY <1>1, <1>3 DEF SessionsInv, SessionOK
<1>. QED BY <1>1, <1>3, <1>4, SessionsMove DEF SessionsInv, S!TypeOK

LEMMA LimitedOK ==
  ASSUME SessionsInv, NEW e \in Evals, NEW k \in S!Keys, S!RateLimited(e, k)
  PROVE  SessionsInv'
<1>1. /\ UNCHANGED << suite, eval, row, dir, spent, process >> /\ session[e][k].at = "invoked"
      /\ session' = [session EXCEPT ![e][k] = [session[e][k] EXCEPT !.tries = @ + 1]]
      /\ held' \in {held, held \cup {e}} /\ session[e][k].tries < MaxRateLimitRetries
  BY DEF S!RateLimited, S!Goes
<1>2. session \in [Evals -> [S!Keys -> S!Sessions]] BY DEF SessionsInv, S!TypeOK
<1>. DEFINE next == [session[e][k] EXCEPT !.tries = @ + 1]
<1>3. next \in S!Sessions /\ next.at = "invoked"
  <2>1. session[e][k] \in S!Sessions BY <1>2
  <2>2. session[e][k] \in [at : {"invoked"}, tries : 1 .. MaxRateLimitRetries]
    BY <1>1, <2>1 DEF S!Sessions, S!Waiting
  <2>. QED BY <1>1, <2>2, EvalsAssumption DEF S!Sessions
<1>4. session' \in [Evals -> [S!Keys -> S!Sessions]] /\ session'[e][k] = next
      /\ \A f \in Evals, j \in S!Keys : f # e \/ j # k => session'[f][j] = session[f][j]
  <2>. HIDE DEF next
  <2>. QED BY <1>1, <1>2, <1>3 DEF next
<1>. HIDE DEF next
<1>5. SessionOK(e, k)'
  BY <1>1, <1>3, <1>4 DEF SessionsInv, SessionOK, S!Waiting
<1>6. \A f \in Evals, j \in S!Keys : SessionOK(f, j)'
  BY <1>1, <1>4, <1>5 DEF SessionsInv, SessionOK
<1>7. held' \subseteq Evals
  BY <1>1 DEF SessionsInv, S!TypeOK
<1>. QED BY <1>1, <1>4, <1>6, <1>7, SessionsMove

LEMMA InvokeOK ==
  ASSUME SessionsInv, NEW e \in Evals, NEW k \in S!Keys, S!Invoke(e, k)
  PROVE  SessionsInv'
<1>1. /\ UNCHANGED << suite, eval, dir, process, held >> /\ process[e].at = "running"
      /\ row' = [row EXCEPT ![e][k] = IF row[e][k] = S!NoRow THEN S!Claimed ELSE row[e][k]]
      /\ spent' = [spent EXCEPT ![e][k] = spent[e][k] + 1]
      /\ session' = [session EXCEPT ![e][k] = [at |-> "invoked", tries |-> 1]]
      /\ row[e][k].status # "ok"
  BY DEF S!Invoke, S!MayStart, S!Running, S!Goes, S!Done, SessionsInv, S!TypeOK
<1>2. /\ row \in [Evals -> [S!Keys -> S!Rows]] /\ spent \in [Evals -> [S!Keys -> Nat]]
      /\ session \in [Evals -> [S!Keys -> S!Sessions]]
  BY DEF SessionsInv, S!TypeOK
<1>3. [at |-> "invoked", tries |-> 1] \in S!Sessions
  BY EvalsAssumption DEF S!Sessions
<1>4. /\ row' \in [Evals -> [S!Keys -> S!Rows]] /\ spent' \in [Evals -> [S!Keys -> Nat]]
      /\ session' \in [Evals -> [S!Keys -> S!Sessions]]
      /\ \A f \in Evals, j \in S!Keys : f # e \/ j # k =>
           row'[f][j] = row[f][j] /\ spent'[f][j] = spent[f][j] /\ session'[f][j] = session[f][j]
  <2>1. S!Claimed \in S!Rows BY DEF S!Rows
  <2>. QED BY <1>1, <1>2, <1>3, <2>1
<1>5. row'[e][k].status # "ok" /\ spent'[e][k] # 0 /\ session'[e][k].at = "invoked"
  <2>1. S!Claimed.status # "ok" BY DEF S!Claimed
  <2>2. row'[e][k] = IF row[e][k] = S!NoRow THEN S!Claimed ELSE row[e][k] BY <1>1, <1>2
  <2>3. spent'[e][k] = spent[e][k] + 1 /\ spent[e][k] \in Nat BY <1>1, <1>2
  <2>. QED BY <1>1, <1>2, <2>1, <2>2, <2>3
<1>6. \A f \in Evals, j \in S!Keys : row'[f][j].status = "ok" =>
        row[f][j].status = "ok" /\ row'[f][j] = row[f][j] /\ row'[row[f][j].of][j] = row[row[f][j].of][j]
  <2> SUFFICES ASSUME NEW f \in Evals, NEW j \in S!Keys, row'[f][j].status = "ok"
               PROVE  row[f][j].status = "ok" /\ row'[f][j] = row[f][j] /\ row'[row[f][j].of][j] = row[row[f][j].of][j]
    OBVIOUS
  <2>1. row[f][j].status = "ok" /\ row'[f][j] = row[f][j] BY <1>4, <1>5
  <2>2. row[f][j].of \in Evals BY <1>2, <2>1, OkRows
  <2>3. row[row[f][j].of][j].status = "ok" BY <2>1 DEF SessionsInv, OwnerHasIt
  <2>. QED BY <1>1, <1>4, <2>1, <2>2, <2>3
<1>7. S!TypeOK'
  BY <1>1, <1>4 DEF SessionsInv, S!TypeOK
<1>8. S!MeasuredHasEvidence' /\ S!OneSuitePerEval' /\ OwnerHasIt'
  BY <1>1, <1>6 DEF SessionsInv, S!MeasuredHasEvidence, S!OneSuitePerEval, OwnerHasIt
<1>9. \A f \in Evals : EvalOK(f)'
  BY <1>1, <1>6 DEF SessionsInv, EvalOK
<1>10. \A f \in Evals, j \in S!Keys : SessionOK(f, j)'
  BY <1>1, <1>4, <1>5 DEF SessionsInv, SessionOK
<1>. QED BY <1>7, <1>8, <1>9, <1>10 DEF SessionsInv

LEMMA AnswersOK ==
  ASSUME SessionsInv, NEW e \in Evals, NEW k \in S!Keys, S!Answers(e, k)
  PROVE  SessionsInv'
<1>1. PICK status \in {"ok", "failed"}, wrote \in BOOLEAN :
        /\ dir' = [dir EXCEPT ![e][k] = IF wrote THEN spent[e][k] ELSE 0]
        /\ session' = [session EXCEPT ![e][k] = [at |-> "written", status |-> S!RecordedStatus(status, wrote)]]
  BY DEF S!Answers, S!Goes
<1>2. UNCHANGED <<suite, eval, row, spent, process, held>> /\ session[e][k].at = "invoked"
  BY DEF S!Answers
<1>. DEFINE s == S!RecordedStatus(status, wrote)
            next == [at |-> "written", status |-> s]
<1>3. s \in {"ok", "failed"} /\ (s = "ok" => wrote)
  BY DEF S!RecordedStatus
<1>4. next \in S!Sessions /\ next.at = "written" /\ next.status = s
  BY <1>3 DEF S!Sessions
<1>5. /\ dir \in [Evals -> [S!Keys -> Nat]] /\ spent \in [Evals -> [S!Keys -> Nat]]
      /\ session \in [Evals -> [S!Keys -> S!Sessions]]
      /\ row \in [Evals -> [S!Keys -> S!Rows]]
  BY DEF SessionsInv, S!TypeOK
<1>6. /\ dir' \in [Evals -> [S!Keys -> Nat]] /\ session' \in [Evals -> [S!Keys -> S!Sessions]]
      /\ \A f \in Evals, j \in S!Keys : f # e \/ j # k =>
           dir'[f][j] = dir[f][j] /\ session'[f][j] = session[f][j]
      /\ session'[e][k] = next /\ dir'[e][k] = IF wrote THEN spent[e][k] ELSE 0
  <2>1. session' = [session EXCEPT ![e][k] = next] BY <1>1
  <2>. HIDE DEF next
  <2>. QED BY <1>1, <1>4, <1>5, <2>1
<1>. HIDE DEF next, s
<1>7. row[e][k].status # "ok" /\ process[e].at = "running" /\ spent[e][k] # 0
  BY <1>2 DEF SessionsInv, SessionOK, S!Waiting
<1>8. S!TypeOK'
  BY <1>2, <1>6 DEF SessionsInv, S!TypeOK
<1>9. S!MeasuredHasEvidence'
  <2> SUFFICES ASSUME NEW f \in Evals, NEW j \in S!Keys, row[f][j].status = "ok"
               PROVE  dir'[row[f][j].of][j] = row[f][j].attempt
    BY <1>2 DEF S!MeasuredHasEvidence
  <2>1. row[f][j].of \in Evals BY <1>5, OkRows
  <2>2. row[row[f][j].of][j].status = "ok" BY DEF SessionsInv, OwnerHasIt
  <2>3. row[f][j].of # e \/ j # k BY <1>7, <2>2
  <2>. QED BY <1>6, <2>1, <2>3 DEF SessionsInv, S!MeasuredHasEvidence
<1>10. S!OneSuitePerEval' /\ OwnerHasIt'
  BY <1>2 DEF SessionsInv, S!OneSuitePerEval, OwnerHasIt
<1>11. \A f \in Evals : EvalOK(f)'
  BY <1>2 DEF SessionsInv, EvalOK
<1>12. SessionOK(e, k)'
  BY <1>2, <1>3, <1>4, <1>6, <1>7 DEF SessionOK
<1>13. \A f \in Evals, j \in S!Keys : SessionOK(f, j)'
  BY <1>2, <1>6, <1>12 DEF SessionsInv, SessionOK
<1>. QED BY <1>8, <1>9, <1>10, <1>11, <1>13 DEF SessionsInv

LEMMA FinishOK ==
  ASSUME SessionsInv, NEW e \in Evals, NEW k \in S!Keys, S!FinishRun(e, k)
  PROVE  SessionsInv'
<1>. DEFINE s == session[e][k].status
            new == [status |-> s, of |-> e, attempt |-> spent[e][k], under |-> suite]
<1>1. /\ UNCHANGED <<suite, eval, dir, spent, process, held>> /\ session[e][k].at = "written"
      /\ row' = [row EXCEPT ![e][k] = new] /\ S!Outcome(e, k, s)
  BY DEF S!FinishRun
<1>2. /\ session \in [Evals -> [S!Keys -> S!Sessions]] /\ row \in [Evals -> [S!Keys -> S!Rows]]
      /\ spent[e][k] \in Nat /\ suite \in Suites
  BY DEF SessionsInv, S!TypeOK
<1>3. s \in {"ok", "failed"}
  <2>1. session[e][k] \in S!Sessions BY <1>2
  <2>. QED BY <1>1, <2>1 DEF S!Sessions, S!Waiting
<1>4. /\ row[e][k].status # "ok" /\ spent[e][k] # 0 /\ process[e].at = "running"
      /\ s = "ok" => dir[e][k] = spent[e][k]
  BY <1>1 DEF SessionsInv, SessionOK, S!Waiting
<1>5. new \in S!Rows /\ new.status = s /\ new.of = e /\ new.attempt = spent[e][k] /\ new.under = suite
  BY <1>2, <1>3, <1>4, Measurement
<1>6. /\ session' \in [Evals -> [S!Keys -> S!Sessions]]
      /\ \A f \in Evals, j \in S!Keys : f # e \/ j # k => session'[f][j] = session[f][j]
      /\ SessionOK(e, k)'
  BY <1>1, <1>4, OutcomeOK
<1>. HIDE DEF new
<1>7. /\ row' \in [Evals -> [S!Keys -> S!Rows]] /\ row'[e][k] = new
      /\ \A f \in Evals, j \in S!Keys : f # e \/ j # k => row'[f][j] = row[f][j]
  BY <1>1, <1>2, <1>5
<1>. HIDE DEF s
<1>8. S!TypeOK'
  BY <1>1, <1>6, <1>7 DEF SessionsInv, S!TypeOK
<1>9. ASSUME NEW f \in Evals, NEW j \in S!Keys, row'[f][j].status = "ok"
      PROVE  /\ dir[row'[f][j].of][j] = row'[f][j].attempt
             /\ row'[f][j].under = eval[f].suite
             /\ row'[row'[f][j].of][j] = row'[f][j]
  <2>1. CASE f = e /\ j = k
    <3>1. eval[e].suite = suite BY <1>4 DEF SessionsInv, EvalOK
    <3>. QED BY <1>4, <1>5, <1>7, <1>9, <2>1, <3>1
  <2>2. CASE f # e \/ j # k
    <3>1. row'[f][j] = row[f][j] /\ row[f][j].status = "ok" BY <1>7, <1>9, <2>2
    <3>2. row[f][j].of \in Evals BY <1>2, <3>1, OkRows
    <3>3. row[row[f][j].of][j] = row[f][j] /\ row[row[f][j].of][j].status = "ok"
      BY <3>1 DEF SessionsInv, OwnerHasIt
    <3>4. row'[row[f][j].of][j] = row[row[f][j].of][j]
      BY <1>4, <1>7, <3>2, <3>3
    <3>. QED BY <3>1, <3>3, <3>4 DEF SessionsInv, S!MeasuredHasEvidence, S!OneSuitePerEval
  <2>. QED BY <2>1, <2>2
<1>10. S!MeasuredHasEvidence' /\ S!OneSuitePerEval' /\ OwnerHasIt'
  BY <1>1, <1>9 DEF S!MeasuredHasEvidence, S!OneSuitePerEval, OwnerHasIt
<1>11. \A f \in Evals : EvalOK(f)'
  <2>1. eval[e].at # "none" BY <1>4 DEF SessionsInv, S!TypeOK
  <2>. QED BY <1>1, <1>7, <2>1 DEF SessionsInv, EvalOK
<1>12. \A f \in Evals, j \in S!Keys : SessionOK(f, j)'
  BY <1>1, <1>6, <1>7 DEF SessionsInv, SessionOK
<1>. QED BY <1>8, <1>10, <1>11, <1>12 DEF SessionsInv

LEMMA StartsOK ==
  ASSUME SessionsInv, NEW e \in Evals, S!CreateEval(e) \/ S!Resume(e)
  PROVE  SessionsInv'
<1>1. /\ UNCHANGED << suite, row, dir, spent, session, held >>
      /\ process' = [process EXCEPT ![e] = [at |-> "reusing", plan |-> Plan[suite]]]
      /\ \/ eval[e] = S!NoEval /\ eval' = [eval EXCEPT ![e] = [at |-> "running", suite |-> suite]]
         \/ eval' = eval /\ process[e] = S!Off /\ S!Resumable(e)
  BY DEF S!CreateEval, S!Resume, S!Starts
<1>2. /\ eval \in [Evals -> S!EvalRows] /\ process \in [Evals -> S!Processes] /\ suite \in Suites
  BY DEF SessionsInv, S!TypeOK
<1>3. Plan[suite] \subseteq S!Keys
  BY <1>2 DEF Plan, S!Keys
<1>. DEFINE started == [at |-> "reusing", plan |-> Plan[suite]]
            new     == [at |-> "running", suite |-> suite]
<1>4. started \in S!Processes /\ started.at = "reusing" /\ new \in S!EvalRows /\ new.at = "running" /\ new.suite = suite
  BY <1>2, <1>3 DEF S!Processes, S!EvalRows
<1>5. process' \in [Evals -> S!Processes] /\ process'[e].at = "reusing"
      /\ \A f \in Evals : f # e => process'[f] = process[f]
  <2>1. process' = [process EXCEPT ![e] = started] BY <1>1
  <2>. HIDE DEF started
  <2>. QED BY <1>2, <1>4, <2>1
<1>6. /\ eval' \in [Evals -> S!EvalRows] /\ eval'[e].at # "none" /\ eval'[e].suite = suite
      /\ \A f \in Evals : f # e => eval'[f] = eval[f]
      /\ eval[e].at # "none" => eval'[e] = eval[e]
  <2>1. CASE eval[e] = S!NoEval /\ eval' = [eval EXCEPT ![e] = new]
    <3>. HIDE DEF new
    <3>. QED BY <1>2, <1>4, <2>1 DEF S!NoEval
  <2>2. CASE eval' = eval /\ S!Resumable(e)
    <3>1. eval[e] \in S!EvalRows /\ eval[e] # S!NoEval BY <1>2, <2>2 DEF S!Resumable
    <3>2. eval[e].at # "none" BY <3>1 DEF S!EvalRows
    <3>. QED BY <1>2, <2>2, <3>2 DEF S!Resumable
  <2>. QED BY <1>1, <2>1, <2>2
<1>. HIDE DEF started, new
<1>7. \A k \in S!Keys : session[e][k] = S!Waiting
  <2>1. process[e].at # "running"
    BY <1>1 DEF SessionsInv, S!TypeOK, S!NoEval, S!Off
  <2>. QED BY <2>1 DEF SessionsInv, SessionOK
<1>8. S!TypeOK'
  BY <1>1, <1>5, <1>6 DEF SessionsInv, S!TypeOK
<1>9. S!MeasuredHasEvidence' /\ OwnerHasIt'
  BY <1>1 DEF SessionsInv, S!MeasuredHasEvidence, OwnerHasIt
<1>10. S!OneSuitePerEval'
  <2> SUFFICES ASSUME NEW f \in Evals, NEW k \in S!Keys, row[f][k].status = "ok"
               PROVE  row[f][k].under = eval'[f].suite
    BY <1>1 DEF S!OneSuitePerEval
  <2>1. eval[f].at # "none" BY DEF SessionsInv, EvalOK
  <2>. QED BY <1>6, <2>1 DEF SessionsInv, S!OneSuitePerEval
<1>11. \A f \in Evals : EvalOK(f)'
  BY <1>1, <1>5, <1>6 DEF SessionsInv, EvalOK
<1>12. \A f \in Evals, k \in S!Keys : SessionOK(f, k)'
  <2> SUFFICES ASSUME NEW f \in Evals, NEW k \in S!Keys PROVE SessionOK(f, k)'
    OBVIOUS
  <2>1. CASE f = e
    BY <1>1, <1>7, <2>1 DEF SessionOK, S!Waiting
  <2>2. CASE f # e
    BY <1>1, <1>5, <2>2 DEF SessionsInv, SessionOK
  <2>. QED BY <2>1, <2>2
<1>. QED BY <1>8, <1>9, <1>10, <1>11, <1>12 DEF SessionsInv

LEMMA CopyOK ==
  ASSUME SessionsInv, NEW e \in Evals, S!CopyBaseline(e)
  PROVE  SessionsInv' /\ S!MeasuredOnceStep
<1>1. PICK reused \in SUBSET {k \in Baselines \cap process[e].plan : S!ReusableBaseline(e, k) # {}} :
        /\ row' = [row EXCEPT ![e] = [k \in S!Keys |-> IF k \in reused THEN S!Copied(e, k) ELSE row[e][k]]]
        /\ process' = [process EXCEPT ![e] = [at |-> "running", plan |-> @.plan \ reused]]
  BY DEF S!CopyBaseline
<1>2. /\ UNCHANGED <<suite, eval, dir, spent, session, held>> /\ process[e].at = "reusing"
  BY DEF S!CopyBaseline
<1>3. /\ row \in [Evals -> [S!Keys -> S!Rows]] /\ process \in [Evals -> S!Processes]
  BY DEF SessionsInv, S!TypeOK
<1>. DEFINE after1 == [at |-> "running", plan |-> process[e].plan \ reused]
<1>4. process' \in [Evals -> S!Processes] /\ process'[e].at = "running"
      /\ \A f \in Evals : f # e => process'[f] = process[f]
  <2>1. process[e].plan \subseteq S!Keys
    <3>1. process[e] \in S!Processes BY <1>3
    <3>. QED BY <1>2, <3>1 DEF S!Processes, S!Off
  <2>2. after1 \in S!Processes /\ after1.at = "running" BY <2>1 DEF S!Processes
  <2>3. process' = [process EXCEPT ![e] = after1] BY <1>1
  <2>. HIDE DEF after1
  <2>. QED BY <1>3, <2>2, <2>3
<1>5. ASSUME NEW k \in S!Keys
      PROVE  \/ row'[e][k] = row[e][k]
             \/ /\ row[e][k] = S!NoRow
                /\ \E f \in S!ReusableBaseline(e, k) : row'[e][k] = row[f][k]
  <2>1. row'[e][k] = IF k \in reused THEN S!Copied(e, k) ELSE row[e][k]
    BY <1>1, <1>3
  <2>2. k \in reused => S!Max(S!ReusableBaseline(e, k)) \in S!ReusableBaseline(e, k)
    <3>1. S!ReusableBaseline(e, k) \in SUBSET Evals BY DEF S!ReusableBaseline
    <3>. QED BY <3>1, MaxIsThere
  <2>. QED BY <2>1, <2>2 DEF S!Copied
<1>6. \A f \in Evals : f # e => row'[f] = row[f]
  BY <1>1, <1>3
<1>7. row' \in [Evals -> [S!Keys -> S!Rows]]
  <2>1. \A k \in S!Keys : row'[e][k] \in S!Rows
    BY <1>3, <1>5 DEF S!ReusableBaseline
  <2>2. row'[e] \in [S!Keys -> S!Rows]
    <3>. DEFINE copy == [k \in S!Keys |-> IF k \in reused THEN S!Copied(e, k) ELSE row[e][k]]
    <3>1. row'[e] = copy BY <1>1, <1>3
    <3>. QED BY <3>1, <2>1
  <2>3. row' = [f \in Evals |-> row'[f]] BY <1>1, <1>3
  <2>. QED BY <1>3, <1>6, <2>2, <2>3
<1>8. \A f \in Evals, k \in S!Keys : row[f][k].status = "ok" => row'[f][k] = row[f][k]
  BY <1>5, <1>6 DEF S!NoRow
<1>9. ASSUME NEW f \in Evals, NEW k \in S!Keys, row'[f][k].status = "ok"
      PROVE  \E g \in Evals : /\ row[g][k].status = "ok" /\ row'[f][k] = row[g][k]
                              /\ eval[g].suite = eval[f].suite
  <2>1. CASE row'[f][k] = row[f][k]
    BY <1>9, <2>1
  <2>2. CASE row'[f][k] # row[f][k]
    BY <1>5, <1>6, <2>2 DEF S!ReusableBaseline
  <2>. QED BY <2>1, <2>2
<1>10. S!TypeOK'
  BY <1>2, <1>4, <1>7 DEF SessionsInv, S!TypeOK
<1>11. S!MeasuredHasEvidence' /\ S!OneSuitePerEval' /\ OwnerHasIt'
  <2>1. ASSUME NEW f \in Evals, NEW k \in S!Keys, row'[f][k].status = "ok"
        PROVE  /\ dir[row'[f][k].of][k] = row'[f][k].attempt
               /\ row'[f][k].under = eval[f].suite
               /\ row'[row'[f][k].of][k] = row'[f][k]
    <3>1. PICK g \in Evals : row[g][k].status = "ok" /\ row'[f][k] = row[g][k] /\ eval[g].suite = eval[f].suite
      BY <1>9, <2>1
    <3>2. row[g][k].of \in Evals BY <1>3, <3>1, OkRows
    <3>3. row[row[g][k].of][k] = row[g][k] BY <3>1 DEF SessionsInv, OwnerHasIt
    <3>4. row'[row[g][k].of][k] = row[g][k] BY <1>8, <3>1, <3>2, <3>3
    <3>. QED BY <3>1, <3>4 DEF SessionsInv, S!MeasuredHasEvidence, S!OneSuitePerEval
  <2>. QED BY <1>2, <2>1 DEF S!MeasuredHasEvidence, S!OneSuitePerEval, OwnerHasIt
<1>12. \A f \in Evals : EvalOK(f)'
  <2>1. eval[e].at # "none" BY <1>2 DEF SessionsInv, S!TypeOK
  <2>. QED BY <1>2, <1>4, <1>6, <2>1 DEF SessionsInv, EvalOK
<1>13. \A f \in Evals, k \in S!Keys : SessionOK(f, k)'
  <2> SUFFICES ASSUME NEW f \in Evals, NEW k \in S!Keys PROVE SessionOK(f, k)'
    OBVIOUS
  <2>1. CASE f = e
    <3>1. session[e][k] = S!Waiting BY <1>2 DEF SessionsInv, SessionOK
    <3>. QED BY <1>2, <2>1, <3>1 DEF SessionOK, S!Waiting
  <2>2. CASE f # e
    BY <1>2, <1>4, <1>6, <2>2 DEF SessionsInv, SessionOK
  <2>. QED BY <2>1, <2>2
<1>. QED BY <1>8, <1>10, <1>11, <1>12, <1>13 DEF SessionsInv, S!MeasuredOnceStep

LEMMA QuitOK ==
  ASSUME SessionsInv, NEW e \in Evals, S!Compose(e) \/ S!Crash(e)
  PROVE  SessionsInv'
<1>1. /\ UNCHANGED << suite, row, dir, spent >> /\ S!Quits(e) /\ process[e].at # "off"
      /\ eval' = eval \/ eval' = [eval EXCEPT ![e] = S!Report(e)]
  BY DEF S!Compose, S!Crash, S!Running, S!Off, SessionsInv, S!TypeOK, S!Processes
<1>2. /\ eval \in [Evals -> S!EvalRows] /\ process \in [Evals -> S!Processes]
      /\ session \in [Evals -> [S!Keys -> S!Sessions]] /\ eval[e].at # "none"
  BY <1>1 DEF SessionsInv, S!TypeOK
<1>3. process' \in [Evals -> S!Processes] /\ process'[e].at = "off"
      /\ \A f \in Evals : f # e => process'[f] = process[f]
  <2>1. S!Off \in S!Processes /\ S!Off.at = "off" BY DEF S!Processes, S!Off
  <2>2. process' = [process EXCEPT ![e] = S!Off] BY <1>1 DEF S!Quits
  <2>. QED BY <1>2, <2>1, <2>2
<1>4. session' \in [Evals -> [S!Keys -> S!Sessions]]
      /\ (\A k \in S!Keys : session'[e][k] = S!Waiting)
      /\ \A f \in Evals : f # e => session'[f] = session[f]
  <2>. DEFINE none == [k \in S!Keys |-> S!Waiting]
  <2>1. none \in [S!Keys -> S!Sessions] /\ \A k \in S!Keys : none[k] = S!Waiting BY DEF S!Sessions
  <2>2. session' = [session EXCEPT ![e] = none] BY <1>1 DEF S!Quits
  <2>. HIDE DEF none
  <2>. QED BY <1>2, <2>1, <2>2
<1>5. eval' \in [Evals -> S!EvalRows] /\ eval'[e].suite = eval[e].suite /\ eval'[e].at # "none"
      /\ \A f \in Evals : f # e => eval'[f] = eval[f]
  <2>1. S!Report(e) \in S!EvalRows /\ S!Report(e).suite = eval[e].suite /\ S!Report(e).at = "done"
    <3>1. eval[e] \in S!EvalRows BY <1>2
    <3>2. eval[e].suite \in Suites BY <1>2, <3>1 DEF S!EvalRows, S!NoEval
    <3>3. S!Scored(e) \subseteq S!Graded BY DEF S!Scored
    <3>4. process[e].plan \subseteq S!Keys
      <4>1. process[e] \in S!Processes BY <1>2
      <4>. QED BY <1>1, <4>1 DEF S!Processes, S!Off
    <3>5. S!Known(e) \subseteq Probes BY <3>4 DEF S!Known, SessionsInv, SessionOK
    <3>. QED BY <3>2, <3>3, <3>5 DEF S!Report, S!EvalRows
  <2>. QED BY <1>1, <1>2, <2>1
<1>6. S!TypeOK'
  <2>1. held' \subseteq Evals BY <1>1 DEF S!Quits, SessionsInv, S!TypeOK
  <2>. QED BY <1>1, <1>3, <1>4, <1>5, <2>1 DEF SessionsInv, S!TypeOK
<1>7. S!MeasuredHasEvidence' /\ OwnerHasIt' /\ S!OneSuitePerEval'
  BY <1>1, <1>5 DEF SessionsInv, S!MeasuredHasEvidence, OwnerHasIt, S!OneSuitePerEval
<1>8. \A f \in Evals : EvalOK(f)'
  BY <1>1, <1>3, <1>5 DEF SessionsInv, EvalOK
<1>9. \A f \in Evals, k \in S!Keys : SessionOK(f, k)'
  <2> SUFFICES ASSUME NEW f \in Evals, NEW k \in S!Keys PROVE SessionOK(f, k)'
    OBVIOUS
  <2>1. CASE f = e
    BY <1>4, <2>1 DEF SessionOK, S!Waiting
  <2>2. CASE f # e
    BY <1>1, <1>3, <1>4, <2>2 DEF SessionsInv, SessionOK
  <2>. QED BY <2>1, <2>2
<1>. QED BY <1>6, <1>7, <1>8, <1>9 DEF SessionsInv

LEMMA EditHoldOK ==
  ASSUME SessionsInv, S!EditSuite \/ (\E e \in Evals : S!HoldPasses(e)) \/ UNCHANGED sVars
  PROVE  SessionsInv'
<1>1. /\ UNCHANGED << eval, row, dir, spent, process, session >> /\ held' \subseteq Evals
      /\ suite' = suite \/ (suite' \in Suites /\ \A e \in Evals : process[e] = S!Off)
  BY DEF S!EditSuite, S!HoldPasses, sVars, SessionsInv, S!TypeOK
<1>2. S!TypeOK'
  BY <1>1 DEF SessionsInv, S!TypeOK
<1>3. S!MeasuredHasEvidence' /\ OwnerHasIt' /\ S!OneSuitePerEval'
  BY <1>1 DEF SessionsInv, S!MeasuredHasEvidence, OwnerHasIt, S!OneSuitePerEval
<1>4. \A f \in Evals : EvalOK(f)'
  BY <1>1 DEF SessionsInv, EvalOK, S!Off
<1>5. \A f \in Evals, k \in S!Keys : SessionOK(f, k)'
  BY <1>1 DEF SessionsInv, SessionOK
<1>. QED BY <1>2, <1>3, <1>4, <1>5 DEF SessionsInv

LEMMA SessionsInit == Init => SessionsInv
<1> SUFFICES ASSUME S!Init PROVE SessionsInv
  BY DEF Init
<1>. USE DEF S!Init
<1>1. S!TypeOK
  BY DEF S!TypeOK, S!EvalRows, S!Rows, S!Processes, S!Sessions, S!Off
<1>2. \A e \in Evals, k \in S!Keys : row[e][k].status # "ok"
  BY DEF S!NoRow
<1>3. S!MeasuredHasEvidence /\ S!OneSuitePerEval /\ OwnerHasIt
  BY <1>2 DEF S!MeasuredHasEvidence, S!OneSuitePerEval, OwnerHasIt
<1>4. \A e \in Evals : EvalOK(e)
  BY <1>2 DEF EvalOK, S!Off
<1>5. \A e \in Evals, k \in S!Keys : SessionOK(e, k)
  BY DEF SessionOK, S!Waiting
<1>. QED BY <1>1, <1>3, <1>4, <1>5 DEF SessionsInv

LEMMA SessionsStep ==
  ASSUME SessionsInv, S!Next \/ UNCHANGED sVars
  PROVE  SessionsInv' /\ S!MeasuredOnceStep
<1>1. SessionsInv'
  <2>1. ASSUME NEW e \in Evals, S!Steps(e) PROVE SessionsInv'
    BY <2>1, CopyOK, QuitOK, InvokeOK, RecallOK, LimitedOK, AnswersOK, FinishOK DEF S!Steps
  <2>. QED BY <2>1, EditHoldOK, StartsOK, QuitOK DEF S!Next
<1>2. S!MeasuredOnceStep
  <2>1. row' = row => S!MeasuredOnceStep BY DEF S!MeasuredOnceStep
  <2>2. ASSUME NEW e \in Evals, NEW k \in S!Keys, S!Invoke(e, k) PROVE S!MeasuredOnceStep
    <3>1. row' = [row EXCEPT ![e][k] = IF row[e][k] = S!NoRow THEN S!Claimed ELSE row[e][k]]
          /\ row[e][k].status # "ok" /\ row \in [Evals -> [S!Keys -> S!Rows]]
      BY <2>2 DEF S!Invoke, S!Done, SessionsInv, S!TypeOK
    <3>. QED BY <3>1 DEF S!MeasuredOnceStep
  <2>3. ASSUME NEW e \in Evals, NEW k \in S!Keys, S!FinishRun(e, k) PROVE S!MeasuredOnceStep
    <3>1. PICK new : row' = [row EXCEPT ![e][k] = new] BY <2>3 DEF S!FinishRun
    <3>2. row[e][k].status # "ok" /\ row \in [Evals -> [S!Keys -> S!Rows]]
      BY <2>3 DEF SessionsInv, SessionOK, S!TypeOK, S!FinishRun
    <3>. QED BY <3>1, <3>2 DEF S!MeasuredOnceStep
  <2>4. ASSUME NEW e \in Evals, S!Steps(e) PROVE S!MeasuredOnceStep
    <3>1. S!Compose(e) \/ (\E k \in S!Keys : S!Recall(e, k) \/ S!RateLimited(e, k) \/ S!Answers(e, k)
                             \/ S!FinishRunFails(e, k)) => row' = row
      BY DEF S!Compose, S!Recall, S!RateLimited, S!Answers, S!FinishRunFails
    <3>. QED BY <2>1, <2>2, <2>3, <2>4, <3>1, CopyOK DEF S!Steps
  <2>5. S!EditSuite \/ (\E e \in Evals : S!CreateEval(e) \/ S!Resume(e) \/ S!HoldPasses(e) \/ S!Crash(e))
          \/ UNCHANGED sVars => row' = row
    BY DEF S!EditSuite, S!CreateEval, S!Resume, S!Starts, S!HoldPasses, S!Crash, sVars
  <2>. QED BY <2>1, <2>4, <2>5 DEF S!Next
<1>. QED BY <1>1, <1>2

LEMMA SessionsPreserved == SessionsInv /\ [Next]_all => SessionsInv' /\ S!MeasuredOnceStep
<1> SUFFICES ASSUME SessionsInv, [Next]_all PROVE SessionsInv' /\ S!MeasuredOnceStep
  OBVIOUS
<1>1. S!Next \/ UNCHANGED sVars
  BY DEF Next, Sessions, Skills, Hooks, Sandboxes, Authoring, Tuning, Revision, all
<1>. QED BY <1>1, SessionsStep

(* Rows of measured sessions have their evidence, and are of one eval set,   *)
(* for any number of evaluations killed and resumed (internal/eval/store).   *)
THEOREM SessionsInvariant == Spec => []SessionsInv
<1>1. SessionsInv /\ [Next]_all => SessionsInv'
  BY SessionsPreserved
<1>. QED BY <1>1, SessionsInit, PTL DEF Spec

(* A measured session has the trajectory its row names, wherever the row was *)
(* copied, and one evaluation is of one eval set (record.go:18-20).          *)
THEOREM EvidenceStays == Spec => []MeasuredHasEvidence
<1>1. SessionsInv => MeasuredHasEvidence
  BY DEF SessionsInv, MeasuredHasEvidence
<1>. QED BY <1>1, SessionsInvariant, PTL

(* A measured session is not measured again: claims, copies of baselines and *)
(* late finishes all leave its row alone (store/eval.go:225-229).            *)
THEOREM MeasuredStays == Spec => [][S!MeasuredOnceStep]_sVars
<1>1. SessionsInv /\ [Next]_all => [S!MeasuredOnceStep]_sVars
  BY SessionsPreserved
<1>. QED BY <1>1, SessionsInvariant, PTL DEF Spec
-----------------------------------------------------------------------------
(* Authoring.  What a command holds is a record; proofs look at its fields.  *)
SetRec == [files : A!Files, byHand : BOOLEAN]
CmdRec == [kind : A!Kinds \cup {"none"}, at : A!Steps, side : A!Sides,
           text : A!Text \cup {None}, open : A!Text \cup {None}, ver : 0 .. MaxSpecs,
           ref : A!Files \cup {None}, set : SetRec \cup {None}, sent : BOOLEAN \cup {None}]

(* What a command that is at a step has read, and what is there for it: it   *)
(* approves, or has approved, the version it stored, and what it writes into *)
(* the bundle is of an approved one.                                         *)
CmdOK(m) ==
  /\ m.kind = "none" => m = A!Idle
  /\ m.ver \in 0 .. Len(specs)
  /\ m.at \in {"row", "file"} => m.text \in A!Text
  /\ m.at = "editor" => m.kind = "edit" /\ m.text \in A!Text /\ m.open \in A!Text /\ file # None
  /\ m.at \in {"file", "patch"} \/ (m.at = "approve" /\ m.kind # "approve") =>
       m.ver # 0 /\ specs[m.ver].text = m.text
  /\ m.at \in {"approve", "bundle"} => m.ver # 0
  /\ m.at \in {"bundle", "patch"} => specs[m.ver].approved
  /\ m.kind \in {"tune", "propose"} =>
       bundle # None /\ (m.text # None => m.text \in A!Text /\ specs # << >>)
  /\ m.at \in {"model", "patch"} => m.kind \in {"tune", "propose"}
  /\ m.at = "files" => m.kind = "propose"
  /\ m.kind = "tune" => m.text \in A!Text
  /\ m.at = "upload" \/ m.sent # None => m.set \in SetRec
  /\ m.sent # None \/ m.at \in {"pack", "upload"} => m.kind = "push"
  /\ m.kind = "push" => m.side = "none" /\ m.at \in {"pack", "upload", "end"} /\ m.ref \in A!Files

Alone == \A c, d \in Commands : A!Active(c) /\ A!Active(d) => c = d

(* Where commands run one after the other: what a command has hashed of the  *)
(* eval set is the set, and the recorded ref is the set as last generated.   *)
DeclaredOK(m) ==
  /\ m.side \in {"hash", "record"} => evalset = machine
  /\ m.side = "record" => m.ref = evalset
  /\ m.kind = "push" => m.ref = evalset
  /\ m.at = "upload" \/ m.sent # None => m.set.byHand = (evalset # machine)
  /\ m.sent # None => m.sent = (evalset = machine)
Recorded == (\A c \in Commands : cmd[c].side = "none") => generated = machine

(* And a command that stores a version builds on the latest one, as does the *)
(* file on disk.                                                             *)
OnLatest(t) == A!Stored /\ t.desc = A!Latest.text.desc /\ A!Latest.text.edits \subseteq t.edits
LatestOK(m) ==
  /\ m.at = "file" => A!Stored /\ m.text = A!Latest.text
  /\ m.at = "row" /\ m.kind # "new" =>
       /\ A!Stored /\ A!Latest.text.edits \subseteq m.text.edits
       /\ m.text.desc = A!Latest.text.desc \/ m.text.edits = A!Latest.text.edits
  /\ m.at = "editor" => OnLatest(m.open) /\ m.text = A!Latest.text
  /\ m.kind = "tune" /\ m.at = "model" => m.text = A!Latest.text
FileOK == (\A c \in Commands : cmd[c].at # "file") /\ file # None => OnLatest(file)

CleanOK == /\ Alone /\ Recorded /\ FileOK
           /\ \A c \in Commands : DeclaredOK(cmd[c]) /\ LatestOK(cmd[c])

BundleThere == bundle # None => bundle.ver \in 0 .. Len(specs)

AuthoringInv ==
  /\ A!TypeOK /\ cmd \in [Commands -> CmdRec]
  /\ \A c \in Commands : CmdOK(cmd[c])
  /\ A!BundleIsApproved /\ BundleThere
  /\ clean => CleanOK

Version == [text : A!Text, approved : BOOLEAN]

LEMMA LatestTyped ==
  ASSUME specs \in Seq(Version), A!Stored
  PROVE  Len(specs) \in Nat \ {0} /\ A!Latest \in Version /\ A!Latest.text \in A!Text
<1>1. specs \in Seq(Version) /\ specs # << >> BY DEF A!Stored
<1>2. \A x \in Version : x.text \in A!Text BY DEF Version
<1>3. Len(specs) \in Nat \ {0} /\ specs[Len(specs)] \in Version BY <1>1
<1>. QED BY <1>3, <1>2 DEF A!Latest

LEMMA FieldsTyped ==
  ASSUME NEW r \in CmdRec
  PROVE  /\ \A k \in A!Kinds : [r EXCEPT !.kind = k] \in CmdRec
         /\ \A k \in A!Steps : [r EXCEPT !.at = k] \in CmdRec
         /\ \A k \in A!Sides : [r EXCEPT !.side = k] \in CmdRec
         /\ \A k \in A!Text : [r EXCEPT !.text = k] \in CmdRec
         /\ \A k \in A!Text : [r EXCEPT !.open = k] \in CmdRec
         /\ \A k \in 0 .. MaxSpecs : [r EXCEPT !.ver = k] \in CmdRec
         /\ \A k \in A!Files \cup {None} : [r EXCEPT !.ref = k] \in CmdRec
         /\ \A k \in SetRec : [r EXCEPT !.set = k] \in CmdRec
         /\ \A k \in BOOLEAN : [r EXCEPT !.sent = k] \in CmdRec
BY DEF CmdRec

-----------------------------------------------------------------------------
(* Commands start: each is one Run with a record of its own.                 *)
LEMMA RunOK ==
  ASSUME AuthoringInv, NEW c \in Commands, NEW r \in CmdRec, A!Run(c, r),
         file' = file \/ (file' \in A!Text /\ r.kind = "edit"), 
         CmdOK(r)', r.kind # "none",
         file' # file => r.at = "editor" /\ (clean' => OnLatest(file)'), 
         clean' => DeclaredOK(r)' /\ LatestOK(r)' /\ r.at # "file",
         r.sent = None
  PROVE  AuthoringInv'
<1> USE DEF A!Run
<1>1. cmd' = [cmd EXCEPT ![c] = r] /\ cmd' \in [Commands -> CmdRec]
  BY DEF AuthoringInv
<1>2. A!TypeOK'
  BY <1>1 DEF AuthoringInv, A!TypeOK, CmdRec, CmdOK
<1>3. \A d \in Commands : CmdOK(cmd[d])'
  BY <1>1 DEF AuthoringInv, CmdOK
<1>4. A!BundleIsApproved' /\ BundleThere'
  BY DEF AuthoringInv, A!BundleIsApproved, BundleThere
<1>5. ASSUME clean' PROVE CleanOK'
  <2>1. CleanOK /\ \A o \in Commands : cmd[o].kind = "none"
    BY <1>5 DEF AuthoringInv, A!Active
  <2>2. \A o \in Commands : o # c => cmd'[o] = A!Idle
    BY <2>1, <1>1 DEF AuthoringInv, CmdOK
  <2>3. Alone'
    BY <2>2, <1>1 DEF Alone, A!Active, A!Idle
  <2>4. Recorded'
    BY <2>1, <2>2, <1>1 DEF CleanOK, Recorded, AuthoringInv, CmdOK, A!Idle
  <2>5. FileOK'
    <3>1. \A d \in Commands : cmd[d].at # "file"
      BY <2>1 DEF AuthoringInv, CmdOK, A!Idle
    <3>2. file # None => OnLatest(file)
      BY <2>1, <3>1 DEF CleanOK, FileOK
    <3>3. file' = file /\ file # None => OnLatest(file)'
      BY <3>2 DEF OnLatest, A!Stored, A!Latest
    <3>. QED BY <3>3, <1>5 DEF FileOK
  <2>6. \A d \in Commands : DeclaredOK(cmd[d])' /\ LatestOK(cmd[d])'
    BY <2>2, <1>1, <1>5 DEF DeclaredOK, LatestOK, A!Idle
  <2>. QED BY <2>3, <2>4, <2>5, <2>6 DEF CleanOK
<1>. QED BY <1>1, <1>2, <1>3, <1>4, <1>5 DEF AuthoringInv

LEMMA StartOK ==
  ASSUME AuthoringInv, NEW c \in Commands, A!Start(c)
  PROVE  AuthoringInv'
<1> USE AuthoringAssumption
<1>0. A!Idle \in CmdRec
  BY DEF A!Idle, CmdRec, A!Steps, A!Sides
<1>. HIDE DEF CmdRec
<1>1. CASE A!New(c)
  <2>1. PICK d \in Descriptions : A!Run(c, [A!Idle EXCEPT !.kind = "new", !.at = "row",
                                        !.text = [edits |-> {}, desc |-> d]]) /\ file' = file
    BY <1>1 DEF A!New
  <2>. DEFINE q == [A!Idle EXCEPT !.kind = "new", !.at = "row", !.text = [edits |-> {}, desc |-> d]]
  <2>2a. q \in CmdRec
    BY <1>0, FieldsTyped DEF A!Steps, A!Sides, A!Kinds, A!Text
  <2>2b. PICK r \in CmdRec : r = q
    BY <2>2a
  <2>2. r.kind = "new" /\ r.at = "row" /\ r.text \in A!Text /\ r.ver = 0
        /\ r.side = "none" /\ r.sent = None
    BY <2>2b DEF A!Idle, A!Text
  <2>9. A!Run(c, r)
    BY <2>1, <2>2b
  <2>. HIDE DEF q
  <2>4. CmdOK(r)'
    BY <2>2, <2>9 DEF CmdOK, AuthoringInv, A!TypeOK, A!Run
  <2>5. DeclaredOK(r)' /\ LatestOK(r)'
    BY <2>2 DEF DeclaredOK, LatestOK
  <2>. QED BY <2>9, <2>1, <2>2, <2>9, <2>4, <2>5, RunOK
<1>2. CASE A!Edit(c)
  <2>. DEFINE q == [A!Idle EXCEPT !.kind = "edit", !.at = "editor",
                                  !.text = A!Latest.text, !.open = file']
  <2>1. A!Run(c, q) /\ A!Stored /\ file' = IF file = None THEN A!Latest.text ELSE file
    BY <1>2 DEF A!Edit
  <2>2. A!Latest.text \in A!Text
    BY <2>1, LatestTyped DEF AuthoringInv, A!TypeOK, Version
  <2>3. file' \in A!Text
    BY <2>1, <2>2 DEF AuthoringInv, A!TypeOK
  <2>4a. q \in CmdRec
    BY <2>2, <2>3, <1>0, FieldsTyped DEF A!Steps, A!Sides, A!Kinds
  <2>4b. PICK r \in CmdRec : r = q
    BY <2>4a
  <2>4. r.kind = "edit" /\ r.at = "editor" /\ r.text = A!Latest.text /\ r.ver = 0
        /\ r.side = "none" /\ r.sent = None /\ r.open = file'
    BY <2>4b DEF A!Idle
  <2>9. A!Run(c, r)
    BY <2>1, <2>4b
  <2>. HIDE DEF q
  <2>5. CmdOK(r)'
    BY <2>9, <2>1, <2>2, <2>3, <2>4 DEF CmdOK, AuthoringInv, A!TypeOK, A!Run
  <2>6. ASSUME clean' PROVE OnLatest(file)'
    <3>1. CleanOK /\ \A o \in Commands : cmd[o].kind = "none"
      BY <2>9, <2>1, <2>6 DEF AuthoringInv, A!Active, A!Run
    <3>2. file # None => OnLatest(file)
      BY <3>1 DEF AuthoringInv, CmdOK, A!Idle, CleanOK, FileOK
    <3>. QED BY <2>9, <2>1, <3>2 DEF OnLatest, A!Stored, A!Latest, A!Run
  <2>7. clean' => DeclaredOK(r)' /\ LatestOK(r)'
    BY <2>9, <2>1, <2>4, <2>6 DEF DeclaredOK, LatestOK, OnLatest, A!Latest, A!Run
  <2>. QED BY <2>9, <2>1, <2>3, <2>4, <2>5, <2>6, <2>7, RunOK
<1>3. CASE A!ApproveLatest(c)
  <2>. DEFINE q == [A!Idle EXCEPT !.kind = "approve", !.at = "approve", !.ver = Len(specs)]
  <2>1. A!Run(c, q) /\ A!Stored /\ file' = file
    BY <1>3 DEF A!ApproveLatest
  <2>2. Len(specs) \in 1 .. MaxSpecs /\ Len(specs) \in 0 .. MaxSpecs
    BY <2>1, LatestTyped DEF AuthoringInv, A!TypeOK, Version
  <2>4a. q \in CmdRec
    BY <2>2, <1>0, FieldsTyped DEF A!Steps, A!Sides, A!Kinds
  <2>4b. PICK r \in CmdRec : r = q
    BY <2>4a
  <2>4. r.kind = "approve" /\ r.at = "approve" /\ r.ver = Len(specs)
        /\ r.side = "none" /\ r.sent = None
    BY <2>4b DEF A!Idle
  <2>9. A!Run(c, r)
    BY <2>1, <2>4b
  <2>. HIDE DEF q
  <2>5. CmdOK(r)'
    BY <2>9, <2>1, <2>2, <2>4 DEF CmdOK, AuthoringInv, A!TypeOK, A!Run
  <2>6. DeclaredOK(r)' /\ LatestOK(r)'
    BY <2>4 DEF DeclaredOK, LatestOK
  <2>. QED BY <2>9, <2>1, <2>4, <2>5, <2>6, RunOK
<1>4. CASE A!Gen(c)
  <2>. DEFINE q == [A!Idle EXCEPT !.kind = "gen", !.at = "bundle", !.ver = Len(specs)]
  <2>1. A!Run(c, q) /\ A!Stored /\ A!Latest.approved /\ file' = file
    BY <1>4 DEF A!Gen, A!Approved
  <2>2. Len(specs) \in 1 .. MaxSpecs /\ Len(specs) \in 0 .. MaxSpecs
    BY <2>1, LatestTyped DEF AuthoringInv, A!TypeOK, Version
  <2>4a. q \in CmdRec
    BY <2>2, <1>0, FieldsTyped DEF A!Steps, A!Sides, A!Kinds
  <2>4b. PICK r \in CmdRec : r = q
    BY <2>4a
  <2>4. r.kind = "gen" /\ r.at = "bundle" /\ r.ver = Len(specs)
        /\ r.side = "none" /\ r.sent = None
    BY <2>4b DEF A!Idle
  <2>9. A!Run(c, r)
    BY <2>1, <2>4b
  <2>. HIDE DEF q
  <2>5. CmdOK(r)'
    BY <2>9, <2>1, <2>2, <2>4 DEF CmdOK, AuthoringInv, A!TypeOK, A!Run, A!Latest
  <2>6. DeclaredOK(r)' /\ LatestOK(r)'
    BY <2>4 DEF DeclaredOK, LatestOK
  <2>. QED BY <2>9, <2>1, <2>4, <2>5, <2>6, RunOK
<1>5. CASE A!SuiteGen(c)
  <2>. DEFINE q == [A!Idle EXCEPT !.kind = "suite", !.side = "evals"]
  <2>1. A!Run(c, q) /\ file' = file
    BY <1>5 DEF A!SuiteGen
  <2>4a. q \in CmdRec
    BY <1>0, FieldsTyped DEF A!Steps, A!Sides, A!Kinds
  <2>4b. PICK r \in CmdRec : r = q
    BY <2>4a
  <2>4. r.kind = "suite" /\ r.at = "end" /\ r.ver = 0
        /\ r.side = "evals" /\ r.sent = None
    BY <2>4b DEF A!Idle
  <2>9. A!Run(c, r)
    BY <2>1, <2>4b
  <2>. HIDE DEF q
  <2>5. CmdOK(r)'
    BY <2>9, <2>1, <2>4 DEF CmdOK, AuthoringInv, A!TypeOK, A!Run
  <2>6. DeclaredOK(r)' /\ LatestOK(r)'
    BY <2>4 DEF DeclaredOK, LatestOK
  <2>. QED BY <2>9, <2>1, <2>4, <2>5, <2>6, RunOK
<1>6. CASE A!Tune(c)
  <2>1. PICK short \in BOOLEAN :
           /\ A!Stored /\ bundle # None /\ file' = file
           /\ A!Run(c, [A!Idle EXCEPT !.kind = "tune", !.at = "model", !.text = A!Latest.text,
                                      !.side = IF short THEN "triggers" ELSE "none"])
    BY <1>6 DEF A!Tune
  <2>. DEFINE q == [A!Idle EXCEPT !.kind = "tune", !.at = "model", !.text = A!Latest.text,
                                  !.side = IF short THEN "triggers" ELSE "none"]
  <2>2. A!Latest.text \in A!Text
    BY <2>1, LatestTyped DEF AuthoringInv, A!TypeOK, Version
  <2>4a. q \in CmdRec
    BY <2>2, <1>0, FieldsTyped DEF A!Steps, A!Sides, A!Kinds
  <2>4b. PICK r \in CmdRec : r = q
    BY <2>4a
  <2>4. r.kind = "tune" /\ r.at = "model" /\ r.text = A!Latest.text /\ r.ver = 0
        /\ r.side \in {"triggers", "none"} /\ r.sent = None
    BY <2>4b DEF A!Idle
  <2>9. A!Run(c, r)
    BY <2>1, <2>4b
  <2>. HIDE DEF q
  <2>5. CmdOK(r)'
    BY <2>9, <2>1, <2>2, <2>9, <2>4 DEF CmdOK, AuthoringInv, A!TypeOK, A!Run, A!Stored
  <2>6. DeclaredOK(r)' /\ LatestOK(r)'
    BY <2>9, <2>4 DEF DeclaredOK, LatestOK, A!Latest, A!Run
  <2>. QED BY <2>9, <2>1, <2>9, <2>4, <2>5, <2>6, RunOK
<1>7. CASE A!Propose(c)
  <2>. DEFINE x == IF A!Stored THEN A!Latest.text ELSE None
  <2>0. PICK y \in A!Text \cup {None} : y = x /\ (y # None => y \in A!Text /\ A!Stored)
    <3>1. A!Stored => A!Latest.text \in A!Text
      BY LatestTyped DEF AuthoringInv, A!TypeOK, Version
    <3>. QED BY <3>1
  <2>. DEFINE q == [A!Idle EXCEPT !.kind = "propose", !.at = "model", !.text = y]
  <2>1. A!Run(c, q) /\ bundle # None /\ file' = file
    BY <1>7, <2>0 DEF A!Propose
  <2>. HIDE DEF x
  <2>4a. q \in CmdRec
    BY <1>0 DEF CmdRec, A!Steps, A!Sides, A!Kinds
  <2>4b. PICK r \in CmdRec : r = q
    BY <2>4a
  <2>4. r.kind = "propose" /\ r.at = "model" /\ r.ver = 0 /\ r.text = y
        /\ r.side = "none" /\ r.sent = None
    BY <2>4b DEF A!Idle
  <2>9. A!Run(c, r)
    BY <2>1, <2>4b
  <2>. HIDE DEF q
  <2>5. CmdOK(r)'
    BY <2>9, <2>1, <2>4, <2>0 DEF CmdOK, AuthoringInv, A!TypeOK, A!Run, A!Stored
  <2>6. DeclaredOK(r)' /\ LatestOK(r)'
    BY <2>4 DEF DeclaredOK, LatestOK
  <2>. QED BY <2>9, <2>1, <2>4, <2>5, <2>6, RunOK
<1>8. CASE A!Push(c)
  <2>. DEFINE q == [A!Idle EXCEPT !.kind = "push", !.at = "pack", !.ref = evalset]
  <2>1. A!Run(c, q) /\ file' = file
    BY <1>8 DEF A!Push
  <2>2. evalset \in A!Files BY DEF AuthoringInv, A!TypeOK
  <2>4a. q \in CmdRec
    BY <2>2, <1>0, FieldsTyped DEF A!Steps, A!Sides, A!Kinds
  <2>4b. PICK r \in CmdRec : r = q
    BY <2>4a
  <2>4. r.kind = "push" /\ r.at = "pack" /\ r.ver = 0 /\ r.ref = evalset
        /\ r.side = "none" /\ r.sent = None
    BY <2>4b DEF A!Idle
  <2>9. A!Run(c, r)
    BY <2>1, <2>4b
  <2>. HIDE DEF q
  <2>5. CmdOK(r)'
    BY <2>9, <2>1, <2>2, <2>4 DEF CmdOK, AuthoringInv, A!TypeOK, A!Run, A!Stored
  <2>6. DeclaredOK(r)' /\ LatestOK(r)'
    BY <2>9, <2>1, <2>4 DEF DeclaredOK, LatestOK, A!Run
  <2>. QED BY <2>9, <2>1, <2>4, <2>5, <2>6, RunOK
<1>. QED BY <1>1, <1>2, <1>3, <1>4, <1>5, <1>6, <1>7, <1>8 DEF A!Start

-----------------------------------------------------------------------------
(* What a command's step may do to the workspace: versions are added, keep   *)
(* their texts and stay approved.                                            *)
Grows ==
  /\ specs' \in Seq(Version) /\ Len(specs') \in Len(specs) .. MaxSpecs
  /\ \A v \in 1 .. Len(specs) : /\ specs'[v].text = specs[v].text
                                /\ specs[v].approved => specs'[v].approved
  /\ file' = file \/ file' \in A!Text
  /\ bundle' = bundle \/ bundle' \in [ver : 0 .. MaxSpecs, desc : Descriptions \cup {None}]
  /\ evalset' \in A!Files
  /\ machine' \in A!Files \cup {None}
  /\ generated' \in A!Files \cup {None}

BundleKept == bundle' = bundle \/ (A!BundleIsApproved' /\ BundleThere')

(* A step of one command, with the rest of the invariant carried over.       *)
LEMMA StepFrame ==
  ASSUME AuthoringInv, Grows, NEW c \in Commands, NEW r \in CmdRec,
         cmd' = [cmd EXCEPT ![c] = r], r.kind \in {"none", cmd[c].kind},
         faults' \in 0 .. MaxFaults, clean' \in BOOLEAN, clean' => clean,
         BundleKept,
         A!Active(c), CmdOK(r)',
         clean' => Recorded' /\ FileOK' /\ DeclaredOK(r)' /\ LatestOK(r)'
  PROVE  AuthoringInv'
<1> USE AuthoringAssumption
<1>1. cmd' \in [Commands -> CmdRec]
  BY DEF AuthoringInv
<1>2. \A d \in Commands : CmdOK(cmd[d])'
  <2> SUFFICES ASSUME NEW d \in Commands, d # c PROVE CmdOK(cmd[d])'
    BY DEF AuthoringInv
  <2>1. cmd'[d] = cmd[d] /\ CmdOK(cmd[d]) /\ cmd[d] \in CmdRec BY DEF AuthoringInv
  <2>2. PICK m \in CmdRec : m = cmd[d] BY <2>1
  <2>3. CmdOK(m) BY <2>1, <2>2
  <2>4. /\ specs # << >> => specs' # << >>
        /\ file # None => file' # None
        /\ bundle # None => bundle' # None
    BY DEF Grows, AuthoringInv, A!TypeOK
  <2>5. m.ver \in 0 .. Len(specs) /\ Len(specs) \in Nat /\ Len(specs') \in Nat /\ Len(specs') >= Len(specs)
    BY <2>3 DEF CmdOK, Grows, AuthoringInv, A!TypeOK
  <2>6. m.ver # 0 => /\ specs'[m.ver].text = specs[m.ver].text
                     /\ specs[m.ver].approved => specs'[m.ver].approved
    BY <2>5 DEF Grows
  <2>7. CmdOK(m)'
    BY <2>3, <2>4, <2>5, <2>6 DEF CmdOK
  <2>. QED BY <2>1, <2>2, <2>7
<1>3. A!TypeOK'
  <2>1. specs' \in Seq([text : A!Text, approved : BOOLEAN]) /\ Len(specs') <= MaxSpecs
    BY DEF Grows, Version, AuthoringInv, A!TypeOK
  <2>2. \A d \in Commands : /\ cmd'[d].kind \in A!Kinds \cup {"none"}
                            /\ cmd'[d].at \in A!Steps /\ cmd'[d].side \in A!Sides
                            /\ cmd'[d].ver \in 0 .. Len(specs')
                            /\ cmd'[d].sent # None => cmd'[d].set.byHand \in BOOLEAN
    BY <1>1, <1>2 DEF CmdRec, SetRec, CmdOK
  <2>3. /\ file' \in A!Text \cup {None}
        /\ bundle' \in [ver : 0 .. MaxSpecs, desc : Descriptions \cup {None}] \cup {None}
        /\ evalset' \in A!Files /\ machine' \in A!Files \cup {None}
        /\ generated' \in A!Files \cup {None}
    BY DEF Grows, AuthoringInv, A!TypeOK
  <2>. QED BY <2>1, <2>2, <2>3 DEF A!TypeOK
<1>4. A!BundleIsApproved' /\ BundleThere'
  <2>1. CASE bundle' = bundle
    <3>1. bundle # None => bundle.ver \in 0 .. MaxSpecs BY DEF AuthoringInv, A!TypeOK
    <3>. SUFFICES ASSUME bundle # None
                  PROVE  /\ bundle.ver \in 0 .. Len(specs')
                         /\ bundle.ver # 0 => specs'[bundle.ver].approved
                         /\ bundle.desc # None =>
                              \E v \in 1 .. Len(specs') : specs'[v].approved /\ specs'[v].text.desc = bundle.desc
      BY <2>1 DEF A!BundleIsApproved, BundleThere
    <3>2. bundle.ver \in 0 .. Len(specs) /\ (bundle.ver # 0 => specs[bundle.ver].approved)
      BY DEF AuthoringInv, A!BundleIsApproved, BundleThere
    <3>3. (bundle.ver # 0 => specs'[bundle.ver].approved) /\ bundle.ver \in 0 .. Len(specs')
      BY <3>2 DEF Grows, AuthoringInv, A!TypeOK
    <3>4. ASSUME bundle.desc # None
          PROVE \E v \in 1 .. Len(specs') : specs'[v].approved /\ specs'[v].text.desc = bundle.desc
      <4>1. PICK v \in 1 .. Len(specs) : specs[v].approved /\ specs[v].text.desc = bundle.desc
        BY <3>4 DEF AuthoringInv, A!BundleIsApproved
      <4>2. specs'[v].approved /\ specs'[v].text = specs[v].text /\ v \in 1 .. Len(specs')
        BY <4>1 DEF Grows, AuthoringInv, A!TypeOK
      <4>. QED BY <4>1, <4>2
    <3>. QED BY <3>3, <3>4
  <2>. QED BY <2>1 DEF BundleKept
<1>5. ASSUME clean' PROVE CleanOK'
  <2>1. \A d \in Commands : d # c => cmd'[d] = A!Idle
    BY <1>5 DEF AuthoringInv, CleanOK, Alone, A!Active, CmdOK
  <2>2. Alone'
    BY <2>1 DEF Alone, A!Active, A!Idle
  <2>3. \A d \in Commands : DeclaredOK(cmd[d])' /\ LatestOK(cmd[d])'
    BY <2>1, <1>1, <1>5 DEF DeclaredOK, LatestOK, A!Idle, AuthoringInv
  <2>. QED BY <2>2, <2>3, <1>5 DEF CleanOK
<1>. QED BY <1>1, <1>2, <1>3, <1>4, <1>5 DEF AuthoringInv

LEMMA EditorOK ==
  ASSUME AuthoringInv, NEW c \in Commands, A!Editor(c)
  PROVE  AuthoringInv'
<1> USE AuthoringAssumption
<1>1. PICK m \in CmdRec : m = cmd[c]
  BY DEF AuthoringInv
<1>2. CmdOK(m) /\ m.at = "editor" /\ A!Active(c) /\ m.kind = "edit"
  BY <1>1 DEF AuthoringInv, A!Editor, A!At, CmdOK
<1>3. file' \in A!Text /\ (file' = file \/ \E more \in SUBSET Edits : file' = [m.open EXCEPT !.edits = @ \cup more])
  <2>1. file \in A!Text /\ m.open \in A!Text
    BY <1>2 DEF CmdOK, AuthoringInv, A!TypeOK
  <2>. QED BY <1>1, <2>1 DEF A!Editor, A!Text
<1>. DEFINE q == [m EXCEPT !.text = file', !.at = IF file' = m.text THEN "end" ELSE "row"]
<1>4. cmd' = [cmd EXCEPT ![c] = q]
  BY <1>1 DEF A!Editor, AuthoringInv
<1>5. q \in CmdRec
  BY <1>3, FieldsTyped DEF A!Steps
<1>6. PICK r \in CmdRec : r = q
  BY <1>5
<1>7. /\ r.at \in {"end", "row"} /\ r.text = file' /\ r.kind = m.kind /\ r.side = m.side
      /\ r.ver = m.ver /\ r.ref = m.ref /\ r.set = m.set /\ r.sent = m.sent
  BY <1>6 DEF CmdRec
<1>. HIDE DEF q
<1>8. Grows
  BY <1>3 DEF Grows, A!Editor, AuthoringInv, A!TypeOK, Version
<1>9. CmdOK(r)'
  BY <1>2, <1>3, <1>7 DEF CmdOK, A!Editor
<1>10. ASSUME clean' PROVE Recorded' /\ FileOK' /\ DeclaredOK(r)' /\ LatestOK(r)'
  <2>1. CleanOK /\ DeclaredOK(m) /\ LatestOK(m)
    BY <1>1, <1>10 DEF AuthoringInv, CleanOK, A!Editor
  <2>2. \A d \in Commands : d # c => cmd[d].at = "end"
    BY <1>2, <2>1 DEF CleanOK, Alone, A!Active, AuthoringInv, CmdOK, A!Idle
  <2>3. (\A d \in Commands : cmd[d].at # "file") /\ OnLatest(file)
    BY <1>1, <1>2, <2>1, <2>2 DEF CleanOK, FileOK, CmdOK
  <2>4. OnLatest(file')
    <3>1. OnLatest(m.open) /\ m.open \in A!Text BY <1>2, <2>1 DEF LatestOK, CmdOK
    <3>2. \A more \in SUBSET Edits : OnLatest([m.open EXCEPT !.edits = @ \cup more])
      BY <3>1 DEF OnLatest, A!Text
    <3>. QED BY <1>3, <2>3, <3>2
  <2>5. A!Latest' = A!Latest /\ A!Stored' = A!Stored
    BY DEF A!Editor, A!Latest, A!Stored
  <2>6. OnLatest(file)'
    BY <2>4, <2>5 DEF OnLatest
  <2>7. Recorded'
    BY <1>1, <1>4, <1>6, <1>7, <2>1 DEF Recorded, CleanOK, A!Editor, AuthoringInv
  <2>8. DeclaredOK(r)'
    BY <2>1, <1>2, <1>7 DEF DeclaredOK, A!Editor, CmdOK
  <2>9. LatestOK(r)'
    BY <2>4, <2>5, <1>2, <1>7 DEF LatestOK, OnLatest
  <2>. QED BY <2>6, <2>7, <2>8, <2>9 DEF FileOK
<1>11. faults' \in 0 .. MaxFaults /\ clean' \in BOOLEAN /\ clean' = clean /\ BundleKept
  BY DEF AuthoringInv, A!TypeOK, BundleKept, A!Editor
<1>. QED BY <1>1, <1>2, <1>4, <1>6, <1>7, <1>8, <1>9, <1>10, <1>11, StepFrame

LEMMA SaveRowOK ==
  ASSUME AuthoringInv, NEW c \in Commands, A!SaveRow(c)
  PROVE  AuthoringInv'
<1> USE AuthoringAssumption
<1>1. PICK m \in CmdRec : m = cmd[c]
  BY DEF AuthoringInv
<1>2. CmdOK(m) /\ m.at = "row" /\ A!Active(c) /\ m.kind # "none" /\ m.text \in A!Text
  BY <1>1 DEF AuthoringInv, A!SaveRow, A!At, A!Active, CmdOK
<1>. DEFINE new == [text |-> m.text, approved |-> FALSE]
            q   == [m EXCEPT !.at = "file", !.ver = Len(specs) + 1]
<1>3. new \in Version /\ specs \in Seq(Version) /\ Len(specs) \in Nat /\ Len(specs) + 1 \in 1 .. MaxSpecs
  BY <1>2 DEF AuthoringInv, A!TypeOK, A!SaveRow, Version
<1>4. /\ specs' = Append(specs, new) /\ specs' \in Seq(Version)
      /\ Len(specs') = Len(specs) + 1 /\ specs'[Len(specs) + 1] = new
      /\ \A v \in 1 .. Len(specs) : specs'[v] = specs[v]
  <2>1. specs' = Append(specs, new) BY <1>1 DEF A!SaveRow
  <2>. HIDE DEF new
  <2>. QED BY <1>3, <2>1
<1>5. cmd' = [cmd EXCEPT ![c] = q] /\ q \in CmdRec
  <2>1. cmd' = [cmd EXCEPT ![c] = q] BY <1>1 DEF A!SaveRow, AuthoringInv
  <2>2. Len(specs) + 1 \in 0 .. MaxSpecs BY <1>3
  <2>. QED BY <2>1, <2>2, FieldsTyped DEF A!Steps
<1>6. PICK r \in CmdRec : r = q
  BY <1>5
<1>7. /\ r.at = "file" /\ r.ver = Len(specs) + 1 /\ r.text = m.text /\ r.kind = m.kind
      /\ r.side = m.side /\ r.ref = m.ref /\ r.set = m.set /\ r.sent = m.sent
  BY <1>6 DEF CmdRec
<1>. HIDE DEF q
<1>8. Grows
  BY <1>3, <1>4 DEF Grows, A!SaveRow, AuthoringInv, A!TypeOK
<1>9. CmdOK(r)'
  <2>1. /\ specs' # << >> /\ specs'[r.ver].text = r.text
        /\ r.ver # 0 /\ r.ver \in 0 .. Len(specs')
    BY <1>3, <1>4, <1>7
  <2>. HIDE DEF new
  <2>2. bundle' = bundle /\ file' = file
    BY DEF A!SaveRow
  <2>. QED BY <1>2, <1>7, <2>1, <2>2 DEF CmdOK
<1>10. ASSUME clean' PROVE Recorded' /\ FileOK' /\ DeclaredOK(r)' /\ LatestOK(r)'
  <2>1. CleanOK /\ DeclaredOK(m)
    BY <1>1, <1>10 DEF AuthoringInv, CleanOK, A!SaveRow
  <2>2. Recorded'
    BY <1>1, <1>5, <1>6, <1>7, <2>1 DEF Recorded, CleanOK, A!SaveRow, AuthoringInv
  <2>3. DeclaredOK(r)'
    BY <2>1, <1>2, <1>7 DEF DeclaredOK, A!SaveRow, CmdOK
  <2>4. LatestOK(r)' /\ FileOK'
    BY <1>3, <1>4, <1>5, <1>6, <1>7 DEF LatestOK, FileOK, A!Latest, A!Stored, AuthoringInv
  <2>. QED BY <2>2, <2>3, <2>4
<1>11. faults' \in 0 .. MaxFaults /\ clean' \in BOOLEAN /\ clean' = clean /\ BundleKept
  BY DEF AuthoringInv, A!TypeOK, BundleKept, A!SaveRow
<1>. QED BY <1>1, <1>2, <1>5, <1>6, <1>7, <1>8, <1>9, <1>10, <1>11, StepFrame

LEMMA SaveFileOK ==
  ASSUME AuthoringInv, NEW c \in Commands, A!SaveFile(c)
  PROVE  AuthoringInv'
<1> USE AuthoringAssumption
<1>1. PICK m \in CmdRec : m = cmd[c]
  BY DEF AuthoringInv
<1>2. CmdOK(m) /\ m.at = "file" /\ A!Active(c) /\ m.kind # "none" /\ m.text \in A!Text
  BY <1>1 DEF AuthoringInv, A!SaveFile, A!At, A!Active, CmdOK
<1>. DEFINE q == [m EXCEPT !.at = "approve"]
<1>3. file' = m.text
  BY <1>1 DEF A!SaveFile, A!Rewritten
<1>5. cmd' = [cmd EXCEPT ![c] = q] /\ q \in CmdRec
  <2>1. cmd' = [cmd EXCEPT ![c] = q] BY <1>1 DEF A!SaveFile, A!Go, AuthoringInv
  <2>. QED BY <2>1, FieldsTyped DEF A!Steps
<1>6. PICK r \in CmdRec : r = q
  BY <1>5
<1>7. /\ r.at = "approve" /\ r.ver = m.ver /\ r.text = m.text /\ r.kind = m.kind
      /\ r.side = m.side /\ r.ref = m.ref /\ r.set = m.set /\ r.sent = m.sent
  BY <1>6 DEF CmdRec
<1>. HIDE DEF q
<1>8. Grows
  BY <1>2, <1>3 DEF Grows, A!SaveFile, AuthoringInv, A!TypeOK, Version
<1>9. CmdOK(r)'
  BY <1>2, <1>3, <1>7 DEF CmdOK, A!SaveFile
<1>10. ASSUME clean' PROVE Recorded' /\ FileOK' /\ DeclaredOK(r)' /\ LatestOK(r)'
  <2>1. CleanOK /\ DeclaredOK(m) /\ LatestOK(m)
    BY <1>1, <1>10 DEF AuthoringInv, CleanOK, A!SaveFile
  <2>2. Recorded'
    BY <1>1, <1>5, <1>6, <1>7, <2>1 DEF Recorded, CleanOK, A!SaveFile, AuthoringInv
  <2>3. DeclaredOK(r)'
    BY <2>1, <1>2, <1>7 DEF DeclaredOK, A!SaveFile, CmdOK
  <2>4. LatestOK(r)'
    BY <1>7 DEF LatestOK
  <2>5. OnLatest(file)'
    BY <1>2, <1>3, <2>1 DEF LatestOK, OnLatest, A!Latest, A!Stored, A!SaveFile
  <2>. QED BY <2>2, <2>3, <2>4, <2>5 DEF FileOK
<1>11. faults' \in 0 .. MaxFaults /\ clean' \in BOOLEAN /\ clean' = clean /\ BundleKept
  BY DEF AuthoringInv, A!TypeOK, BundleKept, A!SaveFile
<1>. QED BY <1>1, <1>2, <1>5, <1>6, <1>7, <1>8, <1>9, <1>10, <1>11, StepFrame

LEMMA ApproveOK ==
  ASSUME AuthoringInv, NEW c \in Commands, A!Approve(c)
  PROVE  AuthoringInv'
<1> USE AuthoringAssumption
<1>1. PICK m \in CmdRec : m = cmd[c]
  BY DEF AuthoringInv
<1>2. CmdOK(m) /\ m.at = "approve" /\ A!Active(c) /\ m.kind # "none"
  BY <1>1 DEF AuthoringInv, A!Approve, A!At, A!Active, CmdOK
<1>. DEFINE q == [m EXCEPT
           !.at   = CASE @ = "approve" /\ m.kind = "new" -> "bundle"
                      [] m.kind \in {"tune", "propose"}  -> "patch"
                      [] OTHER                           -> "end",
           !.side = IF m.kind = "new" THEN "evals" ELSE @]
<1>3. m.ver \in 1 .. Len(specs) /\ specs \in Seq(Version) /\ Len(specs) \in Nat
  BY <1>2 DEF CmdOK, AuthoringInv, A!TypeOK, Version
<1>4. /\ specs' \in Seq(Version) /\ Len(specs') = Len(specs)
      /\ \A v \in 1 .. Len(specs) : /\ specs'[v].text = specs[v].text
                                    /\ specs[v].approved => specs'[v].approved
      /\ specs'[m.ver].approved
  <2>1. specs' = [specs EXCEPT ![m.ver].approved = TRUE]
    BY <1>1 DEF A!Approve
  <2>2. [specs[m.ver] EXCEPT !.approved = TRUE] \in Version
    <3>1. specs[m.ver] \in Version BY <1>3
    <3>. QED BY <3>1 DEF Version
  <2>3. [specs[m.ver] EXCEPT !.approved = TRUE].approved
        /\ [specs[m.ver] EXCEPT !.approved = TRUE].text = specs[m.ver].text
    <3>1. specs[m.ver] \in Version BY <1>3
    <3>. QED BY <3>1 DEF Version
  <2>4. specs' = [specs EXCEPT ![m.ver] = [specs[m.ver] EXCEPT !.approved = TRUE]]
    BY <2>1, <1>3
  <2>. QED BY <1>3, <2>2, <2>3, <2>4
<1>5. cmd' = [cmd EXCEPT ![c] = q] /\ q \in CmdRec
  <2>1. cmd' = [cmd EXCEPT ![c] = q] BY <1>1 DEF A!Approve, AuthoringInv
  <2>2. m.side \in A!Sides BY DEF CmdRec
  <2>. QED BY <2>1, <2>2, FieldsTyped DEF A!Steps, A!Sides
<1>6. PICK r \in CmdRec : r = q
  BY <1>5
<1>7. /\ r.at \in {"bundle", "patch", "end"}
      /\ r.at = "patch" => m.kind \in {"tune", "propose"}
      /\ r.side = m.side \/ (r.side = "evals" /\ m.kind = "new")
      /\ r.ver = m.ver /\ r.text = m.text /\ r.kind = m.kind
      /\ r.ref = m.ref /\ r.set = m.set /\ r.sent = m.sent
  BY <1>6, <1>2 DEF CmdRec
<1>. HIDE DEF q
<1>8. Grows
  BY <1>3, <1>4 DEF Grows, A!Approve, AuthoringInv, A!TypeOK
<1>9. CmdOK(r)'
  <2>1. specs # << >> => specs' # << >>
    BY <1>3, <1>4
  <2>2. m.ver # 0 /\ specs'[m.ver].text = specs[m.ver].text /\ m.ver \in 0 .. Len(specs')
    BY <1>3, <1>4
  <2>3. file' = file /\ bundle' = bundle
    BY DEF A!Approve
  <2>. QED BY <1>2, <1>4, <1>7, <2>1, <2>2, <2>3 DEF CmdOK
<1>10. ASSUME clean' PROVE Recorded' /\ FileOK' /\ DeclaredOK(r)' /\ LatestOK(r)'
  <2>1. CleanOK /\ DeclaredOK(m) /\ LatestOK(m)
    BY <1>1, <1>10 DEF AuthoringInv, CleanOK, A!Approve
  <2>2. Recorded'
    BY <1>1, <1>5, <1>6, <1>7, <2>1 DEF Recorded, CleanOK, A!Approve, AuthoringInv
  <2>3. DeclaredOK(r)'
    BY <2>1, <1>2, <1>7 DEF DeclaredOK, A!Approve, CmdOK
  <2>4. LatestOK(r)'
    <3>1. r.at # "model" BY <1>7
    <3>. QED BY <1>7, <3>1 DEF LatestOK
  <2>5. FileOK'
    <3>1. A!Latest'.text = A!Latest.text /\ A!Stored' = A!Stored
      BY <1>3, <1>4 DEF A!Latest, A!Stored
    <3>2. \A d \in Commands : d # c => cmd[d].at = "end"
      BY <1>2, <2>1 DEF CleanOK, Alone, A!Active, AuthoringInv, CmdOK, A!Idle
    <3>3. file # None => OnLatest(file)
      BY <1>1, <1>2, <2>1, <3>2 DEF CleanOK, FileOK
    <3>. QED BY <3>1, <3>3 DEF FileOK, OnLatest, A!Approve
  <2>. QED BY <2>2, <2>3, <2>4, <2>5
<1>11. faults' \in 0 .. MaxFaults /\ clean' \in BOOLEAN /\ clean' = clean /\ BundleKept
  BY DEF AuthoringInv, A!TypeOK, BundleKept, A!Approve
<1>. QED BY <1>1, <1>2, <1>5, <1>6, <1>7, <1>8, <1>9, <1>10, <1>11, StepFrame

LEMMA FileStays ==
  ASSUME AuthoringInv, CleanOK, NEW c \in Commands, A!Active(c), cmd[c].at # "file",
         UNCHANGED << specs, file >>
  PROVE  FileOK'
<1>1. \A d \in Commands : d # c => cmd[d].at = "end"
  BY DEF CleanOK, Alone, A!Active, AuthoringInv, CmdOK, A!Idle
<1>2. file # None => OnLatest(file)
  BY <1>1 DEF CleanOK, FileOK
<1>. QED BY <1>2 DEF FileOK, OnLatest, A!Latest, A!Stored

(* A step that touches neither the specifications, the file nor the bundle.  *)
LEMMA CmdStep ==
  ASSUME AuthoringInv, NEW c \in Commands, NEW r \in CmdRec, A!Active(c), cmd[c].at # "file",
         cmd' = [cmd EXCEPT ![c] = r], r.kind \in {"none", cmd[c].kind},
         specs' = specs, file' = file, bundle' = bundle,
         evalset' \in A!Files, machine' \in A!Files \cup {None}, generated' \in A!Files \cup {None},
         faults' \in 0 .. MaxFaults, clean' \in BOOLEAN, clean' => clean,
         CmdOK(r), clean' => Recorded' /\ DeclaredOK(r)' /\ LatestOK(r)
  PROVE  AuthoringInv'
<1>1. Grows
  BY DEF Grows, AuthoringInv, A!TypeOK, Version
<1>2. CmdOK(r)'
  BY DEF CmdOK
<1>3. clean' => FileOK'
  BY FileStays DEF AuthoringInv
<1>4. clean' => LatestOK(r)'
  BY DEF LatestOK, OnLatest, A!Latest, A!Stored
<1>5. BundleKept
  BY DEF BundleKept
<1>. QED BY <1>1, <1>2, <1>3, <1>4, <1>5, StepFrame

LEMMA BundleStepsOK ==
  ASSUME AuthoringInv, NEW c \in Commands, A!WriteBundle(c) \/ A!Patch(c) \/ A!WriteFiles(c)
  PROVE  AuthoringInv'
<1> USE AuthoringAssumption
<1>1. PICK m \in CmdRec : m = cmd[c]
  BY DEF AuthoringInv
<1>2. CmdOK(m) /\ m.at \in {"bundle", "patch", "files"} /\ A!Active(c) /\ m.kind # "none"
      /\ UNCHANGED << specs, file, evalset, machine, generated, faults, clean >>
  BY <1>1 DEF AuthoringInv, A!WriteBundle, A!Patch, A!WriteFiles, A!At, A!Active, CmdOK
<1>0. PICK to \in {"end", "files"} :
        cmd' = [cmd EXCEPT ![c].at = to] /\ (to = "files" => m.kind = "propose")
  BY <1>1 DEF A!WriteBundle, A!Patch, A!WriteFiles, A!Go
<1>. DEFINE q == [m EXCEPT !.at = to]
<1>3. cmd' = [cmd EXCEPT ![c] = q] /\ q \in CmdRec
  <2>1. cmd' = [cmd EXCEPT ![c] = q] BY <1>0, <1>1 DEF AuthoringInv
  <2>. QED BY <2>1, FieldsTyped DEF A!Steps
<1>4. PICK r \in CmdRec : r = q
  BY <1>3
<1>5. /\ r.at = to /\ r.ver = m.ver /\ r.text = m.text /\ r.kind = m.kind
      /\ r.side = m.side /\ r.ref = m.ref /\ r.set = m.set /\ r.sent = m.sent
  BY <1>4 DEF CmdRec
<1>. HIDE DEF q
<1>6. m.ver \in 0 .. Len(specs) /\ (m.at # "files" => m.ver # 0) /\ Len(specs) \in 0 .. MaxSpecs
  BY <1>2 DEF CmdOK, AuthoringInv, A!TypeOK
<1>7. bundle' \in [ver : 0 .. MaxSpecs, desc : Descriptions \cup {None}] /\ A!BundleIsApproved' /\ BundleThere'
  <2>1. CASE A!WriteBundle(c)
    <3>1. bundle' = [ver |-> m.ver, desc |-> None] /\ m.at = "bundle"
      BY <1>1, <2>1 DEF A!WriteBundle, A!At
    <3>. QED BY <3>1, <1>2, <1>6 DEF CmdOK, A!BundleIsApproved, BundleThere
  <2>2. CASE A!Patch(c)
    <3>1. bundle' = [bundle EXCEPT !.desc = m.text.desc] /\ m.at = "patch"
      BY <1>1, <2>2 DEF A!Patch, A!At
    <3>2. bundle # None /\ m.kind \in {"tune", "propose"} /\ m.ver # 0 /\ specs[m.ver].text = m.text
          /\ specs[m.ver].approved
      BY <1>2, <3>1 DEF CmdOK
    <3>3. bundle \in [ver : 0 .. MaxSpecs, desc : Descriptions \cup {None}]
      BY <3>2 DEF AuthoringInv, A!TypeOK
    <3>4. m.text.desc \in Descriptions
      <4>1. specs \in Seq(Version) BY DEF AuthoringInv, A!TypeOK, Version
      <4>2. specs[m.ver] \in Version BY <4>1, <1>6, <3>2
      <4>. QED BY <4>2, <3>2 DEF Version, A!Text
    <3>5. bundle' \in [ver : 0 .. MaxSpecs, desc : Descriptions \cup {None}]
          /\ bundle'.ver = bundle.ver /\ bundle'.desc = m.text.desc
      BY <3>1, <3>3, <3>4
    <3>6. (bundle.ver # 0 => specs[bundle.ver].approved) /\ bundle.ver \in 0 .. Len(specs)
      BY <3>2 DEF AuthoringInv, A!BundleIsApproved, BundleThere
    <3>7. \E v \in 1 .. Len(specs) : specs[v].approved /\ specs[v].text.desc = m.text.desc
      BY <3>2, <1>6
    <3>. QED BY <1>2, <3>5, <3>6, <3>7 DEF A!BundleIsApproved, BundleThere
  <2>3. CASE A!WriteFiles(c)
    <3>1. bundle' \in {bundle, [bundle EXCEPT !.desc = None]} /\ m.at = "files"
      BY <1>1, <2>3 DEF A!WriteFiles, A!At
    <3>2. bundle \in [ver : 0 .. MaxSpecs, desc : Descriptions \cup {None}]
      BY <1>2, <3>1 DEF CmdOK, AuthoringInv, A!TypeOK
    <3>3. bundle' \in [ver : 0 .. MaxSpecs, desc : Descriptions \cup {None}]
          /\ bundle'.ver = bundle.ver /\ bundle'.desc \in {bundle.desc, None}
      BY <3>1, <3>2
    <3>4. A!BundleIsApproved /\ BundleThere /\ bundle # None
      BY <1>2, <3>1 DEF AuthoringInv, CmdOK
    <3>. QED BY <1>2, <3>3, <3>4 DEF A!BundleIsApproved, BundleThere
  <2>. QED BY <2>1, <2>2, <2>3, <1>2
<1>8. Grows
  BY <1>2, <1>6, <1>7 DEF Grows, AuthoringInv, A!TypeOK, Version
<1>9. CmdOK(r)'
  <2>1. bundle' # None BY <1>7, AuthoringAssumption
  <2>. QED BY <1>0, <1>2, <1>5, <2>1 DEF CmdOK
<1>10. ASSUME clean' PROVE Recorded' /\ FileOK' /\ DeclaredOK(r)' /\ LatestOK(r)'
  <2>1. CleanOK /\ DeclaredOK(m)
    BY <1>1, <1>2, <1>10 DEF AuthoringInv, CleanOK
  <2>2. Recorded'
    BY <1>1, <1>2, <1>3, <1>4, <1>5, <2>1 DEF Recorded, CleanOK, AuthoringInv
  <2>3. DeclaredOK(r)'
    BY <2>1, <1>2, <1>5 DEF DeclaredOK, CmdOK
  <2>4. LatestOK(r)'
    BY <1>5 DEF LatestOK
  <2>5. FileOK'
    BY <1>1, <1>2, <2>1, FileStays
  <2>. QED BY <2>2, <2>3, <2>4, <2>5
<1>11. faults' \in 0 .. MaxFaults /\ clean' \in BOOLEAN /\ (clean' => clean)
  BY <1>2 DEF AuthoringInv, A!TypeOK
<1>12. r.kind \in {"none", cmd[c].kind} /\ cmd' = [cmd EXCEPT ![c] = r] /\ A!Active(c)
  BY <1>1, <1>2, <1>3, <1>4, <1>5
<1>13. BundleKept
  BY <1>7 DEF BundleKept
<1>. QED BY <1>4, <1>8, <1>9, <1>10, <1>11, <1>12, <1>13, StepFrame

LEMMA ModelStepsOK ==
  ASSUME AuthoringInv, NEW c \in Commands, A!Answered(c)
  PROVE  AuthoringInv'
<1> USE AuthoringAssumption
<1>1. PICK m \in CmdRec : m = cmd[c]
  BY DEF AuthoringInv
<1>2. /\ CmdOK(m) /\ m.at = "model" /\ m.side = "none" /\ A!Active(c) /\ m.kind \in {"tune", "propose"}
      /\ UNCHANGED << A!workspace, faults, clean >>
  BY <1>1 DEF AuthoringInv, A!Answered, A!At, A!Side, A!Active, CmdOK
<1>3. m.text # None => A!Stored /\ A!Latest.text \in A!Text /\ A!Base(c) \in A!Text
  <2> SUFFICES ASSUME m.text # None PROVE A!Stored /\ A!Latest.text \in A!Text /\ A!Base(c) \in A!Text
    OBVIOUS
  <2>1. specs \in Seq(Version) /\ A!Stored
    BY <1>2 DEF AuthoringInv, A!TypeOK, Version, CmdOK, A!Stored
  <2>. QED BY <1>1, <1>2, <2>1, LatestTyped DEF A!Base, CmdOK
<1>. DEFINE Quiet(q) == \/ q = [m EXCEPT !.at = "end"]
                        \/ q = [m EXCEPT !.at = "files"] /\ m.kind = "propose"
            Anew(q) == m.text # None /\ \E d \in Descriptions :
                          q = [m EXCEPT !.at = "row", !.text = [A!Base(c) EXCEPT !.desc = d]]
<1>4. \E q : cmd' = [cmd EXCEPT ![c] = q] /\ (Quiet(q) \/ Anew(q))
  <2>1. cmd \in [Commands -> CmdRec] BY DEF AuthoringInv
  <2>2. CASE A!Go(c, "end")
    <3>1. cmd' = [cmd EXCEPT ![c] = [m EXCEPT !.at = "end"]]
      BY <1>1, <2>1, <2>2 DEF A!Go
    <3>. QED BY <3>1
  <2>3. CASE A!Go(c, "files") /\ m.kind = "propose"
    <3>1. cmd' = [cmd EXCEPT ![c] = [m EXCEPT !.at = "files"]]
      BY <1>1, <2>1, <2>3 DEF A!Go
    <3>. QED BY <2>3, <3>1
  <2>4. CASE m.text # None /\ \E d \in Descriptions :
               cmd' = [cmd EXCEPT ![c].at = "row", ![c].text = [A!Base(c) EXCEPT !.desc = d]]
    <3>1. PICK d \in Descriptions :
               cmd' = [cmd EXCEPT ![c].at = "row", ![c].text = [A!Base(c) EXCEPT !.desc = d]]
      BY <2>4
    <3>2. cmd' = [cmd EXCEPT ![c] = [m EXCEPT !.at = "row", !.text = [A!Base(c) EXCEPT !.desc = d]]]
      BY <1>1, <2>1, <3>1
    <3>. QED BY <2>4, <3>2
  <2>. QED BY <1>1, <2>2, <2>3, <2>4 DEF A!Answered
<1>4a. PICK q : cmd' = [cmd EXCEPT ![c] = q] /\ (Quiet(q) \/ Anew(q))
  BY <1>4
<1>5. PICK r \in CmdRec : r = q
  <2>1. "end" \in A!Steps /\ "row" \in A!Steps /\ "files" \in A!Steps BY DEF A!Steps
  <2>2. CASE Quiet(q)
    BY <2>1, <2>2, FieldsTyped
  <2>3. CASE Anew(q)
    <3>1. PICK d \in Descriptions, t \in A!Text : q = [m EXCEPT !.at = "row", !.text = t]
      <4>1. \A d \in Descriptions : [A!Base(c) EXCEPT !.desc = d] \in A!Text
        BY <1>3, <2>3 DEF A!Text
      <4>. QED BY <2>3, <4>1
    <3>. QED BY <2>1, <3>1, FieldsTyped
  <2>. QED BY <1>4a, <2>2, <2>3
<1>7. /\ r.kind = m.kind /\ r.side = m.side /\ r.ver = m.ver /\ r.ref = m.ref /\ r.set = m.set /\ r.sent = m.sent
      /\ \/ r.at = "end" /\ r.text = m.text
         \/ r.at = "files" /\ r.text = m.text /\ m.kind = "propose"
         \/ /\ r.at = "row" /\ r.text \in A!Text /\ m.text # None
            /\ r.text.edits = A!Base(c).edits
  <2>2. CASE Quiet(q)
    BY <2>2, <1>5 DEF CmdRec
  <2>3. CASE Anew(q)
    <3>1. PICK t \in A!Text : q = [m EXCEPT !.at = "row", !.text = t] /\ t.edits = A!Base(c).edits
      <4>1. \A d \in Descriptions : [A!Base(c) EXCEPT !.desc = d] \in A!Text
                                    /\ [A!Base(c) EXCEPT !.desc = d].edits = A!Base(c).edits
        BY <1>3, <2>3 DEF A!Text
      <4>. QED BY <2>3, <4>1
    <3>. QED BY <2>3, <3>1, <1>5 DEF CmdRec
  <2>. QED BY <1>4a, <2>2, <2>3
<1>6. cmd' = [cmd EXCEPT ![c] = r]
  BY <1>4a, <1>5
<1>. HIDE DEF Quiet, Anew
<1>8. CmdOK(r)
  BY <1>2, <1>3, <1>7 DEF CmdOK, A!Stored
<1>9. ASSUME clean' PROVE Recorded' /\ DeclaredOK(r)' /\ LatestOK(r)
  <2>1. CleanOK /\ DeclaredOK(m) /\ LatestOK(m)
    BY <1>1, <1>2, <1>9 DEF AuthoringInv, CleanOK
  <2>2. Recorded'
    BY <1>1, <1>2, <1>6, <1>7, <2>1 DEF Recorded, CleanOK, AuthoringInv, A!workspace
  <2>3. DeclaredOK(r)'
    BY <2>1, <1>2, <1>7 DEF DeclaredOK, CmdOK, A!workspace
  <2>4. LatestOK(r)
    <3>1. A!Base(c) = A!Latest.text
      BY <1>1, <1>2, <2>1 DEF A!Base, LatestOK
    <3>. QED BY <1>3, <1>7, <3>1 DEF LatestOK
  <2>. QED BY <2>2, <2>3, <2>4
<1>10. /\ faults' \in 0 .. MaxFaults /\ clean' \in BOOLEAN /\ clean' = clean
       /\ specs' = specs /\ file' = file /\ bundle' = bundle
       /\ evalset' \in A!Files /\ machine' \in A!Files \cup {None} /\ generated' \in A!Files \cup {None}
  BY <1>2 DEF AuthoringInv, A!TypeOK, A!workspace
<1>11. r.kind \in {"none", cmd[c].kind} /\ cmd[c].at # "file" /\ cmd' = [cmd EXCEPT ![c] = r]
  BY <1>1, <1>2, <1>6, <1>7
<1>12. A!Active(c) /\ (clean' => clean) BY <1>2
<1>. QED BY <1>8, <1>9, <1>10, <1>11, <1>12, CmdStep

LEMMA SetStepsOK ==
  ASSUME AuthoringInv, NEW c \in Commands, A!WriteEvals(c) \/ A!WriteTriggers(c)
  PROVE  AuthoringInv'
<1> USE AuthoringAssumption
<1>1. PICK m \in CmdRec : m = cmd[c]
  BY DEF AuthoringInv
<1>2. /\ CmdOK(m) /\ m.side \in {"evals", "triggers"} /\ A!Active(c) /\ m.kind \notin {"none", "push"}
      /\ UNCHANGED << specs, file, bundle, generated, faults, clean >>
  BY <1>1 DEF AuthoringInv, A!WriteEvals, A!WriteTriggers, A!Side, A!Active, CmdOK
<1>3. evalset' \in A!Files /\ machine' = evalset'
  BY DEF A!WriteEvals, A!WriteTriggers, A!Files, AuthoringInv, A!TypeOK
<1>4. PICK s \in {"triggers", "hash"} : cmd' = [cmd EXCEPT ![c] = [m EXCEPT !.side = s]]
  BY <1>1 DEF A!WriteEvals, A!WriteTriggers, A!AfterTriggers, AuthoringInv
<1>5. PICK r \in CmdRec : r = [m EXCEPT !.side = s]
  BY FieldsTyped DEF A!Sides
<1>6. /\ r.kind = m.kind /\ r.at = m.at /\ r.side = s /\ r.ver = m.ver /\ r.text = m.text /\ r.open = m.open
      /\ r.ref = m.ref /\ r.set = m.set /\ r.sent = m.sent
  BY <1>5 DEF CmdRec
<1>7. CmdOK(r)
  BY <1>2, <1>6 DEF CmdOK
<1>8. ASSUME clean' PROVE Recorded' /\ DeclaredOK(r)' /\ LatestOK(r)'
  <2>1. CleanOK /\ LatestOK(m)
    BY <1>1, <1>2, <1>8 DEF AuthoringInv, CleanOK
  <2>2. Recorded'
    BY <1>4, <1>5, <1>6 DEF Recorded, AuthoringInv
  <2>3. DeclaredOK(r)'
    BY <1>2, <1>3, <1>6 DEF DeclaredOK, CmdOK
  <2>4. LatestOK(r)'
    BY <2>1, <1>2, <1>6 DEF LatestOK, OnLatest, A!Latest, A!Stored
  <2>. QED BY <2>2, <2>3, <2>4
<1>9. /\ faults' \in 0 .. MaxFaults /\ clean' \in BOOLEAN /\ clean' = clean
      /\ generated \in A!Files \cup {None}
  BY <1>2 DEF AuthoringInv, A!TypeOK
<1>10. r.kind \in {"none", cmd[c].kind} /\ cmd' = [cmd EXCEPT ![c] = r]
  BY <1>1, <1>4, <1>5, <1>6
<1>11. Grows
  BY <1>2, <1>3, <1>9 DEF Grows, AuthoringInv, A!TypeOK, Version
<1>12. CmdOK(r)'
  BY <1>2, <1>7 DEF CmdOK
<1>13. clean' => FileOK'
  <2> SUFFICES ASSUME clean' PROVE FileOK'
    OBVIOUS
  <2>1. CleanOK BY <1>2 DEF AuthoringInv
  <2>2. (\A d \in Commands : cmd'[d].at # "file") => \A d \in Commands : cmd[d].at # "file"
    BY <1>1, <1>4, <1>5, <1>6 DEF AuthoringInv
  <2>. QED BY <1>2, <2>1, <2>2 DEF CleanOK, FileOK, OnLatest, A!Latest, A!Stored
<1>14. BundleKept /\ A!Active(c) BY <1>2 DEF BundleKept
<1>. QED BY <1>5, <1>8, <1>9, <1>10, <1>11, <1>12, <1>13, <1>14, StepFrame

LEMMA RecordStepsOK ==
  ASSUME AuthoringInv, NEW c \in Commands, A!HashSet(c) \/ A!RecordRef(c)
  PROVE  AuthoringInv'
<1> USE AuthoringAssumption
<1>1. PICK m \in CmdRec : m = cmd[c]
  BY DEF AuthoringInv
<1>2. /\ CmdOK(m) /\ m.side \in {"hash", "record"} /\ A!Active(c) /\ m.kind \notin {"none", "push"}
      /\ specs' = specs /\ file' = file /\ bundle' = bundle /\ evalset' = evalset
      /\ machine' = machine /\ faults' = faults /\ clean' = clean
  BY <1>1 DEF AuthoringInv, A!HashSet, A!RecordRef, A!Side, A!Active, A!workspace, CmdOK
<1>3. \/ /\ m.side = "hash" /\ cmd' = [cmd EXCEPT ![c] = [m EXCEPT !.ref = evalset, !.side = "record"]]
         /\ generated' = generated
      \/ /\ m.side = "record" /\ cmd' = [cmd EXCEPT ![c] = [m EXCEPT !.side = "none", !.ref = None]]
         /\ generated' = m.ref
  <2>1. ASSUME A!HashSet(c)
        PROVE  /\ m.side = "hash" /\ cmd' = [cmd EXCEPT ![c] = [m EXCEPT !.ref = evalset, !.side = "record"]]
               /\ generated' = generated
    BY <1>1, <2>1 DEF A!HashSet, A!Side, A!workspace, AuthoringInv
  <2>2. ASSUME A!RecordRef(c)
        PROVE  /\ m.side = "record" /\ cmd' = [cmd EXCEPT ![c] = [m EXCEPT !.side = "none", !.ref = None]]
               /\ generated' = m.ref
    BY <1>1, <2>2 DEF A!RecordRef, A!Side, A!workspace, AuthoringInv
  <2>. QED BY <2>1, <2>2
<1>4. PICK s \in {"record", "none"}, f \in A!Files \cup {None} :
        /\ cmd' = [cmd EXCEPT ![c] = [m EXCEPT !.ref = f, !.side = s]]
        /\ \/ m.side = "hash" /\ s = "record" /\ f = evalset /\ generated' = generated
           \/ m.side = "record" /\ s = "none" /\ generated' = m.ref
  <2>1. evalset \in A!Files \cup {None} BY DEF AuthoringInv, A!TypeOK
  <2>2. [m EXCEPT !.side = "none", !.ref = None] = [m EXCEPT !.ref = None, !.side = "none"]
    BY DEF CmdRec
  <2>. QED BY <1>3, <2>1, <2>2
<1>5. PICK r \in CmdRec : r = [m EXCEPT !.ref = f, !.side = s]
  BY FieldsTyped DEF A!Sides
<1>6. /\ r.kind = m.kind /\ r.at = m.at /\ r.side = s /\ r.ver = m.ver /\ r.text = m.text /\ r.open = m.open
      /\ r.ref = f /\ r.set = m.set /\ r.sent = m.sent
  BY <1>5 DEF CmdRec
<1>7. CmdOK(r)
  BY <1>2, <1>6 DEF CmdOK
<1>8. ASSUME clean PROVE Recorded' /\ FileOK' /\ DeclaredOK(r)' /\ LatestOK(r)'
  <2>1. CleanOK /\ DeclaredOK(m) /\ LatestOK(m)
    BY <1>1, <1>8 DEF AuthoringInv, CleanOK
  <2>2. Recorded'
    <3>1. \A d \in Commands : d # c => cmd[d].side = "none"
      BY <1>2, <2>1 DEF CleanOK, Alone, A!Active, AuthoringInv, CmdOK, A!Idle
    <3>2. CASE s = "record"
      BY <1>4, <1>5, <1>6, <3>2 DEF Recorded, AuthoringInv
    <3>3. CASE s = "none"
      BY <1>2, <1>4, <2>1, <3>3 DEF Recorded, DeclaredOK
    <3>. QED BY <1>4, <3>2, <3>3
  <2>3. DeclaredOK(r)'
    BY <1>2, <1>4, <1>6, <2>1 DEF DeclaredOK, CmdOK
  <2>4. LatestOK(r)
    BY <2>1, <1>6 DEF LatestOK
  <2>5. FileOK'
    <3>1. (\A d \in Commands : cmd'[d].at # "file") => \A d \in Commands : cmd[d].at # "file"
      BY <1>1, <1>4, <1>5, <1>6 DEF AuthoringInv
    <3>. QED BY <1>2, <2>1, <3>1 DEF CleanOK, FileOK, OnLatest, A!Latest, A!Stored
  <2>6. LatestOK(r)'
    BY <1>2, <2>4 DEF LatestOK, OnLatest, A!Latest, A!Stored
  <2>. QED BY <2>2, <2>3, <2>5, <2>6
<1>9. /\ faults' \in 0 .. MaxFaults /\ clean' \in BOOLEAN
      /\ machine' \in A!Files \cup {None} /\ evalset' \in A!Files /\ generated' \in A!Files \cup {None}
  BY <1>2, <1>4 DEF AuthoringInv, A!TypeOK, CmdRec
<1>10. r.kind \in {"none", cmd[c].kind} /\ cmd' = [cmd EXCEPT ![c] = r]
  BY <1>1, <1>4, <1>5, <1>6
<1>11. Grows
  BY <1>2, <1>9 DEF Grows, AuthoringInv, A!TypeOK, Version
<1>12. CmdOK(r)'
  BY <1>2, <1>7 DEF CmdOK
<1>13. clean' => Recorded' /\ FileOK' /\ DeclaredOK(r)' /\ LatestOK(r)'
  BY <1>2, <1>8
<1>14. BundleKept /\ A!Active(c) /\ (clean' => clean) BY <1>2 DEF BundleKept
<1>. QED BY <1>5, <1>9, <1>10, <1>11, <1>12, <1>13, <1>14, StepFrame

LEMMA PushStepsOK ==
  ASSUME AuthoringInv, NEW c \in Commands, A!Pack(c) \/ A!Upload(c)
  PROVE  AuthoringInv'
<1> USE AuthoringAssumption
<1>1. PICK m \in CmdRec : m = cmd[c]
  BY DEF AuthoringInv
<1>2. /\ CmdOK(m) /\ m.at \in {"pack", "upload"} /\ A!Active(c) /\ m.kind = "push"
      /\ specs' = specs /\ file' = file /\ bundle' = bundle /\ evalset' = evalset
      /\ machine' = machine /\ generated' = generated /\ faults' = faults /\ clean' = clean
  BY <1>1 DEF AuthoringInv, A!Pack, A!Upload, A!At, A!Active, A!workspace, CmdOK
<1>. DEFINE packed == [files |-> evalset, byHand |-> evalset # machine]
<1>3. packed \in SetRec
  BY DEF SetRec, AuthoringInv, A!TypeOK
<1>4. PICK r \in CmdRec :
        /\ cmd' = [cmd EXCEPT ![c] = r]
        /\ r.kind = m.kind /\ r.side = m.side /\ r.ver = m.ver /\ r.text = m.text /\ r.open = m.open
        /\ r.ref = m.ref
        /\ \/ r.at = "upload" /\ r.set = packed /\ r.sent = m.sent
           \/ m.at = "upload" /\ r.at = "end" /\ r.set = m.set /\ r.sent = A!Unreviewed(c)
  <2>1. CASE A!Pack(c)
    <3>1. cmd' = [cmd EXCEPT ![c] = [m EXCEPT !.at = "upload", !.set = packed]]
      BY <1>1, <2>1 DEF A!Pack, AuthoringInv
    <3>. HIDE DEF packed
    <3>2. PICK r \in CmdRec : r = [m EXCEPT !.at = "upload", !.set = packed]
      BY <1>3, FieldsTyped DEF A!Steps
    <3>3. /\ r.kind = m.kind /\ r.side = m.side /\ r.ver = m.ver /\ r.text = m.text /\ r.open = m.open
          /\ r.ref = m.ref /\ r.at = "upload" /\ r.set = packed /\ r.sent = m.sent
      BY <3>2 DEF CmdRec
    <3>. QED BY <3>1, <3>2, <3>3
  <2>2. CASE A!Upload(c)
    <3>. DEFINE u == A!Unreviewed(c)
    <3>0. u \in BOOLEAN BY DEF A!Unreviewed
    <3>1. cmd' = [cmd EXCEPT ![c] = [m EXCEPT !.sent = u, !.at = "end"]] /\ m.at = "upload"
      BY <1>1, <2>2 DEF A!Upload, A!At, AuthoringInv
    <3>. HIDE DEF u
    <3>2. PICK r \in CmdRec : r = [m EXCEPT !.sent = u, !.at = "end"]
      BY <3>0, FieldsTyped DEF A!Steps
    <3>3. /\ r.kind = m.kind /\ r.side = m.side /\ r.ver = m.ver /\ r.text = m.text /\ r.open = m.open
          /\ r.ref = m.ref /\ r.at = "end" /\ r.set = m.set /\ r.sent = u
      BY <3>2 DEF CmdRec
    <3>. QED BY <3>1, <3>2, <3>3 DEF u
  <2>. QED BY <2>1, <2>2
<1>5. packed.byHand = (evalset # machine)
  OBVIOUS
<1>. HIDE DEF packed
<1>6. CmdOK(r)
  <2>1. A!Unreviewed(c) # None
    BY DEF A!Unreviewed, AuthoringAssumption
  <2>. QED BY <1>2, <1>3, <1>4 DEF CmdOK
<1>7. ASSUME clean' PROVE Recorded' /\ DeclaredOK(r)' /\ LatestOK(r)
  <2>1. CleanOK /\ DeclaredOK(m) /\ LatestOK(m)
    BY <1>1, <1>2, <1>7 DEF AuthoringInv, CleanOK
  <2>2. Recorded'
    BY <1>1, <1>2, <1>4, <2>1 DEF Recorded, CleanOK, AuthoringInv
  <2>3. DeclaredOK(r)'
    <3>0. \A d \in Commands : cmd[d].side = "none"
      BY <1>1, <1>2, <2>1 DEF CleanOK, Alone, A!Active, AuthoringInv, CmdOK, A!Idle
    <3>1. generated = machine
      BY <3>0, <2>1 DEF CleanOK, Recorded
    <3>2. m.ref = evalset /\ evalset # None
      BY <1>2, <2>1 DEF DeclaredOK, AuthoringAssumption, AuthoringInv, A!TypeOK
    <3>3. A!Unreviewed(c) = (evalset = machine)
      BY <1>1, <3>1, <3>2 DEF A!Unreviewed
    <3>4. m.sent = None \/ m.sent = (evalset = machine)
      BY <2>1 DEF DeclaredOK
    <3>. QED BY <1>2, <1>4, <1>5, <2>1, <3>2, <3>3, <3>4 DEF DeclaredOK, CmdOK
  <2>4. LatestOK(r)
    BY <1>2, <1>4 DEF LatestOK
  <2>. QED BY <2>2, <2>3, <2>4
<1>8. /\ faults' \in 0 .. MaxFaults /\ clean' \in BOOLEAN /\ (clean' => clean)
      /\ machine' \in A!Files \cup {None} /\ evalset' \in A!Files /\ generated' \in A!Files \cup {None}
  BY <1>2 DEF AuthoringInv, A!TypeOK
<1>9. r.kind \in {"none", cmd[c].kind} /\ cmd[c].at # "file" /\ A!Active(c)
  BY <1>1, <1>2, <1>4
<1>. QED BY <1>2, <1>4, <1>6, <1>7, <1>8, <1>9, CmdStep

LEMMA EndOK ==
  ASSUME AuthoringInv, NEW c \in Commands, A!Done(c) \/ A!Stop(c)
  PROVE  AuthoringInv'
<1> USE AuthoringAssumption
<1>1. PICK m \in CmdRec : m = cmd[c]
  BY DEF AuthoringInv
<1>2. /\ specs' = specs /\ file' = file /\ bundle' = bundle /\ evalset' = evalset
      /\ machine' = machine /\ generated' = generated /\ A!Active(c)
      /\ cmd' = [cmd EXCEPT ![c] = A!Idle]
      /\ clean' => clean /\ m.at = "end" /\ m.side = "none"
  BY <1>1 DEF A!Done, A!Stop, A!At, A!Side, A!workspace
<1>3. faults' \in 0 .. MaxFaults /\ clean' \in BOOLEAN
  <2>1. faults \in 0 .. MaxFaults /\ clean \in BOOLEAN BY DEF AuthoringInv, A!TypeOK
  <2>2. faults' = faults \/ (faults' = faults + 1 /\ faults < MaxFaults) BY DEF A!Done, A!Stop
  <2>3. clean' = clean \/ clean' = FALSE BY DEF A!Done, A!Stop, A!workspace
  <2>4. faults' \in 0 .. MaxFaults BY <2>1, <2>2 DEF AuthoringAssumption
  <2>. QED BY <2>1, <2>3, <2>4
<1>4. A!Idle \in CmdRec
  BY DEF A!Idle, CmdRec, A!Steps, A!Sides
<1>5. PICK r \in CmdRec : r = A!Idle
  BY <1>4
<1>6. CmdOK(r)' /\ r.kind = "none" /\ r.side = "none" /\ r.at = "end" /\ r.sent = None
  <2>1. Len(specs) \in Nat BY DEF AuthoringInv, A!TypeOK
  <2>. QED BY <1>2, <1>5, <2>1 DEF CmdOK, A!Idle
<1>7. Grows
  BY <1>2 DEF Grows, AuthoringInv, A!TypeOK, Version
<1>8. ASSUME clean' PROVE Recorded' /\ FileOK' /\ DeclaredOK(r)' /\ LatestOK(r)'
  <2>1. CleanOK
    BY <1>2, <1>8 DEF AuthoringInv
  <2>2. Recorded'
    BY <1>1, <1>2, <1>8, <2>1 DEF Recorded, CleanOK, AuthoringInv, A!Idle
  <2>3. DeclaredOK(r)' /\ LatestOK(r)'
    BY <1>6 DEF DeclaredOK, LatestOK
  <2>4. FileOK'
    BY <1>1, <1>2, <1>8, <2>1, FileStays
  <2>. QED BY <2>2, <2>3, <2>4
<1>9. r.kind \in {"none", cmd[c].kind} /\ cmd' = [cmd EXCEPT ![c] = r] /\ (clean' => clean)
  BY <1>2, <1>5, <1>6
<1>10. BundleKept
  BY <1>2 DEF BundleKept
<1>. QED BY <1>2, <1>3, <1>5, <1>6, <1>7, <1>8, <1>9, <1>10, StepFrame

(* Somebody's SKILL.md is of no approved version's making.                   *)
LEMMA EditBundleOK ==
  ASSUME AuthoringInv, A!EditBundle
  PROVE  AuthoringInv'
<1> USE AuthoringAssumption
<1>1. /\ specs' = specs /\ file' = file /\ evalset' = evalset /\ machine' = machine
      /\ generated' = generated /\ cmd' = cmd /\ faults' = faults /\ clean' = clean
  BY DEF A!EditBundle
<1>2. PICK v : v = IF bundle = None THEN 0 ELSE bundle.ver
  OBVIOUS
<1>3. v \in 0 .. Len(specs) /\ v \in 0 .. MaxSpecs /\ (v # 0 => specs[v].approved)
  <2>1. Len(specs) \in 0 .. MaxSpecs BY DEF AuthoringInv, A!TypeOK
  <2>. QED BY <1>2, <2>1 DEF AuthoringInv, BundleThere, A!BundleIsApproved
<1>4. bundle' = [ver |-> v, desc |-> None]
  BY <1>2 DEF A!EditBundle
<1>5. bundle' \in [ver : 0 .. MaxSpecs, desc : Descriptions \cup {None}]
      /\ bundle'.ver = v /\ bundle'.desc = None
  BY <1>3, <1>4
<1>6. bundle' # None
  BY <1>5
<1>7. A!BundleIsApproved' /\ BundleThere'
  BY <1>1, <1>3, <1>5 DEF A!BundleIsApproved, BundleThere
<1>8. A!TypeOK' /\ cmd' \in [Commands -> CmdRec]
  BY <1>1, <1>5 DEF AuthoringInv, A!TypeOK
<1>9. \A c \in Commands : CmdOK(cmd[c])'
  <2> SUFFICES ASSUME NEW c \in Commands PROVE CmdOK(cmd[c])'
    OBVIOUS
  <2>1. PICK m \in CmdRec : m = cmd[c] BY DEF AuthoringInv
  <2>2. CmdOK(m) BY <2>1 DEF AuthoringInv
  <2>3. CmdOK(m)' BY <1>1, <1>6, <2>2 DEF CmdOK
  <2>. QED BY <1>1, <2>1, <2>3
<1>10. clean' => CleanOK'
  <2>1. ASSUME CleanOK PROVE CleanOK'
    <3>1. Alone' /\ Recorded' /\ FileOK'
      BY <1>1, <2>1 DEF CleanOK, Alone, Recorded, FileOK, A!Active, OnLatest, A!Latest, A!Stored
    <3>2. \A c \in Commands : DeclaredOK(cmd[c])' /\ LatestOK(cmd[c])'
      BY <1>1, <2>1 DEF CleanOK, DeclaredOK, LatestOK, OnLatest, A!Latest, A!Stored
    <3>. QED BY <3>1, <3>2 DEF CleanOK
  <2>. QED BY <1>1, <2>1 DEF AuthoringInv
<1>. QED BY <1>7, <1>8, <1>9, <1>10 DEF AuthoringInv

(* The author's editor changes the eval set or the file under no command's   *)
(* eyes only where none is running.                                          *)
LEMMA EditsOK ==
  ASSUME AuthoringInv, A!EditSuite \/ A!EditFile
  PROVE  AuthoringInv'
<1> USE AuthoringAssumption
<1>1. /\ specs' = specs /\ bundle' = bundle /\ machine' = machine /\ generated' = generated
      /\ cmd' = cmd /\ faults' = faults
      /\ clean' = (clean /\ \A c \in Commands : ~ A!Active(c))
  BY DEF A!EditSuite, A!EditFile
<1>2. /\ evalset' \in A!Files /\ file' \in A!Text \cup {None} /\ (file # None => file' # None)
      /\ \/ file' = file
         \/ file # None /\ file' \in A!Text /\ file'.desc = file.desc /\ file.edits \subseteq file'.edits
  <2>1. CASE A!EditSuite
    <3>1. evalset \in A!Files /\ file \in A!Text \cup {None} /\ file' = file
      BY <2>1 DEF AuthoringInv, A!TypeOK, A!EditSuite
    <3>2. \A h \in Hands : [evalset EXCEPT !.evals = h] \in A!Files /\ [evalset EXCEPT !.triggers = h] \in A!Files
      BY <3>1 DEF A!Files
    <3>3. PICK h \in Hands : evalset' \in {[evalset EXCEPT !.evals = h], [evalset EXCEPT !.triggers = h]}
      BY <2>1 DEF A!EditSuite
    <3>4. evalset' \in A!Files
      BY <3>2, <3>3
    <3>. QED BY <3>1, <3>4
  <2>2. CASE A!EditFile
    <3>1. evalset \in A!Files /\ file \in A!Text /\ evalset' = evalset
      BY <2>2 DEF AuthoringInv, A!TypeOK, A!EditFile
    <3>2. PICK e \in Edits : file' = [file EXCEPT !.edits = file.edits \cup {e}]
      BY <2>2 DEF A!EditFile
    <3>3. file' \in A!Text /\ file'.desc = file.desc /\ file.edits \subseteq file'.edits
      BY <3>1, <3>2 DEF A!Text
    <3>. QED BY <3>1, <3>3
  <2>. QED BY <2>1, <2>2
<1>3. A!TypeOK'
  BY <1>1, <1>2 DEF AuthoringInv, A!TypeOK, A!Active
<1>4. cmd' \in [Commands -> CmdRec] /\ \A c \in Commands : CmdOK(cmd[c])'
  <2> SUFFICES ASSUME NEW c \in Commands PROVE CmdOK(cmd[c])'
    BY <1>1 DEF AuthoringInv
  <2>1. PICK m \in CmdRec : m = cmd[c] BY DEF AuthoringInv
  <2>2. CmdOK(m) BY <2>1 DEF AuthoringInv
  <2>3. CmdOK(m)' BY <1>1, <1>2, <2>2 DEF CmdOK
  <2>. QED BY <1>1, <2>1, <2>3
<1>5. A!BundleIsApproved' /\ BundleThere'
  BY <1>1 DEF AuthoringInv, A!BundleIsApproved, BundleThere
<1>6. ASSUME clean' PROVE CleanOK'
  <2>1. CleanOK /\ \A c \in Commands : cmd[c] = A!Idle
    BY <1>1, <1>6 DEF AuthoringInv, A!Active, CmdOK
  <2>2. Alone' /\ Recorded'
    BY <1>1, <2>1 DEF CleanOK, Alone, Recorded, A!Active
  <2>3. \A c \in Commands : DeclaredOK(cmd[c])' /\ LatestOK(cmd[c])'
    BY <1>1, <2>1 DEF DeclaredOK, LatestOK, A!Idle
  <2>4. FileOK'
    <3>1. file # None => OnLatest(file) BY <2>1 DEF CleanOK, FileOK, A!Idle
    <3>. QED BY <1>1, <1>2, <3>1 DEF FileOK, OnLatest, A!Latest, A!Stored
  <2>. QED BY <2>2, <2>3, <2>4 DEF CleanOK
<1>. QED BY <1>3, <1>4, <1>5, <1>6 DEF AuthoringInv

LEMMA AuthoringStep ==
  ASSUME AuthoringInv, A!Next
  PROVE  AuthoringInv'
<1>1. ASSUME NEW c \in Commands, A!Start(c) \/ A!Step(c) \/ A!Stop(c)
      PROVE  AuthoringInv'
  <2>1. CASE A!Start(c)
    BY <2>1, StartOK
  <2>2. CASE A!Stop(c)
    BY <2>2, EndOK
  <2>3. CASE A!Step(c)
    BY <2>3, EditorOK, SaveRowOK, SaveFileOK, ApproveOK, BundleStepsOK, ModelStepsOK,
       SetStepsOK, RecordStepsOK, PushStepsOK, EndOK DEF A!Step
  <2>. QED BY <1>1, <2>1, <2>2, <2>3
<1>. QED BY <1>1, EditsOK, EditBundleOK DEF A!Next

LEMMA AuthoringSame ==
  ASSUME AuthoringInv, UNCHANGED aVars
  PROVE  AuthoringInv'
<1>. USE DEF aVars
<1>1. specs' = specs /\ file' = file /\ bundle' = bundle /\ evalset' = evalset /\ machine' = machine
      /\ generated' = generated /\ cmd' = cmd /\ faults' = faults /\ clean' = clean
  OBVIOUS
<1>2. A!TypeOK' /\ cmd' \in [Commands -> CmdRec] /\ A!BundleIsApproved' /\ BundleThere'
  BY <1>1 DEF AuthoringInv, A!TypeOK, A!BundleIsApproved, BundleThere
<1>3. \A c \in Commands : CmdOK(cmd[c])'
  BY <1>1 DEF AuthoringInv, CmdOK
<1>4. clean' => CleanOK'
  <2>1. ASSUME CleanOK PROVE CleanOK'
    <3>1. Alone' /\ Recorded' /\ FileOK'
      BY <1>1, <2>1 DEF CleanOK, Alone, Recorded, FileOK, A!Active, OnLatest, A!Latest, A!Stored
    <3>2. \A c \in Commands : DeclaredOK(cmd[c])' /\ LatestOK(cmd[c])'
      BY <1>1, <2>1 DEF CleanOK, DeclaredOK, LatestOK, OnLatest, A!Latest, A!Stored
    <3>. QED BY <3>1, <3>2 DEF CleanOK
  <2>. QED BY <1>1, <2>1 DEF AuthoringInv
<1>. QED BY <1>2, <1>3, <1>4 DEF AuthoringInv

LEMMA AuthoringInit == Init => AuthoringInv
<1> SUFFICES ASSUME A!Init PROVE AuthoringInv
  BY DEF Init
<1> USE AuthoringAssumption DEF A!Init
<1>1. A!Idle \in CmdRec
  BY DEF A!Idle, CmdRec, A!Steps, A!Sides
<1>2. A!TypeOK /\ cmd \in [Commands -> CmdRec]
  <2>. QED BY <1>1 DEF AuthoringAssumption, A!TypeOK, A!Files, A!Idle, A!Steps, A!Sides
<1>3. \A c \in Commands : CmdOK(cmd[c])
  BY DEF CmdOK, A!Idle
<1>4. CleanOK
  <2>1. Alone /\ Recorded /\ FileOK
    BY DEF Alone, A!Active, A!Idle, Recorded, FileOK
  <2>2. \A c \in Commands : DeclaredOK(cmd[c]) /\ LatestOK(cmd[c])
    BY DEF DeclaredOK, LatestOK, A!Idle
  <2>. QED BY <2>1, <2>2 DEF CleanOK
<1>. QED BY <1>2, <1>3, <1>4 DEF AuthoringInv, A!BundleIsApproved, BundleThere

LEMMA Declared ==
  ASSUME AuthoringInv
  PROVE  A!SetsAreDeclared
<1> SUFFICES ASSUME NEW c \in Commands, clean, cmd[c].sent # None
             PROVE  cmd[c].sent <=> ~ cmd[c].set.byHand
  BY DEF A!SetsAreDeclared
<1>1. PICK m \in CmdRec : m = cmd[c] BY DEF AuthoringInv
<1>2. CmdOK(m) /\ DeclaredOK(m) /\ m.sent # None BY <1>1 DEF AuthoringInv, CleanOK
<1>3. m.sent = (evalset = machine) /\ m.set.byHand = (evalset # machine)
  BY <1>2 DEF DeclaredOK
<1>. QED BY <1>1, <1>3

LEMMA Built ==
  ASSUME AuthoringInv, A!Next \/ UNCHANGED aVars
  PROVE  A!BuildsOnTheLatestStep
<1> SUFFICES ASSUME clean, A!Stored, Len(specs') > Len(specs)
             PROVE  \/ \E c \in Commands : cmd[c].kind = "new" /\ cmd[c] # cmd'[c]
                    \/ /\ A!Latest.text.edits \subseteq specs'[Len(specs')].text.edits
                       /\ \/ specs'[Len(specs')].text.desc = A!Latest.text.desc
                          \/ specs'[Len(specs')].text.edits = A!Latest.text.edits
  BY DEF A!BuildsOnTheLatestStep
<1>1. specs \in Seq(Version) /\ Len(specs) \in Nat
  BY DEF AuthoringInv, A!TypeOK, Version
<1>2. PICK c \in Commands : A!SaveRow(c)
  <2>1. specs' # specs BY <1>1
  <2>2. \A c \in Commands : A!Approve(c) => Len(specs') = Len(specs)
    BY <1>1 DEF A!Approve
  <2>3. ~ UNCHANGED aVars BY <2>1 DEF aVars
  <2>4. ~ A!EditSuite /\ ~ A!EditFile /\ ~ A!EditBundle
    BY <2>1 DEF A!EditSuite, A!EditFile, A!EditBundle
  <2>5. \A c \in Commands : ~ A!Start(c)
    BY <2>1 DEF A!Start, A!New, A!Edit, A!ApproveLatest, A!Gen, A!SuiteGen, A!Tune, A!Propose, A!Push, A!Run
  <2>6. \A c \in Commands : ~ A!Stop(c) BY <2>1 DEF A!Stop, A!workspace
  <2>7. \A c \in Commands : A!Step(c) => A!SaveRow(c) \/ A!Approve(c)
    BY <2>1 DEF A!Step, A!Editor, A!SaveFile, A!WriteBundle, A!Answered, A!Patch, A!WriteFiles, A!WriteEvals,
       A!WriteTriggers, A!HashSet, A!RecordRef, A!Pack, A!Upload, A!Done, A!workspace
  <2>. QED BY <1>1, <2>2, <2>3, <2>4, <2>5, <2>6, <2>7 DEF A!Next
<1>3. PICK m \in CmdRec : m = cmd[c]
  BY DEF AuthoringInv
<1>4. CmdOK(m) /\ LatestOK(m) /\ m.at = "row" /\ m.text \in A!Text
  BY <1>2, <1>3 DEF AuthoringInv, CleanOK, CmdOK, A!SaveRow, A!At
<1>5. specs'[Len(specs')].text = m.text
  <2>. DEFINE new == [text |-> m.text, approved |-> FALSE]
  <2>1. specs' = Append(specs, new) BY <1>2, <1>3 DEF A!SaveRow
  <2>2. new \in Version /\ new.text = m.text BY <1>4 DEF Version
  <2>. HIDE DEF new
  <2>3. specs'[Len(specs')] = new BY <1>1, <2>1, <2>2
  <2>. QED BY <2>2, <2>3
<1>6. m.kind = "new" => cmd[c] # cmd'[c]
  <2>1. cmd'[c].at = "file" BY <1>2, <1>3 DEF A!SaveRow, AuthoringInv, CmdRec
  <2>. QED BY <1>3, <1>4, <2>1
<1>. QED BY <1>3, <1>4, <1>5, <1>6 DEF LatestOK

LEMMA AuthoringPreserved == AuthoringInv /\ [Next]_all => AuthoringInv'
<1> SUFFICES ASSUME AuthoringInv, [Next]_all PROVE AuthoringInv'
  OBVIOUS
<1>1. A!Next \/ UNCHANGED aVars
  BY DEF Next, Sessions, Skills, Hooks, Sandboxes, Authoring, Tuning, Revision, all
<1>. QED BY <1>1, AuthoringStep, AuthoringSame

(* What every command has read and is about to write, at every step of it,   *)
(* whichever commands are interleaved, stopped or killed (cli/whetstone).    *)
THEOREM AuthoringInvariant == Spec => []AuthoringInv
<1>1. Init => AuthoringInv
  BY AuthoringInit
<1>2. AuthoringInv /\ [Next]_all => AuthoringInv'
  BY AuthoringPreserved
<1>. QED BY <1>1, <1>2, PTL DEF Spec

(* The bundle was generated from an approved specification, a description    *)
(* tuned or proposed for it is of one, and an eval set is declared           *)
(* unreviewed exactly when it is as a command left it (spec.go:174-176,      *)
(* suite.go:86-96).                                                          *)
THEOREM BundleStaysApproved == Spec => []BundleIsApproved
<1>1. AuthoringInv => BundleIsApproved
  BY Declared DEF AuthoringInv, BundleIsApproved
<1>. QED BY <1>1, AuthoringInvariant, PTL

(* Commands run one after the other lose nobody's work: a stored version     *)
(* builds on the one before it (spec.go:88-97, store/spec.go:62-73).         *)
THEOREM VersionsBuildOnTheLatest == Spec => [][A!BuildsOnTheLatestStep]_aVars
<1>1. AuthoringInv /\ [Next]_all => [A!BuildsOnTheLatestStep]_aVars
  <2> SUFFICES ASSUME AuthoringInv, [Next]_all PROVE A!BuildsOnTheLatestStep
    OBVIOUS
  <2>1. A!Next \/ UNCHANGED aVars
    BY DEF Next, Sessions, Skills, Hooks, Sandboxes, Authoring, Tuning, Revision, all
  <2>. QED BY <2>1, Built
<1>. QED BY <1>1, AuthoringInvariant, PTL DEF Spec

-----------------------------------------------------------------------------
(* A set of numbers with 0 and every successor is all of them.               *)
LEMMA Induction ==
  ASSUME NEW G \in SUBSET Nat, 0 \in G, \A i \in G : i + 1 \in G
  PROVE  G = Nat
<1>1. SUFFICES ASSUME Nat \ G # {} PROVE FALSE
  OBVIOUS
<1>2. PICK u \in Nat \ G : \A v \in Nat \ G : u <= v
  BY <1>1, Least
<1>3. u # 0 /\ u - 1 \in Nat
  BY <1>2
<1>4. u - 1 \in G
  BY <1>2, <1>3
<1>. QED BY <1>2, <1>4

-----------------------------------------------------------------------------
(* A function that is given by its first value and by each from the one      *)
(* before it: there is one.                                                  *)
IsSeed(X, a) == a \in X
IsStep(X, F) == F \in [Nat \X X -> X]
Recursive(a, F, f) == f[0] = a /\ \A i \in Nat : f[i + 1] = F[<<i + 1, f[i]>>]

UpTo(g, i, X, a, F) ==
  /\ g \in [0 .. i -> X] /\ g[0] = a
  /\ \A j \in 0 .. i : j < i => g[j + 1] = F[<<j + 1, g[j]>>]

LEMMA Recursion ==
  ASSUME NEW X, NEW a, NEW F, IsSeed(X, a), IsStep(X, F)
  PROVE  \E f : f \in [Nat -> X] /\ Recursive(a, F, f)
<1>0. a \in X /\ F \in [Nat \X X -> X]
  BY DEF IsSeed, IsStep
<1>1. \A i \in Nat : \E g : UpTo(g, i, X, a, F)
  <2>. DEFINE G == {i \in Nat : \E g : UpTo(g, i, X, a, F)}
  <2>1. 0 \in G
    <3>1. UpTo([j \in 0 .. 0 |-> a], 0, X, a, F) BY <1>0 DEF UpTo
    <3>. QED BY <3>1
  <2>2. ASSUME NEW i \in G PROVE i + 1 \in G
    <3>1. PICK g : UpTo(g, i, X, a, F) OBVIOUS
    <3>. DEFINE h == [j \in 0 .. i + 1 |-> IF j <= i THEN g[j] ELSE F[<<i + 1, g[i]>>]]
    <3>2. F[<<i + 1, g[i]>>] \in X BY <1>0, <3>1 DEF UpTo
    <3>3. h \in [0 .. i + 1 -> X] /\ h[0] = a BY <3>1, <3>2 DEF UpTo
    <3>4. ASSUME NEW j \in 0 .. i + 1, j < i + 1 PROVE h[j + 1] = F[<<j + 1, h[j]>>]
      <4>1. j \in 0 .. i /\ j + 1 \in 0 .. i + 1 /\ h[j] = g[j]
        BY <3>4
      <4>2. CASE j = i
        BY <4>1, <4>2
      <4>3. CASE j < i
        <5>1. h[j + 1] = g[j + 1] BY <4>1, <4>3
        <5>. QED BY <3>1, <4>1, <4>3, <5>1 DEF UpTo
      <4>. QED BY <4>1, <4>2, <4>3
    <3>5. UpTo(h, i + 1, X, a, F) BY <3>3, <3>4 DEF UpTo
    <3>. QED BY <3>5
  <2>. HIDE DEF G
  <2>3. G = Nat BY <2>1, <2>2, Induction DEF G
  <2>. QED BY <2>3 DEF G
<1>2. ASSUME NEW i \in Nat, NEW k \in Nat, i <= k, NEW g, NEW h,
             UpTo(g, i, X, a, F), UpTo(h, k, X, a, F)
      PROVE  g[i] = h[i]
  <2>. DEFINE G == {j \in Nat : j <= i => g[j] = h[j]}
  <2>1. 0 \in G BY <1>2 DEF UpTo
  <2>2. ASSUME NEW j \in G PROVE j + 1 \in G
    <3> SUFFICES ASSUME j + 1 <= i PROVE g[j + 1] = h[j + 1]
      OBVIOUS
    <3>1. j \in 0 .. i /\ j \in 0 .. k /\ j < i /\ j < k /\ g[j] = h[j]
      BY <1>2
    <3>2. g[j + 1] = F[<<j + 1, g[j]>>] /\ h[j + 1] = F[<<j + 1, h[j]>>]
      BY <1>2, <3>1 DEF UpTo
    <3>. QED BY <3>1, <3>2
  <2>. HIDE DEF G
  <2>3. G = Nat BY <2>1, <2>2, Induction DEF G
  <2>. QED BY <2>3 DEF G
<1>. DEFINE at(i) == CHOOSE g : UpTo(g, i, X, a, F)
            f == [i \in Nat |-> at(i)[i]]
<1>3. \A i \in Nat : UpTo(at(i), i, X, a, F)
  BY <1>1
<1>. HIDE DEF at
<1>4. f \in [Nat -> X] /\ f[0] = a
  BY <1>3 DEF UpTo
<1>5. ASSUME NEW i \in Nat PROVE f[i + 1] = F[<<i + 1, f[i]>>]
  <2>1. f[i + 1] = at(i + 1)[i + 1] /\ f[i] = at(i)[i] OBVIOUS
  <2>2. at(i)[i] = at(i + 1)[i] BY <1>2, <1>3
  <2>3. at(i + 1)[i + 1] = F[<<i + 1, at(i + 1)[i]>>] BY <1>3 DEF UpTo
  <2>. QED BY <2>1, <2>2, <2>3
<1>. HIDE DEF f
<1>6. Recursive(a, F, f) BY <1>4, <1>5 DEF Recursive
<1>. QED BY <1>4, <1>6

-----------------------------------------------------------------------------
(* Tuning.  Attempt a is at least as good as attempt b, or better, on the    *)
(* held-out half first.                                                      *)
AtLeast(a, b) == a.test > b.test \/ (a.test = b.test /\ a.train >= b.train)
Ahead(a, b) == a.test > b.test \/ (a.test = b.test /\ a.train > b.train)

(* Every attempt is of the same halves.                                      *)
Comparable ==
  \A i \in 1 .. Len(history) : /\ history[i].measured = (test # {})
                               /\ test = {} => history[i].test = 0

TuningInv ==
  /\ T!TypeOK /\ IsFiniteSet(queries) /\ history \in Seq(T!Attempts)
  /\ train \subseteq queries /\ test \subseteq queries /\ train \cap test = {} /\ told \subseteq train
  /\ Comparable
  /\ phase \in {"topup", "split"} => (history = << >> /\ told = {})
  /\ phase \in {"score", "improve"} => Len(history) < Iterations
  /\ phase \in {"select", "done"} => history # << >>
  /\ T!WinnerHoldsOut

LEMMA WinnerStep ==
  /\ T!Winner[1] = history[1]
  /\ \A i \in Nat : i > 1 =>
       T!Winner[i] = IF T!Better(history[i], T!Winner[i - 1]) THEN history[i] ELSE T!Winner[i - 1]
<1>0. PICK h : h = history
  OBVIOUS
<1>. DEFINE X == {h[i] : i \in Nat}
            F == [p \in Nat \X X |-> IF p[1] <= 1 THEN h[1]
                                     ELSE IF T!Better(h[p[1]], p[2]) THEN h[p[1]] ELSE p[2]]
            IsWinner(w) == w = [i \in Nat |-> IF i <= 1 THEN history[1]
                                  ELSE IF T!Better(history[i], w[i - 1]) THEN history[i] ELSE w[i - 1]]
<1>1. IsSeed(X, h[1])
  BY DEF IsSeed
<1>2. IsStep(X, F)
  BY DEF IsStep
<1>3. PICK f : f \in [Nat -> X] /\ Recursive(h[1], F, f)
  <2>. HIDE DEF X, F
  <2>. QED BY <1>1, <1>2, Recursion
<1>4. IsWinner(f)
  <2> SUFFICES ASSUME NEW i \in Nat
               PROVE  f[i] = IF i <= 1 THEN history[1]
                             ELSE IF T!Better(history[i], f[i - 1]) THEN history[i] ELSE f[i - 1]
    BY <1>3
  <2>1. CASE i = 0
    BY <1>0, <1>3, <2>1 DEF Recursive
  <2>2. CASE i # 0
    <3>1. i - 1 \in Nat /\ (i - 1) + 1 = i BY <2>2
    <3>2. f[i] = F[<<i, f[i - 1]>>] /\ <<i, f[i - 1]>> \in Nat \X X BY <1>3, <3>1 DEF Recursive
    <3>. QED BY <1>0, <3>2
  <2>. QED BY <2>1, <2>2
<1>. HIDE DEF X, F
<1>5. IsWinner(T!Winner)
  <2>1. T!Winner = CHOOSE w : IsWinner(w)
    BY DEF T!Winner
  <2>. HIDE DEF IsWinner
  <2>. QED BY <1>4, <2>1
<1>. DEFINE w == T!Winner
<1>6. IsWinner(w) BY <1>5
<1>. HIDE DEF w
<1>7. w[1] = history[1] BY <1>6
<1>8. \A i \in Nat : i > 1 => w[i] = IF T!Better(history[i], w[i - 1]) THEN history[i] ELSE w[i - 1]
  BY <1>6
<1>. QED BY <1>7, <1>8 DEF w

(* What the first n attempts say of the one that is kept of them.            *)
IsBest(w, upto) ==
  /\ \E i \in 1 .. upto : w = history[i]
  /\ \A i \in 1 .. upto : AtLeast(w, history[i])
  /\ w = history[1] \/ Ahead(w, history[1])

LEMMA BetterIsAhead ==
  ASSUME NEW a \in T!Attempts, NEW b \in T!Attempts, a.measured = b.measured,
         ~ a.measured => (a.test = 0 /\ b.test = 0)
  PROVE  (T!Better(a, b) => Ahead(a, b)) /\ (~ T!Better(a, b) => AtLeast(b, a))
BY DEF T!Better, Ahead, AtLeast, T!Attempts

LEMMA WinnerIsBest ==
  ASSUME TuningInv, history # << >>
  PROVE  IsBest(T!Winner[Len(history)], Len(history))
<1>. DEFINE last == Len(history)
            G == {i \in Nat : i + 1 <= last => IsBest(T!Winner[i + 1], i + 1)}
<1>1. last \in Nat \ {0} /\ \A i \in 1 .. last : history[i] \in T!Attempts
  BY DEF TuningInv
<1>2. \A i, j \in 1 .. last : /\ history[i].measured = history[j].measured
                              /\ ~ history[i].measured => (history[i].test = 0 /\ history[j].test = 0)
  BY DEF TuningInv, Comparable
<1>. HIDE DEF last
<1>3. 0 \in G
  <2>1. T!Winner[1] = history[1] /\ 1 \in 1 .. last
    BY <1>1, WinnerStep
  <2>2. AtLeast(history[1], history[1])
    BY <1>1, <2>1 DEF AtLeast, T!Attempts
  <2>3. IsBest(T!Winner[1], 1)
    BY <2>1, <2>2 DEF IsBest
  <2>. QED BY <2>3
<1>4. ASSUME NEW i \in G PROVE i + 1 \in G
  <2>. DEFINE k == i + 1
              w == T!Winner[k]
              h == history[k + 1]
  <2> SUFFICES ASSUME k + 1 <= last PROVE IsBest(T!Winner[k + 1], k + 1)
    OBVIOUS
  <2>1. /\ k \in Nat /\ k >= 1 /\ k + 1 \in Nat /\ k + 1 > 1 /\ (k + 1) - 1 = k
        /\ 1 \in 1 .. last /\ k + 1 \in 1 .. last /\ 1 .. k \subseteq 1 .. last
        /\ 1 .. (k + 1) = (1 .. k) \cup {k + 1} /\ 1 \in 1 .. k
    BY <1>1
  <2>2. IsBest(w, k)
    BY <2>1
  <2>3. PICK j \in 1 .. k : w = history[j]
    BY <2>2 DEF IsBest
  <2>4. w \in T!Attempts /\ h \in T!Attempts /\ history[1] \in T!Attempts
    BY <1>1, <2>1, <2>3
  <2>5. T!Winner[k + 1] = IF T!Better(h, w) THEN h ELSE w
    BY <2>1, WinnerStep
  <2>. HIDE DEF k
  <2>6. (T!Better(h, w) => Ahead(h, w)) /\ (~ T!Better(h, w) => AtLeast(w, h))
    <3>1. h.measured = w.measured /\ (~ h.measured => (h.test = 0 /\ w.test = 0))
      BY <1>2, <2>1, <2>3
    <3>. HIDE DEF h, w
    <3>. QED BY <2>4, <3>1, BetterIsAhead
  <2>7. CASE T!Better(h, w)
    <3>1. T!Winner[k + 1] = h /\ Ahead(h, w)
      BY <2>5, <2>6, <2>7
    <3>2. ASSUME NEW x \in 1 .. (k + 1) PROVE AtLeast(h, history[x])
      <4>1. history[x] \in T!Attempts BY <1>1, <2>1, <3>2
      <4>2. CASE x = k + 1
        BY <2>4, <4>2 DEF AtLeast, T!Attempts
      <4>3. CASE x \in 1 .. k
        <5>1. AtLeast(w, history[x]) BY <2>2, <4>3 DEF IsBest
        <5>. HIDE DEF h, w
        <5>. QED BY <2>4, <3>1, <4>1, <5>1 DEF AtLeast, Ahead, T!Attempts
      <4>. QED BY <2>1, <4>2, <4>3
    <3>3. Ahead(h, history[1])
      <4>1. w = history[1] \/ Ahead(w, history[1]) BY <2>2 DEF IsBest
      <4>. HIDE DEF h, w
      <4>. QED BY <2>4, <3>1, <4>1 DEF Ahead, T!Attempts
    <3>. QED BY <2>1, <3>1, <3>2, <3>3 DEF IsBest
  <2>8. CASE ~ T!Better(h, w)
    <3>1. T!Winner[k + 1] = w /\ AtLeast(w, h)
      BY <2>5, <2>6, <2>8
    <3>2. ASSUME NEW x \in 1 .. (k + 1) PROVE AtLeast(w, history[x])
      BY <2>1, <2>2, <3>1 DEF IsBest
    <3>3. w = history[1] \/ Ahead(w, history[1])
      BY <2>2 DEF IsBest
    <3>. HIDE DEF w
    <3>. QED BY <2>1, <2>3, <3>1, <3>2, <3>3 DEF IsBest
  <2>. QED BY <2>7, <2>8
<1>. HIDE DEF G
<1>5. G = Nat
  <2>1. G \in SUBSET Nat BY DEF G
  <2>. QED BY <1>3, <1>4, <2>1, Induction
<1>6. last - 1 \in Nat /\ (last - 1) + 1 = last
  BY <1>1
<1>7. last - 1 \in G BY <1>5, <1>6
<1>. QED BY <1>6, <1>7 DEF G, last

-----------------------------------------------------------------------------
LEMMA TuningInit == Init => TuningInv
<1> SUFFICES ASSUME Init PROVE TuningInv
  OBVIOUS
<1>1. /\ phase = "topup" /\ queries = Own /\ train = {} /\ test = {}
      /\ current \in Proposed /\ history = << >> /\ told = {}
  BY DEF Init, T!Init
<1>2. IsFiniteSet(Own) /\ Own \subseteq Positive \cup Negative
  BY TuningAssumption, FS_Subset
<1>3. T!TypeOK
  BY <1>1, <1>2, TuningAssumption DEF T!TypeOK
<1>. QED BY <1>1, <1>2, <1>3 DEF TuningInv, Comparable, T!WinnerHoldsOut

(* The instance's operator is the one the library's facts are about.         *)
LEMMA SameSize == ASSUME NEW set PROVE T!Cardinality(set) = Cardinality(set)
BY DEF T!Cardinality, Cardinality

LEMMA PassedIsNumber ==
  ASSUME NEW hits, NEW set, IsFiniteSet(set)
  PROVE  /\ T!Passed(hits, set) \in Nat /\ T!Passed(hits, set) <= Cardinality(set)
         /\ set = {} => T!Passed(hits, set) = 0
<1>. DEFINE P == {q \in set : T!Passes(hits, q)}
<1>1. P \subseteq set OBVIOUS
<1>. HIDE DEF P
<1>2. IsFiniteSet(P) /\ Cardinality(P) <= Cardinality(set)
  BY <1>1, FS_Subset
<1>3. Cardinality(P) \in Nat BY <1>2, FS_CardinalityType
<1>4. set = {} => Cardinality(P) = 0
  BY <1>1, FS_EmptySet
<1>5. T!Passed(hits, set) = Cardinality(P) BY SameSize DEF P, T!Passed
<1>. QED BY <1>2, <1>3, <1>4, <1>5

LEMMA TopUpKeeps == TuningInv /\ T!TopUp => TuningInv'
<1> SUFFICES ASSUME TuningInv, T!TopUp PROVE TuningInv'
  OBVIOUS
<1>1. /\ queries \subseteq queries' /\ queries' \subseteq Positive \cup Negative
      /\ phase = "topup" /\ phase' \in {"split", "failed"}
      /\ UNCHANGED << train, test, current, history, told, best >>
  BY DEF T!TopUp, TuningInv, T!TypeOK
<1>2. IsFiniteSet(queries')
  BY <1>1, TuningAssumption, FS_Subset
<1>3. T!TypeOK'
  BY <1>1 DEF TuningInv, T!TypeOK
<1>. QED BY <1>1, <1>2, <1>3 DEF TuningInv, Comparable, T!WinnerHoldsOut

LEMMA SplitKeeps == TuningInv /\ T!Split => TuningInv'
<1> SUFFICES ASSUME TuningInv, T!Split PROVE TuningInv'
  OBVIOUS
<1>1. /\ test' \subseteq queries /\ train' = queries \ test'
      /\ phase = "split" /\ phase' = "score" /\ history = << >> /\ told = {}
      /\ UNCHANGED << queries, current, history, told, best >>
  <2>1. PICK half \in SUBSET queries : test' = half /\ train' = queries \ half
    BY DEF T!Split
  <2>. QED BY <2>1 DEF T!Split, TuningInv
<1>2. T!TypeOK'
  BY <1>1 DEF TuningInv, T!TypeOK
<1>. QED BY <1>1, <1>2, TuningAssumption DEF TuningInv, Comparable, T!WinnerHoldsOut

LEMMA ScoreKeeps == TuningInv /\ T!Score => TuningInv'
<1> SUFFICES ASSUME TuningInv, T!Score PROVE TuningInv'
  OBVIOUS
<1>1. PICK hits \in [queries -> 0 .. Runs] :
        /\ history' = Append(history,
               [desc |-> current, train |-> T!Passed(hits, train), test |-> T!Passed(hits, test),
                measured |-> test # {}])
        /\ phase' = IF T!Passed(hits, train) = Cardinality(train) \/ Len(history') = Iterations
                    THEN "select" ELSE "improve"
  BY SameSize, Zenon DEF T!Score
<1>2. phase = "score" /\ UNCHANGED << queries, train, test, current, told, best >>
  BY DEF T!Score
<1>. DEFINE a == [desc |-> current, train |-> T!Passed(hits, train), test |-> T!Passed(hits, test),
                  measured |-> test # {}]
<1>3. IsFiniteSet(train) /\ IsFiniteSet(test)
  BY FS_Subset DEF TuningInv
<1>4. /\ a \in T!Attempts /\ a.train <= Cardinality(train) /\ a.test <= Cardinality(test)
      /\ a.measured = (test # {}) /\ (test = {} => a.test = 0)
  <2>1. current \in Proposed BY DEF TuningInv, T!TypeOK
  <2>2. /\ T!Passed(hits, train) \in Nat /\ T!Passed(hits, train) <= Cardinality(train)
        /\ T!Passed(hits, test) \in Nat /\ T!Passed(hits, test) <= Cardinality(test)
        /\ (test = {} => T!Passed(hits, test) = 0)
    BY <1>3, PassedIsNumber
  <2>. QED BY <2>1, <2>2 DEF T!Attempts
<1>5. history' = Append(history, a) BY <1>1
<1>. HIDE DEF a
<1>6. /\ history \in Seq(T!Attempts) /\ history' \in Seq(T!Attempts)
      /\ Len(history') = Len(history) + 1 /\ Len(history) \in Nat /\ history' # << >>
      /\ \A i \in 1 .. Len(history') : IF i = Len(history') THEN history'[i] = a
                                       ELSE i \in 1 .. Len(history) /\ history'[i] = history[i]
  BY <1>4, <1>5 DEF TuningInv
<1>7. Len(history) < Iterations
  BY <1>2 DEF TuningInv
<1>8. Len(history') <= Iterations /\ (phase' = "improve" => Len(history') < Iterations)
  BY <1>1, <1>6, <1>7, TuningAssumption
<1>9. phase' \in {"select", "improve"}
  BY <1>1
<1>10. \A i \in 1 .. Len(history') :
         /\ history'[i] \in T!Attempts
         /\ history'[i].train <= Cardinality(train) /\ history'[i].test <= Cardinality(test)
         /\ history'[i].measured = (test # {}) /\ (test = {} => history'[i].test = 0)
  <2> SUFFICES ASSUME NEW i \in 1 .. Len(history')
               PROVE  /\ history'[i] \in T!Attempts
                      /\ history'[i].train <= Cardinality(train) /\ history'[i].test <= Cardinality(test)
                      /\ history'[i].measured = (test # {}) /\ (test = {} => history'[i].test = 0)
    OBVIOUS
  <2>1. CASE i = Len(history')
    <3>1. history'[i] = a BY <1>6, <2>1
    <3>. QED BY <1>4, <3>1
  <2>2. CASE i # Len(history')
    <3>1. i \in 1 .. Len(history) /\ history'[i] = history[i] BY <1>6, <2>2
    <3>2. /\ history[i] \in T!Attempts
          /\ history[i].train <= Cardinality(train) /\ history[i].test <= Cardinality(test)
      BY <3>1, SameSize DEF TuningInv, T!TypeOK
    <3>3. history[i].measured = (test # {}) /\ (test = {} => history[i].test = 0)
      BY <3>1 DEF TuningInv, Comparable
    <3>. QED BY <3>1, <3>2, <3>3
  <2>. QED BY <2>1, <2>2
<1>11. T!TypeOK'
  <2>1. /\ phase' \in {"topup", "split", "score", "improve", "select", "done", "failed"}
        /\ queries' \subseteq Positive \cup Negative
        /\ current' \in Proposed /\ told' \subseteq queries'
    BY <1>2, <1>9 DEF TuningInv, T!TypeOK
  <2>2. \A i \in 1 .. Len(history') :
          /\ history'[i] \in T!Attempts
          /\ history'[i].train <= Cardinality(train') /\ history'[i].test <= Cardinality(test')
    BY <1>2, <1>10
  <2>. QED BY <1>8, <2>1, <2>2, SameSize DEF T!TypeOK
<1>12. Comparable'
  BY <1>2, <1>10 DEF Comparable
<1>. QED BY <1>2, <1>6, <1>8, <1>9, <1>11, <1>12 DEF TuningInv, T!WinnerHoldsOut

LEMMA ImproveKeeps == TuningInv /\ T!Improve => TuningInv'
<1> SUFFICES ASSUME TuningInv, T!Improve PROVE TuningInv'
  OBVIOUS
<1>1. /\ phase = "improve" /\ phase' = "score" /\ current' \in Proposed
      /\ told \subseteq told' /\ told' \subseteq train
      /\ UNCHANGED << queries, train, test, history, best >>
  <2>1. T!Shown \subseteq train BY DEF T!Shown
  <2>. QED BY <2>1 DEF T!Improve, TuningInv
<1>2. T!TypeOK'
  BY <1>1 DEF TuningInv, T!TypeOK
<1>. QED BY <1>1, <1>2 DEF TuningInv, Comparable, T!WinnerHoldsOut

LEMMA FailKeeps == TuningInv /\ T!Fail => TuningInv'
<1> SUFFICES ASSUME TuningInv, T!Fail PROVE TuningInv'
  OBVIOUS
<1>1. phase' = "failed" /\ UNCHANGED << queries, train, test, current, history, told, best >>
  BY DEF T!Fail
<1>2. T!TypeOK'
  BY <1>1 DEF TuningInv, T!TypeOK
<1>. QED BY <1>1, <1>2 DEF TuningInv, Comparable, T!WinnerHoldsOut

LEMMA SelectKeeps == TuningInv /\ T!Select => TuningInv'
<1> SUFFICES ASSUME TuningInv, T!Select PROVE TuningInv'
  OBVIOUS
<1>1. /\ phase = "select" /\ phase' = "done" /\ best' = T!Winner[Len(history)]
      /\ UNCHANGED << queries, train, test, current, history, told >>
  BY DEF T!Select
<1>2. history # << >> /\ Len(history) \in Nat /\ told \subseteq train /\ train \cap test = {}
  BY <1>1 DEF TuningInv
<1>3. IsBest(best', Len(history))
  BY <1>1, <1>2, WinnerIsBest
<1>4. T!TypeOK'
  BY <1>1 DEF TuningInv, T!TypeOK
<1>5. T!WinnerHoldsOut'
  <2>1. /\ \E i \in 1 .. Len(history) : best' = history[i]
        /\ \A i \in 1 .. Len(history) : AtLeast(best', history[i])
        /\ best' = history[1] \/ Ahead(best', history[1])
    BY <1>3 DEF IsBest
  <2>. QED BY <1>1, <1>2, <2>1 DEF T!WinnerHoldsOut, AtLeast, Ahead
<1>. QED BY <1>1, <1>2, <1>4, <1>5 DEF TuningInv, Comparable

LEMMA TuningPreserved == TuningInv /\ [Next]_all => TuningInv'
<1> SUFFICES ASSUME TuningInv, [Next]_all PROVE TuningInv'
  OBVIOUS
<1>1. CASE T!Next
  BY <1>1, TopUpKeeps, SplitKeeps, ScoreKeeps, ImproveKeeps, FailKeeps, SelectKeeps DEF T!Next
<1>2. CASE UNCHANGED tVars
  BY <1>2 DEF tVars, TuningInv, T!TypeOK, Comparable, T!WinnerHoldsOut
<1>3. T!Next \/ UNCHANGED tVars
  BY DEF Next, Sessions, Skills, Hooks, Sandboxes, Authoring, Tuning, Revision, all
<1>. QED BY <1>1, <1>2, <1>3

(* The halves, the attempts and what proposals have seen, in every state of  *)
(* a tuning, of any number of queries and iterations (internal/eval/tune).   *)
THEOREM TuningInvariant == Spec => []TuningInv
<1>1. TuningInv /\ [Next]_all => TuningInv'
  BY TuningPreserved
<1>. QED BY <1>1, TuningInit, PTL DEF Spec

(* The description kept was measured, passes at least as many held-out       *)
(* queries as every other one tried and was written without sight of any     *)
(* (tune/loop.go:42-46), whatever the order of the attempts.                 *)
THEOREM WinnerStaysBest == Spec => []WinnerHoldsOut
<1>1. TuningInv => WinnerHoldsOut
  BY DEF TuningInv, WinnerHoldsOut
<1>. QED BY <1>1, TuningInvariant, PTL

-----------------------------------------------------------------------------
(* The skills on a machine.  The states of a command by how far it is.       *)
Listing  == [at: {"listed"}, wanted: SUBSET Managed, seen: [Managed -> L!Versions]]
Syncing  == [at: {"syncing"}, seen: [Managed -> L!Versions], pending: SUBSET Managed,
             pruned: [Managed -> SUBSET Dirs], got: [Managed -> L!Records]]
Adding   == [at: {"adding", "added"}, skill: Managed, wanted: SUBSET Managed, version: L!Versions]
Placed   == [at: {"placed"}, skill: Managed, record: L!Records]
Removing == [at: {"removing", "unlisted"}, skill: Managed, wanted: SUBSET Managed]
Resolved == [at: {"resolved"}, set: [L!Skills -> L!Versions]]
Swapping == [at: {"staged", "aside"}, set: [L!Skills -> L!Versions], stage: L!Trees, backup: L!Trees]

LEMMA CommandStatesAre ==
  L!CommandStates = {L!Idle} \cup Listing \cup Syncing \cup Adding \cup Placed \cup Removing
                    \cup Resolved \cup Swapping
BY DEF L!CommandStates, Listing, Syncing, Adding, Placed, Removing, Resolved, Swapping

LEMMA StateOf ==
  ASSUME NEW c \in L!CommandStates
  PROVE  /\ c.at = "listed" => c \in Listing
         /\ c.at = "syncing" => c \in Syncing
         /\ c.at \in {"adding", "added"} => c \in Adding
         /\ c.at = "placed" => c \in Placed
         /\ c.at \in {"removing", "unlisted"} => c \in Removing
         /\ c.at = "resolved" => c \in Resolved
         /\ c.at \in {"staged", "aside"} => c \in Swapping
         /\ c.at \notin {"resolved", "staged", "aside"} => c.at \in {"idle", "listed", "syncing",
                "adding", "added", "placed", "removing", "unlisted"}
<1>1. CASE c = L!Idle
  BY <1>1 DEF L!Idle
<1>2. CASE c \in Listing \cup Syncing \cup Adding \cup Placed \cup Removing \cup Resolved \cup Swapping
  <2>1. c \in Listing => c.at = "listed" BY DEF Listing
  <2>2. c \in Syncing => c.at = "syncing" BY DEF Syncing
  <2>3. c \in Adding => c.at \in {"adding", "added"} BY DEF Adding
  <2>4. c \in Placed => c.at = "placed" BY DEF Placed
  <2>5. c \in Removing => c.at \in {"removing", "unlisted"} BY DEF Removing
  <2>6. c \in Resolved => c.at = "resolved" BY DEF Resolved
  <2>7. c \in Swapping => c.at \in {"staged", "aside"} BY DEF Swapping
  <2>. QED BY <1>2, <2>1, <2>2, <2>3, <2>4, <2>5, <2>6, <2>7
<1>. QED BY <1>1, <1>2, CommandStatesAre

(* What the pulled directory has of the names that only pulls write is what  *)
(* its manifest says.                                                        *)
TreeIsManifest ==
  \A s \in Listed \ Managed :
    disk[Shared][s] = IF manifest = L!NoManifest THEN 0 ELSE manifest[s]

(* One pull at a time; what it has staged has what people put there, and of  *)
(* the rest what its resolution says.                                        *)
OnePull == \A p, q \in Slots : L!Pulling(p) /\ L!Pulling(q) => p = q
PullOK(p) ==
  /\ run[p].at \in {"staged", "aside"} => \A s \in Listed \ Managed : run[p].stage[s] = run[p].set[s]
  /\ run[p].at = "staged" => \A h \in Hand : run[p].stage[h] = disk[Shared][h]
  /\ run[p].at = "aside" => Shared \notin made /\ \A h \in Hand : run[p].stage[h] = run[p].backup[h]

SkillsInv ==
  /\ L!TypeOK
  /\ TreeIsManifest /\ OnePull
  /\ \A p \in Slots : PullOK(p)
  /\ L!HandMadeStays

LEMMA SkillsInit == Init => SkillsInv
<1> SUFFICES ASSUME Init PROVE SkillsInv
  OBVIOUS
<1>1. /\ served \in [L!Skills -> {1}] /\ config = {}
      /\ record = [s \in Managed |-> L!NoRecord] /\ made \in {{}, Dirs}
      /\ disk = [d \in Dirs |-> L!NoTree] /\ manifest = L!NoManifest
      /\ left = {} /\ hand = {} /\ run = [p \in Slots |-> L!Idle] /\ runs = 0
  BY DEF Init, L!Init
<1>2. \A p \in Slots : run[p] = L!Idle /\ run[p].at = "idle"
  BY <1>1 DEF L!Idle
<1>3. L!TypeOK
  <2>1. L!NoTree \in L!Trees /\ L!NoRecord \in L!Records /\ {1} \subseteq L!Versions
    BY SkillsAssumption DEF L!NoTree, L!Trees, L!NoRecord, L!Records, L!Versions
  <2>2. served \in [L!Skills -> L!Versions]
    BY <1>1, <2>1
  <2>3. run \in [Slots -> L!CommandStates]
    BY <1>1, CommandStatesAre
  <2>. QED BY <1>1, <2>1, <2>2, <2>3, SkillsAssumption DEF L!TypeOK
<1>4. TreeIsManifest
  BY <1>1, SkillsAssumption DEF TreeIsManifest, L!NoTree, L!Names, L!Skills
<1>5. OnePull /\ \A p \in Slots : PullOK(p)
  BY <1>2 DEF OnePull, PullOK, L!Pulling
<1>. QED BY <1>1, <1>3, <1>4, <1>5 DEF SkillsInv, L!HandMadeStays

-----------------------------------------------------------------------------
(* A step of another command than a pull: it writes under managed names, in  *)
(* directories that exist.                                                   *)
LEMMA Beside ==
  ASSUME SkillsInv, L!TypeOK', NEW p \in Slots, ~ L!Pulling(p),
         run' = [run EXCEPT ![p] = run'[p]],
         run'[p].at \notin {"resolved", "staged", "aside"},
         manifest' = manifest, left' = left, hand' = hand, made' = made,
         \A d \in Dirs, name \in L!Names \ Managed : disk'[d][name] = disk[d][name]
  PROVE  SkillsInv'
<1>. DEFINE Free == {"resolved", "staged", "aside"}
<1>1. \A q \in Slots : /\ q # p => run'[q] = run[q]
                       /\ run'[q].at \in {"resolved", "staged", "aside"} => q # p
                       /\ run[q].at \in {"resolved", "staged", "aside"} => q # p
  BY DEF SkillsInv, L!TypeOK, L!Pulling
<1>2. /\ \A s \in Listed \ Managed : s \in L!Names \ Managed
      /\ \A h \in Hand : h \in L!Names \ Managed
      /\ Shared \in Dirs
  BY SkillsAssumption DEF L!Names, L!Skills
<1>3. TreeIsManifest'
  BY <1>2 DEF SkillsInv, TreeIsManifest
<1>4. OnePull'
  BY <1>1 DEF SkillsInv, OnePull, L!Pulling
<1>5. \A q \in Slots : PullOK(q)'
  BY <1>1, <1>2 DEF SkillsInv, PullOK
<1>6. L!HandMadeStays'
  <2> SUFFICES ASSUME NEW h \in hand
               PROVE  \/ disk'[Shared][h] = 1
                      \/ h \in left
                      \/ \E q \in Slots : run'[q].at = "aside" /\ run'[q].backup[h] = 1
    BY DEF L!HandMadeStays
  <2>1. h \in Hand BY DEF SkillsInv, L!TypeOK
  <2>2. disk'[Shared][h] = disk[Shared][h] BY <1>2, <2>1
  <2>. QED BY <1>1, <2>2 DEF SkillsInv, L!HandMadeStays
<1>. QED BY <1>3, <1>4, <1>5, <1>6 DEF SkillsInv

(* What these commands write is of the right type.                           *)
LEMMA PlacedTyped ==
  ASSUME SkillsInv, NEW name \in Managed, NEW v \in L!Versions, NEW ok \in SUBSET made,
         disk' = L!Placed(ok, name, v)
  PROVE  /\ disk' \in [Dirs -> L!Trees] /\ \A d \in Dirs \ made : disk'[d] = L!NoTree
         /\ \A d \in Dirs, m \in L!Names \ Managed : disk'[d][m] = disk[d][m]
<1>1. disk \in [Dirs -> L!Trees] /\ \A d \in Dirs \ made : disk[d] = L!NoTree
  BY DEF SkillsInv, L!TypeOK
<1>2. name \in L!Names
  BY DEF L!Names, L!Skills
<1>3. \A d \in Dirs : /\ disk[d] \in [L!Names -> L!Versions]
                      /\ [disk[d] EXCEPT ![name] = v] \in [L!Names -> L!Versions]
                      /\ \A m \in L!Names \ Managed : [disk[d] EXCEPT ![name] = v][m] = disk[d][m]
  BY <1>1, <1>2 DEF L!Trees
<1>4. disk' \in [Dirs -> L!Trees]
  BY <1>3 DEF L!Placed, L!Trees
<1>5. \A d \in Dirs : disk'[d] = IF d \in ok THEN [disk[d] EXCEPT ![name] = v] ELSE disk[d]
  BY DEF L!Placed
<1>. QED BY <1>1, <1>3, <1>4, <1>5

LEMMA ClearedTyped ==
  ASSUME SkillsInv, NEW name \in Managed, NEW paths, disk' = L!Cleared(paths, name)
  PROVE  /\ disk' \in [Dirs -> L!Trees] /\ \A d \in Dirs \ made : disk'[d] = L!NoTree
         /\ \A d \in Dirs, m \in L!Names \ Managed : disk'[d][m] = disk[d][m]
<1>1. /\ disk \in [Dirs -> L!Trees] /\ 0 \in L!Versions
      /\ \A d \in Dirs \ made : disk[d] = L!NoTree
  BY SkillsAssumption DEF SkillsInv, L!TypeOK, L!Versions
<1>2. name \in L!Names
  BY DEF L!Names, L!Skills
<1>3. \A d \in Dirs \ made : [disk[d] EXCEPT ![name] = 0] = L!NoTree
  BY <1>1, <1>2 DEF L!NoTree
<1>4. \A d \in Dirs : /\ disk[d] \in [L!Names -> L!Versions]
                      /\ [disk[d] EXCEPT ![name] = 0] \in [L!Names -> L!Versions]
                      /\ \A m \in L!Names \ Managed : [disk[d] EXCEPT ![name] = 0][m] = disk[d][m]
  BY <1>1, <1>2 DEF L!Trees
<1>5. disk' \in [Dirs -> L!Trees]
  BY <1>4 DEF L!Cleared, L!Trees
<1>6. \A d \in Dirs : disk'[d] = IF d \in paths THEN [disk[d] EXCEPT ![name] = 0] ELSE disk[d]
  BY DEF L!Cleared
<1>. QED BY <1>1, <1>3, <1>4, <1>5, <1>6

-----------------------------------------------------------------------------
(* The types of the states that commands reach.                              *)
LEMMA RunTyped ==
  ASSUME SkillsInv, NEW p \in Slots, NEW c,
         c \in {L!Idle} \cup Listing \cup Syncing \cup Adding \cup Placed \cup Removing
               \cup Resolved \cup Swapping,
         run' = [run EXCEPT ![p] = c]
  PROVE  /\ run' \in [Slots -> L!CommandStates] /\ run'[p] = c
         /\ run' = [run EXCEPT ![p] = run'[p]]
         /\ \A q \in Slots : q # p => run'[q] = run[q]
<1>1. c \in L!CommandStates BY CommandStatesAre
<1>2. run \in [Slots -> L!CommandStates] BY DEF SkillsInv, L!TypeOK
<1>. HIDE DEF L!CommandStates
<1>. QED BY <1>1, <1>2

LEMMA Quiet ==
  ASSUME NEW c
  PROVE  c \in {L!Idle} \cup Listing \cup Syncing \cup Adding \cup Placed \cup Removing
           => c.at \notin {"resolved", "staged", "aside"}
BY DEF L!Idle, Listing, Syncing, Adding, Placed, Removing

LEMMA BesideStep ==
  ASSUME SkillsInv, NEW p \in Slots, ~ L!Pulling(p), NEW c,
         c \in {L!Idle} \cup Listing \cup Syncing \cup Adding \cup Placed \cup Removing,
         run' = [run EXCEPT ![p] = c], runs' \in 0 .. MaxRuns,
         config' \subseteq Managed, record' \in [Managed -> L!Records],
         disk' \in [Dirs -> L!Trees], \A d \in Dirs \ made : disk'[d] = L!NoTree,
         \A d \in Dirs, name \in L!Names \ Managed : disk'[d][name] = disk[d][name],
         served' = served, manifest' = manifest, left' = left, hand' = hand, made' = made
  PROVE  SkillsInv'
<1>1. run' \in [Slots -> L!CommandStates] /\ run'[p] = c /\ run' = [run EXCEPT ![p] = run'[p]]
  BY RunTyped
<1>2. L!TypeOK'
  BY <1>1 DEF SkillsInv, L!TypeOK
<1>3. run'[p].at \notin {"resolved", "staged", "aside"}
  BY <1>1, Quiet
<1>. QED BY <1>1, <1>2, <1>3, Beside

LEMMA Kept ==
  ASSUME SkillsInv
  PROVE  /\ runs \in 0 .. MaxRuns /\ config \subseteq Managed /\ record \in [Managed -> L!Records]
         /\ disk \in [Dirs -> L!Trees] /\ \A d \in Dirs \ made : disk[d] = L!NoTree
         /\ served \in [L!Skills -> L!Versions] /\ made \in SUBSET Dirs
BY DEF SkillsInv, L!TypeOK

LEMMA Began ==
  ASSUME SkillsInv, NEW p \in Slots, NEW c, L!Starts(p, c)
  PROVE  run' = [run EXCEPT ![p] = c] /\ runs' \in 0 .. MaxRuns /\ ~ L!Pulling(p) /\ run[p] = L!Idle
<1>1. run[p] = L!Idle /\ runs < MaxRuns /\ runs' = runs + 1 /\ run' = [run EXCEPT ![p] = c]
  BY DEF L!Starts, L!Goes
<1>2. runs' \in 0 .. MaxRuns
  BY <1>1, Kept, SkillsAssumption
<1>. QED BY <1>1, <1>2 DEF L!Pulling, L!Idle

LEMMA NotPulling ==
  ASSUME SkillsInv, NEW p \in Slots
  PROVE  /\ run[p] \in L!CommandStates
         /\ run[p].at \in {"listed", "syncing", "adding", "added", "placed", "removing", "unlisted"}
              => ~ L!Pulling(p)
BY DEF SkillsInv, L!TypeOK, L!Pulling

-----------------------------------------------------------------------------
LEMMA SyncKeeps ==
  ASSUME SkillsInv, NEW p \in Slots,
         L!SyncStarts(p) \/ L!SyncDiffs(p) \/ L!SyncPlaces(p) \/ L!SyncPrunes(p) \/ L!SyncWrites(p)
  PROVE  SkillsInv'
<1>. DEFINE c == run[p]
<1>0. c \in L!CommandStates /\ L!NoRecord \in L!Records
  BY NotPulling, SkillsAssumption DEF L!NoRecord, L!Records, L!Versions
<1>1. CASE L!SyncStarts(p)
  <2>. DEFINE d == [at |-> "listed", wanted |-> config, seen |-> [s \in Managed |-> served[s]]]
  <2>1. L!Starts(p, d) /\ UNCHANGED <<served, config, record, made, disk, manifest, left, hand>>
    BY <1>1 DEF L!SyncStarts
  <2>2. d \in Listing
    BY Kept DEF Listing, L!Skills
  <2>. HIDE DEF d
  <2>3. run' = [run EXCEPT ![p] = d] /\ runs' \in 0 .. MaxRuns /\ ~ L!Pulling(p)
    BY <2>1, Began
  <2>. QED BY <2>1, <2>2, <2>3, Kept, BesideStep
<1>2. CASE L!SyncDiffs(p)
  <2>1. c.at = "listed" BY <1>2 DEF L!SyncDiffs
  <2>2. c \in Listing /\ ~ L!Pulling(p)
    BY <1>0, <2>1, StateOf, NotPulling
  <2>. DEFINE d == [at |-> "syncing", seen |-> c.seen, pending |-> L!Pending(c),
        pruned |-> [s \in Managed |-> IF s \in L!Prunable(c) THEN record[s].at ELSE {}],
        got |-> [s \in Managed |-> IF s \in L!Pending(c) \cup L!Prunable(c) THEN L!NoRecord ELSE record[s]]]
  <2>3. d \in Syncing
    <3>1. L!Pending(c) \subseteq Managed BY <2>2 DEF L!Pending, Listing
    <3>2. \A s \in Managed : record[s] \in L!Records /\ record[s].at \in SUBSET Dirs
      BY Kept DEF L!Records
    <3>3. c.seen \in [Managed -> L!Versions] BY <2>2 DEF Listing
    <3>. HIDE DEF c
    <3>. QED BY <1>0, <3>1, <3>2, <3>3 DEF Syncing
  <2>4. /\ run' = [run EXCEPT ![p] = L!Idle] \/ run' = [run EXCEPT ![p] = d]
        /\ UNCHANGED <<served, config, record, made, disk, manifest, left, hand, runs>>
    BY <1>2 DEF L!SyncDiffs, L!Goes
  <2>. HIDE DEF c, d
  <2>5. CASE run' = [run EXCEPT ![p] = L!Idle]
    BY <2>2, <2>4, <2>5, Kept, BesideStep
  <2>6. CASE run' = [run EXCEPT ![p] = d]
    BY <2>2, <2>3, <2>4, <2>6, Kept, BesideStep
  <2>. QED BY <2>4, <2>5, <2>6
<1>3. CASE L!SyncPlaces(p)
  <2>1. c.at = "syncing" BY <1>3 DEF L!SyncPlaces
  <2>2. c \in Syncing /\ ~ L!Pulling(p)
    BY <1>0, <2>1, StateOf, NotPulling
  <2>3. PICK s \in c.pending, ok \in SUBSET made :
          /\ disk' = L!Placed(ok, s, c.seen[s])
          /\ run' = [run EXCEPT ![p] = [c EXCEPT !.pending = @ \ {s},
                !.got[s] = IF ok = {} THEN L!NoRecord ELSE [version |-> c.seen[s], at |-> ok]]]
    BY <1>3 DEF L!SyncPlaces, L!Goes, L!Placeable
  <2>4. UNCHANGED <<served, config, record, made, manifest, left, hand, runs>>
    BY <1>3 DEF L!SyncPlaces
  <2>. DEFINE rec == IF ok = {} THEN L!NoRecord ELSE [version |-> c.seen[s], at |-> ok]
              d == [c EXCEPT !.pending = @ \ {s}, !.got[s] = rec]
  <2>5. s \in Managed /\ c.seen[s] \in L!Versions
    BY <2>2, <2>3 DEF Syncing
  <2>6. rec \in L!Records
    BY <1>0, <2>5, Kept DEF L!Records
  <2>7. d \in Syncing
    <3>. HIDE DEF rec, c
    <3>1. [c.got EXCEPT ![s] = rec] \in [Managed -> L!Records]
      BY <2>2, <2>5, <2>6 DEF Syncing
    <3>. QED BY <2>2, <2>5, <3>1 DEF Syncing
  <2>8. run' = [run EXCEPT ![p] = d] BY <2>3
  <2>. HIDE DEF c, d, rec
  <2>9. /\ disk' \in [Dirs -> L!Trees] /\ \A x \in Dirs \ made : disk'[x] = L!NoTree
        /\ \A x \in Dirs, name \in L!Names \ Managed : disk'[x][name] = disk[x][name]
    BY <2>3, <2>5, PlacedTyped
  <2>. QED BY <2>2, <2>4, <2>7, <2>8, <2>9, Kept, BesideStep
<1>4. CASE L!SyncPrunes(p)
  <2>1. c.at = "syncing" BY <1>4 DEF L!SyncPrunes
  <2>2. c \in Syncing /\ ~ L!Pulling(p)
    BY <1>0, <2>1, StateOf, NotPulling
  <2>3. PICK s \in Managed : \E ok \in SUBSET c.pruned[s] :
          /\ disk' = L!Cleared(ok, s)
          /\ run' = [run EXCEPT ![p] = [c EXCEPT !.pruned[s] = {}]]
    BY <1>4 DEF L!SyncPrunes, L!Goes
  <2>4. UNCHANGED <<served, config, record, made, manifest, left, hand, runs>>
    BY <1>4 DEF L!SyncPrunes
  <2>. PICK paths : disk' = L!Cleared(paths, s)
    BY <2>3
  <2>. DEFINE d == [c EXCEPT !.pruned[s] = {}]
  <2>5. d \in Syncing
    <3>. HIDE DEF c
    <3>. QED BY <2>2 DEF Syncing
  <2>6. run' = [run EXCEPT ![p] = d] BY <2>3
  <2>. HIDE DEF c, d
  <2>7. /\ disk' \in [Dirs -> L!Trees] /\ \A x \in Dirs \ made : disk'[x] = L!NoTree
        /\ \A x \in Dirs, name \in L!Names \ Managed : disk'[x][name] = disk[x][name]
    BY ClearedTyped
  <2>. QED BY <2>2, <2>4, <2>5, <2>6, <2>7, Kept, BesideStep
<1>5. CASE L!SyncWrites(p)
  <2>1. c.at = "syncing" BY <1>5 DEF L!SyncWrites
  <2>2. c \in Syncing /\ ~ L!Pulling(p)
    BY <1>0, <2>1, StateOf, NotPulling
  <2>3. /\ record' = c.got /\ run' = [run EXCEPT ![p] = L!Idle]
        /\ UNCHANGED <<served, config, made, disk, manifest, left, hand, runs>>
    BY <1>5 DEF L!SyncWrites, L!Goes
  <2>4. record' \in [Managed -> L!Records]
    BY <2>2, <2>3 DEF Syncing
  <2>. HIDE DEF c
  <2>. QED BY <2>2, <2>3, <2>4, Kept, BesideStep
<1>. QED BY <1>1, <1>2, <1>3, <1>4, <1>5

LEMMA AddKeeps ==
  ASSUME SkillsInv, NEW p \in Slots,
         (\E s \in Managed : L!AddStarts(p, s)) \/ L!AddLists(p) \/ L!AddPlaces(p) \/ L!AddRecords(p)
  PROVE  SkillsInv'
<1>. DEFINE c == run[p]
<1>0. c \in L!CommandStates BY NotPulling
<1>1. CASE \E s \in Managed : L!AddStarts(p, s)
  <2>1. PICK s \in Managed : L!AddStarts(p, s) BY <1>1
  <2>. DEFINE d == [at |-> "adding", skill |-> s, wanted |-> config, version |-> served[s]]
  <2>2. L!Starts(p, d) /\ UNCHANGED <<served, config, record, made, disk, manifest, left, hand>>
    BY <2>1 DEF L!AddStarts
  <2>3. d \in Adding
    BY <2>1, Kept DEF Adding, L!Skills
  <2>. HIDE DEF d
  <2>4. run' = [run EXCEPT ![p] = d] /\ runs' \in 0 .. MaxRuns /\ ~ L!Pulling(p)
    BY <2>2, Began
  <2>. QED BY <2>2, <2>3, <2>4, Kept, BesideStep
<1>2. CASE L!AddLists(p)
  <2>1. c.at = "adding" BY <1>2 DEF L!AddLists
  <2>2. c \in Adding /\ ~ L!Pulling(p)
    BY <1>0, <2>1, StateOf, NotPulling
  <2>. DEFINE d == [c EXCEPT !.at = "added"]
  <2>3. d \in Adding /\ c.wanted \cup {c.skill} \subseteq Managed
    <3>. HIDE DEF c
    <3>. QED BY <2>2 DEF Adding
  <2>4. /\ config' = c.wanted \cup {c.skill} /\ run' = [run EXCEPT ![p] = d]
        /\ UNCHANGED <<served, record, made, disk, manifest, left, hand, runs>>
    BY <1>2 DEF L!AddLists, L!Goes
  <2>. HIDE DEF c, d
  <2>. QED BY <2>2, <2>3, <2>4, Kept, BesideStep
<1>3. CASE L!AddPlaces(p)
  <2>1. c.at = "added" BY <1>3 DEF L!AddPlaces
  <2>2. c \in Adding /\ ~ L!Pulling(p)
    BY <1>0, <2>1, StateOf, NotPulling
  <2>3. c.skill \in Managed /\ c.version \in L!Versions
    BY <2>2 DEF Adding
  <2>4. PICK ok \in SUBSET made :
          /\ disk' = L!Placed(ok, c.skill, c.version)
          /\ run' = [run EXCEPT ![p] = [at |-> "placed", skill |-> c.skill,
                                        record |-> [version |-> c.version, at |-> ok]]]
    BY <1>3 DEF L!AddPlaces, L!Goes, L!Placeable
  <2>. DEFINE d == [at |-> "placed", skill |-> c.skill, record |-> [version |-> c.version, at |-> ok]]
  <2>5. d \in Placed
    BY <2>3, <2>4, Kept DEF Placed, L!Records
  <2>6. run' = [run EXCEPT ![p] = d] BY <2>4
  <2>7. UNCHANGED <<served, config, record, made, manifest, left, hand, runs>>
    BY <1>3 DEF L!AddPlaces
  <2>. HIDE DEF c, d
  <2>8. /\ disk' \in [Dirs -> L!Trees] /\ \A x \in Dirs \ made : disk'[x] = L!NoTree
        /\ \A x \in Dirs, name \in L!Names \ Managed : disk'[x][name] = disk[x][name]
    BY <2>3, <2>4, PlacedTyped
  <2>. QED BY <2>2, <2>5, <2>6, <2>7, <2>8, Kept, BesideStep
<1>4. CASE L!AddRecords(p)
  <2>1. c.at = "placed" BY <1>4 DEF L!AddRecords
  <2>2. c \in Placed /\ ~ L!Pulling(p)
    BY <1>0, <2>1, StateOf, NotPulling
  <2>3. /\ record' = [record EXCEPT ![c.skill] = c.record] /\ run' = [run EXCEPT ![p] = L!Idle]
        /\ UNCHANGED <<served, config, made, disk, manifest, left, hand, runs>>
    BY <1>4 DEF L!AddRecords, L!Goes
  <2>. HIDE DEF c
  <2>4. record' \in [Managed -> L!Records]
    BY <2>2, <2>3, Kept DEF Placed
  <2>. QED BY <2>2, <2>3, <2>4, Kept, BesideStep
<1>. QED BY <1>1, <1>2, <1>3, <1>4

LEMMA RemoveKeeps ==
  ASSUME SkillsInv, NEW p \in Slots,
         (\E s \in Managed : L!RemoveStarts(p, s)) \/ L!RemoveLists(p) \/ L!RemoveClears(p)
  PROVE  SkillsInv'
<1>. DEFINE c == run[p]
<1>0. c \in L!CommandStates /\ L!NoRecord \in L!Records
  BY NotPulling, SkillsAssumption DEF L!NoRecord, L!Records, L!Versions
<1>1. CASE \E s \in Managed : L!RemoveStarts(p, s)
  <2>1. PICK s \in Managed : L!RemoveStarts(p, s) BY <1>1
  <2>. DEFINE d == [at |-> "removing", skill |-> s, wanted |-> config]
  <2>2. L!Starts(p, d) /\ UNCHANGED <<served, config, record, made, disk, manifest, left, hand>>
    BY <2>1 DEF L!RemoveStarts
  <2>3. d \in Removing
    BY <2>1, Kept DEF Removing
  <2>. HIDE DEF d
  <2>4. run' = [run EXCEPT ![p] = d] /\ runs' \in 0 .. MaxRuns /\ ~ L!Pulling(p)
    BY <2>2, Began
  <2>. QED BY <2>2, <2>3, <2>4, Kept, BesideStep
<1>2. CASE L!RemoveLists(p)
  <2>1. c.at = "removing" BY <1>2 DEF L!RemoveLists
  <2>2. c \in Removing /\ ~ L!Pulling(p)
    BY <1>0, <2>1, StateOf, NotPulling
  <2>. DEFINE d == [c EXCEPT !.at = "unlisted"]
  <2>3. d \in Removing /\ c.wanted \ {c.skill} \subseteq Managed
    <3>. HIDE DEF c
    <3>. QED BY <2>2 DEF Removing
  <2>4. /\ config' = c.wanted \ {c.skill} /\ run' = [run EXCEPT ![p] = d]
        /\ UNCHANGED <<served, record, made, disk, manifest, left, hand, runs>>
    BY <1>2 DEF L!RemoveLists, L!Goes
  <2>. HIDE DEF c, d
  <2>. QED BY <2>2, <2>3, <2>4, Kept, BesideStep
<1>3. CASE L!RemoveClears(p)
  <2>1. c.at = "unlisted" BY <1>3 DEF L!RemoveClears
  <2>2. c \in Removing /\ ~ L!Pulling(p)
    BY <1>0, <2>1, StateOf, NotPulling
  <2>3. /\ disk' = L!Cleared(record[c.skill].at, c.skill)
        /\ record' = [record EXCEPT ![c.skill] = L!NoRecord] /\ run' = [run EXCEPT ![p] = L!Idle]
        /\ UNCHANGED <<served, config, made, manifest, left, hand, runs>>
    BY <1>3 DEF L!RemoveClears, L!Goes
  <2>. HIDE DEF c
  <2>4. c.skill \in Managed BY <2>2 DEF Removing
  <2>5. record' \in [Managed -> L!Records]
    BY <1>0, <2>3, <2>4, Kept
  <2>6. /\ disk' \in [Dirs -> L!Trees] /\ \A x \in Dirs \ made : disk'[x] = L!NoTree
        /\ \A x \in Dirs, name \in L!Names \ Managed : disk'[x][name] = disk[x][name]
    BY <2>3, <2>4, ClearedTyped
  <2>. QED BY <2>2, <2>3, <2>5, <2>6, Kept, BesideStep
<1>. QED BY <1>1, <1>2, <1>3

-----------------------------------------------------------------------------
(* Releases, directories, hands.                                             *)
LEMMA Around ==
  ASSUME SkillsInv,
         \/ \E s \in L!Skills : L!Release(s)
         \/ \E d \in Dirs : L!MakeDir(d)
         \/ \E h \in Hand : L!PutByHand(h)
  PROVE  SkillsInv'
<1>1. CASE \E s \in L!Skills : L!Release(s)
  <2>1. PICK s \in L!Skills : L!Release(s) BY <1>1
  <2>2. /\ served[s] < MaxVersion /\ served' = [served EXCEPT ![s] = @ + 1]
        /\ UNCHANGED <<config, record, made, disk, manifest, left, hand, run, runs>>
    BY <2>1 DEF L!Release
  <2>3. served' \in [L!Skills -> L!Versions]
    BY <2>2, Kept, SkillsAssumption DEF L!Versions
  <2>4. L!TypeOK'
    BY <2>2, <2>3 DEF SkillsInv, L!TypeOK
  <2>. QED BY <2>2, <2>4 DEF SkillsInv, TreeIsManifest, OnePull, L!Pulling, PullOK, L!HandMadeStays
<1>2. CASE \E d \in Dirs : L!MakeDir(d)
  <2>1. PICK d \in Dirs : L!MakeDir(d) BY <1>2
  <2>2. /\ made' = made \cup {d} /\ \A p \in Slots : run[p].at \notin {"staged", "aside"}
        /\ UNCHANGED <<served, config, record, disk, manifest, left, hand, run, runs>>
    BY <2>1 DEF L!MakeDir
  <2>3. L!TypeOK'
    BY <2>2 DEF SkillsInv, L!TypeOK
  <2>. QED BY <2>2, <2>3 DEF SkillsInv, TreeIsManifest, OnePull, L!Pulling, PullOK, L!HandMadeStays
<1>3. CASE \E h \in Hand : L!PutByHand(h)
  <2>1. PICK h \in Hand : L!PutByHand(h) BY <1>3
  <2>2. /\ \A p \in Slots : run[p].at \notin {"staged", "aside"}
        /\ hand' = hand \cup {h} /\ made' = made \cup {Shared}
        /\ disk' = [disk EXCEPT ![Shared][h] = 1]
        /\ UNCHANGED <<served, config, record, manifest, left, run, runs>>
    BY <2>1 DEF L!PutByHand
  <2>3. h \in L!Names /\ h \notin L!Skills /\ 1 \in L!Versions /\ Shared \in Dirs
    BY SkillsAssumption DEF L!Names, L!Skills, L!Versions
  <2>4. /\ disk' \in [Dirs -> L!Trees] /\ disk'[Shared][h] = 1
        /\ \A d \in Dirs : d # Shared => disk'[d] = disk[d]
        /\ \A name \in L!Names : name # h => disk'[Shared][name] = disk[Shared][name]
    BY <2>2, <2>3, Kept DEF L!Trees
  <2>5. L!TypeOK'
    BY <2>2, <2>3, <2>4 DEF SkillsInv, L!TypeOK
  <2>6. TreeIsManifest'
    BY <2>2, <2>3, <2>4 DEF SkillsInv, TreeIsManifest, L!Names, L!Skills
  <2>7. L!HandMadeStays'
    BY <2>2, <2>3, <2>4 DEF SkillsInv, L!HandMadeStays, L!TypeOK, L!Names
  <2>. QED BY <2>2, <2>5, <2>6, <2>7 DEF SkillsInv, OnePull, L!Pulling, PullOK
<1>. QED BY <1>1, <1>2, <1>3

-----------------------------------------------------------------------------
(* A pull, from its resolution to the swap.                                  *)
LEMMA PullStartsKeeps ==
  ASSUME SkillsInv, NEW p \in Slots, L!PullStarts(p)
  PROVE  SkillsInv'
<1>1. PICK set \in [L!Skills -> L!Versions] : L!Starts(p, [at |-> "resolved", set |-> set])
  BY DEF L!PullStarts
<1>2. /\ \A q \in Slots : ~ L!Pulling(q)
      /\ UNCHANGED <<served, config, record, made, disk, manifest, left, hand>>
  BY DEF L!PullStarts
<1>. DEFINE d == [at |-> "resolved", set |-> set]
<1>3. d \in Resolved /\ d.at = "resolved" BY DEF Resolved
<1>. HIDE DEF d
<1>4. run' = [run EXCEPT ![p] = d] /\ runs' \in 0 .. MaxRuns
  BY <1>1, Began DEF d
<1>5. /\ run' \in [Slots -> L!CommandStates] /\ run'[p] = d
      /\ \A q \in Slots : q # p => run'[q] = run[q]
  BY <1>3, <1>4, RunTyped
<1>6. L!TypeOK'
  BY <1>2, <1>4, <1>5 DEF SkillsInv, L!TypeOK
<1>7. \A q \in Slots : run[q].at # "aside" /\ (q # p => run'[q].at \notin {"resolved", "staged", "aside"})
  BY <1>2, <1>5 DEF L!Pulling
<1>8. OnePull' /\ \A q \in Slots : PullOK(q)'
  BY <1>3, <1>5, <1>7 DEF OnePull, L!Pulling, PullOK
<1>. QED BY <1>2, <1>6, <1>7, <1>8 DEF SkillsInv, TreeIsManifest, L!HandMadeStays

LEMMA PullStagesKeeps ==
  ASSUME SkillsInv, NEW p \in Slots, L!PullStages(p)
  PROVE  SkillsInv'
<1>. DEFINE c == run[p]
            tree == [name \in L!Names |->
                      CASE name \in L!Skills /\ c.set[name] # 0 -> c.set[name]
                        [] OTHER -> IF L!Written(name) THEN 0 ELSE disk[Shared][name]]
            d == [at |-> "staged", set |-> c.set, backup |-> L!NoTree, stage |-> tree]
<1>1. /\ c.at = "resolved" /\ run' = [run EXCEPT ![p] = d]
      /\ UNCHANGED <<served, config, record, made, disk, manifest, left, hand, runs>>
  BY DEF L!PullStages, L!Goes
<1>2. c \in Resolved /\ L!Pulling(p)
  BY <1>1, StateOf, NotPulling DEF L!Pulling
<1>3. c.set \in [L!Skills -> L!Versions] BY <1>2 DEF Resolved
<1>4. disk[Shared] \in [L!Names -> L!Versions] /\ 0 \in L!Versions
  BY Kept, SkillsAssumption DEF L!Trees, L!Versions
<1>5. tree \in L!Trees /\ L!NoTree \in L!Trees
  BY <1>3, <1>4 DEF L!Trees, L!NoTree
<1>6. \A h \in Hand : tree[h] = disk[Shared][h]
  <2> SUFFICES ASSUME NEW h \in Hand PROVE tree[h] = disk[Shared][h]
    OBVIOUS
  <2>1. h \in L!Names /\ h \notin L!Skills
    BY SkillsAssumption DEF L!Names, L!Skills
  <2>2. h \notin DOMAIN manifest
    BY <2>1 DEF SkillsInv, L!TypeOK, L!NoManifest
  <2>. QED BY <2>1, <2>2 DEF L!Written
<1>7. \A s \in Listed \ Managed : tree[s] = c.set[s]
  <2> SUFFICES ASSUME NEW s \in Listed \ Managed PROVE tree[s] = c.set[s]
    OBVIOUS
  <2>1. s \in L!Names /\ s \in L!Skills
    BY DEF L!Names, L!Skills
  <2>2. disk[Shared][s] = IF manifest = L!NoManifest THEN 0 ELSE manifest[s]
    BY DEF SkillsInv, TreeIsManifest
  <2>3. manifest # L!NoManifest => s \in DOMAIN manifest
    BY <2>1 DEF SkillsInv, L!TypeOK
  <2>4. L!Written(s) \/ disk[Shared][s] = 0
    BY <2>2, <2>3 DEF L!Written
  <2>. HIDE DEF c
  <2>. QED BY <2>1, <2>4
<1>8. /\ d \in Swapping /\ d.at = "staged" /\ d.stage = tree /\ d.set = c.set
  BY <1>3, <1>5 DEF Swapping
<1>. HIDE DEF c, tree, d
<1>9. /\ run' \in [Slots -> L!CommandStates] /\ run'[p] = d
      /\ \A q \in Slots : q # p => run'[q] = run[q]
  BY <1>1, <1>8, RunTyped
<1>10. L!TypeOK'
  BY <1>1, <1>9 DEF SkillsInv, L!TypeOK
<1>11. \A q \in Slots : q # p => run[q].at \notin {"resolved", "staged", "aside"}
  BY <1>2 DEF SkillsInv, OnePull, L!Pulling
<1>12. OnePull'
  BY <1>9, <1>11 DEF OnePull, L!Pulling
<1>13. \A q \in Slots : PullOK(q)'
  <2>1. PullOK(p)'
    BY <1>1, <1>6, <1>7, <1>8, <1>9 DEF PullOK
  <2>2. ASSUME NEW q \in Slots, q # p PROVE PullOK(q)'
    BY <1>9, <1>11, <2>2 DEF PullOK
  <2>. QED BY <2>1, <2>2
<1>14. L!HandMadeStays'
  <2>1. run[p].at # "aside" BY <1>1 DEF c
  <2>. QED BY <1>1, <1>9, <1>11, <2>1 DEF SkillsInv, L!HandMadeStays
<1>. QED BY <1>1, <1>10, <1>12, <1>13, <1>14 DEF SkillsInv, TreeIsManifest

(* The staged tree is put in place: by PullSwaps, or where there is nothing  *)
(* to set aside.                                                             *)
LEMMA SwappedKeeps ==
  ASSUME SkillsInv, NEW p \in Slots, run[p].at \in {"staged", "aside"}, L!Swapped(p),
         UNCHANGED <<served, config, record, left, hand, runs>>
  PROVE  SkillsInv'
<1>. DEFINE c == run[p]
<1>1. /\ disk' = [disk EXCEPT ![Shared] = c.stage] /\ manifest' = c.set
      /\ made' = made \cup {Shared} /\ run' = [run EXCEPT ![p] = L!Idle]
  BY DEF L!Swapped, L!Goes
<1>2. c \in Swapping
  BY StateOf, NotPulling
<1>3. c.set \in [L!Skills -> L!Versions] /\ c.stage \in L!Trees /\ c.at \in {"staged", "aside"}
  BY <1>2 DEF Swapping
<1>4. L!Idle.at = "idle" BY DEF L!Idle
<1>5. /\ run' \in [Slots -> L!CommandStates] /\ run'[p] = L!Idle
      /\ \A q \in Slots : q # p => run'[q] = run[q]
  BY <1>1, RunTyped
<1>6. /\ disk' \in [Dirs -> L!Trees] /\ disk'[Shared] = c.stage
      /\ \A x \in Dirs : x # Shared => disk'[x] = disk[x]
  BY <1>1, <1>3, Kept, SkillsAssumption
<1>7. \A q \in Slots : q # p => run[q].at \notin {"resolved", "staged", "aside"}
  BY DEF SkillsInv, OnePull, L!Pulling
<1>8. L!TypeOK'
  BY <1>1, <1>3, <1>5, <1>6, SkillsAssumption DEF SkillsInv, L!TypeOK
<1>9. \A s \in Listed \ Managed : c.stage[s] = c.set[s]
  BY DEF SkillsInv, PullOK
<1>10. TreeIsManifest'
  <2>1. ASSUME NEW s \in Listed \ Managed PROVE manifest' # L!NoManifest
    BY <1>1, <1>3 DEF L!NoManifest, L!Skills
  <2>. QED BY <1>1, <1>6, <1>9, <2>1 DEF TreeIsManifest
<1>11. OnePull' /\ \A q \in Slots : PullOK(q)'
  BY <1>4, <1>5, <1>7 DEF OnePull, L!Pulling, PullOK
<1>12. ASSUME NEW h \in hand PROVE disk'[Shared][h] = 1 \/ h \in left
  <2>1. h \in Hand BY DEF SkillsInv, L!TypeOK
  <2>2. CASE c.at = "staged"
    <3>1. c.stage[h] = disk[Shared][h]
      BY <2>1, <2>2 DEF SkillsInv, PullOK
    <3>2. disk[Shared][h] = 1 \/ h \in left
      BY <1>7, <2>2 DEF SkillsInv, L!HandMadeStays
    <3>. QED BY <1>6, <3>1, <3>2
  <2>3. CASE c.at = "aside"
    <3>1. c.stage[h] = c.backup[h] /\ Shared \notin made
      BY <2>1, <2>3 DEF SkillsInv, PullOK
    <3>2. disk[Shared][h] = 0
      <4>1. disk[Shared] = L!NoTree /\ h \in L!Names
        BY <2>1, <3>1, Kept, SkillsAssumption DEF L!Names
      <4>. QED BY <4>1 DEF L!NoTree
    <3>3. c.backup[h] = 1 \/ h \in left
      BY <1>7, <3>2 DEF SkillsInv, L!HandMadeStays
    <3>. QED BY <1>6, <3>1, <3>3
  <2>. QED BY <1>3, <2>2, <2>3
<1>13. L!HandMadeStays'
  BY <1>12 DEF L!HandMadeStays
<1>. QED BY <1>8, <1>10, <1>11, <1>13 DEF SkillsInv

LEMMA SetsAsideKeeps ==
  ASSUME SkillsInv, NEW p \in Slots, L!PullSetsAside(p)
  PROVE  SkillsInv'
<1>1. run[p].at = "staged" /\ UNCHANGED <<served, config, record, left, hand, runs>>
  BY DEF L!PullSetsAside
<1>2. CASE Shared \notin made
  BY <1>1, <1>2, SwappedKeeps DEF L!PullSetsAside
<1>3. CASE Shared \in made
  <2>. DEFINE c == run[p]
              d == [c EXCEPT !.at = "aside", !.backup = disk[Shared]]
  <2>1. /\ run' = [run EXCEPT ![p] = d] /\ disk' = [disk EXCEPT ![Shared] = L!NoTree]
        /\ made' = made \ {Shared} /\ manifest' = L!NoManifest
    BY <1>3 DEF L!PullSetsAside, L!Goes
  <2>2. c \in Swapping
    BY <1>1, StateOf, NotPulling
  <2>3. disk[Shared] \in L!Trees /\ L!NoTree \in L!Trees /\ 0 \in L!Versions
    BY Kept, SkillsAssumption DEF L!NoTree, L!Trees, L!Versions
  <2>4. /\ d \in Swapping /\ d.at = "aside" /\ d.stage = c.stage /\ d.set = c.set
        /\ d.backup = disk[Shared]
    <3>. HIDE DEF c
    <3>. QED BY <2>2, <2>3 DEF Swapping
  <2>. HIDE DEF d
  <2>5. /\ run' \in [Slots -> L!CommandStates] /\ run'[p] = d
        /\ \A q \in Slots : q # p => run'[q] = run[q]
    BY <2>1, <2>4, RunTyped
  <2>6. /\ disk' \in [Dirs -> L!Trees] /\ disk'[Shared] = L!NoTree
        /\ \A x \in Dirs : x # Shared => disk'[x] = disk[x]
    BY <2>1, <2>3, Kept, SkillsAssumption
  <2>7. \A q \in Slots : q # p => run[q].at \notin {"resolved", "staged", "aside"}
    BY <1>1 DEF SkillsInv, OnePull, L!Pulling
  <2>8. L!TypeOK'
    <3>1. \A x \in Dirs \ made' : disk'[x] = L!NoTree
      BY <2>1, <2>6, Kept
    <3>2. manifest' \in {L!NoManifest} \cup [L!Skills -> L!Versions] /\ made' \subseteq Dirs
      BY <2>1, Kept
    <3>. QED BY <1>1, <2>5, <2>6, <3>1, <3>2 DEF SkillsInv, L!TypeOK
  <2>9. TreeIsManifest'
    BY <2>1, <2>6 DEF TreeIsManifest, L!NoTree, L!Names, L!Skills
  <2>10. OnePull'
    BY <2>5, <2>7 DEF OnePull, L!Pulling
  <2>11. \A q \in Slots : PullOK(q)'
    <3>1. PullOK(p)'
      <4>1. \A s \in Listed \ Managed : c.stage[s] = c.set[s]
        BY <1>1 DEF SkillsInv, PullOK
      <4>2. \A h \in Hand : c.stage[h] = disk[Shared][h]
        BY <1>1 DEF SkillsInv, PullOK
      <4>. QED BY <2>1, <2>4, <2>5, <4>1, <4>2 DEF PullOK
    <3>2. ASSUME NEW q \in Slots, q # p PROVE PullOK(q)'
      BY <2>5, <2>7, <3>2 DEF PullOK
    <3>. QED BY <3>1, <3>2
  <2>12. L!HandMadeStays'
    <3> SUFFICES ASSUME NEW h \in hand
                 PROVE  h \in left \/ \E q \in Slots : run'[q].at = "aside" /\ run'[q].backup[h] = 1
      BY <1>1 DEF L!HandMadeStays
    <3>1. disk[Shared][h] = 1 \/ h \in left
      BY <1>1, <2>7 DEF SkillsInv, L!HandMadeStays
    <3>. QED BY <2>4, <2>5, <3>1
  <2>. QED BY <2>8, <2>9, <2>10, <2>11, <2>12 DEF SkillsInv
<1>. QED BY <1>2, <1>3

LEMMA SwapsKeeps ==
  ASSUME SkillsInv, NEW p \in Slots, L!PullSwaps(p)
  PROVE  SkillsInv'
BY SwappedKeeps DEF L!PullSwaps

LEMMA StopsKeeps ==
  ASSUME SkillsInv, NEW p \in Slots, L!Stops(p)
  PROVE  SkillsInv'
<1>1. /\ left' = left \cup (IF run[p].at = "aside" THEN {h \in Hand : run[p].backup[h] # 0} ELSE {})
      /\ run' = [run EXCEPT ![p] = L!Idle]
      /\ UNCHANGED <<served, config, record, made, disk, manifest, hand, runs>>
  BY DEF L!Stops, L!Goes
<1>2. L!Idle.at = "idle" BY DEF L!Idle
<1>3. /\ run' \in [Slots -> L!CommandStates] /\ run'[p] = L!Idle
      /\ \A q \in Slots : q # p => run'[q] = run[q]
  BY <1>1, RunTyped
<1>4. left \subseteq left' /\ left' \subseteq Hand
  BY <1>1 DEF SkillsInv, L!TypeOK
<1>5. L!TypeOK'
  BY <1>1, <1>3, <1>4 DEF SkillsInv, L!TypeOK
<1>6. OnePull' /\ \A q \in Slots : PullOK(q)'
  BY <1>1, <1>2, <1>3 DEF SkillsInv, OnePull, L!Pulling, PullOK
<1>7. L!HandMadeStays'
  <2> SUFFICES ASSUME NEW h \in hand
               PROVE  \/ disk[Shared][h] = 1
                      \/ h \in left'
                      \/ \E q \in Slots : run'[q].at = "aside" /\ run'[q].backup[h] = 1
    BY <1>1 DEF L!HandMadeStays
  <2>1. h \in Hand BY DEF SkillsInv, L!TypeOK
  <2>2. CASE \E q \in Slots : run[q].at = "aside" /\ run[q].backup[h] = 1
    <3>1. PICK q \in Slots : run[q].at = "aside" /\ run[q].backup[h] = 1 BY <2>2
    <3>2. CASE q = p
      BY <1>1, <2>1, <3>1, <3>2
    <3>3. CASE q # p
      BY <1>3, <3>1, <3>3
    <3>. QED BY <3>2, <3>3
  <2>. QED BY <1>4, <2>2 DEF SkillsInv, L!HandMadeStays
<1>. QED BY <1>1, <1>5, <1>6, <1>7 DEF SkillsInv, TreeIsManifest

LEMMA SkillsPreserved == SkillsInv /\ [Next]_all => SkillsInv'
<1> SUFFICES ASSUME SkillsInv, [Next]_all PROVE SkillsInv'
  OBVIOUS
<1>1. CASE L!Next
  BY <1>1, Around, SyncKeeps, AddKeeps, RemoveKeeps, PullStartsKeeps, PullStagesKeeps,
     SetsAsideKeeps, SwapsKeeps, StopsKeeps DEF L!Next
<1>2. CASE UNCHANGED lVars
  BY <1>2 DEF lVars, SkillsInv, L!TypeOK, TreeIsManifest, OnePull, L!Pulling, PullOK, L!HandMadeStays
<1>3. L!Next \/ UNCHANGED lVars
  BY DEF Next, Sessions, Skills, Hooks, Sandboxes, Authoring, Tuning, Revision, all
<1>. QED BY <1>1, <1>2, <1>3

(* What a pull has staged or set aside holds what people put there, whatever *)
(* syncs, adds and removes run beside it and wherever it stops (cli/pull.go).*)
THEOREM SkillsInvariant == Spec => []SkillsInv
<1>1. SkillsInv /\ [Next]_all => SkillsInv'
  BY SkillsPreserved
<1>. QED BY <1>1, SkillsInit, PTL DEF Spec

(* What a person put into the pulled directory survives every pull, and the  *)
(* rest of it is one resolution of the set (pull.go:236-238, 289-290).       *)
THEOREM HandMadeSurvives == Spec => []HandMadeStays
<1>1. SkillsInv => HandMadeStays
  BY DEF SkillsInv, TreeIsManifest, HandMadeStays, L!PulledIsOneResolution
<1>. QED BY <1>1, SkillsInvariant, PTL

-----------------------------------------------------------------------------
(* A revision of a bundle.  What the offload goes through, one move after    *)
(* another.                                                                  *)
OffloadStep(st) ==
  IF \/ R!WeightTo(st.body) <= Budget \/ R!Candidates(st.body) = {} \/ st.moved >= MaxReferences
  THEN st ELSE R!Move(st)
OffloadStart == [body |-> body, refs |-> R!Nothing, moved |-> 0]
OffloadTo(g, i) == g[0] = OffloadStart /\ \A j \in 0 .. i : j < i => g[j + 1] = OffloadStep(g[j])

LEMMA OffloadSteps ==
  \E f : /\ f[0] = OffloadStart /\ \A i \in Nat : f[i + 1] = OffloadStep(f[i])
         /\ R!Offloaded = f[MaxSections]
<1>1. \A i \in Nat : \E g : OffloadTo(g, i)
  <2>. DEFINE G == {i \in Nat : \E g : OffloadTo(g, i)}
  <2>1. 0 \in G
    <3>1. OffloadTo([j \in 0 .. 0 |-> OffloadStart], 0) BY DEF OffloadTo
    <3>. QED BY <3>1
  <2>2. ASSUME NEW i \in G PROVE i + 1 \in G
    <3>1. PICK g : OffloadTo(g, i) OBVIOUS
    <3>. DEFINE h == [j \in 0 .. i + 1 |-> IF j <= i THEN g[j] ELSE OffloadStep(g[i])]
    <3>2. h[0] = OffloadStart BY <3>1 DEF OffloadTo
    <3>3. ASSUME NEW j \in 0 .. i + 1, j < i + 1 PROVE h[j + 1] = OffloadStep(h[j])
      <4>1. j \in 0 .. i /\ j + 1 \in 0 .. i + 1 /\ h[j] = g[j]
        BY <3>3
      <4>2. CASE j = i
        BY <4>1, <4>2
      <4>3. CASE j < i
        <5>1. h[j + 1] = g[j + 1] BY <4>1, <4>3
        <5>. QED BY <3>1, <4>1, <4>3, <5>1 DEF OffloadTo
      <4>. QED BY <4>1, <4>2, <4>3
    <3>. HIDE DEF h
    <3>4. OffloadTo(h, i + 1) BY <3>2, <3>3 DEF OffloadTo
    <3>. QED BY <3>4
  <2>. HIDE DEF G
  <2>3. G = Nat BY <2>1, <2>2, Induction DEF G
  <2>. QED BY <2>3 DEF G
<1>2. ASSUME NEW i \in Nat, NEW k \in Nat, i <= k, NEW g, NEW h, OffloadTo(g, i), OffloadTo(h, k)
      PROVE  g[i] = h[i]
  <2>. DEFINE G == {j \in Nat : j <= i => g[j] = h[j]}
  <2>1. 0 \in G BY <1>2 DEF OffloadTo
  <2>2. ASSUME NEW j \in G PROVE j + 1 \in G
    <3> SUFFICES ASSUME j + 1 <= i PROVE g[j + 1] = h[j + 1]
      OBVIOUS
    <3>1. j \in 0 .. i /\ j \in 0 .. k /\ j < i /\ j < k /\ g[j] = h[j]
      BY <1>2
    <3>2. g[j + 1] = OffloadStep(g[j]) /\ h[j + 1] = OffloadStep(h[j])
      BY <1>2, <3>1 DEF OffloadTo
    <3>. QED BY <3>1, <3>2
  <2>. HIDE DEF G
  <2>3. G = Nat BY <2>1, <2>2, Induction DEF G
  <2>. QED BY <2>3 DEF G
<1>. DEFINE at(i) == CHOOSE g : OffloadTo(g, i)
            f == [i \in Nat |-> at(i)[i]]
            IsAfter(g) == g = [num \in Nat |->
                            IF num = 0 THEN [body |-> body, refs |-> R!Nothing, moved |-> 0]
                            ELSE IF \/ R!WeightTo(g[num - 1].body) <= Budget \/ R!Candidates(g[num - 1].body) = {}
                                    \/ g[num - 1].moved >= MaxReferences
                                 THEN g[num - 1] ELSE R!Move(g[num - 1])]
<1>3. \A i \in Nat : OffloadTo(at(i), i)
  BY <1>1
<1>. HIDE DEF at
<1>4. f[0] = OffloadStart
  BY <1>3 DEF OffloadTo
<1>5. ASSUME NEW i \in Nat PROVE f[i + 1] = OffloadStep(f[i])
  <2>1. f[i + 1] = at(i + 1)[i + 1] /\ f[i] = at(i)[i] OBVIOUS
  <2>2. at(i)[i] = at(i + 1)[i] BY <1>2, <1>3
  <2>3. at(i + 1)[i + 1] = OffloadStep(at(i + 1)[i]) BY <1>3 DEF OffloadTo
  <2>. QED BY <2>1, <2>2, <2>3
<1>6. f = [i \in Nat |-> f[i]]
  OBVIOUS
<1>. HIDE DEF f
<1>7. \E g : IsAfter(g)
  <2>1. ASSUME NEW i \in Nat
        PROVE  f[i] = IF i = 0 THEN OffloadStart ELSE OffloadStep(f[i - 1])
    <3>1. CASE i = 0 BY <1>4, <3>1
    <3>2. CASE i # 0
      <4>1. i - 1 \in Nat /\ (i - 1) + 1 = i BY <3>2
      <4>. QED BY <1>5, <3>2, <4>1
    <3>. QED BY <3>1, <3>2
  <2>2. IsAfter(f) BY <1>6, <2>1 DEF OffloadStart, OffloadStep
  <2>. QED BY <2>2
<1>. DEFINE w == CHOOSE g : IsAfter(g)
<1>8. R!Offloaded = w[MaxSections]
  BY DEF R!Offloaded
<1>9. IsAfter(w)
  <2>. HIDE DEF IsAfter
  <2>. QED BY <1>7
<1>. HIDE DEF w
<1>10. w[0] = OffloadStart
  BY <1>9 DEF OffloadStart
<1>11. ASSUME NEW i \in Nat PROVE w[i + 1] = OffloadStep(w[i])
  <2>1. i + 1 \in Nat /\ i + 1 # 0 /\ (i + 1) - 1 = i OBVIOUS
  <2>. QED BY <1>9, <2>1 DEF OffloadStep
<1>. HIDE DEF IsAfter
<1>. QED BY <1>8, <1>10, <1>11

Passing == {"body", "resources", "description"}
Writing == pc \in {"skill", "files", "offload", "revise", "lint"}
BodyDone == Writing \/ (pc = "passes" /\ ~ failed /\ "body" \notin passes)
FilesDone == Writing \/ (pc = "passes" /\ ~ failed /\ "resources" \notin passes)

(* Nothing was moved or rewritten yet.                                       *)
Early == pc \in {"idle", "passes", "offload"} \/ (pc \in {"skill", "files"} /\ after = "offload")

(* Every drafted section is in body b, or in the file of w that its link     *)
(* names.                                                                    *)
Whole(b, w) ==
  /\ Len(b.sections) = Len(drafted)
  /\ \A i \in 1 .. Len(drafted) :
       IF b.sections[i].link = None THEN b.sections[i] = drafted[i]
       ELSE b.sections[i].link \in DOMAIN w /\ w[b.sections[i].link] = drafted[i]
HasPlanned(w) == \A h \in Planned : <<h, 1>> \in DOMAIN w /\ w[<<h, 1>>] = R!PlannedText(h)

RevisionInv ==
  /\ R!TypeOK
  /\ passes \subseteq Passing /\ failed \in BOOLEAN
  /\ passes # {} => pc = "passes"
  /\ failed => pc \in {"idle", "passes"}
  /\ pc \in {"skill", "files"} => after \in {"offload", "revise"}
  /\ drafted \in Seq(R!Inline) /\ Len(drafted) <= MaxSections
  /\ Early => revised = 0
  /\ Early /\ BodyDone => body.sections = drafted
  /\ Early /\ FilesDone => written = R!Plan
  /\ BodyDone /\ revised = 0 => Whole(body, written)
  /\ FilesDone => HasPlanned(written)
  /\ pc \in {"files", "offload", "revise", "lint"} => skill # None /\ skill.body = body
  /\ pc \in {"offload", "revise", "lint"} =>
       \A s \in DOMAIN written : s \in DOMAIN files /\ files[s] = written[s]

LEMMA GreatestWeight ==
  ASSUME NEW w, NEW num \in Nat, NEW C \in SUBSET (1 .. num), C # {}, \A i \in C : w[i] \in Nat
  PROVE  \E i \in C : \A j \in C : w[i] >= w[j]
<1>. DEFINE Has(m) == \A D \in SUBSET (1 .. m) :
                        D # {} /\ (\A i \in D : w[i] \in Nat) => \E i \in D : \A j \in D : w[i] >= w[j]
            G == {m \in Nat : Has(m)}
<1>1. 0 \in G
  <2>1. \A D \in SUBSET (1 .. 0) : D = {} OBVIOUS
  <2>. QED BY <2>1
<1>2. ASSUME NEW m \in G PROVE m + 1 \in G
  <2>1. Has(m) OBVIOUS
  <2>2. SUFFICES ASSUME NEW D \in SUBSET (1 .. (m + 1)), D # {}, \A i \in D : w[i] \in Nat
                 PROVE  \E i \in D : \A j \in D : w[i] >= w[j]
    OBVIOUS
  <2>. DEFINE E == D \ {m + 1}
  <2>3. E \in SUBSET (1 .. m) /\ \A i \in E : w[i] \in Nat
    BY <2>2
  <2>4. CASE E = {}
    BY <2>2, <2>4
  <2>5. CASE E # {}
    <3>1. PICK i \in E : \A j \in E : w[i] >= w[j]
      BY <2>1, <2>3, <2>5
    <3>2. CASE m + 1 \in D /\ w[m + 1] > w[i]
      <4>1. \A j \in D : w[m + 1] >= w[j] BY <2>2, <3>1, <3>2
      <4>. QED BY <3>2, <4>1
    <3>3. CASE ~ (m + 1 \in D /\ w[m + 1] > w[i])
      <4>1. \A j \in D : w[i] >= w[j] BY <2>2, <3>1, <3>3
      <4>. QED BY <3>1, <4>1
    <3>. QED BY <3>2, <3>3
  <2>. QED BY <2>4, <2>5
<1>. HIDE DEF Has
<1>3. G = Nat
  <2>1. G \in SUBSET Nat OBVIOUS
  <2>. HIDE DEF G
  <2>. QED BY <1>1, <1>2, <2>1, Induction
<1>4. Has(num) BY <1>3
<1>. QED BY <1>4 DEF Has

LEMMA HeaviestIsCandidate ==
  ASSUME NEW b \in R!Bodies, R!Candidates(b) # {}
  PROVE  R!Heaviest(b) \in R!Candidates(b)
<1>. DEFINE C == R!Candidates(b)
            w == [i \in C |-> b.sections[i].weight]
<1>1. /\ b.sections \in Seq(R!Inline \cup R!Linked) /\ Len(b.sections) \in Nat
      /\ C \in SUBSET (1 .. Len(b.sections)) /\ \A i \in C : b.sections[i].link = None
  BY DEF R!Bodies, R!Candidates
<1>2. \A i \in C : b.sections[i].weight \in Nat
  <2> SUFFICES ASSUME NEW i \in C PROVE b.sections[i].weight \in Nat
    OBVIOUS
  <2>1. b.sections[i] \in R!Inline \cup R!Linked BY <1>1
  <2>2. b.sections[i] \in R!Inline
    BY <1>1, <2>1, RevisionAssumption DEF R!Linked
  <2>. QED BY <2>2, RevisionAssumption DEF R!Inline
<1>3. PICK i \in C : \A j \in C : w[i] >= w[j]
  <2>. HIDE DEF C
  <2>1. \A j \in C : w[j] \in Nat BY <1>2
  <2>. HIDE DEF w
  <2>. QED BY <1>1, <2>1, GreatestWeight DEF C
<1>4. \E k \in C : \A j \in C : b.sections[k].weight >= b.sections[j].weight
  BY <1>3
<1>. QED BY <1>4 DEF R!Heaviest

LEMMA SlugIsFree ==
  ASSUME NEW h \in Headings, NEW used, NEW top \in 1 .. MaxSections + 1, <<h, top>> \notin used
  PROVE  R!Slug(h, used) \in R!Slugs /\ R!Slug(h, used) \notin used /\ R!Slug(h, used)[2] <= top
<1>. DEFINE N == {num \in 1 .. MaxSections + 1 : <<h, num>> \notin used}
            Free(s) == s[1] = h /\ s \notin used /\ \A num \in 1 .. s[2] - 1 : <<h, num>> \in used
<1>0. MaxSections \in Nat BY RevisionAssumption
<1>1. N \in SUBSET Nat /\ top \in N BY <1>0
<1>2. PICK m \in N : \A num \in N : m <= num
  <2>. HIDE DEF N
  <2>. QED BY <1>1, Least
<1>3. <<h, m>> \in R!Slugs /\ Free(<<h, m>>)
  BY <1>0, <1>2 DEF R!Slugs
<1>. DEFINE s == R!Slug(h, used)
<1>4. s = CHOOSE x \in R!Slugs : Free(x)
  BY DEF R!Slug
<1>. HIDE DEF s
<1>5. s \in R!Slugs /\ Free(s)
  <2>. HIDE DEF Free
  <2>. QED BY <1>3, <1>4
<1>6. s = <<s[1], s[2]>> /\ s[2] \in 1 .. MaxSections + 1
  BY <1>5 DEF R!Slugs
<1>7. s[2] <= top
  BY <1>0, <1>5, <1>6
<1>. QED BY <1>5, <1>7 DEF s

-----------------------------------------------------------------------------
(* After k moves: no file is written over, and none is of a number above     *)
(* k + 1.                                                                    *)
Moved(st, k) ==
  /\ st.body \in R!Bodies /\ Whole(st.body, st.refs)
  /\ DOMAIN st.refs \subseteq R!Slugs
  /\ \A s \in DOMAIN st.refs : s \notin DOMAIN written /\ s[2] <= k + 1

LEMMA MoveKeeps ==
  ASSUME RevisionInv, written = R!Plan, NEW k \in Nat, k < MaxSections, NEW st, Moved(st, k),
         R!Candidates(st.body) # {}
  PROVE  Moved(R!Move(st), k + 1)
<1>. DEFINE top == R!Heaviest(st.body)
            sec == st.body.sections[top]
            used == DOMAIN written \cup DOMAIN st.refs
            ref == R!Slug(sec.heading, used)
            link == [heading |-> sec.heading, weight |-> StubWeight, link |-> ref]
            b == [st.body EXCEPT !.sections[top] = link]
            refs == R!Over(st.refs, [s \in {ref} |-> sec])
<1>0. MaxSections \in Nat BY RevisionAssumption
<1>1. R!Move(st).body = b /\ R!Move(st).refs = refs
  BY DEF R!Move
<1>2. top \in R!Candidates(st.body) /\ st.body \in R!Bodies
  BY HeaviestIsCandidate DEF Moved
<1>3. /\ top \in 1 .. Len(st.body.sections) /\ sec.link = None
      /\ st.body.sections \in Seq(R!Inline \cup R!Linked) /\ sec \in R!Inline \cup R!Linked
  BY <1>2 DEF R!Candidates, R!Bodies
<1>4. sec.heading \in Headings
  BY <1>3 DEF R!Inline, R!Linked
<1>5. <<sec.heading, k + 2>> \notin used
  <2>1. <<sec.heading, k + 2>> \notin DOMAIN written
    BY DEF R!Plan
  <2>2. <<sec.heading, k + 2>> \notin DOMAIN st.refs
    BY DEF Moved
  <2>. QED BY <2>1, <2>2
<1>6. ref \in R!Slugs /\ ref \notin used /\ ref[2] <= k + 2
  <2>1. k + 2 \in 1 .. MaxSections + 1 BY <1>0
  <2>. HIDE DEF used, sec
  <2>. QED BY <1>4, <1>5, <2>1, SlugIsFree
<1>7. /\ DOMAIN refs = DOMAIN st.refs \cup {ref} /\ refs[ref] = sec
      /\ \A s \in DOMAIN st.refs : refs[s] = st.refs[s]
  BY <1>6 DEF R!Over
<1>8. ref # None BY <1>6, RevisionAssumption
<1>9. link \in R!Linked /\ link.link = ref
  BY <1>4, <1>6 DEF R!Linked
<1>. HIDE DEF link
<1>10. /\ b.sections \in Seq(R!Inline \cup R!Linked) /\ Len(b.sections) = Len(st.body.sections)
       /\ b.sections[top] = link
       /\ \A j \in 1 .. Len(b.sections) : j # top => b.sections[j] = st.body.sections[j]
       /\ b \in R!Bodies
  <2>. DEFINE q == st.body.sections
              q2 == [q EXCEPT ![top] = link]
  <2>1. st.body = [steps |-> st.body.steps, sections |-> q, binding |-> st.body.binding]
        /\ st.body.steps \in StepWeights \cup {0} /\ st.body.binding \in BOOLEAN
    BY <1>2 DEF R!Bodies
  <2>2. b.sections = q2 /\ b.steps = st.body.steps /\ b.binding = st.body.binding
        /\ b = [steps |-> st.body.steps, sections |-> q2, binding |-> st.body.binding]
    BY <2>1
  <2>. HIDE DEF top
  <2>3. /\ q2 \in Seq(R!Inline \cup R!Linked) /\ Len(q2) = Len(q) /\ q2[top] = link
        /\ \A j \in 1 .. Len(q2) : j # top => q2[j] = q[j]
    BY <1>3, <1>9
  <2>. HIDE DEF q2, q, b
  <2>4. b \in R!Bodies
    BY <2>1, <2>2, <2>3 DEF R!Bodies
  <2>. QED BY <2>2, <2>3, <2>4 DEF q
<1>11. sec = drafted[top] /\ Len(st.body.sections) = Len(drafted)
  BY <1>3 DEF Moved, Whole
<1>. HIDE DEF b, refs, ref, sec, top, used
<1>12. Whole(b, refs)
  <2> SUFFICES ASSUME NEW j \in 1 .. Len(drafted)
               PROVE  IF b.sections[j].link = None THEN b.sections[j] = drafted[j]
                      ELSE b.sections[j].link \in DOMAIN refs /\ refs[b.sections[j].link] = drafted[j]
    BY <1>10, <1>11 DEF Whole
  <2>1. CASE j = top
    BY <1>7, <1>8, <1>9, <1>10, <1>11, <2>1
  <2>2. CASE j # top
    <3>1. b.sections[j] = st.body.sections[j] BY <1>10, <1>11, <2>2
    <3>. QED BY <1>7, <3>1 DEF Moved, Whole
  <2>. QED BY <2>1, <2>2
<1>13. DOMAIN refs \subseteq R!Slugs
  BY <1>6, <1>7 DEF Moved
<1>14. \A s \in DOMAIN refs : s \notin DOMAIN written /\ s[2] <= (k + 1) + 1
  <2> SUFFICES ASSUME NEW s \in DOMAIN refs PROVE s \notin DOMAIN written /\ s[2] <= (k + 1) + 1
    OBVIOUS
  <2>1. CASE s = ref
    BY <1>6, <2>1 DEF used
  <2>2. CASE s # ref
    <3>1. s \in DOMAIN st.refs /\ s \in R!Slugs BY <1>7, <1>13, <2>2
    <3>2. s[2] \in Nat BY <1>0, <3>1 DEF R!Slugs
    <3>. QED BY <3>1, <3>2 DEF Moved
  <2>. QED BY <2>1, <2>2
<1>15. R!Move(st).body \in R!Bodies /\ Whole(R!Move(st).body, R!Move(st).refs)
  BY <1>1, <1>10, <1>12
<1>. QED BY <1>1, <1>13, <1>14, <1>15 DEF Moved

LEMMA OffloadedIsWhole ==
  ASSUME RevisionInv, pc = "offload"
  PROVE  Moved(R!Offloaded, MaxSections) /\ written = R!Plan
<1>0. MaxSections \in Nat BY RevisionAssumption
<1>1. /\ written = R!Plan /\ body.sections = drafted /\ body \in R!Bodies
      /\ Whole(body, written) /\ drafted \in Seq(R!Inline)
  BY DEF RevisionInv, Early, FilesDone, BodyDone, Writing, R!TypeOK
<1>2. PICK f : /\ f[0] = OffloadStart /\ \A i \in Nat : f[i + 1] = OffloadStep(f[i])
               /\ R!Offloaded = f[MaxSections]
  BY OffloadSteps
<1>. DEFINE G == {k \in Nat : k <= MaxSections => Moved(f[k], k)}
<1>3. 0 \in G
  <2>1. Whole(body, R!Nothing)
    <3>1. \A i \in 1 .. Len(drafted) : drafted[i] \in R!Inline
      BY <1>1
    <3>2. \A i \in 1 .. Len(drafted) : drafted[i].link = None
      BY <3>1 DEF R!Inline
    <3>. QED BY <1>1, <3>2 DEF Whole
  <2>2. OffloadStart.body = body /\ OffloadStart.refs = R!Nothing
    BY DEF OffloadStart
  <2>3. DOMAIN R!Nothing = {} BY DEF R!Nothing
  <2>. QED BY <1>1, <1>2, <2>1, <2>2, <2>3 DEF Moved
<1>4. ASSUME NEW k \in G PROVE k + 1 \in G
  <2> SUFFICES ASSUME k + 1 <= MaxSections PROVE Moved(f[k + 1], k + 1)
    OBVIOUS
  <2>1. k \in Nat /\ k < MaxSections /\ Moved(f[k], k) /\ f[k + 1] = OffloadStep(f[k])
    BY <1>0, <1>2
  <2>2. CASE f[k + 1] = f[k]
    <3>1. \A s \in DOMAIN f[k].refs : s[2] <= (k + 1) + 1
      <4> SUFFICES ASSUME NEW s \in DOMAIN f[k].refs PROVE s[2] <= (k + 1) + 1
        OBVIOUS
      <4>1. s \in R!Slugs /\ s[2] <= k + 1 BY <2>1 DEF Moved
      <4>2. s[2] \in Nat BY <1>0, <4>1 DEF R!Slugs
      <4>. QED BY <2>1, <4>1, <4>2
    <3>. QED BY <2>1, <2>2, <3>1 DEF Moved
  <2>3. CASE f[k + 1] = R!Move(f[k]) /\ R!Candidates(f[k].body) # {}
    BY <1>1, <2>1, <2>3, MoveKeeps
  <2>. QED BY <2>1, <2>2, <2>3 DEF OffloadStep
<1>. HIDE DEF G
<1>5. G = Nat
  <2>1. G \in SUBSET Nat BY DEF G
  <2>. QED BY <1>3, <1>4, <2>1, Induction
<1>6. Moved(f[MaxSections], MaxSections)
  BY <1>0, <1>5 DEF G
<1>. QED BY <1>1, <1>2, <1>6

LEMMA SkillIsSomething ==
  ASSUME NEW b \in R!Bodies, NEW ok \in BOOLEAN
  PROVE  [body |-> b, descOk |-> ok] # None
BY RevisionAssumption

-----------------------------------------------------------------------------
LEMMA RevisionInit == Init => RevisionInv
<1> SUFFICES ASSUME Init PROVE RevisionInv
  OBVIOUS
<1>1. /\ pc = "idle" /\ after = "idle" /\ passes = {} /\ failed = FALSE
      /\ drafted = << >> /\ body = R!Empty /\ descOk = TRUE
      /\ written = R!Nothing /\ revised = 0
      /\ skill = None /\ files = R!Nothing /\ gens = 0
  BY DEF Init, R!Init
<1>2. body \in R!Bodies /\ DOMAIN R!Nothing = {}
  BY <1>1 DEF R!Empty, R!Bodies, R!Nothing
<1>3. R!TypeOK
  BY <1>1, <1>2, RevisionAssumption DEF R!TypeOK
<1>4. drafted \in Seq(R!Inline) /\ Len(drafted) <= MaxSections
  BY <1>1, RevisionAssumption
<1>5. ~ BodyDone /\ ~ FilesDone
  BY <1>1 DEF BodyDone, FilesDone, Writing
<1>6. passes \subseteq Passing /\ failed \in BOOLEAN
  BY <1>1
<1>. QED BY <1>1, <1>3, <1>4, <1>5, <1>6 DEF RevisionInv

(* What the command held in memory ends with it.                             *)
LEMMA EndsKeeps ==
  ASSUME RevisionInv, R!Ends, passes = {}
  PROVE  RevisionInv'
<1>1. /\ pc' = "idle" /\ after' = "idle" /\ drafted' = << >> /\ body' = R!Empty
      /\ descOk' = TRUE /\ written' = R!Nothing /\ revised' = 0
      /\ UNCHANGED <<passes, failed, skill, files, gens>>
  BY DEF R!Ends
<1>2. body' \in R!Bodies /\ DOMAIN R!Nothing = {}
  BY <1>1 DEF R!Empty, R!Bodies, R!Nothing
<1>3. R!TypeOK'
  BY <1>1, <1>2, RevisionAssumption DEF RevisionInv, R!TypeOK
<1>. QED BY <1>1, <1>3, RevisionAssumption
     DEF RevisionInv, Early, BodyDone, FilesDone, Writing

LEMMA BeginKeeps == ASSUME RevisionInv, R!Begin PROVE RevisionInv'
<1>1. /\ pc = "idle" /\ gens < MaxGens /\ gens' = gens + 1
      /\ pc' = "passes" /\ passes' = Passing /\ failed' = FALSE
      /\ UNCHANGED <<after, drafted, body, descOk, written, revised, skill, files>>
  BY DEF R!Begin, Passing
<1>2. R!TypeOK'
  BY <1>1, RevisionAssumption DEF RevisionInv, R!TypeOK
<1>3. revised = 0 BY <1>1 DEF RevisionInv, Early
<1>. QED BY <1>1, <1>2, <1>3 DEF RevisionInv, Early, BodyDone, FilesDone, Writing, Passing

LEMMA BodyPassKeeps == ASSUME RevisionInv, R!BodyPass PROVE RevisionInv'
<1>1. PICK steps \in StepWeights, num \in 0 .. MaxSections, ok \in BOOLEAN :
        \E secs \in [1 .. num -> R!Inline] :
          drafted' = secs /\ body' = [steps |-> steps, sections |-> secs, binding |-> ok]
  BY DEF R!BodyPass
<1>2. PICK secs \in [1 .. num -> R!Inline] :
        drafted' = secs /\ body' = [steps |-> steps, sections |-> secs, binding |-> ok]
  BY <1>1
<1>3. /\ "body" \in passes /\ passes' = passes \ {"body"}
      /\ UNCHANGED <<pc, after, failed, descOk, written, revised, skill, files, gens>>
  BY DEF R!BodyPass
<1>4. num \in Nat /\ num <= MaxSections
  BY RevisionAssumption
<1>5. secs \in Seq(R!Inline) /\ Len(secs) = num
  <2>. HIDE DEF R!Inline
  <2>. QED BY <1>4
<1>6. secs \in Seq(R!Inline \cup R!Linked)
  <2>. HIDE DEF R!Inline, R!Linked
  <2>. QED BY <1>5
<1>7. body' \in R!Bodies /\ body'.sections = drafted'
  BY <1>2, <1>6 DEF R!Bodies
<1>8. R!TypeOK'
  BY <1>3, <1>7 DEF RevisionInv, R!TypeOK
<1>9. pc = "passes" BY <1>3 DEF RevisionInv
<1>10. Whole(body, written)'
  <2>1. \A i \in 1 .. num : secs[i] \in R!Inline
    OBVIOUS
  <2>2. \A i \in 1 .. num : secs[i].link = None
    BY <2>1 DEF R!Inline
  <2>. QED BY <1>2, <1>5, <1>7, <2>2 DEF Whole
<1>11. FilesDone' => FilesDone
  BY <1>3 DEF FilesDone, Writing
<1>12. revised = 0 BY <1>9 DEF RevisionInv, Early
<1>13. drafted' \in Seq(R!Inline) /\ Len(drafted') <= MaxSections
  BY <1>2, <1>4, <1>5
<1>14. Early BY <1>9 DEF Early
<1>15. (FilesDone' => written' = R!Plan) /\ (FilesDone' => HasPlanned(written'))
  BY <1>3, <1>11, <1>14 DEF RevisionInv
<1>. QED BY <1>3, <1>7, <1>8, <1>9, <1>12, <1>10, <1>13, <1>15 DEF RevisionInv, Early, HasPlanned

LEMMA ResourcesPassKeeps == ASSUME RevisionInv, R!ResourcesPass PROVE RevisionInv'
<1>1. /\ "resources" \in passes /\ written' = R!Plan /\ passes' = passes \ {"resources"}
      /\ UNCHANGED <<pc, after, failed, drafted, body, descOk, revised, skill, files, gens>>
  BY DEF R!ResourcesPass
<1>2. pc = "passes" BY <1>1 DEF RevisionInv
<1>3. DOMAIN R!Plan \subseteq R!Slugs /\ HasPlanned(R!Plan)
  BY RevisionAssumption DEF R!Plan, R!Slugs, HasPlanned
<1>4. R!TypeOK'
  BY <1>1, <1>3 DEF RevisionInv, R!TypeOK
<1>5. BodyDone' => BodyDone
  BY <1>1 DEF BodyDone, Writing
<1>6. Early /\ revised = 0 BY <1>2 DEF Early, RevisionInv
<1>7. BodyDone => Whole(body, written)'
  <2> SUFFICES ASSUME BodyDone PROVE Whole(body, written)'
    OBVIOUS
  <2>1. body.sections = drafted /\ drafted \in Seq(R!Inline)
    BY <1>6 DEF RevisionInv
  <2>2. \A i \in 1 .. Len(drafted) : drafted[i] \in R!Inline
    BY <2>1
  <2>3. \A i \in 1 .. Len(drafted) : drafted[i].link = None
    BY <2>2 DEF R!Inline
  <2>. QED BY <1>1, <2>1, <2>3 DEF Whole
<1>8. HasPlanned(written)' BY <1>1, <1>3 DEF HasPlanned
<1>9. BodyDone' => body'.sections = drafted'
  BY <1>1, <1>5, <1>6 DEF RevisionInv
<1>. QED BY <1>1, <1>2, <1>4, <1>5, <1>6, <1>7, <1>8, <1>9 DEF RevisionInv

LEMMA DescriptionPassKeeps == ASSUME RevisionInv, R!DescriptionPass PROVE RevisionInv'
<1>1. /\ "description" \in passes /\ descOk' \in BOOLEAN /\ passes' = passes \ {"description"}
      /\ UNCHANGED <<pc, after, failed, drafted, body, written, revised, skill, files, gens>>
  BY DEF R!DescriptionPass
<1>2. R!TypeOK'
  BY <1>1 DEF RevisionInv, R!TypeOK
<1>. QED BY <1>1, <1>2
     DEF RevisionInv, Early, BodyDone, FilesDone, Writing, Whole, HasPlanned

LEMMA PassFailsKeeps == ASSUME RevisionInv, NEW p \in Passing, R!PassFails(p) PROVE RevisionInv'
<1>1. /\ p \in passes /\ failed' = TRUE /\ passes' = passes \ {p}
      /\ UNCHANGED <<pc, after, drafted, body, descOk, written, revised, skill, files, gens>>
  BY DEF R!PassFails
<1>2. pc = "passes" BY <1>1 DEF RevisionInv
<1>3. R!TypeOK'
  BY <1>1 DEF RevisionInv, R!TypeOK
<1>. QED BY <1>1, <1>2, <1>3 DEF RevisionInv, Early, BodyDone, FilesDone, Writing

LEMMA PassesEndKeeps == ASSUME RevisionInv, R!PassesEnd PROVE RevisionInv'
<1>1. pc = "passes" /\ passes = {} BY DEF R!PassesEnd
<1>2. CASE R!Ends
  BY <1>1, <1>2, EndsKeeps
<1>3. CASE /\ ~ failed /\ pc' = "skill" /\ after' = "offload"
           /\ UNCHANGED <<passes, failed, drafted, body, descOk, written, revised, skill, files, gens>>
  <2>1. Early /\ BodyDone /\ FilesDone BY <1>1, <1>3 DEF Early, BodyDone, FilesDone
  <2>2. R!TypeOK'
    BY <1>3 DEF RevisionInv, R!TypeOK
  <2>. QED BY <1>1, <1>3, <2>1, <2>2 DEF RevisionInv, Early, Whole, HasPlanned
<1>. QED BY <1>2, <1>3 DEF R!PassesEnd, R!Proceeds

LEMMA WriteSkillKeeps == ASSUME RevisionInv, R!WriteSkill PROVE RevisionInv'
<1>1. /\ pc = "skill" /\ skill' = [body |-> body, descOk |-> descOk] /\ pc' = "files"
      /\ UNCHANGED <<after, passes, failed, drafted, body, descOk, written, revised, files, gens>>
  BY DEF R!WriteSkill
<1>2. Writing BY <1>1 DEF Writing
<1>3. skill' # None /\ skill'.body = body
  <2>1. body \in R!Bodies /\ descOk \in BOOLEAN
    BY DEF RevisionInv, R!TypeOK
  <2>. QED BY <1>1, <2>1, SkillIsSomething
<1>4. R!TypeOK'
  BY <1>1, <1>3 DEF RevisionInv, R!TypeOK
<1>5. Early' = Early /\ BodyDone /\ FilesDone
  BY <1>1, <1>2 DEF Early, BodyDone, FilesDone
<1>. QED BY <1>1, <1>3, <1>4, <1>5 DEF RevisionInv, Whole, HasPlanned

LEMMA WriteFilesKeeps == ASSUME RevisionInv, R!WriteFiles PROVE RevisionInv'
<1>1. /\ pc = "files" /\ files' = R!Over(files, written) /\ pc' = after
      /\ UNCHANGED <<after, passes, failed, drafted, body, descOk, written, revised, skill, gens>>
  BY DEF R!WriteFiles
<1>2. Writing /\ after \in {"offload", "revise"} BY <1>1 DEF Writing, RevisionInv
<1>3. /\ DOMAIN files' = DOMAIN files \cup DOMAIN written
      /\ \A s \in DOMAIN written : s \in DOMAIN files' /\ files'[s] = written[s]
  BY <1>1 DEF R!Over
<1>4. R!TypeOK'
  BY <1>1, <1>2, <1>3 DEF RevisionInv, R!TypeOK
<1>5. (Early' => Early) /\ BodyDone /\ FilesDone
  BY <1>1, <1>2 DEF Early, BodyDone, FilesDone
<1>. QED BY <1>1, <1>2, <1>3, <1>4, <1>5 DEF RevisionInv, Whole, HasPlanned

LEMMA OffloadKeeps == ASSUME RevisionInv, R!Offload PROVE RevisionInv'
<1>1. /\ pc = "offload"
      /\ UNCHANGED <<passes, failed, drafted, descOk, revised, skill, files, gens>>
  BY DEF R!Offload
<1>2. Writing /\ BodyDone /\ FilesDone /\ Early
  BY <1>1 DEF Writing, BodyDone, FilesDone, Early
<1>3. CASE /\ body' = R!Offloaded.body /\ written' = R!Over(written, R!Offloaded.refs)
           /\ pc' = "skill" /\ after' = "revise"
  <2>. DEFINE st == R!Offloaded
  <2>1. Moved(st, MaxSections) /\ written = R!Plan
    BY <1>1, OffloadedIsWhole
  <2>. HIDE DEF st
  <2>2. /\ DOMAIN written' = DOMAIN written \cup DOMAIN st.refs
        /\ \A s \in DOMAIN st.refs : written'[s] = st.refs[s]
        /\ \A s \in DOMAIN written : written'[s] = written[s]
    BY <1>3, <2>1 DEF R!Over, st, Moved
  <2>3. body' \in R!Bodies /\ DOMAIN written' \subseteq R!Slugs
    BY <1>3, <2>1, <2>2 DEF Moved, st, RevisionInv, R!TypeOK
  <2>4. Whole(body, written)'
    BY <1>1, <1>3, <2>1, <2>2 DEF Moved, Whole, st
  <2>5. HasPlanned(written)'
    BY <1>2, <2>2 DEF RevisionInv, HasPlanned
  <2>6. R!TypeOK'
    BY <1>1, <1>3, <2>3 DEF RevisionInv, R!TypeOK
  <2>7. ~ Early' BY <1>3 DEF Early
  <2>. QED BY <1>1, <1>3, <2>4, <2>5, <2>6, <2>7 DEF RevisionInv
<1>4. CASE pc' = "revise" /\ UNCHANGED <<body, written, after>>
  <2>1. R!TypeOK'
    BY <1>1, <1>4 DEF RevisionInv, R!TypeOK
  <2>. QED BY <1>1, <1>2, <1>4, <2>1 DEF RevisionInv, Early, Whole, HasPlanned
<1>. QED BY <1>3, <1>4 DEF R!Offload

LEMMA ReviseKeeps == ASSUME RevisionInv, R!Revise PROVE RevisionInv'
<1>1. /\ pc = "revise"
      /\ UNCHANGED <<passes, failed, drafted, written, skill, files, gens>>
  BY DEF R!Revise
<1>2. Writing /\ BodyDone /\ FilesDone /\ body \in R!Bodies /\ revised \in Nat
  BY <1>1, RevisionAssumption DEF Writing, BodyDone, FilesDone, RevisionInv, R!TypeOK
<1>3. CASE pc' = "lint" /\ UNCHANGED <<body, descOk, revised, after>>
  <2>1. R!TypeOK'
    BY <1>1, <1>3 DEF RevisionInv, R!TypeOK
  <2>. QED BY <1>1, <1>2, <1>3, <2>1 DEF RevisionInv, Early, Whole, HasPlanned
<1>4. CASE pc' # "lint"
  <2>. DEFINE found == R!Findings(skill, files)
  <2>1. /\ revised < MaxRevisions /\ revised' = revised + 1 /\ pc' = "skill" /\ after' = "revise"
        /\ IF found \cap R!DescOwned = {} THEN UNCHANGED descOk ELSE descOk' \in BOOLEAN
        /\ \/ UNCHANGED body
           \/ \E steps \in StepWeights, ok \in BOOLEAN, keep \in BOOLEAN :
                body' = [steps |-> steps, binding |-> ok,
                         sections |-> IF keep THEN body.sections ELSE << >>]
    BY <1>4 DEF R!Revise
  <2>2. body' \in R!Bodies
    <3>1. body.sections \in Seq(R!Inline \cup R!Linked) /\ << >> \in Seq(R!Inline \cup R!Linked)
      BY <1>2 DEF R!Bodies
    <3>2. CASE UNCHANGED body
      BY <1>2, <3>2
    <3>3. CASE \E steps \in StepWeights, ok \in BOOLEAN, keep \in BOOLEAN :
                body' = [steps |-> steps, binding |-> ok,
                         sections |-> IF keep THEN body.sections ELSE << >>]
      BY <3>1, <3>3 DEF R!Bodies
    <3>. QED BY <2>1, <3>2, <3>3
  <2>3. descOk' \in BOOLEAN
    <3>. HIDE DEF found
    <3>. QED BY <2>1 DEF RevisionInv, R!TypeOK
  <2>4. revised' \in 0 .. MaxRevisions /\ revised' # 0
    BY <1>2, <2>1, RevisionAssumption
  <2>5. R!TypeOK'
    BY <1>1, <2>1, <2>2, <2>3, <2>4 DEF RevisionInv, R!TypeOK
  <2>6. ~ Early' BY <2>1 DEF Early
  <2>. QED BY <1>1, <1>2, <2>1, <2>4, <2>5, <2>6 DEF RevisionInv, HasPlanned
<1>. QED BY <1>3, <1>4 DEF R!Revise

LEMMA RevisionPreserved == RevisionInv /\ [Next]_all => RevisionInv'
<1> SUFFICES ASSUME RevisionInv, [Next]_all PROVE RevisionInv'
  OBVIOUS
<1>1. CASE R!Lint \/ R!Stop
  <2>1. passes = {} BY <1>1 DEF R!Lint, R!Stop, RevisionInv
  <2>. QED BY <1>1, <2>1, EndsKeeps DEF R!Lint, R!Stop
<1>2. CASE R!Next
  BY <1>1, <1>2, BeginKeeps, BodyPassKeeps, ResourcesPassKeeps, DescriptionPassKeeps,
     PassFailsKeeps, PassesEndKeeps, WriteSkillKeeps, WriteFilesKeeps, OffloadKeeps, ReviseKeeps
     DEF R!Next, Passing
<1>3. CASE UNCHANGED rVars
  BY <1>3 DEF rVars, RevisionInv, R!TypeOK, Early, BodyDone, FilesDone, Writing, Whole, HasPlanned
<1>4. R!Next \/ UNCHANGED rVars
  BY DEF Next, Sessions, Skills, Hooks, Sandboxes, Authoring, Tuning, Revision, all
<1>. QED BY <1>2, <1>3, <1>4

(* What a generation holds and has written at each of its steps, whatever    *)
(* earlier ones left in the directory (cli/whetstone/gen).                   *)
THEOREM RevisionInvariant == Spec => []RevisionInv
<1>1. RevisionInv /\ [Next]_all => RevisionInv'
  BY RevisionPreserved
<1>. QED BY <1>1, RevisionInit, PTL DEF Spec

(* Every section the body pass drafted is on disk, in the body or in the     *)
(* file its link names, for bodies of any length (gen/offload.go:71-131).    *)
THEOREM NothingGetsDropped == Spec => []NothingIsDropped
<1>1. RevisionInv => NothingIsDropped
  <2> SUFFICES ASSUME RevisionInv, pc = "lint" PROVE R!NothingIsDropped
    BY DEF NothingIsDropped, RevisionInv, R!NothingIsDropped
  <2>1. BodyDone /\ FilesDone BY DEF BodyDone, FilesDone, Writing
  <2>. QED BY <2>1 DEF RevisionInv, R!NothingIsDropped, Whole, HasPlanned
<1>. QED BY <1>1, RevisionInvariant, PTL

(* A generation one of whose passes failed leaves the bundle as it was       *)
(* (gen.go:43-54).                                                           *)
THEOREM FailedPassesStayOut == Spec => [][R!FailedPassesWriteNothing]_rVars
<1>1. RevisionInv /\ [Next]_all => [R!FailedPassesWriteNothing]_rVars
  <2> SUFFICES ASSUME RevisionInv, [Next]_all, failed PROVE UNCHANGED <<skill, files>>
    BY DEF R!FailedPassesWriteNothing
  <2>1. pc \in {"idle", "passes"} BY DEF RevisionInv
  <2>2. R!Next \/ UNCHANGED rVars
    BY DEF Next, Sessions, Skills, Hooks, Sandboxes, Authoring, Tuning, Revision, all
  <2>3. CASE UNCHANGED rVars
    BY <2>3 DEF rVars
  <2>4. CASE R!Next
    BY <2>1, <2>4 DEF R!Next, R!Begin, R!BodyPass, R!ResourcesPass, R!DescriptionPass, R!PassFails,
       R!PassesEnd, R!WriteSkill, R!WriteFiles, R!Offload, R!Revise, R!Lint, R!Stop, R!Ends
  <2>. QED BY <2>2, <2>3, <2>4
<1>. QED BY <1>1, RevisionInvariant, PTL DEF Spec
-----------------------------------------------------------------------------
(* Sandboxes.  A thing of a run in its process's present life.               *)
Live(t) == pid[t.proc] # 0 /\ t.n > before[t.proc]

(* It has the pid of its process, which is how a sweep knows it.             *)
ThingsOK ==
  \A t \in things : t.n <= n[t.proc] /\ (Live(t) => t.pid = pid[t.proc])

(* What a run has created is the beginning of what it needs, and where those *)
(* who sweep see its process, it is there until the run removes it, the      *)
(* session first.                                                            *)
Creates(p) == stage[p] \in {"creating", "staging", "running", "collecting"}
Begun(p)   == Creates(p) \/ stage[p] = "removing"

ListsOK(p) ==
  LET needs == B!Needs(driver, net[p]) IN
  /\ Len(created[p]) <= Len(needs)
  /\ \A i \in 1 .. Len(created[p]) : created[p][i] = needs[i]
  /\ Begun(p) => before[p] < n[p]
  /\ ~Begun(p) => created[p] = <<>>
  /\ stage[p] = "sweeping" => before[p] = n[p]
  /\ stage[p] = "creating" => Len(created[p]) < Len(needs)
  /\ B!Bound(p) => Len(created[p]) = Len(needs)

HasThings(p) ==
  /\ Creates(p) /\ B!Seen(p) => \A kind \in B!ToSet(created[p]) : B!Mine(p, kind) # {}
  /\ stage[p] = "removing" /\ "session" \in B!ToSet(todo[p]) =>
       /\ todo[p] = B!Ended(driver, net[p])
       /\ B!Seen(p) => \A kind \in B!ToSet(B!Needs(driver, net[p])) : B!Mine(p, kind) # {}

SandboxesInv ==
  /\ B!TypeOK /\ B!NothingForgotten /\ B!ExitedIsMirrored
  /\ ThingsOK /\ \A p \in Procs : ListsOK(p) /\ HasThings(p)

AnyDriver == {"docker", "kubernetes", "northflank"}

-----------------------------------------------------------------------------
(* What a run needs, and what is removed when creating one of it fails.      *)
LEMMA NeedsFacts ==
  ASSUME NEW d \in AnyDriver, NEW policy \in B!Nets
  PROVE  /\ B!Needs(d, policy) \in Seq(B!Kinds) /\ B!Ended(d, policy) \in Seq(B!Kinds)
         /\ Len(B!Needs(d, policy)) \in 1 .. 4
         /\ \A i \in 1 .. Len(B!Needs(d, policy)) :
              B!Needs(d, policy)[i] = "session" <=> i = Len(B!Needs(d, policy))
         /\ \A i, j \in 1 .. Len(B!Needs(d, policy)) :
              B!Needs(d, policy)[i] = B!Needs(d, policy)[j] => i = j
<1>1. CASE d = "docker" /\ policy = "allowlist"
  BY <1>1 DEF B!Needs, B!Ended, B!Reverse, B!Kinds
<1>2. CASE d = "kubernetes" /\ policy = "allowlist"
  BY <1>2 DEF B!Needs, B!Ended, B!Reverse, B!Kinds
<1>3. CASE d = "kubernetes" /\ policy = "none"
  BY <1>3 DEF B!Needs, B!Ended, B!Reverse, B!Kinds
<1>4. CASE ~ (d = "docker" /\ policy = "allowlist")
           /\ ~ (d = "kubernetes" /\ policy \in {"allowlist", "none"})
  <2>1. B!Needs(d, policy) = <<"session">> BY <1>4 DEF B!Needs
  <2>2. B!Ended(d, policy) = <<"session">> BY <2>1 DEF B!Ended, B!Reverse
  <2>. QED BY <2>1, <2>2 DEF B!Kinds
<1>. QED BY <1>1, <1>2, <1>3, <1>4 DEF B!Nets

(* A sequence that takes back another's members, last one first.             *)
LEMMA Reversed ==
  ASSUME NEW s, NEW len \in Nat \ {0}, \A i \in 1 .. len : s[i] = "session" <=> i = len,
         NEW t, \A j \in 1 .. len : t[j] = s[(len - j) + 1]
  PROVE  /\ t[1] = "session" /\ \A j \in 2 .. len : t[j] # "session"
         /\ \A i \in 1 .. len : \E j \in 1 .. len : t[j] = s[i]
<1>3. t[1] = "session"
  <2>1. (len - 1) + 1 = len OBVIOUS
  <2>2. t[1] = s[(len - 1) + 1] OBVIOUS
  <2>. QED BY <2>1, <2>2
<1>4. ASSUME NEW j \in 2 .. len PROVE t[j] # "session"
  <2>1. (len - j) + 1 \in 1 .. len /\ (len - j) + 1 # len OBVIOUS
  <2>2. t[j] = s[(len - j) + 1] OBVIOUS
  <2>. QED BY <2>1, <2>2
<1>5. ASSUME NEW i \in 1 .. len PROVE (len - i) + 1 \in 1 .. len /\ t[(len - i) + 1] = s[i]
  <2>1. (len - i) + 1 \in 1 .. len /\ (len - ((len - i) + 1)) + 1 = i OBVIOUS
  <2>. QED BY <2>1
<1>. QED BY <1>3, <1>4, <1>5
LEMMA EndedFacts ==
  ASSUME NEW d \in AnyDriver, NEW policy \in B!Nets,
         NEW len \in Nat \ {0}, len = Len(B!Needs(d, policy))
  PROVE  /\ B!Ended(d, policy) \in Seq(B!Kinds) /\ Len(B!Ended(d, policy)) = len
         /\ B!Ended(d, policy)[1] = "session" /\ \A j \in 2 .. len : B!Ended(d, policy)[j] # "session"
         /\ \A i \in 1 .. len : \E j \in 1 .. len : B!Ended(d, policy)[j] = B!Needs(d, policy)[i]
<1>. DEFINE needs == B!Needs(d, policy)
            ended == B!Ended(d, policy)
<1>1. ended = [i \in 1 .. len |-> needs[(len - i) + 1]]
  BY DEF B!Ended, B!Reverse
<1>2. Len(ended) = len /\ \A j \in 1 .. len : ended[j] = needs[(len - j) + 1]
  BY <1>1
<1>3. ended \in Seq(B!Kinds) /\ \A i \in 1 .. len : needs[i] = "session" <=> i = len
  BY NeedsFacts
<1>4. /\ ended[1] = "session" /\ \A j \in 2 .. len : ended[j] # "session"
      /\ \A i \in 1 .. len : \E j \in 1 .. len : ended[j] = needs[i]
  <2>. HIDE DEF needs, ended
  <2>. QED BY <1>2, <1>3, Reversed
<1>. QED BY <1>2, <1>3, <1>4

Fits(undone, needs, k) ==
  /\ undone \in Seq(B!Kinds)
  /\ \A i \in 1 .. k : \E j \in 1 .. Len(undone) : undone[j] = needs[i]
  /\ \A j \in 1 .. Len(undone) : undone[j] # "session"

LEMMA UndoneFacts ==
  ASSUME NEW d \in AnyDriver, NEW policy \in B!Nets,
         NEW k \in 0 .. Len(B!Needs(d, policy)) - 1
  PROVE  Fits(B!Undone(d, policy, B!Needs(d, policy)[k + 1]), B!Needs(d, policy), k)
<1>1. CASE k + 1 = Len(B!Needs(d, policy))
  <2>. DEFINE needs == B!Needs(d, policy)
              ended == B!Ended(d, policy)
              rest  == Tail(ended)
  <2>0. PICK len : len = k + 1 OBVIOUS
  <2>1. needs[k + 1] = "session" /\ B!Undone(d, policy, "session") = rest
    BY <1>1, NeedsFacts DEF B!Undone
  <2>2. k \in Nat /\ len \in Nat \ {0} /\ len = Len(needs)
    BY <1>1, <2>0, NeedsFacts
  <2>3. \A i \in 1 .. len : needs[i] = "session" <=> i = len
    BY <2>2, NeedsFacts
  <2>4. /\ ended \in Seq(B!Kinds) /\ Len(ended) = len
        /\ ended[1] = "session" /\ \A j \in 2 .. len : ended[j] # "session"
        /\ \A i \in 1 .. len : \E j \in 1 .. len : ended[j] = needs[i]
    BY <2>2, EndedFacts
  <2>5. /\ rest \in Seq(B!Kinds) /\ Len(rest) = k /\ \A j \in 1 .. k : rest[j] # "session"
        /\ \A i \in 1 .. k : \E j \in 1 .. k : rest[j] = needs[i]
    <3>. HIDE DEF needs, ended
    <3>1. Tail(ended) \in Seq(B!Kinds) /\ Len(Tail(ended)) = len - 1
          /\ \A j \in 1 .. len - 1 : Tail(ended)[j] = ended[j + 1]
      BY <2>2, <2>4
    <3>2. len - 1 = k BY <2>0, <2>2
    <3>3. ASSUME NEW j \in 1 .. k PROVE rest[j] # "session"
      <4>1. j + 1 \in 2 .. len BY <2>2, <3>2
      <4>. QED BY <2>4, <3>1, <3>2, <4>1
    <3>4. ASSUME NEW i \in 1 .. k PROVE \E j \in 1 .. k : rest[j] = needs[i]
      <4>1. i \in 1 .. len /\ i # len BY <2>2, <3>2
      <4>2. needs[i] # "session" BY <2>3, <4>1
      <4>3. PICK j \in 1 .. len : ended[j] = needs[i] BY <2>4, <4>1
      <4>4. j # 1 BY <2>4, <4>2, <4>3
      <4>5. j - 1 \in 1 .. k /\ (j - 1) + 1 = j BY <2>2, <3>2, <4>4
      <4>6. Tail(ended)[j - 1] = ended[(j - 1) + 1] BY <3>1, <3>2, <4>5
      <4>7. rest[j - 1] = needs[i] BY <4>3, <4>5, <4>6
      <4>. QED BY <4>5, <4>7
    <3>. QED BY <3>1, <3>2, <3>3, <3>4
  <2>6. Fits(rest, needs, k)
    <3>. HIDE DEF needs, rest
    <3>. QED BY <2>5 DEF Fits
  <2>. QED BY <2>1, <2>6
<1>2. CASE k + 1 # Len(B!Needs(d, policy)) /\ d = "docker" /\ policy = "allowlist"
  <2>1. B!Needs(d, policy) = <<"network", "proxy", "session">> BY <1>2 DEF B!Needs
  <2>2. k = 0 \/ k = 1
    <3>1. Len(B!Needs(d, policy)) = 3 BY <2>1
    <3>2. k \in 0 .. 2 BY <3>1
    <3>3. k + 1 # 3 BY <1>2, <3>1
    <3>. QED BY <3>2, <3>3
  <2>3. B!Undone(d, policy, "network") = << >> /\ B!Undone(d, policy, "proxy") = <<"proxy", "network">>
    BY <1>2 DEF B!Undone
  <2>4. Fits(<< >>, <<"network", "proxy", "session">>, 0)
    BY DEF Fits
  <2>5. Fits(<<"proxy", "network">>, <<"network", "proxy", "session">>, 1)
    BY DEF Fits, B!Kinds
  <2>6. <<"network", "proxy", "session">>[1] = "network" /\ <<"network", "proxy", "session">>[2] = "proxy"
    OBVIOUS
  <2>. QED BY <2>1, <2>2, <2>3, <2>4, <2>5, <2>6
<1>3. CASE k + 1 # Len(B!Needs(d, policy)) /\ d = "kubernetes" /\ policy = "allowlist"
  <2>1. B!Needs(d, policy) = <<"config", "proxy", "policy", "session">> BY <1>3 DEF B!Needs
  <2>2. k = 0 \/ k = 1 \/ k = 2
    <3>1. Len(B!Needs(d, policy)) = 4 BY <2>1
    <3>2. k \in 0 .. 3 BY <3>1
    <3>3. k + 1 # 4 BY <1>3, <3>1
    <3>. QED BY <3>2, <3>3
  <2>3. /\ B!Undone(d, policy, "config") = << >> /\ B!Undone(d, policy, "proxy") = <<"config">>
        /\ B!Undone(d, policy, "policy") = <<"proxy", "config">>
    BY <1>3 DEF B!Undone
  <2>4. Fits(<< >>, <<"config", "proxy", "policy", "session">>, 0)
    BY DEF Fits
  <2>5. Fits(<<"config">>, <<"config", "proxy", "policy", "session">>, 1)
    BY DEF Fits, B!Kinds
  <2>6. Fits(<<"proxy", "config">>, <<"config", "proxy", "policy", "session">>, 2)
    BY DEF Fits, B!Kinds
  <2>7. /\ <<"config", "proxy", "policy", "session">>[1] = "config"
        /\ <<"config", "proxy", "policy", "session">>[2] = "proxy"
        /\ <<"config", "proxy", "policy", "session">>[3] = "policy"
    OBVIOUS
  <2>. QED BY <2>1, <2>2, <2>3, <2>4, <2>5, <2>6, <2>7
<1>4. CASE k + 1 # Len(B!Needs(d, policy)) /\ d = "kubernetes" /\ policy = "none"
  <2>1. B!Needs(d, policy) = <<"policy", "session">> BY <1>4 DEF B!Needs
  <2>2. k = 0
    <3>1. Len(B!Needs(d, policy)) = 2 BY <2>1
    <3>2. k \in 0 .. 1 BY <3>1
    <3>3. k + 1 # 2 BY <1>4, <3>1
    <3>. QED BY <3>2, <3>3
  <2>3. B!Undone(d, policy, "policy") = << >>
    BY <1>4 DEF B!Undone
  <2>4. Fits(<< >>, <<"policy", "session">>, 0) /\ <<"policy", "session">>[1] = "policy"
    BY DEF Fits
  <2>. QED BY <2>1, <2>2, <2>3, <2>4
<1>5. CASE k + 1 # Len(B!Needs(d, policy)) /\ ~ (d = "docker" /\ policy = "allowlist")
           /\ ~ (d = "kubernetes" /\ policy \in {"allowlist", "none"})
  <2>1. Len(B!Needs(d, policy)) = 1 BY <1>5 DEF B!Needs
  <2>. QED BY <1>5, <2>1
<1>. QED BY <1>1, <1>2, <1>3, <1>4, <1>5

-----------------------------------------------------------------------------
(* A step of one process.                                                    *)
Shapes ==
  /\ pid \in [Procs -> Pids \cup {0}] /\ stage \in [Procs -> B!Stages]
  /\ before \in [Procs -> Nat] /\ n \in [Procs -> Nat] /\ net \in [Procs -> B!Nets]
  /\ created \in [Procs -> Seq(B!Kinds)] /\ todo \in [Procs -> Seq(B!Kinds)]
  /\ res \in [Procs -> {"none", "exited", "timedout", "cancelled", "error"}]
  /\ cancelled \in [Procs -> BOOLEAN] /\ back \in [Procs -> BOOLEAN]
  /\ failures \in 0 .. MaxFaults

Only(p) ==
  /\ UNCHANGED <<driver, enforced, space>>
  /\ \A q \in Procs : q # p =>
       /\ pid'[q] = pid[q] /\ before'[q] = before[q] /\ stage'[q] = stage[q]
       /\ n'[q] = n[q] /\ net'[q] = net[q] /\ created'[q] = created[q]
       /\ todo'[q] = todo[q] /\ res'[q] = res[q] /\ back'[q] = back[q]

(* Somebody still knows of it.                                               *)
Known(t) ==
  t.known = "held" =>
    /\ t.n = n[t.proc]
    /\ \/ stage[t.proc] = "removing" /\ t.kind \in B!ToSet(todo[t.proc])
       \/ stage[t.proc] # "removing" /\ t.kind \in B!ToSet(created[t.proc])

LEMMA NetOK ==
  ASSUME SandboxesInv, NEW q \in Procs
  PROVE  driver \in AnyDriver /\ net[q] \in B!Nets
BY SandboxAssumption DEF SandboxesInv, B!TypeOK, AnyDriver

LEMMA SeenStays ==
  ASSUME NEW p, UNCHANGED <<driver, space>>
  PROVE  B!Seen(p)' = B!Seen(p)
BY DEF B!Seen

(* The members of the lists.                                                 *)
LEMMA Members ==
  ASSUME NEW s \in Seq(B!Kinds)
  PROVE  B!ToSet(s) = {s[i] : i \in 1 .. Len(s)} /\ B!ToSet(s) \subseteq B!Kinds
BY DEF B!ToSet

LEMMA StepKeeps ==
  ASSUME SandboxesInv, NEW p \in Procs, Only(p), Shapes', things' \subseteq B!Thing,
         ListsOK(p)', HasThings(p)',
         before'[p] <= n'[p], pid'[p] # 0 <=> stage'[p] # "down", res'[p] = "exited" => back'[p],
         ThingsOK', \A t \in things' : Live(t)' => Known(t)',
         \A q \in Procs, kind \in B!Kinds :
           q # p /\ B!Seen(q) /\ before[q] < n[q] /\ pid[q] # 0 /\ B!Mine(q, kind) # {} => B!Mine(q, kind)' # {}
  PROVE  SandboxesInv'
<1>1. ASSUME NEW q \in Procs, q # p PROVE ListsOK(q)' /\ HasThings(q)'
  <2>1. UNCHANGED <<driver, pid[q], before[q], stage[q], n[q], net[q], created[q], todo[q]>>
    BY <1>1 DEF Only
  <2>2. ListsOK(q) /\ HasThings(q)
    BY DEF SandboxesInv
  <2>3. ListsOK(q)'
    BY <2>1, <2>2 DEF ListsOK, Begun, Creates, B!Bound
  <2>4. Begun(q) => before[q] < n[q] /\ pid[q] # 0
    BY <2>2 DEF SandboxesInv, B!TypeOK, ListsOK, Begun, Creates, B!Up
  <2>5. /\ B!ToSet(created[q]) \subseteq B!Kinds
        /\ B!ToSet(B!Needs(driver, net[q])) \subseteq B!Kinds
    BY NetOK, NeedsFacts, Members DEF SandboxesInv, B!TypeOK
  <2>6. HasThings(q)'
    <3>1. B!Seen(q)' = B!Seen(q) BY DEF Only, B!Seen
    <3>. QED BY <1>1, <2>1, <2>2, <2>4, <2>5, <3>1 DEF HasThings, Begun, Creates
  <2>. QED BY <2>3, <2>6
<1>2. \A q \in Procs : ListsOK(q)' /\ HasThings(q)'
  BY <1>1
<1>3. ASSUME NEW q \in Procs PROVE B!IsInjective(created'[q])
  <2>. DEFINE needs == B!Needs(driver, net'[q])
  <2>1. driver' = driver /\ driver \in AnyDriver /\ net'[q] \in B!Nets
    BY NetOK DEF Only, Shapes
  <2>2. /\ Len(created'[q]) <= Len(needs)
        /\ \A i \in 1 .. Len(created'[q]) : created'[q][i] = needs[i]
    BY <1>2, <2>1 DEF ListsOK
  <2>3. Len(needs) \in Nat /\ \A i, j \in 1 .. Len(needs) : needs[i] = needs[j] => i = j
    BY <2>1, NeedsFacts
  <2>4. created'[q] \in Seq(B!Kinds)
    BY DEF Shapes
  <2>. HIDE DEF needs
  <2>. QED BY <2>2, <2>3, <2>4 DEF B!IsInjective
<1>4. B!TypeOK'
  <2>1. \A q \in Procs : (pid'[q] # 0 <=> stage'[q] # "down") /\ before'[q] <= n'[q]
    BY DEF Only, SandboxesInv, B!TypeOK, B!Up
  <2>. QED BY <1>3, <2>1 DEF Only, Shapes, SandboxesInv, B!TypeOK, B!Up
<1>5. B!ExitedIsMirrored'
  BY DEF Only, SandboxesInv, B!ExitedIsMirrored
<1>6. B!NothingForgotten'
  <2> SUFFICES ASSUME NEW t \in things', pid'[t.proc] # 0, ~ (t.n <= before'[t.proc])
               PROVE  Known(t)'
    BY DEF B!NothingForgotten, Known, B!Up
  <2>1. t.proc \in Procs /\ t.n \in Nat /\ before'[t.proc] \in Nat
    BY DEF B!Thing, Shapes
  <2>. QED BY <2>1 DEF Live
<1>. QED BY <1>2, <1>4, <1>5, <1>6 DEF SandboxesInv

(* One that creates and removes nothing.                                     *)
LEMMA QuietStepKeeps ==
  ASSUME SandboxesInv, NEW p \in Procs, Only(p), Shapes', things' = things, ListsOK(p)', HasThings(p)',
         n[p] <= n'[p], before'[p] <= n'[p], pid'[p] # 0 <=> stage'[p] # "down",
         res'[p] = "exited" => back'[p],
         \A t \in things : t.proc = p /\ Live(t)' => Live(t) /\ pid'[p] = pid[p] /\ Known(t)'
  PROVE  SandboxesInv'
<1>1. things \subseteq B!Thing /\ ThingsOK
  BY DEF SandboxesInv, B!TypeOK
<1>2. ThingsOK'
  <2> SUFFICES ASSUME NEW t \in things PROVE t.n <= n'[t.proc] /\ (Live(t)' => t.pid = pid'[t.proc])
    BY DEF ThingsOK
  <2>1. t.proc \in Procs /\ t.n \in Nat /\ n[t.proc] \in Nat /\ n'[t.proc] \in Nat
    BY <1>1 DEF B!Thing, Shapes, SandboxesInv, B!TypeOK
  <2>2. CASE t.proc = p
    BY <1>1, <2>1, <2>2 DEF ThingsOK
  <2>3. CASE t.proc # p
    BY <1>1, <2>1, <2>3 DEF ThingsOK, Only, Live
  <2>. QED BY <2>2, <2>3
<1>3. \A t \in things' : Live(t)' => Known(t)'
  <2> SUFFICES ASSUME NEW t \in things, Live(t)', t.proc # p PROVE Known(t)'
    OBVIOUS
  <2>1. t.proc \in Procs /\ t.n \in Nat /\ before[t.proc] \in Nat
    BY <1>1 DEF B!Thing, SandboxesInv, B!TypeOK
  <2>2. Live(t) BY <2>1 DEF Only, Live
  <2>3. Known(t)
    BY <2>1, <2>2 DEF SandboxesInv, B!NothingForgotten, Known, Live, B!Up
  <2>. QED BY <2>1, <2>3 DEF Known, Only
<1>4. \A q \in Procs, kind \in B!Kinds : q # p => B!Mine(q, kind)' = B!Mine(q, kind)
  BY DEF B!Mine, Only
<1>. QED BY <1>1, <1>2, <1>3, <1>4, StepKeeps

(* What an idle process has left is of an earlier life, or was lost.         *)
LEMMA KnownNow ==
  ASSUME SandboxesInv, NEW t \in things, Live(t)
  PROVE  Known(t) /\ t.n <= n[t.proc] /\ t.proc \in Procs /\ t.n \in Nat
<1>1. t.proc \in Procs /\ t.n \in Nat /\ before[t.proc] \in Nat
  BY DEF B!Thing, SandboxesInv, B!TypeOK
<1>. QED BY <1>1 DEF SandboxesInv, B!NothingForgotten, Known, Live, B!Up, ThingsOK

LEMMA StartKeeps == ASSUME SandboxesInv, NEW p \in Procs, B!Start(p) PROVE SandboxesInv'
<1>1. PICK id \in Pids : pid' = [pid EXCEPT ![p] = id]
  BY DEF B!Start
<1>2. pid[p] = 0 /\ stage[p] = "down" /\ id # 0
  BY SandboxAssumption DEF B!Start, B!Up, SandboxesInv, B!TypeOK
<1>3. Shapes' BY <1>1 DEF Shapes, SandboxesInv, B!TypeOK, B!Start, B!Stages
<1>4. Only(p) BY <1>1 DEF Only, SandboxesInv, B!TypeOK, B!Start, B!fixed
<1>5. /\ pid'[p] = id /\ stage'[p] = "sweeping" /\ before'[p] = n[p]
      /\ UNCHANGED <<n, created, todo, net, res, back, driver, things>>
  BY <1>1 DEF SandboxesInv, B!TypeOK, B!Start, B!fixed
<1>6. ListsOK(p)' /\ HasThings(p)'
  BY <1>2, <1>5 DEF SandboxesInv, ListsOK, HasThings, Begun, Creates, B!Bound
<1>7. \A t \in things : t.proc = p => ~ Live(t)'
  BY <1>5 DEF SandboxesInv, ThingsOK, Live, B!TypeOK, B!Thing
<1>8. n[p] \in Nat /\ (res[p] = "exited" => back[p])
  BY DEF SandboxesInv, B!TypeOK, B!ExitedIsMirrored
<1>. QED BY <1>2, <1>3, <1>4, <1>5, <1>6, <1>7, <1>8, QuietStepKeeps

LEMMA SweepEndsKeeps == ASSUME SandboxesInv, NEW p \in Procs, B!SweepEnds(p) PROVE SandboxesInv'
<1>1. Shapes' BY DEF Shapes, SandboxesInv, B!TypeOK, B!SweepEnds, B!Stages
<1>2. Only(p) BY DEF Only, SandboxesInv, B!TypeOK, B!SweepEnds, B!fixed
<1>3. /\ stage[p] = "sweeping" /\ stage'[p] = "idle"
      /\ UNCHANGED <<pid, before, n, created, todo, net, res, back, driver, things>>
  BY DEF SandboxesInv, B!TypeOK, B!SweepEnds, B!fixed
<1>4. ListsOK(p)' /\ HasThings(p)' /\ before[p] = n[p]
  BY <1>3 DEF SandboxesInv, ListsOK, HasThings, Begun, Creates, B!Bound
<1>5. \A t \in things : t.proc = p => ~ Live(t)'
  BY <1>3, <1>4 DEF SandboxesInv, ThingsOK, Live, B!TypeOK, B!Thing
<1>6. n[p] \in Nat /\ (res[p] = "exited" => back[p]) /\ pid[p] # 0
  BY <1>3 DEF SandboxesInv, B!TypeOK, B!ExitedIsMirrored, B!Up
<1>. QED BY <1>1, <1>2, <1>3, <1>4, <1>5, <1>6, QuietStepKeeps

LEMMA BeginsKeeps == ASSUME SandboxesInv, NEW p \in Procs, B!Begin(p) PROVE SandboxesInv'
<1>1. PICK policy \in Policies : net' = [net EXCEPT ![p] = policy]
  BY DEF B!Begin
<1>2. policy \in B!Nets BY SandboxAssumption
<1>3. Shapes' BY <1>1, <1>2 DEF Shapes, SandboxesInv, B!TypeOK, B!Begin, B!Stages
<1>4. Only(p) BY <1>1 DEF Only, SandboxesInv, B!TypeOK, B!Begin, B!fixed
<1>5. /\ stage[p] = "idle" /\ stage'[p] = "creating" /\ n'[p] = n[p] + 1 /\ net'[p] = policy
      /\ created'[p] = << >> /\ todo'[p] = << >>
      /\ UNCHANGED <<pid, before, res, back, driver, things>>
  BY <1>1 DEF SandboxesInv, B!TypeOK, B!Begin, B!fixed
<1>6. n[p] \in Nat /\ before[p] \in Nat /\ before[p] <= n[p] /\ pid[p] # 0 /\ (res[p] = "exited" => back[p])
  BY <1>5 DEF SandboxesInv, B!TypeOK, B!ExitedIsMirrored, B!Up
<1>7. ListsOK(p)' /\ HasThings(p)'
  <2>. DEFINE needs == B!Needs(driver', net'[p])
  <2>1. Len(needs) \in 1 .. 4
    BY <1>2, <1>5, NetOK, NeedsFacts
  <2>2. Len(created'[p]) = 0 BY <1>5
  <2>3. /\ Begun(p)' /\ Creates(p)' /\ ~ B!Bound(p)' /\ stage'[p] = "creating"
        /\ before'[p] < n'[p]
    BY <1>5, <1>6 DEF Begun, Creates, B!Bound
  <2>4. ListsOK(p)'
    <3>. HIDE DEF needs
    <3>1. 0 <= Len(needs) /\ 0 < Len(needs) /\ 1 .. 0 = {} BY <2>1
    <3>. QED BY <2>2, <2>3, <3>1 DEF ListsOK, needs
  <2>5. HasThings(p)' BY <1>5 DEF HasThings, B!ToSet
  <2>. QED BY <2>4, <2>5
<1>8. \A t \in things : t.proc = p /\ Live(t)' => Live(t) /\ t.known # "held"
  <2> SUFFICES ASSUME NEW t \in things, t.proc = p, Live(t)' PROVE Live(t) /\ t.known # "held"
    OBVIOUS
  <2>1. Live(t) BY <1>5 DEF Live
  <2>2. created[p] = << >>
    BY <1>5 DEF SandboxesInv, ListsOK, Begun, Creates
  <2>3. Known(t) BY <2>1, KnownNow
  <2>. QED BY <1>5, <2>1, <2>2, <2>3 DEF Known, B!ToSet
<1>. QED BY <1>3, <1>4, <1>5, <1>6, <1>7, <1>8, QuietStepKeeps DEF Known

-----------------------------------------------------------------------------
(* What is created in the end, and what is removed of it.                    *)
LEMMA EndedMembers ==
  ASSUME NEW d \in AnyDriver, NEW policy \in B!Nets
  PROVE  /\ B!Ended(d, policy) \in Seq(B!Kinds) /\ B!Ended(d, policy) # << >>
         /\ B!ToSet(B!Needs(d, policy)) \subseteq B!ToSet(B!Ended(d, policy))
         /\ "session" \in B!ToSet(B!Needs(d, policy))
         /\ "session" \notin B!ToSet(Tail(B!Ended(d, policy)))
<1>. DEFINE needs == B!Needs(d, policy)
            ended == B!Ended(d, policy)
<1>0. Len(needs) \in Nat \ {0}
  <2>1. Len(needs) \in 1 .. 4 BY NeedsFacts
  <2>. HIDE DEF needs
  <2>. QED BY <2>1
<1>1. PICK len \in Nat \ {0} : len = Len(needs)
  BY <1>0
<1>2. /\ ended \in Seq(B!Kinds) /\ Len(ended) = len
      /\ ended[1] = "session" /\ \A j \in 2 .. len : ended[j] # "session"
      /\ \A i \in 1 .. len : \E j \in 1 .. len : ended[j] = needs[i]
  BY <1>1, EndedFacts
<1>3. needs \in Seq(B!Kinds) /\ needs[len] = "session"
  BY <1>1, NeedsFacts
<1>. HIDE DEF needs, ended
<1>4. Tail(ended) \in Seq(B!Kinds) /\ Len(Tail(ended)) = len - 1
      /\ \A j \in 1 .. len - 1 : j + 1 \in 2 .. len /\ Tail(ended)[j] = ended[j + 1]
  BY <1>2
<1>5. \A j \in 1 .. len - 1 : Tail(ended)[j] # "session"
  BY <1>2, <1>4
<1>6. B!ToSet(Tail(ended)) = {Tail(ended)[j] : j \in 1 .. len - 1}
  BY <1>4, Members
<1>7. B!ToSet(ended) = {ended[j] : j \in 1 .. len}
  BY <1>2, Members
<1>8. B!ToSet(needs) = {needs[j] : j \in 1 .. len}
  BY <1>1, <1>3, Members
<1>9. ended # << >> BY <1>2
<1>10. B!ToSet(needs) \subseteq B!ToSet(ended) BY <1>2, <1>7, <1>8
<1>11. "session" \in B!ToSet(needs) BY <1>3, <1>8
<1>12. "session" \notin B!ToSet(Tail(ended)) BY <1>5, <1>6
<1>. QED BY <1>2, <1>9, <1>10, <1>11, <1>12 DEF needs, ended

LEMMA AllCreated ==
  ASSUME SandboxesInv, NEW p \in Procs
  PROVE  /\ B!ToSet(created[p]) \subseteq B!ToSet(B!Needs(driver, net[p]))
         /\ B!Bound(p) => B!ToSet(created[p]) = B!ToSet(B!Needs(driver, net[p]))
<1>. DEFINE needs == B!Needs(driver, net[p])
<1>1. needs \in Seq(B!Kinds) BY NetOK, NeedsFacts
<1>2. /\ created[p] \in Seq(B!Kinds) /\ Len(created[p]) <= Len(needs)
      /\ \A i \in 1 .. Len(created[p]) : created[p][i] = needs[i]
      /\ B!Bound(p) => Len(created[p]) = Len(needs)
  BY DEF SandboxesInv, B!TypeOK, ListsOK
<1>. HIDE DEF needs
<1>3. B!ToSet(needs) = {needs[j] : j \in 1 .. Len(needs)}
  BY <1>1, Members
<1>4. B!ToSet(created[p]) = {created[p][j] : j \in 1 .. Len(created[p])}
  BY <1>2, Members
<1>. QED BY <1>1, <1>2, <1>3, <1>4 DEF needs

(* A run that has what it needs goes on, or stops.                           *)
LEMMA BoundStepKeeps ==
  ASSUME SandboxesInv, NEW p \in Procs, B!Bound(p), things' = things,
         UNCHANGED <<driver, enforced, space, pid, before, n, net, created, cancelled, failures>>,
         \/ /\ \E at \in {"running", "collecting"} : stage' = [stage EXCEPT ![p] = at]
            /\ UNCHANGED <<todo, res, back>>
         \/ /\ stage' = [stage EXCEPT ![p] = "removing"]
            /\ todo' = [todo EXCEPT ![p] = B!Ended(driver, net[p])]
            /\ \E how \in {"exited", "timedout", "cancelled", "error"} :
                 /\ res' = [res EXCEPT ![p] = how]
                 /\ \/ back' = [back EXCEPT ![p] = TRUE]
                    \/ how # "exited" /\ UNCHANGED back
  PROVE  SandboxesInv'
<1>1. Shapes'
  <2>1. B!Ended(driver, net[p]) \in Seq(B!Kinds)
    BY NetOK, EndedMembers
  <2>2. /\ todo \in [Procs -> Seq(B!Kinds)] /\ stage \in [Procs -> B!Stages]
        /\ res \in [Procs -> {"none", "exited", "timedout", "cancelled", "error"}]
        /\ back \in [Procs -> BOOLEAN]
    BY DEF SandboxesInv, B!TypeOK
  <2>3. todo' \in [Procs -> Seq(B!Kinds)]
    <3>1. todo' = todo \/ todo' = [todo EXCEPT ![p] = B!Ended(driver, net[p])]
      OBVIOUS
    <3>. QED BY <2>1, <2>2, <3>1
  <2>4. stage' \in [Procs -> B!Stages]
    <3>1. \E at \in {"running", "collecting", "removing"} : stage' = [stage EXCEPT ![p] = at]
      OBVIOUS
    <3>. QED BY <2>2, <3>1 DEF B!Stages
  <2>5. /\ res' \in [Procs -> {"none", "exited", "timedout", "cancelled", "error"}]
        /\ back' \in [Procs -> BOOLEAN]
    <3>1. res' = res \/ \E how \in {"exited", "timedout", "cancelled", "error"} : res' = [res EXCEPT ![p] = how]
      OBVIOUS
    <3>2. back' = back \/ back' = [back EXCEPT ![p] = TRUE]
      OBVIOUS
    <3>3. res' \in [Procs -> {"none", "exited", "timedout", "cancelled", "error"}]
      BY <2>2, <3>1
    <3>4. back' \in [Procs -> BOOLEAN]
      BY <2>2, <3>2
    <3>. QED BY <3>3, <3>4
  <2>. QED BY <2>3, <2>4, <2>5 DEF Shapes, SandboxesInv, B!TypeOK
<1>2. Only(p)
  BY DEF Only, SandboxesInv, B!TypeOK
<1>3. /\ ListsOK(p) /\ HasThings(p) /\ Creates(p) /\ pid[p] # 0 /\ before[p] <= n[p] /\ n[p] \in Nat
      /\ (res[p] = "exited" => back[p])
  BY DEF SandboxesInv, Creates, B!Bound, B!TypeOK, B!Up, B!ExitedIsMirrored
<1>4. \/ stage'[p] \in {"running", "collecting"} /\ todo'[p] = todo[p]
      \/ stage'[p] = "removing" /\ todo'[p] = B!Ended(driver, net[p])
  BY DEF SandboxesInv, B!TypeOK
<1>5. stage'[p] # "down" /\ (res'[p] = "exited" => back'[p])
  BY <1>3, <1>4 DEF SandboxesInv, B!TypeOK
<1>6. ListsOK(p)'
  BY <1>3, <1>4 DEF ListsOK, Begun, Creates, B!Bound
<1>7. HasThings(p)'
  <2>0. B!Seen(p)' = B!Seen(p) BY SeenStays
  <2>1. B!Seen(p) => \A kind \in B!ToSet(B!Needs(driver, net[p])) : B!Mine(p, kind) # {}
    BY <1>3, AllCreated DEF HasThings
  <2>2. B!Seen(p) => \A kind \in B!ToSet(B!Needs(driver, net[p])) : B!Mine(p, kind)' # {}
    BY <2>1 DEF B!Mine
  <2>3. B!ToSet(created[p]) = B!ToSet(B!Needs(driver, net[p]))
    BY AllCreated
  <2>. QED BY <1>4, <2>0, <2>2, <2>3 DEF HasThings, Creates
<1>8. \A t \in things : t.proc = p /\ Live(t)' => Live(t) /\ Known(t)'
  <2> SUFFICES ASSUME NEW t \in things, t.proc = p, Live(t)', t.known = "held"
               PROVE  Known(t)'
    BY DEF Live, Known
  <2>1. Live(t) /\ Known(t)
    BY KnownNow DEF Live
  <2>2. t.n = n[p] /\ t.kind \in B!ToSet(created[p])
    BY <1>3, <2>1 DEF Known, Creates
  <2>3. t.kind \in B!ToSet(B!Ended(driver, net[p]))
    BY <2>2, AllCreated, NetOK, EndedMembers
  <2>. QED BY <1>4, <2>2, <2>3 DEF Known
<1>. QED BY <1>1, <1>2, <1>3, <1>5, <1>6, <1>7, <1>8, QuietStepKeeps

LEMMA RunsKeep ==
  ASSUME SandboxesInv, NEW p \in Procs, B!StageIn(p) \/ B!Finish(p) \/ B!Collect(p)
  PROVE  SandboxesInv'
<1>1. B!Bound(p)
  BY DEF B!StageIn, B!Finish, B!Collect, B!Bound
<1>2. UNCHANGED <<driver, enforced, space, pid, before, n, net, created, cancelled, failures, things>>
  BY DEF B!StageIn, B!Finish, B!Collect, B!fixed
<1>3. \/ /\ \E at \in {"running", "collecting"} : stage' = [stage EXCEPT ![p] = at]
         /\ UNCHANGED <<todo, res, back>>
      \/ /\ stage' = [stage EXCEPT ![p] = "removing"]
         /\ todo' = [todo EXCEPT ![p] = B!Ended(driver, net[p])]
         /\ \E how \in {"exited", "timedout", "cancelled", "error"} :
              /\ res' = [res EXCEPT ![p] = how]
              /\ \/ back' = [back EXCEPT ![p] = TRUE]
                 \/ how # "exited" /\ UNCHANGED back
  BY DEF B!StageIn, B!Finish, B!Collect, B!Stops, B!Exits
<1>. QED BY <1>1, <1>2, <1>3, BoundStepKeeps

LEMMA EndKeeps == ASSUME SandboxesInv, NEW p \in Procs, B!End(p) PROVE SandboxesInv'
<1>1. Shapes' BY DEF Shapes, SandboxesInv, B!TypeOK, B!End, B!Stages, B!Nets
<1>2. Only(p) BY DEF Only, SandboxesInv, B!TypeOK, B!End, B!fixed
<1>3. /\ created'[p] = << >> /\ res'[p] = "none" /\ UNCHANGED <<before, n, driver, things>>
      /\ (stage[p] = "removing" /\ todo[p] = << >>) \/ (stage[p] = "idle" /\ cancelled[p])
      /\ IF cancelled[p] THEN stage'[p] = "down" /\ pid'[p] = 0 ELSE stage'[p] = "idle" /\ pid'[p] = pid[p]
  <2>1. /\ created'[p] = << >> /\ res'[p] = "none" /\ UNCHANGED <<before, n, driver, things>>
    BY DEF SandboxesInv, B!TypeOK, B!End, B!fixed
  <2>2. (stage[p] = "removing" /\ todo[p] = << >>) \/ (stage[p] = "idle" /\ cancelled[p])
    BY DEF B!End
  <2>3. /\ stage'[p] = (IF cancelled[p] THEN "down" ELSE "idle")
        /\ pid'[p] = (IF cancelled[p] THEN 0 ELSE pid[p])
    BY DEF SandboxesInv, B!TypeOK, B!End
  <2>. QED BY <2>1, <2>2, <2>3
<1>4. pid[p] # 0 /\ before[p] <= n[p] /\ n[p] \in Nat
  BY <1>3 DEF SandboxesInv, B!TypeOK, B!Up
<1>5. ListsOK(p)'
  <2>. DEFINE needs == B!Needs(driver', net'[p])
  <2>1. Len(needs) \in 1 .. 4
    BY <1>1, <1>3, NetOK, NeedsFacts DEF Shapes
  <2>2. ~ Begun(p)' /\ ~ B!Bound(p)' /\ stage'[p] \notin {"creating", "sweeping"} /\ Len(created'[p]) = 0
    BY <1>3 DEF Begun, Creates, B!Bound
  <2>. HIDE DEF needs
  <2>3. 0 <= Len(needs) /\ 1 .. 0 = {} BY <2>1
  <2>. QED BY <1>3, <2>2, <2>3 DEF ListsOK, needs
<1>6. HasThings(p)' BY <1>3 DEF HasThings, Creates
<1>7. \A t \in things : t.proc = p /\ Live(t)' => Live(t) /\ pid'[p] = pid[p] /\ t.known # "held"
  <2> SUFFICES ASSUME NEW t \in things, t.proc = p, Live(t)'
               PROVE  Live(t) /\ pid'[p] = pid[p] /\ t.known # "held"
    OBVIOUS
  <2>1. ~ cancelled[p] BY <1>3 DEF Live
  <2>2. Live(t) BY <1>3, <2>1 DEF Live
  <2>3. Known(t) BY <2>2, KnownNow
  <2>. QED BY <1>3, <2>1, <2>2, <2>3 DEF Known, B!ToSet
<1>. QED BY <1>1, <1>2, <1>3, <1>4, <1>5, <1>6, <1>7, QuietStepKeeps DEF Known

LEMMA CancelKeeps ==
  ASSUME SandboxesInv, NEW p \in Procs, B!Cancel(p) PROVE SandboxesInv'
<1>1. Shapes' BY DEF Shapes, SandboxesInv, B!TypeOK, B!Cancel
<1>2. Only(p) BY DEF Only, SandboxesInv, B!TypeOK, B!Cancel, B!fixed
<1>3. UNCHANGED <<pid, before, stage, n, net, created, todo, res, back, driver, space, things>>
  BY DEF B!Cancel, B!fixed
<1>4. /\ ListsOK(p) /\ HasThings(p) /\ before[p] <= n[p] /\ n[p] \in Nat
      /\ (res[p] = "exited" => back[p]) /\ (pid[p] # 0 <=> stage[p] # "down")
  BY DEF SandboxesInv, B!TypeOK, B!Up, B!ExitedIsMirrored
<1>5. ListsOK(p)' /\ HasThings(p)'
  BY <1>3, <1>4, SeenStays DEF ListsOK, HasThings, Begun, Creates, B!Bound, B!Mine
<1>6. \A t \in things : t.proc = p /\ Live(t)' => Live(t) /\ Known(t)'
  <2> SUFFICES ASSUME NEW t \in things, Live(t)' PROVE Live(t) /\ Known(t)'
    OBVIOUS
  <2>1. Live(t) BY <1>3 DEF Live
  <2>2. Known(t) BY <2>1, KnownNow
  <2>. QED BY <1>3, <2>1, <2>2 DEF Known
<1>. QED BY <1>1, <1>2, <1>3, <1>4, <1>5, <1>6, QuietStepKeeps

LEMMA KilledKeeps ==
  ASSUME SandboxesInv, NEW p \in Procs, B!Killed(p) PROVE SandboxesInv'
<1>1. Shapes' BY DEF Shapes, SandboxesInv, B!TypeOK, B!Killed, B!Stages, B!Nets
<1>2. Only(p) BY DEF Only, SandboxesInv, B!TypeOK, B!Killed, B!fixed
<1>3. /\ created'[p] = << >> /\ res'[p] = "none" /\ stage'[p] = "down" /\ pid'[p] = 0
      /\ UNCHANGED <<before, n, driver, things>>
  BY DEF SandboxesInv, B!TypeOK, B!Killed, B!fixed
<1>4. before[p] <= n[p] /\ n[p] \in Nat
  BY DEF SandboxesInv, B!TypeOK
<1>5. ListsOK(p)'
  <2>. DEFINE needs == B!Needs(driver', net'[p])
  <2>1. Len(needs) \in 1 .. 4
    BY <1>1, <1>3, NetOK, NeedsFacts DEF Shapes
  <2>2. ~ Begun(p)' /\ ~ B!Bound(p)' /\ stage'[p] \notin {"creating", "sweeping"} /\ Len(created'[p]) = 0
    BY <1>3 DEF Begun, Creates, B!Bound
  <2>. HIDE DEF needs
  <2>3. 0 <= Len(needs) /\ 1 .. 0 = {} BY <2>1
  <2>. QED BY <1>3, <2>2, <2>3 DEF ListsOK, needs
<1>6. HasThings(p)' BY <1>3 DEF HasThings, Creates
<1>7. \A t \in things : t.proc = p => ~ Live(t)' BY <1>3 DEF Live
<1>. QED BY <1>1, <1>2, <1>3, <1>4, <1>5, <1>6, <1>7, QuietStepKeeps

-----------------------------------------------------------------------------
(* What comes and goes. A sweep sees that the others are alive.              *)
LEMMA OthersStay ==
  ASSUME SandboxesInv, NEW t \in things, t.n = n[t.proc], before[t.proc] < n[t.proc], pid[t.proc] # 0
  PROVE  t.proc \in Procs /\ Live(t) /\ t.pid = pid[t.proc]
BY DEF SandboxesInv, ThingsOK, Live, B!TypeOK, B!Thing

LEMMA SweepOneKeeps ==
  ASSUME SandboxesInv, NEW p \in Procs, B!SweepOne(p) PROVE SandboxesInv'
<1>1. PICK gone \in things : B!Orphaned(p, gone) /\ things' = things \ {gone} /\ driver # "kubernetes"
  BY DEF B!SweepOne, B!Swept
<1>2. /\ UNCHANGED <<driver, enforced, space, pid, before, stage, n, net, created, todo, cancelled,
                     res, back, failures>>
      /\ stage[p] = "sweeping"
  BY DEF B!SweepOne, B!fixed
<1>3. Shapes' BY <1>2 DEF Shapes, SandboxesInv, B!TypeOK
<1>4. Only(p) BY <1>2 DEF Only
<1>5. things' \subseteq things /\ things \subseteq B!Thing /\ ThingsOK
  BY <1>1 DEF SandboxesInv, B!TypeOK
<1>6. ThingsOK' BY <1>2, <1>5 DEF ThingsOK, Live
<1>7. \A t \in things' : Live(t)' => Known(t)'
  BY <1>2, <1>5, KnownNow DEF Live, Known
<1>8. ASSUME NEW q \in Procs, NEW kind \in B!Kinds, B!Seen(q), before[q] < n[q], pid[q] # 0,
             B!Mine(q, kind) # {}
      PROVE  B!Mine(q, kind)' # {}
  <2>1. PICK t \in things : t.proc = q /\ t.n = n[q] /\ t.kind = kind
    BY <1>8 DEF B!Mine
  <2>2. t.pid = pid[q] BY <1>8, <2>1, OthersStay
  <2>3. driver = "docker" /\ space[q] = space[p]
    BY <1>1, <1>8, NetOK DEF B!Seen, AnyDriver
  <2>4. B!Alive(space[p], t.pid)
    BY <1>8, <2>2, <2>3 DEF B!Alive, B!Up
  <2>6. t # gone BY <1>1, <2>3, <2>4 DEF B!Orphaned
  <2>. QED BY <1>1, <1>2, <2>1, <2>6 DEF B!Mine
<1>9. /\ before[p] <= n[p] /\ (pid[p] # 0 <=> stage[p] # "down") /\ (res[p] = "exited" => back[p])
      /\ ListsOK(p)
  BY DEF SandboxesInv, B!TypeOK, B!Up, B!ExitedIsMirrored
<1>10. ListsOK(p)' /\ HasThings(p)'
  BY <1>2, <1>9 DEF ListsOK, HasThings, Begun, Creates, B!Bound
<1>. QED BY <1>2, <1>3, <1>4, <1>5, <1>6, <1>7, <1>8, <1>9, <1>10, StepKeeps

LEMMA AgesKeeps == ASSUME SandboxesInv, B!Ages PROVE SandboxesInv'
<1>1. /\ UNCHANGED <<driver, enforced, space, pid, before, stage, n, net, created, todo, cancelled,
                     res, back, failures>>
      /\ things' = {[t EXCEPT !.old = TRUE] : t \in things}
  BY DEF B!Ages, B!fixed
<1>2. things \subseteq B!Thing /\ ThingsOK
  BY DEF SandboxesInv, B!TypeOK
<1>3. \A t \in things : LET o == [t EXCEPT !.old = TRUE] IN
        /\ o \in B!Thing /\ o.proc = t.proc /\ o.n = t.n /\ o.kind = t.kind
        /\ o.known = t.known /\ o.pid = t.pid
  BY <1>2 DEF B!Thing
<1>4. things' \subseteq B!Thing /\ ThingsOK'
  <2>1. things' \subseteq B!Thing BY <1>1, <1>3
  <2>2. ASSUME NEW t \in things, NEW o, o = [t EXCEPT !.old = TRUE]
        PROVE  o.n <= n[o.proc] /\ (Live(o)' => o.pid = pid[o.proc])
    <3>1. o.proc = t.proc /\ o.n = t.n /\ o.pid = t.pid BY <1>3, <2>2
    <3>2. t.n <= n[t.proc] /\ (Live(t) => t.pid = pid[t.proc]) BY <1>2 DEF ThingsOK
    <3>. QED BY <1>1, <3>1, <3>2 DEF Live
  <2>3. ThingsOK' BY <1>1, <2>2 DEF ThingsOK
  <2>. QED BY <2>1, <2>3
<1>5. PICK p \in Procs : TRUE
  BY <1>2 DEF B!Ages, B!Thing
<1>6. Shapes' /\ Only(p) BY <1>1 DEF Shapes, Only, SandboxesInv, B!TypeOK
<1>7. \A t \in things' : Live(t)' => Known(t)'
  <2> SUFFICES ASSUME NEW t \in things, Live([t EXCEPT !.old = TRUE])'
               PROVE  Known([t EXCEPT !.old = TRUE])'
    BY <1>1
  <2>1. Live(t) BY <1>1, <1>3 DEF Live
  <2>2. Known(t) BY <2>1, KnownNow
  <2>. QED BY <1>1, <1>3, <2>2 DEF Known
<1>8. ASSUME NEW q, NEW kind, B!Mine(q, kind) # {}
      PROVE  B!Mine(q, kind)' # {}
  <2>1. PICK t \in things : t.proc = q /\ t.n = n[q] /\ t.kind = kind
    BY <1>8 DEF B!Mine
  <2>2. [t EXCEPT !.old = TRUE] \in B!Mine(q, kind)'
    BY <1>1, <1>3, <2>1 DEF B!Mine
  <2>. QED BY <2>2
<1>9. /\ before[p] <= n[p] /\ (pid[p] # 0 <=> stage[p] # "down") /\ (res[p] = "exited" => back[p])
      /\ ListsOK(p) /\ HasThings(p)
  BY DEF SandboxesInv, B!TypeOK, B!Up, B!ExitedIsMirrored
<1>10. ListsOK(p)' /\ HasThings(p)'
  BY <1>1, <1>8, <1>9, SeenStays DEF ListsOK, HasThings, Begun, Creates, B!Bound
<1>. QED BY <1>1, <1>4, <1>6, <1>7, <1>8, <1>9, <1>10, StepKeeps

(* The members of a list are its first and those of the rest.                *)
LEMMA FirstAndRest ==
  ASSUME NEW s, NEW rest, NEW len \in Nat, \A j \in 1 .. len : rest[j] = s[j + 1]
  PROVE  {s[j] : j \in 1 .. len + 1} = {s[1]} \cup {rest[j] : j \in 1 .. len}
<1>1. ASSUME NEW k \in 1 .. len + 1, k # 1 PROVE s[k] \in {rest[j] : j \in 1 .. len}
  <2>1. k - 1 \in 1 .. len /\ (k - 1) + 1 = k BY <1>1
  <2>2. rest[k - 1] = s[k] BY <2>1
  <2>. QED BY <2>1, <2>2
<1>2. ASSUME NEW j \in 1 .. len PROVE rest[j] \in {s[k] : k \in 1 .. len + 1}
  <2>1. j + 1 \in 1 .. len + 1 /\ rest[j] = s[j + 1] OBVIOUS
  <2>. QED BY <2>1
<1>3. 1 \in 1 .. len + 1 OBVIOUS
<1>4. {s[j] : j \in 1 .. len + 1} \subseteq {s[1]} \cup {rest[j] : j \in 1 .. len}
  BY <1>1
<1>5. {rest[j] : j \in 1 .. len} \subseteq {s[j] : j \in 1 .. len + 1}
  BY <1>2
<1>6. s[1] \in {s[j] : j \in 1 .. len + 1}
  BY <1>3
<1>. QED BY <1>4, <1>5, <1>6

LEMMA RemovesKeeps == ASSUME SandboxesInv, NEW p \in Procs, B!Removes(p) PROVE SandboxesInv'
<1>. DEFINE mine == B!Mine(p, Head(todo[p]))
            stuck == {[t EXCEPT !.known = "stuck"] : t \in mine}
<1>1. /\ UNCHANGED <<driver, enforced, space, pid, before, stage, n, net, created, cancelled, res, back>>
      /\ stage[p] = "removing" /\ todo[p] # << >> /\ todo' = [todo EXCEPT ![p] = Tail(@)]
      /\ failures' = failures \/ (failures < MaxFaults /\ failures' = failures + 1)
      /\ things' = things \ mine \/ things' = (things \ mine) \cup stuck
  BY DEF B!Removes, B!fixed
<1>2. things \subseteq B!Thing /\ ThingsOK /\ todo[p] \in Seq(B!Kinds)
  BY DEF SandboxesInv, B!TypeOK
<1>3. \A t \in things : LET o == [t EXCEPT !.known = "stuck"] IN
        /\ o \in B!Thing /\ o.proc = t.proc /\ o.n = t.n /\ o.kind = t.kind
        /\ o.known = "stuck" /\ o.pid = t.pid
  BY <1>2 DEF B!Thing
<1>4. mine \subseteq things /\ \A t \in mine : t.proc = p
  BY DEF B!Mine
<1>5. /\ Tail(todo[p]) \in Seq(B!Kinds)
      /\ B!ToSet(todo[p]) = {Head(todo[p])} \cup B!ToSet(Tail(todo[p]))
  <2>1. PICK len \in Nat : Len(todo[p]) = len + 1
    <3>1. Len(todo[p]) \in Nat /\ Len(todo[p]) # 0 BY <1>1, <1>2
    <3>2. Len(todo[p]) = (Len(todo[p]) - 1) + 1 /\ Len(todo[p]) - 1 \in Nat BY <3>1
    <3>. QED BY <3>2
  <2>2. /\ Tail(todo[p]) \in Seq(B!Kinds) /\ Len(Tail(todo[p])) = len
        /\ \A j \in 1 .. len : Tail(todo[p])[j] = todo[p][j + 1]
        /\ Head(todo[p]) = todo[p][1]
    BY <1>2, <2>1
  <2>3. B!ToSet(todo[p]) = {todo[p][j] : j \in 1 .. len + 1}
    BY <1>2, <2>1, Members
  <2>4. B!ToSet(Tail(todo[p])) = {Tail(todo[p])[j] : j \in 1 .. len}
    BY <2>2, Members
  <2>5. {todo[p][j] : j \in 1 .. len + 1} = {todo[p][1]} \cup {Tail(todo[p])[j] : j \in 1 .. len}
    <3>. DEFINE s    == todo[p]
                rest == Tail(s)
    <3>1. \A j \in 1 .. len : rest[j] = s[j + 1] BY <2>2
    <3>. HIDE DEF s, rest
    <3>2. {s[j] : j \in 1 .. len + 1} = {s[1]} \cup {rest[j] : j \in 1 .. len}
      BY <3>1, FirstAndRest
    <3>. QED BY <3>2 DEF s, rest
  <2>6. B!ToSet(todo[p]) = {Head(todo[p])} \cup B!ToSet(Tail(todo[p]))
    BY <2>2, <2>3, <2>4, <2>5, Zenon
  <2>. QED BY <2>2, <2>6
<1>6. Shapes'
  <2>1. todo' \in [Procs -> Seq(B!Kinds)]
    BY <1>1, <1>5 DEF SandboxesInv, B!TypeOK
  <2>2. failures' \in 0 .. MaxFaults
    BY <1>1, AuthoringAssumption DEF SandboxesInv, B!TypeOK
  <2>. QED BY <1>1, <2>1, <2>2 DEF Shapes, SandboxesInv, B!TypeOK
<1>7. Only(p) BY <1>1 DEF Only, SandboxesInv, B!TypeOK
<1>. HIDE DEF mine
<1>8. \A o \in things' : \E t \in things :
        /\ o.proc = t.proc /\ o.n = t.n /\ o.kind = t.kind /\ o.pid = t.pid /\ o \in B!Thing
        /\ o.known = "stuck" \/ (o = t /\ t \notin mine)
  <2> SUFFICES ASSUME NEW o \in things'
               PROVE  \E t \in things :
                        /\ o.proc = t.proc /\ o.n = t.n /\ o.kind = t.kind /\ o.pid = t.pid /\ o \in B!Thing
                        /\ o.known = "stuck" \/ (o = t /\ t \notin mine)
    OBVIOUS
  <2>1. CASE o \in things \ mine
    BY <1>2, <2>1
  <2>2. CASE o \in stuck
    <3>1. PICK t \in mine : o = [t EXCEPT !.known = "stuck"] BY <2>2
    <3>. QED BY <1>3, <1>4, <3>1
  <2>. QED BY <1>1, <2>1, <2>2
<1>9. things' \subseteq B!Thing BY <1>8
<1>10. ThingsOK'
  BY <1>1, <1>2, <1>8 DEF ThingsOK, Live
<1>11. todo'[p] = Tail(todo[p]) /\ stage'[p] = "removing"
  BY <1>1 DEF SandboxesInv, B!TypeOK
<1>12. \A o \in things' : Live(o)' => Known(o)'
  <2> SUFFICES ASSUME NEW o \in things', Live(o)', o.known = "held" PROVE Known(o)'
    BY DEF Known
  <2>1. o \in things /\ o \notin mine BY <1>8
  <2>2. Live(o) BY <1>1 DEF Live
  <2>3. Known(o) /\ o.proc \in Procs BY <2>1, <2>2, KnownNow
  <2>4. CASE o.proc # p
    BY <1>1, <1>7, <2>3, <2>4 DEF Known, Only
  <2>5. CASE o.proc = p
    <3>1. o.n = n[p] /\ o.kind \in B!ToSet(todo[p])
      BY <1>1, <2>3, <2>5 DEF Known
    <3>2. o.kind # Head(todo[p])
      BY <2>1, <2>5, <3>1 DEF mine, B!Mine
    <3>. QED BY <1>1, <1>5, <1>11, <2>5, <3>1, <3>2 DEF Known
  <2>. QED BY <2>4, <2>5
<1>13. \A q \in Procs, kind \in B!Kinds : q # p /\ B!Mine(q, kind) # {} => B!Mine(q, kind)' # {}
  <2> SUFFICES ASSUME NEW q \in Procs, NEW kind \in B!Kinds, q # p, B!Mine(q, kind) # {}
               PROVE  B!Mine(q, kind)' # {}
    OBVIOUS
  <2>1. PICK t \in things : t.proc = q /\ t.n = n[q] /\ t.kind = kind
    BY DEF B!Mine
  <2>2. t \in things' BY <1>1, <1>4, <2>1
  <2>. QED BY <1>1, <2>1, <2>2 DEF B!Mine
<1>14. /\ before[p] <= n[p] /\ (pid[p] # 0 <=> stage[p] # "down") /\ (res[p] = "exited" => back[p])
       /\ ListsOK(p) /\ HasThings(p)
  BY DEF SandboxesInv, B!TypeOK, B!Up, B!ExitedIsMirrored
<1>15. ListsOK(p)'
  BY <1>1, <1>14 DEF ListsOK, Begun, Creates, B!Bound
<1>16. HasThings(p)'
  <2> SUFFICES ASSUME "session" \in B!ToSet(Tail(todo[p])) PROVE FALSE
    BY <1>1, <1>11 DEF HasThings, Creates
  <2>1. todo[p] = B!Ended(driver, net[p])
    BY <1>1, <1>5, <1>14 DEF HasThings
  <2>. QED BY <2>1, NetOK, EndedMembers
<1>. QED BY <1>1, <1>6, <1>7, <1>9, <1>10, <1>12, <1>13, <1>14, <1>15, <1>16, StepKeeps

-----------------------------------------------------------------------------
(* What a run creates, or fails to create.                                   *)
LEMMA NewThing ==
  ASSUME SandboxesInv, NEW p \in Procs, stage[p] = "creating", NEW known \in {"held", "lost"}
  PROVE  /\ B!Next1(p) \in B!Kinds /\ Len(created[p]) \in Nat
         /\ B!New(p, known) \in B!Thing /\ B!New(p, known).proc = p /\ B!New(p, known).n = n[p]
         /\ B!New(p, known).pid = pid[p] /\ B!New(p, known).kind = B!Next1(p)
         /\ B!New(p, known).known = known
<1>. DEFINE needs == B!Needs(driver, net[p])
<1>1. needs \in Seq(B!Kinds) BY NetOK, NeedsFacts
<1>2. created[p] \in Seq(B!Kinds) /\ Len(created[p]) < Len(needs)
  BY DEF SandboxesInv, ListsOK, B!TypeOK
<1>3. needs[Len(created[p]) + 1] \in B!Kinds /\ Len(created[p]) \in Nat
  <2>. HIDE DEF needs
  <2>1. PICK k \in Nat : Len(created[p]) = k BY <1>2
  <2>2. k + 1 \in 1 .. Len(needs) BY <1>1, <1>2, <2>1
  <2>. QED BY <1>1, <2>1, <2>2
<1>4. n[p] \in Nat /\ pid[p] \in Pids /\ space[p] \in Namespaces
  BY DEF SandboxesInv, B!TypeOK, B!Up
<1>. QED BY <1>3, <1>4 DEF B!New, B!Next1, B!Thing

(* More things do not harm; what a run did not mean to keep is marked.       *)
LEMMA GrowthKeeps ==
  ASSUME SandboxesInv, NEW p \in Procs, stage[p] = "creating", B!Create(p),
         NEW known \in {"held", "lost"}, NEW new, new = B!New(p, known),
         things' \in {things, things \cup {new}}, Shapes', ListsOK(p)', HasThings(p)', stage'[p] # "down", res'[p] = "exited" => back'[p],
         todo' = todo \/ \E list : todo' = [todo EXCEPT ![p] = list],
         created' = created \/ \E list : created' = [created EXCEPT ![p] = list],
         \A t \in things : t.proc = p /\ Live(t) => Known(t)',
         Known(new)'
  PROVE  SandboxesInv'
<1>1. /\ new \in B!Thing /\ new.proc = p /\ new.n = n[p] /\ new.pid = pid[p] /\ new.known = known
  BY NewThing
<1>2. things \subseteq B!Thing /\ ThingsOK /\ things' \subseteq things \cup {new} /\ things \subseteq things'
  BY DEF SandboxesInv, B!TypeOK
<1>3. UNCHANGED <<driver, enforced, space, pid, before, n, net, cancelled, back>>
  BY DEF B!Create, B!fixed
<1>4. Only(p)
  <2>1. /\ stage' = stage \/ \E at : stage' = [stage EXCEPT ![p] = at]
        /\ res' = res \/ \E how : res' = [res EXCEPT ![p] = how]
    BY DEF B!Create, B!Stops
  <2>2. \A q \in Procs : q # p => stage'[q] = stage[q] /\ res'[q] = res[q]
    BY <2>1 DEF SandboxesInv, B!TypeOK
  <2>3. \A q \in Procs : q # p => todo'[q] = todo[q] /\ created'[q] = created[q]
    BY DEF SandboxesInv, B!TypeOK
  <2>. QED BY <1>3, <2>2, <2>3 DEF Only
<1>5. pid[p] # 0 /\ before[p] <= n[p] /\ n[p] \in Nat
  BY DEF SandboxesInv, B!TypeOK, B!Up
<1>6. ThingsOK'
  BY <1>1, <1>2, <1>3, <1>5 DEF ThingsOK, Live
<1>7. \A t \in things' : Live(t)' => Known(t)'
  <2> SUFFICES ASSUME NEW t \in things', Live(t)' PROVE Known(t)'
    OBVIOUS
  <2>1. CASE t = new
    BY <2>1
  <2>2. CASE t \in things /\ t.proc = p
    BY <1>3, <2>2 DEF Live
  <2>3. CASE t \in things /\ t.proc # p
    <3>1. Live(t) BY <1>3 DEF Live
    <3>2. Known(t) /\ t.proc \in Procs BY <2>3, <3>1, KnownNow
    <3>. QED BY <1>4, <2>3, <3>2 DEF Known, Only
  <2>. QED BY <1>2, <2>1, <2>2, <2>3
<1>8. \A q \in Procs, kind \in B!Kinds : B!Mine(q, kind) # {} => B!Mine(q, kind)' # {}
  BY <1>2, <1>3 DEF B!Mine
<1>9. things' \subseteq B!Thing BY <1>1, <1>2
<1>. QED BY <1>3, <1>4, <1>5, <1>6, <1>7, <1>8, <1>9, StepKeeps

LEMMA CreatesMore ==
  ASSUME SandboxesInv, NEW p \in Procs, B!Create(p), stage[p] = "creating",
         things' = things \cup {B!New(p, "held")},
         created' = [created EXCEPT ![p] = Append(@, B!Next1(p))],
         IF Len(created[p]) + 1 < Len(B!Needs(driver, net[p])) THEN UNCHANGED stage
         ELSE stage' = [stage EXCEPT ![p] = IF driver = "docker" THEN "running" ELSE "staging"],
         UNCHANGED <<todo, res, failures>>
  PROVE  SandboxesInv'
<1>. DEFINE needs == B!Needs(driver, net[p])
            next  == B!Next1(p)
<1>1. UNCHANGED <<driver, enforced, space, pid, before, n, net, cancelled, back>>
  BY DEF B!Create, B!fixed
<1>2. /\ next \in B!Kinds /\ B!New(p, "held").proc = p /\ B!New(p, "held").n = n[p]
      /\ B!New(p, "held").kind = next
  BY NewThing
<1>3. PICK k \in Nat : k = Len(created[p])
  BY NewThing
<1>0. Len(needs) \in Nat
  <2>1. Len(needs) \in 1 .. 4 BY NetOK, NeedsFacts
  <2>. HIDE DEF needs
  <2>. QED BY <2>1
<1>4. PICK len \in Nat : len = Len(needs) BY <1>0
<1>5. /\ created[p] \in Seq(B!Kinds) /\ k < len /\ \A i \in 1 .. k : created[p][i] = needs[i]
      /\ before[p] < n[p] /\ HasThings(p)
  BY <1>3, <1>4 DEF SandboxesInv, ListsOK, B!TypeOK, Begun, Creates
<1>6. next = needs[k + 1]
  BY <1>3 DEF B!Next1
<1>7. /\ created'[p] = Append(created[p], next) /\ created' \in [Procs -> Seq(B!Kinds)]
  BY <1>2 DEF SandboxesInv, B!TypeOK
<1>8. /\ stage'[p] \in {"creating", "staging", "running"} /\ stage' \in [Procs -> B!Stages]
      /\ stage'[p] = "creating" <=> k + 1 < len
  <2>1. stage \in [Procs -> B!Stages] BY DEF SandboxesInv, B!TypeOK
  <2>2. stage' = [stage EXCEPT ![p] = IF k + 1 < len THEN "creating" ELSE IF driver = "docker" THEN "running" ELSE "staging"]
    BY <1>3, <1>4, <2>1
  <2>. QED BY <2>1, <2>2 DEF B!Stages
<1>. HIDE DEF needs, next
<1>9. /\ created'[p] \in Seq(B!Kinds) /\ Len(created'[p]) = k + 1
      /\ \A i \in 1 .. k : created'[p][i] = created[p][i]
      /\ created'[p][k + 1] = next
  BY <1>2, <1>3, <1>5, <1>7
<1>10. \A i \in 1 .. k + 1 : created'[p][i] = needs[i]
  BY <1>5, <1>6, <1>9
<1>11. B!ToSet(created'[p]) = B!ToSet(created[p]) \cup {next}
  <2>1. B!ToSet(created'[p]) = {created'[p][i] : i \in 1 .. k + 1}
    BY <1>9, Members
  <2>2. B!ToSet(created[p]) = {created[p][i] : i \in 1 .. k}
    BY <1>3, <1>5, Members
  <2>3. 1 .. k + 1 = (1 .. k) \cup {k + 1}
    OBVIOUS
  <2>. QED BY <1>9, <2>1, <2>2, <2>3
<1>12. ListsOK(p)'
  <2>1. /\ Begun(p)' /\ stage'[p] # "sweeping" /\ k + 1 <= len
        /\ B!Bound(p)' => k + 1 = len
    BY <1>4, <1>5, <1>8 DEF Begun, Creates, B!Bound
  <2>. QED BY <1>1, <1>4, <1>5, <1>8, <1>9, <1>10, <2>1 DEF ListsOK, needs
<1>13. HasThings(p)'
  <2>0. B!Seen(p)' = B!Seen(p) BY <1>1, SeenStays
  <2> SUFFICES ASSUME B!Seen(p), NEW kind \in B!ToSet(created'[p]) PROVE B!Mine(p, kind)' # {}
    BY <1>8, <2>0 DEF HasThings
  <2>1. CASE kind = next
    <3>1. B!New(p, "held") \in B!Mine(p, kind)' BY <1>1, <1>2, <2>1 DEF B!Mine
    <3>. QED BY <3>1
  <2>2. CASE kind \in B!ToSet(created[p])
    <3>1. B!Mine(p, kind) # {} BY <1>5, <2>2 DEF HasThings, Creates
    <3>. QED BY <1>1, <3>1 DEF B!Mine
  <2>. QED BY <1>11, <2>1, <2>2
<1>14. Shapes'
  BY <1>1, <1>7, <1>8 DEF Shapes, SandboxesInv, B!TypeOK
<1>15. res'[p] = "exited" => back'[p]
  BY <1>1 DEF SandboxesInv, B!ExitedIsMirrored
<1>16. ASSUME NEW t \in things, t.proc = p, Live(t) PROVE Known(t)'
  <2>1. Known(t) BY <1>16, KnownNow
  <2>. QED BY <1>1, <1>8, <1>11, <1>16, <2>1 DEF Known
<1>17. PICK new : new = B!New(p, "held") OBVIOUS
<1>18. Known(new)'
  <2>1. new.proc = p /\ new.n = n[p] /\ new.kind = next BY <1>2, <1>17
  <2>. QED BY <1>1, <1>8, <1>11, <2>1 DEF Known
<1>. QED BY <1>8, <1>12, <1>13, <1>14, <1>15, <1>16, <1>17, <1>18, GrowthKeeps

(* Whatever made it stop, it removes what it created.                        *)
LEMMA CreatesNoMore ==
  ASSUME SandboxesInv, NEW p \in Procs, B!Create(p), stage[p] = "creating",
         things' \in {things, things \cup {B!New(p, "lost")}}, UNCHANGED created,
         NEW list \in Seq(B!Kinds), NEW how \in {"error", "cancelled", "timedout"}, B!Stops(p, list, how),
         B!ToSet(created[p]) \subseteq B!ToSet(list), "session" \notin B!ToSet(list)
  PROVE  SandboxesInv'
<1>1. UNCHANGED <<driver, enforced, space, pid, before, n, net, cancelled, back>>
  BY DEF B!Create, B!fixed
<1>2. /\ stage' = [stage EXCEPT ![p] = "removing"] /\ todo' = [todo EXCEPT ![p] = list]
      /\ res' = [res EXCEPT ![p] = how]
  BY DEF B!Stops
<1>3. stage'[p] = "removing" /\ todo'[p] = list /\ res'[p] = how
  BY <1>2 DEF SandboxesInv, B!TypeOK
<1>4. failures' = failures \/ (failures < MaxFaults /\ failures' = failures + 1)
  BY <1>3 DEF B!Create
<1>5. Shapes'
  <2>1. failures' \in 0 .. MaxFaults
    BY <1>4, AuthoringAssumption DEF SandboxesInv, B!TypeOK
  <2>2. stage' \in [Procs -> B!Stages] /\ todo' \in [Procs -> Seq(B!Kinds)]
    BY <1>2 DEF SandboxesInv, B!TypeOK, B!Stages
  <2>3. res' \in [Procs -> {"none", "exited", "timedout", "cancelled", "error"}]
    BY <1>2 DEF SandboxesInv, B!TypeOK
  <2>. QED BY <1>1, <2>1, <2>2, <2>3 DEF Shapes, SandboxesInv, B!TypeOK
<1>6. ListsOK(p) BY DEF SandboxesInv
<1>7. ListsOK(p)'
  BY <1>1, <1>3, <1>6 DEF ListsOK, Begun, Creates, B!Bound
<1>8. HasThings(p)' BY <1>3 DEF HasThings, Creates
<1>9. ASSUME NEW t \in things, t.proc = p, Live(t) PROVE Known(t)'
  <2>1. Known(t) BY <1>9, KnownNow
  <2>. QED BY <1>1, <1>3, <1>9, <2>1 DEF Known
<1>10. res'[p] # "exited" /\ stage'[p] # "down" BY <1>3
<1>11. PICK new : new = B!New(p, "lost") OBVIOUS
<1>12. new.known = "lost" BY <1>11, NewThing
<1>13. Known(new)' BY <1>12 DEF Known
<1>. QED BY <1>2, <1>5, <1>7, <1>8, <1>9, <1>10, <1>11, <1>13, GrowthKeeps

LEMMA CreateKeeps == ASSUME SandboxesInv, NEW p \in Procs, B!Create(p) PROVE SandboxesInv'
<1>. DEFINE needs == B!Needs(driver, net[p])
<1>1. stage[p] = "creating" BY DEF B!Create
<1>2. PICK k \in Nat : k = Len(created[p])
  BY <1>1, NewThing
<1>3. /\ created[p] \in Seq(B!Kinds) /\ k < Len(needs) /\ \A i \in 1 .. k : created[p][i] = needs[i]
  BY <1>1, <1>2 DEF SandboxesInv, ListsOK, B!TypeOK
<1>4. B!ToSet(created[p]) = {created[p][i] : i \in 1 .. k}
  BY <1>2, <1>3, Members
<1>5. CASE /\ things' = things \cup {B!New(p, "held")}
           /\ created' = [created EXCEPT ![p] = Append(@, B!Next1(p))]
           /\ IF Len(created[p]) + 1 < Len(B!Needs(driver, net[p])) THEN UNCHANGED stage
              ELSE stage' = [stage EXCEPT ![p] = IF driver = "docker" THEN "running" ELSE "staging"]
           /\ UNCHANGED <<todo, res, failures>>
  BY <1>1, <1>5, CreatesMore
<1>6. CASE /\ things' \in {things, things \cup {B!New(p, "lost")}} /\ UNCHANGED created
           /\ \E how \in {"error", "cancelled", "timedout"} :
                B!Stops(p, B!Undone(driver, net[p], B!Next1(p)), how)
  <2>. DEFINE list == B!Undone(driver, net[p], B!Next1(p))
  <2>1. k \in 0 .. Len(needs) - 1 /\ B!Next1(p) = needs[k + 1]
    <3>1. B!Next1(p) = needs[k + 1] BY <1>2 DEF B!Next1
    <3>2. Len(needs) \in 1 .. 4 BY NetOK, NeedsFacts
    <3>. HIDE DEF needs
    <3>3. k \in 0 .. Len(needs) - 1 BY <1>3, <3>2
    <3>. QED BY <3>1, <3>3
  <2>2. Fits(list, needs, k)
    BY <2>1, NetOK, UndoneFacts
  <2>. HIDE DEF needs, list
  <2>3. list \in Seq(B!Kinds) /\ B!ToSet(list) = {list[j] : j \in 1 .. Len(list)}
    BY <2>2, Members DEF Fits
  <2>4. B!ToSet(created[p]) \subseteq B!ToSet(list) /\ "session" \notin B!ToSet(list)
    BY <1>3, <1>4, <2>2, <2>3 DEF Fits
  <2>5. PICK how \in {"error", "cancelled", "timedout"} : B!Stops(p, list, how)
    BY <1>6 DEF list
  <2>. QED BY <1>1, <1>6, <2>3, <2>4, <2>5, CreatesNoMore
<1>7. CASE /\ driver = "kubernetes" /\ net[p] = "allowlist"
           /\ B!Stops(p, <<"policy", "proxy", "config">>, "error") /\ UNCHANGED <<created, failures, things>>
  <2>. DEFINE list == <<"policy", "proxy", "config">>
  <2>1. needs = <<"config", "proxy", "policy", "session">>
    BY <1>7 DEF B!Needs
  <2>2. Len(needs) = 4 /\ needs[1] = "config" /\ needs[2] = "proxy" /\ needs[3] = "policy"
    BY <2>1
  <2>3. list \in Seq(B!Kinds) /\ B!ToSet(list) = {"policy", "proxy", "config"}
    <3>1. list \in Seq(B!Kinds) /\ Len(list) = 3 BY DEF B!Kinds
    <3>2. B!ToSet(list) = {list[j] : j \in 1 .. 3} BY <3>1, Members
    <3>3. 1 .. 3 = {1, 2, 3} OBVIOUS
    <3>. QED BY <3>1, <3>2, <3>3
  <2>. HIDE DEF needs
  <2>4. \A i \in 1 .. k : i = 1 \/ i = 2 \/ i = 3
    BY <1>3, <2>2
  <2>5. B!ToSet(created[p]) \subseteq {"policy", "proxy", "config"}
    BY <1>3, <1>4, <2>2, <2>4
  <2>. HIDE DEF list
  <2>6. "session" \notin B!ToSet(list) BY <2>3
  <2>. QED BY <1>1, <1>7, <2>3, <2>5, <2>6, CreatesNoMore DEF list
<1>. QED
  <2>1. (IF cancelled[p] THEN {"cancelled"} ELSE {"timedout"}) \subseteq {"cancelled", "timedout"}
    OBVIOUS
  <2>. QED BY <1>5, <1>6, <1>7, <2>1 DEF B!Create

-----------------------------------------------------------------------------
LEMMA SandboxesStart == ASSUME B!Init PROVE SandboxesInv
<1>1. << >> \in Seq(B!Kinds) /\ Len(<< >>) = 0 /\ B!IsInjective(<< >>)
  BY DEF B!IsInjective
<1>2. \A p \in Procs :
        /\ pid[p] = 0 /\ stage[p] = "down" /\ before[p] = 0 /\ n[p] = 0 /\ net[p] = "full"
        /\ res[p] = "none" /\ created[p] = << >> /\ todo[p] = << >>
  BY DEF B!Init
<1>3. Shapes
  <2>1. 0 \in 0 .. MaxFaults BY AuthoringAssumption
  <2>. QED BY <1>1, <2>1 DEF B!Init, Shapes, B!Nets, B!Stages
<1>4. B!TypeOK
  BY <1>1, <1>2, <1>3 DEF B!Init, Shapes, B!TypeOK, B!Up
<1>5. B!NothingForgotten /\ B!ExitedIsMirrored /\ ThingsOK
  BY <1>2 DEF B!Init, B!NothingForgotten, B!ExitedIsMirrored, ThingsOK
<1>6. \A p \in Procs : ListsOK(p) /\ HasThings(p)
  BY <1>1, <1>2 DEF ListsOK, HasThings, Begun, Creates, B!Bound
<1>. QED BY <1>4, <1>5, <1>6 DEF SandboxesInv

LEMMA SandboxStepKeeps == ASSUME SandboxesInv, B!Next PROVE SandboxesInv'
<1>1. CASE B!Ages BY <1>1, AgesKeeps
<1>2. ASSUME NEW p \in Procs, B!Start(p) \/ B!SweepOne(p) \/ B!SweepEnds(p) PROVE SandboxesInv'
  BY <1>2, StartKeeps, SweepOneKeeps, SweepEndsKeeps
<1>3. ASSUME NEW p \in Procs, B!Begin(p) \/ B!Create(p) \/ B!Removes(p) PROVE SandboxesInv'
  BY <1>3, BeginsKeeps, CreateKeeps, RemovesKeeps
<1>4. ASSUME NEW p \in Procs, B!StageIn(p) \/ B!Finish(p) \/ B!Collect(p) PROVE SandboxesInv'
  BY <1>4, RunsKeep
<1>5. ASSUME NEW p \in Procs, B!End(p) \/ B!Cancel(p) \/ B!Killed(p) PROVE SandboxesInv'
  BY <1>5, EndKeeps, CancelKeeps, KilledKeeps
<1>. QED BY <1>1, <1>2, <1>3, <1>4, <1>5 DEF B!Next

LEMMA SandboxesUnchanged == ASSUME SandboxesInv, UNCHANGED bVars PROVE SandboxesInv'
<1>1. B!TypeOK' /\ B!NothingForgotten' /\ B!ExitedIsMirrored' /\ ThingsOK'
  BY DEF bVars, SandboxesInv, B!TypeOK, B!Up, B!NothingForgotten, B!ExitedIsMirrored, ThingsOK, Live
<1>2. ASSUME NEW p \in Procs PROVE ListsOK(p)' /\ HasThings(p)'
  <2>1. ListsOK(p) /\ HasThings(p) BY DEF SandboxesInv
  <2>2. ListsOK(p)' BY <2>1 DEF bVars, ListsOK, Begun, Creates, B!Bound
  <2>3. \A kind : B!Mine(p, kind)' = B!Mine(p, kind) BY DEF bVars, B!Mine
  <2>4. HasThings(p)' BY <2>1, <2>3, SeenStays DEF bVars, HasThings, Creates
  <2>. QED BY <2>2, <2>4
<1>. QED BY <1>1, <1>2 DEF SandboxesInv

LEMMA SandboxesPreserved == ASSUME SandboxesInv, [Next]_all PROVE SandboxesInv'
<1>1. B!Next \/ UNCHANGED bVars
  BY DEF Next, Sessions, Skills, Hooks, Sandboxes, Authoring, Tuning, Revision, all
<1>. QED BY <1>1, SandboxStepKeeps, SandboxesUnchanged

(* The session is created last.                                              *)
LEMMA SessionCreated ==
  ASSUME SandboxesInv, NEW p \in Procs, "session" \in B!ToSet(created[p])
  PROVE  B!ToSet(B!Needs(driver, net[p])) = B!ToSet(created[p]) /\ Begun(p)
<1>. DEFINE needs == B!Needs(driver, net[p])
<1>1. /\ created[p] \in Seq(B!Kinds) /\ Len(created[p]) <= Len(needs)
      /\ \A i \in 1 .. Len(created[p]) : created[p][i] = needs[i]
      /\ ~Begun(p) => created[p] = << >>
  BY DEF SandboxesInv, B!TypeOK, ListsOK
<1>2. needs \in Seq(B!Kinds) /\ \A i \in 1 .. Len(needs) : needs[i] = "session" <=> i = Len(needs)
  BY NetOK, NeedsFacts
<1>. HIDE DEF needs
<1>3. B!ToSet(needs) = {needs[j] : j \in 1 .. Len(needs)}
  BY <1>2, Members
<1>4. B!ToSet(created[p]) = {created[p][j] : j \in 1 .. Len(created[p])}
  BY <1>1, Members
<1>5. PICK i \in 1 .. Len(created[p]) : created[p][i] = "session"
  BY <1>4
<1>6. PICK k \in Nat : k = Len(created[p]) BY <1>1
<1>7. PICK len \in Nat : len = Len(needs) BY <1>2
<1>8. i \in 1 .. len /\ needs[i] = "session" BY <1>1, <1>5, <1>6, <1>7
<1>9. i = len BY <1>2, <1>7, <1>8
<1>10. k = len BY <1>1, <1>5, <1>6, <1>7, <1>9
<1>11. created[p] # << >> BY <1>5
<1>12. B!ToSet(needs) = B!ToSet(created[p])
  BY <1>1, <1>3, <1>4, <1>6, <1>7, <1>10
<1>. QED BY <1>1, <1>11, <1>12 DEF needs

(* A run in progress has its session, and a session what confines it.        *)
LEMMA SandboxesAreSound == ASSUME SandboxesInv PROVE SandboxesHold
<1>1. ASSUME NEW p \in Procs, B!Bound(p), B!Seen(p) PROVE ~B!Lost(p)
  <2>1. Creates(p) BY <1>1 DEF B!Bound, Creates
  <2>2. "session" \in B!ToSet(created[p])
    BY <1>1, AllCreated, NetOK, EndedMembers
  <2>. QED BY <1>1, <2>1, <2>2 DEF SandboxesInv, HasThings, B!Lost
<1>2. ASSUME NEW t \in things, t.kind = "session", t.known = "held", B!Up(t.proc),
             t.n > before[t.proc], B!Seen(t.proc),
             NEW kind \in B!ToSet(B!Needs(driver, net[t.proc]))
      PROVE  B!Mine(t.proc, kind) # {}
  <2>0. PICK p : p = t.proc OBVIOUS
  <2>1. Known(t) /\ p \in Procs
    BY <1>2, <2>0, KnownNow DEF Live, B!Up
  <2>2. CASE stage[p] = "removing"
    BY <1>2, <2>0, <2>1, <2>2 DEF Known, SandboxesInv, HasThings
  <2>3. CASE stage[p] # "removing"
    <3>1. "session" \in B!ToSet(created[p])
      BY <1>2, <2>0, <2>1, <2>3 DEF Known
    <3>2. Creates(p) /\ B!ToSet(created[p]) = B!ToSet(B!Needs(driver, net[p]))
      BY <2>1, <2>3, <3>1, SessionCreated DEF Begun
    <3>. QED BY <1>2, <2>0, <2>1, <3>2 DEF SandboxesInv, HasThings
  <2>. QED BY <2>2, <2>3
<1>3. B!TypeOK /\ B!NothingForgotten /\ B!ExitedIsMirrored
  BY DEF SandboxesInv
<1>4. B!RunKeepsItsSandbox BY <1>1 DEF B!RunKeepsItsSandbox
<1>5. B!SessionsAreConfined BY <1>2 DEF B!SessionsAreConfined
<1>. QED BY <1>3, <1>4, <1>5 DEF SandboxesHold

(* What sandboxes exist and whose they are, whichever processes start, are   *)
(* killed and sweep, with any driver and in any pid namespaces               *)
(* (eval/sandbox).                                                           *)
THEOREM SandboxesInvariant == Spec => []SandboxesInv
<1>1. Init => SandboxesInv
  BY SandboxesStart DEF Init
<1>2. SandboxesInv /\ [Next]_all => SandboxesInv'
  BY SandboxesPreserved
<1>. QED BY <1>1, <1>2, PTL DEF Spec

(* What exists is known to somebody who removes it, and a run that exited    *)
(* has its workspace back, whatever is swept; and no sweep takes the sandbox *)
(* of a run in progress, nor what confines it, where those who sweep see its *)
(* process: docker's in one pid namespace, and kubernetes', which has none   *)
(* (docker/sweep.go:18-22, network.go:90, sandbox.go:73-74).                 *)
THEOREM SandboxesStay == Spec => []SandboxesHold
<1>1. SandboxesInv => SandboxesHold
  BY SandboxesAreSound
<1>. QED BY <1>1, SandboxesInvariant, PTL
=============================================================================
