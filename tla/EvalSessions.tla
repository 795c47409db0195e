---------------------------- MODULE EvalSessions ----------------------------
(* One evaluation on a machine: whetstone eval (cli/whetstone/eval.go), the  *)
(* runner that executes its plan (internal/eval/runner) and the SQLite store *)
(* and artifact directories that a killed evaluation is resumed from         *)
(* (internal/eval/store). Sessions run side by side under a semaphore and a  *)
(* quota gate; each is graded as soon as it has finished. An agent session,  *)
(* a judge's answer and a failing disk are choices.                          *)
(* Assumed: nobody resumes an evaluation that is still running, and nobody   *)
(* edits an eval set while an evaluation runs.                               *)
EXTENDS Naturals, FiniteSets, FiniteSetsExt

CONSTANTS Evals,        \* ids of evaluations, in the order they are created
          Skilled,      \* planned sessions with the skill
          Baselines,    \* planned sessions without it
          Probes,       \* planned trigger probes
          Suites,       \* contents of the eval set
          Plan,         \* Plan[x]: the sessions and probes that x asks for
          Concurrency,  \* sessions at a time
          MaxRateLimitRetries,
          MaxSpent,     \* bound: sessions started in all
          MaxProcesses  \* bound: evaluations under way at a time

VARIABLES suite,    \* the eval set on disk
          eval,     \* eval[e]: the evals row of e
          row,      \* row[e][k]: the runs row of session k of e
          dir,      \* dir[e][k]: what the artifact directory of k of e holds
          spent,    \* spent[e][k]: sessions started for k of e
          process,  \* process[e]: the process that evaluates e
          session,  \* session[e][k]: where that process stands with k
          held      \* evaluations whose quota gate holds new starts

vars == <<suite, eval, row, dir, spent, process, session, held>>

Keys == Skilled \cup Baselines \cup Probes
Graded == Skilled \cup Baselines

NoEval == [at |-> "none"]
EvalRows == {NoEval} \cup [at: {"running"}, suite: Suites]
            \cup [at: {"done"}, suite: Suites, scored: SUBSET Graded, known: SUBSET Probes]

(* A run's row: its status (error or timeout where it failed), which         *)
(* attempt's artifacts it names, in whose directory, and the eval set it ran *)
(* under. An artifact directory is known by the attempt whose trajectory is  *)
(* in it, 0 when there is none.                                              *)
NoRow == [status |-> "none"]
Claimed == [status |-> "claimed"]
Rows == {NoRow, Claimed} \cup [status: {"ok", "failed"}, of: Evals, attempt: Nat \ {0}, under: Suites]

Off == [at |-> "off"]
Processes == {Off} \cup [at: {"reusing", "running"}, plan: SUBSET Keys]
Waiting == [at |-> "waiting"]
Sessions == {Waiting} \cup [at: {"invoked"}, tries: 1..MaxRateLimitRetries]
            \cup [at: {"written"}, status: {"ok", "failed"}]
            \cup [at: {"graded", "known", "lost"}]

TypeOK ==
  /\ suite \in Suites
  /\ eval \in [Evals -> EvalRows]
  /\ row \in [Evals -> [Keys -> Rows]]
  /\ dir \in [Evals -> [Keys -> Nat]]
  /\ spent \in [Evals -> [Keys -> Nat]]
  /\ process \in [Evals -> Processes]
  /\ session \in [Evals -> [Keys -> Sessions]]
  /\ held \subseteq Evals
  /\ \A e \in Evals: process[e].at # "off" => eval[e].at # "none"

Init ==
  /\ suite \in Suites
  /\ eval = [e \in Evals |-> NoEval]
  /\ row = [e \in Evals |-> [k \in Keys |-> NoRow]]
  /\ dir = [e \in Evals |-> [k \in Keys |-> 0]]
  /\ spent = [e \in Evals |-> [k \in Keys |-> 0]]
  /\ process = [e \in Evals |-> Off]
  /\ session = [e \in Evals |-> [k \in Keys |-> Waiting]]
  /\ held = {}

Running(e) == process[e].at = "running"
Goes(e, k, s) == session' = [session EXCEPT ![e][k] = s]
Quits(e) ==
  /\ process' = [process EXCEPT ![e] = Off]
  /\ session' = [session EXCEPT ![e] = [k \in Keys |-> Waiting]]
  /\ held' = held \ {e}

-----------------------------------------------------------------------------
(* mutant: only a failed measurement counts as one                           *)
DoneNever(r) == r.status = "failed"
(* ClaimRun: a run that was measured is not measured again.                  *)
Done(r) == r.status = "ok"

(* Starting an evaluation, or resuming one that did not finish or did. A     *)
(* resume is refused when the eval set is another one.                       *)
EditSuite ==
  /\ \A e \in Evals: process[e] = Off
  /\ suite' \in Suites \ {suite}
  /\ UNCHANGED <<eval, row, dir, spent, process, session, held>>

Total == MapThenSumSet(LAMBDA e: MapThenSumSet(LAMBDA k: spent[e][k], Keys), Evals)

Starts(e) ==
  /\ Total + Cardinality({k \in Plan[suite]: ~Done(row[e][k])}) <= MaxSpent
  /\ Cardinality({f \in Evals: process[f] # Off}) < MaxProcesses
  /\ process' = [process EXCEPT ![e] = [at |-> "reusing", plan |-> Plan[suite]]]
  /\ UNCHANGED <<suite, row, dir, spent, session, held>>

CreateEval(e) ==
  /\ eval[e] = NoEval
  /\ \A f \in Evals: f < e => eval[f] # NoEval
  /\ eval' = [eval EXCEPT ![e] = [at |-> "running", suite |-> suite]]
  /\ Starts(e)

Resumable(e) == eval[e] # NoEval /\ eval[e].suite = suite

Resume(e) ==
  /\ process[e] = Off
  /\ Resumable(e)
  /\ Starts(e)
  /\ UNCHANGED eval

(* A finished baseline of an evaluation of the same eval set stands in for   *)
(* this one's: its row is copied and the session leaves the plan. That the   *)
(* agent is at another version, that the row is too old or that the caller   *)
(* asked for fresh baselines leaves it there. This evaluation's own rows are *)
(* looked through, too.                                                      *)
ReusableBaseline(e, k) ==
  {f \in Evals: eval[f] # NoEval /\ eval[f].suite = eval[e].suite /\ row[f][k].status = "ok"}

Copied(e, k) == IF row[e][k] = NoRow THEN row[Max(ReusableBaseline(e, k))][k] ELSE row[e][k]
CopyBaseline(e) ==
  /\ process[e].at = "reusing"
  /\ \E reused \in SUBSET {k \in Baselines \cap process[e].plan: ReusableBaseline(e, k) # {}}:
       /\ row' = [row EXCEPT ![e] = [k \in Keys |->
            IF k \in reused THEN Copied(e, k) ELSE row[e][k]]]
       /\ process' = [process EXCEPT ![e] = [at |-> "running", plan |-> @.plan \ reused]]
  /\ UNCHANGED <<suite, eval, dir, spent, session, held>>

-----------------------------------------------------------------------------
(* One session. A start waits for a slot and for the gate.                   *)
Busy(e) == {k \in Keys: session[e][k].at \in {"invoked", "written"}}

MayStart(e, k) ==
  /\ Running(e)
  /\ k \in process[e].plan
  /\ session[e][k] = Waiting
  /\ Cardinality(Busy(e)) < Concurrency
  /\ e \notin held

Invoke(e, k) ==
  /\ MayStart(e, k)
  /\ ~Done(row[e][k])
  /\ row' = [row EXCEPT ![e][k] = IF @ = NoRow THEN Claimed ELSE @]
  /\ spent' = [spent EXCEPT ![e][k] = @ + 1]
  /\ Goes(e, k, [at |-> "invoked", tries |-> 1])
  /\ UNCHANGED <<suite, eval, dir, process, held>>

(* What a session that is over leaves: a grade, or none where the judge      *)
(* fails; for a probe, a trajectory; or nothing.                             *)
Judged == {"graded", "lost"}
Outcome(e, k, status) ==
  \E at \in CASE status # "ok" -> {"lost"}
              [] k \in Graded   -> Judged
              [] k \in Probes   -> {"known"}:
    Goes(e, k, [at |-> at])

(* A finished run is taken from its row: its transcript and outputs are      *)
(* graded again, its probe's trajectory is read back.                        *)
Recall(e, k) ==
  /\ MayStart(e, k)
  /\ Done(row[e][k])
  /\ Outcome(e, k, IF k \in Graded \/ dir[e][k] # 0 THEN "ok" ELSE "failed")
  /\ UNCHANGED <<suite, eval, row, dir, spent, process, held>>

(* A rate-limited answer is asked for again after a pause, during which the  *)
(* gate may hold new starts.                                                 *)
RateLimited(e, k) ==
  /\ session[e][k].at = "invoked"
  /\ session[e][k].tries < MaxRateLimitRetries
  /\ Goes(e, k, [session[e][k] EXCEPT !.tries = @ + 1])
  /\ held' \in {held, held \cup {e}}
  /\ UNCHANGED <<suite, eval, row, dir, spent, process>>

HoldPasses(e) ==
  /\ e \in held
  /\ held' = held \ {e}
  /\ UNCHANGED <<suite, eval, row, dir, spent, process, session>>

(* mutant: lost events do not matter                                         *)
RecordedAnyway(status, wrote) == status
(* A session whose events could not be written was not measured.             *)
RecordedStatus(status, wrote) == IF status = "ok" /\ ~wrote THEN "failed" ELSE status

(* A session answers, fails, times out or is limited once too often. Its     *)
(* artifacts are written before its row is and replace those that are there. *)
Answers(e, k) ==
  /\ session[e][k].at = "invoked"
  /\ \E status \in {"ok", "failed"}, wrote \in BOOLEAN:
       /\ dir' = [dir EXCEPT ![e][k] = IF wrote THEN spent[e][k] ELSE 0]
       /\ Goes(e, k, [at |-> "written", status |-> RecordedStatus(status, wrote)])
  /\ UNCHANGED <<suite, eval, row, spent, process, held>>

FinishRun(e, k) ==
  /\ session[e][k].at = "written"
  /\ row' = [row EXCEPT ![e][k] = [status |-> session[e][k].status, of |-> e,
                                  attempt |-> spent[e][k], under |-> suite]]
  /\ Outcome(e, k, session[e][k].status)
  /\ UNCHANGED <<suite, eval, dir, spent, process, held>>

(* A row that cannot be written is only logged.                              *)
FinishRunFails(e, k) ==
  /\ session[e][k].at = "written"
  /\ Outcome(e, k, session[e][k].status)
  /\ UNCHANGED <<suite, eval, row, dir, spent, process, held>>

-----------------------------------------------------------------------------
(* The report, once every planned session is over and every grade is in. An  *)
(* evaluation of which no session with the skill was graded reports nothing. *)
Settled(e) == \A k \in process[e].plan: session[e][k].at \in {"graded", "known", "lost"}
Scored(e) == {k \in process[e].plan \cap Graded: session[e][k].at = "graded"}
Known(e) == {k \in process[e].plan: session[e][k].at = "known"}

Report(e) == [at |-> "done", suite |-> eval[e].suite, scored |-> Scored(e), known |-> Known(e)]
Compose(e) ==
  /\ Running(e)
  /\ Settled(e)
  /\ eval' = IF Scored(e) \cap Skilled = {} THEN eval ELSE [eval EXCEPT ![e] = Report(e)]
  /\ Quits(e)
  /\ UNCHANGED <<suite, row, dir, spent>>

(* The process is killed. What was claimed stays claimed.                    *)
Crash(e) ==
  /\ process[e] # Off
  /\ Quits(e)
  /\ UNCHANGED <<suite, eval, row, dir, spent>>

Steps(e) ==
  \/ CopyBaseline(e) \/ Compose(e)
  \/ \E k \in Keys: \/ Invoke(e, k) \/ Recall(e, k) \/ RateLimited(e, k) \/ Answers(e, k)
                    \/ FinishRun(e, k) \/ FinishRunFails(e, k)

Next ==
  \/ EditSuite
  \/ \E e \in Evals: CreateEval(e) \/ Resume(e) \/ Steps(e) \/ HoldPasses(e) \/ Crash(e)

Spec == Init /\ [][Next]_vars

-----------------------------------------------------------------------------
(* A run that was measured is measured once: however often its evaluation is *)
(* killed and resumed, its row keeps naming the attempt it was (ClaimRun,    *)
(* store/eval.go:225-229).                                                   *)
MeasuredOnceStep ==
  \A e \in Evals, k \in Keys: row[e][k].status = "ok" => row'[e][k] = row[e][k]

(* A measured run has the trajectory of the very attempt its row names, in   *)
(* the directory it names, also where another evaluation copied the row: a   *)
(* crash or a full disk before the row is written costs a session, never the *)
(* evidence (record.go:18-20, session.go:61-68).                             *)
MeasuredHasEvidence ==
  \A e \in Evals, k \in Keys:
    row[e][k].status = "ok" => dir[row[e][k].of][k] = row[e][k].attempt

(* What one report adds up was measured against one eval set: "resuming      *)
(* across a change would silently mix two measurements" (eval.go:259).       *)
OneSuitePerEval ==
  \A e \in Evals, k \in Keys: row[e][k].status = "ok" => row[e][k].under = eval[e].suite

-----------------------------------------------------------------------------
(* What comments of the code say and the runs refute.                        *)

(* store/eval.go:335-336: a prior baseline is copied into the evaluation "so *)
(* the eval scores it without spending a session on it".                     *)
CopiedBaselineIsScored ==
  \A e \in Evals, b \in Baselines:
    eval[e].at = "done" /\ row[e][b].status = "ok" /\ row[e][b].of # e => b \in eval[e].scored
=============================================================================
