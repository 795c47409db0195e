--------------------------- MODULE SuiteRegistry ---------------------------
(* Stored evaluation suites and the scores measured against them             *)
(* (internal/evalsuite, internal/quality, the rerun and report handlers of   *)
(* internal/evalqueue, internal/skill/release.go). A suite is named by its   *)
(* content. A person pushes one, declares one unread, or reviews one; a      *)
(* worker that runs a job without a suite derives one and pushes it under    *)
(* its claim. A score releases a held version unless its suite is derived.   *)
EXTENDS Naturals, Sequences, FiniteSets

CONSTANTS Refs,       \* contents of suites, and so their references
          Skills,     \* skills, each with one version that is held
          Jobs,       \* evaluation jobs
          Requests,   \* requests being served
          MaxClaims,  \* bound: how often a job is claimed
          NoRef       \* a job without a suite

VARIABLES suite,      \* suite[x]: the eval_suites row of x
          made,       \* references in the order their rows were created
          archive,    \* references whose archive is in the store
          job,        \* job[j]: the eval_jobs row of j
          request,    \* request[r]: what r has read so far
          score,      \* the skill_quality rows: <<skill, suite, derived>>
          released,   \* skills whose held version a score released
          vouched,    \* suites a person wrote or read (history)
          derivedOnce \* suites that were derived at some time (history)

vars == <<suite, made, archive, job, request, score, released, vouched, derivedOnce>>

NoSuite == [live |-> FALSE]
SuiteRow(s) == [live |-> TRUE, skill |-> s, origin |-> "authored", machine |-> FALSE, reviewed |-> FALSE]
SuiteRows == {NoSuite} \cup [live: {TRUE}, skill: Skills, origin: {"authored", "derived"},
                             machine: BOOLEAN, reviewed: BOOLEAN]

NoJob == [at |-> "none"]
JobRows == {NoJob} \cup [at: {"running", "done"}, skill: Skills, ref: Refs \cup {NoRef}, claim: 1..MaxClaims]

Idle == [at |-> "idle"]
PushKinds == {"authored", "unreviewed"}
RequestStates ==
  {Idle}
  \cup [at: {"stored"}, kind: {"derived"}, skill: Skills, ref: Refs, job: Jobs]
  \cup [at: {"stored"}, kind: {"authored", "unreviewed", "edit"}, skill: Skills, ref: Refs]
  \cup [at: {"read"}, skill: Skills, ref: Refs, edit: Refs]
  \cup [at: {"mark"}, ref: Refs]
  \cup [at: {"report"}, job: Jobs, claim: 1..MaxClaims, ref: Refs, named: BOOLEAN, derived: BOOLEAN, releases: BOOLEAN]

TypeOK ==
  /\ suite \in [Refs -> SuiteRows]
  /\ made \in Seq(Refs)
  /\ \A x \in Refs: suite[x].live <=> \E i \in DOMAIN made: made[i] = x
  /\ archive \subseteq Refs
  /\ job \in [Jobs -> JobRows]
  /\ request \in [Requests -> RequestStates]
  /\ \A j \in Jobs: job[j].at = "done" => job[j].ref \in Refs
  /\ score \subseteq Skills \X Refs \X BOOLEAN
  /\ released \subseteq Skills
  /\ vouched \subseteq Refs
  /\ derivedOnce \subseteq Refs

Init ==
  /\ suite = [x \in Refs |-> NoSuite]
  /\ made = << >>
  /\ archive = {}
  /\ job = [j \in Jobs |-> NoJob]
  /\ request = [r \in Requests |-> Idle]
  /\ score = {}
  /\ released = {}
  /\ vouched = {}
  /\ derivedOnce = {}

Ended(r) == request' = [request EXCEPT ![r] = Idle]
Goto(r, state) == request' = [request EXCEPT ![r] = state]

-----------------------------------------------------------------------------
(* Jobs. A rerun takes the suite of the skill it is told to, or the one that *)
(* was recorded last, or none, and the worker then derives one. A claim that *)
(* lapses is handed to another worker.                                       *)
OfSkill(s) == {i \in DOMAIN made: suite[made[i]].skill = s}
LatestForSkill(s) ==
  IF OfSkill(s) = {} THEN {NoRef}
  ELSE {made[i]: i \in {i \in OfSkill(s): \A k \in OfSkill(s): k <= i}}

Named(s) == {x \in Refs: suite[x].live /\ suite[x].skill = s}

Submit(j, s) ==
  /\ job[j] = NoJob
  /\ \E x \in LatestForSkill(s) \cup Named(s):
       job' = [job EXCEPT ![j] = [at |-> "running", skill |-> s, ref |-> x, claim |-> 1]]
  /\ UNCHANGED <<suite, made, archive, request, score, released, vouched, derivedOnce>>

ClaimAgain(j) ==
  /\ job[j].at = "running"
  /\ job[j].claim < MaxClaims
  /\ job' = [job EXCEPT ![j].claim = @ + 1]
  /\ UNCHANGED <<suite, made, archive, request, score, released, vouched, derivedOnce>>

-----------------------------------------------------------------------------
(* Pushing a suite: the archive is written first, then the row, its origin   *)
(* and, for a derived one, the job's reference in one transaction. The row   *)
(* of content that is recorded already is left as it is.                     *)
WriteArchive(x) == archive' = archive \cup {x}

PushAuthored(r, s, x, kind) ==
  /\ request[r] = Idle
  /\ WriteArchive(x)
  /\ Goto(r, [at |-> "stored", kind |-> kind, skill |-> s, ref |-> x])
  /\ UNCHANGED <<suite, made, job, score, released, vouched, derivedOnce>>

(* A worker's push: its claim is current and its job names no suite, as      *)
(* verified before the archive is written. The row names the job by its id.  *)
PushDerived(r, j, c, x) ==
  /\ request[r] = Idle
  /\ job[j].at = "running" /\ job[j].claim = c
  /\ job[j].ref = NoRef
  /\ WriteArchive(x)
  /\ Goto(r, [at |-> "stored", kind |-> "derived", skill |-> job[j].skill, ref |-> x, job |-> j])
  /\ UNCHANGED <<suite, made, job, score, released, vouched, derivedOnce>>

(* INSERT ... ON CONFLICT DO NOTHING                                         *)
Inserted(s, x) == IF suite[x].live THEN suite ELSE [suite EXCEPT ![x] = SuiteRow(s)]

(* mutant: machine_generated is assigned                                     *)
DerivedAssigned(rows, x, machine) ==
  [rows EXCEPT ![x].origin = "derived", ![x].machine = machine]
(* markDerived: machine_generated is OR-ed, not assigned.                    *)
Derived(rows, x, machine) ==
  [rows EXCEPT ![x].origin = "derived", ![x].machine = @ \/ machine]

(* mutant: a derived suite is recorded as one only by the job's report       *)
OriginAtReport(kind, rows, x) ==
  IF kind = "unreviewed" THEN Derived(rows, x, FALSE) ELSE rows
(* Who pushed decides the origin: a derived suite is recorded as one by the  *)
(* push itself.                                                              *)
Origin(kind, rows, x) ==
  IF kind \in {"unreviewed", "derived"} THEN Derived(rows, x, kind = "derived") ELSE rows

RecordSuite(r) ==
  LET q == request[r]
      x == q.ref
      isNew == ~suite[x].live IN
  /\ q.at = "stored"
  /\ suite' = Origin(q.kind, Inserted(q.skill, x), x)
  /\ made' = IF isNew THEN Append(made, x) ELSE made
  /\ job' = IF q.kind = "derived" THEN [job EXCEPT ![q.job].ref = x] ELSE job
  /\ vouched' = IF isNew /\ q.kind \in {"authored", "edit"} THEN vouched \cup {x} ELSE vouched
  /\ derivedOnce' = IF suite'[x].origin = "derived" THEN derivedOnce \cup {x} ELSE derivedOnce
  /\ IF q.kind = "edit" THEN Goto(r, [at |-> "mark", ref |-> x]) ELSE Ended(r)
  /\ UNCHANGED <<archive, score, released>>

-----------------------------------------------------------------------------
(* An owner or an admin reviews a suite's queries. A review that changes     *)
(* nothing raises the suite in place; one that edits pushes a new suite and  *)
(* then stamps the reviewer on it.                                           *)
ReadSuite(r, x, edit) ==
  /\ request[r] = Idle
  /\ suite[x].live /\ x \in archive
  /\ edit # x
  /\ Goto(r, IF edit = NoRef THEN [at |-> "mark", ref |-> x]
             ELSE [at |-> "read", skill |-> suite[x].skill, ref |-> x, edit |-> edit])
  /\ UNCHANGED <<suite, made, archive, job, score, released, vouched, derivedOnce>>

PushEdit(r) ==
  LET q == request[r] IN
  /\ q.at = "read"
  /\ WriteArchive(q.edit)
  /\ Goto(r, [at |-> "stored", kind |-> "edit", skill |-> q.skill, ref |-> q.edit])
  /\ UNCHANGED <<suite, made, job, score, released, vouched, derivedOnce>>

(* The reviewer is named in the statement that raises the origin.            *)
Authored(x) == [suite EXCEPT ![x].origin = "authored", ![x].reviewed = TRUE]

MarkAuthored(r) ==
  LET x == request[r].ref IN
  /\ request[r].at = "mark"
  /\ suite' = Authored(x)
  /\ vouched' = vouched \cup {x}
  /\ Ended(r)
  /\ UNCHANGED <<made, archive, job, score, released, derivedOnce>>

-----------------------------------------------------------------------------
(* A report: verified against the job's row, then committed with the score   *)
(* and the release of the held version. What it found out about the suite    *)
(* is read before the transaction.                                           *)
MayReport(j, x) ==
  /\ suite[x].live
  /\ IF job[j].ref = NoRef THEN suite[x].skill = job[j].skill ELSE x = job[j].ref

(* A job that named no suite measured a derived one, whatever the row says.  *)
IsDerived(j, x) == job[j].ref = NoRef \/ suite[x].origin = "derived"

(* Reconsider: the score of a derived suite clears nothing.                  *)
Releases(j, x, clears) == clears /\ ~IsDerived(j, x)

VerifyReport(r, j, c, x, clears) ==
  /\ request[r] = Idle
  /\ job[j].at = "running" /\ job[j].claim = c
  /\ MayReport(j, x)
  /\ Goto(r, [at |-> "report", job |-> j, claim |-> c, ref |-> x, named |-> job[j].ref # NoRef,
              derived |-> IsDerived(j, x), releases |-> Releases(j, x, clears)])
  /\ UNCHANGED <<suite, made, archive, job, score, released, vouched, derivedOnce>>

Measured(q) == IF q.named THEN job[q.job].ref ELSE q.ref

(* Complete asks for a running job and the worker's name, which the job has  *)
(* again when the same worker claimed it a second time.                      *)
CommitReport(r) ==
  LET q == request[r]
      s == job[q.job].skill IN
  /\ q.at = "report"
  /\ Ended(r)
  /\ \/ /\ job[q.job].at = "running"
        /\ suite' = IF q.named THEN suite ELSE Derived(suite, q.ref, TRUE)
        /\ derivedOnce' = IF q.named THEN derivedOnce ELSE derivedOnce \cup {q.ref}
        /\ job' = [job EXCEPT ![q.job].at = "done", ![q.job].ref = Measured(q)]
        /\ score' = score \cup {<<s, q.ref, q.derived>>}
        /\ released' = IF q.releases THEN released \cup {s} ELSE released
     \/ /\ job[q.job].at # "running" \/ job[q.job].claim # q.claim
        /\ UNCHANGED <<suite, derivedOnce, job, score, released>>
  /\ UNCHANGED <<made, archive, vouched>>

(* An edit that is stored and then fails leaves its suite without a          *)
(* reviewer. A request that fails elsewhere is one that takes no more steps. *)
AbandonMark(r) ==
  /\ request[r].at = "mark"
  /\ Ended(r)
  /\ UNCHANGED <<suite, made, archive, job, score, released, vouched, derivedOnce>>

-----------------------------------------------------------------------------
Next ==
  \/ \E j \in Jobs: ClaimAgain(j) \/ \E s \in Skills: Submit(j, s)
  \/ \E r \in Requests:
       \/ \E s \in Skills, x \in Refs, kind \in PushKinds: PushAuthored(r, s, x, kind)
       \/ \E j \in Jobs, c \in 1..MaxClaims, x \in Refs: PushDerived(r, j, c, x)
       \/ RecordSuite(r)
       \/ \E x \in Refs, edit \in Refs \cup {NoRef}: ReadSuite(r, x, edit)
       \/ PushEdit(r) \/ MarkAuthored(r)
       \/ \E j \in Jobs, c \in 1..MaxClaims, x \in Refs, clears \in BOOLEAN: VerifyReport(r, j, c, x, clears)
       \/ CommitReport(r) \/ AbandonMark(r)

Spec == Init /\ [][Next]_vars

-----------------------------------------------------------------------------
(* A held version is released only by a score against a suite some person    *)
(* wrote or read: not by one a worker derived, pushed before it lost its     *)
(* claim, and another job then measured ("which a later re-run's score could *)
(* then use to clear a scan hold", evalsuite/routes.go:145-148).             *)
ReleasesAreVouched ==
  \A s \in released: \E x \in vouched: <<s, x, FALSE>> \in score

(* No score counts as authored against a suite nobody vouched for.           *)
AuthoredScoresAreVouched == \A e \in score: ~e[3] => e[2] \in vouched

(* A suite that was derived is authored again only by a review, which names  *)
(* its reviewer: neither an authored push of the same content nor a lost     *)
(* request raises it (registry.go:182-190, 305-313).                         *)
RaisedHasReviewer ==
  \A x \in derivedOnce: suite[x].origin = "authored" => suite[x].reviewed

(* Every recorded suite has its archive, whatever request fails.             *)
SuitesAreStored == \A x \in Refs: suite[x].live => x \in archive

(* Once a worker generated a content, no later push takes that back and the  *)
(* run's tolerance of void tasks with it (registry.go:284-290).              *)
MachineStaysStep ==
  \A x \in Refs: suite[x].live /\ suite[x].machine => suite'[x].machine
=============================================================================
