----------------------------- MODULE MCCommands -----------------------------
(* What runs on a person's or a worker's machine, one part at a time: an     *)
(* evaluation's sessions, the skills that `skael` places, the hooks it       *)
(* installs, the sandboxes of sessions, and how whetstone authors a skill,   *)
(* tunes its description and revises its bundle.  A behaviour is of the part *)
(* its first state picks; the others stay as they begin.                     *)
EXTENDS Naturals, FiniteSets, TLC

CONSTANTS
  Evals, Skilled, Baselines, Probes, Suites, Concurrency, MaxRateLimitRetries,
  MaxSpent, MaxProcesses,
  Managed, Listed, Hand, Dirs, Shared, Slots, MaxVersion, MaxRuns,
  Lines, MaxLines,
  Procs, Drivers, Namespaces, Pids, Policies, MaxSandboxes, MaxFaults,
  Commands, Edits, Descriptions, Drafts, Hands, MaxSpecs,
  Positive, Negative, Own, Want, Proposed, Runs, Iterations, HoldoutPercent,
  Headings, Planned, Weights, StepWeights, StubWeight, Budget, MaxReferences,
  MaxRevisions, MaxSections, MaxGens,
  None, x1, x2

(* Both eval sets ask for a session with the skill; only the first for one   *)
(* without it, only the second for a probe.                                  *)
Plan == [x \in Suites |-> Skilled \cup IF x = x1 THEN Baselines ELSE Probes]

VARIABLES
  part,
  suite, eval, row, dir, spent, process, session, held,
  served, config, record, made, disk, manifest, left, hand, run, runs,
  toml, matchers, events, plugin,
  driver, enforced, space, pid, before, stage, n, net, created, todo, cancelled,
  res, back, failures, things,
  specs, file, bundle, evalset, machine, generated, cmd, faults, clean,
  phase, queries, train, test, current, fired, history, told, best,
  pc, after, passes, failed, drafted, body, descOk, written, revised, skill, files, gens

S == INSTANCE EvalSessions
L == INSTANCE LocalSkills
H == INSTANCE AgentHooks
B == INSTANCE Sandboxes WITH made <- created, faults <- failures, MaxRuns <- MaxSandboxes
A == INSTANCE SkillAuthoring WITH suite <- evalset, MaxVersion <- MaxSpecs
T == INSTANCE DescriptionTuning WITH Descriptions <- Proposed
R == INSTANCE BundleRevision

ASSUME EvalsAssumption ==
  /\ Evals \subseteq Nat /\ \E top \in Evals \cup {0} : \A e \in Evals : e <= top
  /\ MaxRateLimitRetries \in Nat \ {0}
ASSUME AuthoringAssumption ==
  /\ MaxSpecs \in Nat /\ MaxFaults \in Nat
  /\ None \notin BOOLEAN \cup A!Text \cup A!Files
               \cup [ver : 0 .. MaxSpecs, desc : Descriptions \cup {None}]
ASSUME SkillsAssumption ==
  /\ Shared \in Dirs /\ Hand \cap (Managed \cup Listed) = {}
  /\ MaxVersion \in Nat \ {0} /\ MaxRuns \in Nat
ASSUME TuningAssumption ==
  /\ IsFiniteSet(Positive \cup Negative) /\ Own \subseteq Positive \cup Negative
  /\ Iterations \in Nat \ {0}
ASSUME SandboxAssumption ==
  /\ 0 \notin Pids /\ Policies \subseteq B!Nets
  /\ Drivers \subseteq {"docker", "kubernetes", "northflank"}
ASSUME RevisionAssumption ==
  /\ Planned \subseteq Headings /\ Weights \subseteq Nat
  /\ None \notin R!Slugs \cup [body : R!Bodies, descOk : BOOLEAN]
  /\ {MaxSections, MaxReferences, MaxRevisions, MaxGens} \subseteq Nat

Parts == {"sessions", "skills", "hooks", "sandboxes", "authoring", "tuning", "revision"}

Init ==
  /\ part \in Parts
  /\ S!Init /\ (part # "sessions" => suite = x1)
  /\ L!Init /\ (part # "skills" => made = {})
  /\ H!Init
  /\ B!Init /\ (part # "sandboxes" =>
                  /\ driver = "docker"
                  /\ \A p, q \in Procs : space[p] = space[q])
  /\ A!Init
  /\ T!Init /\ (part # "tuning" => current = CHOOSE d \in Proposed : TRUE)
  /\ R!Init

sVars == <<suite, eval, row, dir, spent, process, session, held>>
lVars == <<served, config, record, made, disk, manifest, left, hand, run, runs>>
hVars == <<toml, matchers, events, plugin>>
bVars == <<driver, enforced, space, pid, before, stage, n, net, created, todo,
           cancelled, res, back, failures, things>>
aVars == <<specs, file, bundle, evalset, machine, generated, cmd, faults, clean>>
tVars == <<phase, queries, train, test, current, fired, history, told, best>>
rVars == <<pc, after, passes, failed, drafted, body, descOk, written, revised,
           skill, files, gens>>
all   == <<part, sVars, lVars, hVars, bVars, aVars, tVars, rVars>>

(* Processes disturb each other where one sweeps what another's pid is on:   *)
(* with Docker.  A failure, a cancellation and the other drivers are met by  *)
(* a process alone.                                                          *)
Few == driver # "docker" \/ failures' > 0 \/ (\E p \in Procs : cancelled'[p]) =>
         \E p \in Procs : pid'[p] = 0 /\ before'[p] = 0 /\ n'[p] = 0

Sessions  == part = "sessions"  /\ S!Next /\ UNCHANGED <<part, lVars, hVars, bVars, aVars, tVars, rVars>>
Skills    == part = "skills"    /\ L!Next /\ UNCHANGED <<part, sVars, hVars, bVars, aVars, tVars, rVars>>
Hooks     == part = "hooks"     /\ H!Next /\ UNCHANGED <<part, sVars, lVars, bVars, aVars, tVars, rVars>>
Sandboxes == part = "sandboxes" /\ B!Next /\ Few /\ UNCHANGED <<part, sVars, lVars, hVars, aVars, tVars, rVars>>
Authoring == part = "authoring" /\ A!Next /\ UNCHANGED <<part, sVars, lVars, hVars, bVars, tVars, rVars>>
Tuning    == part = "tuning"    /\ T!Next /\ UNCHANGED <<part, sVars, lVars, hVars, bVars, aVars, rVars>>
Revision  == part = "revision"  /\ R!Next /\ UNCHANGED <<part, sVars, lVars, hVars, bVars, aVars, tVars>>

Next == Sessions \/ Skills \/ Hooks \/ Sandboxes \/ Authoring \/ Tuning \/ Revision
Spec == Init /\ [][Next]_all

Interchangeable == Permutations(Procs) \cup Permutations(Namespaces)

-----------------------------------------------------------------------------
(* A session that was measured stays measured, once, with the trajectory of  *)
(* the attempt its row names, and one evaluation is of one eval set          *)
(* (record.go:18-20, eval.go:259).                                           *)
MeasuredHasEvidence ==
  part = "sessions" => S!TypeOK /\ S!MeasuredHasEvidence /\ S!OneSuitePerEval

(* What a person put into the pulled directory survives every pull, and the  *)
(* rest of it is one resolution of the set (pull.go:236-238, 289-290).       *)
HandMadeStays == part = "skills" => L!TypeOK /\ L!HandMadeStays /\ L!PulledIsOneResolution

(* A sweep takes what the dead left and, where it can see who is alive, not  *)
(* the sandbox of a run in progress nor what confines it; what exists is     *)
(* known to somebody who removes it, except after a lost answer or a failed  *)
(* removal; a run that exited has its workspace back, whatever was swept     *)
(* (docker/sweep.go:18-22, docker/network.go:90, sandbox.go:73-74).          *)
SandboxesHold ==
  part = "sandboxes" => /\ B!TypeOK
                        /\ B!RunKeepsItsSandbox  /\ B!NothingForgotten
                        /\ B!SessionsAreConfined /\ B!ExitedIsMirrored

(* The bundle was generated from an approved specification, a description    *)
(* tuned or proposed for it is of one, and an eval set is declared           *)
(* unreviewed exactly when it is as a command left it (spec.go:174-176,      *)
(* suite.go:86-96).                                                          *)
BundleIsApproved == part = "authoring" => A!TypeOK /\ A!BundleIsApproved /\ A!SetsAreDeclared

(* No step loses work that was done: the row of a measured session stays, a  *)
(* stored specification keeps what the one before had from its author or     *)
(* from tuning, a generation one of whose passes failed leaves the bundle as *)
(* it was, and what users wrote in their agents' files stays, in order,      *)
(* while neither of the two hooks disturbs the other and each is there once  *)
(* (store/eval.go:225-229, spec.go:88-97, gen.go:43-54, install.go:327-330). *)
WorkIsKept ==
  [][/\ part = "sessions"  => S!MeasuredOnceStep
     /\ part = "authoring" => A!BuildsOnTheLatestStep
     /\ part = "revision"  => R!FailedPassesWriteNothing
     /\ part = "hooks"     => H!KeepsUsersStep /\ H!ApartStep /\ H!OneOfEach
    ]_<<sVars, aVars, rVars, hVars>>

(* The description kept was measured, is best on the held-out half and was   *)
(* written without sight of it (tune/loop.go:42-46).                         *)
WinnerHoldsOut == part = "tuning" => T!TypeOK /\ T!WinnerHoldsOut

(* Every section the body pass drafted is on disk, in the body or in the     *)
(* file its link names (gen/offload.go:71-131).                              *)
NothingIsDropped == part = "revision" => R!TypeOK /\ R!NothingIsDropped
=============================================================================
