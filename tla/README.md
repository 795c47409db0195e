# A TLA+ model of skael

skael is a registry for agent skills. A Go server keeps skills, their versions,
owners, reviews and evaluation scores in Postgres and their archives on disk or
in S3. Worker processes claim evaluation jobs over HTTP, run agents in
sandboxes and report scores. Git connections publish from repositories,
webhooks announce what changed. A command line client publishes, installs,
syncs and authors skills on people's machines.

This directory holds a specification of the parts where requests, workers,
commands and background jobs meet, the TLC configurations that check it on
small instances, and TLAPS proofs of its main properties for every instance.
Every definition is translated from the Go source. Line numbers in comments are
those of the repository's files (`pool.go` alone means
`src/internal/evalqueue/pool.go`, and so on inside a module that names its
package).

## Inventory

| Part | Code (`src/internal/...`) | State it keeps | Operations | Modelled in |
|---|---|---|---|---|
| Eval job queue | `evalqueue`, `worker`, `server/jobs.go`, the retries of `cli/client` | `eval_jobs`: status, worker, claim token, lease, attempts, suite; quality rows | submit, claim, heartbeat, push a derived suite, report, fail, cancel, reap | `JobTable`, `EvalQueue`, `EvalBoard` |
| Contests | `contest` | `contests`, `contest_candidates` (report, reused from) | create, submit and attach the job, claim, report, verdict, fail | `ContestRun` |
| Publish gate decision | `gate` | none | the decision on a bundle; the decision again when a score arrives | `Gate`, `GateInputs` |
| Publish and review | `skill` | `skills` (latest, prose, metadata), `skill_versions`, approvals, outbox events | publish, claim the name, approve, reject, release, re-decide | `PublishGate`, `VersionBook` |
| Ownership rules | `ownership`, part of `gitsync/syncer.go` | rules by pattern, members, service accounts | set, replace, delete a rule; first-publish claim; connect and disconnect a repository | `Ownership` |
| Archive storage | `platform/storage.go`, the publish, import and delete handlers | archives under content-addressed names, temporary files | write, rename, delete | `BlobStore` |
| Skill merge, renaming, aliases | `skill/merge.go`, `alias.go`, `store.go` | versions, aliases, the names in sets | merge, rename, delete, edit aliases | `SkillSets` |
| Skill sets | `sets`, `webhooks/notifier.go` | sets, their entries, the resolution announced last | put, delete, recheck on every change of a skill | `SkillSets` |
| Import | `import`, `cli/import.go` | import sources, the skills and versions they make | resolve, decide, write, record, report, skill by skill | `SkillImports` |
| Webhooks | `webhooks` | endpoints with two secrets, deliveries, River jobs | enqueue, attempt, retry, rescue, redeliver, rotate, switch off | `Webhooks` |
| Submissions | `submissions` | submissions and their decision | submit, approve natively or as a pull request, reject | `GitChanges` |
| Git sync | `gitsync` | connections, bindings, refusals, pull request heads and checks, outbound changes, the GitHub App | sync, check pulls, run contests, open and follow pulls, the App's manifest flow, events | `GitSync`, `GitChanges`, `PullChecks`, `GitHubApp` |
| Suite registry | `evalsuite`, `skill/release.go` | suites by content: origin, machine made, reviewer | push derived, authored or unread; review; score | `SuiteRegistry` |
| Quality | `quality` | score rows | insert; aggregate | which suite a score is of, in `SuiteRegistry` |
| Authentication | `auth` | people and roles, service accounts, keys and their limits | sign up, change roles, disable, delete, make and revoke keys, serve a request | `Accounts` |
| Analytics, audit, run records | `analytics`, `audit`, `runs` | events, batches, run outcomes, the audit log | ingest a batch, put an outcome, purge, the panels' counts | `RunLedger` |
| Evaluation engine | `eval` | an evaluation's sessions, rows and artifact directories | run, retry, grade, resume, copy a baseline; tune; split | `EvalSessions`, `DescriptionTuning`, `BundleRevision` |
| Sandboxes | `eval/sandbox` | containers, networks, pods, policies, services | create, run, collect, remove, sweep | `Sandboxes` |
| Authoring with whetstone | `cli/whetstone` | numbered specifications, the YAML file, the bundle, the eval set | new, spec edit, approve, gen, suite gen, tune, propose, push | `SkillAuthoring` and the three above |
| Command line sync | `cli/sync.go`, `add.go`, `remove.go`, `pull.go`, `sync` | `config.json`, `state.json`, agents' directories | add, remove, sync, pull | `LocalSkills` |
| Agent hooks | `cli/hooks` | blocks and entries in agents' configuration files | install, uninstall | `AgentHooks` |
| Command line | the rest of `cli` | none | retries in `EvalQueue`; formatting and forwarding are not modelled | in part |
| Server | `server` | none | wiring; the lease reaper is an action of `EvalQueue` and `ContestRun` | in part |
| Scanner, MCP server, platform, web application | `scan`, `mcp`, `platform`, `web`, `site` | none others decide on | text matching, read views, configuration | no |

### How the parts interact

- The server handles every HTTP request in a goroutine of its own against one
  Postgres pool at READ COMMITTED. Handlers often read in one statement and
  write in another; only some of those pairs share a transaction. Whatever
  happens in between is the main source of hard behaviour here.
- A worker claims a job and gets a token; it then runs for minutes and calls
  back with the token. The client retries on timeouts and 502, 503 and 504, so
  one call can be served twice, also after the worker has moved on.
- A job without a suite derives one and pushes it under its claim. A report
  inserts a score. A verified score against a suite that a person vouched for
  makes the publish gate decide again about a version that is held for its
  scan, and can release it (`skill/release.go`), beside people who review the
  same version.
- A contest is a row that is tied to a queue job by separate statements. The
  queue closes the contest when it gives the job up. A pull request's check
  may ask for one.
- Ownership rules decide the ownership hold of a publish, who may approve, and
  who may change rules. The first publish of an unowned name claims it; a git
  connection writes a rule with its service account in it.
- A publish writes the archive, then the version row. Deleting a skill removes
  the archives, then the rows. Two bundles with one checksum share a file.
- Every transaction that releases, deletes or merges a skill rechecks the sets
  that name it, and enqueues webhook deliveries as rows and River jobs of the
  same transaction. River runs each job at least once, perhaps twice at a time.
- A git connection follows a branch: GitHub's events, a minutely tick and
  people ask for a sync; the sync reads the head, then registers, publishes and
  binds folder by folder, and follows the pull requests that approved
  submissions opened.
- Every request is resolved from a session or a key when it begins and then acts
  on the role, the limits and the rows it read.
- On a person's machine a hook starts a sync in the background of whatever else
  runs; whetstone commands are processes that share a workspace; sandbox drivers
  share a daemon, a namespace or a project.

### What is hard

Claims that outlive their lease; workers that return under the same name;
answers that are lost; leases that lapse under a request that has been
verified; two approvals, or an approval and a score, for one version; row locks
taken in different orders; an older version released after a newer one;
decisions on a listing of rules, a role or a suite's origin that has changed
since; two writers of one temporary file; attempts at one delivery that overlap
while its endpoint is rotated or switched off; a tree and its pull requests that
move while a sync walks them; sets whose skills are renamed, merged and released
under them; commands that are killed between two files; pids that are reused; a
server that stops between two of the steps above. `PROJECT.json` lists each
hazard at its line with the properties that watch it.

### What makes each part correct

- **Queue.** A job ends once, with one score exactly when it is done; it fails
  only when its attempts are spent; one claim at a time is valid; every
  submitted job ends.
- **Contests.** A contest and its job end together; a done job has a decided
  contest; an ended contest stays ended; every contest ends.
- **Gate.** More findings never help; evidence moves only the scan hold; a scan
  hold clears exactly when the score clears the floor.
- **Publish.** Clients get the newest released version with its own prose; each
  release is announced once; a served version was vetted by those entitled to;
  requests never wait for each other for ever.
- **Ownership.** Nobody without privilege comes to own a name nobody gave away;
  delegation can be undone; rules keep no member that is gone; one rule governs
  a name.
- **Archives.** A version row has its archive; an archive under its final name
  is whole.
- **Catalogue.** A merge loses no version; an exact pin keeps its bundle; a set
  serves what it announced last; an import's answer is what happened.
- **Webhooks.** A pending delivery has a job that will run; a delivered one was
  accepted; it fails only when its attempts are spent; an attempt signs with a
  secret the receiver was promised.
- **Git.** A sync leaves the bindings as the tree says; a submission is decided
  once and names the version it became; each head is checked once; the branch
  head is reached in the end; one state brings one App and the audit trail
  names it.
- **Suites.** A score counts as authored, and releases, only against a suite
  that somebody wrote or read; what a machine made stays known.
- **Accounts.** There is an enabled owner; nobody becomes one by accident;
  service accounts stay within their key's limits.
- **Ledger.** A batch counts once however often it is sent; a replaced outcome
  is in the audit log; the panels agree.
- **Commands.** A measured session keeps its evidence; hand-made files survive;
  no live sandbox is swept and none is forgotten; a bundle comes from an
  approved specification; no generated section is lost.

## Modules

| Module | What it is |
|---|---|
| `JobTable` | The `eval_jobs` row and the statements of `evalqueue/pool.go` on it: the common base of the queue and of contests. |
| `EvalQueue` | Worker processes, their HTTP client and the handlers of `evalqueue/routes.go` over `JobTable`. |
| `EvalBoard` | What the queue promises: a board of jobs that are opened, tried, and end as measured, given up or cancelled. |
| `ContestRun` | A contest from request to verdict over `JobTable`. |
| `Gate` | The decision of `gate/gate.go` as operators. |
| `GateInputs` | All inputs of the gate, and the change of one of them at a time. |
| `PublishGate` | Publish, review and score-driven release of one skill. Extends `Gate`. |
| `VersionBook` | What publishing promises: a book of numbered versions, each decided once, and a pointer that only moves forward. |
| `Ownership` | Ownership rules and the requests that write them. |
| `BlobStore` | Archives on local storage and the requests that write and remove them. |
| `SkillSets` | Skills, their aliases and the sets that follow them, through release, merge, rename and deletion. |
| `SkillImports` | Imports from repositories and folders, skill by skill. |
| `Webhooks` | Endpoints, deliveries and the River jobs that attempt them. |
| `GitHubApp` | The manifest flow of the instance's GitHub App, GitHub's events and the jobs they ask for. |
| `GitSync` | One connection's sync of folders and bindings beside people's acts. |
| `GitChanges` | Submissions, the pull requests they become, and the sync that resolves them. |
| `PullChecks` | The checks and contests of open pull requests. |
| `SuiteRegistry` | Suites by content, jobs, and the scores that may release. |
| `Accounts` | People, service accounts, keys and the requests that act for them. |
| `RunLedger` | Batches of activations, outcomes, the purge and the panels. |
| `EvalSessions` | An evaluation's sessions, rows and artifact directories, killed and resumed. |
| `LocalSkills` | `skael add`, `remove`, `sync` and `pull` on one machine. |
| `AgentHooks` | The two hooks in agents' configuration files. |
| `Sandboxes` | What Docker, Kubernetes and Northflank runs create, remove and sweep. |
| `SkillAuthoring`, `DescriptionTuning`, `BundleRevision` | whetstone's workspace; `tune`; `gen`. |
| `*Proofs` | Theorems: of `EvalQueue`, `PublishGate` (and `Gate`), `Ownership`, `BlobStore`, `ContestRun`; in `EventsProofs` of `Webhooks`, `GitHubApp`, `PullChecks`, `GitChanges` and `GitSync`, in `RegistryProofs` of `Accounts`, `SuiteRegistry`, `SkillImports` and `RunLedger`, in `CommandsProofs` of `EvalSessions`, `SkillAuthoring`, `LocalSkills`, `DescriptionTuning`, `BundleRevision` and `Sandboxes`. |
| `MCEvalQueue`, `MCContestRun`, `MCGate`, `MCPublishGate`, `MCOwnership`, `MCBlobStore` | Constants for TLC. |
| `MCEvents`, `MCGit`, `MCCommands`, `MCRegistry`, `MCCatalog` | Several components side by side, see below. |

Conventions. A handler is a record (`handler[h]`, `request[r]`, `tx[t]`) with
the step it is about to take and the values it has read and still uses; each
statement or transaction that another one can observe is an action. A
transaction is one action unless something can see or block it half-way, and
then its lock is in the model. Failures of a statement, a cancelled context and
a server restart are actions that end the handler and undo what is not
committed. Operators that follow the comment `mutant:` are faulty variants of
the definition after them; nothing uses them. Each exists to show that a
property notices the fault.

Components that share no state with each other are put side by side in one MC
module (`MCEvents`, `MCGit`, `MCCommands`, `MCRegistry`, `MCCatalog`). Its
variable `part` (`half` in `MCCatalog`) picks, in the first state, the component a behaviour is about;
the others stay as they begin. `MCGit` extends `MCEvents`: the App its connections
go through is the one whose events and jobs `MCEvents` is about. Each property is of the form
`part = "..." => ...`, so it says about its component exactly what the
component's own specification would.

### Queue: `JobTable`, `EvalQueue`

`status`, `worker`, `token`, `lease`, `attempts`, `suite` are columns of
`eval_jobs`. A claim's token is modelled by the number of the attempt it began,
which is as unique per job as the random one; 0 is a NULL hash. A lease is
`none`, `live` or `lapsed`; `LeaseLapses` lets time pass. `proc` is the loop
of `worker.RunOnce` in each process; `handler` is a request on the server from
its arrival to its answer. A sender never recalls a request: it may retry,
fail, or die and restart while the old one is still being served.

`Verify` is `VerifyClaim`, `Refuse` its refusals; the `Do` actions are the
statements after it. The report is two actions, because `OpenReport` holds the
row's lock until `CommitReport`, and other statements wait for it (`Locked`).
`Abort` rolls back. `ClaimJob` also covers an answer that never arrives.
`scores` counts verified quality rows per job and `measured` is the suite of
the last: history the database keeps in other tables. A claim takes the oldest
claimable row no open transaction has locked (`created`, `SKIP LOCKED`).

### Contests: `ContestRun`

`contest`, `attached` and `evidence` are `contests.status`, `contests.job_id`
and the candidates' `report_json` with `reused_from`. `creator` is the request
that creates the contest and has up to two statements to go. `verdict`
remembers the claim whose reports the stored verdict was decided on. A contest
submits one job, so both carry the same name. `CandidatesForClaim` is the
second statement of the claim route, `Finish` the verdict's transaction and
`CompleteJob` the statement after it, whose failure the handler only logs.
Heartbeats are left out because a lease may lapse at any moment in the model;
the derived suite's push is in `EvalQueue`. The statistics that turn reports
into a verdict are left out: `usable` says whether they yield one.

### Gate: `Gate`, `GateInputs`

Findings are records of a class and a severity. `Class` and `Holds`,
`Refused`, `Decide`, `Reclears` follow `gate.Decide` and `release.go`: which
findings refuse a bundle, which hold it, and which evidence clears a hold.
`GateInputs` has the inputs as variables, and one action that changes one of
them, so that monotonicity is an action property.

### Publish: `PublishGate`

One skill. `state`, `content`, `holds` and `decided` are the version rows and
their approvals; `latest`, `prose`, `spec` the skill row, as the number of the
version each part comes from; `events` the outbox. `exactRule` and
`prefixRule` are the members of the rules that cover the skill's name.

A publish is: `StartPublish` (scan and ownership read), `Resolve` (the gate's
decision), `CreateVersion` (one transaction: number, row, pointer, event),
`UpdateSpecFields` (a statement after the commit) and `ClaimOnFirstPublish`.
An approval is: lookup and outstanding reasons (`StartReview`), `Authorise`,
then a transaction that is split into `InsertApproval`, `CountOutstanding` and
`ReleaseVersion` or `CommitApproval`, since two of them do not see each other's
rows, and wait for each other on the unique index and on the version row. A
rejection is one transaction. `Reconsider` is the release a score triggers.

### Ownership: `Ownership`

A name is a sequence of atoms and a pattern an exact name or a prefix.
`Governs` is `Resolve`, `CanManage` is `manage.go`. Each route is a first step
that authorises on a listing and a second that writes. `granted` is history:
the names a privileged caller or a first publish ever gave away. Rules carry an
id, so that a rule made again under the same pattern is another one.

### Archives: `BlobStore`

One skill. `dest` and `tmp` map an archive's name, and the same with `.tmp`, to
a file; `content` holds the blocks a file has. `Open` truncates the temporary
file that is there (`os.Create`), `Copy` writes a block, `Rename` moves
whatever the temporary name refers to then. A file keeps its identity when it
is renamed while somebody writes to it. `happens` says which mishaps a
behaviour may meet: a failing write, a failing insert, a server that dies, a
deletion, a loss from the disk, and requests that overlap. S3 is left out: its
writes are one atomic call.

### Catalogue: `SkillSets`, `SkillImports`

`SkillSets` has `skill` (name to versions, pointer, the bundle of each version
as the number of its publish), `alias`, `set` (entries and the resolution last
recorded) and `tx`: what a transaction wrote and which sets it has yet to
recheck. `Publish`, `Release`, `Delete` and `MergeRead`/`MergeWrite` begin one;
`ListSets` and `RecheckSet` are `notifier.SkillChanged`, `Commit` and `Abort`
end it; a row it wrote is locked (`SetFree`). A merge moves the versions it
listed by their ids, from whichever skill has them by then (`Moved`, `Holders`,
`Kept`); it may find their numbers taken (`NumbersFree`). The model lets it wait
for the skill that has them, where Postgres waits for the version's row.
`EditRead` and `EditWrite` are the two halves of a set's update. `served` is
history: the bundles each pin has ever served.

`SkillImports` follows one request through its folders: `Resolve` reads the
head, then for each skill `Check`, `Decide`, `Row`, `WriteArchive`,
`InsertVersion`, `RecordSource`, `Claim`, `Report`, and `Answer`. The decision,
the row and the archive may fail (`Fail`), the version and the record of its
source too. `source` maps a row to the commit recorded for it. Meanwhile people
push, delete, adopt and write rules. `was` is history: the rows that were
git-bound when the import began. They are kept by id, since a bound skill that
is deleted leaves its name to a new row, which imports may fill.

### Events: `Webhooks`, `GitHubApp`

`endpoint` carries the current and the previous secret and whether it is on;
`delivery` the row's state; `job` River's row and what a running attempt holds
(the endpoint it loaded, the secret it signs with, the answer). `Emit` enqueues
rows and jobs in one transaction; an attempt is `Start`, `Load`, `Send`,
`Record`; `Crash` loses the process and River rescues the job, so a second
attempt may run beside the first, as after `Redeliver`. `accepted` is history:
what the receiver took.

`GitHubApp` has the manifest states (`flow`), the one row `app`, the trail
`audit`, GitHub's side (`made`, `installed`, `head`, `events`), a callback's
three steps (`Callback`, `Convert`, `Save`), the connection, and the unfinished
sync jobs by their `force` argument (River keeps one of each).

### Git: `GitSync`, `GitChanges`, `PullChecks`

`GitSync`: `tree` maps paths to declared names; `skill` has the binding and the
removal mark; `run` is the sync: `Begin` reads the head and the bindings,
`Rename` takes one binding at a time in the order of names (`rows` are those to
come, `bound` those as read or renamed), then per folder, in the order of paths,
`Folder`, `PublishFolder` and `Bind`, then `Removals` and `Record`. `Stop` and
`BindFails` end it anywhere. `disturbed` says that a person changed something
since it began.

`GitChanges`: one bound skill. `branch` is a sequence of contents, `pull` is
GitHub's side, `change` and `sub` the rows, `run` and `review` the requests
under way. Approving as a change is `ApproveAsChange`/`Propose`, `OpenPull`,
`RecordChange`, `Attach`: GitHub, `git_changes` and `submissions` in turn. A
sync is `Begin`, `Track`/`Resolved`, `Publish`, `Link`, `ApproveChange`,
`Record`. River keeps one job of each argument, so a forced sync may meet a
ticked one; in the regime "overlap" it does.

`PullChecks`: `check` and `head` are `git_pr_checks` and `git_pr_heads`,
`contest` the contests with their head, `posted` and `shown` what GitHub shows.
A sync lists the open ones and takes them in the order of the list
(`Pull`), checks and posts each head once, submits contests that the mode
or a request asks for, reports results, and drops what closed pulls left.

### Registry: `SuiteRegistry`, `Accounts`, `RunLedger`

`SuiteRegistry`: `suite` is `eval_suites` by content, `made` the order of their
rows, `job` the queue's rows as far as suites go. A push is an archive and then
a transaction (`PushAuthored` or `PushDerived`, `RecordSuite`); a review is
`ReadSuite`, for an edit `PushEdit` and `RecordSuite`, then `MarkAuthored`; a
report is `VerifyReport`, which decides what the score may clear, and
`CommitReport`, which asks for a running job and the worker's name. A job is
submitted for the newest suite or for one that the caller names (`Named`).
`vouched` and `derivedOnce` are history.

`Accounts`: `account`, `key`, `session`, `sets` are rows; `request` is resolved
(`ResolveSession`, `ResolveKey`), authorised against the key's limits, reads
the row it is about (`LookUpPerson`, `LookUpBot`) and writes. `granted` is
history: the limits a key was made with.

`RunLedger`: `event` has a number per row, `batch` the idempotency key's row,
`task` and `put` the requests under way with the transaction each holds open.
A batch is claimed (`ClaimKey`), stored event by event and committed; a second
try waits for the first's key (`Repeat`). `ReadOld` and `PutOutcome` replace an
outcome under the row's lock. The panels are operators over the events.

### Commands: `EvalSessions`, `LocalSkills`, `AgentHooks`, `Sandboxes`, `SkillAuthoring`, `DescriptionTuning`, `BundleRevision`

- `EvalSessions`: `row` is the SQLite row of a session, `dir` its artifact
  directory, `session` where the process stands with it; `spent` counts
  sessions started. `Crash` kills the process, `Resume` starts the next.
  Assumed: nobody resumes an evaluation that still runs or edits its set.
- `LocalSkills`: `config`, `record`, `disk` and `manifest` are the files, `run`
  the commands in progress, `hand` what people put there. A pull is staged, set
  aside and swapped (`PullStages`, `PullSetsAside`, `PullSwaps`). Assumed: one
  pull of a directory at a time and nobody writes there meanwhile.
- `AgentHooks`: a file is a list of lines or of entries, the user's and ours.
  Assumed: nobody else writes the file during a rewrite.
- `Sandboxes`: `things` are the resources that exist, with the process, run,
  namespace and pid they are labelled with; `made` and `todo` what a run
  created and has yet to remove; `SweepOne` takes what the labels call dead.
- `SkillAuthoring`: `specs` is the table, `file` the YAML, `bundle` and `suite`
  the files, `cmd` what each process has read and is about to write. `propose`
  also runs where no specification is stored, and writes each changed file as
  the model returned it (`WriteFiles`); somebody may place a `SKILL.md` by hand
  (`EditBundle`). Such prose is nobody's approved description, and the bundle
  says so (`desc` is `None`).
- `DescriptionTuning`: `train` and `test` are the halves of the split, `history`
  the attempts, `told` what a proposal was written from.
- `BundleRevision`: the passes of a generation, the offload of sections to
  `references/` (`files`) and the revisions after lint.

## Abstract specifications

`EvalBoard` knows nothing of claims, leases or requests: a job is absent, open,
measured, given up or cancelled, has been tried a number of times and has a
number of score rows; measuring adds one row to an open job and closes it, and
giving up needs every try spent. `EvalQueue` implements it with
`phase <- PhaseOf(status)`, `tries <- attempts`, `rows <- scores`
(`ImplementsBoard`): every worker, handler and server step is a step of the
board or invisible on it.

`VersionBook` knows nothing of reviews or owners: versions are numbered without
a gap, each is accepted as served or as waiting, a waiting one is approved or
refused once, and the pointer moves only to a version newer than every served
one. `PublishGate` implements it with `book <- state`, `served <- latest`
(`ImplementsBook`).

## Runs

`tlc -config X.cfg M` in this directory repeats each.

| Run | Module | Instance | Distinct states | Properties |
|---|---|---|---|---|
| queue | `MCEvalQueue` | 1 job, 2 processes, 2 handlers, 2 attempts, 1 suite | 93,929 | `OneScorePerDoneJob`, `ScoreNeedsTheClaim`, `ImplementsBoard`, `JobsFinish` |
| gate | `MCGate` | 5 kinds of finding, 2 scores | 10,880 | `ScanHoldClearsByScore`, `FindingsOnlyTighten` |
| publish | `MCPublishGate` | 2 versions, 2 requests, an admin and a user, 2 bundles, no rules | 78,748 | `LatestIsNewestRelease`, `ServedIsVetted`, `ImplementsBook` |
| publish_live | `MCPublishGate` (`MCPublishGateLive.cfg`) | 1 version, 2 requests, 3 bundles, rules that come and go | 47,619 | `RequestsFinish` |
| contest | `MCContestRun` | 1 contest of 2 candidates, 1 process, 2 handlers, 2 attempts | 282,854 | `FailedJobClosesContest`, `ContestsEnd` |
| ownership | `MCOwnership` | 3 nested patterns, 3 names, an admin, a user, a service account, 2 requests | 204,039 | `ResolveFindsTheGoverningRule`, `RulesStayGranted`, `DeletesWhatItSaw` |
| blob | `MCBlobStore` | 2 archives of 2 blocks, 2 requests, 3 versions, 2 creations, 3 sets of mishaps | 229,219 | `PartialIsBeingWritten`, `VersionsKeepTheirArchive` |
| events | `MCEvents` | webhooks: 1 endpoint, 1 delivery, 2 jobs, 2 attempts, 2 secrets, 1 crash; App: 1 App, 1 flow, 2 pushes, 2 faults | 169,732 | `DeliveriesAreTrue`, `AttemptsAreFair`, `WorkGetsThere` |
| git | `MCGit` | changes: 1 submission, 2 pulls, 2 reviewers, 2 syncs of which one is forced, 6 regimes; sync: 2 paths, 3 names, 2 skills; checks: 1 pull of 2 heads, 2 syncs, 8 setups; App: 2 Apps, 2 flows | 1,869,925 | `ApprovalHasItsVersion`, `DecidedOnce`, `SyncMatchesTree`, `ChecksCoverTheHead`, `TrailTellsTheApp` |
| commands | `MCCommands` | sessions: 2 evaluations of 2 sessions; skills: 2 slots, 2 directories; hooks: 3 lines; sandboxes: 2 processes, 3 drivers, 2 pid namespaces; authoring: 1 command beside an editor; tuning: 4 queries, 3 descriptions; revision: 2 sections | 1,119,763 | `MeasuredHasEvidence`, `HandMadeStays`, `SandboxesHold`, `BundleIsApproved`, `WinnerHoldsOut`, `NothingIsDropped`, `WorkIsKept` |
| registry | `MCRegistry` | accounts: 2 people, 1 service account, 1 key, 2 requests; suites: 2 contents, 1 skill, 1 job of 2 claims, 2 requests; ledger: 1 batch of 2 events, 2 outcomes, 2 names | 756,999 | `AccountsHold`, `SuitesAreVouched`, `LedgerAddsUp`, `OwnersStay`, `MachineStays` |
| catalog | `MCCatalog` | imports: 2 folders, 2 requests; sets: 2 skills, or 3 for two merges of one, 1 set, 2 transactions, 5 regimes | 859,299 | `ImportsTellTheTruth`, `SetsStayTrue`, `PinsKeepTheirBundle` |

What each shows:

- **queue.** Two processes that die and return under their `WORKER_ID`, two
  handlers, lost, retried and late requests. A report that was re-sent, or was
  overtaken by a cancel, a lapse or another claim, adds no row. The statement
  compares the worker's name and not the token, so this rests on the lock and on
  the status. Leases, the minutely reaper and the attempt bound end every job.
- **gate.** Decisions are monotone in the findings; a scan hold clears exactly
  when its measurement clears the floor.
- **publish, publish_live.** What is served is the newest vetted release with
  its own prose, through publishes, approvals, rejections and score-driven
  releases that overlap; the book is kept; requests that wait for each other's
  row locks all finish.
- **contest.** The statements that tie a contest to its job fail, repeat and
  overlap, and a job that is given up still takes its contest with it; the
  contest ends unless its job is cancelled.
- **ownership.** Whatever listing a request was authorised on, no rule goes
  beyond what was granted; the loop of `Resolve` finds the governing rule in any
  order of the listing; a deletion removes the rule its request saw or none.
- **blob.** What each set of mishaps leaves true of archives and version rows.
- **events.** A delivery called delivered was accepted, a pending one has a job,
  and it fails only with its last attempt or a switched-off endpoint, although
  jobs of one delivery overlap; after the last push a sync reaches the head
  whatever events were lost.
- **git.** Submissions and their pulls under overlapping reviews, overlapping
  syncs and a crash;
  syncs of a moving tree; checks across pushes and contests; the App's flow.
- **commands.** The programs on a person's machine, stopped at any step.
- **registry.** Owners who change, disable and delete each other at once;
  service accounts and keys that go while a request is served; suites that are
  derived, authored and reviewed around a claim; batches sent twice.
- **catalog.** Imports that overlap and fail half-way; sets whose skills are
  renamed, merged, deleted and released under them; two merges of one skill that
  overlap leave every version in one place and with one number.

### Why these bounds

- **queue.** Two attempts are the least with a first and a last one, a reclaim,
  and a lapse that the reaper must finish. Two handlers are the least for two
  requests of one job to overlap; two processes, each of which may die and
  return under its name, give a claim that passes to another name and one that
  passes to the same name with an old request still in flight. Jobs touch each
  other only in the order of claims. The safety properties are proved for every
  value.
- **gate.** There is one finding of every kind `gate.go` tells apart, and one
  score on each side of the floor, so all scans over the kinds are tried.
- **publish.** A held older version and a newer one that is served need two
  versions; a race needs two requests. Rules are left to `publish_live`, which
  has one version in exchange, and to the proofs, which need no bound.
- **contest.** The process may die and claim again under its name while both
  handlers still serve what it sent before; two candidates are the least a
  contest has, and allow one to be reused and one measured.
- **ownership.** Everything, a prefix, and the name that spells the prefix are
  the patterns the code could confuse; only the prefix may get a second rule
  (`MaxRules`), which a stale deletion needs. Lists that name an account are
  covered by the proof of `MembersExist`.
- **blob.** Two blocks make a file that is partly written; two requests share a
  temporary file; a second creation of the skill follows a deletion. Four files
  are enough for two writers of one archive; where more are needed a writer
  waits for a free one.
- **events.** Two jobs of one delivery are a redelivery beside a retry; two
  attempts are a first and a last; two secrets are one rotation. Two pushes are
  one that a sync has read past and one it has not. Two faults cover a lost
  event and a failed sync.
- **git.** In the submissions' part a behaviour meets one of: nothing unusual, a
  second approval, a detach, a crash, a change proposed without a submission, a
  forced sync beside a ticked one (`Regimes`). In the sync's part it meets two of
  a push, a person's act and the death of the process, and only a push twice. The
  pull request's setups (`Setups`) take each setting, each answer of the scan, forks, drafts, heads
  that come back, failures and overlapping syncs, not their product.
- **commands.** Each part has the least with an overlap or an interruption: two
  evaluations of one set for a baseline that is copied, two slots for a
  background sync, two processes for a sweep. Failures, cancellations and
  drivers other than Docker are met by one process alone (`Few`): two of them
  disturb each other through Docker's pids, and through northflank's sweep, which
  spares nobody and of which nothing is claimed.
- **registry.** People manage each other and their keys, or service accounts,
  not both in one behaviour (`OfPeople`, `OfBots`): the hazards of each lie
  among their own rows. Two contents are the suite a review edits and the one
  it becomes; two claims are one that is lost and one that is current.
- **catalog.** An import meets a failing statement or somebody's act. Where
  edits and merges of sets overlap, the set follows its skills and pins none;
  pins are tried in the other regimes. Two merges of one skill need three skills;
  these are registered first, nothing is held and no set is edited beside them.

`CHECK_DEADLOCK FALSE` stands where the bounds on attempts, rules, versions,
pushes, faults and the like let the system run out of work. The queue, gate and
publish runs check deadlock. Where symmetry is used, the run's properties are safety
properties and no definition chooses among the permuted values.

### Fairness

- `EvalQueue`: the reaper runs every minute (`server/jobs.go`); handlers end,
  as requests have timeouts; a run or a call ends, as sessions and calls have
  deadlines; a process between claims polls on. A lease lapses only if no
  process is inside the run whose heartbeats would renew it. Nothing says that
  an answer arrives, that a run succeeds or that a process survives.
- `ContestRun`: the same; the creating request goes on or dies; claims are
  strongly fair, as the process may be busy with the same job's last claim each
  time it could take it, but keeps polling.
- `PublishGate`: a request that has begun goes on when it can, and a transaction
  that waits for a row lock gets it in its turn (strong fairness per request):
  Postgres queues lock waiters. Nothing makes people start reviews.
- `MCEvents`: River works its jobs (weak fairness of `Work(j)`), the minutely
  tick comes and the sync jobs run. Events of GitHub need not arrive.

## Proofs

Each theorem is for every value of the constants that the module's named
assumptions allow; the sets may be of any size and the bounds any number. TLC
evaluates the assumptions on the instances above.

| Assumption | Asks |
|---|---|
| `MaxAttemptsAssumption`, `NoWorkerAssumption`, `NoSuiteAssumption`, `NoJobAssumption`, `WorkerOfAssumption` (`JobTable`, `EvalQueue`) | there is at least one attempt; the "nobody" values are no member of the sets they stand beside; every process has a worker name |
| `ContestAssumption` | a contest's "none" values are none of its values |
| `ScoresAssumption`, `FindingsAssumption`, `PublishAssumption` | the floor is a score; a finding's kind is one `gate.go` knows; users, bundles and reasons are apart |
| `OwnershipAssumption`, `BlobAssumption` | people and service accounts are distinct; an archive has at least one block |
| `BoundsAssumption`, `RowsAssumption` | an endpoint has at least one attempt and one secret; deliveries and jobs are finite sets |
| `AppAssumption`, `ChecksAssumption` (`MCGit`) | "none" is no App and no flow, and a push is possible; a pull request has a head, pull requests are listed in an order, and setups are what the handlers know |
| `ChangesAssumption`, `SyncAssumption` (`MCGit`) | "none" is no submission, no pull request, no skill's name and no path; the branch begins with a content; bounds are numbers |
| `EvalsAssumption`, `AuthoringAssumption` | ids of evaluations are numbers and one is the greatest; a session is tried at least once; bounds are numbers; `None` is apart from texts, files and bundles |
| `SkillsAssumption`, `TuningAssumption`, `RevisionAssumption` | one of the agents' directories is the shared one; names made by hand are apart from those a registry manages or lists; there are finitely many queries and at least one round; planned headings are headings; weights and bounds are numbers; `None` is no slug and no file |
| `LedgerAssumption` (`MCRegistry`) | a batch is of a consumer, its events are a sequence, and a client gives each batch a key of its own or none; "none" is no name, batch or report |
| `ImportsAssumption` (`MCCatalog`) | folders have names of their own, the repository has a first commit, and the scan has one of its three answers for each text |
| `SandboxAssumption` | 0 is no process id; runs ask for network policies that there are; drivers are docker, kubernetes and northflank |
| `NamesAssumption`, `KindsAssumption`, `AsksAssumption`, `SuitesAssumption` | people, service accounts and keys are distinct; requests ask what the handlers serve; suites, skills and their "none" values are apart |

| Module | Theorem | States |
|---|---|---|
| `EvalQueueProofs` | `QueueInvariant`, `OneScore`, `ScoresAreClaimed`, `QueueImplementsBoard` | the inductive invariant, `OneScorePerDoneJob`, `ScoreNeedsTheClaim`, `ImplementsBoard` |
| | `OneClaimant`, `FailsExhausted`, `EndsOnce` | one process at most holds the valid claim of a job; a job fails only with its last attempt; an ended job's row does not change |
| `ContestRunProofs` | `ContestInvariant`, `FailedJobsCloseContests` | the inductive invariant, `FailedJobClosesContest` |
| | `DoneJobsWereDecided`, `ContestsStayClosed` | a done job's contest has a verdict; a contest that ended stays as it ended |
| `PublishGateProofs` | `FindingsTighten`, `ScanHoldsClear` | `FindingsOnlyTighten`, `ScanHoldClearsByScore` |
| | `EvidenceIsForTheScan` | a score changes the scan's hold and no other |
| | `PublishInvariant`, `LatestIsServed`, `OnlyVettedIsServed`, `PublishImplementsBook` | the inductive invariant, `LatestIsNewestRelease`, `ServedIsVetted`, `ImplementsBook` |
| | `AnnouncedOnce` | there is one outbox event for each release |
| `OwnershipProofs` | `OwnershipInvariant`, `NothingUngranted`, `DeletionIsForThatRule` | the inductive invariant, `RulesStayGranted`, `DeletesWhatItSaw` |
| | `ResolverIsRight` | `ResolveFindsTheGoverningRule`, for any order of a listing of any length |
| | `DelegationIsReversible` | `MembersManageWhatGoverns`: a member of any rule over a name can manage the rule that governs it |
| `BlobStoreProofs` | `PartialsGetWritten`, `VersionsAreBacked` | `PartialIsBeingWritten`, `VersionsKeepTheirArchive` |
| `EventsProofs` | `WebhooksInvariant`, `DeliveriesStayTrue`, `AttemptsStayFair` | the inductive invariant, `DeliveriesAreTrue`, `AttemptsAreFair` |
| | `AppInvariant`, `TrailStaysTrue` | the inductive invariant, `TrailTellsTheApp` |
| | `ChecksInvariant`, `ChecksStayCovered` | the inductive invariant, `ChecksCoverTheHead` |
| | `ChangesInvariant`, `ApprovalsHaveVersions` | the inductive invariant, `ApprovalHasItsVersion` |
| | `SyncInvariant`, `SyncsMatchTheTree` | the inductive invariant, `SyncMatchesTree` |
| | `DecisionsAreFinal` | `DecidedOnce` |
| `RegistryProofs` | `AccountsInvariant`, `AccountsKeep`, `OwnersRemain` | the inductive invariant, `AccountsHold`, `OwnersStay` |
| | `SuitesInvariant`, `SuitesStayVouched`, `MachineNeverForgotten` | the inductive invariant, `SuitesAreVouched`, `MachineStays` |
| | `RegistryHolds` | all four properties of the registry as one specification |
| | `ImportsInvariant`, `ImportsStayTrue` | the inductive invariant, `ImportsTellTheTruth` |
| | `LedgerInvariant`, `LedgerStaysTrue` | the inductive invariant, `LedgerAddsUp` |
| `CommandsProofs` | `SessionsInvariant`, `EvidenceStays` | the inductive invariant, `MeasuredHasEvidence` |
| | `MeasuredStays` | the sessions' part of `WorkIsKept`: a measured session's row does not change |
| | `AuthoringInvariant`, `BundleStaysApproved` | the inductive invariant, `BundleIsApproved` |
| | `VersionsBuildOnTheLatest` | the authoring part of `WorkIsKept`: a stored specification keeps what the one before had from its author or from tuning |
| | `TuningInvariant`, `WinnerStaysBest` | the inductive invariant, `WinnerHoldsOut` |
| | `SkillsInvariant`, `HandMadeSurvives` | the inductive invariant, `HandMadeStays` |
| | `RevisionInvariant`, `NothingGetsDropped` | the inductive invariant, `NothingIsDropped` |
| | `FailedPassesStayOut` | the revisions' part of `WorkIsKept`: no step of a revision with a failed pass writes a file |
| | `SandboxesInvariant`, `SandboxesStay` | the inductive invariant, `SandboxesHold` |

### The inductive invariants and why they are needed

- `EvalQueue`, `IInv`. `OneScorePerDoneJob` says nothing about a report whose
  row is inserted but not committed. `RequestOK` adds that an open report holds
  a running row under its own token, and that only one does; then no statement
  that ends the job can come between. `RowOK` ties the three claim columns
  together: a job is running exactly when it has a claim, and the claim's token
  is the number of the attempt. `ProcOK` says that no process holds a token
  that was not given out. `SoleClaimant` and `FailedMeansExhausted` follow from
  `RowOK`, `ScoreNeedsTheClaim` and `FinalStatus` from a step of the invariant.
- `ContestRun`, `IInv`. A contest and its job are two rows, written by separate
  statements of requests that may die between them. `CreationInOrder` says how
  far the creating request's step and the two rows can be apart;
  `RunningIsClaimed`, `WorkersInOrder` and `HandlersInOrder` that whoever still
  works on a job holds a claim that was given, and that a handler past the
  contest's statement found the job as the next one needs it. Only then is
  `FailedJobClosesContest` kept by the statements that fail a job, and
  `DoneJobWasDecided` by those that complete it.
- `PublishGate`, `IInv`. `ServedIsVetted` is about the committed state, while a
  review is spread over several statements of one transaction. `RequestOK`
  says what a request in flight has found: the version it inserted is nobody
  else's, and one that is about to release has seen every reason approved, by
  a committed row or its own. `NumberedWithoutGap` is what makes the pointer's
  comparison by number mean "newest".
- `Gate`. Its properties speak of one decision and the next. They follow from
  lemmas on `Decide`: which inputs each reason reads, and in which direction.
- `Ownership`, `IInv`. A request writes on the listing it was authorised on,
  which may be gone. `RequestOK` says that one without privilege names only
  what was granted at that time, and grants are never withdrawn, so
  `OnlyGrantedNamesAreOwned` survives the write. The ids of rules agree with
  the count of rules created, which is why a deletion removes the rule its
  request saw or nothing (`DeletesWhatItSaw`). Beside it only finitely many
  rules are ever present (`FewRules`), so a listing ends; `Kept` says what the
  loop of `Resolve` holds after each rule it passed, and a listing that passed
  all of them leaves the one rule that governs.
- `BlobStore`, `SettledInv` and `KeptInv`. Where no write fails and the server
  lives (`Writes`), `SettledInv` says of the temporary files too that one which
  is not whole has a request that will write what it lacks: with it a rename
  that is seen to publish a partial file has another request behind it that is
  still writing. `KeptInv` says that a request between its rename and its
  insert still has its archive, as long as nothing that `Keeps` excludes
  happened.
- `Webhooks`, `IInv`. An attempt reads the delivery and the endpoint, calls out,
  and writes the result later, beside other attempts at the same delivery.
  `JobsInOrder` says what a job in flight has read; `PromisedIsPrevious` that a
  secret read before a rotation is the one the endpoint still promises;
  `PendingHasAJob` and `DeliveredWasAccepted` then survive a result that is
  written over another one. `DeliveriesHaveEndpoints` is the foreign key.
- `GitHubApp`, `AppInv`. A callback takes its state, asks GitHub for the App and
  saves it in three steps that may fail or repeat. `AskedIsSpent` says that
  an App whose code came back belongs to a state that is used up, so no state
  brings a second one.
- `PullChecks`, `ChecksInv`. A sync acts on the list of pull requests it read at
  its start, and makes a contest, queues it and names it on the head's row in
  three statements. `SyncOK` says what a sync under way holds: its contest is of
  the head it is at, and who asked is on record, whatever other syncs did
  meanwhile. Where none overlaps or fails (`QuietOK`) every contest is named by
  its head's row or held by the one sync, so a head without a contest in its row
  has none. Where also no head comes back (`CalmOK`), nothing that is checked is
  newer than what was listed; only then does a sync that drops what it did not
  list keep the head people see.
- `GitChanges`, `ChangesInv`. A review opens a pull request on GitHub, records the
  change and attaches the submission in statements of their own; a sync reads the
  changes, publishes and links later. `ReviewOK` and `RunOK` say what a review and
  a sync under way hold, `ReviewsApart` that no two reviews hold one pull or
  publish one submission, `PublishedFor` that a version of a submission is its
  approval's or will be. `Linked` says that a change whose submission was approved
  is merged and has a version; a second sync may give it another one, so the
  submission keeps the first. Where no syncs meet (`OneSync`: the regime has no
  "overlap"), `LinksOK` says that what a sync has yet to link is still as it read
  it, and so the version is the submission's (`Exact`), and `HeadOK` that the
  connection is in step. The property says both halves; the theorem asks nothing
  of the regime.
- `GitSync`, `SyncInv`. A sync acts on the tree and the bindings it read at its
  start, over many statements. While nobody disturbs it (`Undisturbed`) each
  binding it holds is a row bound under that name (`BindingsHold`), and each
  folder it is done with is ignored, refused or that of its row; then the mark of
  removal is right (`GoneAreRemoved`). `Versionless` holds whatever happens: a row
  without a version is that of the folder under way or was left by a stop.
- `Accounts`, `IInv`. A request acts on the role and the limits it read when it
  began. `RequestOK` says what that reading still guarantees: the caller was
  recorded (`CallerOK`), its act lies within what its key granted (`Within`),
  and the target it checked was of the kind it was taken for (`TargetOK`).
  No route makes an owner or takes the role from one, since each looks at the role
  of whom it acts on first (`TargetOK`); with `OwnersAreEnabled` the first owner
  is then always there (`SomeoneOwns`).
- `SuiteRegistry`, `SuitesInv`. A report decides on a suite's origin that it
  read some statements earlier. It stays right because archives, rows and jobs
  are never taken away and what is vouched for never shrinks:
  `SuiteRequestOK` says so for each step of each request. `DerivedIsThere`,
  `SuitesAreStored` and `RaisedHasReviewer` are the parts of the row that
  `AuthoredIsVouched` and `ReleasesAreVouched` rest on.
- `SkillImports`, `ImportsInv`. An import takes a skill's row, writes the archive
  and adds the version in separate statements, while others delete, adopt and
  import the same names. `AskOK` says what a request knows by itself: the text
  it brings in passed the scan, and what it has yet to do is apart from what has
  failed. `FoundOK` says what stays so of the rows it has found: an id once given
  is never given again (`RowsApart`), so the row it is about to fill was not
  git-bound when it began, and what it reported is stored until that very row is
  deleted. `AddedOK` says that each version it added is of the skill at hand or
  of one it reported. Three facts carry every step of another request: ids only
  grow, versions go only with their row, a binding only with its skill
  (`Evolves`). A statement that fails leaves what the ones before it wrote, and
  reports the skill as failed.
- `RunLedger`, `LedgerInv`. A batch's transaction inserts its key, then its events
  one by one, and commits them together, while the same batch is sent again.
  `SendOK` says that an open transaction holds its key, which nobody has
  committed, and that its rows are the first events of its batch; `KeysApart`
  that no two hold one key; `KeysStored` and `EventsKeyed` that a committed key
  stands for all its events and an event for its key. Then a commit adds a
  batch's events where there were none. `PutOK` says that an outcome's
  transaction holds its run's row from the read of the old value to the write,
  so what it puts into the audit log is what it replaces. The panels agree
  because an alias leads to a skill that is there (`AliasesLead`).
- `EvalSessions`, `SessionsInv`. A later evaluation copies rows that name an
  earlier one's artifacts, while sessions of both replace directories when they
  are tried again. `OwnerHasIt` says that the evaluation a row names has the
  same row itself; so a session that is still to run is in no row, and its
  directory may be emptied. `SessionOK` and `EvalOK` say where a session in
  flight and the plan of a resumed evaluation stand against the rows.
- `SkillAuthoring`, `AuthoringInv`. A command reads files and the latest version
  in one step and writes in later ones, and may be killed between them. `CmdOK`
  says what a command in flight holds, whatever runs beside it: above all that a
  description it is about to put into `SKILL.md` is of an approved version. `CleanOK` says
  more while commands ran one after another and none was killed: the one under
  way is alone (`Alone`), and what it read is still so (`LatestOK`, `FileOK`);
  then `DeclaredOK` holds of the eval set in each step (`SetsAreDeclared`).
- `LocalSkills`, `SkillsInv`. A pull copies what people made in the shared
  directory into a staging tree and swaps the two by two renames, beside syncs
  and adds of other processes. `PullOK` says that what is staged, and later what
  is set aside, holds what people put there. It rests on what the module assumes:
  pulls of a directory do not overlap (`OnePull`), and nobody puts anything there
  by hand between the copy and the renames. `TreeIsManifest` says what the tree
  has of the names that only pulls write.
- `DescriptionTuning`, `TuningInv`. Attempts are measured on the same two halves
  (`Comparable`), and only then is "better" an order. `Winner` is a recursive
  function over the attempts, as the loop in the code is; `Recursion` shows that
  such a function exists, and `WinnerIsBest`, by induction on the attempts, that
  what it returns is behind none of them.
- `BundleRevision`, `RevisionInv`. A revision plans, writes and moves sections in
  several passes, each of which may fail. `Whole` says that each drafted section
  is in the body or in the file its link names, `HasPlanned` that the planned
  references are still among the files, and `Early` from which step on something
  may have moved. A moved section takes the first slug that is free: after k
  moves no slug has a number above k + 1, so one is found, and no file is
  written over (`Offloaded`).
- `Sandboxes`, `SandboxesInv`. A process that starts lists everything with the
  label and decides by age and pid. `ThingsOK` says that what a live run made
  carries its process's pid, so a sweep that looks at pids spares it; an earlier
  life's things may carry the same pid, and are then kept for longer, never lost.
  `ListsOK` says that what a run has created is the beginning of what it needs,
  and `HasThings` that it is there until the run removes it, the session first:
  so a session that exists is confined. `HasThings` speaks of processes that
  those who sweep can see (`Seen`): a pid is seen in its own namespace only, and
  northflank's sweep asks for none. Whom nobody sees may lose a live sandbox
  (`LivePidsAreSpared` below); what else `SandboxesHold` says, that things are
  known to somebody and that a run which exited has its workspace back, holds for
  those too.

TLC checked each of these invariants on its run's instance before it was proved.
`QueueImplementsBoard` and `PublishImplementsBook` map initial states to initial
states, and each step to a step of the abstract specification or a stutter,
under the invariant; they cover the safety part of the abstract specifications.

### What is only model-checked

- `JobsFinish`, `ContestsEnd`, `RequestsFinish` and `WorkGetsThere`: liveness
  under fairness, and `ENABLED`, are beyond the prover.
- Of `WorkIsKept` the part about hooks, which is about folds over the lines of a
  file. `WorkIsKept` as one property of all commands is therefore checked; its
  parts about sessions, authoring and revisions are proved as the three theorems
  above.
- Of the catalogue: `SetsStayTrue`, `PinsKeepTheirBundle`. No step is known to be
  out of the prover's reach; they are next.

## Where the code and its words disagree

Met while modelling. No run checks them; where a definition is named, adding it
to its component's configuration shows the behaviour.

**Queue, contests, publish, ownership, archives**

- `HeldHasOutstanding`. `ApproveReason` "releases the version if that was the
  last one outstanding" (`approvals.go:28`). Two approvals of two reasons at
  once each count without the other's uncommitted row; neither releases, and the
  version stays held with nothing left to approve.
- `VerdictHasEvidence`. "A verdict without its evidence is the state this whole
  design exists to avoid" (`contest/store.go:74`). A claim that follows `Finish`
  when the job's completion failed clears the reused candidates' reports.
- `GivenUpJobClosesContest`. Cancelling a job does not close its contest
  (`pool.go:126`); giving it up does (`pool.go:408`).
- `DoneSuiteIsMeasured`. A heartbeat or a derived suite's push between a
  report's verification and its commit moves `suite` after the worker measured
  another one (`pool.go:285`, `:312`).
- `SpecIsServed`. The listing's specification is taken from the version just
  published also when that is held (`publisher.go:329`), beside a comment that
  the rest of the prose waits (`:322`).
- `CoveringRuleWins`. The publish asks whether anybody owns the name, then
  claims it; a rule created in between that covers it loses to the exact rule of
  the claim (`publisher.go:367`), as the longest match wins (`resolver.go:61`).
- `ConnectionKeepsOwners`. "A new rule keeps whoever owned the prefix through an
  enclosing rule" (`gitsync/syncer.go:403`). The prefix is resolved as if it were
  a name, so an exact rule of that name wins over the enclosing one.
- `PutReplacesExisting`. A request that found no rule of the pattern and the one
  that created it both answer that they created a rule
  (`ownership/routes.go:174`, `:221`).
- `NoPartialVisible`. The write is atomic, "ensuring no partial files are
  visible" (`storage.go:58`). Writers of one name share a temporary file; the
  first rename publishes what the second has written so far.
- `RepublishHeals`. "Republishing the same skill content heals the store"
  (`backup-restore.md:110`). A republish of the latest content is answered before
  the archive is written. A failed insert removes the archive it wrote
  (`publisher.go:318`), which a concurrent publish of the same bundle may have
  committed a version on.

**Catalogue and events**

- `AliasSetsRechecked`. Deleting or merging a skill takes its aliases with it
  before the sets that name one are looked for (`skill/store.go:148`,
  `webhooks/notifier.go:145`), so those sets are not rechecked. Edits of aliases,
  renames and names registered again recheck nothing either.
- Two merges of one skill into two others that overlap: the second moves the
  versions it listed by their ids, without asking whose they are by then
  (`merge.go:84`), and takes them from the first one's target. That skill's next
  publish gives their numbers again, and a pin or a saved resolution comes to
  mean another bundle. `SavedStaysTrue` and `PinKeepsBundleStep` have to except
  it ("twice"); without the exception TLC shows it. A version published while its
  skill is being merged is lost with the skill (`Late`).
- A merge beside the deletion of its source can leave `latest` on a version that
  is missing or held (`merge.go:86`). A set's edit beside a release misses the
  change (`sets/store.go:395`).
- An import from the command line exits 0 although a skill failed
  (`cli/import.go:176` beside `cli.md:28`; `FailuresExit`). An ownership rule
  written between the import's decision and its claim is replaced
  (`import/routes.go:484`).
- A test delivery to a disabled endpoint is answered 202 and sends nothing.

**Git**

- A submission whose decision met a crash stays pending (`submissions/store.go:42`);
  a change recorded after the sync that read its merge is linked with the next
  push (`SubmissionFollowsItsPull`); a second approval opens another pull request.
- Two bindings on one path: an adoption lets the removed skill take the folder's
  new name (`reconcile.go:132`). A detachment during a sync is undone. A crash
  between registering and binding leaves a skill that later syncs refuse as taken.
- Deleting the rows of closed pulls meets a restricting foreign key
  (`pulls.go:528`, migration 031), and every later sync fails. A result is marked
  as reported before GitHub has it, so an error of GitHub loses it
  (`ResultsAreShown`). Overlapping syncs can drop a new head.
- Reconnecting another App keeps the old `installation_id` (`syncer.go:420`). A
  manifest's state is used up before the conversion, which can leave an App that
  nobody knows. A forced and an unforced job at once can republish the older head, and
  link a merged change to a second version, while its submission keeps the first.

**Registry**

- Two first sign-ups both count nobody and both become owner (`routes.go:279`:
  "an instance has exactly one owner"). A request goes on with the role it read.
- A report's mark of a derived suite, or a push of it unread, takes a review back
  (`registry.go:290`). Equal content of two skills is one row. A lost claim's push
  overwrites a done job's `suite_ref` (`pool.go:312`).
- After a merge one run counts twice in the rates (`runs/store.go:243` beside
  `:212`; `RatesNeedRuns`), and activations of unregistered skills are also in the
  total (`UnregisteredStayApart`).

**Commands**

- A copied baseline is taken out of the plan and never scored
  (`cli/whetstone/eval.go:495`, `eval/store/eval.go:307`;
  `CopiedBaselineIsScored`). A retried session is graded with the files of its
  timed-out attempt (`eval.go:877`).
- `propose --apply` approves the description it stores, then writes the model's
  files over the bundle, `SKILL.md` with its frontmatter among them
  (`propose.go:211`), so the description on disk need not be the approved one;
  without a stored specification nothing is approved at all (`:191`).
- `InstalledIsThere`. `skael add` records a version also when no directory took
  it (`add.go:116` beside `cli.md:45`). A background sync and an `add` lose each
  other's update. A crash between the two renames of a pull leaves a person's
  files in the backup.
- `LivePidsAreSpared`. Two workers in containers of their own share a daemon and
  not a pid namespace: one sweeps the other's live sandbox (`docker/sweep.go:22`).
  Northflank's sweep takes whatever it lists, live ones included
  (`northflank/run.go:161`).
  A lost answer to a create leaves what it made.
- A block whose end marker is missing takes the rest of the file with it when it
  is replaced (`cli/hooks/install.go`).
- `MachineSetsAreDeclared`. A stop between writing an eval set and recording it
  makes a machine's set look authored (`suite.go:86` beside `:91`).
  `FileIsTheSpec`. A stop between the row and the file leaves an older YAML file,
  which the next edit stores again, without the tuned description
  (`spec.go:88`).
- `TrainRemains`. One positive and one negative query are both held out
  (`split.go:10`). `OffloadShrinks`. Moving a short section out can lengthen the
  body, as its link is longer (`revise.go:49`).

## Not modelled

- *What models and containers compute*: `EvalQueue` leaves open how and when a
  run ends, `EvalSessions` what it finds. The statistics are real-valued.
- *Scanner, bundle parsing, templates*: text matching; the scan's report is an
  input of `Gate`.
- *Platform, MCP server, web application, site*: configuration, read views and
  wiring; nothing that another part decides on.
- *Most of the command line*: formatting and forwarding. Its retries are in
  `EvalQueue`.
- *S3*: one atomic call per write.
- *Bounds* stand in the constants named `Max...`; what they exclude is only what
  would repeat.

## Plan

Theorems, in order:

1. Sets (`SetsStayTrue`, `PinsKeepTheirBundle`).
2. The folds over the hooks' files, which `WorkIsKept` rests on.
