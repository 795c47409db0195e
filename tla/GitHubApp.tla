----------------------------- MODULE GitHubApp -----------------------------
(***************************************************************************)
(* The instance's GitHub App (src/internal/gitsync/app.go, routes.go), the  *)
(* events GitHub sends it (webhook.go), and the jobs that keep a connection *)
(* at its branch head (jobs.go, syncer.go, reconcile.go).  GitHub creates   *)
(* the App from a manifest and gives its credentials for a code, once; the  *)
(* instance keeps one App, and an admin may forget it and start again.      *)
(*                                                                          *)
(* What a sync does to the skills is GitSync's; here it is the head it      *)
(* read and what it records of it.                                          *)
(***************************************************************************)
EXTENDS Naturals, FiniteSets, Sequences, SequencesExt

CONSTANTS
  Apps,       \* the Apps GitHub may create
  Flows,      \* manifest states the instance may issue
  Events,     \* what happens on GitHub: of "push", "other", "pull", "button"
  MaxPush, MaxFaults, MaxAudit  \* bounds: commits, faults, audit records

None == "none"

VARIABLES
  flow,     \* github_app_manifests: a state's row, "fresh" for an hour
  made,     \* GitHub: the flow an App was created from
  installed, \* GitHub: Apps installed on the repository
  head,     \* GitHub: the branch's newest commit
  events,   \* GitHub: events to deliver, with the App whose secret signs them
  asked,    \* a callback in progress: the App whose code it brought, and its step
  app,      \* github_app, the one row
  audit,    \* the records of github_app.create and delete
  conn,     \* the connection's row
  job,      \* unfinished git_sync jobs, by their force argument
  faults

vars == <<flow, made, installed, head, events, asked, app, audit, conn,
          job, faults>>
OnGitHub == <<made, installed, head>>

\* A connection that was deleted is "gone"; another one is another row, with
\* jobs of its own.
NoConn == [at |-> None, inst |-> None, synced |-> 0, hooked |-> FALSE]
NoJob  == [at |-> None, tries |-> 0, app |-> None, head |-> 0, seen |-> [at |-> None, synced |-> 0]]

\* A random state, or the number of a new App, is one not used before.
NewIn(S, used) == IF S = used THEN None ELSE CHOOSE x \in S \ used : TRUE

Connected == conn.at \notin {None, "gone"}

Init ==
  /\ flow = [f \in Flows |-> "unused"] /\ made = [a \in Apps |-> None]
  /\ installed = {} /\ head = 1 /\ events = {}
  /\ asked = [a \in Apps |-> None]
  /\ app = None /\ audit = <<>>
  /\ conn = NoConn /\ job = [f \in BOOLEAN |-> NoJob] /\ faults = 0

(***************************************************************************)
(* Setting the App up.                                                      *)
(***************************************************************************)

\* create-github-app-manifest: refused while the instance has an App.
StartManifest(f) ==
  /\ app = None /\ f = NewIn(Flows, {g \in Flows : flow[g] # "unused"})
  /\ flow' = [flow EXCEPT ![f] = "fresh"]
  /\ UNCHANGED <<OnGitHub, events, asked, app, audit, conn, job, faults>>

\* manifestTTL passes over a row.
Expire(f) ==
  /\ flow[f] = "fresh" /\ flow' = [flow EXCEPT ![f] = "stale"]
  /\ UNCHANGED <<OnGitHub, events, asked, app, audit, conn, job, faults>>

\* GitHub: the admin confirms the manifest page, which may be open twice.
Confirm(a, f) ==
  /\ a = NewIn(Apps, {b \in Apps : made[b] # None}) /\ flow[f] # "unused"
  /\ made' = [made EXCEPT ![a] = f]
  /\ UNCHANGED <<flow, installed, head, events, asked, app, audit, conn, job, faults>>

\* GitHub: an org owner installs an App whose page it has.
Install(a) ==
  /\ made[a] # None /\ a \notin installed /\ installed' = installed \cup {a}
  /\ UNCHANGED <<flow, made, head, events, asked, app, audit, conn, job, faults>>

\* consumeManifest: the row of a live state is deleted and returned.
Spent(f) == [flow EXCEPT ![f] = "spent"]

\* complete-github-app: the state GitHub returned is consumed, whatever the
\* conversion then says.
Callback(a) ==
  /\ made[a] # None /\ asked[a] = None /\ flow[made[a]] = "fresh"
  /\ flow' = Spent(made[a])
  /\ asked' = [asked EXCEPT ![a] = "consumed"]
  /\ UNCHANGED <<OnGitHub, events, app, audit, conn, job, faults>>

\* GitHub gives the credentials for a code once; it may also not answer.
Convert(a) ==
  /\ asked[a] = "consumed"
  /\ \/ /\ asked' = [asked EXCEPT ![a] = "converted"]
        /\ UNCHANGED faults
     \/ /\ faults < MaxFaults /\ faults' = faults + 1
        /\ asked' = [asked EXCEPT ![a] = "answered"]
  /\ UNCHANGED <<flow, OnGitHub, events, app, audit, conn, job>>

(* mutant: the newest App wins the row *)
StoredLast(a) == a

\* save's INSERT ... ON CONFLICT (id) DO NOTHING.
Stored(a) == IF app = None THEN a ELSE app

\* save: the row and its audit record commit together; a row already there
\* answers ErrAppExists, and the App stays behind on GitHub.
Save(a) ==
  /\ asked[a] = "converted" /\ Len(audit) < MaxAudit
  /\ app' = Stored(a)
  /\ audit' = IF app' # app THEN Append(audit, [what |-> "create", app |-> a]) ELSE audit
  /\ asked' = [asked EXCEPT ![a] = "answered"]
  /\ UNCHANGED <<flow, OnGitHub, events, conn, job, faults>>

\* Delete's audit record, in the transaction that deletes the row.
Forgotten == Append(audit, [what |-> "delete", app |-> app])

\* delete-github-app.  The connections keep the installation they were made
\* with.
Disconnect ==
  /\ app # None /\ Len(audit) < MaxAudit
  /\ app' = None /\ audit' = Forgotten
  /\ UNCHANGED <<flow, OnGitHub, events, asked, conn, job, faults>>

(***************************************************************************)
(* Jobs: one unfinished job for each value of the arguments.                *)
(***************************************************************************)

\* JobInserter.Insert with SyncArgs.InsertOpts.
Inserted(force) ==
  IF job[force].at = None THEN [job EXCEPT ![force] = [NoJob EXCEPT !.at = "available"]] ELSE job

\* SyncAllWorker, every minute.
Tick ==
  /\ Connected /\ job' = Inserted(FALSE)
  /\ UNCHANGED <<flow, OnGitHub, events, asked, app, audit, conn, faults>>

\* sync-git-connection and adopt-git-skill force a sync.
AskSync ==
  /\ Connected /\ job' = Inserted(TRUE)
  /\ UNCHANGED <<flow, OnGitHub, events, asked, app, audit, conn, faults>>

\* request-git-pull-contest only brings a sync forward.
AskContest ==
  /\ Connected /\ job' = Inserted(FALSE)
  /\ UNCHANGED <<flow, OnGitHub, events, asked, app, audit, conn, faults>>

\* create-git-connection: the installation that reaches the repository, from
\* the App's client.  Failing to enqueue is only logged.
Connect ==
  /\ conn.at = None /\ app \in installed
  /\ conn' = [NoConn EXCEPT !.at = "pending", !.inst = app]
  /\ job' \in {Inserted(TRUE), job}
  /\ UNCHANGED <<flow, OnGitHub, events, asked, app, audit, faults>>

\* delete-git-connection.
RemoveConnection ==
  /\ Connected /\ conn' = [conn EXCEPT !.at = "gone"]
  /\ UNCHANGED <<flow, OnGitHub, events, asked, app, audit, job, faults>>

(***************************************************************************)
(* Events.  GitHub: a push or another event is sent, signed, to every       *)
(* installed App's endpoint, which is this instance's.                      *)
(***************************************************************************)

Happen(e) ==
  /\ e = "push" => head < MaxPush
  /\ head' = IF e = "push" THEN head + 1 ELSE head
  /\ events' = events \cup {[what |-> e, from |-> a] : a \in installed}
  /\ UNCHANGED <<flow, made, installed, asked, app, audit, conn, job, faults>>

\* verifySignature, with the stored App's secret.
Signed(d) == app # None /\ d.from = app

\* WebhookHandler.  A push to another branch only shows that events arrive; a
\* button's head may be one Skael does not keep.  GitHub may deliver again.
Deliver(d) ==
  /\ d \in events
  /\ \/ /\ ~Signed(d) \/ ~Connected \/ d.what = "button"
        /\ UNCHANGED <<conn, job>>
     \/ /\ Signed(d) /\ Connected
        /\ conn' = [conn EXCEPT !.hooked = TRUE]
        /\ job' = IF d.what = "other" THEN job ELSE Inserted(FALSE)
  /\ events' \in {events, events \ {d}}
  /\ UNCHANGED <<flow, OnGitHub, asked, app, audit, faults>>

\* GitHub gives an event up, or could not reach the instance.
Lose(d) ==
  /\ d \in events /\ events' = events \ {d}
  /\ UNCHANGED <<flow, OnGitHub, asked, app, audit, conn, job, faults>>

(***************************************************************************)
(* A sync.                                                                  *)
(***************************************************************************)

Finish(force) == job' = [job EXCEPT ![force] = NoJob]

MaxTries == 2  \* stands for SyncArgs' MaxAttempts of 5

\* River tries a failed job again until its attempts are spent.
Retry(force) ==
  job' = [job EXCEPT ![force] =
            IF job[force].tries + 1 >= MaxTries THEN NoJob
            ELSE [NoJob EXCEPT !.at = "available", !.tries = job[force].tries + 1]]

\* recordError, on the row if it is still there.
Errored == conn' = IF Connected THEN [conn EXCEPT !.at = "error"] ELSE conn

\* Reconcile reads the connection and takes the App's client, rebuilt when
\* the stored App is another.
Begin(force) ==
  /\ job[force].at = "available"
  /\ IF ~Connected THEN Finish(force) /\ UNCHANGED conn
     ELSE IF app = None THEN Finish(force) /\ Errored
     ELSE /\ job' = [job EXCEPT ![force].at = "running", ![force].app = app,
                                 ![force].seen = [at |-> conn.at, synced |-> conn.synced]]
          /\ UNCHANGED conn
  /\ UNCHANGED <<flow, OnGitHub, events, asked, app, audit, faults>>

\* GitHub answers an App about its own installations only.
Reaches(j) == j.app = conn.inst /\ j.app \in installed

\* BranchHead.  An unreachable repository is the connection's error, an
\* answer that never came the job's.
ReadHead(force) ==
  /\ job[force].at = "running"
  /\ \/ /\ ~Reaches(job[force])
        /\ Errored /\ Finish(force) /\ UNCHANGED faults
     \/ /\ Reaches(job[force])
        /\ job' = [job EXCEPT ![force].at = "read", ![force].head = head]
        /\ UNCHANGED <<conn, faults>>
     \/ /\ faults < MaxFaults /\ faults' = faults + 1
        /\ Retry(force) /\ UNCHANGED conn
  /\ UNCHANGED <<flow, OnGitHub, events, asked, app, audit>>

(* mutant: an error at the synced head is left *)
UpToDateByHead(j, force) == j.head = j.seen.synced /\ ~force

\* Reconcile's early return, on the row it read before.
UpToDate(j, force) == j.head = j.seen.synced /\ j.seen.at = "ok" /\ ~force

\* The rest of Reconcile: nothing to do, or the sync and its record, or an
\* archive that needs a person, or a failure River retries.
Record(force) ==
  /\ job[force].at = "read"
  /\ \/ /\ UpToDate(job[force], force)
        /\ Finish(force) /\ UNCHANGED <<conn, faults>>
     \/ /\ ~UpToDate(job[force], force)
        /\ conn' = IF Connected THEN [conn EXCEPT !.at = "ok", !.synced = job[force].head] ELSE conn
        /\ Finish(force) /\ UNCHANGED faults
     \/ /\ ~UpToDate(job[force], force) /\ faults < MaxFaults /\ faults' = faults + 1
        /\ \/ Errored /\ Finish(force)
           \/ Retry(force) /\ UNCHANGED conn
  /\ UNCHANGED <<flow, OnGitHub, events, asked, app, audit>>

\* The server stops: callbacks and running syncs end where they are, and
\* River runs the jobs again.
Crash ==
  /\ faults < MaxFaults /\ faults' = faults + 1
  /\ asked' = [a \in Apps |-> IF asked[a] = None THEN None ELSE "answered"]
  /\ job' = [f \in BOOLEAN |-> IF job[f].at \in {"running", "read"}
                               THEN [NoJob EXCEPT !.at = "available", !.tries = job[f].tries]
                               ELSE job[f]]
  /\ UNCHANGED <<flow, OnGitHub, events, app, audit, conn>>

SetUp ==
  \/ \E f \in Flows : StartManifest(f) \/ Expire(f)
  \/ \E a \in Apps : \/ Install(a) \/ Callback(a) \/ Convert(a) \/ Save(a)
                     \/ \E f \in Flows : Confirm(a, f)
  \/ Disconnect \/ Connect \/ RemoveConnection
Arrive == \/ \E e \in Events : Happen(e)
          \/ \E d \in events : Deliver(d) \/ Lose(d)
Sync(force) == Begin(force) \/ ReadHead(force) \/ Record(force)
Next == SetUp \/ Arrive \/ Tick \/ AskSync \/ AskContest \/ Crash \/ \E f \in BOOLEAN : Sync(f)

\* River's clock ticks, and its workers run what waits.
Spec == /\ Init /\ [][Next]_vars
        /\ WF_vars(Tick) /\ \A f \in BOOLEAN : WF_vars(Sync(f))
----------------------------------------------------------------------------
\* Every variable holds a value of its type.
TypeOK ==
  /\ flow \in [Flows -> {"unused", "fresh", "stale", "spent"}]
  /\ made \in [Apps -> Flows \cup {None}] /\ installed \subseteq Apps
  /\ asked \in [Apps -> {None, "consumed", "converted", "answered"}]
  /\ app \in Apps \cup {None}
  /\ conn.at \in {None, "gone", "pending", "ok", "error"} /\ conn.synced \in 0..MaxPush
  /\ \A f \in BOOLEAN : job[f].at \in {None, "available", "running", "read"}

\* A manifest state serves one App at most: of the Apps a page opened twice
\* created, the instance asks for the credentials of one.
StatesServeOnce ==
  \A a, b \in Apps : (a # b /\ made[a] = made[b]) => (asked[a] = None \/ asked[b] = None)

\* The audit trail tells which App the instance has and had: it alternates
\* between one App's creation and its deletion, and ends with the stored one.
TrailTellsTheApp ==
  /\ app = (IF audit = <<>> \/ Last(audit).what = "delete" THEN None ELSE Last(audit).app)
  /\ \A i \in 2..Len(audit) :
       IF audit[i].what = "delete" THEN audit[i - 1] = [what |-> "create", app |-> audit[i].app]
       ELSE audit[i - 1].what = "delete"

\* Whatever webhooks were lost, jobs failed or spent their attempts, a branch
\* that stops moving, reachable by the App that made the connection, is
\* synced to its head.
Settled == Connected /\ app = conn.inst /\ app \in installed
ReachesTheHead ==
  []((<>[](Settled /\ head = MaxPush)) => <>(conn.at = "ok" /\ conn.synced = MaxPush))
============================================================================
