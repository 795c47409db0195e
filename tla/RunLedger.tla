----------------------------- MODULE RunLedger -----------------------------
(***************************************************************************)
(* What automated runs report (src/internal/runs) and what hooks report      *)
(* (src/internal/analytics): batches of activations that a client may send   *)
(* again while the first try still runs, outcomes that replace each other,   *)
(* the daily purge of events, and the panels that read them while skills     *)
(* are registered, merged and deleted.                                       *)
(***************************************************************************)
EXTENDS Naturals, Sequences, FiniteSets, FiniteSetsExt, Functions, TLC

CONSTANTS
  Names,             \* skill names
  Consumers,         \* service accounts
  Batches, Batch,    \* Batch[b]: consumer, key, how often it is sent at most, and the
                     \* events, each a run, a name and a version
  Reports, Report,   \* Report[o]: consumer, run and the outcome
  MinComparableRuns,
  MaxHooks, MaxDay, MaxChanges  \* bounds: hook events, days, changes of the registry

None == "none"
Runs == {e.run : e \in UNION {Range(Batch[b].events) : b \in Batches}} \cup {Report[o].run : o \in Reports}
Versions == {e.version : e \in UNION {Range(Batch[b].events) : b \in Batches}}
Sends == UNION {{b} \X (1..Batch[b].sent) : b \in Batches}

VARIABLES
  skill,     \* names with a row in skills
  alias,     \* skill_aliases
  dismissed, \* dismissed_skills
  event,     \* skill_events, each with a number of its own
  run,       \* runs
  runSkill,  \* run_skills
  batch,     \* event_batches: the size stored under a key
  audit,     \* audit_log: outcomes replaced
  task, put, \* the requests with batches and with outcomes, and the transaction each holds open
  day, hooks, changes

vars == <<skill, alias, dismissed, event, run, runSkill, batch, audit, task, put, day, hooks, changes>>
registry == <<skill, alias, dismissed, changes>>

NotSent == [at |-> "idle", i |-> 1, locks |-> {}, rows |-> <<>>, answer |-> 0]
NotPut  == [at |-> "idle", locks |-> {}, old |-> None]
NoRun   == [known |-> FALSE, outcome |-> None]

Init ==
  /\ skill \in SUBSET Names /\ alias = [n \in Names |-> None] /\ dismissed = {}
  /\ event = {} /\ run = [p \in Consumers \X Runs |-> NoRun] /\ runSkill = {}
  /\ batch = <<>> /\ audit = {} /\ task = [s \in Sends |-> NotSent]
  /\ put = [o \in Reports |-> NotPut]
  /\ day = 1 /\ hooks = 0 /\ changes = 0

Of(s)  == Batch[s[1]]
KeyOf(s) == <<"key", Of(s).consumer, Of(s).key>>
RunOf(c, r) == <<"run", c, r>>

\* Another transaction has inserted or updated the row and is still open.
Held(lock) == \/ \E s \in Sends : lock \in task[s].locks
              \/ \E o \in Reports : lock \in put[o].locks

\* The name an event resolves to.
Canonical(n) == IF alias[n] # None THEN alias[n] ELSE n

(***************************************************************************)
(* A batch.                                                                 *)
(***************************************************************************)

\* ValidateEvents has passed.  A client that has no answer, or none yet, sends
\* again.
Send(s) ==
  /\ task[s].at = "idle"
  /\ s[2] > 1 => task[<<s[1], s[2] - 1>>].at # "idle"
  /\ task' = [task EXCEPT ![s].at = IF Of(s).key = None THEN "events" ELSE "key"]
  /\ UNCHANGED <<registry, event, run, runSkill, batch, audit, put, day, hooks>>

(* mutant: a key is looked for before it is inserted, outside the transaction *)
FreshUnlocked(s) == KeyOf(s) \notin DOMAIN batch

\* The insert waits for an open transaction with the same key.
Fresh(s) == KeyOf(s) \notin DOMAIN batch /\ ~Held(KeyOf(s))

ClaimKey(s) ==
  /\ task[s].at = "key" /\ Fresh(s)
  /\ task' = [task EXCEPT ![s].at = "events", ![s].locks = @ \cup {KeyOf(s)}]
  /\ UNCHANGED <<registry, event, run, runSkill, batch, audit, put, day, hooks>>

\* The key is there: the answer is the first one's.
Repeat(s) ==
  /\ task[s].at = "key" /\ KeyOf(s) \in DOMAIN batch
  /\ task' = [task EXCEPT ![s].at = "committed", ![s].answer = batch[KeyOf(s)]]
  /\ UNCHANGED <<registry, event, run, runSkill, batch, audit, put, day, hooks>>

\* upsertRun, once for each run, and the insert of the event, which asks
\* whether its name is registered.
StoreEvent(s) ==
  /\ task[s].at = "events" /\ task[s].i <= Len(Of(s).events)
  /\ LET e == Of(s).events[task[s].i]  lock == RunOf(Of(s).consumer, e.run) IN
       /\ lock \in task[s].locks \/ ~Held(lock)
       /\ task' = [task EXCEPT ![s].i = @ + 1, ![s].locks = @ \cup {lock},
                    ![s].rows = Append(@, [skill |-> e.skill, version |-> e.version, run |-> e.run,
                                           registered |-> Canonical(e.skill) \in skill])]
  /\ UNCHANGED <<registry, event, run, runSkill, batch, audit, put, day, hooks>>

Numbered(rows, c, b) ==
  LET top == Max({0} \cup {e.id : e \in event}) IN
  {[id |-> top + i, skill |-> rows[i].skill, registered |-> rows[i].registered,
    consumer |-> c, run |-> rows[i].run, day |-> day, batch |-> b] : i \in DOMAIN rows}

\* The result is kept under the key, and everything is committed.
Commit(s) ==
  /\ task[s].at = "events" /\ task[s].i > Len(Of(s).events)
  /\ LET c == Of(s).consumer  rows == task[s].rows  touched == {e.run : e \in Range(rows)} IN
       /\ event' = event \cup Numbered(rows, c, s[1])
       /\ run' = [p \in DOMAIN run |-> IF p[1] = c /\ p[2] \in touched THEN [run[p] EXCEPT !.known = TRUE] ELSE run[p]]
       /\ runSkill' = runSkill \cup {<<c, e.run, e.skill, e.version>> : e \in Range(rows)}
       /\ batch' = IF Of(s).key = None THEN batch
                   ELSE [k \in DOMAIN batch \cup {KeyOf(s)} |-> IF k \in DOMAIN batch THEN batch[k] ELSE Len(rows)]
       /\ task' = [task EXCEPT ![s].at = "committed", ![s].locks = {}, ![s].answer = Len(rows), ![s].rows = <<>>]
  /\ UNCHANGED <<registry, audit, put, day, hooks>>

\* The client goes away, the database ends a cycle of waits, a statement
\* fails: the transaction is rolled back.
AbortSend(s) ==
  /\ task[s].at \in {"key", "events"}
  /\ task' = [task EXCEPT ![s].at = "aborted", ![s].locks = {}, ![s].rows = <<>>]
  /\ UNCHANGED <<registry, event, run, runSkill, batch, audit, put, day, hooks>>

(***************************************************************************)
(* An outcome.                                                              *)
(***************************************************************************)

\* upsertRun takes the run's row.
Upsert(o) ==
  /\ put[o].at = "idle" /\ ~Held(RunOf(Report[o].consumer, Report[o].run))
  /\ put' = [put EXCEPT ![o].at = "read", ![o].locks = {RunOf(Report[o].consumer, Report[o].run)}]
  /\ UNCHANGED <<registry, event, run, runSkill, batch, audit, task, day, hooks>>

ReadOld(o) ==
  /\ put[o].at = "read"
  /\ put' = [put EXCEPT ![o].at = "write", ![o].old = run[<<Report[o].consumer, Report[o].run>>].outcome]
  /\ UNCHANGED <<registry, event, run, runSkill, batch, audit, task, day, hooks>>

\* The update, and the old value in the audit log.
PutOutcome(o) ==
  /\ put[o].at = "write"
  /\ run' = [run EXCEPT ![<<Report[o].consumer, Report[o].run>>] = [known |-> TRUE, outcome |-> o]]
  /\ audit' = IF put[o].old = None THEN audit ELSE audit \cup {put[o].old}
  /\ put' = [put EXCEPT ![o].at = "committed", ![o].locks = {}]
  /\ UNCHANGED <<registry, event, runSkill, batch, task, day, hooks>>

AbortPut(o) ==
  /\ put[o].at \in {"read", "write"}
  /\ put' = [put EXCEPT ![o].at = "aborted", ![o].locks = {}]
  /\ UNCHANGED <<registry, event, run, runSkill, batch, audit, task, day, hooks>>

(***************************************************************************)
(* Hooks, days and the registry.                                            *)
(***************************************************************************)

\* ingest-event and Insert: one statement.
Ingest(n) ==
  /\ hooks < MaxHooks /\ hooks' = hooks + 1
  /\ event' = event \cup Numbered(<<[skill |-> n, run |-> None, registered |-> Canonical(n) \in skill]>>, None, None)
  /\ UNCHANGED <<registry, run, runSkill, batch, audit, task, put, day>>

\* What is left of run_skills: it has no expiry.
Kept(old) == runSkill

\* A day passes, and the purge deletes what is older than the retention.
Purge ==
  /\ day < MaxDay /\ day' = day + 1
  /\ LET old == {e \in event : e.day < day'} IN event' = event \ old /\ runSkill' = Kept(old)
  /\ UNCHANGED <<registry, run, batch, audit, task, put, hooks>>

Change == changes < MaxChanges /\ changes' = changes + 1

Register(n) ==
  /\ Change /\ n \notin skill /\ skill' = skill \cup {n}
  /\ UNCHANGED <<alias, dismissed, event, run, runSkill, batch, audit, task, put, day, hooks>>

\* Merging deletes the row of n, and with it n's aliases; its name now means m.
Merge(n, m) ==
  /\ Change /\ n \in skill /\ m \in skill \ {n}
  /\ skill' = skill \ {n}
  /\ alias' = [a \in Names |-> IF a = n THEN m ELSE IF alias[a] = n THEN None ELSE alias[a]]
  /\ UNCHANGED <<dismissed, event, run, runSkill, batch, audit, task, put, day, hooks>>

\* Deleting a skill deletes its aliases.
Delete(n) ==
  /\ Change /\ n \in skill /\ skill' = skill \ {n}
  /\ alias' = [a \in Names |-> IF alias[a] = n THEN None ELSE alias[a]]
  /\ UNCHANGED <<dismissed, event, run, runSkill, batch, audit, task, put, day, hooks>>

DismissSkill(n) ==
  /\ Change /\ n \notin dismissed /\ dismissed' = dismissed \cup {n}
  /\ UNCHANGED <<skill, alias, event, run, runSkill, batch, audit, task, put, day, hooks>>

(***************************************************************************)
(* What the dashboard and the panels read.                                  *)
(***************************************************************************)

\* EventFilter: a consumer, or None for every event.
Matching(f) == {e \in event : f # None => e.consumer = f}

\* GetOverview's total and unregistered activations.
TotalActivations(f) == {e \in Matching(f) : Canonical(e.skill) \in skill}
UnregisteredActivations(f) == {e \in Matching(f) : ~e.registered}

\* GetActivations and GetSkillTimeSeries.
Activations(n, f) == {e \in Matching(f) : Canonical(e.skill) = n}

\* GetSkillsAnalytics: a filter leaves out the skills it counts nothing for.
Table(f) == {n \in skill : f # None => Activations(n, f) # {}}

\* GetUnregisteredSkills.
UnregisteredSkills == {n \in Names : /\ \E e \in event : e.skill = n
                                     /\ n \notin skill \cup dismissed /\ alias[n] = None}

\* GetConsumers.
Filters == {e.consumer : e \in event} \cup {None}

\* SkillOutcomes: the rows of a consumer's runs that loaded a version.
Loaded(c, n, v) == {r \in runSkill : r[1] = c /\ Canonical(r[3]) = n /\ r[4] = v}
Outcome(r) == LET o == run[<<r[1], r[2]>>].outcome IN IF o = None THEN None ELSE Report[o].outcome
Ended(c, n, v) == {r \in Loaded(c, n, v) : Outcome(r) \in {"succeeded", "failed"}}
Sample(c, n, v) == Cardinality(Ended(c, n, v))

\* applyComparisons: a rate needs enough runs.
HasRate(c, n, v) == Sample(c, n, v) >= MinComparableRuns

----------------------------------------------------------------------------
Next ==
  \/ \E s \in Sends : Send(s) \/ ClaimKey(s) \/ Repeat(s) \/ StoreEvent(s) \/ Commit(s) \/ AbortSend(s)
  \/ \E o \in Reports : Upsert(o) \/ ReadOld(o) \/ PutOutcome(o) \/ AbortPut(o)
  \/ Purge
  \/ \E n \in Names : Ingest(n) \/ Register(n) \/ Delete(n) \/ DismissSkill(n) \/ \E m \in Names : Merge(n, m)

Spec == Init /\ [][Next]_vars
----------------------------------------------------------------------------
\* Every variable holds a value of its type.
TypeOK ==
  /\ skill \subseteq Names /\ alias \in [Names -> Names \cup {None}] /\ dismissed \subseteq Names
  /\ \A e \in event : e.skill \in Names /\ e.registered \in BOOLEAN /\ e.consumer \in Consumers \cup {None}
  /\ \A p \in DOMAIN run : run[p].outcome \in Reports \cup {None} /\ run[p].known \in BOOLEAN
  /\ runSkill \subseteq Consumers \X Runs \X Names \X Versions /\ audit \subseteq Reports
  /\ \A c \in Consumers, r \in Runs : run[<<c, r>>].outcome # None => run[<<c, r>>].known

\* A batch that was answered is counted in its consumer's panels, whatever has
\* been purged since; one with a key was stored once, however often and in
\* whatever overlap it was sent, and every try got the same answer.
BatchesStoreOnce ==
  \A s \in Sends :
    /\ task[s].at = "committed" =>
         /\ \A e \in Range(Of(s).events) : <<Of(s).consumer, e.run, e.skill, e.version>> \in runSkill
         /\ task[s].answer = Len(Of(s).events)
    /\ Of(s).key # None => Cardinality({e \in event : e.batch = s[1]}) <= Len(Of(s).events)

\* "the audit log keeps the old value" (runs/store.go:170-171): every outcome
\* ever recorded is its run's or is in the log, however reports overlap.
OutcomesAreAudited ==
  \A o \in Reports : put[o].at = "committed" =>
    \/ run[<<Report[o].consumer, Report[o].run>>].outcome = o \/ o \in audit

\* The overview, the table, a skill's own page and the list of unregistered
\* skills agree on every event, whatever was merged, deleted or registered
\* since it arrived.
QueriesAgree ==
  \A f \in Filters :
    /\ TotalActivations(f) = UNION {Activations(n, f) : n \in Table(f)}
    /\ \A e \in Matching(f) \ TotalActivations(f) : e.skill \in UnregisteredSkills \cup dismissed

\* "Runs that succeeded or failed. This is the sample size."
\* (runs/store.go:212): a rate is shown of MinComparableRuns ended runs.
RatesNeedRuns ==
  \A c \in Consumers, n \in skill, v \in Versions : HasRate(c, n, v) =>
    Cardinality({r[2] : r \in Ended(c, n, v)}) >= MinComparableRuns

\* "They are deliberately excluded from TotalActivations" (analytics/event.go):
\* an activation is not counted as registered and as unregistered.
UnregisteredStayApart == TotalActivations(None) \cap UnregisteredActivations(None) = {}
============================================================================
