----------------------------- MODULE GitChanges -----------------------------
(***************************************************************************)
(* One git-bound skill, the submissions and pull requests that change it,   *)
(* and the syncs that follow its branch (src/internal/gitsync and           *)
(* src/internal/submissions).  Approving a submission opens a pull request  *)
(* on GitHub, records it and attaches it to the submission, in three        *)
(* places.  A sync reads the branch head, then the pull requests, publishes *)
(* the head's folder, links each merged change to a version and decides its *)
(* submission, each in a statement of its own.                              *)
(*                                                                          *)
(* A commit of the branch is the content of the skill's folder in it.       *)
(***************************************************************************)
EXTENDS Naturals, Sequences

CONSTANTS
  Subs, Pulls, Reviewers, Runs,
  Forced,     \* the runs that sync even when the head has not moved
  Contents,
  Held,       \* contents the gate holds: a version that is not served
  Blocked,    \* contents the gate refuses: no version
  MaxCommit, MaxVersion, MaxCrash,  \* bounds
  First,      \* the content of the branch when it is connected
  Regimes     \* what one behaviour may hold besides the ordinary: sets of
              \* "second" (reviewer), "detach", "crash", "overlap" (of syncs),
              \* and "propose", for publishes by people in place of submissions

VARIABLES
  branch,    \* the branch: a sequence of contents
  pull,      \* the pull requests on GitHub
  change,    \* git_changes
  sub,       \* submissions
  version,   \* skill_versions: content, and the commit or submission it came from
  bound,     \* whether git_bindings has the skill
  synced,    \* git_connections.last_synced_sha, a position of branch
  run, review,
  orphaned,  \* submissions nobody will decide through their change
  crashes,
  regime     \* chosen once

vars == <<branch, pull, change, sub, version, bound, synced, run, review, orphaned, crashes, regime>>

None == "none"
IdleRun    == [at |-> "idle", head |-> 0, known |-> 0, todo |-> {}, pull |-> None, version |-> 0]
IdleReview == [at |-> "idle", sub |-> None, content |-> None, pull |-> None, version |-> 0]

TypeOK ==
  /\ branch \in Seq(Contents) /\ Len(branch) <= MaxCommit
  /\ pull \in [Pulls -> [state : {"none", "open", "merged", "closed"},
                         content : Contents \cup {None}, at : 0..MaxCommit]]
  /\ change \in [Pulls -> [state : {"none", "open", "merged", "closed"}, version : 0..MaxVersion]]
  /\ sub \in [Subs -> [state : {"none", "pending", "approved", "rejected"},
                       content : Contents \cup {None}, change : Pulls \cup {None},
                       version : 0..MaxVersion]]
  /\ version \in Seq([content : Contents \ Blocked, commit : 0..MaxCommit, sub : Subs \cup {None}])
  /\ Len(version) <= MaxVersion
  /\ bound \in BOOLEAN /\ synced \in 0..Len(branch)
  /\ run \in [Runs -> [at : {"idle", "track", "close", "publish", "list", "link", "approve"},
                       head : 0..Len(branch), known : 0..Len(branch), todo : SUBSET Pulls,
                       pull : Pulls \cup {None}, version : 0..MaxVersion]]
  /\ review \in [Reviewers -> [at : {"idle", "open", "record", "attach", "publish", "commit"},
                       sub : Subs \cup {None}, content : Contents \cup {None},
                       pull : Pulls \cup {None}, version : 0..MaxVersion]]
  /\ orphaned \subseteq Subs /\ crashes \in 0..MaxCrash /\ regime \in Regimes

Init ==
  /\ branch = <<First>> /\ regime \in Regimes
  /\ pull = [p \in Pulls |-> [state |-> "none", content |-> None, at |-> 0]]
  /\ change = [p \in Pulls |-> [state |-> "none", version |-> 0]]
  /\ sub = [s \in Subs |-> [state |-> "none", content |-> None, change |-> None, version |-> 0]]
  /\ version = <<>> /\ bound \in BOOLEAN /\ synced = 0
  /\ run = [r \in Runs |-> IdleRun] /\ review = [v \in Reviewers |-> IdleReview]
  /\ orphaned = {} /\ crashes = 0

-----------------------------------------------------------------------------
(* GitHub: people push, merge and close.  A merge may bring more than its   *)
(* pull request's content when the branch moved on.                         *)
Push(c) ==
  /\ Len(branch) < MaxCommit
  /\ branch' = Append(branch, c)
  /\ UNCHANGED <<pull, change, sub, version, bound, synced, run, review, orphaned, crashes, regime>>

Merge(p, c) ==
  /\ pull[p].state = "open" /\ Len(branch) < MaxCommit
  /\ branch' = Append(branch, c)
  /\ pull' = [pull EXCEPT ![p].state = "merged", ![p].at = Len(branch) + 1]
  /\ UNCHANGED <<change, sub, version, bound, synced, run, review, orphaned, crashes, regime>>

Close(p) ==
  /\ pull[p].state = "open"
  /\ pull' = [pull EXCEPT ![p].state = "closed"]
  /\ UNCHANGED <<branch, change, sub, version, bound, synced, run, review, orphaned, crashes, regime>>

-----------------------------------------------------------------------------
(* Publishing a content: nothing new when the served version has it.        *)
Newest(s) == CHOOSE n \in s : \A m \in s : m <= n
Served == {n \in DOMAIN version : version[n].content \notin Held}
LatestServed == IF Served = {} THEN 0 ELSE Newest(Served)

Unchanged(c) == LatestServed # 0 /\ version[LatestServed].content = c

Published(c, commit, s) ==
  IF c \in Blocked \/ Unchanged(c) THEN version
  ELSE Append(version, [content |-> c, commit |-> commit, sub |-> s])

(* The version a publish answers with. *)
Answered(c) == IF Unchanged(c) THEN LatestServed ELSE Len(version) + 1

(* Decide holds a submission's row from its check to its commit.            *)
Locked(s) == \E v \in Reviewers : review[v].at \in {"publish", "commit"} /\ review[v].sub = s

(* Submit *)
Submit(s, c) ==
  /\ "propose" \notin regime /\ sub[s].state = "none" /\ c \notin Blocked
  /\ sub' = [sub EXCEPT ![s].state = "pending", ![s].content = c]
  /\ UNCHANGED <<branch, pull, change, version, bound, synced, run, review, orphaned, crashes, regime>>

Present(v) == "second" \in regime \/ v = CHOOSE w \in Reviewers : TRUE

(* approveAsChange: the submission is read before the pull request is made. *)
ApproveAsChange(v, s) ==
  /\ Present(v) /\ review[v].at = "idle" /\ bound
  /\ sub[s].state = "pending" /\ sub[s].change = None
  /\ review' = [review EXCEPT ![v] = [IdleReview EXCEPT
                  !.at = "open", !.sub = s, !.content = sub[s].content]]
  /\ UNCHANGED <<branch, pull, change, sub, version, bound, synced, run, orphaned, crashes, regime>>

(* A publish to a git-bound skill opens a pull request too. *)
Propose(v, c) ==
  /\ "propose" \in regime /\ Present(v) /\ review[v].at = "idle" /\ bound /\ c \notin Blocked
  /\ review' = [review EXCEPT ![v] = [IdleReview EXCEPT !.at = "open", !.content = c]]
  /\ UNCHANGED <<branch, pull, change, sub, version, bound, synced, run, orphaned, crashes, regime>>

NextPull == CHOOSE p \in Pulls \cup {None} :
  IF \E q \in Pulls : pull[q].state = "none"
  THEN p \in Pulls /\ pull[p].state = "none" ELSE p = None

(* OpenChange: the commit and the pull request on GitHub, then the row.  A  *)
(* change recorded after its merge was synced waits for the next commit.    *)
OpenPull(v, p) ==
  /\ review[v].at = "open" /\ p = NextPull
  /\ pull' = [pull EXCEPT ![p].state = "open", ![p].content = review[v].content]
  /\ review' = [review EXCEPT ![v].at = "record", ![v].pull = p]
  /\ UNCHANGED <<branch, change, sub, version, bound, synced, run, orphaned, crashes, regime>>

RecordChange(v) ==
  /\ review[v].at = "record"
  /\ orphaned' = IF pull[review[v].pull].state = "merged"
                 THEN orphaned \cup ({review[v].sub} \ {None}) ELSE orphaned
  /\ change' = [change EXCEPT ![review[v].pull].state = "open"]
  /\ review' = [review EXCEPT ![v] = IF @.sub = None THEN IdleReview ELSE [@ EXCEPT !.at = "attach"]]
  /\ UNCHANGED <<branch, pull, sub, version, bound, synced, run, crashes, regime>>

(* The change may have been resolved before its submission names it.        *)
AlreadyResolved(p) == change[p].state = "closed" \/ change[p].version # 0

Attachable(s) == sub[s].state = "pending" /\ sub[s].change = None

Attach(v) ==
  LET s == review[v].sub
      p == review[v].pull
  IN
  /\ review[v].at = "attach" /\ ~Locked(s)
  /\ review' = [review EXCEPT ![v] = IdleReview]
  /\ sub' = IF Attachable(s) THEN [sub EXCEPT ![s].change = p] ELSE sub
  /\ orphaned' = IF Attachable(s) /\ AlreadyResolved(p) THEN orphaned \cup {s} ELSE orphaned
  /\ UNCHANGED <<branch, pull, change, version, bound, synced, run, crashes, regime>>

Decidable(s) == sub[s].state = "pending" /\ ~Locked(s)

(* approve, for a skill that is not bound: publish inside Decide, in a      *)
(* transaction of its own.                                                  *)
ApproveNative(v, s) ==
  /\ Present(v) /\ review[v].at = "idle" /\ ~bound /\ Decidable(s)
  /\ review' = [review EXCEPT ![v] = [IdleReview EXCEPT
                  !.at = "publish", !.sub = s, !.content = sub[s].content]]
  /\ UNCHANGED <<branch, pull, change, sub, version, bound, synced, run, orphaned, crashes, regime>>

PublishNative(v) ==
  /\ review[v].at = "publish" /\ Len(version) < MaxVersion
  /\ version' = Published(review[v].content, 0, review[v].sub)
  /\ review' = [review EXCEPT ![v].at = "commit", ![v].version = Answered(review[v].content)]
  /\ UNCHANGED <<branch, pull, change, sub, bound, synced, run, orphaned, crashes, regime>>

CommitNative(v) ==
  /\ review[v].at = "commit"
  /\ sub' = [sub EXCEPT ![review[v].sub].state = "approved",
                        ![review[v].sub].version = review[v].version]
  /\ review' = [review EXCEPT ![v] = IdleReview]
  /\ UNCHANGED <<branch, pull, change, version, bound, synced, run, orphaned, crashes, regime>>

(* reject does not ask for the submission's change. *)
Reject(s) ==
  /\ Decidable(s)
  /\ sub' = [sub EXCEPT ![s].state = "rejected"]
  /\ UNCHANGED <<branch, pull, change, version, bound, synced, run, review, orphaned, crashes, regime>>

(* Detach and Adopt. *)
Detach ==
  /\ "detach" \in regime /\ bound /\ bound' = FALSE
  /\ UNCHANGED <<branch, pull, change, sub, version, synced, run, review, orphaned, crashes, regime>>

Adopt ==
  /\ "detach" \in regime /\ ~bound /\ bound' = TRUE
  /\ UNCHANGED <<branch, pull, change, sub, version, synced, run, review, orphaned, crashes, regime>>

-----------------------------------------------------------------------------
(* Reconcile reads the connection and the head, then the open changes.      *)
(* River runs one sync of a connection at a time of those that are forced,  *)
(* and one of those that are not.                                           *)
Begin(r) ==
  /\ run[r].at = "idle" /\ ("overlap" \in regime \/ \A q \in Runs : run[q].at = "idle")
  /\ run' = [run EXCEPT ![r] = [IdleRun EXCEPT !.at = "track", !.head = Len(branch),
               !.known = synced, !.todo = {p \in Pulls : change[p].state = "open"}]]
  /\ UNCHANGED <<branch, pull, change, sub, version, bound, synced, review, orphaned, crashes, regime>>

(* trackChanges writes nothing for a pull request that is still open, and a *)
(* merged or closed one stays so: reading and writing are one step.         *)
Track(r, p) ==
  /\ run[r].at = "track" /\ p \in run[r].todo
  /\ run' = [run EXCEPT ![r].todo = @ \ {p},
               ![r].at = IF pull[p].state = "closed" THEN "close" ELSE @,
               ![r].pull = IF pull[p].state = "closed" THEN p ELSE @]
  /\ change' = [change EXCEPT ![p].state = pull[p].state]
  /\ UNCHANGED <<branch, pull, sub, version, bound, synced, review, orphaned, crashes, regime>>

(* mutant: the decision is written whatever the submission's state. *)
WaitingAny(p) == {s \in Subs : sub[s].change = p}

(* The submissions ResolveChange finds. *)
Waiting(p) == {s \in Subs : sub[s].change = p /\ sub[s].state = "pending"}

(* mutant: the version is left out. *)
ResolvedBare(p, state, n) ==
  [s \in Subs |-> IF s \in Waiting(p) THEN [sub[s] EXCEPT !.state = state] ELSE sub[s]]

Resolved(p, state, n) ==
  [s \in Subs |-> IF s \in Waiting(p) THEN [sub[s] EXCEPT !.state = state, !.version = n] ELSE sub[s]]

CloseChange(r) ==
  /\ run[r].at = "close" /\ \A s \in Waiting(run[r].pull) : ~Locked(s)
  /\ sub' = Resolved(run[r].pull, "rejected", 0)
  /\ run' = [run EXCEPT ![r].at = "track", ![r].pull = None]
  /\ UNCHANGED <<branch, pull, change, version, bound, synced, review, orphaned, crashes, regime>>

InStep(r) == run[r].head = run[r].known /\ r \notin Forced

Tracked(r) ==
  /\ run[r].at = "track" /\ run[r].todo = {}
  /\ run' = [run EXCEPT ![r] = IF InStep(r) THEN IdleRun ELSE [@ EXCEPT !.at = "publish"]]
  /\ UNCHANGED <<branch, pull, change, sub, version, bound, synced, review, orphaned, crashes, regime>>

(* apply: a detached skill's folder is ignored. *)
Publish(r) ==
  /\ run[r].at = "publish" /\ Len(version) < MaxVersion
  /\ version' = IF bound THEN Published(branch[run[r].head], run[r].head, None) ELSE version
  /\ run' = [run EXCEPT ![r].at = "list"]
  /\ UNCHANGED <<branch, pull, change, sub, bound, synced, review, orphaned, crashes, regime>>

(* linkMerged *)
ListMerged(r) ==
  /\ run[r].at = "list"
  /\ run' = [run EXCEPT ![r].at = "link",
               ![r].todo = {p \in Pulls : change[p].state = "merged" /\ change[p].version = 0}]
  /\ UNCHANGED <<branch, pull, change, sub, version, bound, synced, review, orphaned, crashes, regime>>

(* The newest version with the change's digest, or else the newest one.     *)
VersionOf(p) ==
  LET same == {n \in DOMAIN version : version[n].content = pull[p].content} IN
    IF same # {} THEN Newest(same) ELSE Len(version)

Link(r, p) ==
  /\ run[r].at = "link" /\ p \in run[r].todo
  /\ IF VersionOf(p) = 0
     THEN /\ run' = [run EXCEPT ![r].todo = @ \ {p}]
          /\ UNCHANGED change
     ELSE /\ change' = [change EXCEPT ![p].version = VersionOf(p)]
          /\ run' = [run EXCEPT ![r].todo = @ \ {p}, ![r].at = "approve", ![r].pull = p,
                                ![r].version = VersionOf(p)]
  /\ UNCHANGED <<branch, pull, sub, version, bound, synced, review, orphaned, crashes, regime>>

ApproveChange(r) ==
  /\ run[r].at = "approve" /\ \A s \in Waiting(run[r].pull) : ~Locked(s)
  /\ sub' = Resolved(run[r].pull, "approved", run[r].version)
  /\ run' = [run EXCEPT ![r].at = "link", ![r].pull = None, ![r].version = 0]
  /\ UNCHANGED <<branch, pull, change, version, bound, synced, review, orphaned, crashes, regime>>

Recorded(r) == run[r].head

(* recordSync *)
Record(r) ==
  /\ run[r].at = "link" /\ run[r].todo = {}
  /\ synced' = Recorded(r)
  /\ run' = [run EXCEPT ![r] = IdleRun]
  /\ UNCHANGED <<branch, pull, change, sub, version, bound, review, orphaned, crashes, regime>>

(* The process dies or a call fails.  A change that was settled is not read *)
(* again, so its submission is not decided.                                 *)
CrashRun(r) ==
  /\ "crash" \in regime /\ run[r].at # "idle" /\ crashes < MaxCrash
  /\ crashes' = crashes + 1
  /\ run' = [run EXCEPT ![r] = IdleRun]
  /\ orphaned' = IF run[r].at \in {"close", "approve"}
                 THEN orphaned \cup Waiting(run[r].pull) ELSE orphaned
  /\ UNCHANGED <<branch, pull, change, sub, version, bound, synced, review, regime>>

CrashReview(v) ==
  /\ "crash" \in regime /\ review[v].at # "idle" /\ crashes < MaxCrash
  /\ crashes' = crashes + 1
  /\ review' = [review EXCEPT ![v] = IdleReview]
  /\ UNCHANGED <<branch, pull, change, sub, version, bound, synced, run, orphaned, regime>>

Sync(r) ==
  \/ Begin(r) \/ CloseChange(r) \/ Tracked(r) \/ Publish(r) \/ ListMerged(r)
  \/ ApproveChange(r) \/ Record(r)
  \/ \E p \in Pulls : Track(r, p) \/ Link(r, p)

Next ==
  \/ \E c \in Contents : Push(c) \/ \E p \in Pulls : Merge(p, c)
  \/ \E p \in Pulls : Close(p)
  \/ \E s \in Subs : Reject(s) \/ \E c \in Contents : Submit(s, c)
  \/ Detach \/ Adopt
  \/ \E v \in Reviewers :
       \/ RecordChange(v) \/ Attach(v) \/ PublishNative(v) \/ CommitNative(v) \/ CrashReview(v)
       \/ \E s \in Subs : ApproveAsChange(v, s) \/ ApproveNative(v, s)
       \/ \E c \in Contents : Propose(v, c)
       \/ \E p \in Pulls : OpenPull(v, p)
  \/ \E r \in Runs : Sync(r) \/ CrashRun(r)

(* The minutely tick starts a sync, and River's workers go on with one that *)
(* was started, as does a request; nobody has to ask for a forced one.      *)
Fairness ==
  /\ \A r \in Runs : WF_vars((r \notin Forced \/ run[r].at # "idle") /\ Sync(r))
  /\ \A v \in Reviewers : WF_vars(PublishNative(v) \/ CommitNative(v))

Spec == Init /\ [][Next]_vars /\ Fairness

-----------------------------------------------------------------------------
(* An approved submission names a version: one with its own content, that   *)
(* its approval published or found served, or, when its change was merged   *)
(* and linked, the one the change was linked to.  Syncs that meet may link  *)
(* one change twice, and the submission keeps the version of the first.     *)
ApprovalHasItsVersion ==
  \A s \in Subs : sub[s].state = "approved" =>
    /\ sub[s].version \in DOMAIN version
    /\ \/ version[sub[s].version].content = sub[s].content
       \/ /\ sub[s].change # None /\ change[sub[s].change].state = "merged"
          /\ change[sub[s].change].version \in
               IF "overlap" \in regime THEN DOMAIN version ELSE {sub[s].version}

(* A submission is decided once, whoever decides: two reviewers, or a       *)
(* reviewer and the sync of its change.                                     *)
DecidedStaysStep ==
  \A s \in Subs : sub[s].state \in {"approved", "rejected"} => sub'[s] = sub[s]

(* A submission that waits on a change keeps waiting on that one until it   *)
(* is decided.                                                              *)
WaitsOnOneChangeStep ==
  \A s \in Subs : sub[s].change # None => sub'[s].change = sub[s].change

(* Two reviewers do not both publish one submission: unless a process died  *)
(* after the publish, it has one version.                                   *)
PublishedOnce ==
  crashes = 0 => \A s \in Subs :
    \A i, j \in DOMAIN version : version[i].sub = s /\ version[j].sub = s => i = j

(* A submission whose pull request was merged or closed is decided, unless  *)
(* its decision was lost to a crash, its change was recorded or attached    *)
(* after the merge, or the merge left the skill without a version.          *)
SubmissionFollowsItsPull ==
  \A s \in Subs, p \in Pulls :
    (sub[s].change = p /\ pull[p].state \in {"merged", "closed"}) ~>
      (sub[s].state # "pending" \/ s \in orphaned \/ version = <<>> \/ Len(version) = MaxVersion)

(* Once a sync recorded the head and none is under way, the skill's newest  *)
(* version, or the one it serves, has the head's content, unless the gate   *)
(* refused it: the connection is in step with its branch.  Syncs that met   *)
(* may have published in either order.                                      *)
SyncedIsInStep ==
  (bound /\ regime \cap {"detach", "overlap"} = {} /\ synced = Len(branch) /\ \A r \in Runs : run[r].at = "idle") =>
    \/ branch[synced] \in Blocked \/ Unchanged(branch[synced])
    \/ version # <<>> /\ version[Len(version)].content = branch[synced]
=============================================================================
