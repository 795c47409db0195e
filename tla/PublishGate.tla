---------------------------- MODULE PublishGate -----------------------------
(***************************************************************************)
(* One skill's versions from publish to release: the publish handler       *)
(* (skill/publisher.go), the review endpoint (review_routes.go), the       *)
(* release an evaluation triggers (release.go) and the store calls they    *)
(* share (store.go, approvals.go, gate_store.go), against the ownership    *)
(* rules that decide who may do what (internal/ownership).                 *)
(*                                                                         *)
(* A handler is a sequence of statements of its own; one transaction is    *)
(* one action unless another statement can see or block it half-way.  The  *)
(* one that is split is the approval: it inserts its row, counts what is   *)
(* still outstanding, and releases or commits, and the two reads in        *)
(* between do not see the rows other open transactions have inserted.      *)
(***************************************************************************)
EXTENDS Gate, FiniteSets

CONSTANTS
  Requests,    \* requests the server handles at the same time
  Users,       \* signed-in people
  Admins,      \* those with instance privilege
  Contents,    \* bundles that may be published
  ScanOf,      \* the findings of each bundle's scan
  Evidence,    \* what a report may have measured
  RuleLists,   \* member lists that may be written to a rule
  Floor,       \* the deployment's quality floor
  MaxVersion,  \* bound on the versions of the skill
  NoUser, NoContent

ASSUME PublishAssumption ==
  /\ MaxVersion \in Nat
  /\ Admins \subseteq Users
  /\ NoUser \notin Users
  /\ NoContent \notin Contents
  /\ ScanOf \in [Contents -> SUBSET Finding]
  /\ Evidence \subseteq Quality
  /\ RuleLists \subseteq SUBSET Users
  /\ Floor \in Scores

Versions == 1..MaxVersion

(* The absence of a rule, told apart from a rule without members. *)
NoRule == {NoUser}

VARIABLES
  state,      \* skill_versions.gate_state, "none" before the row exists
  content,    \* the bundle of each version
  holds,      \* skill_versions.hold_reasons
  decided,    \* version_approvals: per version and reason, on whose authority
  latest,     \* skills.latest_version
  prose,      \* the version the skill row's description and body come from
  spec,       \* the version its author, tags and compliance come from
  events,     \* release notifications committed per version
  exactRule,  \* members of the rule for exactly this name
  prefixRule, \* members of the longest prefix rule that covers it
  req         \* what each request is doing

versionVars == <<state, content, holds, decided>>
skillVars   == <<latest, prose, spec, events>>
ruleVars    == <<exactRule, prefixRule>>
vars == <<versionVars, skillVars, ruleVars, req>>

(* Whose authority a decision row records: an instance admin's, an owner's *)
(* of this skill, or an evaluation's score.                                *)
Authority == {"admin", "owner", "score"}
Decided   == {"none", "rejected"} \cup Authority

State == {"none", "needs_review", "released", "rejected"}

(* A request: what it is, the step it is about to take, and the values it  *)
(* has read so far and still needs.                                        *)
Request ==
  [op        : {"none", "publish", "approve", "reject"},
   pc        : {"start", "resolve", "create", "spec", "claim",
                "authorise", "insert", "count", "commit", "release"},
   user      : Users \cup {NoUser},
   content   : Contents \cup {NoContent},
   override  : BOOLEAN,
   seen      : 0..MaxVersion,
   unowned   : BOOLEAN,
   holds     : SUBSET HoldReason,
   version   : 0..MaxVersion,
   reason    : HoldReason,
   authority : Authority,
   inserted  : BOOLEAN]

NoRequest ==
  [op |-> "none", pc |-> "start", user |-> NoUser, content |-> NoContent,
   override |-> FALSE, seen |-> 0, unowned |-> FALSE, holds |-> {},
   version |-> 0, reason |-> "scan", authority |-> "score",
   inserted |-> FALSE]

TypeOK ==
  /\ state      \in [Versions -> State]
  /\ content    \in [Versions -> Contents \cup {NoContent}]
  /\ holds      \in [Versions -> SUBSET HoldReason]
  /\ decided    \in [Versions -> [HoldReason -> Decided]]
  /\ latest     \in 0..MaxVersion
  /\ prose      \in 0..MaxVersion
  /\ spec       \in 0..MaxVersion
  /\ events     \in [Versions -> Nat]
  /\ exactRule  \in {NoRule} \cup SUBSET Users
  /\ prefixRule \in {NoRule} \cup SUBSET Users
  /\ req        \in [Requests -> Request]

Init ==
  /\ state   = [v \in Versions |-> "none"]
  /\ content = [v \in Versions |-> NoContent]
  /\ holds   = [v \in Versions |-> {}]
  /\ decided = [v \in Versions |-> [r \in HoldReason |-> "none"]]
  /\ latest = 0 /\ prose = 0 /\ spec = 0
  /\ events = [v \in Versions |-> 0]
  /\ exactRule = NoRule /\ prefixRule = NoRule
  /\ req = [r \in Requests |-> NoRequest]

Done(r)     == req' = [req EXCEPT ![r] = NoRequest]
Goto(r, pc) == req' = [req EXCEPT ![r].pc = pc]
At(r, op, pc) == req[r].op = op /\ req[r].pc = pc

-----------------------------------------------------------------------------
(* Ownership: the exact rule, else the longest prefix, else nobody.        *)

Governing == IF exactRule # NoRule THEN exactRule ELSE prefixRule

Unowned    == Governing = NoRule
IsOwner(u) == u \in Admins \/ (~Unowned /\ u \in Governing)

ResolveForPublish(u) ==
  [evaluated |-> TRUE, isOwner |-> IsOwner(u), unowned |-> Unowned]

(* Someone who may manage a rule writes it or deletes it; a deleted user    *)
(* leaves the rules they were on, the last one a rule without members.      *)
SetRule ==
  /\ \E members \in RuleLists \ {{}} :
       \/ exactRule'  = members /\ UNCHANGED prefixRule
       \/ prefixRule' = members /\ UNCHANGED exactRule
  /\ UNCHANGED <<versionVars, skillVars, req>>

DeleteRule ==
  /\ \/ exactRule'  = NoRule /\ UNCHANGED prefixRule
     \/ prefixRule' = NoRule /\ UNCHANGED exactRule
  /\ UNCHANGED <<versionVars, skillVars, req>>

MemberGone(u) ==
  /\ exactRule'  = IF exactRule = NoRule THEN NoRule ELSE exactRule \ {u}
  /\ prefixRule' = IF prefixRule = NoRule THEN NoRule ELSE prefixRule \ {u}
  /\ UNCHANGED <<versionVars, skillVars, req>>

-----------------------------------------------------------------------------
(* Publish. *)

(* The highest number in use; the skill's row is locked while it is read.   *)
Newest == CHOOSE n \in 0..MaxVersion :
            /\ n = 0 \/ state[n] # "none"
            /\ \A v \in Versions : state[v] # "none" => v <= n

(* The bound on versions leaves room for the publishes under way. *)
Room == Newest + Cardinality({r \in Requests :
          req[r].op = "publish" /\ req[r].version = 0}) < MaxVersion

StartPublish(r, u, c, override) ==
  /\ req[r].op = "none"
  /\ Room
  /\ req' = [req EXCEPT ![r] = [NoRequest EXCEPT
               !.op = "publish", !.pc = "resolve", !.user = u, !.content = c,
               !.override = override /\ u \in Admins, !.seen = latest]]
  /\ UNCHANGED <<versionVars, skillVars, ruleVars>>

(* The decision is made from the ownership of this moment.  A refused       *)
(* bundle and one that equals the version the request saw served end here.  *)
Resolve(r) ==
  LET c == req[r].content
      o == ResolveForPublish(req[r].user)
      p == [floor |-> Floor, override |-> req[r].override]
  IN  /\ At(r, "publish", "resolve")
      /\ IF \/ DecidePublish(ScanOf[c], o, p) = "block"
            \/ req[r].seen > 0 /\ content[req[r].seen] = c
         THEN Done(r)
         ELSE req' = [req EXCEPT
                ![r].pc = "create", ![r].seen = 0, ![r].override = FALSE,
                ![r].unowned = o.unowned,
                ![r].holds = Holds(ScanOf[c], Unmeasured, o, p)]
      /\ UNCHANGED <<versionVars, skillVars, ruleVars>>

LargerOf(v, w) == IF v >= w THEN v ELSE w

(* mutant: a bare assignment instead of GREATEST. *)
AdvanceAlways(v) == v

Advance(v) == LargerOf(latest, v)

(* One transaction: the row of the new version, and for one that is served *)
(* the pointer, the prose and the release event.                            *)
CreateVersion(r) ==
  LET n == Newest + 1
      released == req[r].holds = {}
  IN  /\ At(r, "publish", "create")
      /\ n \in Versions
      /\ state'   = [state EXCEPT ![n] = IF released THEN "released"
                                                     ELSE "needs_review"]
      /\ content' = [content EXCEPT ![n] = req[r].content]
      /\ holds'   = [holds EXCEPT ![n] = req[r].holds]
      /\ latest'  = IF released THEN Advance(n) ELSE latest
      /\ prose'   = IF released THEN n ELSE prose
      /\ events'  = IF released THEN [events EXCEPT ![n] = @ + 1] ELSE events
      /\ req' = [req EXCEPT
           ![r].version = n, ![r].content = NoContent, ![r].holds = {},
           ![r].pc = IF released THEN "spec" ELSE "claim"]
      /\ UNCHANGED <<decided, spec, ruleVars>>

(* A statement of its own after the commit, whose error is dropped. *)
UpdateSpecFields(r) ==
  /\ At(r, "publish", "spec")
  /\ spec' \in {req[r].version, spec}
  /\ Goto(r, "claim")
  /\ UNCHANGED <<versionVars, latest, prose, events, ruleVars>>

(* The first version of a name the request saw unowned makes its publisher *)
(* the sole owner; a failure to do so is only logged.                       *)
ClaimOnFirstPublish(r) ==
  /\ At(r, "publish", "claim")
  /\ \/ /\ req[r].unowned /\ req[r].version = 1
        /\ exactRule' = {req[r].user}
     \/ UNCHANGED exactRule
  /\ Done(r)
  /\ UNCHANGED <<versionVars, skillVars, prefixRule>>

(* The storage or the database fails, or the publisher's connection goes.   *)
AbandonPublish(r) ==
  /\ At(r, "publish", "resolve") \/ At(r, "publish", "create")
  /\ Done(r)
  /\ UNCHANGED <<versionVars, skillVars, ruleVars>>

-----------------------------------------------------------------------------
(* Review.  Decision rows of open transactions are visible only to them.    *)

Approved(v) == {h \in HoldReason : decided[v][h] \in Authority}
Outstanding(v) == holds[v] \ Approved(v)

(* mutant: a skill's owner clears any reason. *)
AuthorityOfOwner(u, reason) ==
  IF u \in Admins THEN {"admin"} ELSE IF IsOwner(u) THEN {"owner"} ELSE {}

(* Who may decide a reason: an admin either, an owner the ownership one.    *)
AuthorityOf(u, reason) ==
  IF u \in Admins THEN {"admin"}
  ELSE IF reason = "ownership" /\ IsOwner(u) THEN {"owner"}
  ELSE {}

(* The version is looked up and its outstanding reasons are read. *)
StartReview(r, op, u, v, reason) ==
  /\ req[r].op = "none"
  /\ state[v] = "needs_review"
  /\ reason \in Outstanding(v)
  /\ req' = [req EXCEPT ![r] = [NoRequest EXCEPT
               !.op = op, !.pc = "authorise", !.user = u,
               !.version = v, !.reason = reason]]
  /\ UNCHANGED <<versionVars, skillVars, ruleVars>>

Authorise(r) ==
  LET granted == AuthorityOf(req[r].user, req[r].reason)
  IN  /\ req[r].op \in {"approve", "reject"} /\ req[r].pc = "authorise"
      /\ IF granted = {} THEN Done(r)
         ELSE \E a \in granted :
                req' = [req EXCEPT ![r].pc = "insert", ![r].user = NoUser,
                                   ![r].authority = a]
      /\ UNCHANGED <<versionVars, skillVars, ruleVars>>

(* What a report must bring for Reconsider to approve the scan of v. *)
Clears(v, q, derived) == ~derived /\ Reclears(ScanOf[content[v]], q, Floor)

(* A report's Reconsider: only the version's state is looked at, not what   *)
(* is outstanding, and only the scan reason is approved.                    *)
Reconsider(r, v, q, derived) ==
  /\ req[r].op = "none"
  /\ state[v] = "needs_review"
  /\ Clears(v, q, derived)
  /\ req' = [req EXCEPT ![r] = [NoRequest EXCEPT
               !.op = "approve", !.pc = "insert",
               !.version = v, !.reason = "scan", !.authority = "score"]]
  /\ UNCHANGED <<versionVars, skillVars, ruleVars>>

(* Requests whose open transaction has inserted a row for v. *)
Inserting(v) == {r \in Requests : req[r].inserted /\ req[r].version = v}

(* The unique index makes an insert wait for another open one of the same   *)
(* version and reason.                                                      *)
Conflicting(r) == {s \in Inserting(req[r].version) : req[s].reason = req[r].reason}

InsertApproval(r) ==
  /\ At(r, "approve", "insert")
  /\ Conflicting(r) = {}
  /\ req' = [req EXCEPT ![r].pc = "count",
       ![r].inserted = decided[req[r].version][req[r].reason] = "none"]
  /\ UNCHANGED <<versionVars, skillVars, ruleVars>>

(* Its own row counts, those of other open transactions do not. *)
CountOutstanding(r) ==
  LET own == IF req[r].inserted THEN {req[r].reason} ELSE {}
  IN  /\ At(r, "approve", "count")
      /\ Goto(r, IF Outstanding(req[r].version) \ own = {}
                 THEN "release" ELSE "commit")
      /\ UNCHANGED <<versionVars, skillVars, ruleVars>>

(* The rows the transaction of r adds. *)
WithOwnRow(r) ==
  IF req[r].inserted
  THEN [decided EXCEPT ![req[r].version][req[r].reason] = req[r].authority]
  ELSE decided

CommitApproval(r) ==
  /\ At(r, "approve", "commit")
  /\ decided' = WithOwnRow(r)
  /\ Done(r)
  /\ UNCHANGED <<state, content, holds, skillVars, ruleVars>>

Announce(v) == IF state[v] = "released" THEN events
               ELSE [events EXCEPT ![v] = @ + 1]

(* mutant: a rejected version can be released. *)
ReleasableAny(v) == TRUE

Releasable(v) == state[v] # "rejected"

(* mutant: the release goes through the pool instead of the executor it is  *)
(* given, and waits for the row its own transaction holds.                  *)
LocksOutside(r) == Inserting(req[r].version) = {}

(* An open insert of another transaction holds the version's row for its    *)
(* foreign key, and the release waits for it.                               *)
Locks(r) == Inserting(req[r].version) \subseteq {r}

(* The pointer never goes back; prose and spec are recomputed for whatever  *)
(* it points at.                                                            *)
ReleaseVersion(r) ==
  LET v == req[r].version
  IN  /\ At(r, "approve", "release")
      /\ Locks(r)
      /\ Releasable(v)
      /\ state'   = [state EXCEPT ![v] = "released"]
      /\ latest'  = Advance(v)
      /\ prose'   = latest'
      /\ spec'    = latest'
      /\ events'  = Announce(v)
      /\ decided' = WithOwnRow(r)
      /\ Done(r)
      /\ UNCHANGED <<content, holds, ruleVars>>

(* A rejected version refuses the release, and any statement may fail: the  *)
(* transaction rolls back.                                                  *)
AbandonReview(r) ==
  /\ req[r].op \in {"approve", "reject"}
  /\ Done(r)
  /\ UNCHANGED <<versionVars, skillVars, ruleVars>>

Rejectable(v) == state[v] = "needs_review"

(* One transaction: the row, unless one is there, and the terminal state.   *)
RejectReason(r) ==
  LET v == req[r].version
      reason == req[r].reason
  IN  /\ At(r, "reject", "insert")
      /\ Conflicting(r) = {}
      /\ IF Rejectable(v)
         THEN /\ state' = [state EXCEPT ![v] = "rejected"]
              /\ decided' = [decided EXCEPT ![v][reason] =
                               IF @ = "none" THEN "rejected" ELSE @]
         ELSE UNCHANGED <<state, decided>>
      /\ Done(r)
      /\ UNCHANGED <<content, holds, skillVars, ruleVars>>

-----------------------------------------------------------------------------
Publishing(r) ==
  \/ \E u \in Users, c \in Contents, override \in BOOLEAN :
       StartPublish(r, u, c, override)
  \/ Resolve(r) \/ CreateVersion(r) \/ UpdateSpecFields(r)
  \/ ClaimOnFirstPublish(r) \/ AbandonPublish(r)

Reviewing(r) ==
  \/ \E op \in {"approve", "reject"}, u \in Users, v \in Versions,
        reason \in HoldReason : StartReview(r, op, u, v, reason)
  \/ \E v \in Versions, q \in Evidence, derived \in BOOLEAN :
       Reconsider(r, v, q, derived)
  \/ Authorise(r) \/ InsertApproval(r) \/ CountOutstanding(r)
  \/ CommitApproval(r) \/ ReleaseVersion(r) \/ AbandonReview(r)
  \/ RejectReason(r)

Managing ==
  \/ SetRule \/ DeleteRule
  \/ \E u \in Users : MemberGone(u)

Next ==
  \/ \E r \in Requests : Publishing(r) \/ Reviewing(r)
  \/ Managing

Spec == Init /\ [][Next]_vars

(* A request that has begun is served to its end; a transaction that waits  *)
(* for a lock gets it in its turn.                                          *)
Progress(r) ==
  \/ Resolve(r) \/ CreateVersion(r) \/ UpdateSpecFields(r)
  \/ ClaimOnFirstPublish(r) \/ Authorise(r) \/ CountOutstanding(r)
  \/ CommitApproval(r) \/ RejectReason(r) \/ ReleaseVersion(r)
  \/ (At(r, "approve", "release") /\ ~Releasable(req[r].version)
      /\ AbandonReview(r))

Fairness == \A r \in Requests : SF_vars(Progress(r) \/ InsertApproval(r))

FairSpec == Spec /\ Fairness

-----------------------------------------------------------------------------
(* Clients are served the newest released version with its own prose, never *)
(* a held or a rejected one, however late an older version is released      *)
(* (store.go and gate_store.go, GREATEST and the backfill).                 *)
LatestIsNewestRelease ==
  /\ latest # 0 => state[latest] = "released"
  /\ \A v \in Versions : state[v] = "released" => v <= latest
  /\ prose = latest

(* Each release is announced once, whoever releases, and nothing else is    *)
(* (gate_store.go ReleaseVersion, "a second release ... must emit nothing").*)
OneEventPerRelease ==
  \A v \in Versions : events[v] = (IF state[v] = "released" THEN 1 ELSE 0)

(* A version that is served carried no unappealable finding, and each       *)
(* reason it was held for was cleared by someone entitled to: the scan by   *)
(* an admin or a score, the ownership by an admin or an owner, never by a   *)
(* score (review_routes.go step 4, release.go "clears scan only").          *)
Entitled(reason) == IF reason = "scan" THEN {"admin", "score"}
                                       ELSE {"admin", "owner"}
ServedIsVetted ==
  \A v \in Versions : state[v] = "released" =>
    /\ ~Refused(ScanOf[content[v]])
    /\ \A h \in holds[v] : decided[v][h] \in Entitled(h)

(* The inductive invariant.  Version numbers have no gap; ...               *)
NumberedWithoutGap ==
  \E n \in 0..MaxVersion : \A v \in Versions : state[v] # "none" <=> v <= n

(* ... a version's bundle passed the gate, and what was decided of it was   *)
(* decided by someone entitled to; ...                                      *)
VersionOK(v) ==
  /\ state[v] # "none" =>
       content[v] \in Contents /\ ~Refused(ScanOf[content[v]])
  /\ \A h \in HoldReason :
       decided[v][h] \in {"none", "rejected"} \cup Entitled(h)
  /\ state[v] = "released" => \A h \in holds[v] : decided[v][h] \in Authority

(* ... a publish that is about to store a bundle has seen it pass; ...      *)
PublishOK(r) ==
  /\ req[r].user \in Users
  /\ ~req[r].inserted
  /\ req[r].pc \in {"resolve", "create", "spec", "claim"}
  /\ req[r].pc \in {"resolve", "create"} => req[r].content \in Contents
  /\ req[r].pc = "create" => ~Refused(ScanOf[req[r].content])
  /\ req[r].pc \in {"spec", "claim"} => req[r].version \in Versions

(* ... and a review is of a version that exists, with an authority entitled *)
(* to it; a row it has inserted is the only one of its version and reason,  *)
(* open or committed; and a release is under way only when every reason is  *)
(* approved, by a committed row or by its own.                              *)
ReviewOK(r) ==
  LET v == req[r].version
      reason == req[r].reason
  IN  /\ v \in Versions /\ state[v] # "none"
      /\ req[r].pc \in {"authorise", "insert", "count", "commit", "release"}
      /\ req[r].op = "reject" => req[r].pc \in {"authorise", "insert"}
      /\ req[r].pc = "authorise" => req[r].user \in Users
      /\ req[r].pc # "authorise" => req[r].authority \in Entitled(reason)
      /\ req[r].inserted =>
           /\ req[r].pc \in {"count", "commit", "release"}
           /\ decided[v][reason] = "none"
           /\ \A s \in Inserting(v) \ {r} : req[s].reason # reason
      /\ req[r].pc = "release" =>
           \A h \in holds[v] :
             decided[v][h] \in Authority \/ (req[r].inserted /\ h = reason)

RequestOK(r) ==
  /\ req[r].op = "none" => ~req[r].inserted
  /\ req[r].op = "publish" => PublishOK(r)
  /\ req[r].op \in {"approve", "reject"} => ReviewOK(r)

IInv ==
  /\ TypeOK
  /\ NumberedWithoutGap
  /\ LatestIsNewestRelease
  /\ OneEventPerRelease
  /\ \A v \in Versions : VersionOK(v)
  /\ \A r \in Requests : RequestOK(r)

(* No request waits for ever, for a lock or otherwise. *)
RequestsFinish == \A r \in Requests : req[r].op # "none" ~> req[r].op = "none"

(* The versions are VersionBook's: numbered without a gap, decided once,    *)
(* and the pointer moves only to a version newer than every served one.     *)
Book == INSTANCE VersionBook WITH book <- state, served <- latest

ImplementsBook == Book!BookSpec

-----------------------------------------------------------------------------
(* What comments of the code say and the interleavings below refute.        *)

(* approvals.go:28-30: an approval "releases the version if that was the    *)
(* last one outstanding", so a version nobody is deciding has one.          *)
HeldHasOutstanding ==
  \A v \in Versions :
    /\ state[v] = "needs_review"
    /\ ~\E r \in Requests : req[r].op = "approve" /\ req[r].version = v
    => Outstanding(v) # {}

(* publisher.go:320: the metadata is persisted "only for a version that is  *)
(* actually being served".                                                  *)
SpecIsServed == [][spec' # spec => spec' = latest']_vars

(* resolver.go:61: the first publish claims only an unowned name, "which is *)
(* what keeps a covering rule winning over first publish".                  *)
CoveringRuleWins ==
  [][\A r \in Requests :
       (At(r, "publish", "claim") /\ req'[r] = NoRequest /\ exactRule' # exactRule)
         => Unowned]_vars
=============================================================================
