----------------------------- MODULE PullChecks -----------------------------
(***************************************************************************)
(* The checks on pull requests (src/internal/gitsync/pulls.go).  Each sync  *)
(* of a connection lists the open pull requests, checks each head once,     *)
(* starts the contests that the setting and the requests allow, writes      *)
(* their results on the check run and drops what closed pull requests left. *)
(* Meanwhile people push, close, label and ask for contests, and contests   *)
(* end.                                                                     *)
(*                                                                          *)
(* A pull request touches at most one skill folder here, of a skill of its  *)
(* own; its heads are numbered.                                             *)
(***************************************************************************)
EXTENDS Naturals, Sequences, SequencesExt

CONSTANTS
  PullOrder,   \* pull requests, in the order GitHub lists them
  MaxHead,     \* heads of a pull request
  MaxContest,  \* bound on the contests ever created
  Syncs,       \* syncs of the connection that may run at the same time
  Setups       \* what a behaviour may start from: what happens in it, the
               \* setting, what the scan makes of each head, the pull requests
               \* and whether their skills are there

PullIds  == ToSet(PullOrder)
Heads    == 1..MaxHead
Contests == 1..MaxContest

(* Two syncs overlap; a call fails or the process dies; an earlier head is  *)
(* back, by a push or with its pull request.                                *)
Happening == {"overlap", "fail", "back"}

VARIABLES
  happens, mode,  \* what this behaviour meets; git_connections.contest_mode
  content,        \* what the scan makes of each head
  pull,           \* the pull requests on GitHub
  skill,          \* the skill each one touches
  check, head,    \* git_pr_checks, git_pr_heads
  contest,        \* contests, and the head each has as a candidate
  posted, shown,  \* heads with a check run on GitHub; what the newest shows of a contest
  asked,          \* heads a person asked a contest for, by label or button
  sync            \* each sync's progress

vars == <<happens, mode, content, pull, skill, check, head, contest, posted, shown, asked, sync>>

NoCheck   == [there |-> FALSE, run |-> FALSE, requested |-> FALSE]
NoHead    == [there |-> FALSE, skill |-> FALSE, contest |-> 0, reported |-> FALSE]
NoContest == [state |-> "none", of |-> <<>>]
IdleSync  == [at |-> "idle", list |-> <<>>, todo |-> {}, run |-> FALSE, contest |-> 0]

Per(v) == [PullIds -> [Heads -> v]]

TypeOK ==
  /\ happens \subseteq Happening /\ mode \in {"off", "request", "ready"}
  /\ check \in Per([there : BOOLEAN, run : BOOLEAN, requested : BOOLEAN])
  /\ head \in Per([there : BOOLEAN, skill : BOOLEAN, contest : 0..MaxContest, reported : BOOLEAN])
  /\ shown \in Per({"none", "running", "ended"})
  /\ \A c \in Contests : contest[c].state \in {"none", "made", "queued", "ended"}
  /\ \A p \in PullIds, h \in Heads :
       /\ head[p][h].contest # 0 => contest[head[p][h].contest].of = <<p, h>>
       /\ shown[p][h] # "none" => posted[p][h]

Init ==
  /\ \E u \in Setups :
       /\ happens = u.happens /\ mode = u.mode /\ content = u.content /\ skill = u.skill
       /\ pull = [p \in PullIds |-> [open |-> TRUE, at |-> 1, label |-> FALSE,
                                   fork |-> u.fork, draft |-> u.draft]]
  /\ check = [p \in PullIds |-> [h \in Heads |-> NoCheck]]
  /\ head = [p \in PullIds |-> [h \in Heads |-> NoHead]]
  /\ contest = [c \in Contests |-> NoContest]
  /\ posted = [p \in PullIds |-> [h \in Heads |-> FALSE]]
  /\ shown = [p \in PullIds |-> [h \in Heads |-> "none"]]
  /\ asked = {}
  /\ sync = [s \in Syncs |-> IdleSync]

-----------------------------------------------------------------------------
(* People and GitHub. *)
Push(p, h) ==
  /\ pull[p].open /\ h # pull[p].at
  /\ h = pull[p].at + 1 \/ "back" \in happens
  /\ pull' = [pull EXCEPT ![p].at = h]
  /\ UNCHANGED <<happens, mode, content, skill, check, head, contest, posted, shown, asked, sync>>

CloseOrReopen(p) ==
  /\ pull[p].open \/ "back" \in happens
  /\ pull' = [pull EXCEPT ![p].open = ~@]
  /\ UNCHANGED <<happens, mode, content, skill, check, head, contest, posted, shown, asked, sync>>

MarkReady(p) ==
  /\ pull[p].draft
  /\ pull' = [pull EXCEPT ![p].draft = FALSE]
  /\ UNCHANGED <<happens, mode, content, skill, check, head, contest, posted, shown, asked, sync>>

Label(p) ==
  /\ ~pull[p].label
  /\ pull' = [pull EXCEPT ![p].label = TRUE]
  /\ asked' = asked \cup {p}
  /\ UNCHANGED <<happens, mode, content, skill, check, head, contest, posted, shown, sync>>

(* RequestContest: the check run's button, or Skael's. *)
RequestContest(p, h) ==
  /\ check[p][h].there /\ ~check[p][h].requested
  /\ check' = [check EXCEPT ![p][h].requested = TRUE]
  /\ asked' = asked \cup {p}
  /\ UNCHANGED <<happens, mode, content, pull, skill, head, contest, posted, shown, sync>>

(* The skill is published and released, by this connection's syncs or else. *)
ReleaseSkill(p) ==
  /\ skill[p] = "none"
  /\ skill' = [skill EXCEPT ![p] = "released"]
  /\ UNCHANGED <<happens, mode, content, pull, check, head, contest, posted, shown, asked, sync>>

(* Done or failed. *)
EndContest(c) ==
  /\ contest[c].state = "queued"
  /\ contest' = [contest EXCEPT ![c].state = "ended"]
  /\ UNCHANGED <<happens, mode, content, pull, skill, check, head, posted, shown, asked, sync>>

-----------------------------------------------------------------------------
(* One sync.  at and todo say how far it is; of what is to do, the pull     *)
(* request that was listed first comes first.                               *)
Pull(s) == PullOrder[CHOOSE k \in DOMAIN PullOrder :
                       /\ PullOrder[k] \in sync[s].todo
                       /\ \A i \in 1..(k - 1) : PullOrder[i] \notin sync[s].todo]
At(s)   == sync[s].list[Pull(s)].at
Is(s, at) == sync[s].at = at
Goes(s, at) == [sync EXCEPT ![s].at = at]

NextPull(s) ==
  LET rest == sync[s].todo \ {Pull(s)} IN
  [sync EXCEPT ![s].todo = rest, ![s].at = IF rest = {} THEN "drop" ELSE "check"]

(* OpenPulls *)
List(s) ==
  LET open == {p \in PullIds : pull[p].open} IN
  /\ Is(s, "idle")
  /\ "overlap" \in happens \/ \A t \in Syncs : Is(t, "idle")
  /\ sync' = [sync EXCEPT ![s] = [IdleSync EXCEPT
       !.at = IF open = {} THEN "drop" ELSE "check", !.list = pull, !.todo = open]]
  /\ UNCHANGED <<happens, mode, content, pull, skill, check, head, contest, posted, shown, asked>>

(* checkPull and storeHead: the archive, then the row, with the skill there *)
(* is by now.  An archive's path is its row's key, so the two are one.      *)
Check(s) ==
  LET p == Pull(s)
      h == At(s)
  IN
  /\ Is(s, "check")
  /\ \/ /\ check[p][h].there /\ sync' = Goes(s, "contest") /\ UNCHANGED head
     \/ /\ ~check[p][h].there /\ content[p][h] = "none"
        /\ sync' = [Goes(s, "record") EXCEPT ![s].run = FALSE] /\ UNCHANGED head
     \/ /\ ~check[p][h].there /\ content[p][h] # "none"
        /\ head' = IF head[p][h].there THEN head
                   ELSE [head EXCEPT ![p][h] = [NoHead EXCEPT !.there = TRUE, !.skill = skill[p] # "none"]]
        /\ sync' = Goes(s, "post")
  /\ UNCHANGED <<happens, mode, content, pull, skill, check, contest, posted, shown, asked>>

(* CreateCheckRun: GitHub may be out of reach, which leaves no run.  A new  *)
(* run hides an earlier one of the head.                                    *)
Post(s, reached) ==
  LET p == Pull(s)
      h == At(s)
  IN
  /\ Is(s, "post") /\ (reached \/ "fail" \in happens)
  /\ posted' = [posted EXCEPT ![p][h] = @ \/ reached]
  /\ shown' = IF reached THEN [shown EXCEPT ![p][h] = "none"] ELSE shown
  /\ sync' = [Goes(s, "record") EXCEPT ![s].run = reached]
  /\ UNCHANGED <<happens, mode, content, pull, skill, check, head, contest, asked>>

(* recordCheck: a row that is there by now stays. *)
RecordCheck(s) ==
  LET p == Pull(s)
      h == At(s)
  IN
  /\ Is(s, "record")
  /\ check' = IF check[p][h].there THEN check
              ELSE [check EXCEPT ![p][h] = [NoCheck EXCEPT !.there = TRUE, !.run = sync[s].run]]
  /\ sync' = Goes(s, "contest")
  /\ UNCHANGED <<happens, mode, content, pull, skill, head, contest, posted, shown, asked>>

(* maybeContest: a request, a label, or a ready pull request of no fork.    *)
Wanted(s) ==
  LET pr == sync[s].list[Pull(s)] IN
  /\ mode # "off" /\ check[Pull(s)][At(s)].there
  /\ check[Pull(s)][At(s)].requested \/ pr.label \/ (mode = "ready" /\ ~pr.draft /\ ~pr.fork)

Contestable(p, h) ==
  /\ head[p][h].there /\ head[p][h].contest = 0 /\ content[p][h] # "block"
  /\ skill[p] = "released"

(* startContest, up to its row; a head checked before its skill was there   *)
(* is given the skill first.                                                *)
StartContest(s, c) ==
  LET p == Pull(s)
      h == At(s)
  IN
  /\ Is(s, "contest") /\ Wanted(s) /\ Contestable(p, h)
  /\ contest[c].state = "none" /\ \A b \in 1..(c - 1) : contest[b].state # "none"
  /\ head' = [head EXCEPT ![p][h].skill = TRUE]
  /\ contest' = [contest EXCEPT ![c] = [state |-> "made", of |-> <<p, h>>]]
  /\ sync' = [Goes(s, "submit") EXCEPT ![s].contest = c]
  /\ UNCHANGED <<happens, mode, content, pull, skill, check, posted, shown, asked>>

NoContestNow(s) ==
  /\ Is(s, "contest") /\ ~(Wanted(s) /\ Contestable(Pull(s), At(s)))
  /\ sync' = Goes(s, "report")
  /\ UNCHANGED <<happens, mode, content, pull, skill, check, head, contest, posted, shown, asked>>

(* Submit and AttachJob; a job that cannot be queued fails the contest and  *)
(* the sync.                                                                *)
Submit(s, queued) ==
  LET c == sync[s].contest IN
  /\ Is(s, "submit") /\ (queued \/ "fail" \in happens)
  /\ contest' = [contest EXCEPT ![c].state = IF queued THEN "queued" ELSE "ended"]
  /\ sync' = IF queued THEN Goes(s, "link") ELSE [sync EXCEPT ![s] = IdleSync]
  /\ UNCHANGED <<happens, mode, content, pull, skill, check, head, posted, shown, asked>>

Link(s) ==
  LET p == Pull(s)
      h == At(s)
  IN
  /\ Is(s, "link")
  /\ head' = IF head[p][h].there THEN [head EXCEPT ![p][h].contest = sync[s].contest] ELSE head
  /\ sync' = Goes(s, "report")
  /\ UNCHANGED <<happens, mode, content, pull, skill, check, contest, posted, shown, asked>>

Ended(c) == contest[c].state = "ended"

(* What reportContests leaves of a head's row: an ended contest is reported. *)
News(p, h) == [head[p][h] EXCEPT !.reported = @ \/ Ended(head[p][h].contest)]

(* reportContests marks the head before it writes the check run.            *)
Report(s) ==
  LET p == Pull(s)
      h == At(s)
      pending == head[p][h].contest # 0 /\ ~head[p][h].reported
  IN
  /\ Is(s, "report")
  /\ IF pending
     THEN /\ head' = [head EXCEPT ![p][h] = News(p, h)]
          /\ sync' = [Goes(s, "update") EXCEPT ![s].contest = head[p][h].contest,
                        ![s].run = Ended(head[p][h].contest)]
     ELSE sync' = NextPull(s) /\ UNCHANGED head
  /\ UNCHANGED <<happens, mode, content, pull, skill, check, contest, posted, shown, asked>>

HasRun(p, h) == check[p][h].run

(* UpdateCheckRun, with the state that was read; unreachable is ignored, an *)
(* error ends the sync.                                                     *)
Update(s, outcome) ==
  LET p == Pull(s)
      h == At(s)
  IN
  /\ Is(s, "update") /\ (outcome = "ok" \/ "fail" \in happens)
  /\ shown' = IF HasRun(p, h) /\ outcome = "ok"
              THEN [shown EXCEPT ![p][h] = IF sync[s].run THEN "ended" ELSE "running"]
              ELSE shown
  /\ sync' = IF (outcome = "error" /\ HasRun(p, h)) \/ ~check[p][h].there
             THEN [sync EXCEPT ![s] = IdleSync] ELSE NextPull(s)
  /\ UNCHANGED <<happens, mode, content, pull, skill, check, head, contest, posted, asked>>

(* mutant: the listed heads go and the others stay. *)
StaleSwapped(s) ==
  {x \in PullIds \X Heads :
     /\ head[x[1]][x[2]].there /\ head[x[1]][x[2]].contest = 0
     /\ sync[s].list[x[1]].open /\ sync[s].list[x[1]].at = x[2]}

(* The heads without a contest that are not the listed head of an open pull *)
(* request, and among them those a contest has as a candidate.              *)
Stale(s) ==
  {x \in PullIds \X Heads :
     /\ head[x[1]][x[2]].there /\ head[x[1]][x[2]].contest = 0
     /\ ~(sync[s].list[x[1]].open /\ sync[s].list[x[1]].at = x[2])}

Referenced(x) == \E c \in Contests : contest[c].of = x

(* dropClosed: one delete after the other; a candidate's row refuses its    *)
(* delete, and the sync ends before it reads a skill.                       *)
Drop(s) ==
  /\ Is(s, "drop")
  /\ \E gone \in SUBSET {x \in Stale(s) : ~Referenced(x)} :
       /\ gone = Stale(s) \/ \E x \in Stale(s) : Referenced(x)
       /\ head' = [p \in PullIds |-> [h \in Heads |-> IF <<p, h>> \in gone THEN NoHead ELSE head[p][h]]]
       /\ check' = IF gone # Stale(s) THEN check
                   ELSE [p \in PullIds |-> IF sync[s].list[p].open THEN check[p]
                                         ELSE [h \in Heads |-> NoCheck]]
  /\ sync' = [sync EXCEPT ![s] = IdleSync]
  /\ UNCHANGED <<happens, mode, content, pull, skill, contest, posted, shown, asked>>

Stop(s) ==
  /\ ~Is(s, "idle") /\ "fail" \in happens
  /\ sync' = [sync EXCEPT ![s] = IdleSync]
  /\ UNCHANGED <<happens, mode, content, pull, skill, check, head, contest, posted, shown, asked>>

Step(s) ==
  \/ List(s) \/ Check(s) \/ RecordCheck(s) \/ NoContestNow(s) \/ Link(s) \/ Report(s) \/ Drop(s)
  \/ \E reached \in BOOLEAN : Post(s, reached)
  \/ \E c \in Contests : StartContest(s, c)
  \/ \E queued \in BOOLEAN : Submit(s, queued)
  \/ \E outcome \in {"ok", "unreachable", "error"} : Update(s, outcome)

Next ==
  \/ \E p \in PullIds :
       \/ CloseOrReopen(p) \/ MarkReady(p) \/ Label(p) \/ ReleaseSkill(p)
       \/ \E h \in Heads : Push(p, h) \/ RequestContest(p, h)
  \/ \E c \in Contests : EndContest(c)
  \/ \E s \in Syncs : Step(s) \/ Stop(s)

(* The queue keeps giving a connection its syncs, and a sync goes on.       *)
Fairness == \A s \in Syncs : WF_vars(Step(s))

Spec == Init /\ [][Next]_vars /\ Fairness

-----------------------------------------------------------------------------
(* Each head is given one contest at most, however often it is listed,      *)
(* closed and opened again, labelled and asked for, unless syncs overlap or *)
(* fail, or a head comes back.                                              *)
OncePerHead ==
  happens = {} =>
    \A p \in PullIds, h \in Heads :
      \A b, c \in Contests : contest[b].of = <<p, h>> /\ contest[c].of = <<p, h>> => b = c

(* Strangers do not spend the budget and a blocked head is not run: a fork  *)
(* has a contest only when a person asked, and no blocked head has one,     *)
(* whatever overlaps, fails or comes back.                                  *)
ContestsAreAllowed ==
  \A c \in Contests : contest[c].state # "none" =>
    LET p == contest[c].of[1] IN
      /\ pull[p].fork => p \in asked
      /\ content[p][contest[c].of[2]] # "block"

(* The head of an open pull request that has a check has its row and its    *)
(* archive, so that a request can start its contest.                        *)
CheckedHeadIsKept ==
  (happens = {} /\ \A s \in Syncs : Is(s, "idle")) =>
    \A p \in PullIds : LET h == pull[p].at IN
      check[p][h].there /\ content[p][h] # "none" => head[p][h].there

(* dropClosed's promise (pulls.go:528-529): it drops only heads no contest  *)
(* references.                                                              *)
DropsUnreferenced ==
  \A s \in Syncs : Is(s, "drop") => \A x \in Stale(s) : ~Referenced(x)

(* The same, where no sync overlaps or fails. *)
DropsUnreferencedQuietly == happens \cap {"overlap", "fail"} = {} => DropsUnreferenced

(* The result of a contest on the head of an open pull request reaches the  *)
(* check run, unless a call fails.                                          *)
ResultsAreShown ==
  \A p \in PullIds, h \in Heads :
    (happens = {}) =>
      []((head[p][h].contest # 0 /\ Ended(head[p][h].contest)) =>
           <>(shown[p][h] = "ended" \/ ~pull[p].open \/ pull[p].at # h))
=============================================================================
