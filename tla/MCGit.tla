-------------------------------- MODULE MCGit --------------------------------
(* What the registry does with a repository, one part at a time: submissions *)
(* as changes of the branch, the sync of a connection, the checks and the    *)
(* contests of pull requests, and the GitHub App they all go through, which  *)
(* is the one whose events and jobs MCEvents is about.  A behaviour is of    *)
(* the part its first state picks; the others stay as they begin.            *)
EXTENDS MCEvents, Sequences

CONSTANTS
  Subs, Pulls, Reviewers, Runs, Forced, Contents, Held, Blocked, MaxCommit,
  MaxVersion, First,
  A, B, C, dir1, dir2, Ids, Outside, MaxTree, MaxPeople,
  r, MaxHead, MaxContest, Syncs,
  Regimes, NameOrder, PathOrder, PullOrder, Setups

(* Names stand apart from the value for none of them.                        *)
ASSUME AppAssumption == "none" \notin Apps \cup Flows /\ MaxPush \in Nat \ {0}

ASSUME ChangesAssumption ==
  /\ "none" \notin Subs \cup Pulls /\ First \in Contents
  /\ MaxCommit \in Nat \ {0} /\ {MaxVersion, MaxCrash} \subseteq Nat
ASSUME SyncAssumption ==
  /\ "none" \notin {NameOrder[k] : k \in DOMAIN NameOrder} \cup {PathOrder[k] : k \in DOMAIN PathOrder}
  /\ {MaxTree, MaxPeople} \subseteq Nat

(* Besides the ordinary, a behaviour of the submissions meets one of these.  *)
OneOfEach == {{}, {"second"}, {"detach"}, {"crash"}, {"propose"}, {"overlap"}}

ThreeNames == <<A, B, C>>
TwoPaths   == <<dir1, dir2>>
OnePull    == <<r>>

(* The pull request: what overlaps, fails or comes back, the setting, what   *)
(* the scan makes of its two heads, and where it comes from.                 *)
Setup(x, m, c, f, d, k) ==
  [happens |-> x, mode |-> m, content |-> [i \in {r} |-> c],
   fork |-> f, draft |-> d, skill |-> [i \in {r} |-> k]]

EightSetups ==
  {Setup({}, "ready", <<"pass", "pass">>, FALSE, FALSE, "released"),
   Setup({}, "ready", <<"pass", "block">>, TRUE, FALSE, "none"),
   Setup({}, "ready", <<"none", "pass">>, FALSE, TRUE, "released"),
   Setup({}, "request", <<"pass", "pass">>, FALSE, FALSE, "none"),
   Setup({}, "off", <<"pass", "pass">>, FALSE, FALSE, "released"),
   Setup({"back"}, "request", <<"block", "pass">>, FALSE, FALSE, "released"),
   Setup({"fail"}, "ready", <<"pass", "block">>, FALSE, FALSE, "released"),
   Setup({"overlap"}, "request", <<"pass", "none">>, TRUE, FALSE, "released")}

VARIABLES
  branch, pull, change, sub, version, bound, synced, run, review, orphaned, losses, regime,
  tree, skill, ignored, refused, connected, syncRun, disturbed, stranded, pushes,
  people, deaths,
  happens, mode, content, listed, touched, check, kept, contest, posted, shown, wanted, sync

G == INSTANCE GitChanges WITH crashes <- losses
S == INSTANCE GitSync WITH MaxPush <- MaxTree, run <- syncRun, crashes <- deaths
K == INSTANCE PullChecks WITH
       pull <- listed, skill <- touched, head <- kept, asked <- wanted

(* Pull requests are listed in an order, and start as the setups say.        *)
ASSUME ChecksAssumption ==
  /\ MaxHead \in Nat \ {0} /\ MaxContest \in Nat
  /\ Len(PullOrder) \in Nat /\ DOMAIN PullOrder = 1..Len(PullOrder)
  /\ \A u \in Setups : /\ u.happens \subseteq K!Happening /\ u.mode \in {"off", "request", "ready"}
                      /\ {u.fork, u.draft} \subseteq BOOLEAN

gVars == <<branch, pull, change, sub, version, bound, synced, run, review, orphaned,
           losses, regime>>
sVars == <<tree, skill, ignored, refused, connected, syncRun, disturbed, stranded,
           pushes, people, deaths>>
kVars == <<happens, mode, content, listed, touched, check, kept, contest, posted,
           shown, wanted, sync>>
every == <<part, vars, hVars, gVars, sVars, kVars>>

GitInit ==
  /\ part \in {"changes", "sync", "checks", "app"}
  /\ Init /\ H!Init
  /\ G!Init /\ (part # "changes" => regime = {} /\ ~bound)
  /\ S!Init /\ (part # "sync" => tree[dir1] = A)
  /\ K!Init /\ (part # "checks" => mode = "off")

Changes == part = "changes" /\ G!Next /\ UNCHANGED <<part, vars, hVars, sVars, kVars>>
Checks  == part = "checks"  /\ K!Next /\ UNCHANGED <<part, vars, hVars, gVars, sVars>>
App     == InApp(H!Next) /\ UNCHANGED <<gVars, sVars, kVars>>

(* A sync meets two of: a push, a person's act, the death of its process,    *)
(* and only the first of these twice.                                        *)
Sync == part = "sync" /\ S!Next /\ pushes' + people' + deaths' <= 2 /\ people' + deaths' <= 1
                      /\ UNCHANGED <<part, vars, hVars, gVars, kVars>>

GitNext == Changes \/ Sync \/ Checks \/ App
GitSpec == GitInit /\ [][GitNext]_every

-----------------------------------------------------------------------------
(* An approved submission names the version its change was linked to, or one *)
(* with its own content; two reviewers do not both publish it; and after a   *)
(* sync the connection is in step with its branch (submissions/routes.go).   *)
ApprovalHasItsVersion ==
  part = "changes" => G!TypeOK /\ G!ApprovalHasItsVersion /\ G!PublishedOnce /\ G!SyncedIsInStep

(* A submission is decided once, by a reviewer or by the sync of its change, *)
(* and until then waits on one change.  A sync never takes over a skill that *)
(* a person made (submissions/store.go, gitsync/reconcile.go).               *)
DecidedOnce ==
  [][/\ part = "changes" => G!DecidedStaysStep /\ G!WaitsOnOneChangeStep
     /\ part = "sync"    => S!NoTakeoverStep]_<<gVars, sVars>>

(* A sync that nobody disturbed leaves every folder bound or refused and     *)
(* every bound skill without a folder marked removed; a folder it refuses    *)
(* leaves nothing behind (gitsync/reconcile.go).                             *)
SyncMatchesTree == part = "sync" => S!TypeOK /\ S!SyncMatchesTree /\ S!NothingLeftBehind

(* A head of a pull request has at most one contest and keeps what a request *)
(* needs to start it; no fork and no blocked head has one unasked; and what  *)
(* a contest references is not dropped (gitsync/pulls.go).                   *)
ChecksCoverTheHead ==
  part = "checks" => /\ K!TypeOK
                     /\ K!OncePerHead       /\ K!ContestsAreAllowed
                     /\ K!CheckedHeadIsKept /\ K!DropsUnreferencedQuietly

(* A manifest state brings one App, and the audit trail names the App that   *)
(* is connected (githubapp/routes.go).                                       *)
TrailTellsTheApp == part = "app" => H!TypeOK /\ H!StatesServeOnce /\ H!TrailTellsTheApp
=============================================================================
