------------------------------ MODULE Sandboxes ------------------------------
(* What a run leaves in somebody else's hands: the containers, networks,     *)
(* pods, policies and services a sandbox driver creates for one command      *)
(* (eval/sandbox/docker, kubernetes, northflank), while several workers and  *)
(* whetstone processes share the daemon, the namespace or the project, are   *)
(* cancelled or killed, and lose the answer to a request that was carried    *)
(* out. A process sweeps what an earlier one left before its first run.      *)
(* Not modelled: what runs inside, images and their layers; a process's      *)
(* concurrent runs share nothing but the process, so each has one at a time. *)
EXTENDS Naturals, Sequences, FiniteSetsExt, SequencesExt

CONSTANTS Procs,       \* workers and whetstone processes
          Drivers,     \* subset of {"docker", "kubernetes", "northflank"}
          Namespaces,  \* pid namespaces: the host's, each container's
          Pids,        \* process ids
          Policies,    \* network policies that runs ask for
          MaxRuns,     \* bound: runs of all processes together
          MaxFaults    \* bound: answers lost and removals failed

VARIABLES driver,     \* the driver of this installation
          enforced,   \* network policies are enforced: docker's own are; elsewhere the
                      \* operator says so
          space,      \* process -> the pid namespace it lives in
          pid,        \* process -> its pid, 0 when it is not running
          before,     \* process -> runs of its earlier lives
          stage,      \* process -> where its run is
          n,          \* process -> the number of its run
          net,        \* process -> the network policy of its run
          made,       \* process -> what its run has created, in order
          todo,       \* process -> what its run has yet to remove
          cancelled,  \* process -> its context is cancelled
          res,        \* process -> what its run reported
          back,       \* process -> the workspace is the run's, on this side
          faults,     \* answers lost and removals failed so far
          things      \* what exists: [kind, proc, n, ns, pid, known, old]

fixed == <<driver, enforced, space>>
vars == <<fixed, pid, before, stage, n, net, made, todo, cancelled, res, back, faults, things>>

Kinds == {"network", "proxy", "config", "policy", "session"}
Nets == {"none", "allowlist", "full"}
Stages == {"down", "sweeping", "idle", "creating", "staging", "running", "collecting", "removing"}
Up(p) == pid[p] # 0
Bound(p) == stage[p] \in {"staging", "running", "collecting"}

Thing == [kind: Kinds, proc: Procs, n: Nat, ns: Namespaces, pid: Pids,
          known: {"held", "lost", "stuck"}, old: BOOLEAN]

TypeOK ==
  /\ driver \in Drivers /\ enforced \in BOOLEAN /\ space \in [Procs -> Namespaces]
  /\ pid \in [Procs -> Pids \cup {0}] /\ stage \in [Procs -> Stages]
  /\ before \in [Procs -> Nat] /\ n \in [Procs -> Nat] /\ net \in [Procs -> Nets]
  /\ made \in [Procs -> Seq(Kinds)] /\ todo \in [Procs -> Seq(Kinds)]
  /\ res \in [Procs -> {"none", "exited", "timedout", "cancelled", "error"}]
  /\ cancelled \in [Procs -> BOOLEAN] /\ back \in [Procs -> BOOLEAN]
  /\ faults \in 0..MaxFaults /\ things \subseteq Thing
  /\ \A p \in Procs: (Up(p) <=> stage[p] # "down") /\ before[p] <= n[p] /\ IsInjective(made[p])

Init ==
  /\ driver \in Drivers /\ enforced \in BOOLEAN /\ space \in [Procs -> Namespaces]
  /\ driver = "docker" => enforced
  /\ pid = [p \in Procs |-> 0] /\ stage = [p \in Procs |-> "down"]
  /\ before = [p \in Procs |-> 0] /\ n = [p \in Procs |-> 0]
  /\ net = [p \in Procs |-> "full"] /\ res = [p \in Procs |-> "none"]
  /\ made = [p \in Procs |-> <<>>] /\ todo = [p \in Procs |-> <<>>]
  /\ cancelled = [p \in Procs |-> FALSE] /\ back = [p \in Procs |-> FALSE]
  /\ faults = 0 /\ things = {}

-----------------------------------------------------------------------------
(* Drivers.                                                                  *)

(* What a run creates, in this order.                                        *)
Needs(d, policy) ==
  CASE d = "docker" /\ policy = "allowlist" -> <<"network", "proxy", "session">>
    [] d = "kubernetes" /\ policy = "allowlist" -> <<"config", "proxy", "policy", "session">>
    [] d = "kubernetes" /\ policy = "none" -> <<"policy", "session">>
    [] OTHER -> <<"session">>

(* What a run that has its session removes: deferred calls, last one first.  *)
Ended(d, policy) == Reverse(Needs(d, policy))

(* What is removed when creating something fails. Only docker's proxy is     *)
(* removed itself: its request may have been carried out all the same.       *)
Undone(d, policy, kind) ==
  CASE d = "docker" /\ kind = "proxy" -> <<"proxy", "network">>
    [] d = "kubernetes" /\ kind = "proxy" -> <<"config">>
    [] d = "kubernetes" /\ kind = "policy" /\ policy = "allowlist" -> <<"proxy", "config">>
    [] kind = "session" -> Tail(Ended(d, policy))
    [] OTHER -> <<>>

(* A driver refuses a policy that it cannot be shown to enforce.             *)
Supports(policy) == policy = "full" \/ enforced

(* docker removes no network with a container attached to it.                *)
Removable(t) ==
  t.kind = "network" =>
    ~\E o \in things: o.proc = t.proc /\ o.n = t.n /\ o.kind \in {"proxy", "session"}

Mine(p, kind) == {t \in things: t.proc = p /\ t.n = n[p] /\ t.kind = kind}
Lost(p) == Mine(p, "session") = {}

-----------------------------------------------------------------------------
(* The sweep at the start of a process.                                      *)

(* What the drivers' sweeps list: every labelled container and network, every*)
(* service with the owner's label. The kubernetes driver has no sweep.       *)
Swept == IF driver = "kubernetes" THEN {} ELSE things

Alive(ns, id) == \E q \in Procs: Up(q) /\ space[q] = ns /\ pid[q] = id

(* mutant: age alone makes an orphan                                         *)
OrphanedByAge(p, t) == driver = "northflank" \/ t.old
(* docker: over a minute old, and of a pid that is not alive, as the         *)
(* sweeping process sees pids. northflank asks nothing of what it listed.    *)
Orphaned(p, t) == driver = "northflank" \/ (t.old /\ ~Alive(space[p], t.pid))

Start(p) ==
  /\ ~Up(p)
  /\ \E id \in Pids:
       /\ ~Alive(space[p], id)
       /\ pid' = [pid EXCEPT ![p] = id]
  /\ stage' = [stage EXCEPT ![p] = "sweeping"]
  /\ before' = [before EXCEPT ![p] = n[p]]
  /\ UNCHANGED <<fixed, n, net, made, todo, cancelled, res, back, faults, things>>

(* Containers come before networks (see Removable). What is no orphan, or meets an error, is *)
(* passed over.                                                              *)
SweepOne(p) ==
  /\ stage[p] = "sweeping"
  /\ \E t \in Swept:
       /\ Orphaned(p, t) /\ Removable(t)
       /\ things' = things \ {t}
  /\ UNCHANGED <<fixed, pid, before, stage, n, net, made, todo, cancelled, res, back, faults>>

SweepEnds(p) ==
  /\ stage[p] = "sweeping"
  /\ stage' = [stage EXCEPT ![p] = "idle"]
  /\ UNCHANGED <<fixed, pid, before, n, net, made, todo, cancelled, res, back, faults, things>>

-----------------------------------------------------------------------------
(* A run.                                                                    *)

SumRuns == FoldSet(LAMBDA q, sum: n[q] + sum, 0, Procs)

Begin(p) ==
  /\ stage[p] = "idle" /\ ~cancelled[p] /\ SumRuns < MaxRuns
  /\ \E policy \in Policies:
       /\ Supports(policy)
       /\ net' = [net EXCEPT ![p] = policy]
  /\ n' = [n EXCEPT ![p] = @ + 1]
  /\ stage' = [stage EXCEPT ![p] = "creating"]
  /\ made' = [made EXCEPT ![p] = <<>>] /\ todo' = [todo EXCEPT ![p] = <<>>]
  /\ UNCHANGED <<fixed, pid, before, cancelled, res, back, faults, things>>

Next1(p) == Needs(driver, net[p])[Len(made[p]) + 1]
New(p, known) ==
  [kind |-> Next1(p), proc |-> p, n |-> n[p], ns |-> space[p], pid |-> pid[p],
   known |-> known, old |-> FALSE]

(* A run that stops removes what it holds, and reports.                      *)
Stops(p, list, how) ==
  /\ todo' = [todo EXCEPT ![p] = list]
  /\ stage' = [stage EXCEPT ![p] = "removing"]
  /\ res' = [res EXCEPT ![p] = how]

Create(p) ==
  /\ stage[p] = "creating"
  /\ \/ /\ ~cancelled[p]
        /\ things' = things \cup {New(p, "held")}
        /\ made' = [made EXCEPT ![p] = Append(@, Next1(p))]
        /\ IF Len(made[p]) + 1 < Len(Needs(driver, net[p])) THEN UNCHANGED stage
           ELSE stage' = [stage EXCEPT ![p] = IF driver = "docker" THEN "running" ELSE "staging"]
        /\ UNCHANGED <<todo, res, faults>>
     \/ \* refused, out of time or cancelled: the request was carried out or not
        /\ \/ UNCHANGED <<faults, things>>
           \/ /\ faults < MaxFaults /\ faults' = faults + 1
              /\ things' = things \cup {New(p, "lost")}
        /\ \E how \in {"error"} \cup (IF driver = "docker" /\ Next1(p) = "session"
                                      THEN IF cancelled[p] THEN {"cancelled"} ELSE {"timedout"}
                                      ELSE {}):
             Stops(p, Undone(driver, net[p], Next1(p)), how)
        /\ UNCHANGED made
     \/ \* the proxy that was made is never seen running
        /\ driver = "kubernetes" /\ made[p] # <<>> /\ Last(made[p]) = "policy"
        /\ net[p] = "allowlist"
        /\ Stops(p, <<"policy", "proxy", "config">>, "error")
        /\ UNCHANGED <<made, faults, things>>
  /\ UNCHANGED <<fixed, pid, before, n, net, cancelled, back>>

(* The workspace is copied in when the sandbox runs; docker mounts it.       *)
StageIn(p) ==
  /\ stage[p] = "staging"
  /\ \/ /\ ~Lost(p) /\ ~cancelled[p]
        /\ stage' = [stage EXCEPT ![p] = "running"]
        /\ UNCHANGED <<todo, res>>
     \/ Stops(p, Ended(driver, net[p]), IF cancelled[p] THEN "cancelled" ELSE "error")
  /\ UNCHANGED <<fixed, pid, before, n, net, made, cancelled, back, faults, things>>

(* The command has run: what it left is still to be copied out, but on       *)
(* docker's mount.                                                           *)
Exits(p) ==
  IF driver = "docker"
  THEN Stops(p, Ended(driver, net[p]), "exited") /\ back' = [back EXCEPT ![p] = TRUE]
  ELSE /\ stage' = [stage EXCEPT ![p] = "collecting"]
       /\ UNCHANGED <<todo, res, back>>

Finish(p) ==
  /\ stage[p] = "running"
  /\ \/ ~Lost(p) /\ ~cancelled[p] /\ Exits(p)
     \/ /\ Stops(p, Ended(driver, net[p]), IF cancelled[p] THEN "cancelled" ELSE "timedout")
        /\ UNCHANGED back
     \/ ~cancelled[p] /\ Stops(p, Ended(driver, net[p]), "error") /\ UNCHANGED back
  /\ UNCHANGED <<fixed, pid, before, n, net, made, cancelled, faults, things>>

(* On a context of its own, that a cancelled run does not cancel.            *)
Collect(p) ==
  /\ stage[p] = "collecting"
  /\ \/ ~Lost(p) /\ Stops(p, Ended(driver, net[p]), "exited") /\ back' = [back EXCEPT ![p] = TRUE]
     \/ Stops(p, Ended(driver, net[p]), "error") /\ UNCHANGED back
  /\ UNCHANGED <<fixed, pid, before, n, net, made, cancelled, faults, things>>

(* Removals ignore their errors, and the cancelled context.                  *)
Removes(p) ==
  /\ stage[p] = "removing" /\ todo[p] # <<>>
  /\ todo' = [todo EXCEPT ![p] = Tail(@)]
  /\ LET mine == Mine(p, Head(todo[p])) IN
       \/ (\A t \in mine: Removable(t)) /\ things' = things \ mine /\ UNCHANGED faults
       \/ /\ IF \A t \in mine: Removable(t) THEN faults < MaxFaults /\ faults' = faults + 1
             ELSE UNCHANGED faults
          /\ things' = (things \ mine) \cup {[t EXCEPT !.known = "stuck"]: t \in mine}
  /\ UNCHANGED <<fixed, pid, before, stage, n, net, made, cancelled, res, back>>

(* A worker polls for the next job; a cancelled one ends here.               *)
End(p) ==
  /\ \/ stage[p] = "removing" /\ todo[p] = <<>>
     \/ stage[p] = "idle" /\ cancelled[p]
  /\ stage' = [stage EXCEPT ![p] = IF cancelled[p] THEN "down" ELSE "idle"]
  /\ pid' = [pid EXCEPT ![p] = IF cancelled[p] THEN 0 ELSE @]
  /\ made' = [made EXCEPT ![p] = <<>>] /\ cancelled' = [cancelled EXCEPT ![p] = FALSE]
  /\ res' = [res EXCEPT ![p] = "none"] /\ back' = [back EXCEPT ![p] = FALSE]
  /\ net' = [net EXCEPT ![p] = "full"]
  /\ UNCHANGED <<fixed, before, n, todo, faults, things>>

-----------------------------------------------------------------------------
(* SIGINT or SIGTERM cancels the context; anything stronger ends the process.*)
Cancel(p) ==
  /\ Up(p) /\ stage[p] # "sweeping" /\ ~cancelled[p]
  /\ cancelled' = [cancelled EXCEPT ![p] = TRUE]
  /\ UNCHANGED <<fixed, pid, before, stage, n, net, made, todo, res, back, faults, things>>

Killed(p) ==
  /\ Up(p)
  /\ pid' = [pid EXCEPT ![p] = 0] /\ stage' = [stage EXCEPT ![p] = "down"]
  /\ made' = [made EXCEPT ![p] = <<>>] /\ todo' = [todo EXCEPT ![p] = <<>>]
  /\ cancelled' = [cancelled EXCEPT ![p] = FALSE]
  /\ res' = [res EXCEPT ![p] = "none"] /\ back' = [back EXCEPT ![p] = FALSE]
  /\ net' = [net EXCEPT ![p] = "full"]
  /\ UNCHANGED <<fixed, before, n, faults, things>>

(* SweepMinAge passes.                                                       *)
Ages ==
  /\ \E t \in things: ~t.old
  /\ things' = {[t EXCEPT !.old = TRUE]: t \in things}
  /\ UNCHANGED <<fixed, pid, before, stage, n, net, made, todo, cancelled, res, back, faults>>

Next ==
  \/ \E p \in Procs: \/ Start(p) \/ SweepOne(p) \/ SweepEnds(p)
                     \/ Begin(p) \/ Create(p) \/ StageIn(p) \/ Finish(p) \/ Collect(p)
                     \/ Removes(p) \/ End(p) \/ Cancel(p) \/ Killed(p)
  \/ Ages

Spec == Init /\ [][Next]_vars

-----------------------------------------------------------------------------
(* What exists is a run's in progress, which will remove it; or a request's  *)
(* whose answer was lost, or a removal's that failed; or an ended process's. *)
(* "a leaked network per run exhausts Docker's address pool" (network.go:90).*)
NothingForgotten ==
  \A t \in things:
    \/ t.known # "held" \/ ~Up(t.proc) \/ t.n <= before[t.proc]
    \/ /\ t.n = n[t.proc]
       /\ \/ stage[t.proc] = "removing" /\ t.kind \in ToSet(todo[t.proc])
          \/ stage[t.proc] # "removing" /\ t.kind \in ToSet(made[t.proc])

(* Whoever sweeps sees that p is alive: docker's sweep looks for pids, of    *)
(* which a process sees its own namespace's; northflank's looks for nothing, *)
(* and kubernetes has none.                                                  *)
Seen(p) ==
  /\ driver # "northflank"
  /\ driver = "docker" => \A q \in Procs: space[q] = space[p]

(* A sweep takes what the dead left, never the sandbox of a run in progress  *)
(* of a process that can be seen, though it lists them all (sweep.go:18-22). *)
RunKeepsItsSandbox == \A p \in Procs: Bound(p) /\ Seen(p) => ~Lost(p)

(* A session that may not reach everything has what confines it for as long  *)
(* as it exists in a process that lives, unless its own removal failed.      *)
SessionsAreConfined ==
  \A t \in things:
    t.kind = "session" /\ t.known = "held" /\ Up(t.proc) /\ t.n > before[t.proc] /\ Seen(t.proc) =>
      \A kind \in ToSet(Needs(driver, net[t.proc])): Mine(t.proc, kind) # {}

(* A run is reported as having exited only with its workspace on this side:  *)
(* "a partial mirror is indistinguishable from a skill that produced         *)
(* nothing" (sandbox.go:73-74).                                              *)
ExitedIsMirrored == \A p \in Procs: res[p] = "exited" => back[p]

(* What was asked of the sweep, in whatever namespace the processes live:    *)
(* "A live pid is never touched regardless of age" (sweep.go:22).            *)
LivePidsAreSpared == driver = "docker" => \A p \in Procs: Bound(p) => ~Lost(p)
==============================================================================
