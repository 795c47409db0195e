---------------------------- MODULE LocalSkills -----------------------------
(* Skills on a developer's machine: skael add, remove and sync keep the list *)
(* in config.json, what was placed in state.json and the agents' directories *)
(* in step with the registry (cli/sync.go, add.go, remove.go, config); skael *)
(* pull swaps a whole directory for a set's bundle (cli/pull.go). A hook     *)
(* starts a sync in the background of anything else, and any command may be  *)
(* killed between two of its steps.                                          *)
(* The detected agents, --agent, the scope and the working directory decide  *)
(* which directories a command places a skill in: a choice. Putting one      *)
(* directory in place is one step, and so is reading and writing state.json  *)
(* at the end of add and remove. Assumed: one pull of a directory at a time, *)
(* and nobody puts anything there by hand meanwhile.                         *)
EXTENDS Naturals, FiniteSets

CONSTANTS Managed,      \* skills that are added and removed
          Listed,       \* skills that sets name
          Hand,         \* what people put into the pulled directory
          Dirs,         \* the agents' skill directories
          Shared,       \* the one of them that pulls write: .agents/skills
          Slots,        \* bound: commands under way at a time
          MaxVersion,   \* bound: versions of a skill
          MaxRuns       \* bound: commands

VARIABLES served,    \* served[s]: the version the registry serves, 0: none
          config,    \* config.json: the skills that are to be there
          record,    \* state.json: record[s], what was placed where
          made,      \* the directories that exist
          disk,      \* disk[d][n]: what directory d has under name n
          manifest,  \* manifest.json in the pulled directory
          left,      \* entries put by hand that stayed in a left-over backup
          hand,      \* entries put by hand so far
          run,       \* run[p]: the command in slot p and how far it is
          runs       \* commands started

vars == <<served, config, record, made, disk, manifest, left, hand, run, runs>>

Skills == Managed \cup Listed
Names == Skills \cup Hand
Versions == 0..MaxVersion
Trees == [Names -> Versions]
NoTree == [n \in Names |-> 0]
NoRecord == [version |-> 0, at |-> {}]
Records == [version: Versions, at: SUBSET Dirs]
NoManifest == [s \in {} |-> 0]

Idle == [at |-> "idle"]
CommandStates ==
  {Idle}
  \cup [at: {"listed"}, wanted: SUBSET Managed, seen: [Managed -> Versions]]
  \cup [at: {"syncing"}, seen: [Managed -> Versions], pending: SUBSET Managed,
        pruned: [Managed -> SUBSET Dirs], got: [Managed -> Records]]
  \cup [at: {"adding", "added"}, skill: Managed, wanted: SUBSET Managed, version: Versions]
  \cup [at: {"placed"}, skill: Managed, record: Records]
  \cup [at: {"removing", "unlisted"}, skill: Managed, wanted: SUBSET Managed]
  \cup [at: {"resolved"}, set: [Skills -> Versions]]
  \cup [at: {"staged", "aside"}, set: [Skills -> Versions], stage: Trees, backup: Trees]

TypeOK ==
  /\ served \in [Skills -> Versions]
  /\ config \subseteq Managed
  /\ record \in [Managed -> Records]
  /\ made \subseteq Dirs
  /\ disk \in [Dirs -> Trees]
  /\ manifest \in {NoManifest} \cup [Skills -> Versions]
  /\ left \subseteq Hand /\ hand \subseteq Hand
  /\ run \in [Slots -> CommandStates]
  /\ runs \in 0..MaxRuns
  /\ \A d \in Dirs \ made: disk[d] = NoTree

Init ==
  /\ served \in [Skills -> {1}]
  /\ config = {}
  /\ record = [s \in Managed |-> NoRecord]
  /\ made \in {{}, Dirs}
  /\ disk = [d \in Dirs |-> NoTree]
  /\ manifest = NoManifest
  /\ left = {} /\ hand = {}
  /\ run = [p \in Slots |-> Idle]
  /\ runs = 0

Goes(p, c) == run' = [run EXCEPT ![p] = c]
Starts(p, c) ==
  /\ run[p] = Idle
  /\ runs < MaxRuns
  /\ runs' = runs + 1
  /\ Goes(p, c)

Release(s) ==
  /\ served[s] < MaxVersion
  /\ served' = [served EXCEPT ![s] = @ + 1]
  /\ UNCHANGED <<config, record, made, disk, manifest, left, hand, run, runs>>

(* An agent, or a person, makes a skills directory; skael init puts the      *)
(* skael skill where pulls write.                                            *)
MakeDir(d) ==
  /\ d \notin made
  /\ \A p \in Slots: run[p].at \notin {"staged", "aside"}
  /\ made' = made \cup {d}
  /\ UNCHANGED <<served, config, record, disk, manifest, left, hand, run, runs>>

PutByHand(h) ==
  /\ h \notin hand
  /\ \A p \in Slots: run[p].at \notin {"staged", "aside"}
  /\ hand' = hand \cup {h}
  /\ made' = made \cup {Shared}
  /\ disk' = [disk EXCEPT ![Shared][h] = 1]
  /\ UNCHANGED <<served, config, record, manifest, left, run, runs>>

-----------------------------------------------------------------------------
(* Placing an archive in some directories: each is unpacked beside its place *)
(* and swapped in, or fails and leaves what was there. A skills directory    *)
(* that does not exist is not made.                                          *)
Placed(ok, n, v) == [d \in Dirs |-> IF d \in ok THEN [disk[d] EXCEPT ![n] = v] ELSE disk[d]]
Placeable == SUBSET made

(* Removing what is recorded; a path may fail and stays.                     *)
Cleared(paths, n) == [d \in Dirs |-> IF d \in paths THEN [disk[d] EXCEPT ![n] = 0] ELSE disk[d]]

-----------------------------------------------------------------------------
(* skael sync: the list and the manifest, then state.json, decide what to    *)
(* fetch and what to prune. A sync of an empty list does nothing.            *)
SyncStarts(p) ==
  /\ config # {}
  /\ Starts(p, [at |-> "listed", wanted |-> config, seen |-> [s \in Managed |-> served[s]]])
  /\ UNCHANGED <<served, config, record, made, disk, manifest, left, hand>>

Pending(c) == {s \in c.wanted: c.seen[s] # 0 /\ record[s].version # c.seen[s]}
Prunable(c) == {s \in Managed \ c.wanted: record[s].at # {}}

(* What is neither fetched nor pruned is carried over. The record of a skill *)
(* that is fetched is not, even when that fails.                             *)
SyncDiffs(p) ==
  LET c == run[p] IN
  /\ c.at = "listed"
  /\ Goes(p, IF Pending(c) \cup Prunable(c) = {} THEN Idle ELSE
       [at |-> "syncing", seen |-> c.seen, pending |-> Pending(c),
        pruned |-> [s \in Managed |-> IF s \in Prunable(c) THEN record[s].at ELSE {}],
        got |-> [s \in Managed |-> IF s \in Pending(c) \cup Prunable(c) THEN NoRecord ELSE record[s]]])
  /\ UNCHANGED <<served, config, record, made, disk, manifest, left, hand, runs>>

(* A download that fails, or that no directory took, is not recorded.        *)
SyncPlaces(p) ==
  LET c == run[p] IN
  /\ c.at = "syncing"
  /\ \E s \in c.pending, ok \in Placeable:
       /\ disk' = Placed(ok, s, c.seen[s])
       /\ Goes(p, [c EXCEPT !.pending = @ \ {s},
                            !.got[s] = IF ok = {} THEN NoRecord ELSE [version |-> c.seen[s], at |-> ok]])
  /\ UNCHANGED <<served, config, record, made, manifest, left, hand, runs>>

SyncPrunes(p) ==
  LET c == run[p] IN
  /\ c.at = "syncing"
  /\ c.pending = {}
  /\ \E s \in Managed:
       /\ c.pruned[s] # {}
       /\ \E ok \in SUBSET c.pruned[s]: disk' = Cleared(ok, s)
       /\ Goes(p, [c EXCEPT !.pruned[s] = {}])
  /\ UNCHANGED <<served, config, record, made, manifest, left, hand, runs>>

SyncWrites(p) ==
  LET c == run[p] IN
  /\ c.at = "syncing"
  /\ c.pending = {} /\ \A s \in Managed: c.pruned[s] = {}
  /\ record' = c.got
  /\ Goes(p, Idle)
  /\ UNCHANGED <<served, config, made, disk, manifest, left, hand, runs>>

-----------------------------------------------------------------------------
(* skael add: a skill that is there in this scope is left alone. The list is *)
(* written before the archive is fetched, the record whatever was placed.    *)
AddStarts(p, s) ==
  /\ served[s] # 0
  /\ Starts(p, [at |-> "adding", skill |-> s, wanted |-> config, version |-> served[s]])
  /\ UNCHANGED <<served, config, record, made, disk, manifest, left, hand>>

AddLists(p) ==
  LET c == run[p] IN
  /\ c.at = "adding"
  /\ config' = c.wanted \cup {c.skill}
  /\ Goes(p, [c EXCEPT !.at = "added"])
  /\ UNCHANGED <<served, record, made, disk, manifest, left, hand, runs>>

AddPlaces(p) ==
  LET c == run[p] IN
  /\ c.at = "added"
  /\ \E ok \in Placeable:
       /\ disk' = Placed(ok, c.skill, c.version)
       /\ Goes(p, [at |-> "placed", skill |-> c.skill, record |-> [version |-> c.version, at |-> ok]])
  /\ UNCHANGED <<served, config, record, made, manifest, left, hand, runs>>

AddRecords(p) ==
  /\ run[p].at = "placed"
  /\ record' = [record EXCEPT ![run[p].skill] = run[p].record]
  /\ Goes(p, Idle)
  /\ UNCHANGED <<served, config, made, disk, manifest, left, hand, runs>>

(* skael remove: off the list, then the recorded directories and the record. *)
RemoveStarts(p, s) ==
  /\ s \in config
  /\ Starts(p, [at |-> "removing", skill |-> s, wanted |-> config])
  /\ UNCHANGED <<served, config, record, made, disk, manifest, left, hand>>

RemoveLists(p) ==
  LET c == run[p] IN
  /\ c.at = "removing"
  /\ config' = c.wanted \ {c.skill}
  /\ Goes(p, [c EXCEPT !.at = "unlisted"])
  /\ UNCHANGED <<served, record, made, disk, manifest, left, hand, runs>>

RemoveClears(p) ==
  LET s == run[p].skill IN
  /\ run[p].at = "unlisted"
  /\ disk' = Cleared(record[s].at, s)
  /\ record' = [record EXCEPT ![s] = NoRecord]
  /\ Goes(p, Idle)
  /\ UNCHANGED <<served, config, made, manifest, left, hand, runs>>

-----------------------------------------------------------------------------
(* skael pull: a complete resolution, whose bundle is fetched and verified   *)
(* before anything is written.                                               *)
Pulling(p) == run[p].at \in {"resolved", "staged", "aside"}

PullStarts(p) ==
  /\ \A q \in Slots: ~Pulling(q)
  /\ \E set \in [Skills -> Versions]:
       /\ \A s \in Skills: set[s] <= (IF s \in Listed THEN served[s] ELSE 0)
       /\ Starts(p, [at |-> "resolved", set |-> set])
  /\ UNCHANGED <<served, config, record, made, disk, manifest, left, hand>>

(* mutant: without a manifest, everything there is the previous pull's       *)
WrittenUnlessListed(n) == manifest = NoManifest \/ (n \in Skills /\ manifest[n] # 0)
(* The previous pull's manifest names what it wrote.                         *)
Written(n) == n \in DOMAIN manifest /\ manifest[n] # 0

(* The new directory: the set's skills and whatever the previous pull did    *)
(* not write.                                                                *)
PullStages(p) ==
  LET c == run[p] IN
  /\ c.at = "resolved"
  /\ Goes(p, [at |-> "staged", set |-> c.set, backup |-> NoTree, stage |-> [n \in Names |->
       CASE n \in Skills /\ c.set[n] # 0 -> c.set[n]
         [] OTHER -> IF Written(n) THEN 0 ELSE disk[Shared][n]]])
  /\ UNCHANGED <<served, config, record, made, disk, manifest, left, hand, runs>>

Swapped(p) ==
  /\ disk' = [disk EXCEPT ![Shared] = run[p].stage]
  /\ manifest' = run[p].set
  /\ made' = made \cup {Shared}
  /\ Goes(p, Idle)

(* Two renames: the old directory aside, the new one into its place; then    *)
(* the old one is deleted.                                                   *)
PullSetsAside(p) ==
  /\ run[p].at = "staged"
  /\ IF Shared \notin made THEN Swapped(p)
     ELSE /\ Goes(p, [run[p] EXCEPT !.at = "aside", !.backup = disk[Shared]])
          /\ disk' = [disk EXCEPT ![Shared] = NoTree]
          /\ made' = made \ {Shared}
          /\ manifest' = NoManifest
  /\ UNCHANGED <<served, config, record, left, hand, runs>>

PullSwaps(p) ==
  /\ run[p].at = "aside"
  /\ Shared \notin made
  /\ Swapped(p)
  /\ UNCHANGED <<served, config, record, left, hand, runs>>

(* A command that fails, or is killed, leaves what it has done. A pull's     *)
(* backup stays under a name of its own.                                     *)
Stops(p) ==
  /\ run[p] # Idle
  /\ left' = left \cup (IF run[p].at = "aside" THEN {h \in Hand: run[p].backup[h] # 0} ELSE {})
  /\ Goes(p, Idle)
  /\ UNCHANGED <<served, config, record, made, disk, manifest, hand, runs>>

Next ==
  \/ \E s \in Skills: Release(s)
  \/ \E d \in Dirs: MakeDir(d)
  \/ \E h \in Hand: PutByHand(h)
  \/ \E p \in Slots:
       \/ SyncStarts(p) \/ SyncDiffs(p) \/ SyncPlaces(p) \/ SyncPrunes(p) \/ SyncWrites(p)
       \/ \E s \in Managed: AddStarts(p, s) \/ RemoveStarts(p, s)
       \/ AddLists(p) \/ AddPlaces(p) \/ AddRecords(p) \/ RemoveLists(p) \/ RemoveClears(p)
       \/ PullStarts(p) \/ PullStages(p) \/ PullSetsAside(p) \/ PullSwaps(p) \/ Stops(p)

Spec == Init /\ [][Next]_vars

-----------------------------------------------------------------------------
(* "Hand-placed skills survive a pull" (pull.go:289-290): whatever is killed *)
(* between two renames and whichever syncs run beside it, what a person put  *)
(* there is there, or in a backup that nothing deletes.                      *)
HandMadeStays ==
  \A h \in hand:
    \/ disk[Shared][h] = 1
    \/ h \in left
    \/ \E p \in Slots: run[p].at = "aside" /\ run[p].backup[h] = 1

(* The pulled directory is one resolution, all of it and nothing of another: *)
(* its manifest and its skills belong together after every failure, and a    *)
(* skill that the set dropped is gone (pull.go:236-238). For the names that  *)
(* only sets place.                                                          *)
PulledIsOneResolution ==
  manifest # NoManifest => \A s \in Listed \ Managed: disk[Shared][s] = manifest[s]

-----------------------------------------------------------------------------
(* skael add "extracts to all detected agent directories" (cli.md:45), and   *)
(* of a skill that no directory took sync.go:378 says "mark as failed and    *)
(* don't record": what is recorded at the version the registry serves is     *)
(* somewhere.                                                                *)
InstalledIsThere ==
  (\A p \in Slots: run[p] = Idle) =>
    \A s \in config: record[s].version = served[s] => \E d \in Dirs: disk[d][s] = served[s]
=============================================================================
