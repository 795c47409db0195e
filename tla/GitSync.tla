------------------------------ MODULE GitSync ------------------------------
(***************************************************************************)
(* A sync of one connection (src/internal/gitsync): the skill folders of    *)
(* the branch head against the registry's skills, their bindings and the    *)
(* names people detached.  People push, register, delete, adopt and detach  *)
(* while a sync runs, and a sync may stop after any of its statements.      *)
(*                                                                          *)
(* A folder is its path and the name it declares.  A skill's versions are   *)
(* left at whether it has any.                                              *)
(***************************************************************************)
EXTENDS Naturals, Sequences

CONSTANTS
  Ids,                    \* skill rows that may come to be
  NameOrder, PathOrder,   \* the names and paths, in their order
  Outside,                \* the names outside the connection's prefix
  MaxPush, MaxPeople, MaxCrash  \* bounds

Names == {NameOrder[k] : k \in DOMAIN NameOrder}
Paths == {PathOrder[k] : k \in DOMAIN PathOrder}
None  == "none"

VARIABLES
  tree,     \* the branch head: the name each path's folder declares
  skill,    \* skills with git_bindings.path and removed_from_git_at
  ignored,  \* git_connection_ignores
  refused,  \* git_connection_refusals: path to the name it declared
  connected,
  run,      \* the sync under way
  disturbed, \* since the last sync began, a person changed something
  stranded,  \* rows a sync that stopped had registered and never bound
  pushes, people, crashes

vars == <<tree, skill, ignored, refused, connected, run, disturbed,
          stranded, pushes, people, crashes>>

NoSkill == [name |-> None, path |-> None, removed |-> FALSE, versions |-> FALSE]
IdleRun == [at |-> "idle", tree |-> [p \in Paths |-> None], ignored |-> {}, rows |-> {}, bound |-> {},
            folders |-> {}, path |-> None, refused |-> [p \in Paths |-> None], created |-> FALSE]

(* x is the one of s that the order names first. *)
Earliest(order, s, x) ==
  /\ x \in s
  /\ \A y \in s : \A i, j \in DOMAIN order : order[i] = x /\ order[j] = y => i <= j

Row(n)     == {i \in Ids : skill[i].name = n}
Bound(i)   == skill[i].path # None
Folders(t) == {p \in Paths : t[p] # None}
Declaring(t, n) == {p \in Paths : t[p] = n}

TypeOK ==
  /\ tree \in [Paths -> Names \cup {None}]
  /\ skill \in [Ids -> [name : Names \cup {None}, path : Paths \cup {None},
                        removed : BOOLEAN, versions : BOOLEAN]]
  /\ \A i, j \in Ids : skill[i].name = skill[j].name /\ skill[i].name # None => i = j
  /\ \A i \in Ids : skill[i].name = None => skill[i] = NoSkill
  /\ ignored \subseteq Names /\ refused \in [Paths -> Names \cup {None}]
  /\ connected \in BOOLEAN /\ disturbed \in BOOLEAN /\ stranded \subseteq Ids
  /\ run.at \in {"idle", "rename", "folders", "publish", "bind", "removals"}
  /\ run.rows \cup run.bound \subseteq [id : Ids, name : Names, path : Paths, removed : BOOLEAN]
  /\ run.folders \subseteq Paths /\ run.path \in Paths \cup {None} /\ run.ignored \subseteq Names
  /\ pushes \in 0..MaxPush /\ people \in 0..MaxPeople /\ crashes \in 0..MaxCrash

Init ==
  /\ tree \in {t \in [Paths -> Names \cup {None}] : \E p \in Paths : Folders(t) = {p}}
  /\ skill = [i \in Ids |-> NoSkill] /\ ignored = {}
  /\ refused = [p \in Paths |-> None] /\ connected = TRUE /\ run = IdleRun
  /\ disturbed = FALSE /\ stranded = {}
  /\ pushes = 0 /\ people = 0 /\ crashes = 0

-----------------------------------------------------------------------------
(* People.  disturbed is kept until the next sync reads what they changed. *)
Person == people < MaxPeople /\ people' = people + 1 /\ disturbed' = TRUE

Push(p, n) ==
  /\ pushes < MaxPush /\ tree[p] # n
  /\ tree' = [tree EXCEPT ![p] = n] /\ pushes' = pushes + 1
  /\ UNCHANGED <<skill, ignored, refused, connected, run, disturbed, stranded, people, crashes>>

Register(i, n) ==
  /\ Person /\ skill[i] = NoSkill /\ Row(n) = {}
  /\ skill' = [skill EXCEPT ![i] = [NoSkill EXCEPT !.name = n, !.versions = TRUE]]
  /\ UNCHANGED <<tree, ignored, refused, connected, run, stranded, pushes, crashes>>

DeleteSkill(i) ==
  /\ Person /\ skill[i] # NoSkill
  /\ skill' = [skill EXCEPT ![i] = NoSkill] /\ stranded' = stranded \ {i}
  /\ UNCHANGED <<tree, ignored, refused, connected, run, pushes, crashes>>

(* Adopt: a folder the last sync refused, and the native skill of its name. *)
Adopt(p, i) ==
  /\ Person /\ connected /\ refused[p] # None /\ refused[p] \notin Outside
  /\ i \in Row(refused[p]) /\ ~Bound(i)
  /\ skill' = [skill EXCEPT ![i].path = p] /\ ignored' = ignored \ {refused[p]}
  /\ UNCHANGED <<tree, refused, connected, run, stranded, pushes, crashes>>

Detached(row) == [row EXCEPT !.path = None, !.removed = FALSE]

Detach(i) ==
  /\ Person /\ Bound(i)
  /\ skill' = [skill EXCEPT ![i] = Detached(@)]
  /\ ignored' = ignored \cup {skill[i].name}
  /\ UNCHANGED <<tree, refused, connected, run, stranded, pushes, crashes>>

(* Delete: the bindings, ignores and refusals go with the connection. *)
Disconnect ==
  /\ Person /\ connected
  /\ connected' = FALSE
  /\ skill' = [i \in Ids |-> Detached(skill[i])]
  /\ ignored' = {} /\ refused' = [p \in Paths |-> None]
  /\ UNCHANGED <<tree, run, stranded, pushes, crashes>>

-----------------------------------------------------------------------------
(* The sync reads the head, the bindings by name and the ignored names.     *)
Binding(i) == [id |-> i, name |-> skill[i].name, path |-> skill[i].path, removed |-> skill[i].removed]

Begin ==
  /\ run.at = "idle" /\ connected
  /\ run' = [IdleRun EXCEPT !.at = "rename", !.tree = tree, !.ignored = ignored,
               !.rows = {Binding(i) : i \in {j \in Ids : Bound(j)}}, !.folders = Folders(tree)]
  /\ disturbed' = FALSE
  /\ UNCHANGED <<tree, skill, ignored, refused, connected, stranded, pushes, people, crashes>>

(* mutant: two folders that declare one name are both accepted. *)
AcceptedTwice(p) ==
  LET n == run.tree[p] IN n # None /\ n \notin run.ignored /\ n \notin Outside

Accepted(p) ==
  LET n == run.tree[p] IN
    n # None /\ n \notin run.ignored /\ n \notin Outside /\ Declaring(run.tree, n) = {p}

Renames(b) == Declaring(run.tree, b.name) = {} /\ Accepted(b.path) /\ Row(run.tree[b.path]) = {}

(* rename, in the order of the names: the skill takes the folder's name;    *)
(* SkillSets has what its old name stands for.  The row is updated by id,   *)
(* whatever became of it.                                                   *)
Rename(b) ==
  LET n == run.tree[b.path] IN
  /\ run.at = "rename" /\ b \in run.rows
  /\ Earliest(NameOrder, {c.name : c \in run.rows}, b.name)
  /\ IF Renames(b)
     THEN /\ skill' = IF skill[b.id] = NoSkill THEN skill ELSE [skill EXCEPT ![b.id].name = n]
          /\ run' = [run EXCEPT !.rows = @ \ {b}, !.bound = @ \cup {[b EXCEPT !.name = n]}]
     ELSE /\ run' = [run EXCEPT !.rows = @ \ {b}, !.bound = @ \cup {b}]
          /\ UNCHANGED skill
  /\ UNCHANGED <<tree, ignored, refused, connected, disturbed, stranded, pushes, people, crashes>>

Renamed ==
  /\ run.at = "rename" /\ run.rows = {}
  /\ run' = [run EXCEPT !.at = "folders"]
  /\ UNCHANGED <<tree, skill, ignored, refused, connected, disturbed, stranded, pushes, people, crashes>>

(* A folder is done with; one that is refused is listed with its name.      *)
Done(p)   == [run EXCEPT !.at = "folders", !.folders = @ \ {p}, !.path = None, !.created = FALSE]
Refuse(p) == [Done(p) EXCEPT !.refused[p] = run.tree[p]]

(* A name the sync holds no binding for, as it read or renamed them, and    *)
(* that a skill has.                                                        *)
Taken(n) == {b \in run.bound : b.name = n} = {} /\ Row(n) # {}

(* One folder of apply, up to its publish.  A name neither bound nor taken  *)
(* is registered.                                                           *)
Folder(p, i) ==
  LET n == run.tree[p]
      mine == \E b \in run.bound : b.name = n
  IN
  /\ run.at = "folders" /\ Earliest(PathOrder, run.folders, p)
  /\ \/ /\ n \in run.ignored
        /\ run' = Done(p) /\ UNCHANGED skill
     \/ /\ n \notin run.ignored /\ (~Accepted(p) \/ Taken(n))
        /\ run' = Refuse(p) /\ UNCHANGED skill
     \/ /\ Accepted(p) /\ ~Taken(n) /\ (mine \/ Row(n) # {})
        /\ run' = [run EXCEPT !.at = "publish", !.path = p] /\ UNCHANGED skill
     \/ /\ Accepted(p) /\ ~mine /\ Row(n) = {} /\ skill[i] = NoSkill
        /\ skill' = [skill EXCEPT ![i] = [NoSkill EXCEPT !.name = n]]
        /\ run' = [run EXCEPT !.at = "publish", !.path = p, !.created = TRUE]
  /\ UNCHANGED <<tree, ignored, refused, connected, disturbed, stranded, pushes, people, crashes>>

(* undo: what the refused folder's row leaves to delete. *)
Undone(n) == {i \in Row(n) : run.created /\ ~skill[i].versions}

PublishFolder(accepts) ==
  LET p == run.path
      n == run.tree[p]
  IN
  /\ run.at = "publish"
  /\ IF accepts /\ Row(n) # {}
     THEN /\ skill' = [i \in Ids |-> IF i \in Row(n) THEN [skill[i] EXCEPT !.versions = TRUE] ELSE skill[i]]
          /\ run' = [run EXCEPT !.at = "bind"]
     ELSE /\ skill' = [i \in Ids |-> IF i \in Undone(n) THEN NoSkill ELSE skill[i]]
          /\ run' = Refuse(p)
  /\ UNCHANGED <<tree, ignored, refused, connected, disturbed, stranded, pushes, people, crashes>>

BoundTo(row, p) == [row EXCEPT !.path = p, !.removed = FALSE]

(* The binding is written by name; without its connection that fails.       *)
Bind ==
  LET p == run.path
      n == run.tree[p]
  IN
  /\ run.at = "bind" /\ connected
  /\ skill' = [i \in Ids |-> IF i \in Row(n) THEN BoundTo(skill[i], p) ELSE skill[i]]
  /\ stranded' = stranded \ Row(n)
  /\ run' = Done(p)
  /\ UNCHANGED <<tree, ignored, refused, connected, disturbed, pushes, people, crashes>>

(* The row of a binding whose name no folder declares, unless it was marked *)
(* when the bindings were read.  One detached meanwhile is marked all the   *)
(* same.                                                                    *)
Gone(i) ==
  skill[i] # NoSkill /\ \E b \in run.bound :
    b.id = i /\ ~b.removed /\ Declaring(run.tree, b.name) = {}

Removals ==
  /\ run.at = "folders" /\ run.folders = {}
  /\ skill' = [i \in Ids |-> IF Gone(i) THEN [skill[i] EXCEPT !.removed = TRUE] ELSE skill[i]]
  /\ run' = [run EXCEPT !.at = "removals"]
  /\ UNCHANGED <<tree, ignored, refused, connected, disturbed, stranded, pushes, people, crashes>>

(* recordSync *)
Record ==
  /\ run.at = "removals"
  /\ refused' = IF connected THEN run.refused ELSE refused
  /\ run' = [IdleRun EXCEPT !.tree = run.tree, !.bound = run.bound, !.ignored = run.ignored]
  /\ UNCHANGED <<tree, skill, ignored, connected, disturbed, stranded, pushes, people, crashes>>

(* A call fails with something else than a refusal, or the process dies.    *)
Stop ==
  /\ run.at # "idle" /\ crashes < MaxCrash
  /\ crashes' = crashes + 1
  /\ run' = IdleRun
  /\ disturbed' = TRUE
  /\ stranded' = IF run.at \in {"publish", "bind"} /\ run.created
                 THEN stranded \cup Row(run.tree[run.path]) ELSE stranded
  /\ UNCHANGED <<tree, skill, ignored, refused, connected, pushes, people>>

(* The binding of a connection that is gone. *)
BindFails ==
  /\ run.at = "bind" /\ ~connected
  /\ run' = IdleRun /\ disturbed' = TRUE
  /\ stranded' = IF run.created THEN stranded \cup Row(run.tree[run.path]) ELSE stranded
  /\ UNCHANGED <<tree, skill, ignored, refused, connected, pushes, people, crashes>>

Sync ==
  \/ Begin \/ Renamed \/ Bind \/ BindFails \/ Removals \/ Record
  \/ \E b \in run.rows : Rename(b)
  \/ \E p \in Paths, i \in Ids : Folder(p, i)
  \/ \E accepts \in BOOLEAN : PublishFolder(accepts)

Next ==
  \/ Sync \/ Stop \/ Disconnect
  \/ \E p \in Paths, n \in Names \cup {None} : Push(p, n)
  \/ \E i \in Ids : DeleteSkill(i) \/ Detach(i)
  \/ \E i \in Ids, n \in Names : Register(i, n)
  \/ \E i \in Ids, p \in Paths : Adopt(p, i)

Spec == Init /\ [][Next]_vars

-----------------------------------------------------------------------------
(* What a sync that nobody disturbed leaves behind: each folder that may be *)
(* taken is refused or is its skill's binding, unremoved; each bound skill  *)
(* without a folder is marked removed; nothing bound carries an ignored     *)
(* name.                                                                    *)
SyncMatchesTree ==
  (run.at = "idle" /\ run.tree # IdleRun.tree /\ ~disturbed) =>
    /\ \A p \in Folders(run.tree) : run.tree[p] \notin ignored \cup Outside =>
         \/ refused[p] = run.tree[p]
         \/ \E i \in Row(run.tree[p]) : skill[i].path = p /\ ~skill[i].removed
    /\ \A i \in Ids : Bound(i) /\ Declaring(run.tree, skill[i].name) = {} => skill[i].removed
    /\ \A p, q \in Folders(run.tree) :
         p # q /\ run.tree[q] = run.tree[p] /\ run.tree[p] \notin ignored => refused[p] = run.tree[p]

(* A sync adds versions to and binds only skills that were bound to the     *)
(* connection when it read the bindings, or that it registered itself:      *)
(* never one a person made.                                                 *)
NoTakeoverStep ==
  \A i \in Ids :
    (run.at \in {"publish", "bind"} /\ people' = people /\ skill'[i] # skill[i] /\ ~disturbed)
      => run.created \/ \E b \in run.bound : b.id = i

(* A refused new folder leaves nothing behind: between syncs, a skill       *)
(* without versions is one that a sync which stopped had registered.        *)
NothingLeftBehind ==
  run.at = "idle" => \A i \in Ids : skill[i] # NoSkill /\ ~skill[i].versions => i \in stranded
=============================================================================
