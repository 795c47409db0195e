----------------------------- MODULE BlobStore ------------------------------
(***************************************************************************)
(* The archives of one skill on local storage (platform/storage.go) and    *)
(* the requests that write and remove them: the publish handler            *)
(* (skill/publisher.go, and the import job that repeats it), which writes  *)
(* the archive before it inserts the version row and removes it when the   *)
(* row does not go in, and the deletion of the skill (skill/routes.go),    *)
(* which removes the archives before the row.                              *)
(*                                                                         *)
(* An archive is stored under a name made from its checksum, so the        *)
(* archive stands for its name here.  A write goes to a temporary path     *)
(* that the name determines: two writers of one archive share the          *)
(* temporary file, and the file keeps its identity when it is renamed      *)
(* while somebody still has it open.                                       *)
(***************************************************************************)
EXTENDS Naturals, Sequences, FiniteSets

CONSTANTS
  Requests,    \* requests the server handles at the same time
  Archives,    \* bundles that may be published, one name each
  Files,       \* files (inodes) the file system can hold
  Blocks,      \* blocks an archive is written in
  MaxVersion,  \* bound on the versions of one skill
  MaxSkill,    \* bound on how often the skill is created
  Regimes,     \* which mishaps may come together
  NoArchive, NoFile

(* A write fails, an insert fails, the server dies, the skill is deleted,   *)
(* an archive is lost from the disk, requests overlap.                     *)
Mishap == {"copy", "insert", "crash", "delete", "lose", "overlap"}

ASSUME BlobAssumption ==
  /\ Blocks \in Nat \ {0}
  /\ MaxVersion \in Nat /\ MaxSkill \in Nat
  /\ Regimes \subseteq SUBSET Mishap
  /\ NoArchive \notin Archives
  /\ NoFile \notin Files

VARIABLES
  happens,  \* the mishaps of this behaviour
  skill,    \* which creation of the skill the row is, 0 without one
  created,  \* how many there have been
  versions, \* the archive each version row names
  latest,   \* skills.latest_version
  dest,     \* the file under each archive's name
  tmp,      \* the file under the same name with .tmp added
  content,  \* the blocks each file holds
  told,     \* archives whose last publish was answered with success
  req       \* what each request is doing

rowVars  == <<skill, created, versions, latest>>
fileVars == <<dest, tmp, content>>
vars == <<happens, rowVars, fileVars, told, req>>

Whole == 1..Blocks

Request ==
  [pc      : {"idle", "open", "copy", "rename", "insert", "purge"},
   archive : Archives \cup {NoArchive},
   skill   : 0..MaxSkill,
   file    : Files \cup {NoFile},
   next    : 1..(Blocks + 1),
   todo    : SUBSET Archives]

Idle == [pc |-> "idle", archive |-> NoArchive, skill |-> 0,
         file |-> NoFile, next |-> 1, todo |-> {}]

TypeOK ==
  /\ happens  \in SUBSET Mishap
  /\ skill    \in 0..MaxSkill
  /\ created  \in 0..MaxSkill
  /\ versions \in Seq(Archives)
  /\ latest   \in 0..Len(versions)
  /\ dest     \in [Archives -> Files \cup {NoFile}]
  /\ tmp      \in [Archives -> Files \cup {NoFile}]
  /\ content  \in [Files -> SUBSET Whole]
  /\ told     \subseteq Archives
  /\ req      \in [Requests -> Request]

Init ==
  /\ happens \in Regimes
  /\ skill = 0 /\ created = 0
  /\ versions = <<>> /\ latest = 0
  /\ dest = [a \in Archives |-> NoFile]
  /\ tmp  = [a \in Archives |-> NoFile]
  /\ content = [f \in Files |-> {}]
  /\ told = {}
  /\ req = [r \in Requests |-> Idle]

Done(r)     == req' = [req EXCEPT ![r] = Idle]
Goto(r, pc) == req' = [req EXCEPT ![r].pc = pc]

(* What StartPublish and StartDelete need of the other requests. *)
MayStart == "overlap" \in happens \/ \A r \in Requests : req[r].pc = "idle"

Publishing(r) == req[r].pc \in {"open", "copy", "rename", "insert"}

CreateSkill ==
  /\ skill = 0 /\ created < MaxSkill
  /\ skill' = created + 1 /\ created' = created + 1
  /\ versions' = <<>> /\ latest' = 0
  /\ UNCHANGED <<fileVars, told, req>>

-----------------------------------------------------------------------------
(* Publish.  A bundle identical to the latest version is answered at once  *)
(* with that version; the request keeps the skill row it looked up.        *)

SameAsLatest(a) == latest > 0 /\ versions[latest] = a

Unchanged(r, a) ==
  /\ req[r].pc = "idle" /\ skill # 0
  /\ SameAsLatest(a)
  /\ told' = told \cup {a}
  /\ UNCHANGED <<rowVars, fileVars, req>>

StartPublish(r, a) ==
  /\ req[r].pc = "idle" /\ skill # 0
  /\ MayStart
  /\ ~SameAsLatest(a)
  /\ Len(versions) + Cardinality({p \in Requests : Publishing(p)}) < MaxVersion
  /\ req' = [req EXCEPT ![r] =
                [Idle EXCEPT !.pc = "open", !.archive = a, !.skill = skill]]
  /\ UNCHANGED <<rowVars, fileVars, told>>

(* os.Create truncates the temporary file that is there, or makes one: a   *)
(* file nothing refers to any more.                                        *)
Referred == {dest[a] : a \in Archives} \cup {tmp[a] : a \in Archives}
              \cup {req[r].file : r \in Requests}

Openable(a) == IF tmp[a] # NoFile THEN {tmp[a]} ELSE Files \ Referred

Open(r) ==
  /\ req[r].pc = "open"
  /\ \E f \in Openable(req[r].archive) :
       /\ content' = [content EXCEPT ![f] = {}]
       /\ tmp' = [tmp EXCEPT ![req[r].archive] = f]
       /\ req' = [req EXCEPT ![r].pc = "copy", ![r].file = f]
  /\ UNCHANGED <<rowVars, dest, told>>

(* mutant: the copy stops one block early. *)
CopyShort(r) ==
  /\ req[r].pc = "copy"
  /\ content' = [content EXCEPT ![req[r].file] = @ \cup {req[r].next}]
  /\ req' = [req EXCEPT ![r].next = @ + 1,
                        ![r].pc = IF req[r].next + 1 < Blocks THEN "copy" ELSE "rename"]
  /\ UNCHANGED <<rowVars, dest, tmp, told>>

Copy(r) ==
  /\ req[r].pc = "copy"
  /\ content' = [content EXCEPT ![req[r].file] = @ \cup {req[r].next}]
  /\ req' = [req EXCEPT ![r].next = @ + 1,
                        ![r].pc = IF req[r].next < Blocks THEN "copy" ELSE "rename"]
  /\ UNCHANGED <<rowVars, dest, tmp, told>>

(* The temporary file could not be made.                                   *)
OpenFails(r) ==
  /\ "copy" \in happens
  /\ req[r].pc = "open"
  /\ Done(r)
  /\ UNCHANGED <<rowVars, fileVars, told>>

(* mutant: a failed copy cleans up the final name. *)
CopyFailsAtDest(r) ==
  /\ "copy" \in happens
  /\ req[r].pc \in {"copy", "rename"}
  /\ dest' = [dest EXCEPT ![req[r].archive] = NoFile]
  /\ Done(r)
  /\ UNCHANGED <<rowVars, tmp, content, told>>

(* The write, the close or the rename failed: what the temporary path      *)
(* names by then is removed.                                               *)
CopyFails(r) ==
  /\ "copy" \in happens
  /\ req[r].pc \in {"copy", "rename"}
  /\ tmp' = [tmp EXCEPT ![req[r].archive] = NoFile]
  /\ Done(r)
  /\ UNCHANGED <<rowVars, dest, content, told>>

(* The file is closed and whatever is at the temporary path now gets the   *)
(* final name.                                                             *)
Rename(r) ==
  /\ req[r].pc = "rename"
  /\ LET a == req[r].archive IN
       /\ tmp[a] # NoFile
       /\ dest' = [dest EXCEPT ![a] = tmp[a]]
       /\ tmp' = [tmp EXCEPT ![a] = NoFile]
  /\ req' = [req EXCEPT ![r].pc = "insert", ![r].file = NoFile, ![r].next = 1]
  /\ UNCHANGED <<rowVars, content, told>>

(* Another writer has renamed or removed it: the publish is refused.       *)
RenameFails(r) ==
  /\ req[r].pc = "rename"
  /\ tmp[req[r].archive] = NoFile
  /\ Done(r)
  /\ UNCHANGED <<rowVars, fileVars, told>>

(* CreateVersion; a version the gate releases becomes the latest.          *)
Insert(r) ==
  /\ req[r].pc = "insert"
  /\ skill = req[r].skill
  /\ versions' = Append(versions, req[r].archive)
  /\ \E released \in BOOLEAN :
       latest' = IF released THEN Len(versions) + 1 ELSE latest
  /\ told' = told \cup {req[r].archive}
  /\ Done(r)
  /\ UNCHANGED <<skill, created, fileVars>>

(* The skill the request looked up is gone, or the database failed: the    *)
(* archive is deleted by name.                                             *)
InsertFails(r) ==
  /\ req[r].pc = "insert"
  /\ skill # req[r].skill \/ "insert" \in happens
  /\ dest' = [dest EXCEPT ![req[r].archive] = NoFile]
  /\ Done(r)
  /\ UNCHANGED <<rowVars, tmp, content, told>>

-----------------------------------------------------------------------------
(* Deleting the skill: the archives of the versions listed, then the row   *)
(* of that name with everything under it.                                  *)

StartDelete(r) ==
  /\ "delete" \in happens
  /\ req[r].pc = "idle" /\ skill # 0
  /\ MayStart
  /\ req' = [req EXCEPT ![r] =
                [Idle EXCEPT !.pc = "purge",
                             !.todo = {versions[v] : v \in DOMAIN versions}]]
  /\ UNCHANGED <<rowVars, fileVars, told>>

Purge(r) ==
  /\ req[r].pc = "purge"
  /\ \E a \in req[r].todo :
       /\ dest' = [dest EXCEPT ![a] = NoFile]
       /\ req' = [req EXCEPT ![r].todo = @ \ {a}]
       /\ told' = told \ {a}
  /\ UNCHANGED <<rowVars, tmp, content>>

DeleteRow(r) ==
  /\ req[r].pc = "purge" /\ req[r].todo = {}
  /\ skill' = 0 /\ versions' = <<>> /\ latest' = 0
  /\ told' = {}
  /\ Done(r)
  /\ UNCHANGED <<created, fileVars>>

-----------------------------------------------------------------------------
(* The environment.                                                        *)

(* The server dies and takes every request with it; the files stay.        *)
Crash ==
  /\ "crash" \in happens
  /\ req' = [r \in Requests |-> Idle]
  /\ UNCHANGED <<rowVars, fileVars, told>>

(* An archive is missing after a restore.                                  *)
Lose(a) ==
  /\ "lose" \in happens
  /\ dest[a] # NoFile
  /\ dest' = [dest EXCEPT ![a] = NoFile]
  /\ told' = told \ {a}
  /\ UNCHANGED <<rowVars, tmp, content, req>>

Step ==
  \/ CreateSkill
  \/ \E r \in Requests :
       \/ \E a \in Archives : Unchanged(r, a) \/ StartPublish(r, a)
       \/ Open(r) \/ OpenFails(r) \/ Copy(r) \/ CopyFails(r)
       \/ Rename(r) \/ RenameFails(r)
       \/ Insert(r) \/ InsertFails(r)
       \/ StartDelete(r) \/ Purge(r) \/ DeleteRow(r)
  \/ Crash
  \/ \E a \in Archives : Lose(a)

Next == Step /\ UNCHANGED happens

Spec == Init /\ [][Next]_vars

-----------------------------------------------------------------------------
(* A file under a final name holds the whole archive: what the write       *)
(* through a temporary file is for (storage.go:57-59).                     *)
NoPartialVisible ==
  \A a \in Archives : dest[a] # NoFile => content[dest[a]] = Whole

(* A file is whole, or a request is writing every block it lacks.          *)
Repaired(f) ==
  \/ content[f] = Whole
  \/ \E r \in Requests :
       /\ req[r].pc = "copy" /\ req[r].file = f
       /\ Whole \subseteq content[f] \cup req[r].next..Blocks

(* Where no write fails and the server lives, a file under a final name    *)
(* that is not whole is still being written, by a request that will write  *)
(* every block it lacks (storage.go:71-89).                                *)
Writes == happens \cap {"copy", "crash"} = {}

PartialIsBeingWritten ==
  Writes => \A a \in Archives : dest[a] # NoFile => Repaired(dest[a])

(* Where nobody deletes the skill, no insert fails and nothing is lost,    *)
(* every version row has its archive on disk: the row is inserted after    *)
(* the write, and a write that fails or is cut off removes no archive of   *)
(* another (publisher.go:222-223, 296-319).                                *)
Keeps == happens \cap {"insert", "delete", "lose"} = {}

VersionsKeepTheirArchive ==
  Keeps => \A v \in DOMAIN versions : dest[versions[v]] # NoFile

(* What the properties above rest on: the steps of the requests; ...       *)
RequestsInStep ==
  \A r \in Requests :
    /\ Publishing(r) => req[r].archive \in Archives
    /\ req[r].pc = "open" => req[r].next = 1
    /\ req[r].pc = "copy" => req[r].file \in Files /\ req[r].next \in Whole

(* ... where writes do not fail, the temporary files are repaired as well; *)
(* ...                                                                     *)
SettledInv ==
  /\ TypeOK
  /\ RequestsInStep
  /\ Writes => \A a \in Archives :
                 \A f \in {dest[a], tmp[a]} \ {NoFile} : Repaired(f)

(* ... and where nothing is removed, a request that is past its rename has *)
(* its archive on disk, and the skill it looked up is still there.         *)
Backed ==
  /\ \A r \in Requests :
       /\ req[r].pc # "purge"
       /\ Publishing(r) => req[r].skill = skill /\ skill # 0
       /\ req[r].pc = "insert" => dest[req[r].archive] # NoFile
  /\ skill = 0 => versions = <<>>
  /\ \A v \in DOMAIN versions : dest[versions[v]] # NoFile

KeptInv ==
  /\ TypeOK
  /\ RequestsInStep
  /\ Keeps => Backed

(* backup-restore.md:110, "Republishing the same skill content heals the   *)
(* store": a publish that was answered with success leaves the archive on  *)
(* disk.                                                                   *)
RepublishHeals == \A a \in told : dest[a] # NoFile
=============================================================================
