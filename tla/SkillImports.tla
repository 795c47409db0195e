--------------------------- MODULE SkillImports ----------------------------
(***************************************************************************)
(* Importing skills from a repository or from local folders                 *)
(* (src/internal/import, src/cli/import.go): one request goes through its    *)
(* skills one by one and reports each as imported or failed, while other    *)
(* imports run, connections adopt skills, people delete them and write      *)
(* ownership rules, and any statement may fail.                             *)
(*                                                                          *)
(* A content stands for a folder's bytes: its archive, text and manifest.   *)
(***************************************************************************)
EXTENDS Naturals, Sequences, FiniteSets, FiniteSetsExt, TLC

CONSTANTS
  Requests,   \* imports, each by a person of its own
  Folders,    \* the sequence of folders of the repository, in name order
  Tree,       \* Tree[c][f]: the content of folder f at commit c
  Scan,       \* Scan[x] of a content: "clean", "review" or "block"
  Plugin,     \* the prefix a plugin's skills may be imported under
  Suites,     \* names with a registered suite
  MaxId, MaxFaults, MaxPeople  \* bounds: skill rows, failures, others' acts

None  == "none"
NoAlias == <<None, None>>
Names == {None, Plugin} \X {Folders[i] : i \in 1..Len(Folders)}

VARIABLES
  head,    \* the repository's newest commit
  skill,   \* name to the skill's row
  version, \* skill_versions: of row id, number, content, held, and the import
  blob,    \* archives in storage, by name and content
  source,  \* import_sources: row id to the commit recorded
  alias,   \* skill_aliases: folder name to the prefixed name
  rule,    \* ownership_rules: the name's owner
  bound,   \* names with a row in git_bindings
  queued,  \* evaluations asked for
  req,     \* imports
  ids, faults, people

vars == <<head, skill, version, blob, source, alias, rule, bound, queued, req, ids, faults, people>>

NoSkill == [id |-> 0, text |-> None, latest |-> 0]
Idle == [at |-> "idle", kind |-> None, ns |-> None, commit |-> 0, todo |-> <<>>, was |-> {},
         unowned |-> FALSE, held |-> FALSE, new |-> FALSE, id |-> 0, v |-> 0,
         imported |-> {}, failed |-> {}, exit |-> None]

Init ==
  /\ head = 1 /\ skill = [n \in Names |-> NoSkill]
  /\ version = {} /\ blob = {} /\ source = [i \in 1..MaxId |-> 0]
  /\ alias = [i \in 1..Len(Folders) |-> NoAlias] /\ rule = [n \in Names |-> None]
  /\ bound = {} /\ queued = {} /\ req = [r \in Requests |-> Idle]
  /\ ids = 0 /\ faults = 0 /\ people = 0

Fault == faults < MaxFaults /\ faults' = faults + 1

(***************************************************************************)
(* The request.                                                             *)
(***************************************************************************)

\* import-resolve: what the branch holds now, for a person to choose from.
Resolve(r, ns, todo) ==
  /\ req[r].at = "idle"
  /\ req' = [req EXCEPT ![r].at = "chosen", ![r].kind = "url", ![r].ns = ns,
                        ![r].commit = head, ![r].todo = todo]
  /\ UNCHANGED <<head, skill, version, blob, source, alias, rule, bound, queued, ids, faults, people>>

\* skael import of local folders, each uploaded as it is now.
Pack(r, todo) ==
  /\ req[r].at = "idle"
  /\ req' = [req EXCEPT ![r].at = "chosen", ![r].kind = "local", ![r].commit = head, ![r].todo = todo]
  /\ UNCHANGED <<head, skill, version, blob, source, alias, rule, bound, queued, ids, faults, people>>

\* Fetcher.Fetch: a source with a commit is fetched at it.
Fetched(r) == req[r].commit

\* The skills that are git-bound.
GitBound == {skill[n].id : n \in bound}

\* import-skills fetches and discovers.
BeginImport(r) ==
  /\ req[r].at = "chosen" /\ req[r].kind = "url"
  /\ req' = [req EXCEPT ![r].at = "next", ![r].was = GitBound]
  /\ UNCHANGED <<head, skill, version, blob, source, alias, rule, bound, queued, ids, faults, people>>

\* The upload's handler unpacks and discovers.
BeginUpload(r) ==
  /\ req[r].at = "chosen" /\ req[r].kind = "local"
  /\ req' = [req EXCEPT ![r].at = "next", ![r].was = GitBound]
  /\ UNCHANGED <<head, skill, version, blob, source, alias, rule, bound, queued, ids, faults, people>>

Folder(r)  == Folders[Head(req[r].todo)]
Name(r)    == <<req[r].ns, Folder(r)>>
Content(r) == Tree[Fetched(r)][Folder(r)]
Highest(id) == Max({0} \cup {v.v : v \in {w \in version : w.id = id}})
Latest(n)  == {v \in version : v.id = skill[n].id /\ v.v = skill[n].latest}

\* The skill is reported as failed and the import goes on.
Failed(r) == req' = [req EXCEPT ![r].at = "next", ![r].todo = Tail(@), ![r].failed = @ \cup {Name(r)}]

(* mutant: the repository is asked about the folder's name *)
OutsideUnprefixed(r) == <<None, Folder(r)>> \notin bound

\* gitBound names no connection.
Outside(r) == Name(r) \notin bound

Check(r) ==
  /\ req[r].at = "next" /\ req[r].todo # <<>>
  /\ IF Outside(r) THEN req' = [req EXCEPT ![r].at = "decide"] ELSE Failed(r)
  /\ UNCHANGED <<head, skill, version, blob, source, alias, rule, bound, queued, ids, faults, people>>

\* Pack, scan, ResolveForPublish and DecidePublish, with no override.
Decide(r) ==
  /\ req[r].at = "decide"
  /\ IF Scan[Content(r)] = "block" THEN Failed(r)
     ELSE req' = [req EXCEPT ![r].at = "row", ![r].unowned = rule[Name(r)] = None,
                             ![r].held = \/ Scan[Content(r)] = "review"
                                         \/ rule[Name(r)] \notin {None, r}]
  /\ UNCHANGED <<head, skill, version, blob, source, alias, rule, bound, queued, ids, faults, people>>

\* What Create writes of a first version.
FirstText(r) == IF req[r].held THEN None ELSE Content(r)

\* GetByName, and Create when there is none; the same content as the latest
\* version's adds nothing.
Row(r) ==
  /\ req[r].at = "row"
  /\ LET n == Name(r) IN
     \/ /\ skill[n].id = 0 /\ ids < MaxId
        /\ ids' = ids + 1
        /\ skill' = [skill EXCEPT ![n] = [id |-> ids + 1, text |-> FirstText(r), latest |-> 0]]
        /\ req' = [req EXCEPT ![r].at = "write", ![r].new = TRUE, ![r].id = ids + 1]
     \/ /\ skill[n].id # 0 /\ \A v \in Latest(n) : v.content # Content(r)
        /\ req' = [req EXCEPT ![r].at = "write", ![r].new = FALSE, ![r].id = skill[n].id]
        /\ UNCHANGED <<skill, ids>>
     \/ /\ \E v \in Latest(n) : v.content = Content(r)
        /\ req' = [req EXCEPT ![r].at = "report", ![r].id = skill[n].id, ![r].v = skill[n].latest]
        /\ UNCHANGED <<skill, ids>>
  /\ UNCHANGED <<head, version, blob, source, alias, rule, bound, queued, faults, people>>

\* The gate's decision, the row, or the archive fails: another request may
\* have created the row since it was looked for.
Fail(r) ==
  /\ req[r].at \in {"decide", "row", "write"} /\ Fault /\ Failed(r)
  /\ UNCHANGED <<head, skill, version, blob, source, alias, rule, bound, queued, ids, people>>

\* storage.Write.
WriteArchive(r) ==
  /\ req[r].at = "write"
  /\ blob' = blob \cup {<<Name(r), Content(r)>>}
  /\ req' = [req EXCEPT ![r].at = "insert"]
  /\ UNCHANGED <<head, skill, version, source, alias, rule, bound, queued, ids, faults, people>>

\* CreateVersion; a released version takes the row.  A failure, or a row that
\* is gone, deletes the archive.
InsertVersion(r) ==
  /\ req[r].at = "insert"
  /\ LET n == Name(r)  id == req[r].id  v == Highest(id) + 1 IN
     \/ /\ skill[n].id = id
        /\ version' = version \cup {[name |-> n, id |-> id, v |-> v, content |-> Content(r),
                                     held |-> req[r].held, by |-> r]}
        /\ skill' = IF req[r].held THEN skill
                    ELSE [skill EXCEPT ![n].text = Content(r), ![n].latest = v]
        /\ queued' = IF Folder(r) \in Suites THEN queued \cup {<<id, v>>} ELSE queued
        /\ req' = [req EXCEPT ![r].at = "source", ![r].v = v]
        /\ UNCHANGED <<blob, faults>>
     \/ /\ IF skill[n].id = id THEN Fault ELSE UNCHANGED faults
        /\ blob' = blob \ {<<n, Content(r)>>}
        /\ Failed(r) /\ UNCHANGED <<version, skill, queued>>
  /\ UNCHANGED <<head, source, alias, rule, bound, ids, people>>

\* The commit a source records; an upload has none.
Recorded(r) == IF req[r].kind = "url" THEN req[r].commit ELSE 0

\* Store.Upsert of the provenance; a failure is only logged.
RecordSource(r) ==
  /\ req[r].at = "source"
  /\ \/ /\ source' = IF skill[Name(r)].id = req[r].id THEN [source EXCEPT ![req[r].id] = Recorded(r)] ELSE source
        /\ UNCHANGED faults
     \/ Fault /\ UNCHANGED source
  /\ req' = [req EXCEPT ![r].at = IF req[r].new /\ req[r].unowned THEN "claim" ELSE "report"]
  /\ UNCHANGED <<head, skill, version, blob, alias, rule, bound, queued, ids, people>>

\* ClaimOnFirstPublish: Upsert replaces the members of a rule it finds.
Claimed(r) == [rule EXCEPT ![Name(r)] = r]

Claim(r) ==
  /\ req[r].at = "claim"
  /\ rule' = Claimed(r)
  /\ req' = [req EXCEPT ![r].at = "report"]
  /\ UNCHANGED <<head, skill, version, blob, source, alias, bound, queued, ids, faults, people>>

\* importedSkill's version.
Reported(r) == req[r].v

\* The folder's own name becomes an alias of the prefixed one, and the skill
\* is reported as imported.
Report(r) ==
  /\ req[r].at = "report"
  /\ LET i == Head(req[r].todo) IN
       alias' = IF req[r].ns # None /\ skill[Name(r)].id # 0 THEN [alias EXCEPT ![i] = Name(r)] ELSE alias
  /\ req' = [req EXCEPT ![r].at = "next", ![r].todo = Tail(@),
                        ![r].imported = @ \cup {[name |-> Name(r), id |-> req[r].id, v |-> Reported(r)]}]
  /\ UNCHANGED <<head, skill, version, blob, source, rule, bound, queued, ids, faults, people>>

\* The command ends.  An upload's answer is read as a preview's, which lists
\* no skill, so the loop goes on to the next folder.
Answer(r) ==
  /\ req[r].at = "next" /\ req[r].todo = <<>>
  /\ req' = [req EXCEPT ![r].at = "done",
                        ![r].exit = IF req[r].kind = "url" /\ req[r].failed # {} THEN "1" ELSE "0"]
  /\ UNCHANGED <<head, skill, version, blob, source, alias, rule, bound, queued, ids, faults, people>>

(***************************************************************************)
(* The others.                                                              *)
(***************************************************************************)

Push ==
  /\ head + 1 \in DOMAIN Tree /\ head' = head + 1
  /\ UNCHANGED <<skill, version, blob, source, alias, rule, bound, queued, req, ids, faults, people>>

Act == people < MaxPeople /\ people' = people + 1

\* delete-skill: the archives its versions name, then the row and what refers
\* to it.
DeleteSkill(n) ==
  /\ Act /\ skill[n].id # 0
  /\ blob' = blob \ {<<n, v.content>> : v \in {w \in version : w.id = skill[n].id}}
  /\ version' = {w \in version : w.id # skill[n].id}
  /\ source' = [source EXCEPT ![skill[n].id] = 0]
  /\ alias' = [i \in DOMAIN alias |-> IF alias[i] = n THEN NoAlias ELSE alias[i]]
  /\ bound' = bound \ {n}
  /\ skill' = [skill EXCEPT ![n] = NoSkill]
  /\ UNCHANGED <<head, rule, queued, req, ids, faults>>

\* A connection adopts a skill.
Adopt(n) ==
  /\ Act /\ skill[n].id # 0 /\ bound' = bound \cup {n}
  /\ UNCHANGED <<head, skill, version, blob, source, alias, rule, queued, req, ids, faults>>

\* Someone writes a rule for a name nobody owns.
Own(n) ==
  /\ Act /\ rule[n] = None /\ rule' = [rule EXCEPT ![n] = "someone"]
  /\ UNCHANGED <<head, skill, version, blob, source, alias, bound, queued, req, ids, faults>>

\* The selections a request may carry: folders, in the order they come in.
Selections == {<<i>> : i \in 1..Len(Folders)} \cup {[i \in 1..Len(Folders) |-> i]}

Import(r) ==
  \/ \E todo \in Selections : Pack(r, todo) \/ \E ns \in {None, Plugin} : Resolve(r, ns, todo)
  \/ BeginImport(r) \/ BeginUpload(r) \/ Check(r) \/ Decide(r) \/ Row(r) \/ Fail(r) \/ WriteArchive(r)
  \/ InsertVersion(r) \/ RecordSource(r) \/ Claim(r) \/ Report(r) \/ Answer(r)
Next == \/ \E r \in Requests : Import(r)
        \/ Push \/ \E n \in Names : DeleteSkill(n) \/ Adopt(n) \/ Own(n)
Spec == Init /\ [][Next]_vars
----------------------------------------------------------------------------
\* Every variable holds a value of its type.
TypeOK ==
  /\ \A n \in Names : skill[n].id \in 0..MaxId
  /\ \A v \in version : v.id \in 1..ids /\ v.held \in BOOLEAN /\ v.by \in Requests
  /\ \A r \in Requests : /\ req[r].failed \subseteq Names
                          /\ req[r].exit \in {None, "0", "1"}
  /\ rule \in [Names -> Requests \cup {None, "someone"}] /\ bound \subseteq Names

\* A skill's row never carries text the scan holds, whichever import made
\* the row and whatever came of its version.
HeldStaysHidden == \A n \in Names : skill[n].text # None => Scan[skill[n].text] = "clean"

\* The commit recorded as a skill's source is one a version of it came from,
\* whatever was pushed between the preview and the import.
SourceIsAVersions ==
  \A n \in Names : (skill[n].id # 0 /\ source[skill[n].id] # 0) =>
    \E v \in version : v.id = skill[n].id /\ v.content = Tree[source[skill[n].id]][n[2]]

\* An import adds no version to a skill that was git-bound when it began.
GitKeepsItsSkills == \A v \in version : v.id \notin req[v.by].was

\* What is reported as imported is there, with the content asked for, unless
\* the skill was deleted; what is reported as failed added nothing.
ReportsAreTrue ==
  \A r \in Requests :
    /\ \A m \in req[r].imported :
         skill[m.name].id = m.id =>
           \E v \in version : v.id = m.id /\ v.v = m.v /\ v.content = Tree[req[r].commit][m.name[2]]
    /\ \A v \in version : v.by = r => v.name \notin req[r].failed

\* "skael sync and skael import exit 1 if any one skill fails"
\* (site/src/content/docs/docs/cli.md:28).
FailuresExit == \A r \in Requests : (req[r].at = "done" /\ req[r].failed # {}) => req[r].exit = "1"
============================================================================
