------------------------------ MODULE MCCatalog ------------------------------
(* How skills come into the registry and how sets follow them: imports from  *)
(* a repository, or the sets that name skills.  A behaviour is of the part   *)
(* its first state picks; the other stays as it begins.                      *)
EXTENDS Naturals, Sequences, TLC

CONSTANTS
  Callers,
  Folders, Tree, Scan, plugin, Suited, MaxId, MaxFaults, MaxPeople, MaxMishaps,
  Named, SetOrder, EntryLists, Regimes, NoName, MaxPublish, MaxSkill, MaxChange,
  f1, f2, A, B, C, S1

(* Folders have names of their own, and each text of a commit is scanned.    *)
ASSUME ImportsAssumption ==
  /\ Len(Folders) \in Nat /\ \A i, j \in 1..Len(Folders) : Folders[i] = Folders[j] => i = j
  /\ 1 \in DOMAIN Tree /\ DOMAIN Tree \subseteq Nat /\ MaxId \in Nat
  /\ \A c \in DOMAIN Tree, i \in 1..Len(Folders) :
       Scan[Tree[c][Folders[i]]] \in {"clean", "review", "block"}

VARIABLES
  half,
  head, skill, version, blob, source, alias, rule, bound, queued, req, ids, faults, people,
  happens, listed, renamed, set, counts, used, severed, served, tx

-----------------------------------------------------------------------------
(* Two folders; the second commit changes the first to text the scan holds.  *)
TwoFolders == <<f1, f2>>
TwoCommits == <<(f1 :> "x" @@ f2 :> "z"), (f1 :> "y" @@ f2 :> "z")>>
Texts == "x" :> "clean" @@ "y" :> "review" @@ "z" :> "block"

(* A set follows both skills, or pins one; besides the ordinary, a behaviour *)
(* meets overlapping edits and merges, two merges of one skill into two      *)
(* others, a rename or an edit of the aliases.                               *)
TwoLists    == {{[name |-> A, version |-> 0], [name |-> B, version |-> 0]},
                {[name |-> A, version |-> 1]}}
FiveRegimes == {{}, {"overlap"}, {"overlap", "twice"}, {"rename"}, {"alias"}}

OneSet      == <<S1>>

I == INSTANCE SkillImports WITH Requests <- Callers, Plugin <- plugin, Suites <- Suited
Z == INSTANCE SkillSets WITH
       Names <- Named, Txns <- Callers, skill <- listed, alias <- renamed

iVars == <<head, skill, version, blob, source, alias, rule, bound, queued, req, ids,
           faults, people>>
zVars == <<happens, listed, renamed, set, counts, used, severed, served, tx>>
catalog == <<half, iVars, zVars>>

CatalogInit ==
  /\ half \in {"imports", "sets"}
  /\ I!Init
  /\ Z!Init /\ (half # "sets" => happens = {})

(* Imports meet failures and other people's acts, so many together.          *)
Imports == /\ half = "imports" /\ I!Next /\ UNCHANGED <<half, zVars>>
           /\ faults' + people' <= MaxMishaps

(* Where edits and merges overlap, the set follows its skills and pins none. *)
(* Only where two merges of one skill do are there three skills, which are   *)
(* there from the start; nothing is held then and there is no set.           *)
Place == A :> 1 @@ B :> 2 @@ C :> 3
Merging(x) ==
  /\ x.pc # "edit"
  /\ \A n \in DOMAIN x.skills : \A v \in DOMAIN x.skills[n].versions :
       x.skills[n].versions[v].state = "released"
Follows(row) == \A e \in row.entries : e.version = 0
Following ==
  /\ half = "sets" /\ Z!Next /\ UNCHANGED <<half, iVars>>
  /\ happens = {"overlap"} =>
       /\ \A s \in Z!Sets : Follows(set'[s])
       /\ \A t \in Callers : \A s \in DOMAIN tx'[t].sets : Follows(tx'[t].sets[s])
  /\ IF "twice" \in happens
     THEN /\ \A t \in Callers : Merging(tx'[t])
          /\ \A n \in Named : listed'[n].id \in {0, Place[n]}
          /\ counts.skills < 3 => tx' = tx
     ELSE counts'.skills <= 2 /\ C \notin used' /\ renamed'[C] = Z!NoAlias

CatalogNext == Imports \/ Following
CatalogSpec == CatalogInit /\ [][CatalogNext]_catalog

Alike == Permutations(Callers)

-----------------------------------------------------------------------------
(* An imported skill's row never carries text the scan holds, its recorded   *)
(* commit is one a version of it came from, a skill that was git-bound keeps *)
(* its versions, and the answer says what happened (import/routes.go).       *)
ImportsTellTheTruth ==
  half = "imports" => /\ I!TypeOK
                      /\ I!HeldStaysHidden    /\ I!SourceIsAVersions
                      /\ I!GitKeepsItsSkills  /\ I!ReportsAreTrue

(* Once no request is under way, the resolution each set announced last is   *)
(* what it serves; a saved one stands for its own bundle or for nothing; a   *)
(* skill's pointer is its highest release; and no version is in two places   *)
(* (webhooks/notifier.go:145-146, skill/merge.go:83-101).                    *)
SetsStayTrue ==
  half = "sets" => /\ Z!TypeOK
                   /\ Z!QuietIsCurrent /\ Z!SavedStaysTrue
                   /\ Z!PointersReach  /\ Z!VersionsHaveOnePlace

(* A merge loses no version but what its source got after it was read, and   *)
(* an exact pin serves one bundle for ever (skill/merge.go, sets/store.go).  *)
PinsKeepTheirBundle ==
  [][half = "sets" => Z!MergesKeepVersionsStep /\ Z!PinKeepsBundleStep]_zVars
=============================================================================
