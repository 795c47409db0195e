----------------------------- MODULE SkillSets ------------------------------
(***************************************************************************)
(* Skill sets and what moves them.  A set lists skills by name; its         *)
(* resolution is what the entries serve now (sets/store.go).  Every         *)
(* transaction that releases, deletes or merges a skill rechecks the sets   *)
(* that name it and announces a resolution that changed                     *)
(* (webhooks/notifier.go).                                                  *)
(*                                                                          *)
(* A transaction sees what is committed and its own writes, and holds the   *)
(* rows it wrote or locked until it ends.  The bundle of a version is the   *)
(* number of its publish.                                                   *)
(***************************************************************************)
EXTENDS Integers, Sequences, SequencesExt, FiniteSetsExt, Functions, TLC

CONSTANTS
  Names,       \* skill names
  SetOrder,    \* the sets, in the order of their ids
  Txns,        \* requests the server handles at the same time
  EntryLists,  \* lists of entries a caller may write
  MaxPublish,  \* bound on the versions ever published
  MaxSkill,    \* bound on the skills ever registered
  MaxChange,   \* bound on the edits of aliases and the renames
  Regimes,     \* sets of happenings a behaviour may meet
  NoName

Sets == ToSet(SetOrder)

(* Edits of sets and merges overlap with other requests; two of those       *)
(* merges have one source; aliases are edited by hand; git sync renames a   *)
(* skill; a name is used again.                                             *)
Happening == {"overlap", "twice", "alias", "rename", "reuse"}

(* An entry's version 0 means the latest; a pin names one by its number.    *)
Entry == [name : Names, version : 0..MaxPublish]
Pin   == [name : Names, version : 1..MaxPublish]

VARIABLES
  happens,   \* what this behaviour meets
  skill,     \* skills by name, each with its versions
  alias,     \* skill_aliases
  set,       \* sets: entries, the resolution last recorded, all ever recorded
  counts,    \* skills registered, versions published, aliases edited so far
  used,      \* names that skills have or had
  severed,   \* aliases that went with their skill
  served,    \* the bundles each pin has ever served
  tx         \* what each transaction has written and has yet to do

tables == <<happens, skill, alias, set, counts, used, severed, tx>>
vars == <<tables, served>>

(* A skill's versions by their numbers, which may have gaps.                *)
Version == [bundle : 1..MaxPublish, state : {"released", "held", "rejected"}]
IsSkill(row) ==
  /\ row.id \in 0..MaxSkill /\ row.latest \in Nat
  /\ DOMAIN row.versions \subseteq Nat \ {0}
  /\ \A v \in DOMAIN row.versions : row.versions[v] \in Version
NoSkill == [id |-> 0, latest |-> 0, versions |-> <<>>]
Alias   == [to : Names \cup {NoName}, reason : {"merge", "rename"}]
NoAlias == [to |-> NoName, reason |-> "merge"]

(* A resolution is known by its entries' names, versions and digests.       *)
Resolved == [name : Names, version : Nat \ {0}, bundle : 1..MaxPublish]
SetRow   == [exists : BOOLEAN, entries : SUBSET Entry,
             recorded : SUBSET Resolved, saved : SUBSET Resolved]
NoSet    == [exists |-> FALSE, entries |-> {}, recorded |-> {}, saved |-> {}]

(* skills, aliases, sets: the rows a transaction wrote or locked; changed:  *)
(* the skills to announce; todo: the sets to recheck; arg: what a merge or  *)
(* an edit read before its locks.                                           *)
Idle == [pc |-> "none", skills |-> <<>>, aliases |-> <<>>, sets |-> <<>>,
         changed |-> <<>>, todo |-> {}, arg |-> <<>>]

TypeOK ==
  /\ happens \in Regimes
  /\ \A n \in Names : IsSkill(skill[n])
  /\ alias \in [Names -> Alias]
  /\ set \in [Sets -> SetRow]
  /\ served \in [Pin -> SUBSET (1..MaxPublish)]
  /\ \A t \in Txns :
       /\ tx[t].pc \in {"none", "merge", "edit", "open"}
       /\ \A n \in DOMAIN tx[t].skills  : IsSkill(tx[t].skills[n])
       /\ \A a \in DOMAIN tx[t].aliases : tx[t].aliases[a] \in Alias
       /\ \A s \in DOMAIN tx[t].sets    : tx[t].sets[s] \in SetRow

Init ==
  /\ happens \in Regimes
  /\ skill = [n \in Names |-> NoSkill]
  /\ alias = [n \in Names |-> NoAlias]
  /\ set = [s \in Sets |-> NoSet]
  /\ used = {} /\ severed = {}
  /\ counts = [skills |-> 0, publishes |-> 0, changes |-> 0]
  /\ tx = [t \in Txns |-> Idle]
  /\ served = [p \in Pin |-> {}]

-----------------------------------------------------------------------------
(* What a transaction sees, and which rows nobody holds.                    *)
Over(own, rows) == [x \in DOMAIN rows |-> IF x \in DOMAIN own THEN own[x] ELSE rows[x]]
SeesSkills(t)  == Over(tx[t].skills, skill)
SeesAliases(t) == Over(tx[t].aliases, alias)
SeesSets(t)    == Over(tx[t].sets, set)
Only(x, row)   == [y \in {x} |-> row]

SkillFree(n)  == \A t \in Txns : n \notin DOMAIN tx[t].skills
AliasFree(a)  == \A t \in Txns : a \notin DOMAIN tx[t].aliases
(* mutant: a set's row is not locked. *)
SetUnlocked(t, s) == TRUE

SetFree(t, s) == \A u \in Txns \ {t} : s \notin DOMAIN tx[u].sets

Idles(t) == tx[t].pc = "none"

(* Without overlaps a merge or an edit has the server to itself.            *)
MayBegin(t) ==
  /\ Idles(t)
  /\ "overlap" \in happens \/ \A u \in Txns : tx[u].arg = <<>>
Alone(t) ==
  /\ Idles(t)
  /\ "overlap" \in happens \/ \A u \in Txns : Idles(u)

Counted(c) == counts' = [counts EXCEPT ![c] = @ + 1]

(* The highest number in use, and the highest that is released.             *)
Highest(vs)      == Max({0} \cup DOMAIN vs)
LastReleased(vs) == Max({0} \cup {v \in DOMAIN vs : vs[v].state = "released"})

-----------------------------------------------------------------------------

(* Resolution.  A latest entry follows any alias, an exact pin only a       *)
(* rename, and neither follows a second one.                                *)
Follows(e, sk, al) ==
  IF sk[e.name].id # 0 THEN e.name
  ELSE IF e.version = 0 \/ al[e.name].reason = "rename" THEN al[e.name].to
  ELSE NoName

(* What an entry serves, if the version is there and released.              *)
Serves(e, sk, al) ==
  LET n == Follows(e, sk, al)
      v == IF e.version = 0 THEN sk[n].latest ELSE e.version
  IN  IF n # NoName /\ v \in DOMAIN sk[n].versions
        /\ sk[n].versions[v].state = "released"
      THEN {[name |-> n, version |-> v, bundle |-> sk[n].versions[v].bundle]}
      ELSE {}

Resolve(entries, sk, al) == UNION {Serves(e, sk, al) : e \in entries}

(* Whether an edit accepts an entry: its skill, or its alias's, has the     *)
(* version; a held one will do.                                             *)
Known(e) ==
  LET n == Follows(e, skill, alias)
  IN  n # NoName /\ skill[n].id # 0
      /\ (e.version = 0 \/ e.version \in DOMAIN skill[n].versions)

(* The sets that name a skill or one of its aliases.                        *)
SetsNaming(n, al, rows) ==
  {s \in Sets : rows[s].exists /\ \E e \in rows[s].entries : n \in {e.name, al[e.name].to}}

(* Recheck: a resolution that differs is recorded, saved and announced.     *)
Recheck(row, res) ==
  [row EXCEPT !.recorded = res, !.saved = @ \cup res]

-----------------------------------------------------------------------------
(* A skill's row and its versions.                                          *)
(* A free name; without reuse, one that no skill ever had. *)
Fresh(n) ==
  /\ SkillFree(n) /\ skill[n].id = 0
  /\ "reuse" \in happens \/ n \notin used

Register(n) ==
  /\ Fresh(n) /\ counts.skills < MaxSkill
  /\ skill' = [skill EXCEPT ![n] = [NoSkill EXCEPT !.id = counts.skills + 1]]
  /\ used' = used \cup {n}
  /\ Counted("skills")
  /\ UNCHANGED <<happens, alias, set, severed, tx>>

(* CreateVersion: numbered after every version there is; a released one     *)
(* moves the pointer and is announced.                                      *)
Publish(t, n, state) ==
  LET sk == skill[n]
      v  == [bundle |-> counts.publishes + 1, state |-> state]
      k  == Highest(sk.versions) + 1
      up == [sk EXCEPT !.versions = (k :> v) @@ @,
               !.latest = IF state = "released" THEN k ELSE @]
  IN
  /\ MayBegin(t) /\ SkillFree(n) /\ sk.id # 0 /\ counts.publishes < MaxPublish
  /\ Counted("publishes")
  /\ tx' = [tx EXCEPT ![t] = [Idle EXCEPT !.pc = "open", !.skills = Only(n, up),
              !.changed = IF state = "released" THEN <<n>> ELSE <<>>]]
  /\ UNCHANGED <<happens, skill, alias, set, used, severed>>

Held(n, v) ==
  v \in DOMAIN skill[n].versions /\ skill[n].versions[v].state = "held"

(* ReleaseVersion: only a held version; the pointer never goes back.        *)
Release(t, n, v) ==
  LET sk == skill[n] IN
  /\ MayBegin(t) /\ SkillFree(n)
  /\ Held(n, v)
  /\ tx' = [tx EXCEPT ![t] = [Idle EXCEPT !.pc = "open", !.changed = <<n>>,
              !.skills = Only(n, [sk EXCEPT !.versions[v].state = "released",
                                            !.latest = Max({@, v})])]]
  /\ UNCHANGED <<happens, skill, alias, set, counts, used, severed>>

Reject(n, v) ==
  /\ SkillFree(n) /\ Held(n, v)
  /\ skill' = [skill EXCEPT ![n].versions[v].state = "rejected"]
  /\ UNCHANGED <<happens, alias, set, counts, severed, tx, used>>

(* The aliases of a skill, which refer to it and go with its row. *)
AliasesOf(n) == {a \in Names : alias[a].to = n}

(* Store.Delete: the versions and the aliases go with the skill, before the *)
(* sets that name it are looked for.                                        *)
Delete(t, n) ==
  /\ MayBegin(t) /\ SkillFree(n) /\ skill[n].id # 0
  /\ \A a \in AliasesOf(n) : AliasFree(a)
  /\ tx' = [tx EXCEPT ![t] = [Idle EXCEPT !.pc = "open", !.changed = <<n>>,
              !.skills = Only(n, NoSkill), !.aliases = [a \in AliasesOf(n) |-> NoAlias]]]
  /\ UNCHANGED <<happens, skill, alias, set, counts, used, severed>>

-----------------------------------------------------------------------------
Merges(t) == tx[t].arg # <<>> /\ "src" \in DOMAIN tx[t].arg[1]

(* Merging source into target.  The highest number of the target and the    *)
(* source's versions, with their gate states, are read without locks.       *)
MergeRead(t, src, dst) ==
  /\ Alone(t) /\ src # dst /\ skill[src].id # 0 /\ skill[dst].id # 0
  /\ "twice" \in happens \/ \A u \in Txns : Merges(u) => tx[u].arg[1].src # src
  /\ tx' = [tx EXCEPT ![t] = [Idle EXCEPT !.pc = "merge",
              !.arg = <<[src |-> src, dst |-> dst, sid |-> skill[src].id,
                         did |-> skill[dst].id, listed |-> skill[src].versions,
                         above |-> Highest(skill[dst].versions)]>>]]
  /\ UNCHANGED <<happens, skill, alias, set, counts, used, severed>>

(* The list's versions get the numbers behind the target's, in their order. *)
NumberIn(m, v) == m.above + Cardinality({u \in DOMAIN m.listed : u <= v})

(* The last of the listed versions that was released when it was listed.    *)
HighestReleased(m) ==
  Max({0} \cup {NumberIn(m, v) : v \in {u \in DOMAIN m.listed : m.listed[u].state = "released"}})

(* The list names versions by their ids, whichever skill has them now.      *)
Versions     == UNION {Range(skill[n].versions) : n \in Names}
Listed(m, r) == \E v \in DOMAIN m.listed : m.listed[v].bundle = r.bundle
Holders(m)   == {n \in Names : \E r \in Range(skill[n].versions) : Listed(m, r)}
Moving(m)    == {v \in DOMAIN m.listed : \E r \in Versions : r.bundle = m.listed[v].bundle}

(* The versions of a list by their new numbers, as they are now.            *)
Renumbered(m, listed) ==
  [k \in {NumberIn(m, v) : v \in listed} |->
     CHOOSE r \in Versions : \E v \in listed : NumberIn(m, v) = k /\ m.listed[v].bundle = r.bundle]

(* mutant: only the released versions move. *)
MovedReleased(m) == Renumbered(m, {v \in Moving(m) : m.listed[v].state = "released"})

(* All that still are: another merge may have given them to another skill.  *)
Moved(m) == Renumbered(m, Moving(m))

(* What a skill keeps: the versions the merge does not move.                *)
Kept(m, row) ==
  [row EXCEPT !.versions = Restrict(@, {v \in DOMAIN @ : ~Listed(m, @[v])})]

(* They move one by one: the target has a number for no version that stays, *)
(* nor for one that moves later.                                            *)
NumbersFree(m, d) ==
  \A v \in Moving(m) : NumberIn(m, v) \in DOMAIN d.versions =>
    \E u \in Moving(m) : u <= v /\ m.listed[u].bundle = d.versions[NumberIn(m, v)].bundle

(* The versions move to the target, from whichever skill has them; a number *)
(* taken meanwhile or a target that is gone fails the merge.  The pointer   *)
(* moves by the list, the source goes with whatever else it has, its        *)
(* aliases among it, and its name becomes an alias of the target, whose row *)
(* keeps an earlier reason.                                                 *)
MergeWrite(t) ==
  LET m == tx[t].arg[1]
      d == skill[m.dst]
      gone == IF skill[m.src].id = m.sid THEN AliasesOf(m.src) \ {m.src} ELSE {}
      touched == {m.src, m.dst} \cup Holders(m)
  IN
  /\ tx[t].pc = "merge"
  /\ \A n \in touched : SkillFree(n)
  /\ d.id # 0
  /\ \A a \in gone \cup {m.src} : AliasFree(a)
  /\ Holders(m) # {} => d.id = m.did /\ NumbersFree(m, d)
  /\ tx' = [tx EXCEPT
       ![t].pc = "open", ![t].changed = <<m.src, m.dst>>,
       ![t].skills = [n \in touched |->
         IF n = m.src /\ skill[n].id = m.sid THEN NoSkill
         ELSE IF n = m.dst /\ d.id = m.did
         THEN [Kept(m, d) EXCEPT !.versions = Moved(m) @@ @,
                                 !.latest = Max({@, HighestReleased(m)})]
         ELSE Kept(m, skill[n])],
       ![t].aliases = [a \in gone \cup {m.src} |->
         IF a = m.src THEN [alias[a] EXCEPT !.to = m.dst] ELSE NoAlias]]
  /\ UNCHANGED <<happens, skill, alias, set, counts, used, severed>>

-----------------------------------------------------------------------------
(* SkillChanged and SetChanged, for every skill the transaction changed.    *)
ListSets(t) ==
  /\ tx[t].pc = "open" /\ tx[t].todo = {} /\ tx[t].changed # <<>>
  /\ tx' = [tx EXCEPT ![t].changed = Tail(@),
       ![t].todo = SetsNaming(Head(tx[t].changed), SeesAliases(t), SeesSets(t))]
  /\ UNCHANGED <<happens, skill, alias, set, counts, used, severed>>

(* In the order of ids, a set's row is locked, then its entries are         *)
(* resolved; a set that was deleted since it was listed fails the whole     *)
(* transaction.                                                             *)
RecheckSet(t, s) ==
  LET row == SeesSets(t)[s] IN
  /\ tx[t].pc = "open" /\ s \in tx[t].todo
  /\ \E i \in DOMAIN SetOrder : SetOrder[i] = s /\ \A j \in 1..i - 1 : SetOrder[j] \notin tx[t].todo
  /\ SetFree(t, s) /\ row.exists
  /\ tx' = [tx EXCEPT ![t].todo = @ \ {s},
       ![t].sets = [x \in DOMAIN @ \cup {s} |->
         IF x = s THEN Recheck(row, Resolve(row.entries, SeesSkills(t), SeesAliases(t))) ELSE @[x]]]
  /\ UNCHANGED <<happens, skill, alias, set, counts, used, severed>>

Commit(t) ==
  /\ tx[t].pc = "open" /\ tx[t].changed = <<>> /\ tx[t].todo = {}
  /\ skill' = SeesSkills(t) /\ alias' = SeesAliases(t) /\ set' = SeesSets(t)
  /\ severed' = severed \cup {a \in DOMAIN tx[t].aliases : tx[t].aliases[a] = NoAlias}
  /\ tx' = [tx EXCEPT ![t] = Idle]
  /\ UNCHANGED <<happens, counts, used>>

Abort(t) ==
  /\ ~Idles(t)
  /\ tx' = [tx EXCEPT ![t] = Idle]
  /\ UNCHANGED <<happens, skill, alias, set, counts, used, severed>>

-----------------------------------------------------------------------------
(* Creating and editing a set: the entries are validated, then the row is   *)
(* inserted or locked, and the first resolution recorded or the set         *)
(* rechecked.                                                               *)
EditRead(t, s, entries) ==
  /\ Alone(t) /\ \A e \in entries : Known(e)
  /\ set[s].exists => set[s].entries # entries
  /\ tx' = [tx EXCEPT ![t] = [Idle EXCEPT !.pc = "edit",
              !.arg = <<[set |-> s, entries |-> entries, there |-> set[s].exists]>>]]
  /\ UNCHANGED <<happens, skill, alias, set, counts, used, severed>>

EditWrite(t) ==
  LET a == tx[t].arg[1] IN
  /\ tx[t].pc = "edit" /\ SetFree(t, a.set) /\ set[a.set].exists = a.there
  /\ tx' = [tx EXCEPT ![t].pc = "open",
       ![t].sets = Only(a.set, Recheck([set[a.set] EXCEPT !.exists = TRUE, !.entries = a.entries],
                                       Resolve(a.entries, skill, alias)))]
  /\ UNCHANGED <<happens, skill, alias, set, counts, used, severed>>

DeleteSet(s) ==
  /\ set[s].exists /\ \A t \in Txns : SetFree(t, s)
  /\ set' = [set EXCEPT ![s] = NoSet]
  /\ UNCHANGED <<happens, skill, alias, counts, severed, tx, used>>

-----------------------------------------------------------------------------
(* Statements of their own, which recheck no set.                           *)
CreateAlias(a, n) ==
  /\ "alias" \in happens /\ counts.changes < MaxChange /\ AliasFree(a)
  /\ SkillFree(n) /\ skill[n].id # 0 /\ skill[a].id = 0
  /\ alias' = [alias EXCEPT ![a].to = n]
  /\ Counted("changes")
  /\ UNCHANGED <<happens, skill, set, severed, tx, used>>

DeleteAlias(a) ==
  /\ "alias" \in happens /\ AliasFree(a) /\ alias[a].to # NoName
  /\ alias' = [alias EXCEPT ![a] = NoAlias]
  /\ UNCHANGED <<happens, skill, set, counts, severed, tx, used>>

(* Git sync renames a bound skill whose new name is free, and the aliases   *)
(* the skill has follow; the model lets it while no other request runs.     *)
Rename(n, m) ==
  /\ "rename" \in happens /\ counts.changes < MaxChange
  /\ \A t \in Txns : Idles(t)
  /\ skill[n].id # 0 /\ Fresh(m)
  /\ skill' = [skill EXCEPT ![n] = NoSkill, ![m] = skill[n]]
  /\ alias' = [a \in Names |->
       IF a = n THEN [to |-> m, reason |-> "rename"]
       ELSE IF alias[a].to = n THEN [alias[a] EXCEPT !.to = m] ELSE alias[a]]
  /\ used' = used \cup {m}
  /\ Counted("changes")
  /\ UNCHANGED <<happens, set, severed, tx>>

Step ==
  \/ \E n \in Names : Register(n)
  \/ \E n \in Names, v \in 1..MaxPublish : Reject(n, v)
  \/ \E a, n \in Names : CreateAlias(a, n)
  \/ \E a \in Names : DeleteAlias(a)
  \/ \E n, m \in Names : Rename(n, m)
  \/ \E s \in Sets : DeleteSet(s)
  \/ \E t \in Txns :
       \/ \E n \in Names, state \in {"released", "held"} : Publish(t, n, state)
       \/ \E n \in Names, v \in 1..MaxPublish : Release(t, n, v)
       \/ \E n \in Names : Delete(t, n)
       \/ \E src, dst \in Names : MergeRead(t, src, dst)
       \/ \E s \in Sets, entries \in EntryLists : EditRead(t, s, entries)
       \/ \E s \in Sets : RecheckSet(t, s)
       \/ MergeWrite(t) \/ EditWrite(t) \/ ListSets(t) \/ Commit(t) \/ Abort(t)

(* What a pin serves is remembered. *)
Next ==
  /\ Step
  /\ served' = [p \in Pin |-> served[p] \cup {r.bundle : r \in Serves(p, skill', alias')}]

Spec == Init /\ [][Next]_vars

-----------------------------------------------------------------------------
Quiet == \A t \in Txns : Idles(t)

(* Once no request is under way, the resolution each set announced last is  *)
(* what it serves: releases, deletions and merges that overlap on several   *)
(* sets and skills leave no change unannounced.  Only edits and merges that *)
(* overlap with them, statements that recheck nothing, and sets that named  *)
(* a skill by an alias that went with it, are set aside.                    *)
QuietIsCurrent ==
  happens = {} /\ Quiet =>
    \A s \in Sets :
      set[s].exists /\ (\A e \in set[s].entries : e.name \notin severed) =>
        set[s].recorded = Resolve(set[s].entries, skill, alias)

(* What notifier.go:145-146 promises: a deletion or a merge rechecks each   *)
(* set that names the skill or one of its aliases.                          *)
AliasSetsRechecked ==
  happens = {} /\ Quiet =>
    \A s \in Sets : set[s].exists =>
      set[s].recorded = Resolve(set[s].entries, skill, alias)

(* A saved resolution's name and version stand for the bundle it was saved  *)
(* with, still released, or for nothing: no merge or renumbering gives them *)
(* to another bundle as long as names are not used again and no two merges  *)
(* of one skill overlap.                                                    *)
SavedStaysTrue ==
  happens \cap {"reuse", "twice"} = {} =>
    \A s \in Sets : \A r \in set[s].saved :
      r.version \in DOMAIN skill[r.name].versions =>
        skill[r.name].versions[r.version]
          = [bundle |-> r.bundle, state |-> "released"]

(* The pointer is the highest released version, and 0 when there is none,   *)
(* also after a merge has moved a skill's versions behind another's.        *)
PointersReach ==
  "overlap" \notin happens =>
    \A n \in Names : skill[n].latest = LastReleased(skill[n].versions)

(* However merges overlap, no version is of two skills or has two numbers.  *)
VersionsHaveOnePlace ==
  \A n, m \in Names : \A v \in DOMAIN skill[n].versions, w \in DOMAIN skill[m].versions :
    skill[n].versions[v].bundle = skill[m].versions[w].bundle => n = m /\ v = w

Bundles == {r.bundle : r \in Versions}

(* A merge loses no version, held and rejected ones included, but those its *)
(* source got after the merge had listed it; and those only beside          *)
(* another request.                                                         *)
Late(m) ==
  IF "overlap" \in happens /\ skill[m.src].id = m.sid
  THEN {r.bundle : r \in {q \in Range(skill[m.src].versions) : ~Listed(m, q)}}
  ELSE {}

MergesKeepVersionsStep ==
  \A t \in Txns :
    Merges(t) /\ tx'[t] = Idle => Bundles \ Bundles' \subseteq Late(tx[t].arg[1])

(* An exact pin serves one bundle for ever, after a time when it served     *)
(* nothing too: it follows a rename, which keeps the numbers, and no merge, *)
(* as long as no name is used again, no alias is edited by hand and no two  *)
(* merges of one skill overlap.                                             *)
PinKeepsBundleStep ==
  happens \cap {"reuse", "alias", "twice"} = {} =>
    \A p \in Pin : \A r \in Serves(p, skill, alias)' : served[p] \subseteq {r.bundle}

=============================================================================
