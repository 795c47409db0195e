----------------------------- MODULE Ownership ------------------------------
(***************************************************************************)
(* Who owns which skill names (internal/ownership), and the requests that  *)
(* change it: the rule routes, the claim of a first publish and the git    *)
(* connections (gitsync/syncer.go).  Each lists the rules, decides whether *)
(* the caller may manage the pattern, and writes in a transaction of its   *)
(* own later; in between, other requests write theirs.                     *)
(*                                                                         *)
(* A name is a sequence of atoms; a pattern is an exact name or all the    *)
(* names a prefix begins.                                                  *)
(***************************************************************************)
EXTENDS Naturals, Sequences, FiniteSets

CONSTANTS
  Atoms,      \* what names are made of
  Names,      \* skill names
  Patterns,   \* patterns ValidatePattern accepts
  Users,      \* people
  Admins,     \* those with instance privilege
  Accounts,   \* the service accounts git connections may get
  Requests,   \* requests the server handles at the same time
  MemberLists, \* the lists of members a caller may write
  MaxRules,   \* bound per pattern on the rules ever created for it
  NoUser

ASSUME OwnershipAssumption ==
  /\ Names \subseteq Seq(Atoms)
  /\ Patterns \subseteq [scope : Seq(Atoms), prefix : BOOLEAN]
  /\ Admins \subseteq Users
  /\ NoUser \notin Users \cup Accounts
  /\ Users \cap Accounts = {}
  /\ MemberLists \subseteq SUBSET (Users \cup Accounts)
  /\ MaxRules \in [Patterns -> Nat]
  /\ NoUser \notin Patterns

VARIABLES
  rules,     \* per pattern: which rule it has, 0 for none, and its members
  born,      \* per pattern: how many rules it ever had, the id of the last
  account,   \* per service account: whether it is there, and its connection's prefix
  req,       \* what each request is doing
  granted    \* history: the names a privileged write or a first claim covered

vars == <<rules, born, account, req, granted>>

Ids     == Nat
Members == Users \cup Accounts
NoRule  == [id |-> 0, members |-> {}]
NoPattern == NoUser

Account ==
  [state : {"fresh", "gone"}, prefix : {NoPattern}] \cup
  [state : {"live"}, prefix : Patterns]

Request ==
  [op      : {"none", "set", "put", "delete", "claim", "connect", "disconnect"},
   pc      : {"authorised", "read"},
   user    : Users \cup {NoUser},
   pattern : Patterns \cup {NoPattern},
   id      : Ids,
   members : SUBSET Members]

NoRequest == [op |-> "none", pc |-> "authorised", user |-> NoUser,
              pattern |-> NoPattern, id |-> 0, members |-> {}]

TypeOK ==
  /\ rules   \in [Patterns -> [id : Ids, members : SUBSET Members]]
  /\ born    \in [Patterns -> Ids]
  /\ account \in [Accounts -> Account]
  /\ req     \in [Requests -> Request]
  /\ granted \in SUBSET Names

Init ==
  /\ rules   = [p \in Patterns |-> NoRule]
  /\ born    = [p \in Patterns |-> 0]
  /\ account = [a \in Accounts |-> [state |-> "fresh", prefix |-> NoPattern]]
  /\ req     = [r \in Requests |-> NoRequest]
  /\ granted = {}

-----------------------------------------------------------------------------
(* Patterns. *)

HasPrefix(s, t) == Len(t) <= Len(s) /\ \A i \in 1..Len(t) : s[i] = t[i]

Matches(p, n) == IF p.prefix THEN HasPrefix(n, p.scope) ELSE n = p.scope

NamesOf(p) == {n \in Names : Matches(p, n)}

StrictlyContains(outer, inner) ==
  outer # inner /\ outer.prefix /\ HasPrefix(inner.scope, outer.scope)

Present == {p \in Patterns : rules[p].id # 0}

(* Resolve: the exact rule, else the longest prefix. *)
Governs(p, n) ==
  /\ p \in Present /\ Matches(p, n)
  /\ p.prefix => \A q \in Present : Matches(q, n) =>
                   q.prefix /\ Len(q.scope) <= Len(p.scope)

Unowned(n) == \A p \in Present : ~Matches(p, n)

MembersFor(n) == UNION {rules[p].members : p \in {q \in Present : Governs(q, n)}}

(* mutant: a member of a narrower rule manages the wider one. *)
CanManageAround(u, p) ==
  \/ u \in Admins
  \/ \E q \in Present : /\ u \in rules[q].members
                        /\ q = p \/ StrictlyContains(p, q)

(* Privileged, a member of the rule, or of one that strictly contains it.   *)
CanManage(u, p) ==
  \/ u \in Admins
  \/ \E q \in Present : /\ u \in rules[q].members
                        /\ q = p \/ StrictlyContains(q, p)

-----------------------------------------------------------------------------
(* The store's writes. *)

Exists(m) == m \in Users \/ (m \in Accounts /\ account[m].state = "live")

(* The row keeps its id if it is there; otherwise it is a new one.          *)
Put(p, members) ==
  /\ \/ /\ rules[p].id # 0
        /\ UNCHANGED born
     \/ /\ rules[p].id = 0
        /\ born[p] < MaxRules[p]
        /\ born' = [born EXCEPT ![p] = @ + 1]
  /\ rules' = [rules EXCEPT ![p] = [id |-> born'[p], members |-> members]]

Start(r, op, u, p, id, members) ==
  /\ req[r].op = "none"
  /\ req' = [req EXCEPT ![r] = [NoRequest EXCEPT !.op = op, !.user = u,
               !.pattern = p, !.id = id, !.members = members]]
  /\ UNCHANGED <<rules, born, account, granted>>

At(r, ops, pc) == req[r].op \in ops /\ req[r].pc = pc
Done(r) == req' = [req EXCEPT ![r] = NoRequest]

(* A privileged caller extends what is granted; another one does not.       *)
Grant(r) ==
  granted' = IF req[r].user \in Admins
             THEN granted \cup NamesOf(req[r].pattern) ELSE granted

-----------------------------------------------------------------------------
(* The rule routes. *)

StartSet(r, u, p, members) ==
  /\ CanManage(u, p)
  /\ members # {}
  /\ \A m \in members : Exists(m)
  /\ Start(r, "set", u, p, 0, members)

StartPut(r, u, p, members) ==
  /\ rules[p].id # 0
  /\ CanManage(u, p)
  /\ members # {}
  /\ \A m \in members : Exists(m)
  /\ Start(r, "put", u, p, rules[p].id, members)

StartDelete(r, u, p) ==
  /\ rules[p].id # 0
  /\ CanManage(u, p)
  /\ Start(r, "delete", u, p, rules[p].id, {})

InsertableNow(members) == \A m \in members : Exists(m)

(* Both routes upsert by the pattern and replace the members; a member that *)
(* has gone breaks the foreign key and the transaction rolls back.          *)
Upsert(r) ==
  /\ At(r, {"set", "put"}, "authorised")
  /\ InsertableNow(req[r].members)
  /\ Put(req[r].pattern, req[r].members)
  /\ Grant(r)
  /\ Done(r)
  /\ UNCHANGED account

(* mutant: the rule of that pattern, whichever it is. *)
StillTheRule(r) == TRUE

SameRule(r) == rules[req[r].pattern].id = req[r].id

(* By id: a rule made since under the same pattern is another one. *)
Delete(r) ==
  /\ At(r, {"delete"}, "authorised")
  /\ rules' = IF SameRule(r) THEN [rules EXCEPT ![req[r].pattern] = NoRule]
                             ELSE rules
  /\ Done(r)
  /\ UNCHANGED <<born, account, granted>>

(* A first publish saw the name unowned, and upserts its exact rule.        *)
StartClaim(r, u, p) ==
  /\ ~p.prefix /\ p.scope \in Names
  /\ Unowned(p.scope)
  /\ Start(r, "claim", u, p, 0, {u})

Claim(r) ==
  /\ At(r, {"claim"}, "authorised")
  /\ Put(req[r].pattern, req[r].members)
  /\ granted' = granted \cup NamesOf(req[r].pattern)
  /\ Done(r)
  /\ UNCHANGED account

-----------------------------------------------------------------------------
(* Git connections. *)

(* Authorised first; then GitHub is asked what the repository holds.        *)
StartConnect(r, u, p) ==
  /\ p.prefix
  /\ CanManage(u, p)
  /\ Start(r, "connect", u, p, 0, {})

(* The rules are listed again: without one for the prefix, the members are  *)
(* whoever owns the prefix read as a name, else the caller.                 *)
ReadOwners(r) ==
  LET p == req[r].pattern
  IN  /\ At(r, {"connect"}, "authorised")
      /\ req' = [req EXCEPT ![r].pc = "read", ![r].members =
                   IF rules[p].id # 0 THEN {}
                   ELSE IF Unowned(p.scope) THEN {req[r].user}
                   ELSE MembersFor(p.scope)]
      /\ UNCHANGED <<rules, born, account, granted>>

(* One transaction: the account, the members merged into the rule, and the  *)
(* connection.                                                              *)
Connect(r, a) ==
  LET p == req[r].pattern
  IN  /\ At(r, {"connect"}, "read")
      /\ account[a].state = "fresh"
      /\ InsertableNow(req[r].members)
      /\ account' = [account EXCEPT ![a] = [state |-> "live", prefix |-> p]]
      /\ Put(p, rules[p].members \cup req[r].members \cup {a})
      /\ Grant(r)
      /\ Done(r)

StartDisconnect(r, u, a) ==
  /\ account[a].state = "live"
  /\ CanManage(u, account[a].prefix)
  /\ Start(r, "disconnect", u, account[a].prefix, 0, {a})

(* Memberships go with the account. *)
MembersWithout(gone) ==
  [p \in Patterns |-> [rules[p] EXCEPT !.members = @ \ gone]]

Disconnect(r) ==
  /\ At(r, {"disconnect"}, "authorised")
  /\ account' = [a \in Accounts |->
                   IF a \in req[r].members
                   THEN [state |-> "gone", prefix |-> NoPattern] ELSE account[a]]
  /\ rules' = MembersWithout(req[r].members)
  /\ Done(r)
  /\ UNCHANGED <<born, granted>>

(* The database, GitHub or the connection fails before the write. *)
Abandon(r) ==
  /\ req[r].op # "none"
  /\ Done(r)
  /\ UNCHANGED <<rules, born, account, granted>>

-----------------------------------------------------------------------------
Managing(r) ==
  \/ \E u \in Users, p \in Patterns :
       \/ \E members \in MemberLists : \/ StartSet(r, u, p, members)
                                       \/ StartPut(r, u, p, members)
       \/ StartDelete(r, u, p) \/ StartClaim(r, u, p) \/ StartConnect(r, u, p)
  \/ Upsert(r) \/ Delete(r) \/ Claim(r) \/ Abandon(r)

Connecting(r) ==
  \/ ReadOwners(r)
  \/ \E a \in Accounts : Connect(r, a)
  \/ \E u \in Users, a \in Accounts : StartDisconnect(r, u, a)
  \/ Disconnect(r)

Next == \E r \in Requests : Managing(r) \/ Connecting(r)

Spec == Init /\ [][Next]_vars

-----------------------------------------------------------------------------
(* No sequence of rule changes by people without privilege, however their   *)
(* requests interleave and however old the listing they were authorised on, *)
(* covers a name that no admin and no first publish ever gave away          *)
(* (manage.go CanManage; manage_test.go TestCanManageNeverEscalatesScope    *)
(* tries one caller's edits one after the other).                           *)
OnlyGrantedNamesAreOwned == \A p \in Present : NamesOf(p) \subseteq granted

(* Delegation is not one-way: whoever is a member of any rule over a name   *)
(* can manage the rule that governs it, the narrower one they carved out    *)
(* included (manage.go, the third clause, against rule.go Resolve).         *)
MembersManageWhatGoverns ==
  \A n \in Names : \A p, q \in Present :
    (Governs(p, n) /\ Matches(q, n)) =>
      \A u \in rules[q].members : CanManage(u, p)

(* A member of a rule is a person or the account of a connection: none is   *)
(* left behind by a disconnect that raced the request which names it.       *)
MembersExist == \A p \in Patterns : \A m \in rules[p].members : Exists(m)

(* However old the listing a request was authorised on is when it writes,   *)
(* no rule goes beyond what was granted and none names somebody who is gone *)
(* (ownership/routes.go:147, gitsync/syncer.go:403).                        *)
RulesStayGranted == OnlyGrantedNamesAreOwned /\ MembersExist

(* The inductive invariant: a request in flight for someone without          *)
(* privilege is for names already granted, as they were when it was         *)
(* authorised, and a claim makes its publisher the only member.             *)
RequestOK(r) ==
  /\ req[r].pc = "read" => req[r].op = "connect"
  /\ req[r].op # "none" => req[r].user \in Users /\ req[r].pattern \in Patterns
  /\ req[r].op \in {"set", "put", "connect"} =>
       req[r].user \in Admins \/ NamesOf(req[r].pattern) \subseteq granted
  /\ req[r].op = "delete" => req[r].id # 0
  /\ req[r].op = "claim" => req[r].members = {req[r].user}

IInv ==
  /\ TypeOK
  /\ \A p \in Patterns : rules[p].id \in {0, born[p]}
  /\ OnlyGrantedNamesAreOwned
  /\ MembersExist
  /\ \A r \in Requests : RequestOK(r)

(* A rule is deleted only by the request that was authorised for that rule, *)
(* never for one made since under the same pattern (routes.go, "rules are   *)
(* addressed by id").                                                       *)
DeletesWhatItSaw ==
  [][\A p \in Patterns : (rules[p].id # 0 /\ rules'[p].id = 0) =>
       \E r \in Requests : /\ req[r].op = "delete"
                           /\ req[r].pattern = p
                           /\ req[r].id = rules[p].id
                           /\ req'[r] = NoRequest]_vars

(* The loop of Resolve over the listing. *)

(* mutant: an exact match does not end the loop. *)
BetterByLength(p, best) == best = NoPattern \/ Len(p.scope) > Len(best.scope)
Better(p, best) ==
  \/ best = NoPattern
  \/ best.prefix /\ (~p.prefix \/ Len(p.scope) > Len(best.scope))

Scan(n, listing) ==
  LET best[i \in 0..Len(listing)] ==
        IF i = 0 THEN NoPattern
        ELSE IF Matches(listing[i], n) /\ Better(listing[i], best[i - 1])
             THEN listing[i] ELSE best[i - 1]
  IN  best[Len(listing)]

Listings == {l \in [1..Cardinality(Present) -> Present] :
               \A i, j \in DOMAIN l : l[i] = l[j] => i = j}

(* In whatever order the rules are listed, the loop ends with the one rule  *)
(* that governs the name, or none (rule.go Resolve).                        *)
ResolveFindsTheGoverningRule ==
  \A n \in Names : \A l \in Listings :
    LET found == Scan(n, l)
    IN  IF found = NoPattern THEN Unowned(n)
        ELSE {p \in Present : Governs(p, n)} = {found}

-----------------------------------------------------------------------------
(* What comments of the code say and the runs refute. *)

(* syncer.go:403-404: a connection's new rule "keeps whoever owned the      *)
(* prefix through an enclosing rule".                                       *)
Enclosing(q, p) ==
  /\ q \in Present /\ StrictlyContains(q, p)
  /\ \A o \in Present : StrictlyContains(o, p) => Len(o.scope) <= Len(q.scope)

ConnectionKeepsOwners ==
  [][\A r \in Requests, p, q \in Patterns :
       (/\ At(r, {"connect"}, "read") /\ req'[r] = NoRequest
        /\ rules[p].id = 0 /\ rules'[p].id # 0 /\ Enclosing(q, p))
         => rules[q].members \subseteq rules'[p].members]_vars

(* routes.go:174: a PUT will "replace the members of an existing rule".     *)
PutReplacesExisting ==
  [][\A r \in Requests :
       (req[r].op = "put" /\ rules' # rules /\ req'[r] = NoRequest)
         => rules[req[r].pattern].id = req[r].id]_vars
=============================================================================
