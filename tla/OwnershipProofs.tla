-------------------------- MODULE OwnershipProofs ---------------------------
(***************************************************************************)
(* Proofs about Ownership for any names, patterns, people and number of    *)
(* concurrent requests.                                                    *)
(***************************************************************************)
EXTENDS Ownership, FiniteSetTheorems, WellFoundedInduction, TLAPS

LEMMA PatternIsRecord ==
  ASSUME NEW p \in Patterns
  PROVE  /\ p.scope \in Seq(Atoms) /\ p.prefix \in BOOLEAN
         /\ p = [scope |-> p.scope, prefix |-> p.prefix]
  BY OwnershipAssumption

LEMMA PrefixesCompose ==
  ASSUME NEW s \in Seq(Atoms), NEW t \in Seq(Atoms), NEW u \in Seq(Atoms),
         HasPrefix(s, t), HasPrefix(t, u)
  PROVE  HasPrefix(s, u)
  <1>1. Len(s) \in Nat /\ Len(t) \in Nat /\ Len(u) \in Nat
    OBVIOUS
  <1>2. Len(u) <= Len(s)
    BY <1>1 DEF HasPrefix
  <1>3. \A i \in 1..Len(u) : s[i] = u[i]
    BY <1>1 DEF HasPrefix
  <1> QED
    BY <1>2, <1>3 DEF HasPrefix

(* What a rule contains, it covers: the names of the inner pattern are      *)
(* names of the outer one.                                                  *)
LEMMA ContainedNames ==
  ASSUME NEW p \in Patterns, NEW q \in Patterns, q = p \/ StrictlyContains(q, p)
  PROVE  NamesOf(p) \subseteq NamesOf(q)
  <1>1. CASE q = p
    BY <1>1
  <1>2. CASE StrictlyContains(q, p)
    <2> SUFFICES ASSUME NEW n \in Names, Matches(p, n)
                 PROVE  Matches(q, n)
      BY DEF NamesOf
    <2>1. n \in Seq(Atoms) /\ p.scope \in Seq(Atoms) /\ q.scope \in Seq(Atoms)
      BY OwnershipAssumption, PatternIsRecord
    <2>2. HasPrefix(p.scope, q.scope) /\ q.prefix
      BY <1>2 DEF StrictlyContains
    <2>3. CASE p.prefix
      BY <2>1, <2>2, <2>3, PrefixesCompose DEF Matches
    <2>4. CASE ~p.prefix
      BY <2>2, <2>4 DEF Matches
    <2> QED
      BY <2>3, <2>4
  <1> QED
    BY <1>1, <1>2

(* Two prefixes of one name: the shorter begins the longer.                 *)
LEMMA PrefixesOfOneName ==
  ASSUME NEW n \in Seq(Atoms), NEW s \in Seq(Atoms), NEW t \in Seq(Atoms),
         HasPrefix(n, s), HasPrefix(n, t), Len(t) <= Len(s)
  PROVE  HasPrefix(s, t) /\ (Len(s) = Len(t) => s = t)
  <1>1. Len(s) \in Nat /\ Len(t) \in Nat
    OBVIOUS
  <1>2. \A i \in 1..Len(t) : s[i] = t[i]
    BY <1>1 DEF HasPrefix
  <1>3. HasPrefix(s, t)
    BY <1>2 DEF HasPrefix
  <1>4. Len(s) = Len(t) => s = t
    BY <1>2
  <1> QED
    BY <1>3, <1>4

(* A rule over a name is the one that governs it, or strictly contains it.  *)
LEMMA CoveringContainsGoverning ==
  ASSUME NEW n \in Names, NEW p \in Patterns, NEW q \in Patterns,
         Governs(p, n), q \in Present, Matches(q, n)
  PROVE  q = p \/ StrictlyContains(q, p)
  <1>1. /\ n \in Seq(Atoms)
        /\ p.scope \in Seq(Atoms) /\ p.prefix \in BOOLEAN
        /\ q.scope \in Seq(Atoms) /\ q.prefix \in BOOLEAN
    BY OwnershipAssumption, PatternIsRecord
  <1>2. Matches(p, n)
    BY DEF Governs
  <1>3. CASE p.prefix
    <2>1. q.prefix /\ Len(q.scope) <= Len(p.scope)
      BY <1>3 DEF Governs
    <2>2. HasPrefix(n, p.scope) /\ HasPrefix(n, q.scope)
      BY <1>2, <1>3, <2>1 DEF Matches
    <2>3. HasPrefix(p.scope, q.scope)
      BY <1>1, <2>1, <2>2, PrefixesOfOneName
    <2> QED
      BY <2>1, <2>3 DEF StrictlyContains
  <1>4. CASE ~p.prefix
    <2>1. n = p.scope
      BY <1>2, <1>4 DEF Matches
    <2>2. CASE q.prefix
      BY <1>4, <2>1, <2>2 DEF Matches, StrictlyContains
    <2>3. CASE ~q.prefix
      <3>1. q.scope = p.scope /\ q.prefix = p.prefix
        BY <1>1, <1>4, <2>1, <2>3 DEF Matches
      <3> QED
        BY <3>1, PatternIsRecord
    <2> QED
      BY <2>2, <2>3
  <1> QED
    BY <1>3, <1>4

-----------------------------------------------------------------------------
LEMMA InitInvariant == Init => IInv
  <1> SUFFICES ASSUME Init PROVE IInv
    OBVIOUS
  <1>1. 0 \in Ids /\ NoRule \in [id : Ids, members : SUBSET Members]
    BY OwnershipAssumption DEF Ids, NoRule
  <1>2. NoRequest \in Request
    BY <1>1 DEF Request, NoRequest
  <1>3. TypeOK
    BY <1>1, <1>2 DEF Init, TypeOK, Account
  <1>4. Present = {}
    BY DEF Init, Present, NoRule
  <1>5. \A p \in Patterns : rules[p].id \in {0, born[p]} /\ rules[p].members = {}
    BY DEF Init, NoRule
  <1>6. \A r \in Requests : RequestOK(r)
    BY DEF Init, RequestOK, NoRequest
  <1> QED
    BY <1>3, <1>4, <1>5, <1>6 DEF IInv, OnlyGrantedNamesAreOwned, MembersExist

(* Whoever may manage a pattern is an admin, or the pattern is granted.     *)
LEMMA ManagersAreGranted ==
  ASSUME IInv, NEW u \in Users, NEW p \in Patterns, CanManage(u, p)
  PROVE  u \in Admins \/ NamesOf(p) \subseteq granted
  <1>1. CASE u \in Admins
    BY <1>1
  <1>2. CASE \E q \in Present : q = p \/ StrictlyContains(q, p)
    <2>1. PICK q \in Present : q = p \/ StrictlyContains(q, p)
      BY <1>2
    <2>2. q \in Patterns /\ NamesOf(q) \subseteq granted
      BY DEF IInv, OnlyGrantedNamesAreOwned, Present
    <2> QED
      BY <2>1, <2>2, ContainedNames
  <1> QED
    BY <1>1, <1>2 DEF CanManage

(* A request that is over, or has just been authorised. *)
LEMMA RequestEnds ==
  ASSUME IInv, NEW r \in Requests, Done(r), granted \subseteq granted'
  PROVE  /\ req' \in [Requests -> Request]
         /\ \A s \in Requests : RequestOK(s)'
  <1>1. NoRequest \in Request
    BY OwnershipAssumption DEF Request, NoRequest, Ids
  <1>2. req' \in [Requests -> Request]
    BY <1>1 DEF IInv, TypeOK, Done
  <1>3. req'[r] = NoRequest /\ \A s \in Requests \ {r} : req'[s] = req[s]
    BY DEF IInv, TypeOK, Done
  <1>4. RequestOK(r)'
    BY <1>3 DEF RequestOK, NoRequest
  <1>5. \A s \in Requests \ {r} : RequestOK(s)'
    BY <1>3 DEF IInv, RequestOK, NamesOf
  <1> QED
    BY <1>2, <1>4, <1>5

LEMMA RequestStarts ==
  ASSUME IInv, NEW r \in Requests, NEW u \in Users, NEW p \in Patterns,
         NEW op \in {"set", "put", "delete", "claim", "connect", "disconnect"},
         NEW id \in Ids, NEW members \in SUBSET Members,
         Start(r, op, u, p, id, members),
         op \in {"set", "put", "connect"} =>
           u \in Admins \/ NamesOf(p) \subseteq granted,
         op = "delete" => id # 0,
         op = "claim" => members = {u}
  PROVE  IInv'
  <1> DEFINE q == [NoRequest EXCEPT !.op = op, !.user = u, !.pattern = p,
                                    !.id = id, !.members = members]
  <1>1. q \in Request
    BY DEF Request, NoRequest
  <1>2. /\ q.op = op /\ q.user = u /\ q.pattern = p /\ q.id = id
        /\ q.members = members /\ q.pc = "authorised"
    BY DEF NoRequest
  <1>3. /\ req' = [req EXCEPT ![r] = q]
        /\ UNCHANGED <<rules, born, account, granted>>
    BY DEF Start
  <1> HIDE DEF q
  <1>4. req'[r] = q /\ \A s \in Requests \ {r} : req'[s] = req[s]
    BY <1>3 DEF IInv, TypeOK
  <1>5. TypeOK'
    BY <1>1, <1>3 DEF IInv, TypeOK
  <1>6. RequestOK(r)'
    BY <1>2, <1>3, <1>4 DEF RequestOK, NamesOf
  <1>7. \A s \in Requests \ {r} : RequestOK(s)'
    BY <1>3, <1>4 DEF IInv, RequestOK, NamesOf
  <1>8. \A p_1 \in Patterns : (rules[p_1].id \in {0, born[p_1]})'
    BY <1>3 DEF IInv
  <1>9. OnlyGrantedNamesAreOwned' /\ MembersExist'
    BY <1>3 DEF IInv, OnlyGrantedNamesAreOwned, MembersExist, Present, Exists,
                NamesOf
  <1> QED
    BY <1>5, <1>6, <1>7, <1>8, <1>9 DEF IInv

(* What a write of a rule keeps. *)
LEMMA PutKeeps ==
  ASSUME IInv, NEW p \in Patterns, NEW members \in SUBSET Members,
         Put(p, members), granted \subseteq granted',
         granted' \subseteq Names,
         NamesOf(p) \subseteq granted',
         \A m \in members : Exists(m)',
         \A m \in Members : Exists(m) => Exists(m)'
  PROVE  /\ rules' \in [Patterns -> [id : Ids, members : SUBSET Members]]
         /\ born' \in [Patterns -> Ids]
         /\ \A q \in Patterns : rules'[q].id \in {0, born'[q]}
         /\ \A q \in Patterns : rules[q].id # 0 => rules'[q].id # 0
         /\ OnlyGrantedNamesAreOwned'
         /\ MembersExist'
  <1> USE DEF IInv, TypeOK
  <1>1. born' \in [Patterns -> Ids]
    <2>1. CASE born[p] < MaxRules[p] /\ born' = [born EXCEPT ![p] = @ + 1]
      <3>1. born[p] + 1 \in Ids
        BY <2>1, OwnershipAssumption DEF Ids
      <3> QED
        BY <2>1, <3>1
    <2>2. CASE UNCHANGED born
      BY <2>2
    <2> QED
      BY <2>1, <2>2 DEF Put
  <1>2. rules' = [rules EXCEPT ![p] = [id |-> born'[p], members |-> members]]
    BY DEF Put
  <1>3. rules' \in [Patterns -> [id : Ids, members : SUBSET Members]]
    BY <1>1, <1>2
  <1>4. \A q \in Patterns \ {p} : rules'[q] = rules[q] /\ born'[q] = born[q]
    BY <1>2 DEF Put
  <1>5. rules'[p].id = born'[p] /\ rules'[p].members = members
    BY <1>2
  <1>6. rules[p].id # 0 => rules'[p].id # 0
    BY <1>5 DEF Put
  <1>7. OnlyGrantedNamesAreOwned'
    <2> SUFFICES ASSUME NEW q \in Patterns, rules'[q].id # 0
                 PROVE  NamesOf(q) \subseteq granted'
      BY DEF OnlyGrantedNamesAreOwned, Present, NamesOf
    <2>1. CASE q = p
      BY <2>1
    <2>2. CASE q # p
      BY <1>4, <2>2 DEF OnlyGrantedNamesAreOwned, Present
    <2> QED
      BY <2>1, <2>2
  <1>8. MembersExist'
    BY <1>4, <1>5 DEF MembersExist
  <1> QED
    BY <1>1, <1>3, <1>4, <1>5, <1>6, <1>7, <1>8

-----------------------------------------------------------------------------
LEMMA UpsertKeeps ==
  ASSUME IInv, NEW r \in Requests, Upsert(r)
  PROVE  IInv'
  <1> DEFINE p == req[r].pattern
  <1>1. /\ req[r].op \in {"set", "put"} /\ p \in Patterns
        /\ req[r].members \in SUBSET Members /\ req[r].user \in Users
        /\ req[r].user \in Admins \/ NamesOf(p) \subseteq granted
    <2>1. req[r] \in Request /\ RequestOK(r)
      BY DEF IInv, TypeOK
    <2>2. req[r].op \in {"set", "put"}
      BY DEF Upsert, At
    <2> QED
      BY <2>1, <2>2 DEF RequestOK, Request
  <1>2. granted \subseteq granted' /\ NamesOf(p) \subseteq granted' /\ granted' \subseteq Names
    BY <1>1 DEF Upsert, Grant, NamesOf, IInv, TypeOK
  <1>3. Put(p, req[r].members) /\ Done(r) /\ UNCHANGED account
    BY DEF Upsert
  <1>4. \A m \in Members : Exists(m) <=> Exists(m)'
    BY <1>3 DEF Exists
  <1>5. \A m \in req[r].members : Exists(m)'
    BY <1>1, <1>4 DEF Upsert, InsertableNow
  <1> HIDE DEF p
  <1>6. /\ rules' \in [Patterns -> [id : Ids, members : SUBSET Members]]
        /\ born' \in [Patterns -> Ids]
        /\ \A q \in Patterns : rules'[q].id \in {0, born'[q]}
        /\ OnlyGrantedNamesAreOwned' /\ MembersExist'
    BY <1>1, <1>2, <1>3, <1>4, <1>5, PutKeeps DEF p
  <1>7. req' \in [Requests -> Request] /\ \A s \in Requests : RequestOK(s)'
    BY <1>2, <1>3, RequestEnds
  <1> QED
    BY <1>2, <1>3, <1>6, <1>7 DEF IInv, TypeOK

LEMMA ClaimKeeps ==
  ASSUME IInv, NEW r \in Requests, Claim(r)
  PROVE  IInv'
  <1> DEFINE p == req[r].pattern
  <1>1. /\ req[r].op = "claim" /\ p \in Patterns /\ req[r].user \in Users
        /\ req[r].members = {req[r].user}
    <2>1. RequestOK(r)
      BY DEF IInv
    <2>2. req[r].op = "claim"
      BY DEF Claim, At
    <2> QED
      BY <2>1, <2>2 DEF RequestOK
  <1>2. granted \subseteq granted' /\ NamesOf(p) \subseteq granted' /\ granted' \subseteq Names
    BY DEF Claim, NamesOf, IInv, TypeOK
  <1>3. Put(p, req[r].members) /\ Done(r) /\ UNCHANGED account
    BY DEF Claim
  <1>4. \A m \in Members : Exists(m) => Exists(m)'
    BY <1>3 DEF Exists
  <1>5. req[r].members \in SUBSET Members /\ \A m \in req[r].members : Exists(m)'
    BY <1>1 DEF Exists, Members
  <1> HIDE DEF p
  <1>6. /\ rules' \in [Patterns -> [id : Ids, members : SUBSET Members]]
        /\ born' \in [Patterns -> Ids]
        /\ \A q \in Patterns : rules'[q].id \in {0, born'[q]}
        /\ OnlyGrantedNamesAreOwned' /\ MembersExist'
    BY <1>1, <1>2, <1>3, <1>4, <1>5, PutKeeps DEF p
  <1>7. req' \in [Requests -> Request] /\ \A s \in Requests : RequestOK(s)'
    BY <1>2, <1>3, RequestEnds
  <1> QED
    BY <1>2, <1>3, <1>6, <1>7 DEF IInv, TypeOK

LEMMA ConnectKeeps ==
  ASSUME IInv, NEW r \in Requests, NEW a \in Accounts, Connect(r, a)
  PROVE  IInv'
  <1> DEFINE p == req[r].pattern
             members == rules[p].members \cup req[r].members \cup {a}
             live == [state |-> "live", prefix |-> p]
  <1>1. /\ req[r].op = "connect" /\ p \in Patterns
        /\ req[r].members \in SUBSET Members /\ req[r].user \in Users
        /\ req[r].user \in Admins \/ NamesOf(p) \subseteq granted
    <2>1. req[r] \in Request /\ RequestOK(r)
      BY DEF IInv, TypeOK
    <2>2. req[r].op = "connect"
      BY DEF Connect, At
    <2> QED
      BY <2>1, <2>2 DEF RequestOK, Request
  <1>2. granted \subseteq granted' /\ NamesOf(p) \subseteq granted' /\ granted' \subseteq Names
    BY <1>1 DEF Connect, Grant, NamesOf, IInv, TypeOK
  <1>3. /\ Put(p, members) /\ Done(r)
        /\ account' = [account EXCEPT ![a] = live]
    BY DEF Connect
  <1>4. /\ account' \in [Accounts -> Account]
        /\ account'[a].state = "live"
        /\ \A b \in Accounts \ {a} : account'[b] = account[b]
    <2>1. live \in Account
      BY <1>1 DEF Account
    <2> QED
      BY <1>3, <2>1 DEF IInv, TypeOK
  <1>5. \A m \in Members : Exists(m) => Exists(m)'
    BY <1>4 DEF Exists
  <1>6. members \in SUBSET Members
    BY <1>1 DEF IInv, TypeOK, Members
  <1>7. \A m \in members : Exists(m)'
    <2>1. Exists(a)'
      BY <1>4 DEF Exists
    <2>2. \A m \in rules[p].members \cup req[r].members : Exists(m)
      BY <1>1 DEF IInv, MembersExist, Connect, InsertableNow
    <2> QED
      BY <1>5, <1>6, <2>1, <2>2
  <1> HIDE DEF p, members, live
  <1>8. /\ rules' \in [Patterns -> [id : Ids, members : SUBSET Members]]
        /\ born' \in [Patterns -> Ids]
        /\ \A q \in Patterns : rules'[q].id \in {0, born'[q]}
        /\ OnlyGrantedNamesAreOwned' /\ MembersExist'
    BY <1>1, <1>2, <1>3, <1>5, <1>6, <1>7, PutKeeps DEF p
  <1>9. req' \in [Requests -> Request] /\ \A s \in Requests : RequestOK(s)'
    BY <1>2, <1>3, RequestEnds
  <1> QED
    BY <1>2, <1>4, <1>8, <1>9 DEF IInv, TypeOK

LEMMA DeleteKeeps ==
  ASSUME IInv, NEW r \in Requests, Delete(r)
  PROVE  IInv'
  <1> DEFINE p == req[r].pattern
  <1>1. /\ rules' = (IF SameRule(r) THEN [rules EXCEPT ![p] = NoRule] ELSE rules)
        /\ UNCHANGED <<born, account, granted>> /\ Done(r)
    BY DEF Delete
  <1>2. 0 \in Ids /\ NoRule \in [id : Ids, members : SUBSET Members]
    BY OwnershipAssumption DEF Ids, NoRule
  <1>3. \A q \in Patterns : rules'[q] = rules[q] \/ rules'[q] = NoRule
    BY <1>1 DEF IInv, TypeOK
  <1>4. rules' \in [Patterns -> [id : Ids, members : SUBSET Members]]
    BY <1>1, <1>2 DEF IInv, TypeOK
  <1>5. \A q \in Patterns : rules'[q].id \in {0, born'[q]}
    BY <1>1, <1>3 DEF IInv, NoRule
  <1>6. OnlyGrantedNamesAreOwned'
    BY <1>1, <1>3 DEF IInv, OnlyGrantedNamesAreOwned, Present, NoRule, NamesOf
  <1>7. MembersExist'
    BY <1>1, <1>3 DEF IInv, MembersExist, NoRule, Exists
  <1>8. req' \in [Requests -> Request] /\ \A s \in Requests : RequestOK(s)'
    BY <1>1, RequestEnds
  <1> QED
    BY <1>1, <1>4, <1>5, <1>6, <1>7, <1>8 DEF IInv, TypeOK

LEMMA ReadOwnersKeeps ==
  ASSUME IInv, NEW r \in Requests, ReadOwners(r)
  PROVE  IInv'
  <1> DEFINE p == req[r].pattern
             owners == IF rules[p].id # 0 THEN {}
                       ELSE IF Unowned(p.scope) THEN {req[r].user}
                       ELSE MembersFor(p.scope)
  <1>1. /\ req[r].op = "connect" /\ req[r].user \in Users /\ p \in Patterns
        /\ req[r] \in Request
    <2>1. req[r] \in Request /\ RequestOK(r)
      BY DEF IInv, TypeOK
    <2>2. req[r].op = "connect"
      BY DEF ReadOwners, At
    <2> QED
      BY <2>1, <2>2 DEF RequestOK
  <1>2. MembersFor(p.scope) \in SUBSET Members
    BY DEF MembersFor, Present, IInv, TypeOK
  <1>3. owners \in SUBSET Members
    BY <1>1, <1>2 DEF Members
  <1>4. /\ req' = [req EXCEPT ![r].pc = "read", ![r].members = owners]
        /\ UNCHANGED <<rules, born, account, granted>>
    BY DEF ReadOwners
  <1> HIDE DEF owners
  <1>5. /\ req'[r] = [req[r] EXCEPT !.pc = "read", !.members = owners]
        /\ \A s \in Requests \ {r} : req'[s] = req[s]
    BY <1>4 DEF IInv, TypeOK
  <1>6. /\ req'[r] \in Request
        /\ req'[r].op = "connect" /\ req'[r].user = req[r].user
        /\ req'[r].pattern = p
    BY <1>1, <1>3, <1>5 DEF Request
  <1>7. req' \in [Requests -> Request]
    BY <1>4, <1>5, <1>6 DEF IInv, TypeOK
  <1>8. RequestOK(r)'
    BY <1>1, <1>4, <1>6 DEF IInv, RequestOK, NamesOf
  <1>9. \A s \in Requests \ {r} : RequestOK(s)'
    BY <1>4, <1>5 DEF IInv, RequestOK, NamesOf
  <1>10. OnlyGrantedNamesAreOwned' /\ MembersExist'
    BY <1>4 DEF IInv, OnlyGrantedNamesAreOwned, MembersExist, Present, Exists,
                NamesOf
  <1> QED
    BY <1>4, <1>7, <1>8, <1>9, <1>10 DEF IInv, TypeOK

LEMMA DisconnectKeeps ==
  ASSUME IInv, NEW r \in Requests, Disconnect(r)
  PROVE  IInv'
  <1> DEFINE gone == req[r].members
             noAccount == [state |-> "gone", prefix |-> NoPattern]
  <1>1. /\ account' = [a \in Accounts |->
                        IF a \in gone THEN noAccount ELSE account[a]]
        /\ rules' = [p \in Patterns |-> [rules[p] EXCEPT !.members = @ \ gone]]
        /\ UNCHANGED <<born, granted>> /\ Done(r)
    BY DEF Disconnect, MembersWithout
  <1> HIDE DEF gone
  <1>2. \A p \in Patterns : /\ rules'[p].id = rules[p].id
                            /\ rules'[p].members = rules[p].members \ gone
                            /\ rules'[p] \in [id : Ids, members : SUBSET Members]
    <2> SUFFICES ASSUME NEW p \in Patterns
                 PROVE  /\ rules'[p].id = rules[p].id
                        /\ rules'[p].members = rules[p].members \ gone
                        /\ rules'[p] \in [id : Ids, members : SUBSET Members]
      OBVIOUS
    <2>1. rules[p] \in [id : Ids, members : SUBSET Members]
      BY DEF IInv, TypeOK
    <2>2. rules'[p] = [rules[p] EXCEPT !.members = @ \ gone]
      BY <1>1
    <2> QED
      BY <2>1, <2>2
  <1>3. rules' \in [Patterns -> [id : Ids, members : SUBSET Members]]
    BY <1>1, <1>2
  <1>4. account' \in [Accounts -> Account]
    <2>1. noAccount \in Account
      BY DEF Account
    <2> QED
      BY <1>1, <2>1 DEF IInv, TypeOK
  <1>5. OnlyGrantedNamesAreOwned'
    BY <1>1, <1>2 DEF IInv, OnlyGrantedNamesAreOwned, Present, NamesOf
  <1>6. \A m : (Exists(m) /\ m \notin gone) => Exists(m)'
    BY <1>1 DEF Exists
  <1>7. MembersExist'
    BY <1>2, <1>6 DEF IInv, MembersExist
  <1>8. req' \in [Requests -> Request] /\ \A s \in Requests : RequestOK(s)'
    BY <1>1, RequestEnds
  <1> QED
    BY <1>1, <1>2, <1>3, <1>4, <1>5, <1>7, <1>8 DEF IInv, TypeOK

LEMMA AbandonKeeps ==
  ASSUME IInv, NEW r \in Requests, Abandon(r)
  PROVE  IInv'
  <1>1. Done(r) /\ UNCHANGED <<rules, born, account, granted>>
    BY DEF Abandon
  <1>2. req' \in [Requests -> Request] /\ \A s \in Requests : RequestOK(s)'
    BY <1>1, RequestEnds
  <1>3. OnlyGrantedNamesAreOwned' /\ MembersExist'
    BY <1>1 DEF IInv, OnlyGrantedNamesAreOwned, MembersExist, Present, Exists,
                NamesOf
  <1> QED
    BY <1>1, <1>2, <1>3 DEF IInv, TypeOK

(* The six ways a request begins. *)
LEMMA StartKeeps ==
  ASSUME IInv, NEW r \in Requests, NEW u \in Users, NEW p \in Patterns,
         \/ \E members \in MemberLists : \/ StartSet(r, u, p, members)
                                        \/ StartPut(r, u, p, members)
         \/ StartDelete(r, u, p) \/ StartClaim(r, u, p) \/ StartConnect(r, u, p)
         \/ \E a \in Accounts : StartDisconnect(r, u, a)
  PROVE  IInv'
  <1>1. 0 \in Ids /\ rules[p].id \in Ids
    BY OwnershipAssumption DEF IInv, TypeOK, Ids
  <1>2. {} \in SUBSET Members /\ {u} \in SUBSET Members
    BY DEF Members
  <1>3. MemberLists \subseteq SUBSET Members
    BY OwnershipAssumption DEF Members
  <1>4. CanManage(u, p) => (u \in Admins \/ NamesOf(p) \subseteq granted)
    BY ManagersAreGranted
  <1>5. ASSUME NEW members \in MemberLists, StartSet(r, u, p, members)
        PROVE  IInv'
    <2>1. Start(r, "set", u, p, 0, members) /\ CanManage(u, p)
      BY <1>5 DEF StartSet
    <2> QED
      BY <1>1, <1>3, <1>4, <2>1, RequestStarts
  <1>6. ASSUME NEW members \in MemberLists, StartPut(r, u, p, members)
        PROVE  IInv'
    <2>1. Start(r, "put", u, p, rules[p].id, members) /\ CanManage(u, p)
      BY <1>6 DEF StartPut
    <2> QED
      BY <1>1, <1>3, <1>4, <2>1, RequestStarts
  <1>7. CASE StartDelete(r, u, p)
    <2>1. Start(r, "delete", u, p, rules[p].id, {}) /\ rules[p].id # 0
      BY <1>7 DEF StartDelete
    <2> QED
      BY <1>1, <1>2, <2>1, RequestStarts
  <1>8. CASE StartClaim(r, u, p)
    <2>1. Start(r, "claim", u, p, 0, {u})
      BY <1>8 DEF StartClaim
    <2> QED
      BY <1>1, <1>2, <2>1, RequestStarts
  <1>9. CASE StartConnect(r, u, p)
    <2>1. Start(r, "connect", u, p, 0, {}) /\ CanManage(u, p)
      BY <1>9 DEF StartConnect
    <2> QED
      BY <1>1, <1>2, <1>4, <2>1, RequestStarts
  <1>10. ASSUME NEW a \in Accounts, StartDisconnect(r, u, a)
         PROVE  IInv'
    <2>1. Start(r, "disconnect", u, account[a].prefix, 0, {a})
      BY <1>10 DEF StartDisconnect
    <2>2. account[a].prefix \in Patterns
      BY <1>10 DEF StartDisconnect, IInv, TypeOK, Account
    <2>3. {a} \in SUBSET Members
      BY DEF Members
    <2> QED
      BY <1>1, <2>1, <2>2, <2>3, RequestStarts
  <1> QED
    BY <1>5, <1>6, <1>7, <1>8, <1>9, <1>10

-----------------------------------------------------------------------------
LEMMA NextKeeps == IInv /\ [Next]_vars => IInv'
  <1> SUFFICES ASSUME IInv, [Next]_vars PROVE IInv'
    OBVIOUS
  <1>1. CASE UNCHANGED vars
    BY <1>1 DEF vars, IInv, TypeOK, OnlyGrantedNamesAreOwned, MembersExist,
                Present, Exists, RequestOK, NamesOf
  <1>2. CASE Next
    <2>1. PICK r \in Requests : Managing(r) \/ Connecting(r)
      BY <1>2 DEF Next
    <2>2. CASE Managing(r)
      <3>1. CASE Upsert(r)
        BY <3>1, UpsertKeeps
      <3>2. CASE Delete(r)
        BY <3>2, DeleteKeeps
      <3>3. CASE Claim(r)
        BY <3>3, ClaimKeeps
      <3>4. CASE Abandon(r)
        BY <3>4, AbandonKeeps
      <3>5. ASSUME NEW u \in Users, NEW p \in Patterns,
                   \/ \E members \in MemberLists :
                        StartSet(r, u, p, members) \/ StartPut(r, u, p, members)
                   \/ StartDelete(r, u, p) \/ StartClaim(r, u, p)
                   \/ StartConnect(r, u, p)
            PROVE  IInv'
        BY <3>5, StartKeeps
      <3> QED
        BY <2>2, <3>1, <3>2, <3>3, <3>4, <3>5 DEF Managing
    <2>3. CASE Connecting(r)
      <3>1. CASE ReadOwners(r)
        BY <3>1, ReadOwnersKeeps
      <3>2. ASSUME NEW a \in Accounts, Connect(r, a)
            PROVE  IInv'
        BY <3>2, ConnectKeeps
      <3>3. CASE Disconnect(r)
        BY <3>3, DisconnectKeeps
      <3>4. ASSUME NEW u \in Users, NEW a \in Accounts, StartDisconnect(r, u, a)
            PROVE  IInv'
        <4>1. account[a].prefix \in Patterns
          BY <3>4 DEF StartDisconnect, IInv, TypeOK, Account
        <4> QED
          BY <3>4, <4>1, StartKeeps
      <3> QED
        BY <2>3, <3>1, <3>2, <3>3, <3>4 DEF Connecting
    <2> QED
      BY <2>1, <2>2, <2>3
  <1> QED
    BY <1>1, <1>2

(* The inductive invariant holds in every reachable state. *)
THEOREM OwnershipInvariant == Spec => []IInv
  <1> QED
    BY InitInvariant, NextKeeps, PTL DEF Spec

(* People without privilege never cover a name nobody with it gave away,    *)
(* and every member of a rule is someone there is (manage.go CanManage,     *)
(* gitsync/syncer.go Delete).                                               *)
THEOREM NothingUngranted == Spec => []RulesStayGranted
  <1>1. IInv => RulesStayGranted
    BY DEF IInv, RulesStayGranted
  <1> QED
    BY <1>1, OwnershipInvariant, PTL

(* A member of any rule over a name can manage the one that governs it      *)
(* (manage.go CanManage, rule.go Resolve).                                  *)
THEOREM DelegationIsReversible == Spec => []MembersManageWhatGoverns
  <1>1. MembersManageWhatGoverns
    <2> SUFFICES ASSUME NEW n \in Names, NEW p \in Present, NEW q \in Present,
                        Governs(p, n), Matches(q, n), NEW u \in rules[q].members
                 PROVE  CanManage(u, p)
      BY DEF MembersManageWhatGoverns
    <2>1. p \in Patterns /\ q \in Patterns
      BY DEF Present
    <2>2. q = p \/ StrictlyContains(q, p)
      BY <2>1, CoveringContainsGoverning
    <2> QED
      BY <2>2 DEF CanManage
  <1> QED
    BY <1>1, PTL

(* A rule disappears only with the request authorised for that very rule    *)
(* (ownership/store.go Delete).                                             *)
THEOREM DeletionIsForThatRule == Spec => DeletesWhatItSaw
  <1> DEFINE Good ==
        \A p \in Patterns : (rules[p].id # 0 /\ rules'[p].id = 0) =>
          \E r \in Requests : /\ req[r].op = "delete"
                              /\ req[r].pattern = p
                              /\ req[r].id = rules[p].id
                              /\ req'[r] = NoRequest
  <1>1. IInv /\ IInv' /\ [Next]_vars => [Good]_vars
    <2> SUFFICES ASSUME IInv, IInv', Next, NEW p \in Patterns,
                        rules[p].id # 0, rules'[p].id = 0
                 PROVE  \E r \in Requests :
                          /\ req[r].op = "delete" /\ req[r].pattern = p
                          /\ req[r].id = rules[p].id /\ req'[r] = NoRequest
      OBVIOUS
    <2>1. PICK r \in Requests : Managing(r) \/ Connecting(r)
      BY DEF Next
    <2>2. ASSUME NEW q \in Patterns, NEW members, Put(q, members)
          PROVE  FALSE
      <3>1. /\ rules' = [rules EXCEPT ![q] = [id |-> born'[q], members |-> members]]
            /\ rules[q].id # 0 => UNCHANGED born
        BY <2>2 DEF Put
      <3>2. CASE q = p
        <4>1. rules'[p].id = born'[p] /\ born' = born
          BY <3>1, <3>2 DEF IInv, TypeOK
        <4> QED
          BY <4>1 DEF IInv
      <3>3. CASE q # p
        BY <3>1, <3>3 DEF IInv, TypeOK
      <3> QED
        BY <3>2, <3>3
    <2>3. req[r] \in Request /\ RequestOK(r)
      BY DEF IInv, TypeOK
    <2>4. CASE Delete(r)
      <3>1. /\ rules' # rules /\ SameRule(r) /\ req[r].op = "delete"
            /\ rules' = [rules EXCEPT ![req[r].pattern] = NoRule]
        BY <2>4 DEF Delete, At
      <3>2. req[r].pattern = p
        BY <3>1 DEF IInv, TypeOK
      <3>3. req'[r] = NoRequest
        BY <2>4 DEF Delete, Done, IInv, TypeOK
      <3> QED
        BY <3>1, <3>2, <3>3 DEF SameRule
    <2>5. CASE Upsert(r) \/ Claim(r)
      <3>1. req[r].pattern \in Patterns
        BY <2>3, <2>5 DEF Upsert, Claim, At, RequestOK
      <3> QED
        BY <2>2, <2>5, <3>1 DEF Upsert, Claim
    <2>6. ASSUME NEW a \in Accounts, Connect(r, a)
          PROVE  FALSE
      <3>1. req[r].pattern \in Patterns
        BY <2>3, <2>6 DEF Connect, At, RequestOK
      <3> QED
        BY <2>2, <2>6, <3>1 DEF Connect
    <2>7. CASE Disconnect(r)
      <3>1. rules' = [q \in Patterns |->
                        [rules[q] EXCEPT !.members = @ \ req[r].members]]
        BY <2>7 DEF Disconnect, MembersWithout
      <3>2. rules'[p].id = rules[p].id
        BY <3>1 DEF IInv, TypeOK
      <3> QED
        BY <3>2
    <2>8. ~UNCHANGED rules
      OBVIOUS
    <2> QED
      BY <2>1, <2>4, <2>5, <2>6, <2>7, <2>8
      DEF Managing, Connecting, Start, StartSet, StartPut, StartDelete,
          StartClaim, StartConnect, StartDisconnect, ReadOwners, Abandon
  <1> QED
    BY <1>1, OwnershipInvariant, PTL DEF Spec, DeletesWhatItSaw

-----------------------------------------------------------------------------
(* The loop of Resolve.  A set of numbers with 0 and every successor is all *)
(* of them.                                                                 *)
LEMMA Numbers ==
  ASSUME NEW G \in SUBSET Nat, 0 \in G, \A i \in G : i + 1 \in G
  PROVE  G = Nat
  <1> DEFINE Under == {p \in Nat \X Nat : p[1] < p[2]}
  <1>1. SUFFICES ASSUME Nat \ G # {}
                 PROVE  FALSE
    OBVIOUS
  <1>2. IsWellFoundedOn(Under, Nat)
    <2>1. Under = OpToRel(<, Nat)
      BY DEF OpToRel
    <2> QED
      BY <2>1, NatLessThanWellFounded, Zenon DEF OpToRel
  <1>3. PICK u \in Nat \ G : \A v \in Nat \ G : ~ (<<v, u>> \in Under)
    <2> HIDE DEF Under
    <2> QED
      BY <1>1, <1>2, WFMin
  <1>4. \A v \in Nat \ G : ~ (v < u)
    BY <1>3
  <1>5. u # 0 /\ u - 1 \in Nat
    BY <1>3
  <1>6. u - 1 \in G
    BY <1>4, <1>5
  <1> QED
    BY <1>3, <1>5, <1>6

(* What the loop has after i of the rules listed.                           *)
Step(n, l, i, f) ==
  IF i = 0 THEN NoPattern
  ELSE IF Matches(l[i], n) /\ Better(l[i], f[i - 1]) THEN l[i] ELSE f[i - 1]

IsLoop(n, l, k, f) == f = [i \in 0..k |-> Step(n, l, i, f)]

LEMMA LoopIs ==
  ASSUME NEW n, NEW l, Len(l) \in Nat
  PROVE  \E f : IsLoop(n, l, Len(l), f) /\ Scan(n, l) = f[Len(l)]
  <1> DEFINE G == {k \in Nat : \E f : IsLoop(n, l, k, f)}
  <1>1. 0 \in G
    <2>1. IsLoop(n, l, 0, [i \in 0..0 |-> NoPattern])
      BY DEF IsLoop, Step
    <2> QED
      BY <2>1
  <1>2. ASSUME NEW k \in G
        PROVE  k + 1 \in G
    <2>1. PICK f : IsLoop(n, l, k, f)
      OBVIOUS
    <2> DEFINE h == [i \in 0..k + 1 |-> IF i <= k THEN f[i] ELSE Step(n, l, k + 1, f)]
    <2>2. ASSUME NEW i \in 0..k + 1
          PROVE  h[i] = Step(n, l, i, h)
      <3>1. CASE i <= k
        <4>1. h[i] = f[i] /\ f[i] = Step(n, l, i, f)
          BY <2>1, <3>1 DEF IsLoop
        <4>2. i # 0 => h[i - 1] = f[i - 1]
          BY <3>1
        <4> QED
          BY <4>1, <4>2 DEF Step
      <3>2. CASE i = k + 1
        <4>1. h[i] = Step(n, l, i, f) /\ h[i - 1] = f[i - 1] /\ i # 0
          BY <3>2
        <4> QED
          BY <4>1 DEF Step
      <3> QED
        BY <3>1, <3>2
    <2>3. h = [i \in 0..k + 1 |-> h[i]]
      OBVIOUS
    <2> HIDE DEF h
    <2>4. IsLoop(n, l, k + 1, h)
      BY <2>2, <2>3 DEF IsLoop
    <2> QED
      BY <2>4
  <1> HIDE DEF G
  <1>3. G = Nat
    BY <1>1, <1>2, Numbers DEF G
  <1>4. \E f : IsLoop(n, l, Len(l), f)
    BY <1>3 DEF G
  <1> DEFINE best == CHOOSE f : IsLoop(n, l, Len(l), f)
  <1>5. Scan(n, l) = best[Len(l)]
    BY DEF Scan, IsLoop, Step
  <1>6. IsLoop(n, l, Len(l), best)
    BY <1>4
  <1> QED
    BY <1>5, <1>6

(* The loop keeps the best of what it has passed.                           *)
Kept(n, l, i, best) ==
  \/ best = NoPattern /\ \A j \in 1..i : ~ Matches(l[j], n)
  \/ /\ best \in Present /\ Matches(best, n)
     /\ best.prefix => \A j \in 1..i : Matches(l[j], n) =>
                         l[j].prefix /\ Len(l[j].scope) <= Len(best.scope)

LEMMA LoopKeeps ==
  ASSUME NEW n, NEW k \in Nat, NEW l \in [1..k -> Present], NEW f, IsLoop(n, l, k, f)
  PROVE  Kept(n, l, k, f[k])
  <1> DEFINE G == {i \in Nat : i <= k => Kept(n, l, i, f[i])}
  <1>1. 0 \in G
    <2>1. f[0] = NoPattern
      BY DEF IsLoop, Step
    <2> QED
      BY <2>1 DEF Kept
  <1>2. ASSUME NEW i \in G
        PROVE  i + 1 \in G
    <2> SUFFICES ASSUME i + 1 <= k
                 PROVE  Kept(n, l, i + 1, f[i + 1])
      OBVIOUS
    <2>1. /\ Kept(n, l, i, f[i]) /\ i + 1 \in 0..k /\ i + 1 # 0 /\ (i + 1) - 1 = i
          /\ l[i + 1] \in Present
      OBVIOUS
    <2> DEFINE p == l[i + 1]
               b == f[i]
    <2>2. f[i + 1] = IF Matches(p, n) /\ Better(p, b) THEN p ELSE b
      BY <2>1 DEF IsLoop, Step
    <2>3. \A j \in 1..i + 1 : j \in 1..i \/ j = i + 1
      OBVIOUS
    <2>4. p \in Patterns /\ Len(p.scope) \in Nat
      BY <2>1, PatternIsRecord DEF Present
    <2>5. b \in Present => b \in Patterns /\ Len(b.scope) \in Nat /\ b # NoPattern
      BY PatternIsRecord, OwnershipAssumption DEF Present, NoPattern
    <2>6. \A j \in 1..i : l[j] \in Patterns /\ Len(l[j].scope) \in Nat
      <3>1. \A j \in 1..i : l[j] \in Present
        OBVIOUS
      <3> QED
        BY <3>1, PatternIsRecord DEF Present
    <2> HIDE DEF p, b
    <2>7. CASE ~ Matches(p, n)
      <3>1. f[i + 1] = b /\ \A j \in 1..i + 1 : Matches(l[j], n) => j \in 1..i
        BY <2>2, <2>3, <2>7 DEF p
      <3>2. Kept(n, l, i, b)
        BY <2>1 DEF b
      <3> QED
        BY <3>1, <3>2 DEF Kept
    <2>8. CASE Matches(p, n) /\ Better(p, b)
      <3>1. f[i + 1] = p
        BY <2>2, <2>8
      <3>2. ASSUME p.prefix, NEW j \in 1..i, Matches(l[j], n)
            PROVE  l[j].prefix /\ Len(l[j].scope) <= Len(p.scope)
        <4>1. Kept(n, l, i, b)
          BY <2>1 DEF b
        <4>2. b \in Present /\ b # NoPattern
          BY <2>5, <3>2, <4>1 DEF Kept
        <4>3. b.prefix /\ Len(p.scope) > Len(b.scope)
          BY <2>8, <3>2, <4>2 DEF Better
        <4>4. l[j].prefix /\ Len(l[j].scope) <= Len(b.scope)
          BY <3>2, <4>1, <4>2, <4>3 DEF Kept
        <4> QED
          BY <2>4, <2>5, <2>6, <4>2, <4>3, <4>4
      <3>3. ASSUME p.prefix, NEW j \in 1..i + 1, Matches(l[j], n)
            PROVE  l[j].prefix /\ Len(l[j].scope) <= Len(p.scope)
        BY <2>3, <2>4, <3>2, <3>3 DEF p
      <3>4. p \in Present
        BY <2>1 DEF p
      <3> QED
        BY <2>8, <3>1, <3>3, <3>4 DEF Kept
    <2>9. CASE Matches(p, n) /\ ~ Better(p, b)
      <3>1. f[i + 1] = b
        BY <2>2, <2>9
      <3>2. Kept(n, l, i, b) /\ b # NoPattern
        BY <2>1, <2>9 DEF b, Better
      <3>3. b \in Present /\ Matches(b, n)
        BY <3>2 DEF Kept
      <3>4. b.prefix => p.prefix /\ Len(p.scope) <= Len(b.scope)
        BY <2>4, <2>5, <2>9, <3>3 DEF Better
      <3>5. ASSUME b.prefix, NEW j \in 1..i + 1, Matches(l[j], n)
            PROVE  l[j].prefix /\ Len(l[j].scope) <= Len(b.scope)
        BY <2>3, <3>2, <3>4, <3>5 DEF Kept, p
      <3> QED
        BY <3>1, <3>3, <3>5 DEF Kept
    <2> QED
      BY <2>7, <2>8, <2>9
  <1> HIDE DEF G
  <1>3. G = Nat
    BY <1>1, <1>2, Numbers DEF G
  <1> QED
    BY <1>3 DEF G

(* One rule at most governs a name.                                         *)
LEMMA OneGoverns ==
  ASSUME NEW n \in Names, NEW p, NEW q, Governs(p, n), Governs(q, n)
  PROVE  p = q
  <1>1. /\ p \in Patterns /\ q \in Patterns /\ Matches(p, n) /\ Matches(q, n)
        /\ p \in Present /\ q \in Present
    BY DEF Governs, Present
  <1>2. p.prefix = q.prefix
    BY <1>1, PatternIsRecord DEF Governs
  <1>3. p.scope = q.scope
    <2>1. CASE ~ p.prefix
      BY <1>1, <1>2, <2>1 DEF Matches
    <2>2. CASE p.prefix
      <3>1. Len(p.scope) <= Len(q.scope) /\ Len(q.scope) <= Len(p.scope)
        BY <1>1, <1>2, <2>2 DEF Governs
      <3>2. /\ p.scope \in Seq(Atoms) /\ q.scope \in Seq(Atoms) /\ n \in Seq(Atoms)
            /\ HasPrefix(n, p.scope) /\ HasPrefix(n, q.scope)
        BY <1>1, <1>2, <2>2, PatternIsRecord, OwnershipAssumption DEF Matches
      <3>3. Len(p.scope) = Len(q.scope)
        BY <3>1, <3>2
      <3> QED
        BY <3>1, <3>2, <3>3, PrefixesOfOneName
    <2> QED
      BY <2>1, <2>2
  <1> QED
    BY <1>1, <1>2, <1>3, PatternIsRecord

LEMMA ResolverFinds ==
  ASSUME IsFiniteSet(Present)
  PROVE  ResolveFindsTheGoverningRule
  <1> SUFFICES ASSUME NEW n \in Names, NEW l \in Listings
               PROVE  IF Scan(n, l) = NoPattern THEN Unowned(n)
                      ELSE {p \in Present : Governs(p, n)} = {Scan(n, l)}
    BY DEF ResolveFindsTheGoverningRule
  <1> DEFINE k == Cardinality(Present)
  <1>1. k \in Nat /\ IsFiniteSet(1..k) /\ Cardinality(1..k) = k
    BY FS_CardinalityType, FS_Interval
  <1>2. l \in [1..k -> Present] /\ \A i, j \in 1..k : l[i] = l[j] => i = j
    BY DEF Listings
  <1>3. \A p \in Present : \E i \in 1..k : l[i] = p
    <2>1. l \in Injection(1..k, Present)
      BY <1>2 DEF Injection, IsInjective
    <2>2. l \in Surjection(1..k, Present)
      BY <1>1, <2>1, FS_Injection
    <2> QED
      BY <2>2 DEF Surjection
  <1> HIDE DEF k
  <1>4. Len(l) = k
    BY <1>1, <1>2
  <1>5. PICK f : IsLoop(n, l, k, f) /\ Scan(n, l) = f[k]
    BY <1>1, <1>4, LoopIs
  <1>6. Kept(n, l, k, Scan(n, l))
    BY <1>1, <1>2, <1>5, LoopKeeps
  <1> DEFINE b == Scan(n, l)
  <1>7. CASE b = NoPattern
    <2>1. NoPattern \notin Present
      BY OwnershipAssumption DEF NoPattern, Present
    <2>2. \A j \in 1..k : ~ Matches(l[j], n)
      BY <1>6, <1>7, <2>1 DEF Kept
    <2> QED
      BY <1>3, <1>7, <2>2 DEF Unowned
  <1>8. CASE b # NoPattern
    <2> HIDE DEF b
    <2>1. /\ b \in Present /\ Matches(b, n)
          /\ b.prefix => \A j \in 1..k : Matches(l[j], n) => l[j].prefix /\ Len(l[j].scope) <= Len(b.scope)
      BY <1>6, <1>8 DEF Kept, b
    <2>2. Governs(b, n)
      BY <1>3, <2>1 DEF Governs
    <2>3. {p \in Present : Governs(p, n)} = {b}
      BY <2>1, <2>2, OneGoverns
    <2> QED
      BY <1>8, <2>3 DEF b
  <1> QED
    BY <1>7, <1>8

(* There are as many rules as were ever written, or fewer.                  *)
LEMMA FewRules ==
  ASSUME IInv, IsFiniteSet(Present), [Next]_vars
  PROVE  IsFiniteSet(Present')
  <1>1. ASSUME NEW p, \A q \in Patterns : rules'[q].id # 0 => q = p \/ rules[q].id # 0
        PROVE  IsFiniteSet(Present')
    <2>1. Present' \subseteq Present \cup {p}
      BY <1>1 DEF Present
    <2>2. IsFiniteSet(Present \cup {p})
      BY FS_AddElement
    <2> QED
      BY <2>1, <2>2, FS_Subset
  <1>2. ASSUME NEW p, NEW members, Put(p, members)
        PROVE  IsFiniteSet(Present')
    <2>1. \A q \in Patterns : q # p => rules'[q] = rules[q]
      BY <1>2 DEF Put, IInv, TypeOK
    <2> QED
      BY <1>1, <2>1
  <1>3. CASE rules' = rules
    BY <1>3 DEF Present
  <1>4. ASSUME NEW r \in Requests, Managing(r) \/ Connecting(r), rules' # rules
        PROVE  IsFiniteSet(Present')
    <2>1. CASE Delete(r)
      <3>1. \A q \in Patterns : rules'[q] \in {rules[q], NoRule}
        BY <2>1 DEF Delete, IInv, TypeOK
      <3>2. \A q \in Patterns : rules'[q].id # 0 => rules[q].id # 0
        BY <3>1 DEF NoRule
      <3> QED
        BY <1>1, <3>2
    <2>2. CASE Disconnect(r)
      <3>1. \A q \in Patterns : rules'[q] = [rules[q] EXCEPT !.members = @ \ req[r].members]
        BY <2>2 DEF Disconnect, MembersWithout
      <3>2. \A q \in Patterns : rules'[q].id = rules[q].id
        BY <3>1 DEF IInv, TypeOK
      <3> QED
        BY <1>1, <3>2
    <2> QED
      BY <1>2, <1>4, <2>1, <2>2
      DEF Managing, Connecting, Start, StartSet, StartPut, StartDelete, StartClaim, StartConnect,
          StartDisconnect, ReadOwners, Abandon, Upsert, Claim, Connect
  <1>5. CASE Next
    BY <1>3, <1>4, <1>5 DEF Next
  <1> QED
    BY <1>3, <1>5 DEF vars

(* Whatever the order in which the rules are listed, the loop of Resolve    *)
(* ends with the one rule that governs the name, or with none when nobody   *)
(* owns it (rule.go Resolve).                                               *)
THEOREM ResolverIsRight == Spec => []ResolveFindsTheGoverningRule
  <1>1. Init => IsFiniteSet(Present)
    <2>1. Init => Present = {}
      BY DEF Init, Present, NoRule
    <2> QED
      BY <2>1, FS_EmptySet
  <1>2. IInv /\ IsFiniteSet(Present) /\ [Next]_vars => IsFiniteSet(Present')
    BY FewRules
  <1>3. IsFiniteSet(Present)' <=> IsFiniteSet(Present')
    OBVIOUS
  <1>4. Spec => []IsFiniteSet(Present)
    BY <1>1, <1>2, <1>3, OwnershipInvariant, PTL DEF Spec
  <1> QED
    BY <1>4, ResolverFinds, PTL
=============================================================================
