--------------------------- MODULE RegistryProofs ---------------------------
(* Proofs about the registry's records: Accounts, for any number of people,  *)
(* service accounts, keys and requests; SuiteRegistry, for any number of     *)
(* contents, skills, jobs and requests; SkillImports, for any number of      *)
(* folders, commits, rows and requests; and RunLedger, for any batches and   *)
(* outcomes.                                                                 *)
EXTENDS MCRegistry, MCCatalog, Sequences, FiniteSetTheorems, WellFoundedInduction, TLAPS

-----------------------------------------------------------------------------
(* The inductive invariant.  A request acts on what it read when it began,   *)
(* so it says what stays true of that while others act.                      *)

IsOwner(u) == account[u].live /\ account[u].role = "owner"

OwnersAreEnabled == \A u \in People: IsOwner(u) => ~account[u].disabled

KeysAsGranted == \A k \in Keys: key[k].live => granted[k] = key[k].limits

(* Who asks has signed up, and has read the role "owner" if it has it now.   *)
CallerOK(q) ==
  /\ q.as \in People => /\ account[q.as] # Absent
                        /\ IsOwner(q.as) => q.role = "owner"
  /\ q.asks.do = "leave" => q.as \in People

(* A service account came with a key whose limits let it in.                 *)
Within(q) ==
  q.as \in Bots => /\ q.via \in Keys /\ granted[q.via] \in Limits
                   /\ Restricted(granted[q.via])
                   /\ Reaches(granted[q.via], RouteOf(q.asks))

(* Whom a request on a person is about to write has signed up, and is no     *)
(* owner unless only a password is written.                                  *)
OnPeople == {"role", "disable", "enable", "password"}
TargetOK(a) ==
  a.do \in OnPeople =>
    /\ a.on \in People /\ account[a.on] # Absent
    /\ a.do = "role" => a.to \in Assignable
    /\ a.do # "password" => ~IsOwner(a.on)

RequestOK(q) ==
  /\ q.at = "counted" => q.role = "owner" \/ Owners # {}
  /\ q.at = "resolved" => q.via \in Keys
  /\ q.at \in {"resolved", "served", "looked"} => CallerOK(q)
  /\ q.at \in {"served", "looked"} => Within(q)
  /\ q.at = "looked" => TargetOK(q.asks)

IInv ==
  /\ TypeOK
  /\ SomeoneOwns /\ BotsAreNotPeople /\ AccountsAreRecorded
  /\ OwnersAreEnabled /\ KeysAsGranted
  /\ \A r \in Requests: RequestOK(request[r])

-----------------------------------------------------------------------------
(* Rows, requests and limits, read off their types.                          *)

LEMMA RowType ==
  /\ Absent \in Rows /\ Gone \in Rows /\ ~Absent.live /\ ~Gone.live /\ Gone # Absent
  /\ \A row \in Rows: /\ row.live \in BOOLEAN
                      /\ ~row.live => row \in {Absent, Gone}
                      /\ row.live => /\ row.role \in Roles
                                     /\ row.disabled \in BOOLEAN
                                     /\ row.temporary \in BOOLEAN
<1>1. ~Absent.live /\ ~Gone.live /\ Absent.live \in BOOLEAN /\ Gone.live \in BOOLEAN
  BY DEF Absent, Gone
<1>2. Absent.gone = FALSE /\ Gone.gone = TRUE
  BY DEF Absent, Gone
<1>3. Absent \in Rows /\ Gone \in Rows
  BY DEF Rows
<1>4. ASSUME NEW row \in [live: {TRUE}, role: Roles, disabled: BOOLEAN, temporary: BOOLEAN]
      PROVE  /\ row.live = TRUE /\ row.role \in Roles
             /\ row.disabled \in BOOLEAN /\ row.temporary \in BOOLEAN
  BY <1>4
<1> QED
  BY <1>1, <1>2, <1>3, <1>4 DEF Rows

LEMMA NewRow ==
  \A role \in Roles: /\ Row(role) \in Rows /\ Row(role).live /\ Row(role).role = role
                     /\ ~Row(role).disabled
BY DEF Rows, Row

(* The row of an account that is there, field by field.                      *)
FullRows == [live: {TRUE}, role: Roles, disabled: BOOLEAN, temporary: BOOLEAN]

LEMMA LiveRow ==
  FullRows \subseteq Rows /\ \A row \in Rows: row.live => row \in FullRows
BY RowType DEF Rows, FullRows

LEMMA KeyType ==
  /\ NoKey \in KeyRows /\ ~NoKey.live
  /\ \A row \in KeyRows: row.live => row.of \in Users /\ row.limits \in Limits
  /\ \A u \in Users, l \in Limits: /\ KeyRow(u, l) \in KeyRows
                                   /\ KeyRow(u, l).of = u /\ KeyRow(u, l).limits = l
<1>1. ~NoKey.live
  BY DEF NoKey
<1>2. ASSUME NEW row \in [live: {TRUE}, of: Users, limits: Limits]
      PROVE  row.of \in Users /\ row.limits \in Limits
  BY <1>2
<1> QED
  BY <1>1, <1>2 DEF KeyRows, KeyRow

LEMMA LimitsType == \A l \in Limits: l # NoKey
BY DEF Limits, NoLimits, NoKey

LEMMA AsksType ==
  \A a \in Asks: /\ a.do \in {"newBot", "dropBot"} => a.on \in Bots
                 /\ a.do \in {"botKey", "newKey"} => a.key \in Keys /\ a.limits \in Limits
                 /\ a.do = "botKey" => a.on \in Users
                 /\ a.do \in {"dropKey", "dropBotKey"} => a.key \in Keys
                 /\ a.do \in OnPeople => a.on \in Users
                 /\ a.do = "role" => a.to \in Roles
BY AsksAssumption DEF Asked, Reads, OnPerson, OnBot, OnKeys, OnPeople

LEMMA RequestType ==
  \A q \in RequestStates:
    /\ q.at \in {"idle", "counted", "resolved", "served", "looked"}
    /\ q.at = "counted" => q.as \in People /\ q.role \in Roles
    /\ q.at \in {"resolved", "served", "looked"} =>
         q.as \in Users /\ q.role \in Roles /\ q.via \in Keys \cup {Session} /\ q.asks \in Asks
BY DEF RequestStates, Idle

-----------------------------------------------------------------------------
(* What no step does: an account that came is never again absent, nobody     *)
(* rises to owner or stops being one, and what a key was granted stays.      *)
Steady ==
  /\ \A u \in People: account[u] # Absent =>
       /\ account'[u] # Absent
       /\ (IsOwner(u)' => IsOwner(u))
  /\ Owners \subseteq Owners'
  /\ \A k \in Keys: granted[k] # NoKey => granted'[k] = granted[k]

(* So a request that waits while others act stays in order.                  *)
LEMMA Waits ==
  ASSUME Steady, NEW q \in RequestStates, RequestOK(q)
  PROVE  RequestOK(q)'
<1>1. q.at = "counted" => q.role = "owner" \/ Owners' # {}
  BY DEF RequestOK, Steady
<1>2. CallerOK(q) => CallerOK(q)'
  BY DEF CallerOK, Steady, IsOwner
<1>3. Within(q) => Within(q)'
  BY LimitsType DEF Within, Steady
<1>4. TargetOK(q.asks) => TargetOK(q.asks)'
  BY DEF TargetOK, Steady, IsOwner
<1> QED
  BY <1>1, <1>2, <1>3, <1>4 DEF RequestOK

(* A step that leaves the accounts alone: a key stays, goes, or is granted   *)
(* to an account that is there, and a request that moves stays in order.     *)
LEMMA QuietStep ==
  ASSUME IInv, UNCHANGED <<account, audit>>,
         session' \subseteq {u \in People: account[u].live}, sets' \subseteq SetIds,
         request' \in [Requests -> RequestStates],
         key' \in [Keys -> KeyRows], granted' \in [Keys -> {NoKey} \cup Limits],
         \A k \in Keys: /\ granted'[k] = granted[k] \/ granted[k] = NoKey
                        /\ key'[k].live => \/ key'[k] = key[k] /\ granted'[k] = granted[k]
                                           \/ /\ account[key'[k].of].live
                                              /\ granted'[k] = key'[k].limits,
         \A r \in Requests: \/ request'[r] = request[r]
                            \/ \E q \in RequestStates: request'[r] = q /\ RequestOK(q)'
  PROVE  IInv' /\ Steady /\ OwnersStayStep
<1>1. Humans' = Humans /\ Owners' = Owners /\ \A u \in People: IsOwner(u)' = IsOwner(u)
  BY DEF Humans, Owners, IsOwner
<1>2. Steady
  BY <1>1 DEF Steady
<1>3. OwnersStayStep
  BY <1>1 DEF OwnersStayStep
<1>4. TypeOK'
  BY DEF IInv, TypeOK
<1>5. SomeoneOwns' /\ BotsAreNotPeople' /\ AccountsAreRecorded' /\ OwnersAreEnabled'
  BY <1>1 DEF IInv, SomeoneOwns, BotsAreNotPeople, AccountsAreRecorded, OwnersAreEnabled
<1>6. KeysAsGranted'
  BY DEF IInv, KeysAsGranted
<1>7. ASSUME NEW r \in Requests PROVE RequestOK(request[r])'
  <2>1. CASE request'[r] = request[r]
    <3>1. request[r] \in RequestStates /\ RequestOK(request[r])
      BY DEF IInv, TypeOK
    <3>2. PICK q \in RequestStates: q = request[r] /\ RequestOK(q)
      BY <3>1
    <3>3. RequestOK(q)'
      BY <1>2, <3>2, Waits
    <3>4. request'[r] = q
      BY <2>1, <3>2
    <3> QED
      BY <3>3, <3>4
  <2>2. CASE \E q \in RequestStates: request'[r] = q /\ RequestOK(q)'
    <3>1. PICK q \in RequestStates: request'[r] = q /\ RequestOK(q)'
      BY <2>2
    <3> QED
      BY <3>1
  <2> QED
    BY <2>1, <2>2
<1> QED
  BY <1>2, <1>3, <1>4, <1>5, <1>6, <1>7 DEF IInv

(* A step that writes one account: a person comes, changes but never to or   *)
(* from owner, or goes; a service account is created or deleted, with its    *)
(* record.                                                                   *)
RowWritten(u, row) ==
  /\ row # Absent
  /\ account' = [account EXCEPT ![u] = row]
  /\ UNCHANGED <<sets, granted>>
  /\ row.live => account[u].live \/ account[u] = Absent
  /\ key' \in [Keys -> KeyRows]
  /\ \A k \in Keys: key'[k].live => key'[k] = key[k] /\ (row.live \/ key[k].of # u)
  /\ session' \subseteq People
  /\ \A v \in session': v \in session \/ v = u
  /\ ~row.live => u \notin session'
  /\ request' \in [Requests -> RequestStates]
  /\ \A r \in Requests: request'[r] = request[r] \/ request'[r] = Idle
  /\ u \in People =>
       /\ audit' = audit
       /\ IsOwner(u) => row.live /\ row.role = "owner"
       /\ row.live /\ row.role = "owner" =>
            ~row.disabled /\ (IsOwner(u) \/ account[u] = Absent)
       /\ account[u] = Absent /\ row.live => row.role = "owner" \/ Owners # {}
  /\ u \in Bots =>
       \/ row = Gone /\ audit' = Recorded("delete", u)
       \/ row = Row("member") /\ audit' = Recorded("create", u)

LEMMA RowStep ==
  ASSUME IInv, NEW u \in Users, NEW row \in Rows, RowWritten(u, row)
  PROVE  IInv' /\ Steady /\ OwnersStayStep
<1> USE DEF RowWritten
<1> USE DEF Users
<1>1. /\ account \in [Users -> Rows] /\ account' \in [Users -> Rows]
      /\ account'[u] = row /\ \A v \in Users: v # u => account'[v] = account[v]
  BY DEF IInv, TypeOK
<1>2. \A v \in People: IsOwner(v) => account'[v].live /\ account'[v].role = "owner"
                                     /\ ~account'[v].disabled /\ v \in Owners /\ v \in Owners'
  BY <1>1 DEF IInv, OwnersAreEnabled, IsOwner, Owners, Humans
<1>3. \A v \in People: account'[v].live /\ account'[v].role = "owner" =>
        ~account'[v].disabled /\ (IsOwner(v) \/ account[v] = Absent)
  BY <1>1 DEF IInv, OwnersAreEnabled, IsOwner
<1>4. \A v \in Owners: IsOwner(v) /\ v \in People
  BY DEF Owners, Humans, IsOwner
<1>5. \A v \in Owners': v \in People /\ account'[v].live /\ account'[v].role = "owner"
  BY DEF Owners, Humans
<1>6. Steady
  <2>1. Owners \subseteq Owners'
    BY <1>2, <1>4
  <2>2. ASSUME NEW v \in People, account[v] # Absent
        PROVE  account'[v] # Absent /\ (IsOwner(v)' => IsOwner(v))
    BY <1>1, <1>3, <2>2 DEF IsOwner
  <2> QED
    BY <2>1, <2>2 DEF Steady
<1>7. OwnersStayStep
  <2>1. ~Absent.live
    BY RowType
  <2>2. ASSUME NEW v \in People, v \in Owners' PROVE v \in Owners \/ v \notin Humans
    BY <1>2, <1>3, <1>5, <2>1, <2>2 DEF Humans
  <2> QED
    BY <1>6, <2>2 DEF OwnersStayStep, Steady
<1>8. TypeOK'
  <2>1. session' \subseteq {v \in People: account'[v].live}
    BY <1>1, RowType DEF IInv, TypeOK
  <2>2. \A k \in Keys: key'[k].live => account'[key'[k].of].live
    <3>1. ASSUME NEW k \in Keys, key'[k].live PROVE account'[key'[k].of].live
      <4>1. key[k].live /\ key[k].of \in Users /\ account[key[k].of].live
        BY <3>1, KeyType DEF IInv, TypeOK
      <4> QED
        BY <1>1, <3>1, <4>1
    <3> QED
      BY <3>1
  <2>3. audit' \subseteq {"create", "delete"} \X Bots
    BY DEF IInv, TypeOK, Recorded
  <2> QED
    BY <1>1, <2>1, <2>2, <2>3 DEF IInv, TypeOK
<1>9. SomeoneOwns'
  <2>1. CASE Owners # {}
    BY <2>1, <1>6 DEF SomeoneOwns, Steady
  <2>2. CASE Owners = {}
    <3>1. \A v \in People: ~account[v].live
      BY <2>2 DEF IInv, SomeoneOwns, Humans
    <3>2. \A v \in Humans': v = u /\ u \in People /\ row.live
      BY <1>1, <3>1 DEF Humans
    <3>3. Humans' # {} => row.role = "owner" /\ ~row.disabled /\ u \in Humans'
      BY <2>2, <3>1, <3>2
    <3> QED
      BY <1>1, <3>3 DEF SomeoneOwns, Owners
  <2> QED
    BY <2>1, <2>2
<1>10. BotsAreNotPeople'
  BY <1>1 DEF IInv, BotsAreNotPeople
<1>11. AccountsAreRecorded'
  <2>1. CASE u \in People
    <3>1. \A b \in Bots: account'[b] = account[b]
      BY <1>1, <2>1, KindsAssumption
    <3> QED
      BY <2>1, <3>1 DEF IInv, AccountsAreRecorded
  <2>2. CASE u \in Bots
    <3>1. u \notin People /\ Row("member").live /\ ~Gone.live
      BY <2>2, KindsAssumption, NewRow, RowType DEF Roles
    <3>2. ASSUME NEW b \in Bots
          PROVE  /\ account'[b].live => <<"create", b>> \in audit'
                 /\ <<"create", b>> \in audit' /\ ~account'[b].live => <<"delete", b>> \in audit'
      <4>1. CASE b = u
        BY <1>1, <2>2, <3>1, <4>1 DEF Recorded
      <4>2. CASE b # u
        <5>1. account'[b] = account[b]
          BY <1>1, <4>2
        <5>2. /\ <<"create", b>> \in audit' <=> <<"create", b>> \in audit
              /\ <<"delete", b>> \in audit' <=> <<"delete", b>> \in audit
          BY <2>2, <4>2 DEF Recorded
        <5> QED
          BY <5>1, <5>2 DEF IInv, AccountsAreRecorded
      <4> QED
        BY <4>1, <4>2
    <3> QED
      BY <3>2 DEF AccountsAreRecorded
  <2> QED
    BY <2>1, <2>2
<1>12. OwnersAreEnabled'
  BY <1>3 DEF OwnersAreEnabled, IsOwner
<1>13. KeysAsGranted'
  BY DEF IInv, KeysAsGranted
<1>14. ASSUME NEW r \in Requests PROVE RequestOK(request[r])'
  <2>1. CASE request'[r] = request[r]
    <3>1. PICK q \in RequestStates: q = request[r] /\ RequestOK(q)
      BY DEF IInv, TypeOK
    <3>2. RequestOK(q)'
      BY <1>6, <3>1, Waits
    <3>3. request'[r] = q
      BY <2>1, <3>1
    <3> QED
      BY <3>2, <3>3
  <2>2. CASE request'[r] = Idle
    BY <2>2 DEF RequestOK, Idle
  <2> QED
    BY <2>1, <2>2
<1> QED
  BY <1>6, <1>7, <1>8, <1>9, <1>10, <1>11, <1>12, <1>13, <1>14 DEF IInv

(* What a request becomes as it moves on.                                    *)
LEMMA Moves ==
  ASSUME NEW q \in RequestStates, q.at \in {"resolved", "served", "looked"},
         NEW at \in {"resolved", "served", "looked"}, NEW n, n = [q EXCEPT !.at = at]
  PROVE  /\ n \in RequestStates /\ n.at = at
         /\ n.as = q.as /\ n.role = q.role /\ n.via = q.via /\ n.asks = q.asks
<1>1. q \in [at: {"resolved", "served", "looked"}, as: Users, role: Roles,
             via: Keys \cup {Session}, asks: Asks]
  BY DEF RequestStates, Idle
<1> QED
  BY <1>1 DEF RequestStates

(* Every step keeps the invariant and makes or unmakes no owner.             *)
LEMMA NextKeeps == ASSUME IInv, Next PROVE IInv' /\ OwnersStayStep
<1> USE DEF Users, Roles
<1>0. /\ account \in [Users -> Rows] /\ key \in [Keys -> KeyRows]
      /\ request \in [Requests -> RequestStates] /\ granted \in [Keys -> {NoKey} \cup Limits]
      /\ session \subseteq {u \in People: account[u].live} /\ sets \subseteq SetIds
      /\ Idle \in RequestStates
      /\ \A k \in Keys: key[k].live => account[key[k].of].live /\ granted[k] = key[k].limits
      /\ \A r \in Requests: RequestOK(request[r])
  BY DEF IInv, TypeOK, KeysAsGranted, RequestStates
<1>1. ASSUME NEW u \in People, SignIn(u) PROVE IInv' /\ OwnersStayStep
  <2>1. session' \subseteq {v \in People: account[v].live}
    BY <1>0, <1>1 DEF SignIn, Humans
  <2> QED
    BY <1>0, <1>1, <2>1, QuietStep DEF SignIn
<1>2. ASSUME NEW u \in People, ChangePassword(u) PROVE IInv' /\ OwnersStayStep
  <2>1. account[u] \in Rows /\ account[u].live
    BY <1>0, <1>2 DEF ChangePassword
  <2>2. PICK old \in Rows: old = account[u] /\ old.live
    BY <2>1
  <2>3. PICK row: row = [old EXCEPT !.temporary = FALSE]
    OBVIOUS
  <2>4. /\ row \in Rows /\ row.live /\ row.role = old.role
        /\ row.disabled = old.disabled
    <3>1. old \in FullRows
      BY <2>2, LiveRow
    <3>2. /\ row \in FullRows /\ row.live /\ row.role = old.role
          /\ row.disabled = old.disabled
      BY <2>3, <3>1 DEF FullRows
    <3> QED
      BY <3>2, LiveRow
  <2>5. /\ account' = [account EXCEPT ![u] = row]
        /\ UNCHANGED <<key, session, sets, request, audit, granted>>
    BY <1>2, <2>2, <2>3 DEF ChangePassword
  <2>6. u \notin Bots /\ account[u] # Absent /\ row # Absent
    BY <2>1, <2>4, KindsAssumption, RowType
  <2>7. /\ row.live /\ row.role = "owner" => IsOwner(u) /\ ~row.disabled
        /\ IsOwner(u) => row.live /\ row.role = "owner"
    BY <2>2, <2>4 DEF IInv, OwnersAreEnabled, IsOwner
  <2>8. RowWritten(u, row)
    BY <1>0, <2>1, <2>4, <2>5, <2>6, <2>7 DEF RowWritten
  <2> QED
    BY <2>4, <2>8, RowStep
<1>3. ASSUME NEW s \in SetIds, DeleteSet(s) PROVE IInv' /\ OwnersStayStep
  BY <1>0, <1>3, QuietStep DEF DeleteSet, LeftPointing
<1> SUFFICES ASSUME NEW r \in Requests,
                    \/ \E u \in People: CountPeople(r, u)
                    \/ WritePerson(r)
                    \/ \E u \in People, a \in Asks: ResolveSession(r, u, a)
                    \/ \E k \in Keys, a \in Asks: ResolveKey(r, k, a)
                    \/ Authorize(r) \/ Answer(r) \/ Leave(r)
                    \/ CreateKey(r) \/ DeleteKey(r)
                    \/ LookUpPerson(r) \/ WriteAccount(r)
                    \/ CreateBot(r) \/ LookUpBot(r) \/ DeleteBot(r)
                    \/ CreateBotKey(r) \/ DeleteBotKey(r)
             PROVE  IInv' /\ OwnersStayStep
  BY <1>1, <1>2, <1>3 DEF Next
<1> DEFINE q == request[r]
<1>q. q \in RequestStates /\ RequestOK(q)
  BY <1>0
<1>e. Ended(r) => /\ request' \in [Requests -> RequestStates]
                  /\ \A p \in Requests: request'[p] = request[p] \/ request'[p] = Idle
                  /\ \A p \in Requests: \/ request'[p] = request[p]
                                        \/ \E n \in RequestStates: request'[p] = n /\ RequestOK(n)'
  <2>1. RequestOK(Idle)'
    BY DEF RequestOK, Idle
  <2> QED
    BY <1>0, <2>1 DEF Ended
<1>b. ASSUME Ended(r), UNCHANGED <<account, key, session, sets, audit, granted>>
      PROVE  IInv' /\ OwnersStayStep
  BY <1>0, <1>e, <1>b, QuietStep
(* A request that goes on with n.                                            *)
<1>m. ASSUME NEW n \in RequestStates, RequestOK(n)',
             request' = [request EXCEPT ![r] = n],
             UNCHANGED <<account, key, session, sets, audit, granted>>
      PROVE  IInv' /\ OwnersStayStep
  <2>1. request' \in [Requests -> RequestStates]
    BY <1>0, <1>m
  <2>2. \A p \in Requests: \/ request'[p] = request[p]
                           \/ \E m \in RequestStates: request'[p] = m /\ RequestOK(m)'
    BY <1>0, <1>m
  <2> QED
    BY <1>0, <1>m, <2>1, <2>2, QuietStep
<1> HIDE DEF q
<1>4. ASSUME NEW u \in People, CountPeople(r, u) PROVE IInv' /\ OwnersStayStep
  <2>1. PICK n \in RequestStates:
          n = [at |-> "counted", as |-> u, role |-> IF Humans = {} THEN "owner" ELSE "member"]
    BY DEF RequestStates
  <2>2. n.role = "owner" \/ Owners' # {}
    BY <1>4, <2>1 DEF CountPeople, IInv, SomeoneOwns, Owners, Humans
  <2>3. RequestOK(n)'
    BY <2>1, <2>2 DEF RequestOK
  <2>4. request' = [request EXCEPT ![r] = n]
    BY <1>4, <2>1 DEF CountPeople
  <2> QED
    BY <1>4, <1>m, <2>3, <2>4 DEF CountPeople
(* The row of somebody who signs up.                                         *)
<1>5. ASSUME WritePerson(r) PROVE IInv' /\ OwnersStayStep
  <2>1. /\ q.at = "counted" /\ q.as \in People /\ q.role \in Roles
        /\ q.role = "owner" \/ Owners # {}
    BY <1>5, <1>q, RequestType DEF WritePerson, RequestOK, q
  <2>2. CASE account[q.as] # Absent
    BY <1>5, <1>b, <2>2 DEF WritePerson, q
  <2>3. CASE account[q.as] = Absent
    <3>1. PICK u \in People, row \in Rows: u = q.as /\ row = Row(q.role)
      BY <2>1, NewRow
    <3>2. row.live /\ row.role = q.role /\ ~row.disabled /\ row # Absent /\ u \notin Bots
      BY <2>1, <3>1, NewRow, RowType, KindsAssumption
    <3>3. /\ account' = [account EXCEPT ![u] = row] /\ session' = session \cup {u}
          /\ UNCHANGED <<key, sets, audit, granted>> /\ Ended(r)
      BY <1>5, <2>3, <3>1 DEF WritePerson, q
    <3>4. ~IsOwner(u)
      BY <2>3, <3>1, RowType DEF IsOwner
    <3>5. RowWritten(u, row)
      BY <1>0, <1>e, <2>1, <2>3, <3>1, <3>2, <3>3, <3>4 DEF RowWritten
    <3> QED
      BY <3>5, RowStep
  <2> QED
    BY <2>2, <2>3
<1>6. ASSUME NEW u \in People, NEW a \in Asks, ResolveSession(r, u, a)
      PROVE  IInv' /\ OwnersStayStep
  <2>1. account[u].live /\ account[u].role \in Roles /\ u \notin Bots
    BY <1>0, <1>6, RowType, KindsAssumption DEF ResolveSession
  <2>2. PICK n \in RequestStates:
          n = [at |-> "served", as |-> u, role |-> account[u].role, via |-> Session, asks |-> a]
    BY <2>1 DEF RequestStates
  <2>3. CallerOK(n)' /\ Within(n)'
    BY <1>6, <2>1, <2>2, RowType DEF ResolveSession, CallerOK, Within, IsOwner
  <2>4. RequestOK(n)'
    BY <2>2, <2>3 DEF RequestOK
  <2>5. request' = [request EXCEPT ![r] = n]
    BY <1>6, <2>2 DEF ResolveSession, Begin
  <2> QED
    BY <1>6, <1>m, <2>4, <2>5 DEF ResolveSession
<1>7. ASSUME NEW k \in Keys, NEW a \in Asks, ResolveKey(r, k, a)
      PROVE  IInv' /\ OwnersStayStep
  <2>1. /\ key[k].of \in Users /\ account[key[k].of].live
        /\ account[key[k].of].role \in Roles /\ a.do # "leave"
    BY <1>0, <1>7, RowType, KeyType DEF ResolveKey
  <2>2. PICK n \in RequestStates:
          n = [at |-> "resolved", as |-> key[k].of, role |-> account[key[k].of].role,
               via |-> k, asks |-> a]
    BY <2>1 DEF RequestStates
  <2>3. CallerOK(n)'
    BY <1>7, <2>1, <2>2, RowType DEF ResolveKey, CallerOK, IsOwner
  <2>4. RequestOK(n)'
    BY <2>2, <2>3 DEF RequestOK
  <2>5. request' = [request EXCEPT ![r] = n]
    BY <1>7, <2>2 DEF ResolveKey, Begin
  <2> QED
    BY <1>7, <1>m, <2>4, <2>5 DEF ResolveKey
(* A request that advances carries on what it read.                          *)
<1>a. ASSUME NEW at \in {"served", "looked"}, q.at \in {"resolved", "served"},
             Advanced(r, at), Within(q), at = "looked" => TargetOK(q.asks),
             UNCHANGED <<account, key, session, sets, audit, granted>>
      PROVE  IInv' /\ OwnersStayStep
  <2>1. PICK n: n = [q EXCEPT !.at = at]
    OBVIOUS
  <2>2. /\ n \in RequestStates /\ n.at = at
        /\ n.as = q.as /\ n.role = q.role /\ n.via = q.via /\ n.asks = q.asks
    BY <1>a, <1>q, <2>1, Moves
  <2>3. CallerOK(n) /\ Within(n) /\ (at = "looked" => TargetOK(n.asks))
    BY <1>a, <1>q, <2>2 DEF RequestOK, CallerOK, Within
  <2>4. PICK m \in RequestStates: m = n
    BY <2>2
  <2>5. RequestOK(m)
    BY <1>a, <2>2, <2>3, <2>4 DEF RequestOK
  <2>6. Steady
    BY <1>a DEF Steady, Owners, Humans, IsOwner
  <2>7. RequestOK(m)'
    BY <2>5, <2>6, Waits
  <2>8. request' = [request EXCEPT ![r] = m]
    BY <1>a, <2>1, <2>4 DEF Advanced, q
  <2> QED
    BY <1>a, <1>m, <2>7, <2>8
<1>8. ASSUME Authorize(r) PROVE IInv' /\ OwnersStayStep
  <2>1. /\ q.at = "resolved" /\ q.via \in Keys
        /\ UNCHANGED <<account, key, session, sets, audit, granted>>
    BY <1>8, <1>q DEF Authorize, RequestOK, q
  <2>2. CASE Permits(q)
    <3>1. granted[q.via] = key[q.via].limits /\ granted[q.via] \in Limits
      BY <1>0, <2>1, <2>2, KeyType DEF Permits
    <3>2. Within(q)
      BY <2>1, <2>2, <3>1 DEF Permits, Within
    <3> QED
      BY <1>8, <1>a, <2>1, <2>2, <3>2 DEF Authorize, q
  <2>3. CASE ~Permits(q)
    BY <1>8, <1>b, <2>1, <2>3 DEF Authorize, q
  <2> QED
    BY <2>2, <2>3
<1>9. ASSUME Answer(r) PROVE IInv' /\ OwnersStayStep
  BY <1>9, <1>b DEF Answer
<1>s. q.at \in {"served", "looked"} =>
        /\ q.as \in Users /\ q.role \in Roles /\ q.via \in Keys \cup {Session} /\ q.asks \in Asks
        /\ CallerOK(q) /\ Within(q)
  BY <1>q, RequestType DEF RequestOK
(* A key is granted, or deleted.                                             *)
<1>k. ASSUME NEW k \in Keys, NEW u \in Users, NEW l \in Limits,
             account[u].live, granted[k] = NoKey, Ended(r),
             key' = [key EXCEPT ![k] = KeyRow(u, l)], granted' = [granted EXCEPT ![k] = l],
             UNCHANGED <<account, session, sets, audit>>
      PROVE  IInv' /\ OwnersStayStep
  <2>1. key' \in [Keys -> KeyRows] /\ granted' \in [Keys -> {NoKey} \cup Limits]
    BY <1>0, <1>k, KeyType
  <2>2. \A j \in Keys: /\ granted'[j] = granted[j] \/ granted[j] = NoKey
                       /\ key'[j].live => \/ key'[j] = key[j] /\ granted'[j] = granted[j]
                                          \/ /\ account[key'[j].of].live
                                             /\ granted'[j] = key'[j].limits
    BY <1>0, <1>k, KeyType
  <2> QED
    BY <1>0, <1>e, <1>k, <2>1, <2>2, QuietStep
<1>d. ASSUME NEW k \in Keys, Ended(r), key' = [key EXCEPT ![k] = NoKey],
             UNCHANGED <<account, session, sets, audit, granted>>
      PROVE  IInv' /\ OwnersStayStep
  <2>1. key' \in [Keys -> KeyRows]
    BY <1>0, <1>d, KeyType
  <2>2. \A j \in Keys: key'[j].live => key'[j] = key[j]
    BY <1>0, <1>d, KeyType
  <2> QED
    BY <1>0, <1>e, <1>d, <2>1, <2>2, QuietStep
<1>10. ASSUME CreateKey(r) PROVE IInv' /\ OwnersStayStep
  <2>1. /\ q.asks.key \in Keys /\ q.asks.limits \in Limits /\ q.as \in Users /\ Ended(r)
        /\ UNCHANGED <<account, session, sets, audit>>
    BY <1>10, <1>s, AsksType DEF CreateKey, q
  <2>2. CASE UNCHANGED <<key, granted>>
    BY <1>b, <2>1, <2>2
  <2>3. CASE ~UNCHANGED <<key, granted>>
    <3>1. /\ account[q.as].live /\ granted[q.asks.key] = NoKey
          /\ key' = [key EXCEPT ![q.asks.key] = KeyRow(q.as, q.asks.limits)]
          /\ granted' = [granted EXCEPT ![q.asks.key] = q.asks.limits]
      BY <1>10, <2>3 DEF CreateKey, q
    <3> QED
      BY <1>k, <2>1, <3>1
  <2> QED
    BY <2>2, <2>3
<1>11. ASSUME DeleteKey(r) PROVE IInv' /\ OwnersStayStep
  <2>1. /\ q.asks.key \in Keys /\ Ended(r)
        /\ UNCHANGED <<account, session, sets, audit, granted>>
        /\ key' = key \/ key' = [key EXCEPT ![q.asks.key] = NoKey]
    BY <1>11, <1>s, AsksType DEF DeleteKey, q
  <2> QED
    BY <1>b, <1>d, <2>1
(* A row is erased, with the account's keys.                                 *)
<1>g. ASSUME NEW u \in Users, account[u] # Absent
      PROVE  /\ Gone \in Rows /\ Gone # Absent /\ ~Gone.live
             /\ KeysWithout(u) \in [Keys -> KeyRows]
             /\ \A k \in Keys: KeysWithout(u)[k].live =>
                                 KeysWithout(u)[k] = key[k] /\ key[k].of # u
  BY <1>0, KeyType, RowType DEF KeysWithout
<1>12. ASSUME Leave(r) PROVE IInv' /\ OwnersStayStep
  <2>1. /\ q.as \in People /\ q.as \notin Bots /\ account[q.as] # Absent /\ Ended(r)
        /\ IsOwner(q.as) => q.role = "owner"
        /\ UNCHANGED <<sets, audit, granted>>
    BY <1>12, <1>s, KindsAssumption DEF Leave, q, CallerOK
  <2>2. CASE UNCHANGED <<account, key, session>>
    BY <1>b, <2>1, <2>2
  <2>3. CASE ~UNCHANGED <<account, key, session>>
    <3>1. /\ q.role # "owner" /\ account' = [account EXCEPT ![q.as] = Gone]
          /\ key' = KeysWithout(q.as) /\ session' = session \ {q.as}
      BY <1>12, <2>3 DEF Leave, q, MayLeave, Erased
    <3>2. ~IsOwner(q.as)
      BY <2>1, <3>1
    <3>3. PICK u \in People, row \in Rows: u = q.as /\ row = Gone
      BY <2>1, RowType
    <3>4. /\ row # Absent /\ ~row.live /\ u \notin Bots
          /\ account' = [account EXCEPT ![u] = row]
      BY <2>1, <3>1, <3>3, RowType
    <3>5. /\ key' \in [Keys -> KeyRows]
          /\ \A k \in Keys: key'[k].live => key'[k] = key[k] /\ key[k].of # u
      BY <2>1, <1>g, <3>1, <3>3
    <3>6. /\ session' \subseteq People /\ u \notin session'
          /\ \A v \in session': v \in session
      BY <1>0, <3>1, <3>3
    <3>7. RowWritten(u, row)
      BY <1>e, <2>1, <3>2, <3>3, <3>4, <3>5, <3>6 DEF RowWritten
    <3> QED
      BY <3>7, RowStep
  <2> QED
    BY <2>2, <2>3
<1>13. ASSUME LookUpPerson(r) PROVE IInv' /\ OwnersStayStep
  <2>1. /\ q.at = "served" /\ q.asks.do \in OnPeople
        /\ UNCHANGED <<account, key, session, sets, audit, granted>>
    BY <1>13 DEF LookUpPerson, q, OnPeople
  <2>2. CASE Manageable(q)
    <3>1. TargetOK(q.asks)
      BY <2>1, <2>2, RowType DEF Manageable, IsManaged, TargetOK, IsOwner
    <3> QED
      BY <1>13, <1>a, <1>s, <2>1, <2>2, <3>1 DEF LookUpPerson, q
  <2>3. CASE ~Manageable(q)
    BY <1>13, <1>b, <2>1, <2>3 DEF LookUpPerson, q
  <2> QED
    BY <2>2, <2>3
<1>14. ASSUME WriteAccount(r) PROVE IInv' /\ OwnersStayStep
  <2>1. /\ q.at = "looked" /\ q.asks.do \in OnPeople /\ Ended(r)
        /\ UNCHANGED <<key, sets, audit, granted>>
    BY <1>14 DEF WriteAccount, q, OnPeople
  <2>2. /\ q.asks.on \in People /\ q.asks.on \notin Bots /\ account[q.asks.on] # Absent
        /\ q.asks.do = "role" => q.asks.to \in Assignable
        /\ q.asks.do # "password" => ~IsOwner(q.asks.on)
    BY <1>q, <2>1, KindsAssumption DEF RequestOK, TargetOK
  <2>3. PICK u \in People: u = q.asks.on
    BY <2>2
  <2>4. session' \subseteq session
    BY <1>14 DEF WriteAccount
  <2>5. CASE ~account[u].live
    <3>1. account' = account
      BY <1>14, <2>3, <2>5 DEF WriteAccount, q
    <3>2. session' \subseteq {v \in People: account[v].live}
      BY <1>0, <2>4
    <3> QED
      BY <1>0, <1>e, <2>1, <3>1, <3>2, QuietStep
  <2>6. CASE account[u].live
    <3>1. PICK old \in Rows: old = account[u] /\ old.live
      BY <1>0, <2>6
    <3>2. PICK row \in Rows:
            /\ account' = [account EXCEPT ![u] = row] /\ row.live
            /\ row.role = "owner" => IsOwner(u) /\ ~row.disabled
            /\ IsOwner(u) => row.role = "owner"
      <4>1. IsOwner(u) <=> old.role = "owner"
        BY <3>1 DEF IsOwner
      <4>2. IsOwner(u) => ~old.disabled
        BY <3>1 DEF IInv, OwnersAreEnabled
      <4>3. CASE q.asks.do = "role"
        <5>1. PICK row: row = [old EXCEPT !.role = q.asks.to]
          OBVIOUS
        <5>2. row \in Rows /\ row.live /\ row.role = q.asks.to /\ row.role # "owner"
          <6>1. old \in FullRows /\ q.asks.to \in Roles /\ q.asks.to # "owner"
            BY <2>2, <3>1, <4>3, LiveRow DEF Assignable
          <6>2. row \in FullRows /\ row.live /\ row.role = q.asks.to
            BY <5>1, <6>1 DEF FullRows
          <6> QED
            BY <6>1, <6>2, LiveRow
        <5>3. account' = [account EXCEPT ![u] = row]
          BY <1>14, <2>3, <3>1, <4>3, <5>1 DEF WriteAccount, q
        <5> QED
          BY <2>2, <2>3, <4>3, <5>2, <5>3
      <4>4. CASE q.asks.do = "disable"
        <5>1. PICK row: row = [old EXCEPT !.disabled = TRUE]
          OBVIOUS
        <5>2. row \in Rows /\ row.live /\ row.role = old.role
          <6>1. old \in FullRows
            BY <3>1, LiveRow
          <6>2. row \in FullRows /\ row.live /\ row.role = old.role
            BY <5>1, <6>1 DEF FullRows
          <6> QED
            BY <6>2, LiveRow
        <5>3. account' = [account EXCEPT ![u] = row]
          BY <1>14, <2>3, <3>1, <4>4, <5>1 DEF WriteAccount, q
        <5> QED
          BY <2>2, <2>3, <4>1, <4>4, <5>2, <5>3
      <4>5. CASE q.asks.do = "enable"
        <5>1. PICK row: row = [old EXCEPT !.disabled = FALSE]
          OBVIOUS
        <5>2. row \in Rows /\ row.live /\ row.role = old.role
          <6>1. old \in FullRows
            BY <3>1, LiveRow
          <6>2. row \in FullRows /\ row.live /\ row.role = old.role
            BY <5>1, <6>1 DEF FullRows
          <6> QED
            BY <6>2, LiveRow
        <5>3. account' = [account EXCEPT ![u] = row]
          BY <1>14, <2>3, <3>1, <4>5, <5>1 DEF WriteAccount, q
        <5> QED
          BY <2>2, <2>3, <4>1, <4>5, <5>2, <5>3
      <4>6. CASE q.asks.do = "password"
        <5>1. PICK row: row = [old EXCEPT !.temporary = TRUE]
          OBVIOUS
        <5>2. row \in Rows /\ row.live /\ row.role = old.role /\ row.disabled = old.disabled
          <6>1. old \in FullRows
            BY <3>1, LiveRow
          <6>2. row \in FullRows /\ row.live /\ row.role = old.role /\ row.disabled = old.disabled
            BY <5>1, <6>1 DEF FullRows
          <6> QED
            BY <6>2, LiveRow
        <5>3. account' = [account EXCEPT ![u] = row]
          BY <1>14, <2>3, <3>1, <4>6, <5>1 DEF WriteAccount, q
        <5> QED
          BY <4>1, <4>2, <5>2, <5>3
      <4> QED
        BY <2>1, <4>3, <4>4, <4>5, <4>6 DEF OnPeople
    <3>3. /\ session' \subseteq People /\ row # Absent
          /\ \A v \in session': v \in session
      BY <1>0, <2>4, <3>2, RowType
    <3>4. u \notin Bots /\ account[u] # Absent /\ account[u].live
      BY <2>2, <2>3, <2>6
    <3>5. /\ key' \in [Keys -> KeyRows]
          /\ \A k \in Keys: key'[k].live => key'[k] = key[k]
      BY <1>0, <2>1
    <3>6. RowWritten(u, row)
      BY <1>e, <2>1, <3>2, <3>3, <3>4, <3>5 DEF RowWritten
    <3> QED
      BY <3>6, RowStep
  <2> QED
    BY <2>5, <2>6
<1>15. ASSUME CreateBot(r) PROVE IInv' /\ OwnersStayStep
  <2>1. /\ q.asks.on \in Bots /\ q.asks.on \notin People /\ Ended(r)
        /\ UNCHANGED <<key, session, sets, granted>>
    BY <1>15, <1>s, AsksType, KindsAssumption DEF CreateBot, q
  <2>2. CASE UNCHANGED <<account, audit>>
    BY <1>b, <2>1, <2>2
  <2>3. CASE ~UNCHANGED <<account, audit>>
    <3>1. PICK b \in Bots, row \in Rows: b = q.asks.on /\ row = Row("member")
      BY <2>1, NewRow
    <3>2. row.live /\ row # Absent
      BY <3>1, NewRow, RowType
    <3>3. /\ account[b] = Absent /\ account' = [account EXCEPT ![b] = row]
          /\ audit' = Recorded("create", b)
      BY <1>15, <2>3, <3>1 DEF CreateBot, q
    <3>4. /\ key' \in [Keys -> KeyRows]
          /\ \A k \in Keys: key'[k].live => key'[k] = key[k]
          /\ session' \subseteq People /\ \A v \in session': v \in session
      BY <1>0, <2>1
    <3>5. b \notin People
      BY <2>1, <3>1
    <3>6. RowWritten(b, row)
      BY <1>e, <2>1, <3>1, <3>2, <3>3, <3>4, <3>5 DEF RowWritten
    <3> QED
      BY <3>6, RowStep
  <2> QED
    BY <2>2, <2>3
<1>16. ASSUME LookUpBot(r) PROVE IInv' /\ OwnersStayStep
  <2>1. q.at = "served" /\ TargetOK(q.asks)
    BY <1>16 DEF LookUpBot, q, TargetOK, OnPeople
  <2>2. \/ Advanced(r, "looked") \/ Ended(r)
    BY <1>16 DEF LookUpBot
  <2>3. UNCHANGED <<account, key, session, sets, audit, granted>>
    BY <1>16 DEF LookUpBot
  <2> QED
    BY <1>a, <1>b, <1>s, <2>1, <2>2, <2>3
<1>17. ASSUME DeleteBot(r) PROVE IInv' /\ OwnersStayStep
  <2>1. PICK b \in Bots: b = q.asks.on
    BY <1>17, <1>s, AsksType DEF DeleteBot, q
  <2>2. /\ account' = [account EXCEPT ![b] = Gone] /\ key' = KeysWithout(b)
        /\ audit' = Recorded("delete", b) /\ Ended(r) /\ UNCHANGED <<session, sets, granted>>
    BY <1>17, <2>1 DEF DeleteBot, Erased, q
  <2>3. b \notin People /\ b \notin session
    BY <1>0, <2>1, KindsAssumption
  <2>4. /\ Gone \in Rows /\ Gone # Absent /\ ~Gone.live /\ key' \in [Keys -> KeyRows]
        /\ \A k \in Keys: key'[k].live => key'[k] = key[k] /\ key[k].of # b
    BY <1>0, <2>2, KeyType, RowType DEF KeysWithout
  <2>5. PICK row \in Rows: row = Gone /\ row # Absent /\ ~row.live
    BY <2>4
  <2>6. /\ session' \subseteq People /\ b \notin session'
        /\ \A v \in session': v \in session
    BY <1>0, <2>2, <2>3
  <2>7. RowWritten(b, row)
    BY <1>e, <2>2, <2>3, <2>4, <2>5, <2>6 DEF RowWritten
  <2> QED
    BY <2>7, RowStep
<1>18. ASSUME CreateBotKey(r) PROVE IInv' /\ OwnersStayStep
  <2>1. /\ q.asks.key \in Keys /\ q.asks.limits \in Limits /\ q.asks.on \in Users /\ Ended(r)
        /\ UNCHANGED <<account, session, sets, audit>>
    BY <1>18, <1>s, AsksType DEF CreateBotKey, q
  <2>2. CASE UNCHANGED <<key, granted>>
    BY <1>b, <2>1, <2>2
  <2>3. CASE ~UNCHANGED <<key, granted>>
    <3>1. /\ account[q.asks.on].live /\ granted[q.asks.key] = NoKey
          /\ key' = [key EXCEPT ![q.asks.key] = KeyRow(q.asks.on, q.asks.limits)]
          /\ granted' = [granted EXCEPT ![q.asks.key] = q.asks.limits]
      BY <1>18, <2>3 DEF CreateBotKey, q
    <3> QED
      BY <1>k, <2>1, <3>1
  <2> QED
    BY <2>2, <2>3
<1>19. ASSUME DeleteBotKey(r) PROVE IInv' /\ OwnersStayStep
  <2>1. /\ q.asks.key \in Keys /\ Ended(r)
        /\ UNCHANGED <<account, session, sets, audit, granted>>
        /\ key' = key \/ key' = [key EXCEPT ![q.asks.key] = NoKey]
    BY <1>19, <1>s, AsksType DEF DeleteBotKey, q
  <2> QED
    BY <1>b, <1>d, <2>1
<1> QED
  BY <1>4, <1>5, <1>6, <1>7, <1>8, <1>9, <1>10, <1>11, <1>12, <1>13, <1>14, <1>15,
     <1>16, <1>17, <1>18, <1>19

-----------------------------------------------------------------------------
(* The theorems.                                                             *)

LEMMA InitKeeps == Init => IInv
<1> SUFFICES ASSUME Init PROVE IInv
  OBVIOUS
<1>1. Absent \in Rows /\ ~Absent.live /\ NoKey \in KeyRows /\ ~NoKey.live /\ Idle \in RequestStates
  BY RowType, KeyType DEF RequestStates
<1>2. TypeOK /\ KeysAsGranted
  BY <1>1 DEF Init, TypeOK, KeysAsGranted
<1>3. SomeoneOwns /\ BotsAreNotPeople /\ AccountsAreRecorded /\ OwnersAreEnabled
  BY <1>1 DEF Init, SomeoneOwns, Humans, BotsAreNotPeople, AccountsAreRecorded,
              OwnersAreEnabled, IsOwner, Users
<1>4. \A r \in Requests: RequestOK(request[r])
  BY DEF Init, RequestOK, Idle
<1> QED
  BY <1>2, <1>3, <1>4 DEF IInv

LEMMA StutterKeeps == ASSUME IInv, UNCHANGED vars PROVE IInv' /\ OwnersStayStep
<1>1. /\ session' \subseteq {u \in People: account[u].live} /\ sets' \subseteq SetIds
      /\ request' \in [Requests -> RequestStates]
      /\ key' \in [Keys -> KeyRows] /\ granted' \in [Keys -> {NoKey} \cup Limits]
      /\ \A k \in Keys: key'[k] = key[k] /\ granted'[k] = granted[k]
      /\ \A r \in Requests: request'[r] = request[r]
  BY DEF IInv, TypeOK, vars
<1> QED
  BY <1>1, QuietStep DEF vars

(* The invariant holds of every behaviour, for any number of people, service *)
(* accounts, keys, sets and requests in flight.                              *)
THEOREM AccountsInvariant == Spec => []IInv
<1>1. IInv /\ [Next]_vars => IInv'
  BY NextKeeps, StutterKeeps
<1> QED
  BY InitKeeps, <1>1, PTL DEF Spec

(* There is always an enabled owner once there are people, a service         *)
(* account's requests stay within the limits its key was made with, it stays *)
(* what it was created as, and the audit log names every one that came and   *)
(* went (routes.go:279-280, apikey.go, audit.go:15-16).                      *)
THEOREM AccountsKeep == Spec => []AccountsHold
<1>1. IInv => BotsStayLimited
  BY DEF IInv, RequestOK, Within, BotsStayLimited
<1>2. IInv => AccountsHold
  BY <1>1 DEF IInv, AccountsHold
<1> QED
  BY AccountsInvariant, <1>2, PTL

(* No step makes anybody an owner but by signing up, or takes it from one    *)
(* (routes.go:279-280).                                                      *)
THEOREM OwnersRemain == Spec => OwnersStay
<1>1. IInv /\ [Next]_vars => [OwnersStayStep]_vars
  BY NextKeeps
<1> QED
  BY AccountsInvariant, <1>1, PTL DEF Spec, OwnersStay

-----------------------------------------------------------------------------
(* Suites.  A request acts on what it read or stored before, so the          *)
(* invariant says what stays true of that: archives, rows and jobs are not   *)
(* taken away, and a suite that was vouched for stays so.                    *)

AuthoredIsVouched ==
  \A x \in Refs: suite[x].live /\ suite[x].origin = "authored" => x \in vouched

DerivedIsThere == \A x \in derivedOnce: suite[x].live

SuiteRequestOK(q) ==
  /\ q.at = "stored" => /\ q.ref \in archive
                        /\ q.kind = "derived" => job[q.job].at # "none"
  /\ q.at = "mark"   => suite[q.ref].live
  /\ q.at = "report" => /\ suite[q.ref].live /\ job[q.job].at # "none"
                        /\ q.named => job[q.job].ref \in Refs
                        /\ ~q.derived => q.named /\ q.ref \in vouched
                        /\ q.releases => ~q.derived

SuitesInv ==
  /\ E!TypeOK
  /\ AuthoredIsVouched /\ DerivedIsThere
  /\ E!SuitesAreStored /\ E!RaisedHasReviewer
  /\ E!AuthoredScoresAreVouched /\ E!ReleasesAreVouched
  /\ \A r \in Requests: SuiteRequestOK(suiteRequest[r])

FullSuites == [live: {TRUE}, skill: Skills, origin: {"authored", "derived"},
               machine: BOOLEAN, reviewed: BOOLEAN]

LEMMA SuiteRowType ==
  /\ ~E!NoSuite.live
  /\ \A row \in FullSuites: /\ row.live /\ row \in E!SuiteRows /\ row.skill \in Skills
                            /\ row.origin \in {"authored", "derived"}
  /\ \A row \in E!SuiteRows: row.live => row \in FullSuites
<1>1. ~E!NoSuite.live
  BY DEF E!NoSuite
<1>2. E!SuiteRows = {E!NoSuite} \cup FullSuites
  BY DEF E!SuiteRows, FullSuites
<1>3. ASSUME NEW row \in FullSuites
      PROVE  row.live = TRUE /\ row.skill \in Skills /\ row.origin \in {"authored", "derived"}
  BY <1>3 DEF FullSuites
<1> QED
  BY <1>1, <1>2, <1>3

LEMMA NewSuite ==
  \A s \in Skills: /\ E!SuiteRow(s) \in FullSuites
                   /\ E!SuiteRow(s).origin = "authored"
BY DEF FullSuites, E!SuiteRow

(* The two statements on a row that is there.                                *)
LEMMA MarkedDerived ==
  ASSUME NEW rows \in [Refs -> E!SuiteRows], NEW x \in Refs, rows[x] \in FullSuites,
         NEW machine \in BOOLEAN
  PROVE  LET d == E!Derived(rows, x, machine) IN
         /\ d \in [Refs -> E!SuiteRows] /\ d[x] \in FullSuites
         /\ d[x].origin = "derived"
         /\ rows[x].machine => d[x].machine
         /\ \A y \in Refs \ {x}: d[y] = rows[y]
<1> DEFINE m == rows[x].machine \/ machine
           row == [rows[x] EXCEPT !.origin = "derived", !.machine = m]
<1>1. m \in BOOLEAN /\ (rows[x].machine => m)
  OBVIOUS
<1>2. E!Derived(rows, x, machine) = [rows EXCEPT ![x] = row]
  BY DEF E!Derived
<1>3. row \in FullSuites /\ row.origin = "derived" /\ row.machine = m
  <2> HIDE DEF m
  <2> QED
    BY <1>1 DEF FullSuites
<1>4. row \in E!SuiteRows
  BY <1>3, SuiteRowType
<1> HIDE DEF row, m
<1> QED
  BY <1>1, <1>2, <1>3, <1>4

LEMMA MarkedAuthored ==
  ASSUME NEW x \in Refs, suite \in [Refs -> E!SuiteRows], suite[x] \in FullSuites
  PROVE  LET d == E!Authored(x) IN
         /\ d \in [Refs -> E!SuiteRows] /\ d[x] \in FullSuites
         /\ d[x].reviewed /\ d[x].machine = suite[x].machine
         /\ \A y \in Refs \ {x}: d[y] = suite[y]
<1> DEFINE row == [suite[x] EXCEPT !.origin = "authored", !.reviewed = TRUE]
<1>1. E!Authored(x) = [suite EXCEPT ![x] = row]
  BY DEF E!Authored
<1>2. row \in FullSuites /\ row.reviewed = TRUE /\ row.machine = suite[x].machine
  BY DEF FullSuites
<1>3. row \in E!SuiteRows
  BY <1>2, SuiteRowType
<1> HIDE DEF row
<1> QED
  BY <1>1, <1>2, <1>3

FullJobs == [at: {"running", "done"}, skill: Skills, ref: Refs \cup {NoRef}, claim: 1..MaxClaims]

LEMMA JobRowType ==
  /\ E!NoJob.at = "none"
  /\ \A row \in FullJobs: /\ row \in E!JobRows /\ row.at \in {"running", "done"}
                          /\ row.skill \in Skills /\ row.ref \in Refs \cup {NoRef}
                          /\ row.claim \in 1..MaxClaims
  /\ \A row \in E!JobRows: row = E!NoJob \/ row \in FullJobs
BY DEF E!JobRows, E!NoJob, FullJobs

LEMMA SuiteRequestType ==
  \A q \in E!RequestStates:
    /\ q.at \in {"idle", "stored", "read", "mark", "report"}
    /\ q.at = "stored" => /\ q.kind \in {"derived", "authored", "unreviewed", "edit"}
                          /\ q.skill \in Skills /\ q.ref \in Refs
                          /\ q.kind = "derived" => q.job \in Jobs
    /\ q.at = "read" => q.skill \in Skills /\ q.ref \in Refs /\ q.edit \in Refs
    /\ q.at = "mark" => q.ref \in Refs
    /\ q.at = "report" => /\ q.job \in Jobs /\ q.claim \in 1..MaxClaims /\ q.ref \in Refs
                          /\ q.named \in BOOLEAN /\ q.derived \in BOOLEAN
                          /\ q.releases \in BOOLEAN
BY DEF E!RequestStates, E!Idle

(* What no step takes away.                                                  *)
SuitesSteady ==
  /\ archive \subseteq archive' /\ vouched \subseteq vouched'
  /\ \A x \in Refs: suite[x].live => suite'[x].live
  /\ \A j \in Jobs: job[j].at # "none" =>
       /\ job'[j].at # "none"
       /\ job[j].ref \in Refs => job'[j].ref \in Refs

(* So a request that waits while others act stays in order.                  *)
LEMMA SuiteRequestWaits ==
  ASSUME SuitesSteady, NEW q \in E!RequestStates, SuiteRequestOK(q)
  PROVE  SuiteRequestOK(q)'
BY SuiteRequestType DEF SuitesSteady, SuiteRequestOK

LEMMA SuiteRequestsStay ==
  ASSUME SuitesInv, SuitesSteady, NEW r \in Requests, NEW q \in E!RequestStates,
         suiteRequest' = [suiteRequest EXCEPT ![r] = q], SuiteRequestOK(q)'
  PROVE  /\ suiteRequest' \in [Requests -> E!RequestStates]
         /\ \A s \in Requests: SuiteRequestOK(suiteRequest[s])'
<1>1. /\ suiteRequest' \in [Requests -> E!RequestStates] /\ suiteRequest'[r] = q
      /\ \A s \in Requests \ {r}: suiteRequest'[s] = suiteRequest[s]
  BY DEF SuitesInv, E!TypeOK
<1>2. ASSUME NEW s \in Requests PROVE SuiteRequestOK(suiteRequest[s])'
  <2>1. CASE s = r
    BY <1>1, <2>1
  <2>2. CASE s # r
    <3>1. suiteRequest[s] \in E!RequestStates /\ SuiteRequestOK(suiteRequest[s])
      BY DEF SuitesInv, E!TypeOK
    <3>2. PICK p \in E!RequestStates: p = suiteRequest[s] /\ SuiteRequestOK(p)
      BY <3>1
    <3>3. SuiteRequestOK(p)' /\ suiteRequest'[s] = p
      BY <1>1, <2>2, <3>2, SuiteRequestWaits
    <3> QED
      BY <3>3
  <2> QED
    BY <2>1, <2>2
<1> QED
  BY <1>1, <1>2

(* A step that moves one request on, and at most stores an archive.          *)
LEMMA MoveOn ==
  ASSUME SuitesInv, NEW r \in Requests, NEW q \in E!RequestStates,
         E!Goto(r, q), SuiteRequestOK(q)',
         archive \subseteq archive', archive' \subseteq Refs,
         UNCHANGED <<suite, made, job, score, released, vouched, derivedOnce>>
  PROVE  SuitesInv' /\ E!MachineStaysStep
<1>1. SuitesSteady
  BY DEF SuitesSteady
<1>2. /\ suiteRequest' \in [Requests -> E!RequestStates]
      /\ \A s \in Requests: SuiteRequestOK(suiteRequest[s])'
  BY <1>1, SuiteRequestsStay DEF E!Goto
<1>3. E!TypeOK'
  BY <1>2 DEF SuitesInv, E!TypeOK
<1>4. E!MachineStaysStep
  BY DEF E!MachineStaysStep
<1> QED
  BY <1>2, <1>3, <1>4
     DEF SuitesInv, AuthoredIsVouched, DerivedIsThere, E!SuitesAreStored,
         E!RaisedHasReviewer, E!AuthoredScoresAreVouched, E!ReleasesAreVouched

LEMMA RequestShapes ==
  /\ E!Idle \in E!RequestStates /\ SuiteRequestOK(E!Idle)'
  /\ \A x \in Refs: [at |-> "mark", ref |-> x] \in E!RequestStates
BY DEF E!RequestStates, E!Idle, SuiteRequestOK

LEMMA RecordStep ==
  ASSUME SuitesInv, NEW r \in Requests, E!RecordSuite(r),
         NEW q \in E!RequestStates, q = suiteRequest[r]
  PROVE  SuitesInv' /\ E!MachineStaysStep
<1> DEFINE x == q.ref
           rows == E!Inserted(q.skill, x)
           next == IF q.kind = "edit" THEN [at |-> "mark", ref |-> x] ELSE E!Idle
<1>t. /\ suite \in [Refs -> E!SuiteRows] /\ job \in [Jobs -> E!JobRows]
      /\ made \in Seq(Refs)
      /\ archive \subseteq Refs /\ vouched \subseteq Refs /\ derivedOnce \subseteq Refs
  BY DEF SuitesInv, E!TypeOK
<1>1. /\ q \in E!RequestStates /\ q.at = "stored" /\ SuiteRequestOK(q)
      /\ q.kind \in {"derived", "authored", "unreviewed", "edit"}
      /\ q.skill \in Skills /\ x \in Refs /\ x \in archive
      /\ q.kind = "derived" => q.job \in Jobs /\ job[q.job].at # "none"
  BY SuiteRequestType DEF SuitesInv, E!TypeOK, E!RecordSuite, SuiteRequestOK
<1>2. /\ suite' = E!Origin(q.kind, rows, x)
      /\ made' = IF suite[x].live THEN made ELSE Append(made, x)
      /\ job' = IF q.kind = "derived" THEN [job EXCEPT ![q.job].ref = x] ELSE job
      /\ vouched' = IF ~suite[x].live /\ q.kind \in {"authored", "edit"}
                    THEN vouched \cup {x} ELSE vouched
      /\ derivedOnce' = IF suite'[x].origin = "derived" THEN derivedOnce \cup {x}
                        ELSE derivedOnce
      /\ suiteRequest' = [suiteRequest EXCEPT ![r] = next]
      /\ UNCHANGED <<archive, score, released>>
  BY DEF E!RecordSuite, E!Goto, E!Ended
<1>3. /\ rows \in [Refs -> E!SuiteRows] /\ rows[x] \in FullSuites
      /\ suite[x].live => rows = suite
      /\ \A y \in Refs \ {x}: rows[y] = suite[y]
  BY <1>t, <1>1, SuiteRowType, NewSuite DEF E!Inserted
<1>4. /\ suite' \in [Refs -> E!SuiteRows] /\ suite'[x] \in FullSuites
      /\ \A y \in Refs \ {x}: suite'[y] = suite[y]
      /\ rows[x].machine => suite'[x].machine
      /\ suite'[x].origin = "authored" =>
           q.kind \in {"authored", "edit"} /\ suite' = rows
  <2>1. CASE q.kind \in {"unreviewed", "derived"}
    <3>1. PICK b \in BOOLEAN: b = (q.kind = "derived")
      OBVIOUS
    <3>2. suite' = E!Derived(rows, x, b)
      BY <1>2, <2>1, <3>1 DEF E!Origin
    <3> HIDE DEF rows, x
    <3>3. LET d == E!Derived(rows, x, b) IN
          /\ d \in [Refs -> E!SuiteRows] /\ d[x] \in FullSuites
          /\ d[x].origin = "derived"
          /\ rows[x].machine => d[x].machine
          /\ \A y \in Refs \ {x}: d[y] = rows[y]
      BY <1>1, <1>3, MarkedDerived
    <3>4. /\ suite' \in [Refs -> E!SuiteRows] /\ suite'[x] \in FullSuites
          /\ suite'[x].origin = "derived"
          /\ rows[x].machine => suite'[x].machine
          /\ \A y \in Refs \ {x}: suite'[y] = rows[y]
      BY <3>2, <3>3
    <3> QED
      BY <1>3, <3>4
  <2>2. CASE q.kind \in {"authored", "edit"}
    <3>1. suite' = rows
      BY <1>2, <2>2 DEF E!Origin
    <3> QED
      BY <1>3, <2>2, <3>1
  <2> QED
    BY <1>1, <2>1, <2>2
<1>5. /\ \A y \in Refs: suite'[y].live <=> suite[y].live \/ y = x
      /\ suite'[x].origin \in {"authored", "derived"}
  BY <1>4, SuiteRowType
<1>6. /\ job' \in [Jobs -> E!JobRows]
      /\ \A j \in Jobs: /\ job'[j].at = job[j].at
                        /\ job[j].ref \in Refs => job'[j].ref \in Refs
                        /\ job'[j].at = "done" => job'[j].ref \in Refs
  <2>1. \A j \in Jobs: job[j].at = "done" => job[j].ref \in Refs
    BY DEF SuitesInv, E!TypeOK
  <2>2. CASE q.kind = "derived"
    <3>1. [job[q.job] EXCEPT !.ref = x] \in FullJobs
      BY <1>t, <1>1, <2>2, JobRowType DEF FullJobs
    <3>2. /\ job'[q.job] = [job[q.job] EXCEPT !.ref = x]
          /\ \A j \in Jobs \ {q.job}: job'[j] = job[j]
          /\ job' \in [Jobs -> E!JobRows]
      BY <1>t, <1>1, <1>2, <2>2, <3>1, JobRowType
    <3>3. job'[q.job].at = job[q.job].at /\ job'[q.job].ref = x
      BY <1>t, <1>1, <2>2, <3>2, JobRowType DEF FullJobs
    <3>4. ASSUME NEW j \in Jobs
          PROVE  /\ job'[j].at = job[j].at
                 /\ job[j].ref \in Refs => job'[j].ref \in Refs
                 /\ job'[j].at = "done" => job'[j].ref \in Refs
      <4>1. CASE j = q.job
        BY <1>1, <3>3, <4>1
      <4>2. CASE j # q.job
        BY <2>1, <3>2, <4>2
      <4> QED
        BY <4>1, <4>2
    <3> QED
      BY <3>2, <3>4
  <2>3. CASE q.kind # "derived"
    BY <1>t, <1>2, <2>1, <2>3
  <2> QED
    BY <2>2, <2>3
<1>7. SuitesSteady
  <2>1. \A y \in Refs: suite[y].live => suite'[y].live
    BY <1>5
  <2>2. archive \subseteq archive' /\ vouched \subseteq vouched'
    BY <1>2
  <2>3. \A j \in Jobs: job[j].at # "none" =>
          /\ job'[j].at # "none"
          /\ job[j].ref \in Refs => job'[j].ref \in Refs
    BY <1>6
  <2> QED
    BY <2>1, <2>2, <2>3 DEF SuitesSteady
<1>8. /\ suiteRequest' \in [Requests -> E!RequestStates]
      /\ \A s \in Requests: SuiteRequestOK(suiteRequest[s])'
  <2>1. next \in E!RequestStates /\ SuiteRequestOK(next)'
    BY <1>1, <1>5, RequestShapes DEF SuiteRequestOK
  <2> HIDE DEF next
  <2> QED
    BY <1>2, <1>7, <2>1, SuiteRequestsStay
<1>9. /\ made' \in Seq(Refs)
      /\ \A y \in Refs: suite'[y].live <=> \E i \in DOMAIN made': made'[i] = y
  <2>1. \A y \in Refs: suite[y].live <=> \E i \in DOMAIN made: made[i] = y
    BY DEF SuitesInv, E!TypeOK
  <2>2. CASE suite[x].live
    BY <1>t, <1>2, <1>5, <2>1, <2>2
  <2>3. CASE ~suite[x].live
    <3>1. made' = Append(made, x) /\ made' \in Seq(Refs) /\ Len(made) \in Nat
      BY <1>t, <1>1, <1>2, <2>3
    <3>2. /\ DOMAIN made = 1..Len(made) /\ DOMAIN made' = 1..(Len(made) + 1)
          /\ made'[Len(made) + 1] = x
          /\ \A i \in 1..Len(made): made'[i] = made[i]
      BY <1>t, <1>1, <3>1
    <3>3. DOMAIN made' = DOMAIN made \cup {Len(made) + 1}
      BY <3>1, <3>2
    <3>4. \A y \in Refs:
            (\E i \in DOMAIN made': made'[i] = y) <=> y = x \/ \E i \in DOMAIN made: made[i] = y
      BY <3>2, <3>3
    <3> QED
      BY <1>5, <2>1, <3>1, <3>4
  <2> QED
    BY <2>2, <2>3
<1>10. E!TypeOK'
  <2>1. archive' \subseteq Refs /\ score' \subseteq Skills \X Refs \X BOOLEAN
        /\ released' \subseteq Skills
    BY <1>2 DEF SuitesInv, E!TypeOK
  <2>2. vouched' \subseteq Refs /\ derivedOnce' \subseteq Refs
    BY <1>t, <1>1, <1>2
  <2> QED
    BY <1>4, <1>6, <1>8, <1>9, <2>1, <2>2 DEF E!TypeOK
<1>11. AuthoredIsVouched' /\ DerivedIsThere'
  <2>1. AuthoredIsVouched'
    <3> SUFFICES ASSUME NEW y \in Refs, suite'[y].live, suite'[y].origin = "authored"
                 PROVE  y \in vouched'
      BY DEF AuthoredIsVouched
    <3>1. CASE y = x
      <4>1. q.kind \in {"authored", "edit"} /\ suite' = rows
        BY <1>4, <3>1
      <4>2. CASE suite[x].live
        <5>1. suite' = suite /\ vouched' = vouched
          BY <1>2, <1>3, <4>1, <4>2
        <5> QED
          BY <5>1 DEF SuitesInv, AuthoredIsVouched
      <4>3. CASE ~suite[x].live
        BY <1>2, <3>1, <4>1, <4>3
      <4> QED
        BY <4>2, <4>3
    <3>2. CASE y # x
      BY <1>2, <1>4, <3>2 DEF SuitesInv, AuthoredIsVouched
    <3> QED
      BY <3>1, <3>2
  <2>2. DerivedIsThere'
    BY <1>t, <1>1, <1>2, <1>5 DEF SuitesInv, DerivedIsThere
  <2> QED
    BY <2>1, <2>2
<1>12. E!SuitesAreStored' /\ E!RaisedHasReviewer'
  <2>1. E!SuitesAreStored'
    BY <1>1, <1>2, <1>5 DEF SuitesInv, E!SuitesAreStored
  <2>2. E!RaisedHasReviewer'
    <3> SUFFICES ASSUME NEW y \in derivedOnce', suite'[y].origin = "authored"
                 PROVE  suite'[y].reviewed
      BY DEF E!RaisedHasReviewer
    <3>1. y \in derivedOnce /\ suite[y].live /\ y \in Refs
      BY <1>t, <1>2 DEF SuitesInv, DerivedIsThere
    <3>2. suite'[y] = suite[y]
      BY <1>3, <1>4, <3>1
    <3> QED
      BY <3>1, <3>2 DEF SuitesInv, E!RaisedHasReviewer
  <2> QED
    BY <2>1, <2>2
<1>13. E!AuthoredScoresAreVouched' /\ E!ReleasesAreVouched'
  BY <1>2 DEF SuitesInv, E!AuthoredScoresAreVouched, E!ReleasesAreVouched
<1>14. E!MachineStaysStep
  BY <1>3, <1>4 DEF E!MachineStaysStep
<1> QED
  BY <1>8, <1>10, <1>11, <1>12, <1>13, <1>14 DEF SuitesInv

LEMMA MarkStep ==
  ASSUME SuitesInv, NEW r \in Requests, E!MarkAuthored(r),
         NEW q \in E!RequestStates, q = suiteRequest[r]
  PROVE  SuitesInv' /\ E!MachineStaysStep
<1> DEFINE x == q.ref
<1>t. /\ suite \in [Refs -> E!SuiteRows] /\ derivedOnce \subseteq Refs
      /\ vouched \subseteq Refs
  BY DEF SuitesInv, E!TypeOK
<1>1. q.at = "mark" /\ x \in Refs /\ suite[x].live /\ suite[x] \in FullSuites
  <2>1. q.at = "mark" /\ SuiteRequestOK(q)
    BY DEF SuitesInv, E!MarkAuthored
  <2> QED
    BY <1>t, <2>1, SuiteRequestType, SuiteRowType DEF SuiteRequestOK
<1>2. /\ suite' = E!Authored(x) /\ vouched' = vouched \cup {x}
      /\ suiteRequest' = [suiteRequest EXCEPT ![r] = E!Idle]
      /\ UNCHANGED <<made, archive, job, score, released, derivedOnce>>
  BY DEF E!MarkAuthored, E!Ended
<1>3. /\ suite' \in [Refs -> E!SuiteRows] /\ suite'[x] \in FullSuites
      /\ suite'[x].reviewed /\ suite'[x].machine = suite[x].machine
      /\ \A y \in Refs \ {x}: suite'[y] = suite[y]
  BY <1>t, <1>1, <1>2, MarkedAuthored
<1>4. \A y \in Refs: suite'[y].live <=> suite[y].live
  BY <1>1, <1>3, SuiteRowType
<1>5. SuitesSteady
  BY <1>2, <1>4 DEF SuitesSteady
<1>6. /\ suiteRequest' \in [Requests -> E!RequestStates]
      /\ \A s \in Requests: SuiteRequestOK(suiteRequest[s])'
  BY <1>2, <1>5, RequestShapes, SuiteRequestsStay
<1>7. E!TypeOK'
  BY <1>1, <1>2, <1>3, <1>4, <1>6 DEF SuitesInv, E!TypeOK
<1>8. AuthoredIsVouched' /\ DerivedIsThere'
  BY <1>t, <1>2, <1>3, <1>4 DEF SuitesInv, AuthoredIsVouched, DerivedIsThere
<1>9. E!SuitesAreStored' /\ E!RaisedHasReviewer'
  <2>1. E!SuitesAreStored'
    BY <1>2, <1>4 DEF SuitesInv, E!SuitesAreStored
  <2>2. \A y \in derivedOnce: y # x => suite'[y] = suite[y]
    BY <1>t, <1>3
  <2> QED
    BY <1>2, <1>3, <2>1, <2>2 DEF SuitesInv, E!RaisedHasReviewer
<1>10. E!AuthoredScoresAreVouched' /\ E!ReleasesAreVouched'
  BY <1>2 DEF SuitesInv, E!AuthoredScoresAreVouched, E!ReleasesAreVouched
<1>11. E!MachineStaysStep
  BY <1>3 DEF E!MachineStaysStep
<1> QED
  BY <1>6, <1>7, <1>8, <1>9, <1>10, <1>11 DEF SuitesInv

LEMMA ReportStep ==
  ASSUME SuitesInv, NEW r \in Requests, E!CommitReport(r),
         NEW q \in E!RequestStates, q = suiteRequest[r]
  PROVE  SuitesInv' /\ E!MachineStaysStep
<1> DEFINE x == q.ref
           j == q.job
           s == job[j].skill
<1>t. /\ suite \in [Refs -> E!SuiteRows] /\ job \in [Jobs -> E!JobRows]
      /\ derivedOnce \subseteq Refs /\ score \subseteq Skills \X Refs \X BOOLEAN
      /\ released \subseteq Skills /\ vouched \subseteq Refs
  BY DEF SuitesInv, E!TypeOK
<1>1. /\ q.at = "report" /\ j \in Jobs /\ x \in Refs
      /\ q.named \in BOOLEAN /\ q.derived \in BOOLEAN /\ q.releases \in BOOLEAN
      /\ suite[x].live /\ job[j].at # "none" /\ s \in Skills
      /\ q.named => job[j].ref \in Refs
      /\ ~q.derived => q.named /\ x \in vouched
      /\ q.releases => ~q.derived
  <2>1. q.at = "report" /\ SuiteRequestOK(q)
    BY DEF SuitesInv, E!CommitReport
  <2> QED
    BY <1>t, <2>1, SuiteRequestType, JobRowType DEF SuiteRequestOK
<1>2. /\ suiteRequest' = [suiteRequest EXCEPT ![r] = E!Idle]
      /\ UNCHANGED <<made, archive, vouched>>
  BY DEF E!CommitReport, E!Ended
<1>3. CASE UNCHANGED <<suite, derivedOnce, job, score, released>>
  <2>1. E!Goto(r, E!Idle)
    BY <1>2 DEF E!Goto
  <2>2. archive' \subseteq Refs
    BY <1>2 DEF SuitesInv, E!TypeOK
  <2> QED
    BY <1>2, <1>3, <2>1, <2>2, RequestShapes, MoveOn
<1>4. CASE ~UNCHANGED <<suite, derivedOnce, job, score, released>>
  <2> DEFINE m == E!Measured(q)
             done == [job[j] EXCEPT !.at = "done", !.ref = m]
  <2>1. /\ suite' = IF q.named THEN suite ELSE E!Derived(suite, x, TRUE)
        /\ derivedOnce' = IF q.named THEN derivedOnce ELSE derivedOnce \cup {x}
        /\ job' = [job EXCEPT ![j] = done]
        /\ score' = score \cup {<<s, x, q.derived>>}
        /\ released' = IF q.releases THEN released \cup {s} ELSE released
    BY <1>4 DEF E!CommitReport
  <2>2. m \in Refs
    BY <1>1 DEF E!Measured
  <2>3. done \in E!JobRows /\ done.at = "done" /\ done.ref = m
    <3>1. job[j] \in FullJobs
      BY <1>t, <1>1, JobRowType
    <3> HIDE DEF m
    <3>2. done \in FullJobs /\ done.at = "done" /\ done.ref = m
      BY <2>2, <3>1 DEF FullJobs
    <3> QED
      BY <3>2, JobRowType
  <2>4. /\ job' \in [Jobs -> E!JobRows] /\ job'[j] = done
        /\ \A k \in Jobs \ {j}: job'[k] = job[k]
    <3> HIDE DEF done
    <3> QED
      BY <1>t, <1>1, <2>1, <2>3
  <2>5. suite[x] \in FullSuites
    BY <1>t, <1>1, SuiteRowType
  <2>6. /\ suite' \in [Refs -> E!SuiteRows] /\ suite'[x] \in FullSuites
        /\ \A y \in Refs \ {x}: suite'[y] = suite[y]
        /\ suite[x].machine => suite'[x].machine
        /\ q.named => suite' = suite
        /\ ~q.named => suite'[x].origin = "derived"
    <3>1. CASE q.named
      BY <1>t, <2>1, <2>5, <3>1
    <3>2. CASE ~q.named
      <4>1. suite' = E!Derived(suite, x, TRUE) /\ TRUE \in BOOLEAN
        BY <2>1, <3>2
      <4>2. /\ suite' \in [Refs -> E!SuiteRows] /\ suite'[x] \in FullSuites
            /\ suite'[x].origin = "derived" /\ (suite[x].machine => suite'[x].machine)
            /\ \A y \in Refs \ {x}: suite'[y] = suite[y]
        <5> HIDE DEF x
        <5>1. LET d == E!Derived(suite, x, TRUE) IN
              /\ d \in [Refs -> E!SuiteRows] /\ d[x] \in FullSuites
              /\ d[x].origin = "derived" /\ (suite[x].machine => d[x].machine)
              /\ \A y \in Refs \ {x}: d[y] = suite[y]
          BY <1>t, <1>1, <2>5, <4>1, MarkedDerived
        <5> QED
          BY <4>1, <5>1
      <4> QED
        BY <3>2, <4>2
    <3> QED
      BY <3>1, <3>2
  <2>7. \A y \in Refs: suite'[y].live <=> suite[y].live
    BY <1>1, <2>6, SuiteRowType
  <2>8. SuitesSteady
    <3> HIDE DEF done, m
    <3> QED
      BY <1>2, <2>2, <2>3, <2>4, <2>7 DEF SuitesSteady
  <2>9. /\ suiteRequest' \in [Requests -> E!RequestStates]
        /\ \A p \in Requests: SuiteRequestOK(suiteRequest[p])'
    BY <1>2, <2>8, RequestShapes, SuiteRequestsStay
  <2>10. E!TypeOK'
    <3>1. \A k \in Jobs: job'[k].at = "done" => job'[k].ref \in Refs
      <4> HIDE DEF done, m
      <4> QED
        BY <2>2, <2>3, <2>4 DEF SuitesInv, E!TypeOK
    <3>2. score' \subseteq Skills \X Refs \X BOOLEAN
      BY <1>t, <1>1, <2>1
    <3>3. released' \subseteq Skills /\ derivedOnce' \subseteq Refs
      BY <1>t, <1>1, <2>1
    <3> QED
      BY <1>2, <2>4, <2>6, <2>7, <2>9, <3>1, <3>2, <3>3 DEF SuitesInv, E!TypeOK
  <2>11. AuthoredIsVouched' /\ DerivedIsThere'
    <3>1. AuthoredIsVouched'
      <4> SUFFICES ASSUME NEW y \in Refs, suite'[y].live, suite'[y].origin = "authored"
                   PROVE  y \in vouched'
        BY DEF AuthoredIsVouched
      <4>1. suite'[y] = suite[y] /\ suite[y].live
        BY <2>6, <2>7
      <4> QED
        BY <1>2, <4>1 DEF SuitesInv, AuthoredIsVouched
    <3>2. DerivedIsThere'
      BY <1>t, <1>1, <2>1, <2>7 DEF SuitesInv, DerivedIsThere
    <3> QED
      BY <3>1, <3>2
  <2>12. E!SuitesAreStored'
    BY <1>2, <2>7 DEF SuitesInv, E!SuitesAreStored
  <2>13. E!RaisedHasReviewer'
    <3> SUFFICES ASSUME NEW y \in derivedOnce', suite'[y].origin = "authored"
                 PROVE  suite'[y].reviewed
      BY DEF E!RaisedHasReviewer
    <3>1. y \in derivedOnce
      BY <2>1, <2>6
    <3>2. suite'[y] = suite[y]
      BY <1>t, <2>6, <3>1
    <3> QED
      BY <3>1, <3>2 DEF SuitesInv, E!RaisedHasReviewer
  <2>14. E!AuthoredScoresAreVouched'
    <3> SUFFICES ASSUME NEW e \in score', ~e[3] PROVE e[2] \in vouched'
      BY DEF E!AuthoredScoresAreVouched
    <3>1. CASE e \in score
      BY <1>2, <3>1 DEF SuitesInv, E!AuthoredScoresAreVouched
    <3>2. CASE e = <<s, x, q.derived>>
      BY <1>1, <1>2, <3>2
    <3> QED
      BY <2>1, <3>1, <3>2
  <2>15. E!ReleasesAreVouched'
    <3> SUFFICES ASSUME NEW p \in released'
                 PROVE  \E y \in vouched': <<p, y, FALSE>> \in score'
      BY DEF E!ReleasesAreVouched
    <3>1. CASE p \in released
      BY <1>2, <2>1, <3>1 DEF SuitesInv, E!ReleasesAreVouched
    <3>2. CASE p \notin released
      <4>1. q.releases /\ p = s
        BY <2>1, <3>2
      <4>2. q.derived = FALSE /\ x \in vouched'
        BY <1>1, <1>2, <4>1
      <4>3. <<p, x, FALSE>> \in score'
        BY <2>1, <4>1, <4>2
      <4> QED
        BY <4>2, <4>3
    <3> QED
      BY <3>1, <3>2
  <2>16. E!MachineStaysStep
    BY <2>6 DEF E!MachineStaysStep
  <2> QED
    BY <2>9, <2>10, <2>11, <2>12, <2>13, <2>14, <2>15, <2>16 DEF SuitesInv
<1> QED
  BY <1>3, <1>4

LEMMA JobStep ==
  ASSUME SuitesInv, NEW j \in Jobs, E!ClaimAgain(j) \/ \E s \in Skills: E!Submit(j, s)
  PROVE  SuitesInv' /\ E!MachineStaysStep
<1>t. /\ job \in [Jobs -> E!JobRows] /\ suiteRequest \in [Requests -> E!RequestStates]
      /\ made \in Seq(Refs) /\ MaxClaims \in Nat \ {0}
  BY SuitesAssumption DEF SuitesInv, E!TypeOK
<1>1. UNCHANGED <<suite, made, archive, suiteRequest, score, released, vouched, derivedOnce>>
  BY DEF E!ClaimAgain, E!Submit
<1>2. PICK row \in FullJobs:
        /\ job' = [job EXCEPT ![j] = row] /\ row.at = "running"
        /\ job[j].at # "none" => row.ref = job[j].ref
  <2>1. CASE E!ClaimAgain(j)
    <3> DEFINE row == [job[j] EXCEPT !.claim = @ + 1]
    <3>1. job[j] \in FullJobs /\ job[j].at = "running" /\ job[j].claim + 1 \in 1..MaxClaims
      BY <1>t, <2>1, JobRowType DEF E!ClaimAgain
    <3>2. row \in FullJobs /\ row.at = "running" /\ row.ref = job[j].ref
      BY <3>1 DEF FullJobs
    <3>3. job' = [job EXCEPT ![j] = row]
      BY <2>1 DEF E!ClaimAgain
    <3> QED
      BY <3>2, <3>3
  <2>2. CASE \E s \in Skills: E!Submit(j, s)
    <3>1. PICK s \in Skills: E!Submit(j, s)
      BY <2>2
    <3>2. PICK x \in E!LatestForSkill(s) \cup E!Named(s):
            job' = [job EXCEPT ![j] = [at |-> "running", skill |-> s, ref |-> x, claim |-> 1]]
      BY <3>1 DEF E!Submit
    <3>3. x \in Refs \cup {NoRef}
      <4>1. \A i \in DOMAIN made: made[i] \in Refs
        BY <1>t
      <4> QED
        BY <4>1, <3>2 DEF E!LatestForSkill, E!OfSkill, E!Named
    <3> DEFINE row == [at |-> "running", skill |-> s, ref |-> x, claim |-> 1]
    <3>4. row \in FullJobs /\ row.at = "running"
      BY <1>t, <3>3 DEF FullJobs
    <3>5. job[j].at = "none"
      BY <3>1, JobRowType DEF E!Submit
    <3> QED
      BY <3>2, <3>4, <3>5
  <2> QED
    BY <2>1, <2>2
<1>3. /\ job' \in [Jobs -> E!JobRows] /\ job'[j] = row
      /\ \A k \in Jobs \ {j}: job'[k] = job[k]
  BY <1>t, <1>2, JobRowType
<1>4. SuitesSteady
  BY <1>1, <1>2, <1>3 DEF SuitesSteady
<1>5. \A p \in Requests: SuiteRequestOK(suiteRequest[p])'
  <2> SUFFICES ASSUME NEW p \in Requests PROVE SuiteRequestOK(suiteRequest[p])'
    OBVIOUS
  <2>1. suiteRequest[p] \in E!RequestStates /\ SuiteRequestOK(suiteRequest[p])
    BY <1>t DEF SuitesInv
  <2>2. PICK q \in E!RequestStates: q = suiteRequest[p] /\ SuiteRequestOK(q)
    BY <2>1
  <2>3. SuiteRequestOK(q)' /\ suiteRequest'[p] = q
    BY <1>1, <1>4, <2>2, SuiteRequestWaits
  <2> QED
    BY <2>3
<1>6. E!TypeOK'
  BY <1>1, <1>2, <1>3 DEF SuitesInv, E!TypeOK
<1> QED
  BY <1>1, <1>5, <1>6
     DEF SuitesInv, AuthoredIsVouched, DerivedIsThere, E!SuitesAreStored,
         E!RaisedHasReviewer, E!AuthoredScoresAreVouched, E!ReleasesAreVouched,
         E!MachineStaysStep

LEMMA PushStep ==
  ASSUME SuitesInv, NEW r \in Requests,
         \/ \E s \in Skills, x \in Refs, kind \in E!PushKinds: E!PushAuthored(r, s, x, kind)
         \/ \E j \in Jobs, c \in 1..MaxClaims, x \in Refs: E!PushDerived(r, j, c, x)
         \/ E!PushEdit(r)
  PROVE  SuitesInv' /\ E!MachineStaysStep
<1>t. /\ job \in [Jobs -> E!JobRows] /\ suiteRequest \in [Requests -> E!RequestStates]
      /\ archive \subseteq Refs
  BY DEF SuitesInv, E!TypeOK
<1>1. ASSUME NEW s \in Skills, NEW x \in Refs, NEW kind \in E!PushKinds,
             E!PushAuthored(r, s, x, kind)
      PROVE  SuitesInv' /\ E!MachineStaysStep
  <2> DEFINE q == [at |-> "stored", kind |-> kind, skill |-> s, ref |-> x]
  <2>1. q \in E!RequestStates
    BY DEF E!RequestStates, E!PushKinds
  <2>2. SuiteRequestOK(q)'
    BY <1>1 DEF SuiteRequestOK, E!PushAuthored, E!WriteArchive, E!PushKinds
  <2> QED
    BY <1>t, <1>1, <2>1, <2>2, MoveOn DEF E!PushAuthored, E!WriteArchive
<1>2. ASSUME NEW j \in Jobs, NEW c \in 1..MaxClaims, NEW x \in Refs, E!PushDerived(r, j, c, x)
      PROVE  SuitesInv' /\ E!MachineStaysStep
  <2>1. job[j] \in FullJobs
    BY <1>t, <1>2, JobRowType DEF E!PushDerived
  <2>2. PICK s \in Skills: s = job[j].skill
    BY <2>1, JobRowType
  <2> DEFINE q == [at |-> "stored", kind |-> "derived", skill |-> s, ref |-> x, job |-> j]
  <2>3. q \in E!RequestStates
    BY DEF E!RequestStates
  <2>4. SuiteRequestOK(q)'
    BY <1>2 DEF SuiteRequestOK, E!PushDerived, E!WriteArchive
  <2>5. E!Goto(r, q)
    BY <1>2, <2>2 DEF E!PushDerived
  <2> QED
    BY <1>t, <1>2, <2>3, <2>4, <2>5, MoveOn DEF E!PushDerived, E!WriteArchive
<1>3. ASSUME E!PushEdit(r) PROVE SuitesInv' /\ E!MachineStaysStep
  <2>1. PICK p \in E!RequestStates: p = suiteRequest[r]
    BY <1>t
  <2>2. p.at = "read"
    BY <1>3, <2>1 DEF E!PushEdit
  <2>3. p.skill \in Skills /\ p.edit \in Refs
    BY <2>2, SuiteRequestType
  <2> DEFINE q == [at |-> "stored", kind |-> "edit", skill |-> p.skill, ref |-> p.edit]
  <2>4. q \in E!RequestStates
    BY <2>3 DEF E!RequestStates
  <2>5. SuiteRequestOK(q)'
    BY <1>3, <2>1 DEF SuiteRequestOK, E!PushEdit, E!WriteArchive
  <2> QED
    BY <1>t, <1>3, <2>1, <2>3, <2>4, <2>5, MoveOn DEF E!PushEdit, E!WriteArchive
<1> QED
  BY <1>1, <1>2, <1>3

LEMMA ReadStep ==
  ASSUME SuitesInv, NEW r \in Requests,
         \/ \E x \in Refs, edit \in Refs \cup {NoRef}: E!ReadSuite(r, x, edit)
         \/ \E j \in Jobs, c \in 1..MaxClaims, x \in Refs, clears \in BOOLEAN:
              E!VerifyReport(r, j, c, x, clears)
         \/ E!AbandonMark(r)
  PROVE  SuitesInv' /\ E!MachineStaysStep
<1>t. /\ job \in [Jobs -> E!JobRows] /\ suite \in [Refs -> E!SuiteRows]
      /\ archive \subseteq Refs
  BY DEF SuitesInv, E!TypeOK
<1>1. ASSUME NEW x \in Refs, NEW edit \in Refs \cup {NoRef}, E!ReadSuite(r, x, edit)
      PROVE  SuitesInv' /\ E!MachineStaysStep
  <2>1. CASE edit = NoRef
    <3> DEFINE q == [at |-> "mark", ref |-> x]
    <3>1. q \in E!RequestStates /\ SuiteRequestOK(q)'
      BY <1>1, RequestShapes DEF SuiteRequestOK, E!ReadSuite
    <3> QED
      BY <1>t, <1>1, <2>1, <3>1, MoveOn DEF E!ReadSuite
  <2>2. CASE edit # NoRef
    <3>1. suite[x] \in FullSuites
      BY <1>t, <1>1, SuiteRowType DEF E!ReadSuite
    <3>2. PICK s \in Skills: s = suite[x].skill
      BY <3>1, SuiteRowType
    <3> DEFINE q == [at |-> "read", skill |-> s, ref |-> x, edit |-> edit]
    <3>3. q \in E!RequestStates
      BY <2>2 DEF E!RequestStates
    <3>4. SuiteRequestOK(q)'
      BY DEF SuiteRequestOK
    <3>5. E!Goto(r, q)
      BY <1>1, <2>2, <3>2 DEF E!ReadSuite
    <3> QED
      BY <1>t, <1>1, <3>3, <3>4, <3>5, MoveOn DEF E!ReadSuite
  <2> QED
    BY <2>1, <2>2
<1>2. ASSUME NEW j \in Jobs, NEW c \in 1..MaxClaims, NEW x \in Refs, NEW clears \in BOOLEAN,
             E!VerifyReport(r, j, c, x, clears)
      PROVE  SuitesInv' /\ E!MachineStaysStep
  <2>1. /\ job[j] \in FullJobs /\ job[j].at = "running" /\ job[j].ref \in Refs \cup {NoRef}
        /\ suite[x].live /\ suite[x] \in FullSuites
        /\ suite[x].origin \in {"authored", "derived"}
    BY <1>t, <1>2, JobRowType, SuiteRowType DEF E!VerifyReport, E!MayReport
  <2>2. /\ (job[j].ref # NoRef) \in BOOLEAN /\ E!IsDerived(j, x) \in BOOLEAN
        /\ E!Releases(j, x, clears) \in BOOLEAN
    BY DEF E!IsDerived, E!Releases
  <2>3. PICK isNamed \in BOOLEAN, derived \in BOOLEAN, releases \in BOOLEAN:
          /\ isNamed = (job[j].ref # NoRef) /\ derived = E!IsDerived(j, x)
          /\ releases = E!Releases(j, x, clears)
    BY <2>2
  <2>4. /\ isNamed => job[j].ref \in Refs
        /\ ~derived => isNamed /\ x \in vouched
        /\ releases => ~derived
    BY <2>1, <2>3 DEF E!IsDerived, E!Releases, SuitesInv, AuthoredIsVouched
  <2> DEFINE q == [at |-> "report", job |-> j, claim |-> c, ref |-> x, named |-> isNamed,
                   derived |-> derived, releases |-> releases]
  <2>5. q \in E!RequestStates
    BY DEF E!RequestStates
  <2>6. UNCHANGED <<suite, made, archive, job, score, released, vouched, derivedOnce>>
    BY <1>2 DEF E!VerifyReport
  <2>7. SuiteRequestOK(q)'
    BY <2>1, <2>4, <2>6 DEF SuiteRequestOK
  <2>8. E!Goto(r, q)
    BY <1>2, <2>3 DEF E!VerifyReport
  <2> QED
    BY <1>t, <2>5, <2>6, <2>7, <2>8, MoveOn
<1>3. ASSUME E!AbandonMark(r) PROVE SuitesInv' /\ E!MachineStaysStep
  BY <1>t, <1>3, RequestShapes, MoveOn DEF E!AbandonMark, E!Ended, E!Goto
<1> QED
  BY <1>1, <1>2, <1>3

LEMMA SuitesNext ==
  ASSUME SuitesInv, E!Next
  PROVE  SuitesInv' /\ E!MachineStaysStep
<1>1. ASSUME NEW r \in Requests, E!RecordSuite(r) \/ E!MarkAuthored(r) \/ E!CommitReport(r)
      PROVE  SuitesInv' /\ E!MachineStaysStep
  <2>1. PICK q \in E!RequestStates: q = suiteRequest[r]
    BY DEF SuitesInv, E!TypeOK
  <2> QED
    BY <1>1, <2>1, RecordStep, MarkStep, ReportStep
<1> QED
  BY <1>1, JobStep, PushStep, ReadStep DEF E!Next

LEMMA SuitesInit == E!Init => SuitesInv
<1> SUFFICES ASSUME E!Init PROVE SuitesInv
  OBVIOUS
<1>1. \A x \in Refs: ~suite[x].live
  BY SuiteRowType DEF E!Init
<1>2. \A j \in Jobs: job[j].at = "none"
  BY JobRowType DEF E!Init
<1>3. E!TypeOK
  BY <1>1, <1>2, RequestShapes
     DEF E!Init, E!TypeOK, E!SuiteRows, E!JobRows
<1>4. \A r \in Requests: SuiteRequestOK(suiteRequest[r])
  BY DEF E!Init, E!Idle, SuiteRequestOK
<1> QED
  BY <1>1, <1>3, <1>4
     DEF E!Init, SuitesInv, AuthoredIsVouched, DerivedIsThere, E!SuitesAreStored,
         E!RaisedHasReviewer, E!AuthoredScoresAreVouched, E!ReleasesAreVouched

LEMMA SuitesStutter == SuitesInv /\ UNCHANGED E!vars => SuitesInv' /\ E!MachineStaysStep
<1> SUFFICES ASSUME SuitesInv, UNCHANGED E!vars PROVE SuitesInv' /\ E!MachineStaysStep
  OBVIOUS
<1>1. SuitesSteady
  BY DEF E!vars, SuitesSteady
<1>2. \A p \in Requests: SuiteRequestOK(suiteRequest[p])'
  BY DEF E!vars, SuitesInv, SuiteRequestOK
<1>3. E!TypeOK'
  BY DEF E!vars, SuitesInv, E!TypeOK
<1> QED
  BY <1>2, <1>3
     DEF E!vars, SuitesInv, AuthoredIsVouched, DerivedIsThere, E!SuitesAreStored,
         E!RaisedHasReviewer, E!AuthoredScoresAreVouched, E!ReleasesAreVouched,
         E!MachineStaysStep

(* The invariant holds of every behaviour of the suites, for any number of   *)
(* contents, skills, jobs and requests in flight.                            *)
THEOREM SuitesInvariant == E!Spec => []SuitesInv
<1>1. SuitesInv /\ [E!Next]_(E!vars) => SuitesInv'
  BY SuitesNext, SuitesStutter
<1> QED
  BY SuitesInit, <1>1, PTL DEF E!Spec

(* A score releases a held version, or counts as authored, only against a    *)
(* suite that somebody wrote or read; a derived one rises only by a review;  *)
(* and each has its archive (evalsuite/routes.go:145-148,                    *)
(* registry.go:182-190).                                                     *)
THEOREM SuitesStayVouched == E!Spec => []SuitesAreVouched
<1>1. SuitesInv => SuitesAreVouched
  BY DEF SuitesInv, SuitesAreVouched
<1> QED
  BY SuitesInvariant, <1>1, PTL

(* No push takes back that a worker generated a content                      *)
(* (registry.go:284-290).                                                    *)
THEOREM MachineNeverForgotten == E!Spec => MachineStays
<1>1. SuitesInv /\ [E!Next]_(E!vars) => (part = "suites" => E!MachineStaysStep)
  BY SuitesNext, SuitesStutter
<1> QED
  BY SuitesInvariant, <1>1, PTL DEF E!Spec, MachineStays

(* What the two parts keep holds of every behaviour of the registry, whose   *)
(* steps are steps of one of its parts.                                      *)
THEOREM RegistryHolds ==
  MCSpec => [](AccountsHold /\ SuitesAreVouched) /\ OwnersStay /\ MachineStays
<1>1. MCInit => Init /\ E!Init
  BY DEF MCInit
<1>2. [MCNext]_all => [Next]_vars /\ [E!Next]_(E!vars)
  BY DEF MCNext, Members, Suites, Ledger, all, eVars, E!vars
<1>3. MCSpec => Spec /\ E!Spec
  BY <1>1, <1>2, PTL DEF MCSpec, Spec, E!Spec
<1> QED
  BY <1>3, AccountsKeep, OwnersRemain, SuitesStayVouched, MachineNeverForgotten, PTL

-----------------------------------------------------------------------------
(* Imports.  What a request is, and what a version is.                       *)
ImportSteps == {"idle", "chosen", "next", "decide", "row", "write", "insert", "source",
                "claim", "report", "done"}
AtWork      == {"decide", "row", "write", "insert", "source", "claim", "report"}
Inserted    == {"source", "claim", "report"}
Spots       == 1 .. Len(Folders)

ImportRec  == [at : ImportSteps, kind : {"none", "url", "local"}, ns : {"none", plugin},
               commit : {0} \cup DOMAIN Tree, todo : Seq(Spots), was : SUBSET Nat,
               unowned : BOOLEAN, held : BOOLEAN, new : BOOLEAN, id : Nat, v : Nat,
               imported : SUBSET [name : I!Names, id : Nat, v : Nat],
               failed : SUBSET I!Names, exit : {"none", "0", "1"}]
Contents   == {Tree[c][Folders[i]] : c \in DOMAIN Tree, i \in Spots}
VersionRec == [name : I!Names, id : Nat, v : Nat, content : Contents, held : BOOLEAN, by : Callers]

ImportTypes ==
  /\ head \in DOMAIN Tree /\ ids \in 0 .. MaxId
  /\ skill \in [I!Names -> [id : 0 .. MaxId, text : Contents \cup {"none"}, latest : Nat]]
  /\ version \subseteq VersionRec /\ source \in [1 .. MaxId -> {0} \cup DOMAIN Tree]
  /\ rule \in [I!Names -> Callers \cup {"none", "someone"}] /\ bound \subseteq I!Names
  /\ req \in [Callers -> ImportRec]

(* Rows have ids of their own, that no later row gets.                       *)
RowsApart ==
  /\ \A n \in I!Names : skill[n].id <= ids
  /\ \A n, m \in I!Names : skill[n].id = skill[m].id /\ skill[n].id # 0 => n = m
  /\ \A n \in bound : skill[n].id # 0
  /\ \A w \in version : w.id \in 1 .. ids
  /\ \A i \in 1 .. MaxId : source[i] # 0 => i <= ids
  /\ \E b \in Nat : \A w \in version : w.v <= b

(* The i-th skill a request has yet to bring in, and the text of the first.  *)
Nth(q, i) == <<q.ns, Folders[q.todo[i]]>>
Text(q)   == Tree[q.commit][Folders[q.todo[1]]]
Stored(n, id, v, text) ==
  skill[n].id = id => \E w \in version : w.id = id /\ w.v = v /\ w.content = text

(* What a request under way has found: by itself, of rows, and of versions.  *)
AskOK(q) ==
  /\ q.at # "idle" => q.commit \in DOMAIN Tree
  /\ \A i, j \in 1 .. Len(q.todo) : q.todo[i] = q.todo[j] => i = j
  /\ q.at \in AtWork => q.todo # << >>
  /\ q.at \in {"idle", "chosen"} => q.imported = {} /\ q.failed = {} /\ q.was = {}
  /\ q.at \in {"row", "write", "insert"} =>
       Scan[Text(q)] # "block" /\ (~q.held => Scan[Text(q)] = "clean")
  /\ \A i \in 1 .. Len(q.todo) : Nth(q, i) \notin q.failed

FoundOK(q) ==
  /\ q.was \subseteq 1 .. ids /\ \A n \in I!Names : skill[n].id \in q.was => n \in bound
  /\ q.at \in {"decide", "row"} => skill[Nth(q, 1)].id \notin q.was
  /\ q.at \in {"write", "insert"} => q.id \in 1 .. ids /\ q.id \notin q.was
  /\ q.at \in Inserted => q.id \in 1 .. ids /\ Stored(Nth(q, 1), q.id, q.v, Text(q))
  /\ \A m \in q.imported :
       m.id \in 1 .. ids /\ Stored(m.name, m.id, m.v, Tree[q.commit][m.name[2]])

AddedOK(r, q) ==
  \A w \in version : w.by = r =>
    /\ q.at \notin {"idle", "chosen"} /\ w.name \notin q.failed /\ w.id \notin q.was
    /\ \A i \in 1 .. Len(q.todo) : w.name = Nth(q, i) => i = 1 /\ q.at \in Inserted

ImportsInv ==
  /\ ImportTypes /\ RowsApart /\ I!HeldStaysHidden /\ I!SourceIsAVersions
  /\ \A r \in Callers : AskOK(req[r]) /\ FoundOK(req[r]) /\ AddedOK(r, req[r])

-----------------------------------------------------------------------------
(* A bounded set of numbers has a greatest member.                           *)
Under == {p \in Nat \X Nat : p[1] < p[2]}

LEMMA LeastOne ==
  ASSUME NEW G \in SUBSET Nat, G # {}
  PROVE  \E u \in G : \A v \in G : u <= v
<1>1. IsWellFoundedOn(Under, Nat)
  <2>1. Under = OpToRel(<, Nat)
    BY DEF Under, OpToRel
  <2>. QED BY <2>1, NatLessThanWellFounded, Zenon DEF OpToRel, Under
<1>. QED
  <2>. HIDE DEF Under
  <2>1. PICK x \in G : \A y \in G : ~ (<<y, x>> \in Under)
    BY <1>1, WFMin
  <2>2. \A y \in G : ~ (y < x)
    BY <2>1 DEF Under
  <2>. QED BY <2>2

LEMMA GreatestOne ==
  ASSUME NEW G \in SUBSET Nat, G # {}, NEW b \in Nat, \A x \in G : x <= b
  PROVE  I!Max(G) \in G /\ \A y \in G : y <= I!Max(G)
<1>1. PICK u \in {b - x : x \in G} : \A v \in {b - x : x \in G} : u <= v
  <2>1. \A x \in G : b - x \in Nat OBVIOUS
  <2>2. {b - x : x \in G} \in SUBSET Nat /\ {b - x : x \in G} # {} BY <2>1
  <2>. QED BY <2>2, LeastOne
<1>2. PICK g \in G : u = b - g BY <1>1
<1>3. \A y \in G : g >= y
  <2>1. TAKE y \in G
  <2>2. b - g <= b - y BY <1>1, <1>2
  <2>. QED BY <2>2
<1>. QED BY <1>3 DEF I!Max

LEMMA NumbersGrow ==
  ASSUME ImportTypes, RowsApart, NEW id
  PROVE  /\ I!Highest(id) \in Nat
         /\ \A n \in Nat : \E b \in Nat : n <= b /\ \A w \in version : w.v <= b
<1>1. PICK b \in Nat : \A w \in version : w.v <= b
  BY DEF RowsApart
<1>. DEFINE G == {0} \cup {v.v : v \in {w \in version : w.id = id}}
<1>2. G \in SUBSET Nat /\ G # {} /\ \A x \in G : x <= b
  BY <1>1 DEF ImportTypes, VersionRec
<1>3. I!Max(G) \in Nat
  <2>. HIDE DEF G
  <2>. QED BY <1>2, GreatestOne
<1>4. ASSUME NEW n \in Nat PROVE \E c \in Nat : n <= c /\ \A w \in version : w.v <= c
  <2>1. n + b \in Nat /\ n <= n + b /\ \A w \in version : w.v <= n + b
    BY <1>1 DEF ImportTypes, VersionRec
  <2>. QED BY <2>1
<1>. QED BY <1>3, <1>4 DEF I!Highest

-----------------------------------------------------------------------------
(* A folder's names, and what a request's next folders are called.           *)
LEMMA NamesOK ==
  ASSUME NEW q \in ImportRec
  PROVE  /\ \A i \in 1 .. Len(q.todo) : Nth(q, i) \in I!Names /\ q.todo[i] \in Spots
         /\ Nth(q, 1)[2] = Folders[q.todo[1]] /\ Len(q.todo) \in Nat
         /\ q.todo # << >> => 1 \in 1 .. Len(q.todo) /\ Head(q.todo) = q.todo[1]
                              /\ Len(Tail(q.todo)) = Len(q.todo) - 1
                              /\ Tail(q.todo) \in Seq(Spots)
                              /\ \A i \in 1 .. Len(q.todo) - 1 : Tail(q.todo)[i] = q.todo[i + 1]
<1>1. q.todo \in Seq(Spots) /\ q.ns \in {"none", plugin} /\ Len(Folders) \in Nat
  BY ImportsAssumption DEF ImportRec
<1>2. \A i \in 1 .. Len(q.todo) : q.todo[i] \in Spots
  BY <1>1
<1>3. \A i \in 1 .. Len(q.todo) : Nth(q, i) \in I!Names
  BY <1>1, <1>2 DEF Nth, I!Names, I!None, Spots
<1>. QED BY <1>1, <1>2, <1>3 DEF Nth

LEMMA NamesDiffer ==
  ASSUME NEW q \in ImportRec, AskOK(q), NEW i \in 1 .. Len(q.todo), NEW j \in 1 .. Len(q.todo),
         Nth(q, i) = Nth(q, j)
  PROVE  i = j
<1>1. q.todo[i] \in Spots /\ q.todo[j] \in Spots BY NamesOK
<1>2. Folders[q.todo[i]] = Folders[q.todo[j]] BY DEF Nth
<1>3. q.todo[i] = q.todo[j] BY <1>1, <1>2, ImportsAssumption DEF Spots
<1>. QED BY <1>3 DEF AskOK

(* A request stays one whatever a step sets in it.                           *)
LEMMA RecordsStay ==
  ASSUME NEW q \in ImportRec, NEW a \in ImportSteps
  PROVE  /\ [q EXCEPT !.at = a] \in ImportRec
         /\ \A c \in {0} \cup DOMAIN Tree, w \in Seq(Spots), k \in {"none", "url", "local"} :
              /\ [q EXCEPT !.at = a, !.kind = k, !.commit = c, !.todo = w] \in ImportRec
              /\ \A m \in {"none", plugin} :
                   [q EXCEPT !.at = a, !.kind = k, !.ns = m, !.commit = c, !.todo = w] \in ImportRec
         /\ \A g \in SUBSET Nat : [q EXCEPT !.at = a, !.was = g] \in ImportRec
         /\ \A u, h \in BOOLEAN : [q EXCEPT !.at = a, !.unowned = u, !.held = h] \in ImportRec
         /\ \A i \in Nat : /\ [q EXCEPT !.at = a, !.v = i] \in ImportRec
                           /\ \A n \in BOOLEAN : [q EXCEPT !.at = a, !.new = n, !.id = i] \in ImportRec
                           /\ \A j \in Nat : [q EXCEPT !.at = a, !.id = i, !.v = j] \in ImportRec
         /\ \A w \in Seq(Spots), m \in [name : I!Names, id : Nat, v : Nat] :
              [q EXCEPT !.at = a, !.todo = w, !.imported = @ \cup {m}] \in ImportRec
         /\ \A e \in {"none", "0", "1"} : [q EXCEPT !.at = a, !.exit = e] \in ImportRec
<1>1. [q EXCEPT !.at = a] \in ImportRec
  BY DEF ImportRec
<1>2. ASSUME NEW c \in {0} \cup DOMAIN Tree, NEW w \in Seq(Spots), NEW k \in {"none", "url", "local"}
      PROVE  /\ [q EXCEPT !.at = a, !.kind = k, !.commit = c, !.todo = w] \in ImportRec
             /\ \A m \in {"none", plugin} :
                   [q EXCEPT !.at = a, !.kind = k, !.ns = m, !.commit = c, !.todo = w] \in ImportRec
  <2>1. [q EXCEPT !.at = a, !.kind = k, !.commit = c, !.todo = w] \in ImportRec BY DEF ImportRec
  <2>2. ASSUME NEW m \in {"none", plugin}
        PROVE  [q EXCEPT !.at = a, !.kind = k, !.ns = m, !.commit = c, !.todo = w] \in ImportRec
    BY DEF ImportRec
  <2>. QED BY <2>1, <2>2
<1>3. ASSUME NEW g \in SUBSET Nat PROVE [q EXCEPT !.at = a, !.was = g] \in ImportRec
  BY DEF ImportRec
<1>4. ASSUME NEW u \in BOOLEAN, NEW h \in BOOLEAN PROVE [q EXCEPT !.at = a, !.unowned = u, !.held = h] \in ImportRec
  BY DEF ImportRec
<1>5. ASSUME NEW i \in Nat PROVE [q EXCEPT !.at = a, !.v = i] \in ImportRec
  BY DEF ImportRec
<1>6. ASSUME NEW i \in Nat, NEW n \in BOOLEAN PROVE [q EXCEPT !.at = a, !.new = n, !.id = i] \in ImportRec
  BY DEF ImportRec
<1>7. ASSUME NEW i \in Nat, NEW j \in Nat PROVE [q EXCEPT !.at = a, !.id = i, !.v = j] \in ImportRec
  BY DEF ImportRec
<1>8. ASSUME NEW w \in Seq(Spots), NEW m \in [name : I!Names, id : Nat, v : Nat]
      PROVE  [q EXCEPT !.at = a, !.todo = w, !.imported = @ \cup {m}] \in ImportRec
  BY DEF ImportRec
<1>9. ASSUME NEW e \in {"none", "0", "1"} PROVE [q EXCEPT !.at = a, !.exit = e] \in ImportRec
  BY DEF ImportRec
<1>. QED BY <1>1, <1>2, <1>3, <1>4, <1>5, <1>6, <1>7, <1>8, <1>9

-----------------------------------------------------------------------------
(* A step that takes rows, versions and connections no further than r may.   *)
Evolves(r) ==
  /\ ids <= ids'
  /\ \A n \in I!Names : skill'[n].id \in {0, skill[n].id} \/ skill'[n].id > ids
  /\ \A w \in version : w \in version' \/ \A n \in I!Names : skill'[n].id # w.id
  /\ \A w \in version' : w \in version \/ w.by = r
  /\ \A n \in bound : n \in bound' \/ skill'[n].id = 0

LEMMA StoredStays ==
  ASSUME ImportTypes, ImportTypes', NEW r, Evolves(r), NEW n \in I!Names, NEW id \in 1 .. ids,
         NEW v, NEW text, Stored(n, id, v, text)
  PROVE  Stored(n, id, v, text)' /\ id \in 1 .. ids'
<1>1. skill[n].id \in Nat /\ skill'[n].id \in Nat /\ ids \in Nat /\ ids' \in Nat
  BY ImportsAssumption DEF ImportTypes
<1>2. id \in 1 .. ids' BY <1>1 DEF Evolves
<1>3. Stored(n, id, v, text)'
  <2> SUFFICES ASSUME skill'[n].id = id
               PROVE  \E w \in version' : w.id = id /\ w.v = v /\ w.content = text
    BY DEF Stored
  <2>1. skill[n].id = id BY <1>1 DEF Evolves
  <2>2. PICK w \in version : w.id = id /\ w.v = v /\ w.content = text
    BY <2>1 DEF Stored
  <2>3. w \in version' BY <2>2 DEF Evolves
  <2>. QED BY <2>2, <2>3
<1>. QED BY <1>2, <1>3

LEMMA FoundStays ==
  ASSUME ImportTypes, ImportTypes', NEW r, Evolves(r), NEW q \in ImportRec, AskOK(q), FoundOK(q)
  PROVE  FoundOK(q)'
<1>1. \A n \in I!Names : skill[n].id \in Nat /\ skill'[n].id \in Nat
  BY ImportsAssumption DEF ImportTypes
<1>2. ids \in Nat /\ ids' \in Nat /\ ids <= ids'
  BY ImportsAssumption DEF ImportTypes, Evolves
<1>3. q.was \subseteq 1 .. ids BY DEF FoundOK
<1>4. q.was \subseteq 1 .. ids' BY <1>2, <1>3
<1>5. ASSUME NEW n \in I!Names, skill'[n].id \in q.was PROVE skill[n].id \in q.was /\ n \in bound'
  <2>1. skill'[n].id # 0 /\ ~ (skill'[n].id > ids) BY <1>1, <1>2, <1>3, <1>5
  <2>2. skill'[n].id = skill[n].id BY <2>1 DEF Evolves
  <2>3. n \in bound BY <1>5, <2>2 DEF FoundOK
  <2>. QED BY <1>5, <2>1, <2>2, <2>3 DEF Evolves
<1>6. q.at \in AtWork => Nth(q, 1) \in I!Names
  BY NamesOK DEF AskOK
<1>7. q.at \in {"decide", "row"} => skill'[Nth(q, 1)].id \notin q.was
  BY <1>5, <1>6 DEF FoundOK, AtWork
<1>8. q.at \in {"write", "insert"} => q.id \in 1 .. ids' /\ q.id \notin q.was
  BY <1>2 DEF FoundOK
<1>9. q.at \in Inserted => q.id \in 1 .. ids' /\ Stored(Nth(q, 1), q.id, q.v, Text(q))'
  <2> SUFFICES ASSUME q.at \in Inserted PROVE q.id \in 1 .. ids' /\ Stored(Nth(q, 1), q.id, q.v, Text(q))'
    OBVIOUS
  <2>1. Nth(q, 1) \in I!Names BY <1>6 DEF Inserted, AtWork
  <2>2. q.id \in 1 .. ids /\ Stored(Nth(q, 1), q.id, q.v, Text(q)) BY DEF FoundOK
  <2>. QED BY <2>1, <2>2, StoredStays DEF Text, Nth
<1>10. ASSUME NEW m \in q.imported
       PROVE  m.id \in 1 .. ids' /\ Stored(m.name, m.id, m.v, Tree[q.commit][m.name[2]])'
  <2>1. m.name \in I!Names BY DEF ImportRec
  <2>2. m.id \in 1 .. ids /\ Stored(m.name, m.id, m.v, Tree[q.commit][m.name[2]]) BY DEF FoundOK
  <2>. QED BY <2>1, <2>2, StoredStays
<1>11. \A n \in I!Names : skill'[n].id \in q.was => n \in bound' BY <1>5
<1>. QED BY <1>4, <1>7, <1>8, <1>9, <1>10, <1>11 DEF FoundOK

(* A step of one request, that leaves it as q.                               *)
LEMMA RequestStepKeeps ==
  ASSUME ImportsInv, NEW r \in Callers, Evolves(r), ImportTypes', RowsApart',
         I!HeldStaysHidden', I!SourceIsAVersions',
         \A s \in Callers : s # r => req'[s] = req[s],
         NEW q, req'[r] = q, AskOK(q), FoundOK(q)', AddedOK(r, q)'
  PROVE  ImportsInv'
<1>1. ASSUME NEW s \in Callers, s # r
      PROVE  AskOK(req[s])' /\ FoundOK(req[s])' /\ AddedOK(s, req[s])'
  <2>1. PICK o : o = req[s] OBVIOUS
  <2>2. req'[s] = o BY <1>1, <2>1
  <2>3. o \in ImportRec BY <2>1 DEF ImportsInv, ImportTypes
  <2>4. AskOK(o) /\ FoundOK(o) /\ AddedOK(s, o) BY <2>1 DEF ImportsInv
  <2>5. FoundOK(o)'
    BY <2>3, <2>4, FoundStays DEF ImportsInv
  <2>6. AddedOK(s, o)'
    <3> SUFFICES ASSUME NEW w \in version', w.by = s
                 PROVE  /\ o.at \notin {"idle", "chosen"} /\ w.name \notin o.failed /\ w.id \notin o.was
                        /\ \A i \in 1 .. Len(o.todo) : w.name = Nth(o, i) => i = 1 /\ o.at \in Inserted
      BY DEF AddedOK, Nth
    <3>1. w \in version BY <1>1 DEF Evolves
    <3>. QED BY <2>4, <3>1 DEF AddedOK
  <2>7. AskOK(o)' BY <2>4 DEF AskOK, Nth, Text
  <2>. QED BY <2>2, <2>5, <2>6, <2>7 DEF AskOK, FoundOK, AddedOK, Nth, Text, Stored
<1>2. AskOK(req[r])' /\ FoundOK(req[r])' /\ AddedOK(r, req[r])'
  BY DEF AskOK, FoundOK, AddedOK, Nth, Text, Stored
<1>. QED BY <1>1, <1>2 DEF ImportsInv

(* One that leaves rows and versions alone.                                  *)
LEMMA QuietRequestKeeps ==
  ASSUME ImportsInv, NEW r \in Callers, UNCHANGED <<head, skill, version, source, bound, ids>>,
         rule' \in [I!Names -> Callers \cup {"none", "someone"}], req' \in [Callers -> ImportRec],
         \A s \in Callers : s # r => req'[s] = req[s],
         NEW q, req'[r] = q, AskOK(q), FoundOK(q), AddedOK(r, q)
  PROVE  ImportsInv'
<1>1. ImportTypes' /\ RowsApart' /\ I!HeldStaysHidden' /\ I!SourceIsAVersions'
  BY DEF ImportsInv, ImportTypes, RowsApart, I!HeldStaysHidden, I!SourceIsAVersions
<1>2. Evolves(r) BY ImportsAssumption DEF Evolves, ImportsInv, ImportTypes
<1>3. FoundOK(q)' /\ AddedOK(r, q)'
  BY DEF FoundOK, AddedOK, Nth, Text, Stored
<1>. QED BY <1>1, <1>2, <1>3, RequestStepKeeps

(* A request that goes on with its first folder.                             *)
Same(q, o) ==
  /\ o.ns = q.ns /\ o.commit = q.commit /\ o.todo = q.todo /\ o.was = q.was
  /\ o.imported = q.imported /\ o.failed = q.failed

LEMMA GoesOn ==
  ASSUME NEW r, NEW q \in ImportRec, AskOK(q), FoundOK(q), AddedOK(r, q),
         NEW o \in ImportRec, Same(q, o), q.at \notin {"idle", "chosen"}, q.todo # << >>,
         o.at \in AtWork, q.at \in Inserted => o.at \in Inserted,
         o.at \in {"row", "write", "insert"} =>
           Scan[Text(q)] # "block" /\ (~o.held => Scan[Text(q)] = "clean"),
         o.at \in {"decide", "row"} => skill[Nth(q, 1)].id \notin q.was,
         o.at \in {"write", "insert"} => o.id \in 1 .. ids /\ o.id \notin q.was,
         o.at \in Inserted => o.id \in 1 .. ids /\ Stored(Nth(q, 1), o.id, o.v, Text(q))
  PROVE  AskOK(o) /\ FoundOK(o) /\ AddedOK(r, o)
<1>1. Text(o) = Text(q) /\ \A i : Nth(o, i) = Nth(q, i)
  BY DEF Same, Text, Nth
<1>2. AskOK(o)
  BY <1>1 DEF AskOK, Same, AtWork
<1>3. FoundOK(o)
  BY <1>1 DEF FoundOK, Same
<1>4. AddedOK(r, o)
  BY <1>1 DEF AddedOK, Same, AtWork
<1>. QED BY <1>2, <1>3, <1>4

(* One that is done with it.                                                 *)
LEMMA DropsOne ==
  ASSUME NEW r, NEW q \in ImportRec, AskOK(q), FoundOK(q), AddedOK(r, q),
         NEW o \in ImportRec, q.at \notin {"idle", "chosen"}, q.todo # << >>,
         o.at = "next", o.ns = q.ns, o.commit = q.commit, o.todo = Tail(q.todo), o.was = q.was,
         \/ o.failed = q.failed \cup {Nth(q, 1)} /\ o.imported = q.imported /\ q.at \notin Inserted
         \/ /\ o.failed = q.failed /\ q.at \in Inserted
            /\ \E m \in o.imported : /\ o.imported = q.imported \cup {m}
                                     /\ m.name = Nth(q, 1) /\ m.id = q.id /\ m.v = q.v
  PROVE  AskOK(o) /\ FoundOK(o) /\ AddedOK(r, o)
<1>1. PICK k \in Nat : Len(q.todo) = k + 1 /\ Len(o.todo) = k
  <2>1. Len(q.todo) \in Nat /\ 1 \in 1 .. Len(q.todo) /\ Len(o.todo) = Len(q.todo) - 1
    BY NamesOK
  <2>2. Len(q.todo) - 1 \in Nat /\ Len(q.todo) = (Len(q.todo) - 1) + 1 BY <2>1
  <2>. QED BY <2>1, <2>2
<1>2. \A i \in 1 .. k : /\ i + 1 \in 1 .. k + 1 /\ i + 1 # 1 /\ o.todo[i] = q.todo[i + 1]
                        /\ Nth(o, i) = Nth(q, i + 1)
  BY <1>1, NamesOK DEF Nth
<1>3. \A i \in 1 .. k : Nth(o, i) # Nth(q, 1)
  <2>1. 1 \in 1 .. k + 1 BY <1>1
  <2>. QED BY <1>1, <1>2, <2>1, NamesDiffer
<1>4. \A i \in 1 .. k : Nth(o, i) \notin o.failed
  BY <1>1, <1>2, <1>3 DEF AskOK
<1>5. \A i, j \in 1 .. k : o.todo[i] = o.todo[j] => i = j
  <2> SUFFICES ASSUME NEW i \in 1 .. k, NEW j \in 1 .. k, o.todo[i] = o.todo[j] PROVE i = j
    OBVIOUS
  <2>1. q.todo[i + 1] = q.todo[j + 1] BY <1>2
  <2>2. i + 1 = j + 1 BY <1>1, <1>2, <2>1 DEF AskOK
  <2>. QED BY <2>2
<1>6. AskOK(o)
  BY <1>1, <1>4, <1>5 DEF AskOK, AtWork
<1>7. FoundOK(o)
  <2>1. \A m \in q.imported :
          m.id \in 1 .. ids /\ Stored(m.name, m.id, m.v, Tree[o.commit][m.name[2]])
    BY DEF FoundOK
  <2>2. Nth(q, 1)[2] = Folders[q.todo[1]] BY NamesOK
  <2>3. \A m \in o.imported :
          m.id \in 1 .. ids /\ Stored(m.name, m.id, m.v, Tree[o.commit][m.name[2]])
    BY <2>1, <2>2 DEF FoundOK, Text
  <2>. QED BY <2>3 DEF FoundOK, Inserted
<1>8. AddedOK(r, o)
  <2> SUFFICES ASSUME NEW w \in version, w.by = r
               PROVE  w.name \notin o.failed /\ \A i \in 1 .. k : w.name # Nth(o, i)
    BY <1>1 DEF AddedOK
  <2>1. \A i \in 1 .. k + 1 : w.name = Nth(q, i) => i = 1 /\ q.at \in Inserted
    BY <1>1 DEF AddedOK
  <2>2. \A i \in 1 .. k : w.name # Nth(o, i) BY <1>2, <2>1
  <2>3. 1 \in 1 .. k + 1 BY <1>1
  <2>4. w.name \notin o.failed BY <2>1, <2>3 DEF AddedOK
  <2>. QED BY <2>2, <2>4
<1>. QED BY <1>6, <1>7, <1>8

-----------------------------------------------------------------------------
(* The actions of a request.                                                 *)
Quietly(r) ==
  /\ UNCHANGED <<head, skill, version, source, bound, ids>>
  /\ req' \in [Callers -> ImportRec] /\ \A s \in Callers : s # r => req'[s] = req[s]

LEMMA BeginsRequest ==
  ASSUME ImportsInv, NEW r \in Callers,
         NEW todo \in I!Selections, NEW ns \in {"none", plugin}, I!Pack(r, todo) \/ I!Resolve(r, ns, todo)
  PROVE  ImportsInv'
<1>1. todo \in Seq(Spots) /\ \A i, j \in 1 .. Len(todo) : todo[i] = todo[j] => i = j
  <2>1. CASE todo \in {<<i>> : i \in 1 .. Len(Folders)} BY <2>1 DEF Spots
  <2>2. CASE todo = [i \in 1 .. Len(Folders) |-> i] BY <2>2, ImportsAssumption DEF Spots
  <2>. QED BY <2>1, <2>2 DEF I!Selections
<1>2. req \in [Callers -> ImportRec] /\ head \in DOMAIN Tree
  BY DEF ImportsInv, ImportTypes
<1>3. Quietly(r)
  <2>1. CASE I!Pack(r, todo)
    <3>1. PICK h : h = head OBVIOUS
    <3>2. req' = [req EXCEPT ![r].at = "chosen", ![r].kind = "local", ![r].commit = h, ![r].todo = todo]
      BY <2>1, <3>1 DEF I!Pack
    <3>3. h \in {0} \cup DOMAIN Tree BY <1>2, <3>1
    <3>4. [req[r] EXCEPT !.at = "chosen", !.kind = "local", !.commit = h, !.todo = todo] \in ImportRec
      <4>1. req[r] \in ImportRec /\ "chosen" \in ImportSteps BY <1>2 DEF ImportSteps
      <4>. QED BY <1>1, <3>3, <4>1, RecordsStay
    <3>5. req' \in [Callers -> ImportRec]
      BY <1>2, <3>2, <3>4
    <3>. QED BY <1>2, <2>1, <3>5 DEF Quietly, I!Pack
  <2>2. CASE I!Resolve(r, ns, todo)
    <3>1. PICK h : h = head OBVIOUS
    <3>2. req' = [req EXCEPT ![r].at = "chosen", ![r].kind = "url", ![r].ns = ns,
                             ![r].commit = h, ![r].todo = todo]
      BY <2>2, <3>1 DEF I!Resolve
    <3>3. h \in {0} \cup DOMAIN Tree BY <1>2, <3>1
    <3>4. [req[r] EXCEPT !.at = "chosen", !.kind = "url", !.ns = ns, !.commit = h, !.todo = todo] \in ImportRec
      <4>1. req[r] \in ImportRec /\ "chosen" \in ImportSteps BY <1>2 DEF ImportSteps
      <4>. QED BY <1>1, <3>3, <4>1, RecordsStay
    <3>5. req' \in [Callers -> ImportRec]
      BY <1>2, <3>2, <3>4
    <3>. QED BY <1>2, <2>2, <3>5 DEF Quietly, I!Resolve
  <2>. QED BY <2>1, <2>2
<1>4. PICK q, o : q = req[r] /\ o = req'[r]
  OBVIOUS
<1>5. /\ o.at = "chosen" /\ o.todo = todo /\ o.commit \in DOMAIN Tree /\ q.at = "idle"
      /\ o.imported = q.imported /\ o.failed = q.failed /\ o.was = q.was
  BY <1>2, <1>4 DEF I!Pack, I!Resolve, ImportRec
<1>6. AskOK(q) /\ FoundOK(q) /\ AddedOK(r, q) /\ rule' = rule
  BY <1>4 DEF ImportsInv, I!Pack, I!Resolve
<1>7. AskOK(o) BY <1>1, <1>5, <1>6 DEF AskOK, AtWork
<1>8. FoundOK(o) BY <1>5, <1>6 DEF FoundOK, AskOK, Inserted
<1>9. AddedOK(r, o) BY <1>5, <1>6 DEF AddedOK
<1>10. rule' \in [I!Names -> Callers \cup {"none", "someone"}]
  BY <1>6 DEF ImportsInv, ImportTypes
<1>. QED BY <1>3, <1>4, <1>7, <1>8, <1>9, <1>10, QuietRequestKeeps DEF Quietly

LEMMA StartsWork ==
  ASSUME ImportsInv, NEW r \in Callers, I!BeginImport(r) \/ I!BeginUpload(r) PROVE ImportsInv'
<1>1. req \in [Callers -> ImportRec] /\ bound \subseteq I!Names /\ skill \in [I!Names -> [id : 0 .. MaxId, text : Contents \cup {"none"}, latest : Nat]]
  BY DEF ImportsInv, ImportTypes
<1>2. I!GitBound \subseteq 1 .. ids /\ I!GitBound \subseteq Nat
  <2>1. \A n \in bound : skill[n].id \in Nat /\ skill[n].id # 0 /\ skill[n].id <= ids
    BY <1>1, ImportsAssumption DEF ImportsInv, RowsApart
  <2>2. ids \in Nat BY ImportsAssumption DEF ImportsInv, ImportTypes
  <2>. QED BY <2>1, <2>2 DEF I!GitBound
<1>3. Quietly(r)
  <2>1. req' = [req EXCEPT ![r].at = "next", ![r].was = I!GitBound]
        /\ UNCHANGED <<head, skill, version, source, bound, ids>>
    BY DEF I!BeginImport, I!BeginUpload
  <2>2. req' \in [Callers -> ImportRec]
    <3>1. PICK g : g = I!GitBound OBVIOUS
    <3>2. req' = [req EXCEPT ![r].at = "next", ![r].was = g] BY <2>1, <3>1
    <3>3. [req[r] EXCEPT !.at = "next", !.was = g] \in ImportRec
      <4>1. req[r] \in ImportRec /\ "next" \in ImportSteps /\ g \in SUBSET Nat
        BY <1>1, <1>2, <3>1 DEF ImportSteps
      <4>. QED BY <4>1, RecordsStay
    <3>. QED BY <1>1, <3>2, <3>3
  <2>. QED BY <1>1, <2>1, <2>2 DEF Quietly
<1>4. PICK q, o : q = req[r] /\ o = req'[r]
  OBVIOUS
<1>5. /\ o.at = "next" /\ q.at = "chosen" /\ o.was = I!GitBound
      /\ o.todo = q.todo /\ o.commit = q.commit /\ o.ns = q.ns
      /\ o.imported = q.imported /\ o.failed = q.failed
  BY <1>1, <1>4 DEF I!BeginImport, I!BeginUpload, ImportRec
<1>6. AskOK(q) /\ FoundOK(q) /\ AddedOK(r, q) /\ rule' = rule
  BY <1>4 DEF ImportsInv, I!BeginImport, I!BeginUpload
<1>7. AskOK(o) BY <1>5, <1>6 DEF AskOK, AtWork, Nth
<1>8. FoundOK(o)
  <2>1. \A n \in I!Names : skill[n].id \in I!GitBound => n \in bound
    BY <1>1 DEF I!GitBound, ImportsInv, RowsApart
  <2>. QED BY <1>2, <1>5, <1>6, <2>1 DEF FoundOK, AskOK, Inserted
<1>9. AddedOK(r, o) BY <1>5, <1>6 DEF AddedOK
<1>10. rule' \in [I!Names -> Callers \cup {"none", "someone"}]
  BY <1>6 DEF ImportsInv, ImportTypes
<1>. QED BY <1>3, <1>4, <1>7, <1>8, <1>9, <1>10, QuietRequestKeeps DEF Quietly

(* What a request is at, as the model says it.                               *)
LEMMA AtHand ==
  ASSUME ImportsInv, NEW r \in Callers, NEW q, q = req[r], q.at \in AtWork \/ q.todo # << >>
  PROVE  /\ q \in ImportRec /\ q.todo # << >>
         /\ I!Name(r) = Nth(q, 1) /\ I!Name(r) \in I!Names /\ 1 \in 1 .. Len(q.todo)
         /\ q.at # "idle" => I!Content(r) = Text(q) /\ I!Content(r) \in Contents
                             /\ Scan[Text(q)] \in {"clean", "review", "block"}
                             /\ Text(q) = Tree[q.commit][I!Name(r)[2]]
<1>1. q \in ImportRec /\ AskOK(q) BY DEF ImportsInv, ImportTypes
<1>2. q.todo # << >> BY <1>1 DEF AskOK
<1>3. /\ 1 \in 1 .. Len(q.todo) /\ Head(q.todo) = q.todo[1] /\ q.todo[1] \in Spots
      /\ Nth(q, 1) \in I!Names
  BY <1>1, <1>2, NamesOK
<1>4. I!Name(r) = Nth(q, 1) BY <1>3 DEF I!Name, I!Folder, Nth
<1>5. ASSUME q.at # "idle"
      PROVE  I!Content(r) = Text(q) /\ Text(q) \in Contents
             /\ Scan[Text(q)] \in {"clean", "review", "block"} /\ Text(q) = Tree[q.commit][I!Name(r)[2]]
  <2>1. I!Content(r) = Text(q) BY <1>3 DEF I!Content, I!Fetched, I!Folder, Text
  <2>2. q.commit \in DOMAIN Tree BY <1>1, <1>5 DEF AskOK
  <2>. QED BY <1>3, <1>4, <2>1, <2>2, ImportsAssumption DEF Text, Contents, Spots, Nth
<1>. QED BY <1>1, <1>2, <1>3, <1>4, <1>5

(* The skill that is failed, with nothing written.                           *)
LEMMA FailedKeeps ==
  ASSUME ImportsInv, NEW r \in Callers, I!Failed(r),
         req[r].at \in {"next", "decide", "row", "write", "insert"}, req[r].todo # << >>,
         UNCHANGED <<head, skill, version, source, bound, ids, rule>>
  PROVE  ImportsInv'
<1>1. req \in [Callers -> ImportRec] BY DEF ImportsInv, ImportTypes
<1>2. PICK q, o : q = req[r] /\ o = req'[r]
  OBVIOUS
<1>3. q \in ImportRec /\ AskOK(q) /\ FoundOK(q) /\ AddedOK(r, q)
  BY <1>1, <1>2 DEF ImportsInv
<1>4. I!Name(r) = Nth(q, 1) /\ I!Name(r) \in I!Names BY <1>2, AtHand
<1>5. Tail(q.todo) \in Seq(Spots) BY <1>2, <1>3, NamesOK
<1>6. Quietly(r)
  BY <1>1, <1>2, <1>4, <1>5 DEF Quietly, I!Failed, ImportRec, ImportSteps
<1>7. /\ o \in ImportRec /\ o.at = "next" /\ o.todo = Tail(q.todo) /\ o.commit = q.commit
      /\ o.ns = q.ns /\ o.was = q.was /\ o.imported = q.imported /\ o.failed = q.failed \cup {Nth(q, 1)}
  BY <1>1, <1>2, <1>4, <1>6 DEF I!Failed, ImportRec, Quietly
<1>8. AskOK(o) /\ FoundOK(o) /\ AddedOK(r, o)
  BY <1>2, <1>3, <1>7, DropsOne DEF Inserted
<1>9. rule' \in [I!Names -> Callers \cup {"none", "someone"}]
  BY DEF ImportsInv, ImportTypes
<1>. QED BY <1>2, <1>6, <1>8, <1>9, QuietRequestKeeps DEF Quietly

(* One that goes on, with rows and versions as they are.                     *)
LEMMA GoingOnKeeps ==
  ASSUME ImportsInv, NEW r \in Callers, UNCHANGED <<head, skill, version, source, bound, ids>>,
         rule' \in [I!Names -> Callers \cup {"none", "someone"}],
         NEW q, q = req[r], NEW o \in ImportRec, req' = [req EXCEPT ![r] = o],
         Same(q, o), q.at \notin {"idle", "chosen"}, q.todo # << >>,
         o.at \in AtWork, q.at \in Inserted => o.at \in Inserted,
         o.at \in {"row", "write", "insert"} =>
           Scan[Text(q)] # "block" /\ (~o.held => Scan[Text(q)] = "clean"),
         o.at \in {"decide", "row"} => skill[Nth(q, 1)].id \notin q.was,
         o.at \in {"write", "insert"} => o.id \in 1 .. ids /\ o.id \notin q.was,
         o.at \in Inserted => o.id \in 1 .. ids /\ Stored(Nth(q, 1), o.id, o.v, Text(q))
  PROVE  ImportsInv'
<1>1. req \in [Callers -> ImportRec] BY DEF ImportsInv, ImportTypes
<1>2. q \in ImportRec /\ AskOK(q) /\ FoundOK(q) /\ AddedOK(r, q)
  BY <1>1 DEF ImportsInv
<1>3. AskOK(o) /\ FoundOK(o) /\ AddedOK(r, o)
  BY <1>2, GoesOn
<1>4. /\ req' \in [Callers -> ImportRec] /\ req'[r] = o
      /\ \A s \in Callers : s # r => req'[s] = req[s]
  BY <1>1
<1>. QED BY <1>3, <1>4, QuietRequestKeeps

LEMMA CheckKeeps == ASSUME ImportsInv, NEW r \in Callers, I!Check(r) PROVE ImportsInv'
<1>1. req \in [Callers -> ImportRec] /\ rule' \in [I!Names -> Callers \cup {"none", "someone"}]
  BY DEF ImportsInv, ImportTypes, I!Check
<1>2. req[r].at = "next" /\ req[r].todo # << >> /\ UNCHANGED <<head, skill, version, source, bound, ids, rule>>
  BY DEF I!Check
<1>3. CASE I!Failed(r) BY <1>2, <1>3, FailedKeeps
<1>4. CASE I!Name(r) \notin bound /\ req' = [req EXCEPT ![r].at = "decide"]
  <2>1. PICK q : q = req[r] OBVIOUS
  <2>2. q \in ImportRec /\ FoundOK(q) BY <1>1, <2>1 DEF ImportsInv
  <2>3. PICK o : o = [q EXCEPT !.at = "decide"] OBVIOUS
  <2>4. o \in ImportRec
    <3>1. "decide" \in ImportSteps BY DEF ImportSteps
    <3>. QED BY <2>2, <2>3, <3>1, RecordsStay
  <2>5. req' = [req EXCEPT ![r] = o] BY <1>1, <1>4, <2>1, <2>3
  <2>6. Same(q, o) /\ o.at = "decide" BY <2>2, <2>3 DEF Same, ImportRec
  <2>7. skill[Nth(q, 1)].id \notin q.was
    BY <1>2, <1>4, <2>1, <2>2, AtHand DEF FoundOK
  <2>8. /\ q.at = "next" /\ q.todo # << >> /\ o.at \in AtWork
        /\ o.at \notin {"row", "write", "insert"} /\ o.at \notin Inserted /\ q.at \notin Inserted
    BY <1>2, <2>1, <2>6 DEF AtWork, Inserted
  <2>. QED BY <1>1, <1>2, <2>1, <2>4, <2>5, <2>6, <2>7, <2>8, GoingOnKeeps
<1>. QED BY <1>3, <1>4 DEF I!Check, I!Outside

LEMMA DecideKeeps == ASSUME ImportsInv, NEW r \in Callers, I!Decide(r) PROVE ImportsInv'
<1>1. req \in [Callers -> ImportRec] /\ rule' \in [I!Names -> Callers \cup {"none", "someone"}]
  BY DEF ImportsInv, ImportTypes, I!Decide
<1>2. req[r].at = "decide" /\ UNCHANGED <<head, skill, version, source, bound, ids, rule>>
  BY DEF I!Decide
<1>3. PICK q : q = req[r] OBVIOUS
<1>4. q \in ImportRec /\ AskOK(q) /\ FoundOK(q) /\ q.at = "decide"
  BY <1>1, <1>2, <1>3 DEF ImportsInv
<1>5. q.todo # << >> /\ q.at \in AtWork BY <1>4 DEF AskOK, AtWork
<1>6. CASE I!Failed(r) BY <1>2, <1>3, <1>5, <1>6, FailedKeeps
<1>7. CASE ~ I!Failed(r)
  <2>1. PICK u \in BOOLEAN, h \in BOOLEAN :
          /\ req' = [req EXCEPT ![r].at = "row", ![r].unowned = u, ![r].held = h]
          /\ Scan[I!Content(r)] = "review" => h
    BY <1>7 DEF I!Decide
  <2>2. Scan[I!Content(r)] # "block" BY <1>7 DEF I!Decide
  <2>3. Scan[Text(q)] # "block" /\ (~ h => Scan[Text(q)] = "clean")
    BY <1>3, <1>4, <1>5, <2>1, <2>2, AtHand
  <2>4. PICK o : o = [q EXCEPT !.at = "row", !.unowned = u, !.held = h] OBVIOUS
  <2>5. o \in ImportRec
    <3>1. "row" \in ImportSteps BY DEF ImportSteps
    <3>. QED BY <1>4, <2>4, <3>1, RecordsStay
  <2>6. req' = [req EXCEPT ![r] = o] BY <1>1, <1>3, <2>1, <2>4
  <2>7. Same(q, o) /\ o.at = "row" /\ o.held = h BY <1>4, <2>4 DEF Same, ImportRec
  <2>8. skill[Nth(q, 1)].id \notin q.was BY <1>4 DEF FoundOK
  <2>9. /\ q.at \notin {"idle", "chosen"} /\ o.at \in AtWork /\ o.at \notin {"write", "insert"}
        /\ o.at \notin Inserted /\ q.at \notin Inserted
    BY <1>4, <2>7 DEF AtWork, Inserted
  <2>. QED BY <1>1, <1>2, <1>3, <1>5, <2>3, <2>5, <2>6, <2>7, <2>8, <2>9, GoingOnKeeps
<1>. QED BY <1>6, <1>7

LEMMA FailKeeps == ASSUME ImportsInv, NEW r \in Callers, I!Fail(r) PROVE ImportsInv'
<1>1. /\ req[r].at \in {"decide", "row", "write"} /\ I!Failed(r)
      /\ UNCHANGED <<head, skill, version, source, bound, ids, rule>>
  BY DEF I!Fail
<1>2. AskOK(req[r]) BY DEF ImportsInv
<1>3. req[r].todo # << >> BY <1>1, <1>2 DEF AskOK, AtWork
<1>. QED BY <1>1, <1>3, FailedKeeps

LEMMA WriteKeeps == ASSUME ImportsInv, NEW r \in Callers, I!WriteArchive(r) PROVE ImportsInv'
<1>1. req \in [Callers -> ImportRec] /\ rule' \in [I!Names -> Callers \cup {"none", "someone"}]
  BY DEF ImportsInv, ImportTypes, I!WriteArchive
<1>2. PICK q : q = req[r] OBVIOUS
<1>3. q \in ImportRec /\ AskOK(q) /\ FoundOK(q) /\ q.at = "write"
  BY <1>1, <1>2 DEF ImportsInv, I!WriteArchive
<1>4. PICK o : o = [q EXCEPT !.at = "insert"] OBVIOUS
<1>5. o \in ImportRec
  <2>1. "insert" \in ImportSteps BY DEF ImportSteps
  <2>. QED BY <1>3, <1>4, <2>1, RecordsStay
<1>6. req' = [req EXCEPT ![r] = o] BY <1>1, <1>2, <1>4 DEF I!WriteArchive
<1>7. Same(q, o) /\ o.at = "insert" /\ o.held = q.held /\ o.id = q.id
  BY <1>3, <1>4 DEF Same, ImportRec
<1>8. q.todo # << >> /\ Scan[Text(q)] # "block" /\ (~q.held => Scan[Text(q)] = "clean")
  BY <1>3 DEF AskOK, AtWork
<1>9. q.id \in 1 .. ids /\ q.id \notin q.was BY <1>3 DEF FoundOK
<1>10. /\ q.at \notin {"idle", "chosen"} /\ o.at \in AtWork /\ o.at \notin {"decide", "row"}
       /\ o.at \notin Inserted /\ q.at \notin Inserted
  BY <1>3, <1>7 DEF AtWork, Inserted
<1>11. UNCHANGED <<head, skill, version, source, bound, ids>> BY DEF I!WriteArchive
<1>. QED BY <1>1, <1>2, <1>5, <1>6, <1>7, <1>8, <1>9, <1>10, <1>11, GoingOnKeeps

LEMMA ClaimKeeps == ASSUME ImportsInv, NEW r \in Callers, I!Claim(r) PROVE ImportsInv'
<1>1. req \in [Callers -> ImportRec] BY DEF ImportsInv, ImportTypes
<1>2. PICK q : q = req[r] OBVIOUS
<1>3. q \in ImportRec /\ AskOK(q) /\ FoundOK(q) /\ q.at = "claim"
  BY <1>1, <1>2 DEF ImportsInv, I!Claim
<1>4. PICK o : o = [q EXCEPT !.at = "report"] OBVIOUS
<1>5. o \in ImportRec
  <2>1. "report" \in ImportSteps BY DEF ImportSteps
  <2>. QED BY <1>3, <1>4, <2>1, RecordsStay
<1>6. req' = [req EXCEPT ![r] = o] BY <1>1, <1>2, <1>4 DEF I!Claim
<1>7. Same(q, o) /\ o.at = "report" /\ o.v = q.v /\ o.id = q.id
  BY <1>3, <1>4 DEF Same, ImportRec
<1>8. q.todo # << >> BY <1>3 DEF AskOK, AtWork
<1>9. q.id \in 1 .. ids /\ Stored(Nth(q, 1), q.id, q.v, Text(q)) BY <1>3 DEF FoundOK, Inserted
<1>10. /\ q.at \notin {"idle", "chosen"} /\ o.at \in AtWork
       /\ o.at \notin {"decide", "row", "write", "insert"} /\ o.at \in Inserted
  BY <1>3, <1>7 DEF AtWork, Inserted
<1>11. UNCHANGED <<head, skill, version, source, bound, ids>> BY DEF I!Claim
<1>12. rule' \in [I!Names -> Callers \cup {"none", "someone"}]
  BY DEF ImportsInv, ImportTypes, I!Claim, I!Claimed
<1>. QED BY <1>2, <1>5, <1>6, <1>7, <1>8, <1>9, <1>10, <1>11, <1>12, GoingOnKeeps

LEMMA AnswerKeeps == ASSUME ImportsInv, NEW r \in Callers, I!Answer(r) PROVE ImportsInv'
<1>1. req \in [Callers -> ImportRec] /\ rule' \in [I!Names -> Callers \cup {"none", "someone"}]
  BY DEF ImportsInv, ImportTypes, I!Answer
<1>2. PICK q : q = req[r] OBVIOUS
<1>3. q \in ImportRec /\ AskOK(q) /\ FoundOK(q) /\ AddedOK(r, q) /\ q.at = "next" /\ q.todo = << >>
  BY <1>1, <1>2 DEF ImportsInv, I!Answer
<1>4. PICK e \in {"none", "0", "1"} : req' = [req EXCEPT ![r].at = "done", ![r].exit = e]
  BY DEF I!Answer
<1>5. PICK o : o = [q EXCEPT !.at = "done", !.exit = e] OBVIOUS
<1>6. o \in ImportRec
  <2>1. "done" \in ImportSteps BY DEF ImportSteps
  <2>. QED BY <1>3, <1>5, <2>1, RecordsStay
<1>7. /\ o.at = "done" /\ o.todo = << >> /\ o.ns = q.ns /\ o.commit = q.commit /\ o.was = q.was
      /\ o.imported = q.imported /\ o.failed = q.failed
  BY <1>3, <1>5 DEF ImportRec
<1>8. AskOK(o) /\ FoundOK(o) /\ AddedOK(r, o)
  BY <1>3, <1>7 DEF AskOK, FoundOK, AddedOK, AtWork, Inserted
<1>9. /\ req' \in [Callers -> ImportRec] /\ req'[r] = o /\ \A s \in Callers : s # r => req'[s] = req[s]
  BY <1>1, <1>2, <1>4, <1>5, <1>6
<1>10. UNCHANGED <<head, skill, version, source, bound, ids>> BY DEF I!Answer
<1>. QED BY <1>1, <1>8, <1>9, <1>10, QuietRequestKeeps

LEMMA ReportKeeps == ASSUME ImportsInv, NEW r \in Callers, I!Report(r) PROVE ImportsInv'
<1>1. req \in [Callers -> ImportRec] /\ rule' \in [I!Names -> Callers \cup {"none", "someone"}]
  BY DEF ImportsInv, ImportTypes, I!Report
<1>2. PICK q : q = req[r] OBVIOUS
<1>3. q \in ImportRec /\ AskOK(q) /\ FoundOK(q) /\ AddedOK(r, q) /\ q.at = "report"
  BY <1>1, <1>2 DEF ImportsInv, I!Report
<1>4. q.todo # << >> /\ q.at \in AtWork BY <1>3 DEF AskOK, AtWork
<1>5. I!Name(r) = Nth(q, 1) /\ I!Name(r) \in I!Names /\ Tail(q.todo) \in Seq(Spots)
  BY <1>2, <1>3, <1>4, AtHand, NamesOK
<1>6. PICK m \in [name : I!Names, id : Nat, v : Nat] :
        /\ m.name = Nth(q, 1) /\ m.id = q.id /\ m.v = q.v
        /\ req' = [req EXCEPT ![r].at = "next", ![r].todo = Tail(@), ![r].imported = @ \cup {m}]
  <2>1. q.id \in Nat /\ q.v \in Nat BY <1>3 DEF ImportRec
  <2>. QED BY <1>2, <1>5, <2>1 DEF I!Report, I!Reported
<1>7. PICK w : w = Tail(q.todo) OBVIOUS
<1>8. PICK o : o = [q EXCEPT !.at = "next", !.todo = w, !.imported = @ \cup {m}] OBVIOUS
<1>9. o \in ImportRec
  <2>1. "next" \in ImportSteps BY DEF ImportSteps
  <2>. QED BY <1>3, <1>5, <1>7, <1>8, <2>1, RecordsStay
<1>10. req' = [req EXCEPT ![r] = o] BY <1>1, <1>2, <1>6, <1>7, <1>8
<1>11. /\ o.at = "next" /\ o.todo = Tail(q.todo) /\ o.ns = q.ns /\ o.commit = q.commit /\ o.was = q.was
       /\ o.imported = q.imported \cup {m} /\ o.failed = q.failed /\ m \in o.imported
  BY <1>3, <1>7, <1>8 DEF ImportRec
<1>12. AskOK(o) /\ FoundOK(o) /\ AddedOK(r, o)
  BY <1>3, <1>4, <1>6, <1>9, <1>11, DropsOne DEF Inserted
<1>13. /\ req' \in [Callers -> ImportRec] /\ req'[r] = o /\ \A s \in Callers : s # r => req'[s] = req[s]
  BY <1>1, <1>9, <1>10
<1>14. UNCHANGED <<head, skill, version, source, bound, ids>> BY DEF I!Report
<1>. QED BY <1>1, <1>12, <1>13, <1>14, QuietRequestKeeps

LEMMA SourceKeeps == ASSUME ImportsInv, NEW r \in Callers, I!RecordSource(r) PROVE ImportsInv'
<1>1. req \in [Callers -> ImportRec] BY DEF ImportsInv, ImportTypes
<1>2. PICK q : q = req[r] OBVIOUS
<1>3. q \in ImportRec /\ AskOK(q) /\ FoundOK(q) /\ AddedOK(r, q) /\ q.at = "source"
  BY <1>1, <1>2 DEF ImportsInv, I!RecordSource
<1>4. q.todo # << >> /\ q.at \in AtWork /\ q.commit \in DOMAIN Tree BY <1>3 DEF AskOK, AtWork
<1>5. I!Name(r) = Nth(q, 1) /\ I!Name(r) \in I!Names /\ Text(q) = Tree[q.commit][I!Name(r)[2]]
  BY <1>2, <1>3, <1>4, AtHand
<1>6. PICK a \in {"claim", "report"} : req' = [req EXCEPT ![r].at = a]
  BY DEF I!RecordSource
<1>7. PICK o : o = [q EXCEPT !.at = a] OBVIOUS
<1>8. o \in ImportRec
  <2>1. a \in ImportSteps BY DEF ImportSteps
  <2>. QED BY <1>3, <1>7, <2>1, RecordsStay
<1>9. /\ req' \in [Callers -> ImportRec] /\ req'[r] = o /\ \A s \in Callers : s # r => req'[s] = req[s]
  BY <1>1, <1>2, <1>6, <1>7, <1>8
<1>10. Same(q, o) /\ o.at = a /\ o.v = q.v /\ o.id = q.id
  BY <1>3, <1>7 DEF Same, ImportRec
<1>11. q.id \in 1 .. ids /\ Stored(Nth(q, 1), q.id, q.v, Text(q)) BY <1>3 DEF FoundOK, Inserted
<1>12. AskOK(o) /\ FoundOK(o) /\ AddedOK(r, o)
  <2>1. /\ q.at \notin {"idle", "chosen"} /\ o.at \in AtWork /\ o.at \in Inserted
        /\ o.at \notin {"decide", "row", "write", "insert"}
    BY <1>3, <1>10 DEF AtWork, Inserted
  <2>. QED BY <1>3, <1>4, <1>8, <1>10, <1>11, <2>1, GoesOn
<1>13. UNCHANGED <<head, skill, version, rule, bound, ids>> BY DEF I!RecordSource
<1>14. \/ source' = source
       \/ /\ skill[I!Name(r)].id = q.id
          /\ \/ source' = [source EXCEPT ![q.id] = q.commit]
             \/ source' = [source EXCEPT ![q.id] = 0]
  BY <1>2 DEF I!RecordSource, I!Recorded
<1>15. q.id \in 1 .. MaxId /\ ids \in Nat /\ source \in [1 .. MaxId -> {0} \cup DOMAIN Tree]
  BY <1>11, ImportsAssumption DEF ImportsInv, ImportTypes
<1>16. source' \in [1 .. MaxId -> {0} \cup DOMAIN Tree]
  BY <1>4, <1>14, <1>15
<1>17. \A i \in 1 .. MaxId : source'[i] # 0 => i <= ids
  <2>1. \A i \in 1 .. MaxId : source[i] # 0 => i <= ids BY DEF ImportsInv, RowsApart
  <2>2. q.id <= ids BY <1>11, <1>15
  <2>3. \A i \in 1 .. MaxId : i # q.id => source'[i] = source[i] BY <1>14, <1>15
  <2>. QED BY <2>1, <2>2, <2>3
<1>18. ImportTypes'
  BY <1>9, <1>13, <1>16 DEF ImportsInv, ImportTypes
<1>19. RowsApart' /\ I!HeldStaysHidden'
  BY <1>13, <1>17 DEF ImportsInv, RowsApart, I!HeldStaysHidden
<1>20. I!SourceIsAVersions'
  <2> SUFFICES ASSUME NEW n \in I!Names, skill[n].id # 0, source'[skill[n].id] # 0
               PROVE  \E w \in version : w.id = skill[n].id /\ w.content = Tree[source'[skill[n].id]][n[2]]
    BY <1>13 DEF I!SourceIsAVersions
  <2>1. skill[n].id \in 1 .. MaxId
    BY ImportsAssumption DEF ImportsInv, ImportTypes
  <2>2. CASE source'[skill[n].id] = source[skill[n].id]
    BY <2>2 DEF ImportsInv, I!SourceIsAVersions
  <2>3. CASE source'[skill[n].id] # source[skill[n].id]
    <3>1. skill[n].id = q.id /\ source'[q.id] = q.commit /\ skill[I!Name(r)].id = q.id
      BY <1>14, <1>15, <2>1, <2>3
    <3>2. n = I!Name(r) BY <1>5, <3>1 DEF ImportsInv, RowsApart
    <3>3. \E w \in version : w.id = q.id /\ w.content = Text(q)
      BY <1>5, <1>11, <3>1 DEF Stored
    <3>. QED BY <1>5, <3>1, <3>2, <3>3
  <2>. QED BY <2>2, <2>3
<1>21. Evolves(r)
  BY <1>13, <1>15 DEF Evolves
<1>22. FoundOK(o)' /\ AddedOK(r, o)'
  BY <1>12, <1>13 DEF FoundOK, AddedOK, Stored, Nth, Text
<1>. QED BY <1>9, <1>12, <1>18, <1>19, <1>20, <1>21, <1>22, RequestStepKeeps

LEMMA RowKeeps == ASSUME ImportsInv, NEW r \in Callers, I!Row(r) PROVE ImportsInv'
<1>1. req \in [Callers -> ImportRec] /\ rule' \in [I!Names -> Callers \cup {"none", "someone"}]
  BY DEF ImportsInv, ImportTypes, I!Row
<1>2. PICK q : q = req[r] OBVIOUS
<1>3. q \in ImportRec /\ AskOK(q) /\ FoundOK(q) /\ AddedOK(r, q) /\ q.at = "row"
  BY <1>1, <1>2 DEF ImportsInv, I!Row
<1>4. /\ q.todo # << >> /\ q.at \in AtWork /\ q.commit \in DOMAIN Tree
      /\ Scan[Text(q)] # "block" /\ (~q.held => Scan[Text(q)] = "clean")
  BY <1>3 DEF AskOK, AtWork
<1>5. PICK n \in I!Names : n = I!Name(r) /\ n = Nth(q, 1) /\ I!Content(r) = Text(q) /\ Text(q) \in Contents
  BY <1>2, <1>3, <1>4, AtHand
<1>6. skill \in [I!Names -> [id : 0 .. MaxId, text : Contents \cup {"none"}, latest : Nat]] /\ ids \in Nat
  BY ImportsAssumption DEF ImportsInv, ImportTypes
<1>7. PICK i \in 0 .. MaxId, k \in Nat : i = skill[n].id /\ k = skill[n].latest
  BY <1>6
<1>8. i \notin q.was BY <1>3, <1>5, <1>7 DEF FoundOK
<1>9. i <= ids BY <1>7 DEF ImportsInv, RowsApart
<1>10. CASE /\ i # 0 /\ req' = [req EXCEPT ![r].at = "write", ![r].new = FALSE, ![r].id = skill[n].id]
            /\ UNCHANGED <<skill, ids>>
  <2>1. PICK o : o = [q EXCEPT !.at = "write", !.new = FALSE, !.id = i] OBVIOUS
  <2>2. o \in ImportRec
    <3>1. "write" \in ImportSteps /\ i \in Nat /\ FALSE \in BOOLEAN BY ImportsAssumption DEF ImportSteps
    <3>. QED BY <1>3, <2>1, <3>1, RecordsStay
  <2>3. req' = [req EXCEPT ![r] = o] BY <1>1, <1>2, <1>7, <1>10, <2>1
  <2>4. Same(q, o) /\ o.at = "write" /\ o.held = q.held /\ o.id = i
    BY <1>3, <2>1 DEF Same, ImportRec
  <2>5. i \in 1 .. ids BY <1>6, <1>9, <1>10, ImportsAssumption
  <2>6. /\ q.at \notin {"idle", "chosen"} /\ o.at \in AtWork /\ o.at \notin {"decide", "row"}
        /\ o.at \notin Inserted /\ q.at \notin Inserted
    BY <1>3, <2>4 DEF AtWork, Inserted
  <2>7. UNCHANGED <<head, skill, version, source, bound, ids>> BY <1>10 DEF I!Row
  <2>. QED BY <1>1, <1>2, <1>4, <1>8, <2>2, <2>3, <2>4, <2>5, <2>6, <2>7, GoingOnKeeps
<1>11. CASE /\ \E w \in I!Latest(n) : w.content = I!Content(r)
            /\ req' = [req EXCEPT ![r].at = "report", ![r].id = skill[n].id, ![r].v = skill[n].latest]
            /\ UNCHANGED <<skill, ids>>
  <2>1. PICK o : o = [q EXCEPT !.at = "report", !.id = i, !.v = k] OBVIOUS
  <2>2. o \in ImportRec
    <3>1. "report" \in ImportSteps /\ i \in Nat BY ImportsAssumption DEF ImportSteps
    <3>. QED BY <1>3, <2>1, <3>1, RecordsStay
  <2>3. req' = [req EXCEPT ![r] = o] BY <1>1, <1>2, <1>7, <1>11, <2>1
  <2>4. Same(q, o) /\ o.at = "report" /\ o.v = k /\ o.id = i
    BY <1>3, <2>1 DEF Same, ImportRec
  <2>5. PICK w \in version : w.id = i /\ w.v = k /\ w.content = Text(q)
    BY <1>5, <1>7, <1>11 DEF I!Latest
  <2>6. i \in 1 .. ids BY <2>5 DEF ImportsInv, RowsApart
  <2>7. Stored(n, i, k, Text(q)) BY <2>5 DEF Stored
  <2>8. /\ q.at \notin {"idle", "chosen"} /\ o.at \in AtWork
        /\ o.at \notin {"decide", "row", "write", "insert"} /\ o.at \in Inserted
    BY <1>3, <2>4 DEF AtWork, Inserted
  <2>9. UNCHANGED <<head, skill, version, source, bound, ids>> BY <1>11 DEF I!Row
  <2>. QED BY <1>1, <1>2, <1>4, <1>5, <2>2, <2>3, <2>4, <2>6, <2>7, <2>8, <2>9, GoingOnKeeps
<1>12. CASE /\ i = 0 /\ ids < MaxId /\ ids' = ids + 1
            /\ skill' = [skill EXCEPT ![n] = [id |-> ids + 1, text |-> I!FirstText(r), latest |-> 0]]
            /\ req' = [req EXCEPT ![r].at = "write", ![r].new = TRUE, ![r].id = ids + 1]
  <2>1. PICK j \in Nat : j = ids + 1 BY <1>6
  <2>2. j \in 1 .. MaxId /\ j \in 0 .. MaxId /\ ids' = j /\ ids < j
    BY <1>6, <1>12, <2>1, ImportsAssumption
  <2>3. PICK t \in Contents \cup {"none"} : t = I!FirstText(r) /\ (t # "none" => Scan[t] = "clean")
    BY <1>2, <1>4, <1>5 DEF I!FirstText, I!None
  <2>4. PICK o : o = [q EXCEPT !.at = "write", !.new = TRUE, !.id = j] OBVIOUS
  <2>5. o \in ImportRec
    <3>1. "write" \in ImportSteps /\ TRUE \in BOOLEAN BY DEF ImportSteps
    <3>. QED BY <1>3, <2>4, <3>1, RecordsStay
  <2>6. Same(q, o) /\ o.at = "write" /\ o.held = q.held /\ o.id = j
    BY <1>3, <2>4 DEF Same, ImportRec
  <2>7. /\ req' \in [Callers -> ImportRec] /\ req'[r] = o /\ \A s \in Callers : s # r => req'[s] = req[s]
    BY <1>1, <1>2, <1>12, <2>1, <2>4, <2>5
  <2>8. UNCHANGED <<head, version, source, bound, rule>> BY DEF I!Row
  <2>9. skill' \in [I!Names -> [id : 0 .. MaxId, text : Contents \cup {"none"}, latest : Nat]]
    BY <1>6, <1>12, <2>1, <2>2, <2>3
  <2>10. skill'[n].id = j /\ skill'[n].text = t /\ \A m \in I!Names : m # n => skill'[m] = skill[m]
    BY <1>6, <1>12, <2>1, <2>3
  <2>11. \A m \in I!Names : skill[m].id \in Nat /\ skill[m].id <= ids
    BY <1>6, ImportsAssumption DEF ImportsInv, RowsApart
  <2>12. ImportTypes'
    <3>1. ids' \in 0 .. MaxId BY <2>2
    <3>. QED BY <2>7, <2>8, <2>9, <3>1 DEF ImportsInv, ImportTypes
  <2>13. \A m \in I!Names : skill'[m].id <= ids'
    BY <1>6, <2>1, <2>2, <2>10, <2>11
  <2>14. \A m, p \in I!Names : skill'[m].id = skill'[p].id /\ skill'[m].id # 0 => m = p
    <3>1. \A m, p \in I!Names : skill[m].id = skill[p].id /\ skill[m].id # 0 => m = p
      BY DEF ImportsInv, RowsApart
    <3>. QED BY <1>6, <2>2, <2>10, <2>11, <3>1
  <2>15. RowsApart'
    <3>1. \A m \in bound' : skill'[m].id # 0
      BY <2>2, <2>8, <2>10 DEF ImportsInv, RowsApart, ImportTypes
    <3>2. \A w \in version' : w.id \in 1 .. ids'
      <4>1. \A w \in version : w.id \in 1 .. ids BY DEF ImportsInv, RowsApart
      <4>. QED BY <1>6, <2>2, <2>8, <4>1
    <3>3. \A m \in 1 .. MaxId : source'[m] # 0 => m <= ids'
      <4>1. \A m \in 1 .. MaxId : source[m] # 0 => m <= ids BY DEF ImportsInv, RowsApart
      <4>. QED BY <1>6, <2>2, <2>8, <4>1
    <3>4. \E b \in Nat : \A w \in version' : w.v <= b BY <2>8 DEF ImportsInv, RowsApart
    <3>. QED BY <2>13, <2>14, <3>1, <3>2, <3>3, <3>4 DEF RowsApart
  <2>16. I!HeldStaysHidden'
    BY <2>3, <2>10 DEF ImportsInv, I!HeldStaysHidden, I!None
  <2>17. I!SourceIsAVersions'
    <3>1. source[j] = 0 BY <1>6, <2>1, <2>2 DEF ImportsInv, RowsApart
    <3>. QED BY <2>8, <2>10, <3>1 DEF ImportsInv, I!SourceIsAVersions
  <2>18. Evolves(r)
    BY <1>6, <1>12, <1>7, <2>1, <2>2, <2>8, <2>10, <2>11 DEF Evolves
  <2>19. FoundOK(q)' BY <1>3, <2>12, <2>18, FoundStays DEF ImportsInv
  <2>20. AddedOK(r, q)' BY <1>3, <2>8 DEF AddedOK, Nth
  <2>21. AskOK(o)
    BY <1>3, <1>4, <2>6 DEF AskOK, Same, Text, Nth, AtWork
  <2>22. FoundOK(o)'
    <3>1. j \in 1 .. ids' /\ j \notin q.was
      <4>1. q.was \subseteq 1 .. ids BY <1>3 DEF FoundOK
      <4>. QED BY <1>6, <2>2, <4>1
    <3>. QED BY <2>6, <2>19, <3>1 DEF FoundOK, Same, Inserted
  <2>23. AddedOK(r, o)'
    BY <1>3, <2>6, <2>20 DEF AddedOK, Same, Nth, Inserted
  <2>. QED BY <2>7, <2>12, <2>15, <2>16, <2>17, <2>18, <2>21, <2>22, <2>23, RequestStepKeeps
<1>13. /\ n = I!Name(r) /\ I!Row(r) BY <1>5
<1>. QED BY <1>7, <1>10, <1>11, <1>12, <1>13 DEF I!Row

(* A version that is added, in a row of its own.                             *)
LEMMA InsertedKeeps ==
  ASSUME ImportsInv, NEW r \in Callers, req[r].at = "insert", NEW n, n = I!Name(r),
         NEW v, v = I!Highest(req[r].id) + 1, skill[n].id = req[r].id,
         version' = version \cup {[name |-> n, id |-> req[r].id, v |-> v, content |-> I!Content(r),
                                   held |-> req[r].held, by |-> r]},
         skill' = IF req[r].held THEN skill
                  ELSE [skill EXCEPT ![n].text = I!Content(r), ![n].latest = v],
         req' = [req EXCEPT ![r].at = "source", ![r].v = v],
         UNCHANGED <<head, source, rule, bound, ids>>
  PROVE  ImportsInv'
<1>1. /\ req \in [Callers -> ImportRec] /\ ids \in Nat
      /\ skill \in [I!Names -> [id : 0 .. MaxId, text : Contents \cup {"none"}, latest : Nat]]
  BY ImportsAssumption DEF ImportsInv, ImportTypes
<1>2. PICK q : q = req[r] OBVIOUS
<1>3. q \in ImportRec /\ AskOK(q) /\ FoundOK(q) /\ AddedOK(r, q) /\ q.at = "insert"
  BY <1>1, <1>2 DEF ImportsInv
<1>4. /\ q.todo # << >> /\ q.at \in AtWork /\ q.commit \in DOMAIN Tree
      /\ Scan[Text(q)] # "block" /\ (~q.held => Scan[Text(q)] = "clean")
  BY <1>3 DEF AskOK, AtWork
<1>5. n \in I!Names /\ n = Nth(q, 1) /\ 1 \in 1 .. Len(q.todo)
  BY <1>2, <1>3, <1>4, AtHand
<1>6. PICK t \in Contents : t = I!Content(r) /\ t = Text(q)
  BY <1>2, <1>3, <1>4, AtHand
<1>7. v \in Nat
  <2>1. I!Highest(req[r].id) \in Nat BY NumbersGrow DEF ImportsInv
  <2>. QED BY <2>1
<1>8. PICK i \in Nat, h \in BOOLEAN : i = q.id /\ h = q.held
  BY <1>3 DEF ImportRec
<1>9. i \in 1 .. ids /\ i \notin q.was BY <1>3, <1>8 DEF FoundOK
<1>10. PICK w : w = [name |-> n, id |-> i, v |-> v, content |-> t, held |-> h, by |-> r]
  OBVIOUS
<1>11. version' = version \cup {w} /\ w \in VersionRec
  <2>1. w \in VersionRec BY <1>5, <1>6, <1>7, <1>8, <1>10 DEF VersionRec
  <2>. QED BY <1>2, <1>6, <1>8, <1>10, <2>1
<1>12. w.name = n /\ w.id = i /\ w.v = v /\ w.content = t /\ w.by = r BY <1>10
<1>13. skill' = skill \/ (Scan[t] = "clean" /\ skill' = [skill EXCEPT ![n].text = t, ![n].latest = v])
  BY <1>2, <1>4, <1>6
<1>14. /\ skill' \in [I!Names -> [id : 0 .. MaxId, text : Contents \cup {"none"}, latest : Nat]]
       /\ \A m \in I!Names : skill'[m].id = skill[m].id
       /\ \A m \in I!Names : skill'[m].text = skill[m].text \/ Scan[skill'[m].text] = "clean"
  <2>1. CASE skill' = skill BY <1>1, <2>1
  <2>2. CASE Scan[t] = "clean" /\ skill' = [skill EXCEPT ![n].text = t, ![n].latest = v]
    <3>1. PICK b, e : b = skill[n] /\ e = [b EXCEPT !.text = t, !.latest = v] OBVIOUS
    <3>2. b \in [id : 0 .. MaxId, text : Contents \cup {"none"}, latest : Nat]
      BY <1>1, <1>5, <3>1
    <3>3. /\ e \in [id : 0 .. MaxId, text : Contents \cup {"none"}, latest : Nat]
          /\ e.id = b.id /\ e.text = t
      BY <1>6, <1>7, <3>1, <3>2
    <3>4. skill' = [skill EXCEPT ![n] = e] BY <1>1, <1>5, <2>2, <3>1
    <3>5. skill'[n] = e /\ \A m \in I!Names : m # n => skill'[m] = skill[m]
      BY <1>1, <1>5, <3>4
    <3>. QED BY <1>1, <1>5, <2>2, <3>1, <3>3, <3>4, <3>5
  <2>. QED BY <1>13, <2>1, <2>2
<1>15. PICK o : o = [q EXCEPT !.at = "source", !.v = v] OBVIOUS
<1>16. o \in ImportRec
  <2>1. "source" \in ImportSteps BY DEF ImportSteps
  <2>. QED BY <1>3, <1>7, <1>15, <2>1, RecordsStay
<1>17. /\ req' \in [Callers -> ImportRec] /\ req'[r] = o /\ \A s \in Callers : s # r => req'[s] = req[s]
  BY <1>1, <1>2, <1>15, <1>16
<1>18. Same(q, o) /\ o.at = "source" /\ o.v = v /\ o.id = i
  BY <1>3, <1>8, <1>15 DEF Same, ImportRec
<1>19. ImportTypes'
  BY <1>11, <1>14, <1>17 DEF ImportsInv, ImportTypes
<1>20. RowsApart'
  <2>1. \E b \in Nat : \A x \in version' : x.v <= b
    <3>1. PICK b \in Nat : v <= b /\ \A x \in version : x.v <= b
      BY <1>7, NumbersGrow DEF ImportsInv
    <3>. QED BY <1>11, <1>12, <3>1
  <2>2. \A x \in version' : x.id \in 1 .. ids
    BY <1>9, <1>11, <1>12 DEF ImportsInv, RowsApart
  <2>3. \A m \in bound : skill'[m].id # 0
    BY <1>14 DEF ImportsInv, ImportTypes, RowsApart
  <2>4. /\ \A m \in I!Names : skill'[m].id <= ids
        /\ \A m, p \in I!Names : skill'[m].id = skill'[p].id /\ skill'[m].id # 0 => m = p
    <3>1. /\ \A m \in I!Names : skill[m].id <= ids
          /\ \A m, p \in I!Names : skill[m].id = skill[p].id /\ skill[m].id # 0 => m = p
      BY DEF ImportsInv, RowsApart
    <3>. QED BY <1>14, <3>1
  <2>5. \A k \in 1 .. MaxId : source[k] # 0 => k <= ids BY DEF ImportsInv, RowsApart
  <2>. QED BY <2>1, <2>2, <2>3, <2>4, <2>5 DEF RowsApart
<1>21. I!HeldStaysHidden'
  BY <1>14 DEF ImportsInv, I!HeldStaysHidden
<1>22. I!SourceIsAVersions'
  BY <1>11, <1>14 DEF ImportsInv, I!SourceIsAVersions
<1>23. Evolves(r)
  BY <1>1, <1>11, <1>12, <1>14 DEF Evolves
<1>24. AskOK(o)
  BY <1>3, <1>4, <1>18 DEF AskOK, Same, Nth
<1>25. FoundOK(o)'
  <2>1. FoundOK(q)' BY <1>3, <1>19, <1>23, FoundStays DEF ImportsInv
  <2>2. Stored(n, i, v, t)' BY <1>11, <1>12 DEF Stored
  <2>3. Nth(o, 1) = n /\ Text(o) = t BY <1>5, <1>6, <1>18 DEF Same, Nth, Text
  <2>4. Stored(Nth(o, 1), o.id, o.v, Text(o))' BY <1>18, <2>2, <2>3 DEF Stored, Nth, Text
  <2>. QED BY <1>9, <1>18, <2>1, <2>4 DEF FoundOK, Same
<1>26. AddedOK(r, o)'
  <2> SUFFICES ASSUME NEW x \in version', x.by = r
               PROVE  /\ x.name \notin q.failed /\ x.id \notin q.was
                      /\ \A k \in 1 .. Len(q.todo) : x.name = Nth(q, k) => k = 1
    BY <1>18 DEF AddedOK, Same, Nth, Inserted
  <2>1. CASE x \in version BY <1>3, <2>1 DEF AddedOK
  <2>2. CASE x = w
    <3>1. n \notin q.failed BY <1>3, <1>5 DEF AskOK
    <3>2. \A k \in 1 .. Len(q.todo) : n = Nth(q, k) => k = 1 BY <1>3, <1>5, NamesDiffer
    <3>. QED BY <1>9, <1>12, <2>2, <3>1, <3>2
  <2>. QED BY <1>11, <2>1, <2>2
<1>. QED BY <1>17, <1>19, <1>20, <1>21, <1>22, <1>23, <1>24, <1>25, <1>26, RequestStepKeeps

LEMMA InsertKeeps == ASSUME ImportsInv, NEW r \in Callers, I!InsertVersion(r) PROVE ImportsInv'
<1>1. req[r].at = "insert" /\ UNCHANGED <<head, source, rule, bound, ids>> BY DEF I!InsertVersion
<1>2. CASE I!Failed(r) /\ UNCHANGED <<version, skill>>
  <2>1. PICK q : q = req[r] OBVIOUS
  <2>2. q.at \in AtWork BY <1>1, <2>1 DEF AtWork
  <2>3. req[r].todo # << >> BY <2>1, <2>2, AtHand
  <2>. QED BY <1>1, <1>2, <2>3, FailedKeeps
<1>3. CASE ~ (I!Failed(r) /\ UNCHANGED <<version, skill>>)
  BY <1>1, <1>3, InsertedKeeps DEF I!InsertVersion
<1>. QED BY <1>2, <1>3

-----------------------------------------------------------------------------
(* The acts of others, that add no version.                                  *)
LEMMA OthersKeep ==
  ASSUME ImportsInv, NEW s, Evolves(s), ImportTypes', RowsApart',
         I!HeldStaysHidden', I!SourceIsAVersions', UNCHANGED req, version' \subseteq version
  PROVE  ImportsInv'
<1>1. ASSUME NEW r \in Callers PROVE AskOK(req[r])' /\ FoundOK(req[r])' /\ AddedOK(r, req[r])'
  <2>1. PICK q : q = req[r] OBVIOUS
  <2>5. req'[r] = q BY <2>1
  <2>2. q \in ImportRec /\ AskOK(q) /\ FoundOK(q) /\ AddedOK(r, q) BY <2>1 DEF ImportsInv, ImportTypes
  <2>3. FoundOK(q)' BY <2>2, FoundStays DEF ImportsInv
  <2>4. AddedOK(r, q)' BY <2>2 DEF AddedOK, Nth
  <2>6. AskOK(q)' BY <2>2 DEF AskOK, Nth, Text
  <2>. QED BY <2>3, <2>4, <2>5, <2>6 DEF AskOK, FoundOK, AddedOK, Nth, Text, Stored
<1>. QED BY <1>1 DEF ImportsInv

LEMMA OthersQuiet ==
  ASSUME ImportsInv, UNCHANGED <<skill, version, source, ids, req>>, head' \in DOMAIN Tree,
         rule' \in [I!Names -> Callers \cup {"none", "someone"}], bound' \subseteq I!Names,
         bound \subseteq bound', \A m \in bound' : skill[m].id # 0
  PROVE  ImportsInv'
<1>1. ImportTypes' BY DEF ImportsInv, ImportTypes
<1>2. RowsApart' /\ I!HeldStaysHidden' /\ I!SourceIsAVersions'
  BY DEF ImportsInv, RowsApart, I!HeldStaysHidden, I!SourceIsAVersions
<1>3. Evolves(0) BY ImportsAssumption DEF Evolves, ImportsInv, ImportTypes
<1>. QED BY <1>1, <1>2, <1>3, OthersKeep

LEMMA OthersActKeeps ==
  ASSUME ImportsInv, I!Push \/ \E n \in I!Names : I!Adopt(n) \/ I!Own(n)
  PROVE  ImportsInv'
<1>1. /\ head \in DOMAIN Tree /\ bound \subseteq I!Names
      /\ rule \in [I!Names -> Callers \cup {"none", "someone"}]
      /\ \A m \in bound : skill[m].id # 0
  BY DEF ImportsInv, ImportTypes, RowsApart
<1>2. CASE I!Push BY <1>1, <1>2, OthersQuiet DEF I!Push
<1>3. ASSUME NEW n \in I!Names, I!Adopt(n) PROVE ImportsInv'
  BY <1>1, <1>3, OthersQuiet DEF I!Adopt
<1>4. ASSUME NEW n \in I!Names, I!Own(n) PROVE ImportsInv'
  BY <1>1, <1>4, OthersQuiet DEF I!Own
<1>. QED BY <1>2, <1>3, <1>4

LEMMA DeleteSkillKeeps == ASSUME ImportsInv, NEW n \in I!Names, I!DeleteSkill(n) PROVE ImportsInv'
<1>1. /\ skill \in [I!Names -> [id : 0 .. MaxId, text : Contents \cup {"none"}, latest : Nat]]
      /\ source \in [1 .. MaxId -> {0} \cup DOMAIN Tree] /\ ids \in Nat
      /\ I!NoSkill \in [id : 0 .. MaxId, text : Contents \cup {"none"}, latest : Nat]
      /\ I!NoSkill.id = 0 /\ I!NoSkill.text = "none"
  BY ImportsAssumption DEF ImportsInv, ImportTypes, I!NoSkill, I!None
<1>2. PICK i : i = skill[n].id OBVIOUS
<1>3. /\ i # 0 /\ version' = {w \in version : w.id # i} /\ source' = [source EXCEPT ![i] = 0]
      /\ bound' = bound \ {n} /\ skill' = [skill EXCEPT ![n] = I!NoSkill]
      /\ UNCHANGED <<head, rule, req, ids>>
  BY <1>2 DEF I!DeleteSkill
<1>4. /\ skill' \in [I!Names -> [id : 0 .. MaxId, text : Contents \cup {"none"}, latest : Nat]]
      /\ skill'[n] = I!NoSkill /\ \A m \in I!Names : m # n => skill'[m] = skill[m]
  BY <1>1, <1>3
<1>5. source' \in [1 .. MaxId -> {0} \cup DOMAIN Tree] /\ \A k \in 1 .. MaxId : source'[k] \in {0, source[k]}
  BY <1>1, <1>3
<1>6. ImportTypes'
  BY <1>3, <1>4, <1>5 DEF ImportsInv, ImportTypes
<1>7. \A m \in I!Names : m # n => skill[m].id # i
  BY <1>2, <1>3 DEF ImportsInv, RowsApart
<1>8. RowsApart'
  <2>1. \A m \in I!Names : skill'[m].id <= ids
    <3>1. \A m \in I!Names : skill[m].id <= ids BY DEF ImportsInv, RowsApart
    <3>2. skill'[n].id = 0 /\ 0 <= ids BY <1>1, <1>4
    <3>3. \A m \in I!Names : m # n => skill'[m].id <= ids BY <1>4, <3>1
    <3>. QED BY <3>2, <3>3
  <2>2. \A m, p \in I!Names : skill'[m].id = skill'[p].id /\ skill'[m].id # 0 => m = p
    <3>1. \A m, p \in I!Names : skill[m].id = skill[p].id /\ skill[m].id # 0 => m = p
      BY DEF ImportsInv, RowsApart
    <3>2. skill'[n].id = 0 BY <1>1, <1>4
    <3>3. \A m \in I!Names : m # n => skill'[m].id = skill[m].id BY <1>4
    <3>. QED BY <3>1, <3>2, <3>3
  <2>3. \A m \in bound' : skill'[m].id # 0
    BY <1>3, <1>4 DEF ImportsInv, ImportTypes, RowsApart
  <2>4. \A k \in 1 .. MaxId : source'[k] # 0 => k <= ids
    BY <1>5 DEF ImportsInv, RowsApart
  <2>. QED BY <1>3, <2>1, <2>2, <2>3, <2>4 DEF ImportsInv, RowsApart
<1>9. I!HeldStaysHidden'
  BY <1>1, <1>4 DEF ImportsInv, I!HeldStaysHidden, I!None
<1>10. I!SourceIsAVersions'
  <2> SUFFICES ASSUME NEW m \in I!Names, skill'[m].id # 0, source'[skill'[m].id] # 0
               PROVE  \E w \in version' : w.id = skill'[m].id /\ w.content = Tree[source'[skill'[m].id]][m[2]]
    BY DEF I!SourceIsAVersions
  <2>1. m # n /\ skill'[m] = skill[m] /\ skill[m].id # i /\ skill[m].id \in 1 .. MaxId
    BY <1>1, <1>4, <1>7, ImportsAssumption
  <2>2. source'[skill[m].id] = source[skill[m].id] BY <1>5, <2>1
  <2>3. PICK w \in version : w.id = skill[m].id /\ w.content = Tree[source[skill[m].id]][m[2]]
    BY <2>1, <2>2 DEF ImportsInv, I!SourceIsAVersions
  <2>. QED BY <1>3, <2>1, <2>2, <2>3
<1>11. Evolves(0)
  <2>1. \A w \in version : w \in version' \/ \A m \in I!Names : skill'[m].id # w.id
    BY <1>1, <1>3, <1>4, <1>7
  <2>. QED BY <1>1, <1>3, <1>4, <2>1 DEF Evolves, ImportsInv, ImportTypes
<1>. QED BY <1>3, <1>6, <1>8, <1>9, <1>10, <1>11, OthersKeep

LEMMA ImportsKeep == ASSUME ImportsInv, I!Next PROVE ImportsInv'
<1>1. ASSUME NEW r \in Callers, I!Import(r) PROVE ImportsInv'
  <2>1. ASSUME NEW todo \in I!Selections, I!Pack(r, todo) PROVE ImportsInv'
    <3>1. "none" \in {"none", plugin} OBVIOUS
    <3>. QED BY <2>1, <3>1, BeginsRequest
  <2>2. ASSUME NEW todo \in I!Selections, NEW ns \in {"none", plugin}, I!Resolve(r, ns, todo) PROVE ImportsInv'
    BY <2>2, BeginsRequest
  <2>. QED BY <1>1, <2>1, <2>2, StartsWork, CheckKeeps, DecideKeeps, RowKeeps, FailKeeps, WriteKeeps, InsertKeeps,
              SourceKeeps, ClaimKeeps, ReportKeeps, AnswerKeeps DEF I!Import, I!None
<1>. QED BY <1>1, OthersActKeeps, DeleteSkillKeeps DEF I!Next

LEMMA ImportsStay == ASSUME ImportsInv, UNCHANGED iVars PROVE ImportsInv'
<1>1. UNCHANGED <<head, skill, version, source, ids, req, rule, bound>> BY DEF iVars
<1>2. /\ head' \in DOMAIN Tree /\ bound' \subseteq I!Names
      /\ rule' \in [I!Names -> Callers \cup {"none", "someone"}] /\ \A m \in bound' : skill[m].id # 0
  BY <1>1 DEF ImportsInv, ImportTypes, RowsApart
<1>. QED BY <1>1, <1>2, OthersQuiet

LEMMA ImportsBegin == ASSUME CatalogInit PROVE ImportsInv
<1>1. /\ head = 1 /\ skill = [n \in I!Names |-> I!NoSkill] /\ version = {} /\ source = [i \in 1 .. MaxId |-> 0]
      /\ rule = [n \in I!Names |-> "none"] /\ bound = {} /\ req = [r \in Callers |-> I!Idle] /\ ids = 0
  BY DEF CatalogInit, I!Init, I!None
<1>2. I!NoSkill \in [id : 0 .. MaxId, text : Contents \cup {"none"}, latest : Nat]
      /\ I!NoSkill.id = 0 /\ I!NoSkill.text = "none"
  BY ImportsAssumption DEF I!NoSkill, I!None
<1>3. I!Idle \in ImportRec
  <2>1. << >> \in Seq(Spots) OBVIOUS
  <2>. QED BY <2>1 DEF I!Idle, I!None, ImportRec, ImportSteps
<1>4. /\ I!Idle.at = "idle" /\ I!Idle.todo = << >> /\ I!Idle.imported = {}
      /\ I!Idle.failed = {} /\ I!Idle.was = {}
  BY DEF I!Idle
<1>5. ImportTypes BY <1>1, <1>2, <1>3, ImportsAssumption DEF ImportTypes
<1>6. RowsApart BY <1>1, <1>2 DEF RowsApart
<1>7. I!HeldStaysHidden /\ I!SourceIsAVersions
  BY <1>1, <1>2 DEF I!HeldStaysHidden, I!SourceIsAVersions, I!None
<1>8. ASSUME NEW r \in Callers PROVE AskOK(req[r]) /\ FoundOK(req[r]) /\ AddedOK(r, req[r])
  BY <1>1, <1>4 DEF AskOK, FoundOK, AddedOK, AtWork, Inserted
<1>. QED BY <1>5, <1>6, <1>7, <1>8 DEF ImportsInv

LEMMA ImportsInvTells == ASSUME ImportsInv PROVE ImportsTellTheTruth
<1>1. ImportTypes /\ RowsApart BY DEF ImportsInv
<1>2. ASSUME NEW r \in Callers
      PROVE  req[r] \in ImportRec /\ FoundOK(req[r]) /\ AddedOK(r, req[r])
  BY DEF ImportsInv, ImportTypes
<1>3. I!TypeOK
  <2>1. \A n \in I!Names : skill[n].id \in 0 .. MaxId BY <1>1 DEF ImportTypes
  <2>2. \A v \in version : v.id \in 1 .. ids /\ v.held \in BOOLEAN /\ v.by \in Callers
    BY <1>1 DEF ImportTypes, RowsApart, VersionRec
  <2>3. \A r \in Callers : req[r].failed \subseteq I!Names /\ req[r].exit \in {"none", "0", "1"}
    BY <1>2 DEF ImportRec
  <2>. QED BY <1>1, <2>1, <2>2, <2>3 DEF I!TypeOK, ImportTypes, I!None
<1>4. I!GitKeepsItsSkills
  <2> SUFFICES ASSUME NEW v \in version PROVE v.id \notin req[v.by].was
    BY DEF I!GitKeepsItsSkills
  <2>1. v.by \in Callers BY <1>1 DEF ImportTypes, VersionRec
  <2>. QED BY <1>2, <2>1 DEF AddedOK
<1>5. I!ReportsAreTrue
  <2> SUFFICES ASSUME NEW r \in Callers
               PROVE  /\ \A m \in req[r].imported :
                           skill[m.name].id = m.id =>
                             \E v \in version : /\ v.id = m.id /\ v.v = m.v
                                                /\ v.content = Tree[req[r].commit][m.name[2]]
                      /\ \A v \in version : v.by = r => v.name \notin req[r].failed
    BY DEF I!ReportsAreTrue
  <2>1. PICK q : q = req[r] OBVIOUS
  <2>2. FoundOK(q) /\ AddedOK(r, q) BY <1>2, <2>1
  <2>3. \A m \in q.imported : Stored(m.name, m.id, m.v, Tree[q.commit][m.name[2]])
    BY <2>2 DEF FoundOK
  <2>4. \A v \in version : v.by = r => v.name \notin q.failed BY <2>2 DEF AddedOK
  <2>. QED BY <2>1, <2>3, <2>4 DEF Stored
<1>. QED BY <1>3, <1>4, <1>5 DEF ImportsInv, ImportsTellTheTruth

(* Whatever requests do beside each other, beside connections that adopt     *)
(* skills and people who delete and own them, each stays in step with the    *)
(* rows and versions it has found and added (import/routes.go).              *)
THEOREM ImportsInvariant == CatalogSpec => []ImportsInv
<1>1. CatalogInit => ImportsInv BY ImportsBegin
<1>2. ImportsInv /\ [CatalogNext]_catalog => ImportsInv'
  <2> SUFFICES ASSUME ImportsInv, [CatalogNext]_catalog PROVE ImportsInv' OBVIOUS
  <2>1. CASE Imports BY <2>1, ImportsKeep DEF Imports
  <2>2. CASE Following BY <2>2, ImportsStay DEF Following
  <2>3. CASE UNCHANGED catalog BY <2>3, ImportsStay DEF catalog
  <2>. QED BY <2>1, <2>2, <2>3 DEF CatalogNext
<1>. QED BY <1>1, <1>2, PTL DEF CatalogSpec

(* An import's answer says what happened, text the scan holds never reaches  *)
(* a row, and a skill that was git-bound gets no version from it.            *)
THEOREM ImportsStayTrue == CatalogSpec => []ImportsTellTheTruth
<1>1. ImportsInv => ImportsTellTheTruth BY ImportsInvTells
<1>. QED BY <1>1, ImportsInvariant, PTL

-----------------------------------------------------------------------------
(* The ledger of runs.                                                       *)
RowRec  == [skill : Titles, version : L!Versions, run : L!Runs, registered : BOOLEAN]
LockSet == {L!KeyOf(s) : s \in L!Sends} \cup {L!RunOf(c, r) : c \in Consumers, r \in L!Runs}
TaskRec == [at : {"idle", "key", "events", "committed", "aborted"}, i : Nat \ {0},
            locks : SUBSET LockSet, rows : Seq(RowRec), answer : Nat]
PutRec  == [at : {"idle", "read", "write", "committed", "aborted"},
            locks : SUBSET LockSet, old : Reports \cup {"none"}]
RunRec  == [known : BOOLEAN, outcome : Reports \cup {"none"}]

LedgerTypes ==
  /\ named \subseteq Titles /\ oldName \in [Titles -> Titles \cup {"none"}]
  /\ dismissed \subseteq Titles /\ replaced \subseteq Reports
  /\ run \in [Consumers \X L!Runs -> RunRec]
  /\ runSkill \subseteq Consumers \X L!Runs \X Titles \X L!Versions
  /\ task \in [L!Sends -> TaskRec] /\ put \in [Reports -> PutRec]

(* An alias leads to a skill that is there.                                  *)
AliasesLead == \A a \in Titles : oldName[a] # "none" => oldName[a] \in named

OutcomeIsKnown == \A p \in DOMAIN run : run[p].outcome # "none" => run[p].known

(* What is answered has been stored, and for good.                           *)
Loads(s) == L!Of(s).events
Keyed(s) == L!Of(s).key # "none"
InRunSkills(s, stored) ==
  \A i \in DOMAIN Loads(s) :
    <<L!Of(s).consumer, Loads(s)[i].run, Loads(s)[i].skill, Loads(s)[i].version>> \in stored

(* A transaction has inserted the first i - 1 events of its batch, and holds *)
(* the key, which nobody has committed.                                      *)
SendOK(s, q) ==
  /\ q.at \in {"idle", "key"} => q.i = 1 /\ q.rows = <<>>
  /\ q.at = "key" => Keyed(s)
  /\ q.at = "events" =>
       /\ q.i <= Len(Loads(s)) + 1 /\ Len(q.rows) = q.i - 1
       /\ \A j \in 1..q.i - 1 : /\ q.rows[j].run = Loads(s)[j].run
                                /\ q.rows[j].skill = Loads(s)[j].skill
                                /\ q.rows[j].version = Loads(s)[j].version
       /\ Keyed(s) => L!KeyOf(s) \in q.locks /\ L!KeyOf(s) \notin DOMAIN batch
  /\ q.at = "committed" => q.answer = Len(Loads(s)) /\ InRunSkills(s, runSkill)

KeysApart ==
  \A s, t \in L!Sends :
    task[s].at = "events" /\ task[t].at = "events" /\ Keyed(s) /\ L!KeyOf(s) = L!KeyOf(t) => s = t

(* A stored key stands for its batch, stored once.                           *)
KeysStored ==
  \A s \in L!Sends : Keyed(s) /\ L!KeyOf(s) \in DOMAIN batch =>
    batch[L!KeyOf(s)] = Len(Loads(s)) /\ InRunSkills(s, runSkill)

OfBatch(s, events) == {e \in events : e.batch = s[1]}

EventsKeyed ==
  /\ \A e \in event : e.skill \in Titles /\ e.registered \in BOOLEAN /\ e.consumer \in Consumers \cup {"none"}
  /\ \A s \in L!Sends : Keyed(s) =>
       /\ OfBatch(s, event) # {} => L!KeyOf(s) \in DOMAIN batch
       /\ IsFiniteSet(OfBatch(s, event)) /\ Cardinality(OfBatch(s, event)) <= Len(Loads(s))

(* An outcome's transaction holds the run's row, so what it read is what it  *)
(* replaces.                                                                 *)
RowOf(o) == <<Report[o].consumer, Report[o].run>>
Writing(q) == q.at \in {"read", "write"}
PutOK(o, q) ==
  /\ Writing(q) => L!RunOf(Report[o].consumer, Report[o].run) \in q.locks
  /\ q.at = "write" => q.old = run[RowOf(o)].outcome
  /\ q.at = "committed" => run[RowOf(o)].outcome = o \/ o \in replaced
PutsApart ==
  \A o, p \in Reports : Writing(put[o]) /\ Writing(put[p]) /\ RowOf(o) = RowOf(p) => o = p

LedgerInv ==
  /\ LedgerTypes /\ AliasesLead /\ OutcomeIsKnown
  /\ \A s \in L!Sends : SendOK(s, task[s])
  /\ KeysApart /\ KeysStored /\ EventsKeyed
  /\ \A o \in Reports : PutOK(o, put[o])
  /\ PutsApart

ledgerVars == <<named, oldName, dismissed, event, run, runSkill, batch, replaced, task, put>>

-----------------------------------------------------------------------------
LEMMA SendIs ==
  ASSUME NEW s \in L!Sends
  PROVE  /\ s[1] \in Batches /\ L!Of(s) = Batch[s[1]] /\ L!Of(s).consumer \in Consumers
         /\ Len(Loads(s)) \in Nat /\ DOMAIN Loads(s) = 1..Len(Loads(s))
         /\ s[1] # "none"
  <1>1. PICK b \in Batches : s \in {b} \X (1..Batch[b].sent)
    BY DEF L!Sends
  <1>2. s[1] = b
    BY <1>1
  <1> QED
    BY <1>2, LedgerAssumption DEF L!Of, Loads

LEMMA LoadIs ==
  ASSUME NEW s \in L!Sends, NEW i \in DOMAIN Loads(s)
  PROVE  Loads(s)[i].run \in L!Runs /\ Loads(s)[i].version \in L!Versions /\ Loads(s)[i].skill \in Titles
  <1>1. s[1] \in Batches /\ Loads(s) = Batch[s[1]].events
    BY SendIs DEF Loads
  <1>2. Loads(s)[i] \in UNION {L!Range(Batch[b].events) : b \in Batches}
    BY <1>1 DEF L!Range
  <1>3. Loads(s)[i].skill \in Titles
    BY <1>1, SendIs, LedgerAssumption
  <1> QED
    BY <1>2, <1>3 DEF L!Runs, L!Versions

LEMMA RowIs ==
  ASSUME NEW o \in Reports
  PROVE  /\ Report[o].consumer \in Consumers /\ Report[o].run \in L!Runs
         /\ RowOf(o) \in Consumers \X L!Runs
  BY LedgerAssumption DEF RowOf, L!Runs

LEMMA LocksAre ==
  /\ \A s \in L!Sends : L!KeyOf(s) \in LockSet
  /\ \A c \in Consumers, r \in L!Runs : L!RunOf(c, r) \in LockSet
  BY DEF LockSet

(* Two tries with one key are of one batch.                                  *)
LEMMA OneKey ==
  ASSUME NEW s \in L!Sends, NEW t \in L!Sends, Keyed(s), L!KeyOf(s) = L!KeyOf(t)
  PROVE  s[1] = t[1] /\ Loads(s) = Loads(t) /\ L!Of(s) = L!Of(t) /\ Keyed(t)
  <1>1. /\ s[1] \in Batches /\ t[1] \in Batches
        /\ L!Of(s) = Batch[s[1]] /\ L!Of(t) = Batch[t[1]]
    BY SendIs
  <1>2. Batch[s[1]].consumer = Batch[t[1]].consumer /\ Batch[s[1]].key = Batch[t[1]].key
    BY <1>1 DEF L!KeyOf
  <1>3. s[1] = t[1]
    BY <1>1, <1>2, LedgerAssumption DEF Keyed
  <1> QED
    BY <1>1, <1>3 DEF Loads, Keyed

LEMMA SameCount == ASSUME NEW S PROVE L!Cardinality(S) = Cardinality(S)
  BY DEF L!Cardinality, Cardinality

LEMMA LedgerTells == ASSUME LedgerInv PROVE LedgerAddsUp
  <1>1. L!TypeOK
    BY DEF LedgerInv, LedgerTypes, L!TypeOK, L!None, EventsKeyed, OutcomeIsKnown, RunRec
  <1>2. L!BatchesStoreOnce
    <2> SUFFICES ASSUME NEW s \in L!Sends
                 PROVE  /\ task[s].at = "committed" =>
                             /\ \A e \in L!Range(L!Of(s).events) : <<L!Of(s).consumer, e.run, e.skill, e.version>> \in runSkill
                             /\ task[s].answer = Len(L!Of(s).events)
                        /\ L!Of(s).key # L!None => L!Cardinality({e \in event : e.batch = s[1]}) <= Len(L!Of(s).events)
      BY DEF L!BatchesStoreOnce
    <2>1. SendOK(s, task[s]) /\ EventsKeyed
      BY DEF LedgerInv
    <2> QED
      BY <2>1, SameCount DEF SendOK, InRunSkills, Loads, L!Range, EventsKeyed, OfBatch, Keyed, L!None
  <1>3. L!OutcomesAreAudited
    BY DEF LedgerInv, PutOK, L!OutcomesAreAudited, RowOf
  <1>4. L!QueriesAgree
    <2> SUFFICES ASSUME NEW f \in L!Filters
                 PROVE  /\ L!TotalActivations(f) = UNION {L!Activations(n, f) : n \in L!Table(f)}
                        /\ \A e \in L!Matching(f) \ L!TotalActivations(f) : e.skill \in L!UnregisteredSkills \cup dismissed
      BY DEF L!QueriesAgree
    <2>1. ASSUME NEW e \in L!TotalActivations(f)
          PROVE  e \in UNION {L!Activations(n, f) : n \in L!Table(f)}
      <3> DEFINE n == L!Canonical(e.skill)
      <3>1. e \in L!Matching(f) /\ n \in named
        BY <2>1 DEF L!TotalActivations
      <3>2. e \in L!Activations(n, f) /\ n \in L!Table(f)
        BY <3>1 DEF L!Activations, L!Table
      <3> QED
        BY <3>2
    <2>2. ASSUME NEW e \in UNION {L!Activations(n, f) : n \in L!Table(f)}
          PROVE  e \in L!TotalActivations(f)
      <3>1. PICK n \in L!Table(f) : e \in L!Activations(n, f)
        BY <2>2
      <3> QED
        BY <3>1 DEF L!TotalActivations, L!Activations, L!Table
    <2>3. ASSUME NEW e \in L!Matching(f) \ L!TotalActivations(f)
          PROVE  e.skill \in L!UnregisteredSkills \cup dismissed
      <3>1. e \in event /\ L!Canonical(e.skill) \notin named
        BY <2>3 DEF L!Matching, L!TotalActivations
      <3>2. e.skill \in Titles
        BY <3>1 DEF LedgerInv, EventsKeyed
      <3>3. oldName[e.skill] = "none" /\ e.skill \notin named
        BY <3>1, <3>2 DEF LedgerInv, AliasesLead, L!Canonical, L!None
      <3> QED
        BY <3>1, <3>2, <3>3 DEF L!UnregisteredSkills, L!None
    <2> QED
      BY <2>1, <2>2, <2>3
  <1> QED
    BY <1>1, <1>2, <1>3, <1>4 DEF LedgerAddsUp

-----------------------------------------------------------------------------
others == <<named, oldName, dismissed, event, run, runSkill, batch, replaced>>

LEMMA TaskStep ==
  ASSUME LedgerInv, UNCHANGED <<others, put>>,
         NEW s \in L!Sends, NEW q \in TaskRec, task' = [task EXCEPT ![s] = q],
         SendOK(s, q),
         \A t \in L!Sends : q.at = "events" /\ Keyed(s) /\ L!KeyOf(t) = L!KeyOf(s) /\ task[t].at = "events" => t = s
  PROVE  LedgerInv'
  <1>1. task \in [L!Sends -> TaskRec]
    BY DEF LedgerInv, LedgerTypes
  <1>2. \A t \in L!Sends : task'[t] = IF t = s THEN q ELSE task[t]
    BY <1>1
  <1>3. LedgerTypes'
    BY <1>1 DEF LedgerInv, LedgerTypes, others
  <1>4. (\A t \in L!Sends : SendOK(t, task[t]))'
    BY <1>2 DEF LedgerInv, SendOK, others
  <1>5. KeysApart'
    <2>1. ASSUME NEW t \in L!Sends, NEW u \in L!Sends, task'[t].at = "events", task'[u].at = "events",
                 Keyed(t), L!KeyOf(t) = L!KeyOf(u)
          PROVE  t = u
      <3>1. Keyed(u)
        BY <2>1, OneKey
      <3> QED
        BY <1>2, <2>1, <3>1 DEF LedgerInv, KeysApart
    <2> QED
      BY <2>1 DEF KeysApart
  <1>6. AliasesLead' /\ OutcomeIsKnown' /\ KeysStored' /\ EventsKeyed'
    BY DEF LedgerInv, others, AliasesLead, OutcomeIsKnown, KeysStored, EventsKeyed, OfBatch
  <1>7. (\A o \in Reports : PutOK(o, put[o]))' /\ PutsApart'
    BY DEF LedgerInv, others, PutOK, PutsApart
  <1> QED
    BY <1>3, <1>4, <1>5, <1>6, <1>7 DEF LedgerInv

LEMMA PutStep ==
  ASSUME LedgerInv, UNCHANGED <<others, task>>,
         NEW o \in Reports, NEW q \in PutRec, put' = [put EXCEPT ![o] = q],
         PutOK(o, q),
         \A p \in Reports : Writing(q) /\ Writing(put[p]) /\ RowOf(o) = RowOf(p) => o = p
  PROVE  LedgerInv'
  <1>1. put \in [Reports -> PutRec]
    BY DEF LedgerInv, LedgerTypes
  <1>2. \A p \in Reports : put'[p] = IF p = o THEN q ELSE put[p]
    BY <1>1
  <1>3. LedgerTypes'
    BY <1>1 DEF LedgerInv, LedgerTypes, others
  <1>4. (\A p \in Reports : PutOK(p, put[p]))'
    BY <1>2 DEF LedgerInv, PutOK, others
  <1>5. PutsApart'
    BY <1>2 DEF LedgerInv, PutsApart
  <1>6. AliasesLead' /\ OutcomeIsKnown' /\ KeysStored' /\ EventsKeyed'
    BY DEF LedgerInv, others, AliasesLead, OutcomeIsKnown, KeysStored, EventsKeyed, OfBatch
  <1>7. (\A s \in L!Sends : SendOK(s, task[s]))' /\ KeysApart'
    BY DEF LedgerInv, others, SendOK, KeysApart
  <1> QED
    BY <1>3, <1>4, <1>5, <1>6, <1>7 DEF LedgerInv

LEMMA TaskIs ==
  ASSUME LedgerInv, NEW s \in L!Sends
  PROVE  task[s] \in TaskRec /\ SendOK(s, task[s]) /\ task \in [L!Sends -> TaskRec]
  BY DEF LedgerInv, LedgerTypes

LEMMA PutIs ==
  ASSUME LedgerInv, NEW o \in Reports
  PROVE  put[o] \in PutRec /\ PutOK(o, put[o]) /\ put \in [Reports -> PutRec]
  BY DEF LedgerInv, LedgerTypes

LEMMA SendKeeps == ASSUME LedgerInv, NEW s \in L!Sends, L!Send(s) PROVE LedgerInv'
  <1> DEFINE at == IF L!Of(s).key = "none" THEN "events" ELSE "key"
  <1>1. PICK q : q = [task[s] EXCEPT !.at = at]
    OBVIOUS
  <1>2. task[s] \in TaskRec /\ SendOK(s, task[s]) /\ task[s].at = "idle" /\ task \in [L!Sends -> TaskRec]
    BY TaskIs DEF L!Send
  <1>3. q \in TaskRec
    BY <1>1, <1>2 DEF TaskRec
  <1>4. task' = [task EXCEPT ![s] = q]
    BY <1>1, <1>2 DEF L!Send, L!None
  <1>5. q.i = 1 /\ q.rows = <<>> /\ q.at = at
    BY <1>1, <1>2 DEF TaskRec, SendOK
  <1>6. SendOK(s, q)
    BY <1>5, SendIs DEF SendOK, Keyed
  <1>7. UNCHANGED <<others, put>>
    BY DEF L!Send, L!registry, others
  <1>8. q.at = "events" => ~ Keyed(s)
    BY <1>5 DEF Keyed
  <1> QED
    BY <1>3, <1>4, <1>6, <1>7, <1>8, TaskStep

LEMMA ClaimKeyKeeps == ASSUME LedgerInv, NEW s \in L!Sends, L!ClaimKey(s) PROVE LedgerInv'
  <1>1. PICK q : q = [task[s] EXCEPT !.at = "events", !.locks = @ \cup {L!KeyOf(s)}]
    OBVIOUS
  <1>2. /\ task[s] \in TaskRec /\ SendOK(s, task[s]) /\ task[s].at = "key"
        /\ task \in [L!Sends -> TaskRec] /\ L!Fresh(s)
    BY TaskIs DEF L!ClaimKey
  <1>3. q \in TaskRec
    BY <1>1, <1>2, LocksAre DEF TaskRec
  <1>4. task' = [task EXCEPT ![s] = q]
    BY <1>1, <1>2 DEF L!ClaimKey
  <1>5. q.i = 1 /\ q.rows = <<>> /\ q.at = "events" /\ L!KeyOf(s) \in q.locks
    BY <1>1, <1>2 DEF TaskRec, SendOK
  <1>6. SendOK(s, q)
    BY <1>2, <1>5, SendIs DEF SendOK, L!Fresh
  <1>7. UNCHANGED <<others, put>>
    BY DEF L!ClaimKey, L!registry, others
  <1>8. ASSUME NEW t \in L!Sends, Keyed(s), L!KeyOf(t) = L!KeyOf(s), task[t].at = "events"
        PROVE  FALSE
    <2>1. Keyed(t)
      BY <1>8, OneKey
    <2>2. L!KeyOf(t) \in task[t].locks
      BY <1>8, <2>1, TaskIs DEF SendOK
    <2> QED
      BY <1>2, <1>8, <2>2 DEF L!Fresh, L!Held
  <1> QED
    BY <1>3, <1>4, <1>6, <1>7, <1>8, TaskStep

LEMMA RepeatKeeps == ASSUME LedgerInv, NEW s \in L!Sends, L!Repeat(s) PROVE LedgerInv'
  <1>1. PICK q : q = [task[s] EXCEPT !.at = "committed", !.answer = batch[L!KeyOf(s)]]
    OBVIOUS
  <1>2. task[s] \in TaskRec /\ task \in [L!Sends -> TaskRec] /\ L!KeyOf(s) \in DOMAIN batch /\ Keyed(s)
    BY TaskIs DEF L!Repeat, SendOK
  <1>3. batch[L!KeyOf(s)] = Len(Loads(s)) /\ InRunSkills(s, runSkill) /\ Len(Loads(s)) \in Nat
    BY <1>2, SendIs DEF LedgerInv, KeysStored
  <1>4. q \in TaskRec
    BY <1>1, <1>2, <1>3 DEF TaskRec
  <1>5. task' = [task EXCEPT ![s] = q]
    BY <1>1, <1>2 DEF L!Repeat
  <1>6. q.at = "committed" /\ q.answer = Len(Loads(s))
    BY <1>1, <1>2, <1>3 DEF TaskRec
  <1>7. SendOK(s, q)
    BY <1>3, <1>6 DEF SendOK
  <1>8. UNCHANGED <<others, put>>
    BY DEF L!Repeat, L!registry, others
  <1> QED
    BY <1>4, <1>5, <1>6, <1>7, <1>8, TaskStep

LEMMA AbortSendKeeps == ASSUME LedgerInv, NEW s \in L!Sends, L!AbortSend(s) PROVE LedgerInv'
  <1>1. PICK q : q = [task[s] EXCEPT !.at = "aborted", !.locks = {}, !.rows = <<>>]
    OBVIOUS
  <1>2. task[s] \in TaskRec /\ task \in [L!Sends -> TaskRec]
    BY TaskIs
  <1>3. q \in TaskRec
    <2>1. <<>> \in Seq(RowRec) /\ {} \in SUBSET LockSet
      OBVIOUS
    <2> QED
      BY <1>1, <1>2, <2>1 DEF TaskRec
  <1>4. task' = [task EXCEPT ![s] = q]
    BY <1>1, <1>2 DEF L!AbortSend
  <1>5. q.at = "aborted"
    BY <1>1, <1>2 DEF TaskRec
  <1>6. SendOK(s, q)
    BY <1>5 DEF SendOK
  <1>7. UNCHANGED <<others, put>>
    BY DEF L!AbortSend, L!registry, others
  <1> QED
    BY <1>3, <1>4, <1>5, <1>6, <1>7, TaskStep

LEMMA StoreEventKeeps == ASSUME LedgerInv, NEW s \in L!Sends, L!StoreEvent(s) PROVE LedgerInv'
  <1> DEFINE i == task[s].i
             e == Loads(s)[i]
             lock == L!RunOf(L!Of(s).consumer, e.run)
             row == [skill |-> e.skill, version |-> e.version, run |-> e.run,
                     registered |-> L!Canonical(e.skill) \in named]
  <1>1. PICK q : q = [task[s] EXCEPT !.i = @ + 1, !.locks = @ \cup {lock}, !.rows = Append(@, row)]
    OBVIOUS
  <1>2. /\ task[s] \in TaskRec /\ SendOK(s, task[s]) /\ task \in [L!Sends -> TaskRec]
        /\ task[s].at = "events" /\ i <= Len(Loads(s)) /\ i \in Nat \ {0}
    BY TaskIs DEF L!StoreEvent, Loads, TaskRec
  <1>3. task' = [task EXCEPT ![s] = q]
    <2>1. task' = [task EXCEPT ![s].i = @ + 1, ![s].locks = @ \cup {lock}, ![s].rows = Append(@, row)]
      BY DEF L!StoreEvent, Loads
    <2> HIDE DEF row, lock
    <2> QED
      BY <1>1, <1>2, <2>1
  <1>4. i \in DOMAIN Loads(s)
    BY <1>2, SendIs
  <1>5. row \in RowRec /\ row.skill = e.skill /\ row.version = e.version /\ row.run = e.run
    BY <1>4, LoadIs DEF RowRec
  <1>6. lock \in LockSet
    BY <1>4, LoadIs, SendIs, LocksAre
  <1> HIDE DEF row, lock
  <1>7. task[s].rows \in Seq(RowRec) /\ task[s].locks \in SUBSET LockSet
    BY <1>2 DEF TaskRec
  <1>8. q \in TaskRec
    <2>1. i + 1 \in Nat \ {0} /\ task[s].locks \cup {lock} \in SUBSET LockSet
      BY <1>2, <1>6, <1>7
    <2>2. Append(task[s].rows, row) \in Seq(RowRec)
      BY <1>5, <1>7
    <2> QED
      BY <1>1, <1>2, <2>1, <2>2 DEF TaskRec
  <1>9. /\ q.at = "events" /\ q.i = i + 1 /\ q.rows = Append(task[s].rows, row)
        /\ q.locks = task[s].locks \cup {lock}
    BY <1>1, <1>2 DEF TaskRec
  <1>10. SendOK(s, q)
    <2>1. Len(task[s].rows) = i - 1 /\ Len(q.rows) = i
      BY <1>2, <1>7, <1>9 DEF SendOK
    <2>2. \A j \in 1..i - 1 : q.rows[j] = task[s].rows[j]
      BY <1>7, <1>9, <2>1
    <2>3. q.rows[i] = row
      BY <1>2, <1>7, <1>9, <2>1
    <2>4. \A j \in 1..i : /\ q.rows[j].run = Loads(s)[j].run
                          /\ q.rows[j].skill = Loads(s)[j].skill
                          /\ q.rows[j].version = Loads(s)[j].version
      <3> SUFFICES ASSUME NEW j \in 1..i
                   PROVE  /\ q.rows[j].run = Loads(s)[j].run
                          /\ q.rows[j].skill = Loads(s)[j].skill
                          /\ q.rows[j].version = Loads(s)[j].version
        OBVIOUS
      <3>1. CASE j = i
        BY <1>5, <2>3, <3>1
      <3>2. CASE j # i
        <4>1. j \in 1..i - 1
          BY <1>2, <3>2
        <4> QED
          BY <1>2, <2>2, <4>1 DEF SendOK
      <3> QED
        BY <3>1, <3>2
    <2>5. q.i - 1 = i /\ q.i <= Len(Loads(s)) + 1
      BY <1>2, <1>9, SendIs
    <2>6. Keyed(s) => L!KeyOf(s) \in q.locks /\ L!KeyOf(s) \notin DOMAIN batch
      BY <1>2, <1>9 DEF SendOK
    <2> QED
      BY <1>9, <2>1, <2>4, <2>5, <2>6 DEF SendOK
  <1>11. UNCHANGED <<others, put>>
    BY DEF L!StoreEvent, L!registry, others
  <1>12. \A t \in L!Sends : Keyed(s) /\ L!KeyOf(t) = L!KeyOf(s) /\ task[t].at = "events" => t = s
    BY <1>2 DEF LedgerInv, KeysApart
  <1> QED
    BY <1>3, <1>8, <1>10, <1>11, <1>12, TaskStep

LEMMA UpsertKeeps == ASSUME LedgerInv, NEW o \in Reports, L!Upsert(o) PROVE LedgerInv'
  <1> DEFINE lock == L!RunOf(Report[o].consumer, Report[o].run)
  <1>1. PICK q : q = [put[o] EXCEPT !.at = "read", !.locks = {lock}]
    OBVIOUS
  <1>2. put[o] \in PutRec /\ put \in [Reports -> PutRec] /\ ~ L!Held(lock)
    BY PutIs DEF L!Upsert
  <1>3. q \in PutRec /\ q.at = "read" /\ q.locks = {lock}
    <2>1. {lock} \in SUBSET LockSet
      BY RowIs, LocksAre
    <2> HIDE DEF lock
    <2> QED
      BY <1>1, <1>2, <2>1 DEF PutRec
  <1>4. put' = [put EXCEPT ![o] = q]
    BY <1>1, <1>2 DEF L!Upsert
  <1>5. UNCHANGED <<others, task>>
    BY DEF L!Upsert, L!registry, others
  <1>6. ASSUME NEW p \in Reports, Writing(put[p]), RowOf(o) = RowOf(p)
        PROVE  FALSE
    <2>1. L!RunOf(Report[p].consumer, Report[p].run) \in put[p].locks
      BY <1>6, PutIs DEF PutOK
    <2>2. lock \in put[p].locks
      BY <1>6, <2>1 DEF RowOf
    <2> QED
      BY <1>2, <2>2 DEF L!Held
  <1> QED
    BY <1>3, <1>4, <1>5, <1>6, PutStep DEF PutOK

LEMMA ReadOldKeeps == ASSUME LedgerInv, NEW o \in Reports, L!ReadOld(o) PROVE LedgerInv'
  <1>1. PICK q : q = [put[o] EXCEPT !.at = "write", !.old = run[RowOf(o)].outcome]
    OBVIOUS
  <1>2. put[o] \in PutRec /\ PutOK(o, put[o]) /\ put \in [Reports -> PutRec] /\ put[o].at = "read"
    BY PutIs DEF L!ReadOld
  <1>3. run[RowOf(o)].outcome \in Reports \cup {"none"}
    BY RowIs DEF LedgerInv, LedgerTypes, RunRec
  <1>4. q \in PutRec /\ q.at = "write" /\ q.locks = put[o].locks /\ q.old = run[RowOf(o)].outcome
    BY <1>1, <1>2, <1>3 DEF PutRec
  <1>5. put' = [put EXCEPT ![o] = q]
    BY <1>1, <1>2 DEF L!ReadOld, RowOf
  <1>6. UNCHANGED <<others, task>>
    BY DEF L!ReadOld, L!registry, others
  <1>7. PutOK(o, q)
    BY <1>2, <1>4 DEF PutOK, Writing
  <1>8. \A p \in Reports : Writing(put[p]) /\ RowOf(o) = RowOf(p) => o = p
    BY <1>2 DEF LedgerInv, PutsApart, Writing
  <1> QED
    BY <1>4, <1>5, <1>6, <1>7, <1>8, PutStep

LEMMA AbortPutKeeps == ASSUME LedgerInv, NEW o \in Reports, L!AbortPut(o) PROVE LedgerInv'
  <1>1. PICK q : q = [put[o] EXCEPT !.at = "aborted", !.locks = {}]
    OBVIOUS
  <1>2. put[o] \in PutRec /\ put \in [Reports -> PutRec]
    BY PutIs
  <1>3. q \in PutRec /\ q.at = "aborted"
    BY <1>1, <1>2 DEF PutRec
  <1>4. put' = [put EXCEPT ![o] = q]
    BY <1>1, <1>2 DEF L!AbortPut
  <1>5. UNCHANGED <<others, task>>
    BY DEF L!AbortPut, L!registry, others
  <1> QED
    BY <1>3, <1>4, <1>5, PutStep DEF PutOK, Writing

LEMMA PutOutcomeKeeps == ASSUME LedgerInv, NEW o \in Reports, L!PutOutcome(o) PROVE LedgerInv'
  <1>1. PICK q : q = [put[o] EXCEPT !.at = "committed", !.locks = {}]
    OBVIOUS
  <1>2. /\ put[o] \in PutRec /\ PutOK(o, put[o]) /\ put \in [Reports -> PutRec] /\ put[o].at = "write"
        /\ RowOf(o) \in Consumers \X L!Runs
    BY PutIs, RowIs DEF L!PutOutcome
  <1>3. q \in PutRec /\ q.at = "committed"
    BY <1>1, <1>2 DEF PutRec
  <1>4. put' = [put EXCEPT ![o] = q]
    BY <1>1, <1>2 DEF L!PutOutcome
  <1>5. /\ UNCHANGED <<named, oldName, dismissed, event, runSkill, batch, task>>
        /\ run' = [run EXCEPT ![RowOf(o)] = [known |-> TRUE, outcome |-> o]]
        /\ replaced' = IF put[o].old = "none" THEN replaced ELSE replaced \cup {put[o].old}
    BY DEF L!PutOutcome, L!registry, RowOf, L!None
  <1>6. /\ run \in [Consumers \X L!Runs -> RunRec]
        /\ [known |-> TRUE, outcome |-> o] \in RunRec
    BY DEF LedgerInv, LedgerTypes, RunRec
  <1>7. put[o].old = run[RowOf(o)].outcome /\ put[o].old \in Reports \cup {"none"}
    BY <1>2 DEF PutOK, PutRec
  <1>8. LedgerTypes'
    BY <1>3, <1>4, <1>5, <1>6, <1>7 DEF LedgerInv, LedgerTypes
  <1>9. OutcomeIsKnown'
    BY <1>5, <1>6 DEF LedgerInv, OutcomeIsKnown
  <1>10. \A p \in Reports : put'[p] = IF p = o THEN q ELSE put[p]
    BY <1>2, <1>4
  <1>11. /\ run'[RowOf(o)].outcome = o
         /\ \A r \in Consumers \X L!Runs : r # RowOf(o) => run'[r] = run[r]
         /\ replaced \subseteq replaced' /\ put[o].old \in replaced' \cup {"none"}
    BY <1>2, <1>5, <1>6
  <1>12. ASSUME NEW p \in Reports
         PROVE  /\ Writing(put'[p]) => L!RunOf(Report[p].consumer, Report[p].run) \in put'[p].locks
                /\ put'[p].at = "write" => put'[p].old = run'[RowOf(p)].outcome
                /\ put'[p].at = "committed" => run'[RowOf(p)].outcome = p \/ p \in replaced'
    <2>1. CASE p = o
      BY <1>3, <1>10, <1>11, <2>1 DEF Writing
    <2>2. CASE p # o
      <3>1. put'[p] = put[p] /\ PutOK(p, put[p]) /\ RowOf(p) \in Consumers \X L!Runs
        BY <1>10, <2>2, PutIs, RowIs
      <3>2. CASE RowOf(p) # RowOf(o)
        BY <1>11, <3>1, <3>2 DEF PutOK
      <3>3. CASE RowOf(p) = RowOf(o)
        <4>1. ~ Writing(put[p])
          BY <1>2, <2>2, <3>3 DEF LedgerInv, PutsApart, Writing
        <4>2. ASSUME put[p].at = "committed"
              PROVE  p \in replaced'
          <5>1. p # "none"
            BY LedgerAssumption
          <5> QED
            BY <1>7, <1>11, <3>1, <3>3, <4>2, <5>1 DEF PutOK
        <4> QED
          BY <3>1, <4>1, <4>2 DEF Writing
      <3> QED
        BY <3>2, <3>3
    <2> QED
      BY <2>1, <2>2
  <1>13. (\A p \in Reports : PutOK(p, put[p]))'
    BY <1>12 DEF PutOK
  <1>14. PutsApart'
    BY <1>3, <1>10 DEF LedgerInv, PutsApart, Writing
  <1>15. (\A s \in L!Sends : SendOK(s, task[s]))' /\ KeysApart' /\ AliasesLead' /\ KeysStored' /\ EventsKeyed'
    BY <1>5 DEF LedgerInv, SendOK, KeysApart, AliasesLead, KeysStored, EventsKeyed, OfBatch
  <1> QED
    BY <1>8, <1>9, <1>13, <1>14, <1>15 DEF LedgerInv

(* What is counted of a batch is at most its rows.                           *)
LEMMA NumberedIs ==
  ASSUME NEW n \in Nat, NEW rows, DOMAIN rows = 1..n, NEW c, NEW b
  PROVE  /\ IsFiniteSet(L!Numbered(rows, c, b)) /\ Cardinality(L!Numbered(rows, c, b)) <= n
         /\ \A e \in L!Numbered(rows, c, b) :
              /\ e.batch = b /\ e.consumer = c
              /\ \E i \in 1..n : e.skill = rows[i].skill /\ e.registered = rows[i].registered
  <1> DEFINE top == L!Max({0} \cup {e.id : e \in event})
             Of(i) == [id |-> top + i, skill |-> rows[i].skill, registered |-> rows[i].registered,
                       consumer |-> c, run |-> rows[i].run, day |-> day, batch |-> b]
             f == [i \in 1..n |-> Of(i)]
  <1>1. L!Numbered(rows, c, b) = {Of(i) : i \in 1..n}
    BY DEF L!Numbered
  <1>2. f \in Surjection(1..n, L!Numbered(rows, c, b))
    BY <1>1 DEF Surjection
  <1>3. IsFiniteSet(1..n) /\ Cardinality(1..n) <= n
    <2>1. IsFiniteSet(1..n) /\ Cardinality(1..n) = IF 1 > n THEN 0 ELSE n - 1 + 1
      BY FS_Interval
    <2> QED
      BY <2>1
  <1>4. IsFiniteSet(L!Numbered(rows, c, b)) /\ Cardinality(L!Numbered(rows, c, b)) <= Cardinality(1..n)
    BY <1>2, <1>3, FS_Surjection
  <1>5. Cardinality(L!Numbered(rows, c, b)) \in Nat /\ Cardinality(1..n) \in Nat
    BY <1>3, <1>4, FS_CardinalityType
  <1>6. ASSUME NEW e \in L!Numbered(rows, c, b)
        PROVE  /\ e.batch = b /\ e.consumer = c
               /\ \E i \in 1..n : e.skill = rows[i].skill /\ e.registered = rows[i].registered
    <2>1. PICK i \in 1..n : e = Of(i)
      BY <1>1
    <2> QED
      BY <2>1
  <1> QED
    BY <1>3, <1>4, <1>5, <1>6

LEMMA RegistrySteps ==
  ASSUME LedgerInv, UNCHANGED <<event, run, runSkill, batch, replaced, task, put>>,
         named' \subseteq Titles, oldName' \in [Titles -> Titles \cup {"none"}], dismissed' \subseteq Titles,
         AliasesLead'
  PROVE  LedgerInv'
  <1>1. LedgerTypes' /\ OutcomeIsKnown'
    BY DEF LedgerInv, LedgerTypes, OutcomeIsKnown
  <1>2. (\A s \in L!Sends : SendOK(s, task[s]))' /\ KeysApart' /\ KeysStored' /\ EventsKeyed'
    BY DEF LedgerInv, SendOK, KeysApart, KeysStored, EventsKeyed, OfBatch
  <1>3. (\A o \in Reports : PutOK(o, put[o]))' /\ PutsApart'
    BY DEF LedgerInv, PutOK, PutsApart
  <1> QED
    BY <1>1, <1>2, <1>3 DEF LedgerInv

LEMMA RegisterKeeps == ASSUME LedgerInv, NEW n \in Titles, L!Register(n) PROVE LedgerInv'
  <1>1. named' \subseteq Titles /\ oldName' = oldName /\ dismissed' = dismissed
    BY DEF L!Register, LedgerInv, LedgerTypes
  <1>2. AliasesLead'
    BY DEF L!Register, LedgerInv, AliasesLead
  <1> QED
    BY <1>1, <1>2, RegistrySteps DEF LedgerInv, LedgerTypes, L!Register

LEMMA DismissKeeps == ASSUME LedgerInv, NEW n \in Titles, L!DismissSkill(n) PROVE LedgerInv'
  <1>1. named' = named /\ oldName' = oldName /\ dismissed' \subseteq Titles
    BY DEF L!DismissSkill, LedgerInv, LedgerTypes
  <1>2. AliasesLead'
    BY <1>1 DEF LedgerInv, AliasesLead
  <1> QED
    BY <1>1, <1>2, RegistrySteps DEF LedgerInv, LedgerTypes, L!DismissSkill

LEMMA DeleteKeeps == ASSUME LedgerInv, NEW n \in Titles, L!Delete(n) PROVE LedgerInv'
  <1>1. /\ named' = named \ {n} /\ dismissed' = dismissed
        /\ oldName' = [a \in Titles |-> IF oldName[a] = n THEN "none" ELSE oldName[a]]
        /\ UNCHANGED <<event, run, runSkill, batch, replaced, task, put>>
    BY DEF L!Delete, L!None
  <1>2. named \subseteq Titles /\ oldName \in [Titles -> Titles \cup {"none"}] /\ dismissed \subseteq Titles
    BY DEF LedgerInv, LedgerTypes
  <1>3. AliasesLead'
    BY <1>1 DEF LedgerInv, AliasesLead
  <1>4. oldName' \in [Titles -> Titles \cup {"none"}]
    BY <1>1, <1>2
  <1> QED
    BY <1>1, <1>2, <1>3, <1>4, RegistrySteps

LEMMA MergeKeeps == ASSUME LedgerInv, NEW n \in Titles, NEW m \in Titles, L!Merge(n, m) PROVE LedgerInv'
  <1>1. /\ named' = named \ {n} /\ dismissed' = dismissed /\ m \in named \ {n}
        /\ oldName' = [a \in Titles |-> IF a = n THEN m ELSE IF oldName[a] = n THEN "none" ELSE oldName[a]]
        /\ UNCHANGED <<event, run, runSkill, batch, replaced, task, put>>
    BY DEF L!Merge, L!None
  <1>2. named \subseteq Titles /\ oldName \in [Titles -> Titles \cup {"none"}] /\ dismissed \subseteq Titles
    BY DEF LedgerInv, LedgerTypes
  <1>3. AliasesLead'
    BY <1>1 DEF LedgerInv, AliasesLead
  <1>4. oldName' \in [Titles -> Titles \cup {"none"}]
    BY <1>1, <1>2
  <1> QED
    BY <1>1, <1>2, <1>3, <1>4, RegistrySteps

(* A step that adds events to no keyed batch, or drops some.                 *)
LEMMA EventStep ==
  ASSUME LedgerInv, NEW new, event' \subseteq event \cup new,
         \A e \in new : /\ e.skill \in Titles /\ e.registered \in BOOLEAN
                        /\ e.consumer \in Consumers \cup {"none"} /\ e.batch = "none",
         UNCHANGED <<named, oldName, dismissed, run, runSkill, batch, replaced, task, put>>
  PROVE  LedgerInv'
  <1>1. LedgerTypes' /\ OutcomeIsKnown' /\ AliasesLead'
    BY DEF LedgerInv, LedgerTypes, OutcomeIsKnown, AliasesLead
  <1>2. (\A s \in L!Sends : SendOK(s, task[s]))' /\ KeysApart' /\ KeysStored'
    BY DEF LedgerInv, SendOK, KeysApart, KeysStored
  <1>3. (\A o \in Reports : PutOK(o, put[o]))' /\ PutsApart'
    BY DEF LedgerInv, PutOK, PutsApart
  <1>4. ASSUME NEW s \in L!Sends, Keyed(s)
        PROVE  /\ OfBatch(s, event') # {} => L!KeyOf(s) \in DOMAIN batch
               /\ IsFiniteSet(OfBatch(s, event')) /\ Cardinality(OfBatch(s, event')) <= Len(Loads(s))
    <2>1. OfBatch(s, event') \subseteq OfBatch(s, event)
      BY SendIs DEF OfBatch
    <2>2. /\ OfBatch(s, event) # {} => L!KeyOf(s) \in DOMAIN batch
          /\ IsFiniteSet(OfBatch(s, event)) /\ Cardinality(OfBatch(s, event)) <= Len(Loads(s))
          /\ Len(Loads(s)) \in Nat
      BY <1>4, SendIs DEF LedgerInv, EventsKeyed
    <2>3. IsFiniteSet(OfBatch(s, event')) /\ Cardinality(OfBatch(s, event')) <= Cardinality(OfBatch(s, event))
      BY <2>1, <2>2, FS_Subset
    <2>4. Cardinality(OfBatch(s, event')) \in Nat /\ Cardinality(OfBatch(s, event)) \in Nat
      BY <2>2, <2>3, FS_CardinalityType
    <2> QED
      BY <2>1, <2>2, <2>3, <2>4
  <1>5. \A e \in event' : e.skill \in Titles /\ e.registered \in BOOLEAN /\ e.consumer \in Consumers \cup {"none"}
    BY DEF LedgerInv, EventsKeyed
  <1>6. EventsKeyed'
    BY <1>4, <1>5 DEF EventsKeyed
  <1> QED
    BY <1>1, <1>2, <1>3, <1>6 DEF LedgerInv

LEMMA IngestKeeps == ASSUME LedgerInv, NEW n \in Titles, L!Ingest(n) PROVE LedgerInv'
  <1> DEFINE rows == <<[skill |-> n, run |-> "none", registered |-> L!Canonical(n) \in named]>>
  <1>1. /\ event' = event \cup L!Numbered(rows, "none", "none")
        /\ UNCHANGED <<named, oldName, dismissed, run, runSkill, batch, replaced, task, put>>
    BY DEF L!Ingest, L!registry, L!None
  <1>2. DOMAIN rows = 1..1 /\ rows[1].skill = n /\ rows[1].registered \in BOOLEAN
    <2> DEFINE row == [skill |-> n, run |-> "none", registered |-> L!Canonical(n) \in named]
    <2>1. row.skill = n /\ row.registered \in BOOLEAN
      OBVIOUS
    <2> HIDE DEF row
    <2>2. DOMAIN <<row>> = 1..1 /\ <<row>>[1] = row
      OBVIOUS
    <2> QED
      BY <2>1, <2>2 DEF row
  <1> HIDE DEF rows
  <1>3. \A e \in L!Numbered(rows, "none", "none") :
          e.skill \in Titles /\ e.registered \in BOOLEAN /\ e.consumer = "none" /\ e.batch = "none"
    <2>1. \A e \in L!Numbered(rows, "none", "none") :
              /\ e.batch = "none" /\ e.consumer = "none"
              /\ \E i \in 1..1 : e.skill = rows[i].skill /\ e.registered = rows[i].registered
      <3>1. PICK k \in Nat : k = 1
        OBVIOUS
      <3>4. PICK c, rs : c = "none" /\ rs = rows
        OBVIOUS
      <3>2. DOMAIN rs = 1..k
        BY <1>2, <3>1, <3>4
      <3>3. \A e \in L!Numbered(rs, c, c) :
              /\ e.batch = c /\ e.consumer = c
              /\ \E i \in 1..k : e.skill = rs[i].skill /\ e.registered = rs[i].registered
        BY <3>2, NumberedIs
      <3> QED
        BY <3>1, <3>4, <3>3
    <2> QED
      BY <1>2, <2>1
  <1> QED
    BY <1>1, <1>3, EventStep

LEMMA PurgeKeeps == ASSUME LedgerInv, L!Purge PROVE LedgerInv'
  <1>1. event' \subseteq event /\ UNCHANGED <<named, oldName, dismissed, run, runSkill, batch, replaced, task, put>>
    BY DEF L!Purge, L!registry, L!Kept
  <1> DEFINE new == {}
  <1>2. /\ event' \subseteq event \cup new
        /\ \A e \in new : /\ e.skill \in Titles /\ e.registered \in BOOLEAN
                          /\ e.consumer \in Consumers \cup {"none"} /\ e.batch = "none"
    BY <1>1
  <1> HIDE DEF new
  <1> QED
    BY <1>1, <1>2, EventStep

LEMMA CommitKeeps == ASSUME LedgerInv, NEW s \in L!Sends, L!Commit(s) PROVE LedgerInv'
  <1> DEFINE c == L!Of(s).consumer
             rows == task[s].rows
             n == Len(Loads(s))
             stamp == L!KeyOf(s)
  <1>1. /\ task[s] \in TaskRec /\ SendOK(s, task[s]) /\ task \in [L!Sends -> TaskRec]
        /\ task[s].at = "events" /\ task[s].i > n /\ n \in Nat /\ s[1] \in Batches /\ c \in Consumers
    BY TaskIs, SendIs DEF L!Commit, Loads
  <1>2. rows \in Seq(RowRec) /\ Len(rows) = n /\ DOMAIN rows = 1..n /\ DOMAIN Loads(s) = 1..n
    <2>1. rows \in Seq(RowRec) /\ task[s].i \in Nat
      BY <1>1 DEF TaskRec
    <2>2. Len(rows) = task[s].i - 1 /\ task[s].i <= n + 1
      BY <1>1 DEF SendOK
    <2>3. Len(rows) = n
      BY <1>1, <2>1, <2>2
    <2> QED
      BY <2>1, <2>3, SendIs
  <1>3. \A j \in 1..n : /\ rows[j].run = Loads(s)[j].run /\ rows[j].skill = Loads(s)[j].skill
                        /\ rows[j].version = Loads(s)[j].version /\ rows[j] \in RowRec
    <2>1. task[s].i - 1 = n
      BY <1>1, <1>2 DEF SendOK, TaskRec
    <2> QED
      BY <1>1, <1>2, <2>1 DEF SendOK
  <1>4. PICK q : q = [task[s] EXCEPT !.at = "committed", !.locks = {}, !.answer = n, !.rows = <<>>]
    OBVIOUS
  <1>5. /\ event' = event \cup L!Numbered(rows, c, s[1])
        /\ run' = [p \in DOMAIN run |-> IF p[1] = c /\ p[2] \in {e.run : e \in L!Range(rows)}
                                        THEN [run[p] EXCEPT !.known = TRUE] ELSE run[p]]
        /\ runSkill' = runSkill \cup {<<c, e.run, e.skill, e.version>> : e \in L!Range(rows)}
        /\ batch' = IF Keyed(s) THEN [k \in DOMAIN batch \cup {stamp} |-> IF k \in DOMAIN batch THEN batch[k] ELSE n]
                    ELSE batch
        /\ UNCHANGED <<named, oldName, dismissed, replaced, put>>
    BY <1>2 DEF L!Commit, L!registry, Keyed, L!None
  <1>6. /\ q \in TaskRec /\ q.at = "committed" /\ q.answer = n
        /\ task' = [task EXCEPT ![s] = q]
    <2>1. <<>> \in Seq(RowRec) /\ {} \in SUBSET LockSet
      OBVIOUS
    <2>2. task' = [task EXCEPT ![s].at = "committed", ![s].locks = {}, ![s].answer = n, ![s].rows = <<>>]
      BY <1>2 DEF L!Commit
    <2>3. q \in TaskRec /\ q.at = "committed" /\ q.answer = n
      BY <1>1, <1>4, <2>1 DEF TaskRec
    <2> QED
      BY <1>1, <1>4, <2>2, <2>3
  <1>7. \A t \in L!Sends : task'[t] = IF t = s THEN q ELSE task[t]
    BY <1>1, <1>6
  <1>8. InRunSkills(s, runSkill') /\ runSkill \subseteq runSkill'
    <2>1. ASSUME NEW j \in DOMAIN Loads(s)
          PROVE  <<c, Loads(s)[j].run, Loads(s)[j].skill, Loads(s)[j].version>> \in runSkill'
      <3>1. rows[j] \in L!Range(rows)
        BY <1>2 DEF L!Range
      <3>2. <<c, rows[j].run, rows[j].skill, rows[j].version>> \in runSkill'
        BY <1>5, <3>1
      <3> QED
        BY <1>2, <1>3, <3>2
    <2> QED
      BY <1>5, <2>1 DEF InRunSkills
  <1>9. /\ run' \in [Consumers \X L!Runs -> RunRec]
        /\ \A p \in Consumers \X L!Runs : /\ run'[p].outcome = run[p].outcome
                                          /\ run[p].known => run'[p].known
    <2>1. run \in [Consumers \X L!Runs -> RunRec]
      BY DEF LedgerInv, LedgerTypes
    <2>2. ASSUME NEW x \in RunRec
          PROVE  /\ [x EXCEPT !.known = TRUE] \in RunRec
                 /\ [x EXCEPT !.known = TRUE].known /\ [x EXCEPT !.known = TRUE].outcome = x.outcome
      BY <2>2 DEF RunRec
    <2>3. ASSUME NEW p \in Consumers \X L!Runs
          PROVE  /\ run'[p] \in RunRec /\ run'[p].outcome = run[p].outcome
                 /\ run[p].known => run'[p].known
      <3>1. run'[p] = run[p] \/ run'[p] = [run[p] EXCEPT !.known = TRUE]
        BY <1>5, <2>1
      <3>2. run[p] \in RunRec
        BY <2>1
      <3> QED
        BY <2>2, <3>1, <3>2
    <2>4. DOMAIN run' = Consumers \X L!Runs /\ run' = [p \in DOMAIN run' |-> run'[p]]
      BY <1>5, <2>1
    <2> QED
      BY <2>3, <2>4
  <1>10. /\ \A k \in DOMAIN batch : k \in DOMAIN batch' /\ batch'[k] = batch[k]
         /\ \A k \in DOMAIN batch' \ DOMAIN batch : Keyed(s) /\ k = stamp /\ batch'[k] = n
         /\ Keyed(s) => stamp \in DOMAIN batch' /\ stamp \notin DOMAIN batch
    <2>1. Keyed(s) => stamp \notin DOMAIN batch
      BY <1>1 DEF SendOK
    <2>2. CASE Keyed(s)
      <3>1. batch' = [k \in DOMAIN batch \cup {stamp} |-> IF k \in DOMAIN batch THEN batch[k] ELSE n]
        BY <1>5, <2>2
      <3> QED
        BY <2>1, <2>2, <3>1
    <2>3. CASE ~ Keyed(s)
      BY <1>5, <2>3
    <2> QED
      BY <2>2, <2>3
  <1>11. LedgerTypes'
    <2>1. runSkill' \subseteq Consumers \X L!Runs \X Titles \X L!Versions
      <3>1. ASSUME NEW e \in L!Range(rows)
            PROVE  <<c, e.run, e.skill, e.version>> \in Consumers \X L!Runs \X Titles \X L!Versions
        <4>1. e \in RowRec
          BY <1>2, <1>3 DEF L!Range
        <4> QED
          BY <1>1, <4>1 DEF RowRec
      <3> QED
        BY <1>5, <3>1 DEF LedgerInv, LedgerTypes
    <2>2. task' \in [L!Sends -> TaskRec]
      BY <1>1, <1>6
    <2> QED
      BY <1>5, <1>9, <2>1, <2>2 DEF LedgerInv, LedgerTypes
  <1>12. OutcomeIsKnown' /\ AliasesLead'
    <2>1. DOMAIN run' = Consumers \X L!Runs /\ DOMAIN run = Consumers \X L!Runs
      BY <1>9 DEF LedgerInv, LedgerTypes
    <2> QED
      BY <1>5, <1>9, <2>1 DEF LedgerInv, OutcomeIsKnown, AliasesLead
  <1>13. (\A t \in L!Sends : SendOK(t, task[t]))'
    <2> SUFFICES ASSUME NEW t \in L!Sends
                 PROVE  SendOK(t, task[t])'
      OBVIOUS
    <2>1. CASE t = s
      BY <1>6, <1>7, <1>8, <2>1 DEF SendOK
    <2>2. CASE t # s
      <3>1. task'[t] = task[t] /\ SendOK(t, task[t])
        BY <1>7, <2>2, TaskIs
      <3>2. InRunSkills(t, runSkill) => InRunSkills(t, runSkill')
        BY <1>8 DEF InRunSkills
      <3>3. ASSUME task[t].at = "events", Keyed(t)
            PROVE  L!KeyOf(t) \notin DOMAIN batch'
        <4>1. L!KeyOf(t) \notin DOMAIN batch
          BY <3>1, <3>3 DEF SendOK
        <4>2. Keyed(s) => L!KeyOf(t) # stamp
          BY <1>1, <2>2, <3>3 DEF LedgerInv, KeysApart
        <4> QED
          BY <1>10, <4>1, <4>2
      <3> QED
        BY <3>1, <3>2, <3>3 DEF SendOK
    <2> QED
      BY <2>1, <2>2
  <1>14. KeysApart'
    BY <1>6, <1>7 DEF LedgerInv, KeysApart
  <1>15. KeysStored'
    <2> SUFFICES ASSUME NEW t \in L!Sends, Keyed(t), L!KeyOf(t) \in DOMAIN batch'
                 PROVE  batch'[L!KeyOf(t)] = Len(Loads(t)) /\ InRunSkills(t, runSkill')
      BY DEF KeysStored
    <2>1. CASE L!KeyOf(t) \in DOMAIN batch
      <3>1. batch[L!KeyOf(t)] = Len(Loads(t)) /\ InRunSkills(t, runSkill)
        BY <2>1 DEF LedgerInv, KeysStored
      <3> QED
        BY <1>8, <1>10, <2>1, <3>1 DEF InRunSkills
    <2>2. CASE L!KeyOf(t) \notin DOMAIN batch
      <3>1. L!KeyOf(t) = stamp /\ batch'[L!KeyOf(t)] = n
        BY <1>10, <2>2
      <3>2. Loads(t) = Loads(s) /\ L!Of(t) = L!Of(s)
        BY <3>1, OneKey
      <3> QED
        BY <1>8, <3>1, <3>2 DEF InRunSkills
    <2> QED
      BY <2>1, <2>2
  <1>16. EventsKeyed'
    <2>1. /\ IsFiniteSet(L!Numbered(rows, c, s[1])) /\ Cardinality(L!Numbered(rows, c, s[1])) <= n
          /\ \A e \in L!Numbered(rows, c, s[1]) :
               /\ e.batch = s[1] /\ e.consumer = c
               /\ \E i \in 1..n : e.skill = rows[i].skill /\ e.registered = rows[i].registered
      BY <1>1, <1>2, NumberedIs
    <2> DEFINE new == L!Numbered(rows, c, s[1])
    <2> HIDE DEF new
    <2>2. \A e \in event' : e.skill \in Titles /\ e.registered \in BOOLEAN /\ e.consumer \in Consumers \cup {"none"}
      <3>1. \A e \in new : e.skill \in Titles /\ e.registered \in BOOLEAN /\ e.consumer \in Consumers \cup {"none"}
        BY <1>1, <1>3, <2>1 DEF new, RowRec
      <3> QED
        BY <1>5, <3>1 DEF LedgerInv, EventsKeyed, new
    <2>3. ASSUME NEW t \in L!Sends, Keyed(t)
          PROVE  /\ OfBatch(t, event') # {} => L!KeyOf(t) \in DOMAIN batch'
                 /\ IsFiniteSet(OfBatch(t, event')) /\ Cardinality(OfBatch(t, event')) <= Len(Loads(t))
      <3>1. /\ OfBatch(t, event) # {} => L!KeyOf(t) \in DOMAIN batch
            /\ IsFiniteSet(OfBatch(t, event)) /\ Cardinality(OfBatch(t, event)) <= Len(Loads(t))
        BY <2>3 DEF LedgerInv, EventsKeyed
      <3>2. CASE t[1] # s[1]
        <4>1. OfBatch(t, event') = OfBatch(t, event)
          BY <1>5, <2>1, <3>2 DEF OfBatch, new
        <4> QED
          BY <1>10, <3>1, <4>1
      <3>3. CASE t[1] = s[1]
        <4>1. L!Of(t) = L!Of(s) /\ Loads(t) = Loads(s) /\ L!KeyOf(t) = stamp /\ Keyed(s)
          BY <2>3, <3>3 DEF L!Of, Loads, L!KeyOf, Keyed
        <4>2. OfBatch(t, event) = {}
          BY <1>10, <3>1, <4>1
        <4>3. OfBatch(t, event') \subseteq new
          BY <1>5, <4>2 DEF OfBatch, new
        <4>4. IsFiniteSet(new) /\ Cardinality(new) <= n
          BY <2>1 DEF new
        <4>5. /\ IsFiniteSet(OfBatch(t, event'))
              /\ Cardinality(OfBatch(t, event')) <= Cardinality(new)
          BY <4>3, <4>4, FS_Subset
        <4>6. Cardinality(OfBatch(t, event')) \in Nat /\ Cardinality(new) \in Nat
          BY <4>4, <4>5, FS_CardinalityType
        <4> QED
          BY <1>1, <1>10, <4>1, <4>4, <4>5, <4>6
      <3> QED
        BY <3>2, <3>3
    <2> QED
      BY <2>2, <2>3 DEF EventsKeyed
  <1>17. (\A o \in Reports : PutOK(o, put[o]))' /\ PutsApart'
    BY <1>5, <1>9, RowIs DEF LedgerInv, PutOK, PutsApart
  <1> QED
    BY <1>11, <1>12, <1>13, <1>14, <1>15, <1>16, <1>17 DEF LedgerInv

LEMMA LedgerKeeps == ASSUME LedgerInv, L!Next PROVE LedgerInv'
  <1>1. CASE \E s \in L!Sends : \/ L!Send(s) \/ L!ClaimKey(s) \/ L!Repeat(s)
                                \/ L!StoreEvent(s) \/ L!Commit(s) \/ L!AbortSend(s)
    BY <1>1, SendKeeps, ClaimKeyKeeps, RepeatKeeps, StoreEventKeeps, CommitKeeps, AbortSendKeeps
  <1>2. CASE \E o \in Reports : L!Upsert(o) \/ L!ReadOld(o) \/ L!PutOutcome(o) \/ L!AbortPut(o)
    BY <1>2, UpsertKeeps, ReadOldKeeps, PutOutcomeKeeps, AbortPutKeeps
  <1>3. CASE \E n \in Titles : \/ L!Ingest(n) \/ L!Register(n) \/ L!Delete(n) \/ L!DismissSkill(n)
                               \/ \E m \in Titles : L!Merge(n, m)
    BY <1>3, IngestKeeps, RegisterKeeps, DeleteKeeps, DismissKeeps, MergeKeeps
  <1> QED
    BY <1>1, <1>2, <1>3, PurgeKeeps DEF L!Next

LEMMA LedgerStays == ASSUME LedgerInv, UNCHANGED lVars PROVE LedgerInv'
  <1>1. UNCHANGED <<others, task, put, event>>
    BY DEF lVars, others
  <1>2. LedgerTypes' /\ AliasesLead' /\ OutcomeIsKnown' /\ KeysApart' /\ KeysStored' /\ PutsApart'
    BY <1>1 DEF others, LedgerInv, LedgerTypes, AliasesLead, OutcomeIsKnown, KeysApart, KeysStored, PutsApart
  <1>3. (\A s \in L!Sends : SendOK(s, task[s]))' /\ EventsKeyed' /\ (\A o \in Reports : PutOK(o, put[o]))'
    BY <1>1 DEF others, LedgerInv, SendOK, EventsKeyed, OfBatch, PutOK
  <1> QED
    BY <1>2, <1>3 DEF LedgerInv

LEMMA LedgerBegins == ASSUME L!Init PROVE LedgerInv
  <1>1. LedgerTypes
    <2>1. <<>> \in Seq(RowRec) /\ 1 \in Nat \ {0} /\ 0 \in Nat
      OBVIOUS
    <2>2. L!NotSent \in TaskRec
      BY <2>1 DEF L!NotSent, TaskRec
    <2>3. L!NotPut \in PutRec /\ L!NoRun \in RunRec
      BY DEF L!NotPut, PutRec, L!NoRun, RunRec, L!None
    <2> QED
      BY <2>2, <2>3 DEF L!Init, LedgerTypes, L!None
  <1>2. AliasesLead /\ OutcomeIsKnown
    BY DEF L!Init, AliasesLead, OutcomeIsKnown, L!None, L!NoRun
  <1>3. \A s \in L!Sends : task[s].at = "idle" /\ task[s].i = 1 /\ task[s].rows = <<>>
    BY DEF L!Init, L!NotSent
  <1>4. (\A s \in L!Sends : SendOK(s, task[s])) /\ KeysApart
    BY <1>3 DEF SendOK, KeysApart
  <1>5. KeysStored
    <2>1. DOMAIN batch = {}
      BY DEF L!Init
    <2> QED
      BY <2>1 DEF KeysStored
  <1>6. EventsKeyed
    <2>1. \A s \in L!Sends : OfBatch(s, event) = {} /\ Len(Loads(s)) \in Nat
      BY SendIs DEF L!Init, OfBatch
    <2>2. IsFiniteSet({}) /\ Cardinality({}) = 0
      BY FS_EmptySet
    <2>3. \A s \in L!Sends : /\ OfBatch(s, event) = {} /\ IsFiniteSet(OfBatch(s, event))
                             /\ Cardinality(OfBatch(s, event)) <= Len(Loads(s))
      BY <2>1, <2>2
    <2>4. event = {}
      BY DEF L!Init
    <2> QED
      BY <2>3, <2>4 DEF EventsKeyed
  <1>7. \A o \in Reports : put[o].at = "idle"
    BY DEF L!Init, L!NotPut
  <1>8. (\A o \in Reports : PutOK(o, put[o])) /\ PutsApart
    BY <1>7 DEF PutOK, PutsApart, Writing
  <1> QED
    BY <1>1, <1>2, <1>4, <1>5, <1>6, <1>8 DEF LedgerInv

(* The inductive invariant, kept by each part's steps.                       *)
THEOREM LedgerInvariant == MCSpec => []LedgerInv
  <1>1. MCInit => LedgerInv
    BY LedgerBegins DEF MCInit
  <1>2. LedgerInv /\ [MCNext]_all => LedgerInv'
    BY LedgerKeeps, LedgerStays DEF MCNext, Members, Suites, Ledger, all
  <1> QED
    BY <1>1, <1>2, PTL DEF MCSpec

(* A batch is stored once however often and in whatever overlap it is sent,  *)
(* each replaced outcome is in the audit log, and the panels count the same  *)
(* events (runs/store.go, analytics/event.go).                               *)
THEOREM LedgerStaysTrue == MCSpec => []LedgerAddsUp
  BY LedgerInvariant, LedgerTells, PTL
=============================================================================================================================================
