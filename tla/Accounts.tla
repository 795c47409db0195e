------------------------------ MODULE Accounts ------------------------------
(* The people, service accounts and keys of an instance (internal/auth): the *)
(* signup hook that makes the first person the owner, the middleware that    *)
(* resolves a session or a key and applies the key's limits, and the owner's *)
(* and admins' routes, each of which reads the row it is about before it     *)
(* writes. auth-all, the library that keeps passwords and sessions, is       *)
(* external: it is modelled from the calls made to it.                       *)
EXTENDS Naturals, FiniteSets

CONSTANTS People,     \* ids of people
          Bots,       \* ids of service accounts
          Keys,       \* ids of API keys
          SetIds,     \* ids of skill sets
          Requests,   \* requests being served
          NoSet,      \* a key that is not limited to a set
          Session,    \* a request made with a session, not with a key
          Asks        \* the requests that are made, a subset of Asked

ASSUME KindsAssumption ==
  People \cap Bots = {} /\ NoSet \notin SetIds /\ Session \notin Keys

VARIABLES account,    \* account[u]: the auth_users row of u
          key,        \* key[k]: the user_api_keys row of k
          session,    \* people with a session
          sets,       \* sets that exist
          request,    \* request[r]: what r has read so far
          audit,      \* the audit_log: <<action, resource>>
          granted     \* granted[k]: the limits k was created with (history)

vars == <<account, key, session, sets, request, audit, granted>>

Users == People \cup Bots
Roles == {"owner", "admin", "member"}

(* The id of an account that is deleted is never another account's.          *)
Absent == [live |-> FALSE, gone |-> FALSE]
Gone   == [live |-> FALSE, gone |-> TRUE]
Row(role) == [live |-> TRUE, role |-> role, disabled |-> FALSE, temporary |-> FALSE]
Rows == {Absent, Gone} \cup [live: {TRUE}, role: Roles, disabled: BOOLEAN, temporary: BOOLEAN]

(* The limits of a key: its scopes and the set it is limited to. A key       *)
(* limited to a set needs sets:read (validateKeyLimits).                     *)
NoLimits == [scopes |-> {}, set |-> NoSet]
Limits == {NoLimits} \cup [scopes: {{"eval:work"}}, set: {NoSet}]
                     \cup [scopes: {{"skills:read", "sets:read"}}, set: SetIds]
Restricted(l) == l.scopes # {} \/ l.set # NoSet

NoKey == [live |-> FALSE]
KeyRow(u, l) == [live |-> TRUE, of |-> u, limits |-> l]
KeyRows == {NoKey} \cup [live: {TRUE}, of: Users, limits: Limits]

(* The table of routes, by class: the scopes that reach one, and the routes  *)
(* a key limited to a set may reach. A route for people has no scope.        *)
Routes == {"skills", "download", "sets", "jobs", "people"}
RouteScopes == [skills |-> {"skills:read"}, download |-> {"skills:read", "eval:work"},
                sets |-> {"sets:read"}, jobs |-> {"eval:work"}, people |-> {}]
SetLimited == {"sets"}

(* authorizeKey: deny by default for a restricted key.                       *)
Reaches(l, route) ==
  \/ ~Restricted(l)
  \/ /\ RouteScopes[route] \cap l.scopes # {}
     /\ l.set = NoSet \/ route \in SetLimited

(* What a request asks for. Everything but a read goes to a people route.    *)
Reads == [do: {"read"}, route: Routes]
OnPerson == [do: {"disable", "enable", "password"}, on: Users]
            \cup [do: {"role"}, on: Users, to: Roles]
OnBot == [do: {"newBot", "dropBot"}, on: Bots]
         \cup [do: {"botKey"}, on: Users, key: Keys, limits: Limits]
         \cup [do: {"dropBotKey"}, on: Users, key: Keys]
OnKeys == [do: {"newKey"}, key: Keys, limits: Limits] \cup [do: {"dropKey"}, key: Keys]
Asked == Reads \cup OnPerson \cup OnBot \cup OnKeys \cup [do: {"leave"}]
ASSUME AsksAssumption == Asks \subseteq Asked
RouteOf(a) == IF a.do = "read" THEN a.route ELSE "people"

Idle == [at |-> "idle"]
RequestStates ==
  {Idle} \cup [at: {"counted"}, as: People, role: Roles]
         \cup [at: {"resolved", "served", "looked"}, as: Users, role: Roles,
               via: Keys \cup {Session}, asks: Asks]

TypeOK ==
  /\ account \in [Users -> Rows]
  /\ key \in [Keys -> KeyRows]
  /\ session \subseteq {u \in People: account[u].live}
  /\ sets \subseteq SetIds
  /\ request \in [Requests -> RequestStates]
  /\ audit \subseteq {"create", "delete"} \X Bots
  /\ granted \in [Keys -> {NoKey} \cup Limits]
  /\ \A k \in Keys: key[k].live => account[key[k].of].live

Init ==
  /\ account = [u \in Users |-> Absent]
  /\ key = [k \in Keys |-> NoKey]
  /\ session = {}
  /\ sets = SetIds
  /\ request = [r \in Requests |-> Idle]
  /\ audit = {}
  /\ granted = [k \in Keys |-> NoKey]

Humans == {u \in People: account[u].live}
Ended(r) == request' = [request EXCEPT ![r] = Idle]
Advanced(r, at) == request' = [request EXCEPT ![r].at = at]

-----------------------------------------------------------------------------
(* Signing up. The hook counts the people through the pool, outside of the   *)
(* transaction in which auth-all then writes the row.                        *)
CountPeople(r, u) ==
  /\ request[r] = Idle
  /\ account[u] = Absent
  /\ request' = [request EXCEPT ![r] =
       [at |-> "counted", as |-> u, role |-> IF Humans = {} THEN "owner" ELSE "member"]]
  /\ UNCHANGED <<account, key, session, sets, audit, granted>>

WritePerson(r) ==
  LET u == request[r].as IN
  /\ request[r].at = "counted"
  /\ Ended(r)
  /\ IF account[u] # Absent THEN UNCHANGED <<account, session>>
     ELSE /\ account' = [account EXCEPT ![u] = Row(request[r].role)]
          /\ session' = session \cup {u}
  /\ UNCHANGED <<key, sets, audit, granted>>

SignIn(u) ==
  /\ u \in Humans \ session
  /\ ~account[u].disabled
  /\ session' = session \cup {u}
  /\ UNCHANGED <<account, key, sets, request, audit, granted>>

ChangePassword(u) ==
  /\ u \in session
  /\ account[u].temporary
  /\ account' = [account EXCEPT ![u].temporary = FALSE]
  /\ UNCHANGED <<key, session, sets, request, audit, granted>>

(* mutant: set_id is ON DELETE SET NULL                                      *)
Cleared(s) == [k \in Keys |-> IF key[k].live /\ key[k].limits.set = s
                              THEN [key[k] EXCEPT !.limits.set = NoSet] ELSE key[k]]
(* Deleting a set leaves the keys limited to it pointing at nothing: set_id  *)
(* has no foreign key.                                                       *)
LeftPointing(s) == key

DeleteSet(s) ==
  /\ s \in sets
  /\ sets' = sets \ {s}
  /\ key' = LeftPointing(s)
  /\ UNCHANGED <<account, session, request, audit, granted>>

-----------------------------------------------------------------------------
(* The middleware: who asks, and whether the key may reach the route. The    *)
(* role read here is the one every later step of the request goes by. A      *)
(* person with a temporary password gets no further than their own account.  *)
Begin(r, u, via, a, at) ==
  request' = [request EXCEPT ![r] =
    [at |-> at, as |-> u, role |-> account[u].role, via |-> via, asks |-> a]]

ResolveSession(r, u, a) ==
  /\ request[r] = Idle
  /\ u \in session
  /\ account[u].temporary => a.do = "leave"
  /\ Begin(r, u, Session, a, "served")
  /\ UNCHANGED <<account, key, session, sets, audit, granted>>

ResolveKey(r, k, a) ==
  /\ request[r] = Idle
  /\ key[k].live
  /\ ~account[key[k].of].disabled
  /\ a.do # "leave"
  /\ Begin(r, key[k].of, k, a, "resolved")
  /\ UNCHANGED <<account, key, session, sets, audit, granted>>

(* authorize reads the key again: one that went is refused, and so is a      *)
(* service account's key with no limit.                                      *)
Permits(q) ==
  /\ key[q.via].live
  /\ q.as \in Bots => Restricted(key[q.via].limits)
  /\ Reaches(key[q.via].limits, RouteOf(q.asks))

Authorize(r) ==
  /\ request[r].at = "resolved"
  /\ IF Permits(request[r]) THEN Advanced(r, "served") ELSE Ended(r)
  /\ UNCHANGED <<account, key, session, sets, audit, granted>>

Answer(r) ==
  /\ request[r].at = "served"
  /\ request[r].asks.do = "read"
  /\ Ended(r)
  /\ UNCHANGED <<account, key, session, sets, audit, granted>>

-----------------------------------------------------------------------------
(* A person's own keys: only with a session.                                 *)
Allowed(l) == l.set = NoSet \/ l.set \in sets

CreateKey(r) ==
  LET a == request[r].asks IN
  /\ request[r].at = "served"
  /\ a.do = "newKey"
  /\ Ended(r)
  /\ IF /\ request[r].via = Session
        /\ Allowed(a.limits)
        /\ account[request[r].as].live
        /\ granted[a.key] = NoKey
     THEN /\ key' = [key EXCEPT ![a.key] = KeyRow(request[r].as, a.limits)]
          /\ granted' = [granted EXCEPT ![a.key] = a.limits]
     ELSE UNCHANGED <<key, granted>>
  /\ UNCHANGED <<account, session, sets, audit>>

DeleteKey(r) ==
  LET a == request[r].asks IN
  /\ request[r].at = "served"
  /\ a.do = "dropKey"
  /\ Ended(r)
  /\ key' = IF request[r].via = Session /\ key[a.key].live /\ key[a.key].of = request[r].as
            THEN [key EXCEPT ![a.key] = NoKey] ELSE key
  /\ UNCHANGED <<account, session, sets, audit, granted>>

-----------------------------------------------------------------------------
(* Deleting a row of auth_users takes the account's keys and sessions.       *)
Erased(u) == [account EXCEPT ![u] = Gone]
KeysWithout(u) == [k \in Keys |-> IF key[k].live /\ key[k].of = u THEN NoKey ELSE key[k]]

(* A person deletes their own account: the middleware stops only an owner.   *)
MayLeave(q) == q.role # "owner"

Leave(r) ==
  LET u == request[r].as IN
  /\ request[r].at = "served"
  /\ request[r].asks.do = "leave"
  /\ Ended(r)
  /\ IF MayLeave(request[r]) /\ account[u].live
     THEN account' = Erased(u) /\ key' = KeysWithout(u) /\ session' = session \ {u}
     ELSE UNCHANGED <<account, key, session>>
  /\ UNCHANGED <<sets, audit, granted>>

-----------------------------------------------------------------------------
(* The owner's routes on a person read the target's row, and auth-all then   *)
(* writes it. A service account is nobody to them, and the owner's own row   *)
(* is only ever given a temporary password.                                  *)
(* mutant: the role asked for is not checked                                 *)
AssignableAny == Roles
Assignable == {"admin", "member"}

IsManaged(u) == account[u].live /\ u \in People

Manageable(q) ==
  LET a == q.asks IN
  /\ q.role = "owner"
  /\ a.do = "role" => a.to \in Assignable /\ a.on # q.as
  /\ IsManaged(a.on)
  /\ a.do # "password" => account[a.on].role # "owner"

LookUpPerson(r) ==
  /\ request[r].at = "served"
  /\ request[r].asks.do \in {"role", "disable", "enable", "password"}
  /\ IF Manageable(request[r]) THEN Advanced(r, "looked") ELSE Ended(r)
  /\ UNCHANGED <<account, key, session, sets, audit, granted>>

WriteAccount(r) ==
  LET a == request[r].asks
      old == account[a.on] IN
  /\ request[r].at = "looked"
  /\ a.do \in {"role", "disable", "enable", "password"}
  /\ Ended(r)
  /\ account' = IF ~old.live THEN account ELSE [account EXCEPT ![a.on] =
       CASE a.do = "role"     -> [old EXCEPT !.role = a.to]
         [] a.do = "disable"  -> [old EXCEPT !.disabled = TRUE]
         [] a.do = "enable"   -> [old EXCEPT !.disabled = FALSE]
         [] a.do = "password" -> [old EXCEPT !.temporary = TRUE]]
  /\ session' = IF a.do = "disable" THEN session \ {a.on} ELSE session
  /\ UNCHANGED <<key, sets, audit, granted>>

-----------------------------------------------------------------------------
(* Service accounts, for an owner or an admin. Creating and deleting one     *)
(* commits with its audit record. A key's record is a later statement, which *)
(* may fail and which nothing here depends on: it is left out.               *)
Privileged(q) == q.role \in {"owner", "admin"}
Recorded(action, what) == audit \cup {<<action, what>>}

CreateBot(r) ==
  LET b == request[r].asks.on IN
  /\ request[r].at = "served"
  /\ request[r].asks.do = "newBot"
  /\ Ended(r)
  /\ IF Privileged(request[r]) /\ account[b] = Absent
     THEN account' = [account EXCEPT ![b] = Row("member")] /\ audit' = Recorded("create", b)
     ELSE UNCHANGED <<account, audit>>
  /\ UNCHANGED <<key, session, sets, granted>>

LookUpBot(r) ==
  LET a == request[r].asks IN
  /\ request[r].at = "served"
  /\ a.do \in {"dropBot", "botKey", "dropBotKey"}
  /\ IF /\ Privileged(request[r])
        /\ a.on \in Bots /\ account[a.on].live
        /\ a.do = "botKey" => a.limits.scopes # {} /\ Allowed(a.limits)
     THEN Advanced(r, "looked") ELSE Ended(r)
  /\ UNCHANGED <<account, key, session, sets, audit, granted>>

DeleteBot(r) ==
  LET b == request[r].asks.on IN
  /\ request[r].at = "looked"
  /\ request[r].asks.do = "dropBot"
  /\ Ended(r)
  /\ account' = Erased(b)
  /\ key' = KeysWithout(b)
  /\ audit' = Recorded("delete", b)
  /\ UNCHANGED <<session, sets, granted>>

CreateBotKey(r) ==
  LET a == request[r].asks IN
  /\ request[r].at = "looked"
  /\ a.do = "botKey"
  /\ Ended(r)
  /\ IF account[a.on].live /\ granted[a.key] = NoKey
     THEN /\ key' = [key EXCEPT ![a.key] = KeyRow(a.on, a.limits)]
          /\ granted' = [granted EXCEPT ![a.key] = a.limits]
     ELSE UNCHANGED <<key, granted>>
  /\ UNCHANGED <<account, session, sets, audit>>

DeleteBotKey(r) ==
  LET a == request[r].asks IN
  /\ request[r].at = "looked"
  /\ a.do = "dropBotKey"
  /\ Ended(r)
  /\ key' = IF key[a.key].live /\ key[a.key].of = a.on
            THEN [key EXCEPT ![a.key] = NoKey] ELSE key
  /\ UNCHANGED <<account, session, sets, audit, granted>>

-----------------------------------------------------------------------------
Next ==
  \/ \E u \in People: SignIn(u) \/ ChangePassword(u)
  \/ \E s \in SetIds: DeleteSet(s)
  \/ \E r \in Requests:
       \/ \E u \in People: CountPeople(r, u)
       \/ WritePerson(r)
       \/ \E u \in People, a \in Asks: ResolveSession(r, u, a)
       \/ \E k \in Keys, a \in Asks: ResolveKey(r, k, a)
       \/ Authorize(r) \/ Answer(r) \/ Leave(r)
       \/ CreateKey(r) \/ DeleteKey(r)
       \/ LookUpPerson(r) \/ WriteAccount(r)
       \/ CreateBot(r) \/ LookUpBot(r) \/ DeleteBot(r)
       \/ CreateBotKey(r) \/ DeleteBotKey(r)

Spec == Init /\ [][Next]_vars

-----------------------------------------------------------------------------
Owners == {u \in Humans: account[u].role = "owner" /\ ~account[u].disabled}

(* Whenever there are people, one of them is an enabled owner: sign-ups that *)
(* race, people who leave and roles that change never leave an instance that *)
(* nobody can administer ("so it can never end up with none and lock         *)
(* everyone out", routes.go:279-280).                                        *)
SomeoneOwns == Humans # {} => Owners # {}

(* Nobody becomes an owner but by signing up, and an owner stays one.        *)
OwnersStayStep ==
  \A u \in People: /\ u \in Owners => u \in Owners'
                   /\ u \in Owners' => u \in Owners \/ u \notin Humans

(* What a service account's request is served never exceeds the limits its   *)
(* key was created with, and a set's deletion does not widen a key that was  *)
(* limited to it (023_machine_consumers.sql:6-8).                            *)
BotsStayLimited ==
  \A r \in Requests:
    request[r].at \in {"served", "looked"} /\ request[r].as \in Bots =>
      /\ request[r].via \in Keys
      /\ Restricted(granted[request[r].via])
      /\ Reaches(granted[request[r].via], RouteOf(request[r].asks))

(* A service account stays what it was created as: the routes that manage    *)
(* people do not reach it.                                                   *)
BotsAreNotPeople == \A b \in Bots: account[b] \in {Absent, Gone, Row("member")}

(* The log names every service account that came and every one that went,    *)
(* whatever fails ("so a change and its record commit together",             *)
(* audit.go:15-16).                                                          *)
AccountsAreRecorded ==
  \A b \in Bots: /\ account[b].live => <<"create", b>> \in audit
                 /\ <<"create", b>> \in audit /\ ~account[b].live => <<"delete", b>> \in audit

(* All four: what accounts, their keys and their log promise.                *)
AccountsHold ==
  SomeoneOwns /\ BotsStayLimited /\ BotsAreNotPeople /\ AccountsAreRecorded

(* No step makes or unmakes an owner other than by signing up, whatever      *)
(* requests are under way (routes.go:279-280).                               *)
OwnersStay == [][OwnersStayStep]_vars
=============================================================================
