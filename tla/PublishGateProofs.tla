-------------------------- MODULE PublishGateProofs -------------------------
(* Proofs about PublishGate for every number of requests, people, bundles   *)
(* and versions, and about the gate's decision, in GateInputs, for every set *)
(* of findings and every score.                                              *)
EXTENDS PublishGate, GateInputs, TLAPS

(* Without a gap, the highest number in use is the number of versions.      *)
LEMMA NewestIs ==
  ASSUME NumberedWithoutGap
  PROVE  /\ Newest \in 0..MaxVersion
         /\ \A v \in Versions : state[v] # "none" <=> v <= Newest
<1>1. PICK n \in 0..MaxVersion : \A v \in Versions : state[v] # "none" <=> v <= n
  BY DEF NumberedWithoutGap
<1>2. /\ n = 0 \/ state[n] # "none"
      /\ \A v \in Versions : state[v] # "none" => v <= n
  BY <1>1, PublishAssumption DEF Versions
<1>3. /\ Newest \in 0..MaxVersion
      /\ Newest = 0 \/ state[Newest] # "none"
      /\ \A v \in Versions : state[v] # "none" => v <= Newest
  BY <1>2 DEF Newest
<1>4. Newest = n
  BY <1>1, <1>3, PublishAssumption DEF Versions
<1> QED
  BY <1>1, <1>4

LEMMA NoRequestType == NoRequest \in Request /\ 0 \in 0..MaxVersion
BY PublishAssumption DEF NoRequest, Request, HoldReason, Authority

LEMMA InitInv == Init => IInv
<1> SUFFICES ASSUME Init PROVE IInv
  OBVIOUS
<1>1. NoRequest \in Request
  BY NoRequestType
<1>2. TypeOK
  BY <1>1, PublishAssumption DEF Init, TypeOK, State, Decided, Versions, NoRule
<1>3. NumberedWithoutGap
  <2>1. 0 \in 0..MaxVersion /\ \A v \in Versions : state[v] # "none" <=> v <= 0
    BY PublishAssumption DEF Init, Versions
  <2> QED
    BY <2>1 DEF NumberedWithoutGap
<1>4. LatestIsNewestRelease /\ OneEventPerRelease
  BY DEF Init, LatestIsNewestRelease, OneEventPerRelease
<1>5. \A v \in Versions : VersionOK(v)
  BY DEF Init, VersionOK
<1>6. \A r \in Requests : RequestOK(r)
  BY DEF Init, RequestOK, NoRequest
<1> QED
  BY <1>2, <1>3, <1>4, <1>5, <1>6 DEF IInv

-----------------------------------------------------------------------------
(* A step of one request that touches no version keeps the invariant if the *)
(* request stays consistent and any row it inserts is the only one.         *)
LEMMA LocalStep ==
  ASSUME IInv, NEW r \in Requests, NEW q \in Request,
         req' = [req EXCEPT ![r] = q],
         UNCHANGED <<versionVars, latest, prose, events>>,
         spec' \in 0..MaxVersion,
         exactRule' \in {NoRule} \cup SUBSET Users,
         prefixRule' \in {NoRule} \cup SUBSET Users,
         q.inserted => \/ req[r].inserted /\ q.version = req[r].version
                          /\ q.reason = req[r].reason
                       \/ \A s \in Inserting(q.version) \ {r} :
                            req[s].reason # q.reason,
         RequestOK(r)'
  PROVE  IInv'
<1> USE DEF IInv
<1>1. TypeOK'
  BY DEF TypeOK, versionVars
<1>2. /\ NumberedWithoutGap' /\ LatestIsNewestRelease' /\ OneEventPerRelease'
      /\ \A v \in Versions : VersionOK(v)'
  BY DEF versionVars, NumberedWithoutGap, LatestIsNewestRelease,
         OneEventPerRelease, VersionOK
<1>3. ASSUME NEW s \in Requests, s # r PROVE RequestOK(s)'
  <2>1. req'[s] = req[s] /\ req'[r] = q
    BY <1>3 DEF TypeOK
  <2>2. RequestOK(s)
    OBVIOUS
  <2>3. UNCHANGED <<state, content, holds, decided>>
    BY DEF versionVars
  <2>4. req[s].op = "publish" => PublishOK(s)'
    BY <2>1, <2>2 DEF RequestOK, PublishOK
  <2>5. ASSUME req[s].op \in {"approve", "reject"}, req[s].inserted,
               NEW t \in Inserting(req[s].version)' \ {s}
        PROVE  req'[t].reason # req[s].reason
    <3>1. CASE t # r
      <4>1. t \in Requests /\ t # s
        BY <2>5 DEF Inserting
      <4>0. req'[t] = req[t]
        BY <3>1, <4>1 DEF TypeOK
      <4>2. t \in Inserting(req[s].version)
        BY <2>1, <2>5, <4>0, <4>1 DEF Inserting
      <4> QED
        BY <2>2, <2>5, <4>0, <4>1, <4>2 DEF RequestOK, ReviewOK
    <3>2. CASE t = r
      <4>1. q.inserted /\ q.version = req[s].version
        BY <2>1, <2>5, <3>2 DEF Inserting
      <4>2. CASE req[r].inserted /\ q.version = req[r].version
                 /\ q.reason = req[r].reason
        <5>1. r \in Inserting(req[s].version) \ {s}
          BY <1>3, <4>1, <4>2 DEF Inserting
        <5> QED
          BY <2>1, <2>2, <2>5, <3>2, <4>2, <5>1 DEF RequestOK, ReviewOK
      <4>3. CASE \A u \in Inserting(q.version) \ {r} : req[u].reason # q.reason
        <5>1. s \in Inserting(q.version) \ {r}
          BY <1>3, <2>5, <4>1 DEF Inserting
        <5> QED
          BY <2>1, <3>2, <4>3, <5>1
      <4> QED
        BY <4>1, <4>2, <4>3
    <3> QED
      BY <3>1, <3>2
  <2>6. req[s].op \in {"approve", "reject"} => ReviewOK(s)'
    BY <2>1, <2>2, <2>3, <2>5 DEF RequestOK, ReviewOK
  <2> QED
    BY <2>1, <2>2, <2>4, <2>6 DEF RequestOK
<1> QED
  BY <1>1, <1>2, <1>3

(* The end of a request is such a step, whatever it does to the rules and   *)
(* the spec columns.                                                        *)
LEMMA DoneInv ==
  ASSUME IInv, NEW r \in Requests, Done(r),
         UNCHANGED <<versionVars, latest, prose, events>>,
         spec' \in 0..MaxVersion,
         exactRule' \in {NoRule} \cup SUBSET Users,
         prefixRule' \in {NoRule} \cup SUBSET Users
  PROVE  IInv'
<1>1. NoRequest \in Request /\ ~NoRequest.inserted
  BY NoRequestType DEF NoRequest
<1>2. req' = [req EXCEPT ![r] = NoRequest]
  BY DEF Done
<1>3. RequestOK(r)'
  BY <1>2 DEF IInv, TypeOK, RequestOK, NoRequest
<1> QED
  BY <1>1, <1>2, <1>3, LocalStep

(* The records these requests become. *)
LEMMA PublishRecord ==
  ASSUME NEW b \in BOOLEAN,
         NEW u \in Users, NEW c \in Contents, NEW n \in 0..MaxVersion
  PROVE  [NoRequest EXCEPT
            !.op = "publish", !.pc = "resolve", !.user = u,
            !.content = c, !.override = b, !.seen = n] \in Request
BY NoRequestType DEF Request

LEMMA ResolvedRecord ==
  ASSUME NEW b \in BOOLEAN, NEW x \in Request, NEW h \in SUBSET HoldReason
  PROVE  [x EXCEPT !.pc = "create", !.seen = 0, !.override = FALSE,
                   !.unowned = b, !.holds = h] \in Request
BY NoRequestType DEF Request

LEMMA PublishSteps ==
  ASSUME IInv, NEW r \in Requests,
         \/ \E u \in Users, c \in Contents, override \in BOOLEAN :
              StartPublish(r, u, c, override)
         \/ Resolve(r) \/ UpdateSpecFields(r)
         \/ ClaimOnFirstPublish(r) \/ AbandonPublish(r)
  PROVE  IInv'
<1> USE DEF IInv
<1>t. /\ TypeOK /\ req[r] \in Request /\ RequestOK(r)
      /\ exactRule \in {NoRule} \cup SUBSET Users
      /\ prefixRule \in {NoRule} \cup SUBSET Users
      /\ spec \in 0..MaxVersion
  BY DEF TypeOK
<1>1. ASSUME NEW u \in Users, NEW c \in Contents, NEW o \in BOOLEAN,
             StartPublish(r, u, c, o)
      PROVE  IInv'
  <2> DEFINE q == [NoRequest EXCEPT
               !.op = "publish", !.pc = "resolve", !.user = u, !.content = c,
               !.override = o /\ u \in Admins, !.seen = latest]
  <2>1. q \in Request
    <3>1. (o /\ u \in Admins) \in BOOLEAN /\ latest \in 0..MaxVersion
      BY <1>t DEF TypeOK
    <3> QED
      BY <3>1, PublishRecord
  <2>2. req' = [req EXCEPT ![r] = q]
    BY <1>1 DEF StartPublish
  <2>3. RequestOK(r)'
    BY <1>t, <2>2 DEF TypeOK, RequestOK, PublishOK, NoRequest
  <2>4. ~q.inserted
    BY DEF NoRequest
  <2> QED
    BY <1>1, <1>t, <2>1, <2>2, <2>3, <2>4, LocalStep
       DEF StartPublish, skillVars, ruleVars
<1>2. ASSUME Resolve(r) PROVE IInv'
  <2> DEFINE c == req[r].content
             o == ResolveForPublish(req[r].user)
             p == [floor |-> Floor, override |-> req[r].override]
             q == [req[r] EXCEPT
                !.pc = "create", !.seen = 0, !.override = FALSE,
                !.unowned = o.unowned,
                !.holds = Holds(ScanOf[c], Unmeasured, o, p)]
  <2>1. CASE Done(r)
    BY <1>2, <1>t, <2>1, DoneInv DEF Resolve, skillVars, ruleVars
  <2>2. CASE ~Done(r)
    <3>1. /\ DecidePublish(ScanOf[c], o, p) # "block"
          /\ req' = [req EXCEPT ![r] = q]
      BY <1>2, <1>t, <2>2 DEF Resolve
    <3>2. /\ req[r].op = "publish" /\ req[r].pc = "resolve"
          /\ ~req[r].inserted /\ c \in Contents
      BY <1>2, <1>t DEF Resolve, At, RequestOK, PublishOK
    <3>3. o.unowned \in BOOLEAN /\ Holds(ScanOf[c], Unmeasured, o, p) \subseteq HoldReason
      BY DEF ResolveForPublish, Unowned, Holds
    <3>4. q \in Request
      BY <1>t, <3>3, ResolvedRecord
    <3>7. q.inserted = req[r].inserted
      BY <1>t DEF Request
    <3>5. ~Refused(ScanOf[c])
      BY <3>1 DEF DecidePublish, Decide
    <3>6. RequestOK(r)'
      BY <1>t, <3>1, <3>2, <3>5 DEF TypeOK, RequestOK, PublishOK
    <3> QED
      BY <1>2, <1>t, <3>1, <3>2, <3>4, <3>6, <3>7, LocalStep
         DEF Resolve, skillVars, ruleVars
  <2> QED
    BY <2>1, <2>2
<1>3. ASSUME UpdateSpecFields(r) PROVE IInv'
  <2> DEFINE q == [req[r] EXCEPT !.pc = "claim"]
  <2>1. /\ req' = [req EXCEPT ![r] = q]
        /\ spec' \in 0..MaxVersion
        /\ req[r].op = "publish" /\ req[r].pc = "spec" /\ ~req[r].inserted
    BY <1>3, <1>t DEF UpdateSpecFields, Goto, At, Request, RequestOK, PublishOK
  <2>2. q \in Request /\ q.inserted = req[r].inserted
    BY <1>t DEF Request
  <2>3. RequestOK(r)'
    BY <1>t, <2>1 DEF TypeOK, RequestOK, PublishOK
  <2> QED
    BY <1>3, <1>t, <2>1, <2>2, <2>3, LocalStep DEF UpdateSpecFields, ruleVars
<1>4. ASSUME ClaimOnFirstPublish(r) PROVE IInv'
  <2>1. req[r].user \in Users
    BY <1>4, <1>t DEF ClaimOnFirstPublish, At, RequestOK, PublishOK
  <2> QED
    BY <1>4, <1>t, <2>1, DoneInv DEF ClaimOnFirstPublish, skillVars
<1>5. ASSUME AbandonPublish(r) PROVE IInv'
  BY <1>5, <1>t, DoneInv DEF AbandonPublish, skillVars, ruleVars
<1> QED
  BY <1>1, <1>2, <1>3, <1>4, <1>5

-----------------------------------------------------------------------------
LEMMA StartsOfReview ==
  ASSUME IInv, NEW r \in Requests,
         \/ \E op \in {"approve", "reject"}, u \in Users, v \in Versions,
               reason \in HoldReason : StartReview(r, op, u, v, reason)
         \/ \E v \in Versions, q \in Evidence, derived \in BOOLEAN :
              Reconsider(r, v, q, derived)
  PROVE  IInv'
<1> USE DEF IInv
<1>t. /\ TypeOK /\ req[r] \in Request /\ spec \in 0..MaxVersion
      /\ exactRule \in {NoRule} \cup SUBSET Users
      /\ prefixRule \in {NoRule} \cup SUBSET Users
  BY DEF TypeOK
<1>1. ASSUME NEW op \in {"approve", "reject"}, NEW u \in Users,
             NEW v \in Versions, NEW reason \in HoldReason,
             StartReview(r, op, u, v, reason)
      PROVE  IInv'
  <2> DEFINE q == [NoRequest EXCEPT
               !.op = op, !.pc = "authorise", !.user = u,
               !.version = v, !.reason = reason]
  <2>0. v \in 0..MaxVersion
    BY PublishAssumption DEF Versions
  <2>1. q \in Request
    BY NoRequestType, <2>0 DEF Request
  <2>4. /\ q.op = op /\ q.pc = "authorise" /\ q.user = u /\ q.version = v
        /\ ~q.inserted
    BY DEF NoRequest
  <2>2. req' = [req EXCEPT ![r] = q] /\ req'[r] = q
    BY <1>1, <1>t DEF StartReview, TypeOK
  <2>3. RequestOK(r)'
    BY <1>1, <2>2, <2>4 DEF StartReview, versionVars, RequestOK, ReviewOK
  <2> QED
    BY <1>1, <1>t, <2>1, <2>2, <2>3, <2>4, LocalStep
       DEF StartReview, skillVars, ruleVars
<1>2. ASSUME NEW v \in Versions, NEW e \in Evidence, NEW derived \in BOOLEAN,
             Reconsider(r, v, e, derived)
      PROVE  IInv'
  <2> DEFINE q == [NoRequest EXCEPT
               !.op = "approve", !.pc = "insert",
               !.version = v, !.reason = "scan", !.authority = "score"]
  <2>0. v \in 0..MaxVersion
    BY PublishAssumption DEF Versions
  <2>1. q \in Request
    BY NoRequestType, <2>0 DEF Request, HoldReason, Authority
  <2>4. /\ q.op = "approve" /\ q.pc = "insert" /\ q.version = v
        /\ q.authority \in Entitled(q.reason) /\ ~q.inserted
    BY DEF NoRequest, Entitled
  <2>2. req' = [req EXCEPT ![r] = q] /\ req'[r] = q
    BY <1>2, <1>t DEF Reconsider, TypeOK
  <2>3. RequestOK(r)'
    BY <1>2, <2>2, <2>4 DEF Reconsider, versionVars, RequestOK, ReviewOK
  <2> QED
    BY <1>2, <1>t, <2>1, <2>2, <2>3, <2>4, LocalStep
       DEF Reconsider, skillVars, ruleVars
<1> QED
  BY <1>1, <1>2

LEMMA ReviewSteps ==
  ASSUME IInv, NEW r \in Requests,
         \/ Authorise(r) \/ InsertApproval(r) \/ CountOutstanding(r)
         \/ AbandonReview(r)
  PROVE  IInv'
<1> USE DEF IInv
<1>t. /\ TypeOK /\ req[r] \in Request /\ RequestOK(r)
      /\ spec \in 0..MaxVersion
      /\ exactRule \in {NoRule} \cup SUBSET Users
      /\ prefixRule \in {NoRule} \cup SUBSET Users
  BY DEF TypeOK
<1>d. ASSUME Done(r), UNCHANGED <<versionVars, skillVars, ruleVars>>
      PROVE  IInv'
  BY <1>d, <1>t, DoneInv DEF skillVars, ruleVars
<1>1. ASSUME Authorise(r) PROVE IInv'
  <2>1. CASE Done(r)
    BY <1>1, <1>d, <2>1 DEF Authorise
  <2>2. CASE ~Done(r)
    <3>1. PICK a \in AuthorityOf(req[r].user, req[r].reason) :
            req' = [req EXCEPT ![r].pc = "insert", ![r].user = NoUser,
                               ![r].authority = a]
      BY <1>1, <2>2 DEF Authorise
    <3> DEFINE q == [req[r] EXCEPT !.pc = "insert", !.user = NoUser,
                                   !.authority = a]
    <3>2. /\ req[r].pc = "authorise" /\ req[r].op \in {"approve", "reject"}
          /\ ~req[r].inserted
      BY <1>1, <1>t DEF Authorise, RequestOK, ReviewOK
    <3>3. a \in Entitled(req[r].reason) /\ a \in Authority
      BY <1>t, <3>1 DEF AuthorityOf, Entitled, Request, HoldReason, Authority
    <3>4. q \in Request /\ ~q.inserted /\ req' = [req EXCEPT ![r] = q]
      BY <1>t, <3>1, <3>2, <3>3 DEF Request
    <3>6. /\ q.op = req[r].op /\ q.pc = "insert" /\ q.version = req[r].version
          /\ q.authority = a /\ q.reason = req[r].reason
          /\ req'[r] = q
      BY <1>t, <3>4 DEF Request, TypeOK
    <3>7. ReviewOK(r) /\ UNCHANGED <<state, content, holds, decided>>
      BY <1>1, <1>t, <3>2 DEF RequestOK, Authorise, versionVars
    <3>5. RequestOK(r)'
      BY <3>2, <3>3, <3>4, <3>6, <3>7 DEF RequestOK, ReviewOK
    <3> QED
      BY <1>1, <1>t, <3>4, <3>5, LocalStep DEF Authorise, skillVars, ruleVars
  <2> QED
    BY <2>1, <2>2
<1>2. ASSUME InsertApproval(r) PROVE IInv'
  <2> DEFINE v == req[r].version
             b == decided[v][req[r].reason] = "none"
             q == [req[r] EXCEPT !.pc = "count", !.inserted = b]
  <2>1. b \in BOOLEAN
    OBVIOUS
  <2>2. q \in Request /\ req' = [req EXCEPT ![r] = q]
    BY <1>2, <1>t, <2>1 DEF InsertApproval, Request
  <2>3. /\ req[r].op = "approve" /\ req[r].pc = "insert" /\ ReviewOK(r)
        /\ Conflicting(r) = {}
    BY <1>2, <1>t DEF InsertApproval, At, RequestOK
  <2>4. \A s \in Inserting(v) \ {r} : req[s].reason # req[r].reason
    BY <2>3 DEF Conflicting
  <2>5. UNCHANGED <<state, content, holds, decided>>
    BY <1>2 DEF InsertApproval, versionVars
  <2>6. /\ req'[r] = q
        /\ q.op = "approve" /\ q.pc = "count" /\ q.inserted = b
        /\ q.version = v /\ q.reason = req[r].reason
        /\ q.authority = req[r].authority
    <3>1. req \in [Requests -> Request] /\ req[r] \in Request
      BY <1>t DEF TypeOK
    <3>2. req'[r] = q
      BY <3>1, <2>2
    <3> QED
      BY <2>1, <2>3, <3>1, <3>2 DEF Request
  <2>7. ASSUME NEW s \in Inserting(v)' \ {r}
        PROVE  req'[s].reason # req[r].reason
    <3>1. s \in Requests /\ s # r /\ req'[s] = req[s]
      BY <1>t, <2>2, <2>7 DEF Inserting, TypeOK
    <3>2. s \in Inserting(v)
      BY <2>6, <2>7, <3>1 DEF Inserting
    <3> QED
      BY <2>4, <3>1, <3>2
  <2>8. RequestOK(r)'
    <3>1. ReviewOK(r)'
      <4>1. \A s \in Inserting(req[r].version)' \ {r} : req'[s].reason # req'[r].reason
        BY <2>6, <2>7
      <4>2. b => decided'[v][req[r].reason] = "none"
        BY <2>5
      <4> HIDE DEF b, q
      <4> QED
        BY <2>3, <2>5, <2>6, <4>1, <4>2 DEF ReviewOK
    <3> QED
      BY <2>6, <3>1 DEF RequestOK
  <2>9. \A s \in Inserting(q.version) \ {r} : req[s].reason # q.reason
    BY <2>4, <2>6
  <2>10. /\ UNCHANGED <<versionVars, latest, prose, events>>
         /\ spec' \in 0..MaxVersion
         /\ exactRule' \in {NoRule} \cup SUBSET Users
         /\ prefixRule' \in {NoRule} \cup SUBSET Users
    BY <1>2, <1>t DEF InsertApproval, skillVars, ruleVars
  <2> HIDE DEF b, q
  <2> QED
    BY <2>2, <2>8, <2>9, <2>10, LocalStep
<1>3. ASSUME CountOutstanding(r) PROVE IInv'
  <2> DEFINE v == req[r].version
             own == IF req[r].inserted THEN {req[r].reason} ELSE {}
             pc == IF Outstanding(v) \ own = {} THEN "release" ELSE "commit"
             q == [req[r] EXCEPT !.pc = pc]
  <2>1. req' = [req EXCEPT ![r] = q]
    BY <1>3 DEF CountOutstanding, Goto
  <2>2. q \in Request /\ q.inserted = req[r].inserted
        /\ q.version = req[r].version /\ q.reason = req[r].reason
    BY <1>t DEF Request
  <2>3. req[r].op = "approve" /\ req[r].pc = "count" /\ ReviewOK(r)
    BY <1>3, <1>t DEF CountOutstanding, At, RequestOK
  <2>4. UNCHANGED <<state, content, holds, decided>>
    BY <1>3 DEF CountOutstanding, versionVars
  <2>5. req'[r] = q /\ \A s \in Requests \ {r} : req'[s] = req[s]
    BY <1>t, <2>1 DEF TypeOK
  <2>6. Inserting(v)' = Inserting(v)
    BY <2>2, <2>5 DEF Inserting
  <2>7. q.pc = "release" =>
          \A h \in holds[v] :
            decided[v][h] \in Authority \/ (req[r].inserted /\ h = req[r].reason)
    <3>1. holds[v] \subseteq HoldReason
      BY <1>t, <2>3 DEF TypeOK, ReviewOK
    <3> QED
      BY <3>1, <1>t DEF Outstanding, Approved, Request
  <2>8. RequestOK(r)'
    <3>1. /\ q.op = "approve" /\ q.pc \in {"release", "commit"}
          /\ q.authority = req[r].authority
      BY <1>t, <2>3 DEF Request
    <3>2. \A s \in Inserting(v) \ {r} : req'[s] = req[s]
      BY <2>5 DEF Inserting
    <3>3. ReviewOK(r)'
      BY <2>2, <2>3, <2>4, <2>5, <2>6, <2>7, <3>1, <3>2 DEF ReviewOK
    <3> QED
      BY <2>5, <3>1, <3>3 DEF RequestOK
  <2> QED
    BY <1>3, <1>t, <2>1, <2>2, <2>8, LocalStep
       DEF CountOutstanding, skillVars, ruleVars
<1>4. ASSUME AbandonReview(r) PROVE IInv'
  BY <1>4, <1>d DEF AbandonReview
<1> QED
  BY <1>1, <1>2, <1>3, <1>4

(* The rules decide who may act, never what was accepted. *)
LEMMA RuleSteps ==
  ASSUME IInv, Managing
  PROVE  IInv'
<1> DEFINE Rules == {NoRule} \cup SUBSET Users
<1>t. exactRule \in Rules /\ prefixRule \in Rules
  BY DEF IInv, TypeOK
<1>1. exactRule' \in Rules /\ prefixRule' \in Rules
  <2>1. ASSUME SetRule PROVE exactRule' \in Rules /\ prefixRule' \in Rules
    BY <1>t, <2>1, PublishAssumption DEF SetRule
  <2>2. ASSUME DeleteRule PROVE exactRule' \in Rules /\ prefixRule' \in Rules
    BY <1>t, <2>2 DEF DeleteRule
  <2>3. ASSUME NEW u \in Users, MemberGone(u)
        PROVE  exactRule' \in Rules /\ prefixRule' \in Rules
    BY <1>t, <2>3 DEF MemberGone
  <2> QED
    BY <2>1, <2>2, <2>3 DEF Managing
<1>2. UNCHANGED <<versionVars, skillVars, req>>
  BY DEF Managing, SetRule, DeleteRule, MemberGone
<1>3. TypeOK'
  BY <1>1, <1>2 DEF IInv, TypeOK, versionVars, skillVars
<1>4. \A r \in Requests : RequestOK(r)'
  BY <1>2 DEF IInv, versionVars, RequestOK, PublishOK, ReviewOK, Inserting
<1> QED
  BY <1>2, <1>3, <1>4 DEF IInv, versionVars, skillVars, NumberedWithoutGap,
     LatestIsNewestRelease, OneEventPerRelease, VersionOK

-----------------------------------------------------------------------------
(* When a request ends by committing rows, the others stay consistent if    *)
(* none of them has such a row open and no approval is taken back.          *)
LEMMA OthersAfterCommit ==
  ASSUME IInv, NEW r \in Requests, Done(r), UNCHANGED <<content, holds>>,
         \A v \in Versions : state[v] # "none" => state'[v] # "none",
         \A s \in Requests \ {r} : req[s].inserted =>
            decided'[req[s].version][req[s].reason]
              = decided[req[s].version][req[s].reason],
         \A v \in Versions, h \in HoldReason :
            decided[v][h] \in Authority => decided'[v][h] \in Authority
  PROVE  /\ req' \in [Requests -> Request]
         /\ \A s \in Requests : RequestOK(s)'
<1>t. req \in [Requests -> Request] /\ holds \in [Versions -> SUBSET HoldReason]
  BY DEF IInv, TypeOK
<1>1. /\ req'[r] = NoRequest
      /\ \A s \in Requests \ {r} : req'[s] = req[s]
      /\ req' \in [Requests -> Request]
  BY <1>t, NoRequestType DEF Done
<1>2. ASSUME NEW s \in Requests \ {r} PROVE RequestOK(s)'
  <2>1. RequestOK(s) /\ req'[s] = req[s]
    BY <1>1 DEF IInv
  <2>2. req[s].op = "publish" => PublishOK(s)'
    BY <2>1 DEF RequestOK, PublishOK
  <2>3. ASSUME req[s].op \in {"approve", "reject"} PROVE ReviewOK(s)'
    <3>1. ReviewOK(s) /\ req[s].version \in Versions
      BY <2>1, <2>3 DEF RequestOK, ReviewOK
    <3>2. Inserting(req[s].version)' \ {s} \subseteq Inserting(req[s].version) \ {s}
      BY <1>1, <2>1 DEF Inserting, NoRequest
    <3>3. \A u \in Inserting(req[s].version)' \ {s} : req'[u] = req[u]
      BY <1>1, <2>1 DEF Inserting, NoRequest
    <3>4. holds[req[s].version] \subseteq HoldReason
      BY <1>t, <3>1
    <3> QED
      BY <2>1, <3>1, <3>2, <3>3, <3>4 DEF ReviewOK
  <2> QED
    BY <2>1, <2>2, <2>3 DEF RequestOK
<1>3. RequestOK(r)'
  BY <1>1 DEF RequestOK, NoRequest
<1> QED
  BY <1>1, <1>2, <1>3

(* The row of an approval fills an open entry with an entitled authority.   *)
LEMMA OwnRow ==
  ASSUME IInv, NEW r \in Requests, req[r].op = "approve",
         req[r].pc \in {"commit", "release"},
         NEW d, d = WithOwnRow(r)
  PROVE  /\ d \in [Versions -> [HoldReason -> Decided]]
         /\ \A v \in Versions, h \in HoldReason :
              IF req[r].inserted /\ v = req[r].version /\ h = req[r].reason
              THEN decided[v][h] = "none" /\ d[v][h] \in Entitled(h)
              ELSE d[v][h] = decided[v][h]
<1>1. /\ req[r] \in Request /\ ReviewOK(r)
      /\ decided \in [Versions -> [HoldReason -> Decided]]
  BY DEF IInv, TypeOK, RequestOK
<1>2. /\ req[r].version \in Versions /\ req[r].reason \in HoldReason
      /\ req[r].authority \in Authority
      /\ req[r].authority \in Entitled(req[r].reason)
      /\ req[r].inserted => decided[req[r].version][req[r].reason] = "none"
  BY <1>1 DEF ReviewOK, Request
<1>3. CASE ~req[r].inserted
  BY <1>1, <1>3 DEF WithOwnRow
<1>4. CASE req[r].inserted
  <2>1. d = [decided EXCEPT ![req[r].version][req[r].reason] = req[r].authority]
    BY <1>4 DEF WithOwnRow
  <2>2. d \in [Versions -> [HoldReason -> Decided]]
    BY <1>1, <1>2, <2>1 DEF Decided
  <2> QED
    BY <1>1, <1>2, <1>4, <2>1, <2>2
<1> QED
  BY <1>3, <1>4

LEMMA OwnRowIsAlone ==
  ASSUME IInv, NEW r \in Requests, req[r].op = "approve",
         req[r].pc \in {"commit", "release"},
         NEW s \in Requests \ {r}, req[s].inserted
  PROVE  WithOwnRow(r)[req[s].version][req[s].reason]
           = decided[req[s].version][req[s].reason]
<1>1. /\ RequestOK(r) /\ RequestOK(s) /\ req[s] \in Request
      /\ ReviewOK(r)
  BY DEF IInv, TypeOK, RequestOK
<1>2. req[s].op \in {"approve", "reject"} /\ req[s].version \in Versions
      /\ req[s].reason \in HoldReason
  BY <1>1 DEF RequestOK, PublishOK, ReviewOK, Request
<1>3. CASE req[r].inserted /\ req[s].version = req[r].version
  <2>1. s \in Inserting(req[r].version) \ {r}
    BY <1>3 DEF Inserting
  <2>2. req[s].reason # req[r].reason
    BY <1>1, <1>3, <2>1 DEF ReviewOK
  <2> QED
    BY <1>2, <2>2, OwnRow
<1>4. CASE ~(req[r].inserted /\ req[s].version = req[r].version)
  BY <1>2, <1>4, OwnRow
<1> QED
  BY <1>3, <1>4

LEMMA EntitledIsAuthority == \A h \in HoldReason : Entitled(h) \subseteq Authority
BY DEF Entitled, Authority

LEMMA CommitInv ==
  ASSUME IInv, NEW r \in Requests, CommitApproval(r)
  PROVE  IInv'
<1>1. /\ req[r].op = "approve" /\ req[r].pc = "commit"
      /\ decided' = WithOwnRow(r) /\ Done(r)
      /\ UNCHANGED <<state, content, holds, latest, prose, spec, events>>
      /\ UNCHANGED <<exactRule, prefixRule>>
  BY DEF CommitApproval, At, skillVars, ruleVars
<1>2. /\ decided' \in [Versions -> [HoldReason -> Decided]]
      /\ \A v \in Versions, h \in HoldReason :
           IF req[r].inserted /\ v = req[r].version /\ h = req[r].reason
           THEN decided[v][h] = "none" /\ decided'[v][h] \in Entitled(h)
           ELSE decided'[v][h] = decided[v][h]
  BY <1>1, OwnRow
<1>3. \A v \in Versions, h \in HoldReason :
        decided[v][h] \in Authority => decided'[v][h] \in Authority
  BY <1>2, EntitledIsAuthority
<1>4. /\ req' \in [Requests -> Request]
      /\ \A s \in Requests : RequestOK(s)'
  <2>1. \A s \in Requests \ {r} : req[s].inserted =>
            decided'[req[s].version][req[s].reason]
              = decided[req[s].version][req[s].reason]
    BY <1>1, OwnRowIsAlone
  <2> QED
    BY <1>1, <1>3, <2>1, OthersAfterCommit
<1>5. \A v \in Versions : VersionOK(v)'
  <2> SUFFICES ASSUME NEW v \in Versions PROVE VersionOK(v)'
    OBVIOUS
  <2>1. VersionOK(v) /\ holds[v] \subseteq HoldReason
    BY DEF IInv, TypeOK
  <2> QED
    BY <1>1, <1>2, <1>3, <2>1 DEF VersionOK
<1>6. TypeOK'
  BY <1>1, <1>2, <1>4 DEF IInv, TypeOK
<1> QED
  BY <1>1, <1>4, <1>5, <1>6
     DEF IInv, NumberedWithoutGap, LatestIsNewestRelease, OneEventPerRelease

(* A release writes the version, the pointer and its own row; the pointer   *)
(* moves to the version only if nothing newer is served.                    *)
LEMMA ReleaseFacts ==
  ASSUME IInv, NEW r \in Requests, ReleaseVersion(r)
  PROVE  LET v == req[r].version
         IN  /\ v \in Versions /\ state[v] \in {"needs_review", "released"}
             /\ state' = [state EXCEPT ![v] = "released"]
             /\ latest' = LargerOf(latest, v)
             /\ latest' \in Versions
             /\ \A h \in holds[v] : decided'[v][h] \in Authority
<1> DEFINE v == req[r].version
<1>1. /\ req[r].op = "approve" /\ req[r].pc = "release" /\ Releasable(v)
      /\ state' = [state EXCEPT ![v] = "released"]
      /\ latest' = LargerOf(latest, v)
      /\ decided' = WithOwnRow(r)
  BY DEF ReleaseVersion, At, Advance
<1>2. ReviewOK(r) /\ v \in Versions /\ state[v] # "none" /\ state[v] \in State
      /\ latest \in 0..MaxVersion /\ holds[v] \subseteq HoldReason
  BY <1>1 DEF IInv, TypeOK, RequestOK, ReviewOK
<1>3. state[v] \in {"needs_review", "released"}
  BY <1>1, <1>2 DEF Releasable, State
<1>4. latest' \in Versions
  BY <1>1, <1>2, PublishAssumption DEF LargerOf, Versions
<1>5. ASSUME NEW h \in holds[v] PROVE decided'[v][h] \in Authority
  <2>1. decided[v][h] \in Authority \/ (req[r].inserted /\ h = req[r].reason)
    BY <1>1, <1>2 DEF ReviewOK
  <2>2. IF req[r].inserted /\ h = req[r].reason
        THEN decided'[v][h] \in Entitled(h)
        ELSE decided'[v][h] = decided[v][h]
    BY <1>1, <1>2, OwnRow
  <2> QED
    BY <1>2, <2>1, <2>2, EntitledIsAuthority
<1> QED
  BY <1>1, <1>2, <1>3, <1>4, <1>5

LEMMA ReleaseInv ==
  ASSUME IInv, NEW r \in Requests, ReleaseVersion(r)
  PROVE  IInv'
<1> DEFINE v == req[r].version
<1>0. /\ v \in Versions /\ state[v] \in {"needs_review", "released"}
      /\ state' = [state EXCEPT ![v] = "released"]
      /\ latest' = LargerOf(latest, v)
      /\ latest' \in Versions
      /\ \A h \in holds[v] : decided'[v][h] \in Authority
  BY ReleaseFacts
<1>1. /\ req[r].op = "approve" /\ req[r].pc = "release"
      /\ decided' = WithOwnRow(r) /\ Done(r)
      /\ prose' = latest' /\ spec' = latest' /\ events' = Announce(v)
      /\ UNCHANGED <<content, holds, exactRule, prefixRule>>
  BY DEF ReleaseVersion, At, ruleVars
<1>t. /\ TypeOK /\ LatestIsNewestRelease /\ OneEventPerRelease
      /\ NumberedWithoutGap /\ \A w \in Versions : VersionOK(w)
  BY DEF IInv
<1>s. state' \in [Versions -> State] /\ state'[v] = "released"
      /\ \A w \in Versions \ {v} : state'[w] = state[w]
  BY <1>0, <1>t DEF TypeOK, State
<1>2. /\ decided' \in [Versions -> [HoldReason -> Decided]]
      /\ \A w \in Versions, h \in HoldReason :
           IF req[r].inserted /\ w = v /\ h = req[r].reason
           THEN decided[w][h] = "none" /\ decided'[w][h] \in Entitled(h)
           ELSE decided'[w][h] = decided[w][h]
  BY <1>1, OwnRow
<1>3. \A w \in Versions, h \in HoldReason :
        decided[w][h] \in Authority => decided'[w][h] \in Authority
  BY <1>2, EntitledIsAuthority
<1>4. /\ req' \in [Requests -> Request]
      /\ \A s \in Requests : RequestOK(s)'
  <2>1. \A s \in Requests \ {r} : req[s].inserted =>
            decided'[req[s].version][req[s].reason]
              = decided[req[s].version][req[s].reason]
    BY <1>1, OwnRowIsAlone
  <2>2. \A w \in Versions : state[w] # "none" => state'[w] # "none"
    BY <1>s
  <2> QED
    BY <1>1, <1>3, <2>1, <2>2, OthersAfterCommit
<1>5. \A w \in Versions : VersionOK(w)'
  <2> SUFFICES ASSUME NEW w \in Versions PROVE VersionOK(w)'
    OBVIOUS
  <2>1. VersionOK(w) /\ holds[w] \subseteq HoldReason
    BY <1>t DEF TypeOK
  <2>2. state'[w] # "none" => state[w] # "none"
    BY <1>0, <1>s
  <2>3. \A h \in HoldReason : decided'[w][h] \in {"none", "rejected"} \cup Entitled(h)
    BY <1>2, <2>1 DEF VersionOK
  <2>4. state'[w] = "released" => \A h \in holds[w] : decided'[w][h] \in Authority
    BY <1>0, <1>s, <1>3, <2>1 DEF VersionOK
  <2> QED
    BY <1>1, <2>1, <2>2, <2>3, <2>4 DEF VersionOK
<1>6. events' \in [Versions -> Nat] /\ OneEventPerRelease'
  BY <1>0, <1>1, <1>s, <1>t DEF TypeOK, OneEventPerRelease, Announce
<1>7. LatestIsNewestRelease'
  <2>1. latest \in 0..MaxVersion /\ (latest # 0 => latest \in Versions)
    BY <1>t, PublishAssumption DEF TypeOK, Versions
  <2>2. latest' >= latest /\ latest' >= v /\ latest' \in {latest, v}
    BY <1>0, <2>1, PublishAssumption DEF LargerOf, Versions
  <2>3. ASSUME NEW w \in Versions, state'[w] = "released" PROVE w <= latest'
    <3>1. CASE w = v
      BY <2>2, <3>1
    <3>2. CASE w # v
      <4>1. w <= latest
        BY <1>s, <1>t, <2>3, <3>2 DEF LatestIsNewestRelease
      <4> QED
        BY <1>0, <2>1, <2>2, <4>1, PublishAssumption DEF Versions
    <3> QED
      BY <3>1, <3>2
  <2>4. state'[latest'] = "released"
    <3>1. CASE latest' = v
      BY <1>s, <3>1
    <3>2. CASE latest' # v
      <4>1. latest' = latest /\ latest # 0
        BY <1>0, <2>2, <3>2, PublishAssumption DEF Versions
      <4> QED
        BY <1>0, <1>s, <1>t, <3>2, <4>1 DEF LatestIsNewestRelease
    <3> QED
      BY <3>1, <3>2
  <2> QED
    BY <1>1, <2>3, <2>4 DEF LatestIsNewestRelease
<1>8. NumberedWithoutGap'
  <2>1. \A w \in Versions : state'[w] # "none" <=> state[w] # "none"
    BY <1>0, <1>s
  <2> QED
    BY <1>t, <2>1 DEF NumberedWithoutGap
<1>9. TypeOK'
  <2>1. latest' \in 0..MaxVersion
    BY <1>0, PublishAssumption DEF Versions
  <2> QED
    BY <1>1, <1>s, <1>2, <1>4, <1>6, <1>t, <2>1 DEF TypeOK
<1> QED
  BY <1>4, <1>5, <1>6, <1>7, <1>8, <1>9 DEF IInv

LEMMA RejectInv ==
  ASSUME IInv, NEW r \in Requests, RejectReason(r)
  PROVE  IInv'
<1> DEFINE v == req[r].version
           reason == req[r].reason
<1>1. /\ req[r].op = "reject" /\ req[r].pc = "insert" /\ Done(r)
      /\ Conflicting(r) = {}
      /\ UNCHANGED <<content, holds, latest, prose, spec, events>>
      /\ UNCHANGED <<exactRule, prefixRule>>
  BY DEF RejectReason, At, skillVars, ruleVars
<1>t. /\ TypeOK /\ LatestIsNewestRelease /\ OneEventPerRelease
      /\ NumberedWithoutGap /\ \A w \in Versions : VersionOK(w)
      /\ ReviewOK(r) /\ v \in Versions /\ reason \in HoldReason
  BY <1>1 DEF IInv, TypeOK, RequestOK, ReviewOK, Request
<1>2. CASE ~Rejectable(v)
  <2>1. UNCHANGED <<versionVars, skillVars>>
    BY <1>1, <1>2 DEF RejectReason, versionVars, skillVars
  <2> QED
    BY <1>1, <1>t, <2>1, DoneInv DEF skillVars, TypeOK
<1>3. CASE Rejectable(v)
  <2>1. /\ state' = [state EXCEPT ![v] = "rejected"]
        /\ decided' = [decided EXCEPT ![v][reason] =
                         IF @ = "none" THEN "rejected" ELSE @]
        /\ state[v] = "needs_review"
    BY <1>3 DEF RejectReason, Rejectable
  <2>2. /\ state' \in [Versions -> State] /\ state'[v] = "rejected"
        /\ \A w \in Versions \ {v} : state'[w] = state[w]
    BY <1>t, <2>1 DEF TypeOK, State
  <2>3. /\ decided' \in [Versions -> [HoldReason -> Decided]]
        /\ \A w \in Versions, h \in HoldReason :
             IF w = v /\ h = reason /\ decided[w][h] = "none"
             THEN decided'[w][h] = "rejected"
             ELSE decided'[w][h] = decided[w][h]
    BY <1>t, <2>1 DEF TypeOK, Decided
  <2>4. /\ req' \in [Requests -> Request]
        /\ \A s \in Requests : RequestOK(s)'
    <3>1. ASSUME NEW s \in Requests \ {r}, req[s].inserted
          PROVE  decided'[req[s].version][req[s].reason]
                   = decided[req[s].version][req[s].reason]
      <4>1. req[s].version \in Versions /\ req[s].reason \in HoldReason
        BY <3>1 DEF IInv, TypeOK, Request, RequestOK, PublishOK, ReviewOK
      <4>2. ~(req[s].version = v /\ req[s].reason = reason)
        BY <1>1, <3>1 DEF Conflicting, Inserting
      <4> QED
        BY <2>3, <4>1, <4>2
    <3>2. \A w \in Versions : state[w] # "none" => state'[w] # "none"
      BY <2>2
    <3>3. \A w \in Versions, h \in HoldReason :
            decided[w][h] \in Authority => decided'[w][h] \in Authority
      BY <2>3 DEF Authority
    <3> QED
      BY <1>1, <3>1, <3>2, <3>3, OthersAfterCommit
  <2>5. \A w \in Versions : VersionOK(w)'
    <3> SUFFICES ASSUME NEW w \in Versions PROVE VersionOK(w)'
      OBVIOUS
    <3>1. VersionOK(w) /\ holds[w] \subseteq HoldReason
      BY <1>t DEF TypeOK
    <3>2. /\ state'[w] # "none" => state[w] # "none"
          /\ state'[w] = "released" => state[w] = "released" /\ w # v
      BY <2>1, <2>2
    <3> QED
      BY <1>1, <2>3, <3>1, <3>2 DEF VersionOK
  <2>6. LatestIsNewestRelease' /\ OneEventPerRelease' /\ NumberedWithoutGap'
    <3>1. \A w \in Versions : state'[w] # "none" <=> state[w] # "none"
      BY <2>1, <2>2
    <3>4. \A w \in Versions : state'[w] = "released" <=> state[w] = "released"
      BY <2>1, <2>2
    <3>2. latest # 0 => latest \in Versions
      BY <1>t, PublishAssumption DEF TypeOK, Versions
    <3>3. NumberedWithoutGap'
      BY <1>t, <3>1 DEF NumberedWithoutGap
    <3> QED
      BY <1>1, <1>t, <3>4, <3>2, <3>3 DEF LatestIsNewestRelease, OneEventPerRelease
  <2>7. TypeOK'
    BY <1>1, <1>t, <2>2, <2>3, <2>4 DEF TypeOK
  <2> QED
    BY <2>4, <2>5, <2>6, <2>7 DEF IInv
<1> QED
  BY <1>2, <1>3

LEMMA CreateInv ==
  ASSUME IInv, NEW r \in Requests, CreateVersion(r)
  PROVE  IInv'
<1> DEFINE n == Newest + 1
           released == req[r].holds = {}
           q == [req[r] EXCEPT
                   !.version = n, !.content = NoContent, !.holds = {},
                   !.pc = IF released THEN "spec" ELSE "claim"]
<1>t. /\ TypeOK /\ LatestIsNewestRelease /\ OneEventPerRelease
      /\ NumberedWithoutGap /\ \A w \in Versions : VersionOK(w)
      /\ req[r] \in Request /\ RequestOK(r)
  BY DEF IInv, TypeOK
<1>1. /\ req[r].op = "publish" /\ req[r].pc = "create" /\ n \in Versions
      /\ state'   = [state EXCEPT ![n] = IF released THEN "released"
                                                     ELSE "needs_review"]
      /\ content' = [content EXCEPT ![n] = req[r].content]
      /\ holds'   = [holds EXCEPT ![n] = req[r].holds]
      /\ latest'  = IF released THEN Advance(n) ELSE latest
      /\ prose'   = IF released THEN n ELSE prose
      /\ events'  = IF released THEN [events EXCEPT ![n] = @ + 1] ELSE events
      /\ req' = [req EXCEPT ![r] = q]
      /\ UNCHANGED <<decided, spec, exactRule, prefixRule>>
  BY <1>t DEF CreateVersion, At, ruleVars
<1>2. /\ req[r].content \in Contents /\ ~Refused(ScanOf[req[r].content])
      /\ req[r].user \in Users /\ ~req[r].inserted
      /\ req[r].holds \subseteq HoldReason
  BY <1>1, <1>t DEF RequestOK, PublishOK, Request
<1>3. /\ Newest \in 0..MaxVersion
      /\ \A v \in Versions : state[v] # "none" <=> v <= Newest
      /\ state[n] = "none"
  <2>1. /\ Newest \in 0..MaxVersion
        /\ \A v \in Versions : state[v] # "none" <=> v <= Newest
    BY <1>t, NewestIs
  <2> QED
    BY <1>1, <2>1, PublishAssumption DEF Versions
<1>4. /\ state' \in [Versions -> State]
      /\ state'[n] = IF released THEN "released" ELSE "needs_review"
      /\ \A w \in Versions \ {n} : state'[w] = state[w]
  BY <1>1, <1>t DEF TypeOK, State
<1>5. /\ q \in Request /\ req' \in [Requests -> Request]
      /\ req'[r] = q /\ q.op = "publish" /\ q.version = n
      /\ q.pc \in {"spec", "claim"} /\ q.user = req[r].user /\ ~q.inserted
      /\ \A s \in Requests \ {r} : req'[s] = req[s]
  <2>1. n \in 0..MaxVersion
    BY <1>1, PublishAssumption DEF Versions
  <2>2. q \in Request
    BY <1>t, <2>1 DEF Request
  <2>3. req' \in [Requests -> Request]
    BY <1>1, <1>t, <2>2 DEF TypeOK
  <2>4. req'[r] = q /\ \A s \in Requests \ {r} : req'[s] = req[s]
    BY <1>1, <1>t DEF TypeOK
  <2>5. /\ q.op = "publish" /\ q.version = n /\ q.user = req[r].user
        /\ ~q.inserted /\ q.pc \in {"spec", "claim"}
    BY <1>1, <1>2, <1>t DEF Request
  <2> QED
    BY <2>2, <2>3, <2>4, <2>5
<1>6. \A s \in Requests : RequestOK(s)'
  <2>1. RequestOK(r)'
    BY <1>1, <1>2, <1>5 DEF RequestOK, PublishOK
  <2>2. ASSUME NEW s \in Requests \ {r} PROVE RequestOK(s)'
    <3>1. RequestOK(s) /\ req'[s] = req[s]
      BY <1>5 DEF IInv
    <3>2. req[s].op = "publish" => PublishOK(s)'
      BY <3>1 DEF RequestOK, PublishOK
    <3>3. ASSUME req[s].op \in {"approve", "reject"} PROVE ReviewOK(s)'
      <4> DEFINE v == req[s].version
      <4>1. ReviewOK(s) /\ v \in Versions /\ v # n
        BY <1>3, <3>1, <3>3 DEF RequestOK, ReviewOK
      <4>2. /\ state'[v] = state[v] /\ holds'[v] = holds[v]
            /\ decided'[v] = decided[v]
        <5>1. state'[v] = state[v]
          BY <1>4, <4>1
        <5>2. holds'[v] = holds[v]
          BY <1>1, <1>t, <4>1 DEF TypeOK
        <5>3. decided' = decided
          BY <1>1
        <5> QED
          BY <5>1, <5>2, <5>3
      <4>3. Inserting(v)' = Inserting(v)
        <5>1. ~q.inserted /\ ~req[r].inserted
          BY <1>2, <1>5
        <5>2. /\ req'[r] = q
              /\ \A u \in Requests \ {r} : req'[u] = req[u]
          BY <1>5
        <5> HIDE DEF q
        <5> QED
          BY <5>1, <5>2 DEF Inserting
      <4>4. \A u \in Inserting(v) : req'[u] = req[u]
        BY <1>2, <1>5 DEF Inserting
      <4> QED
        BY <3>1, <4>1, <4>2, <4>3, <4>4 DEF ReviewOK
    <3> QED
      BY <3>1, <3>2, <3>3 DEF RequestOK
  <2> QED
    BY <2>1, <2>2
<1>7. \A w \in Versions : VersionOK(w)'
  <2> SUFFICES ASSUME NEW w \in Versions PROVE VersionOK(w)'
    OBVIOUS
  <2>1. VersionOK(w)
    BY <1>t
  <2>2. CASE w = n
    <3>1. content'[w] = req[r].content /\ holds'[w] = req[r].holds
      BY <1>1, <1>t, <2>2 DEF TypeOK
    <3> QED
      BY <1>1, <1>2, <1>4, <2>1, <2>2, <3>1 DEF VersionOK
  <2>3. CASE w # n
    <3>1. content'[w] = content[w] /\ holds'[w] = holds[w] /\ state'[w] = state[w]
      BY <1>1, <1>4, <1>t, <2>3 DEF TypeOK
    <3> QED
      BY <1>1, <2>1, <3>1 DEF VersionOK
  <2> QED
    BY <2>2, <2>3
<1>8. OneEventPerRelease' /\ events' \in [Versions -> Nat]
  BY <1>1, <1>3, <1>4, <1>t DEF OneEventPerRelease, TypeOK
<1>9. latest < n /\ latest \in 0..MaxVersion
  <2>1. latest # 0 => latest \in Versions /\ latest <= Newest
    BY <1>3, <1>t, PublishAssumption DEF TypeOK, Versions, LatestIsNewestRelease
  <2> QED
    BY <1>3, <1>t, <2>1, PublishAssumption DEF TypeOK, Versions
<1>10. LatestIsNewestRelease' /\ latest' \in 0..MaxVersion /\ prose' \in 0..MaxVersion
  <2>1. CASE released
    <3>1. latest' = n /\ prose' = n /\ state'[n] = "released" /\ n \in 0..MaxVersion
      BY <1>1, <1>4, <1>9, <2>1, PublishAssumption DEF Advance, LargerOf, Versions
    <3>2. \A w \in Versions : state'[w] = "released" => w <= n
      BY <1>3, <1>4, PublishAssumption DEF Versions
    <3> QED
      BY <3>1, <3>2 DEF LatestIsNewestRelease
  <2>2. CASE ~released
    <3>1. latest' = latest /\ prose' = prose /\ latest # n
      BY <1>1, <1>3, <1>9, <2>2
    <3>2. latest # 0 => latest \in Versions
      BY <1>t, PublishAssumption DEF TypeOK, Versions
    <3>3. \A w \in Versions : state'[w] = "released" => state[w] = "released"
      BY <1>4, <2>2
    <3> QED
      BY <1>4, <1>t, <3>1, <3>2, <3>3 DEF LatestIsNewestRelease, TypeOK
  <2> QED
    BY <2>1, <2>2
<1>11. NumberedWithoutGap'
  <2>1. n \in 0..MaxVersion /\ \A w \in Versions : state'[w] # "none" <=> w <= n
    BY <1>1, <1>3, <1>4, PublishAssumption DEF Versions
  <2> QED
    BY <2>1 DEF NumberedWithoutGap
<1>12. TypeOK'
  BY <1>1, <1>2, <1>4, <1>5, <1>8, <1>10, <1>t DEF TypeOK
<1> QED
  BY <1>6, <1>7, <1>8, <1>10, <1>11, <1>12 DEF IInv

-----------------------------------------------------------------------------
LEMMA StepInv == IInv /\ [Next]_vars => IInv'
<1> SUFFICES ASSUME IInv, [Next]_vars PROVE IInv'
  OBVIOUS
<1>1. ASSUME NEW r \in Requests, Publishing(r) PROVE IInv'
  BY <1>1, PublishSteps, CreateInv DEF Publishing
<1>2. ASSUME NEW r \in Requests, Reviewing(r) PROVE IInv'
  BY <1>2, StartsOfReview, ReviewSteps, CommitInv, ReleaseInv, RejectInv
     DEF Reviewing
<1>3. ASSUME Managing PROVE IInv'
  BY <1>3, RuleSteps
<1>4. CASE UNCHANGED vars
  BY <1>4 DEF vars, versionVars, skillVars, ruleVars, IInv, TypeOK,
     NumberedWithoutGap, LatestIsNewestRelease, OneEventPerRelease, VersionOK,
     RequestOK, PublishOK, ReviewOK, Inserting
<1> QED
  BY <1>1, <1>2, <1>3, <1>4 DEF Next

(* The invariant of publishing holds in every reachable state. *)
THEOREM PublishInvariant == Spec => []IInv
<1> QED
  BY InitInv, StepInv, PTL DEF Spec

(* Type correctness of the versions, the skill row and the requests. *)
THEOREM TypeCorrect == Spec => []TypeOK
<1>1. IInv => TypeOK
  BY DEF IInv
<1> QED
  BY <1>1, PublishInvariant, PTL

(* Clients are pointed at the newest released version and read its prose,   *)
(* whatever the order in which versions are published and released.         *)
THEOREM LatestIsServed == Spec => []LatestIsNewestRelease
<1>1. IInv => LatestIsNewestRelease
  BY DEF IInv
<1> QED
  BY <1>1, PublishInvariant, PTL

(* Every release is announced exactly once. *)
THEOREM AnnouncedOnce == Spec => []OneEventPerRelease
<1>1. IInv => OneEventPerRelease
  BY DEF IInv
<1> QED
  BY <1>1, PublishInvariant, PTL

(* Nothing is served that the gate refuses, nor anything it held that was   *)
(* not cleared, reason by reason, by someone entitled to.                   *)
THEOREM OnlyVettedIsServed == Spec => []ServedIsVetted
<1>1. ASSUME IInv PROVE ServedIsVetted
  <2> SUFFICES ASSUME NEW v \in Versions, state[v] = "released"
               PROVE  /\ ~Refused(ScanOf[content[v]])
                      /\ \A h \in holds[v] : decided[v][h] \in Entitled(h)
    BY DEF ServedIsVetted
  <2>1. VersionOK(v) /\ holds[v] \subseteq HoldReason
    BY <1>1 DEF IInv, TypeOK
  <2> QED
    BY <2>1 DEF VersionOK, Authority
<1> QED
  BY <1>1, PublishInvariant, PTL

-----------------------------------------------------------------------------
(* The refinement of VersionBook. *)

LEMMA CreateAccepts ==
  ASSUME IInv, NEW r \in Requests, CreateVersion(r)
  PROVE  Book!BookNext
<1> DEFINE n == Newest + 1
<1>1. /\ n \in Versions
      /\ state' = [state EXCEPT ![n] = IF req[r].holds = {} THEN "released"
                                                          ELSE "needs_review"]
      /\ latest' = IF req[r].holds = {} THEN Advance(n) ELSE latest
  BY DEF CreateVersion
<1>2. /\ Newest \in 0..MaxVersion
      /\ \A v \in Versions : state[v] # "none" <=> v <= Newest
      /\ latest \in 0..MaxVersion
      /\ latest # 0 => latest \in Versions /\ state[latest] = "released"
  BY NewestIs, PublishAssumption DEF IInv, TypeOK, LatestIsNewestRelease, Versions
<1>3. /\ state[n] = "none" /\ \A w \in Versions : w < n => state[w] # "none"
      /\ \A w \in Versions : w > n => state[w] = "none"
      /\ latest < n
  BY <1>1, <1>2, PublishAssumption DEF Versions
<1>4. req[r].holds = {} => latest' = n
  BY <1>1, <1>2, <1>3 DEF Advance, LargerOf
<1>5. Book!Accept(n)
  BY <1>1, <1>3, <1>4 DEF Book!Accept, Book!Serve, Book!Numbers, Versions
<1> QED
  BY <1>1, <1>5 DEF Book!BookNext, Book!Numbers, Versions

LEMMA ReleaseApproves ==
  ASSUME IInv, NEW r \in Requests, ReleaseVersion(r)
  PROVE  [Book!BookNext]_(Book!bookVars)
<1> DEFINE v == req[r].version
<1>1. /\ v \in Versions /\ state[v] \in {"needs_review", "released"}
      /\ state' = [state EXCEPT ![v] = "released"]
      /\ latest' = LargerOf(latest, v)
  BY ReleaseFacts
<1>2. /\ state \in [Versions -> State] /\ latest \in 0..MaxVersion
      /\ latest # 0 => latest \in Versions /\ state[latest] = "released"
      /\ \A w \in Versions : state[w] = "released" => w <= latest
  BY PublishAssumption DEF IInv, TypeOK, LatestIsNewestRelease, Versions
<1>3. CASE state[v] = "released"
  <2>1. state' = state /\ latest' = latest
    BY <1>1, <1>2, <1>3, PublishAssumption DEF LargerOf, Versions
  <2> QED
    BY <2>1 DEF Book!bookVars
<1>4. CASE state[v] = "needs_review"
  <2>1. CASE latest < v
    <3>1. latest' = v
      BY <1>1, <1>2, <2>1, PublishAssumption DEF LargerOf, Versions
    <3>2. \A w \in Versions : w > v => state[w] # "released"
      BY <1>1, <1>2, <2>1, PublishAssumption DEF Versions
    <3> QED
      BY <1>1, <1>4, <3>1, <3>2
         DEF Book!Approve, Book!Serve, Book!BookNext, Book!Numbers, Versions
  <2>2. CASE latest >= v
    <3>1. latest' = latest /\ latest \in Versions /\ latest > v
      BY <1>1, <1>2, <1>4, <2>2, PublishAssumption DEF LargerOf, Versions
    <3>2. \E w \in Versions : w > v /\ state[w] = "released"
      BY <1>2, <3>1, PublishAssumption DEF Versions
    <3>3. Book!Approve(v)
      BY <1>1, <1>4, <3>1, <3>2 DEF Book!Approve, Book!Numbers, Versions
    <3> QED
      BY <1>1, <3>3 DEF Book!BookNext, Book!Numbers, Versions
  <2> QED
    BY <1>1, <1>2, <2>1, <2>2, PublishAssumption DEF Versions
<1> QED
  BY <1>1, <1>3, <1>4

LEMMA RejectRefuses ==
  ASSUME IInv, NEW r \in Requests, RejectReason(r)
  PROVE  [Book!BookNext]_(Book!bookVars)
<1> DEFINE v == req[r].version
<1>1. v \in Versions /\ UNCHANGED latest
  BY DEF IInv, RequestOK, ReviewOK, RejectReason, At, skillVars
<1>2. CASE Rejectable(v)
  <2>1. state' = [state EXCEPT ![v] = "rejected"] /\ state[v] = "needs_review"
    BY <1>2 DEF RejectReason, Rejectable
  <2> QED
    BY <1>1, <2>1 DEF Book!Refuse, Book!BookNext, Book!Numbers, Versions
<1>3. CASE ~Rejectable(v)
  BY <1>1, <1>3 DEF RejectReason, Book!bookVars, versionVars, skillVars
<1> QED
  BY <1>2, <1>3

(* Every behaviour of the handlers, their interleavings included, is one of *)
(* the version book's.                                                      *)
THEOREM PublishImplementsBook == Spec => ImplementsBook
<1>1. Init => Book!BookInit
  BY DEF Init, Book!BookInit, Book!Numbers, Versions
<1>2. ASSUME IInv, [Next]_vars PROVE [Book!BookNext]_(Book!bookVars)
  <2>1. CASE UNCHANGED <<state, latest>>
    BY <2>1 DEF Book!bookVars
  <2>2. ASSUME NEW r \in Requests, Publishing(r)
        PROVE  [Book!BookNext]_(Book!bookVars)
    <3>1. CASE CreateVersion(r)
      BY <1>2, <3>1, CreateAccepts
    <3>2. CASE ~CreateVersion(r)
      BY <2>1, <2>2, <3>2 DEF Publishing, StartPublish, Resolve, UpdateSpecFields,
         ClaimOnFirstPublish, AbandonPublish, versionVars, skillVars
    <3> QED
      BY <3>1, <3>2
  <2>3. ASSUME NEW r \in Requests, Reviewing(r)
        PROVE  [Book!BookNext]_(Book!bookVars)
    <3>1. CASE ReleaseVersion(r)
      BY <1>2, <3>1, ReleaseApproves
    <3>2. CASE RejectReason(r)
      BY <1>2, <3>2, RejectRefuses
    <3>3. CASE ~ReleaseVersion(r) /\ ~RejectReason(r)
      BY <2>1, <2>3, <3>3 DEF Reviewing, StartReview, Reconsider, Authorise,
         InsertApproval, CountOutstanding, CommitApproval, AbandonReview,
         versionVars, skillVars
    <3> QED
      BY <3>1, <3>2, <3>3
  <2>4. ASSUME Managing PROVE [Book!BookNext]_(Book!bookVars)
    BY <2>1, <2>4 DEF Managing, SetRule, DeleteRule, MemberGone, versionVars,
       skillVars
  <2>5. CASE UNCHANGED vars
    BY <2>1, <2>5 DEF vars, versionVars, skillVars
  <2> QED
    BY <1>2, <2>2, <2>3, <2>4, <2>5 DEF Next
<1> QED
  BY <1>1, <1>2, PublishInvariant, PTL DEF Spec, ImplementsBook, Book!BookSpec

-----------------------------------------------------------------------------
(* The gate's decision.                                                      *)

(* Type correctness of the decision's inputs. *)
THEOREM InputsTypeCorrect == InputsSpec => []InputsOK
<1>1. InputsInit => InputsOK
  <2> SUFFICES ASSUME InputsInit PROVE InputsOK
    OBVIOUS
  <2>1. quality \in Quality
    BY DEF InputsInit, Quality
  <2>2. owner \in OwnerState
    BY DEF InputsInit, OwnerState, NotEvaluated
  <2>3. policy \in Policy
    BY DEF InputsInit, Policy
  <2> QED
    BY <2>1, <2>2, <2>3 DEF InputsInit, InputsOK
<1>2. InputsOK /\ [InputsNext]_inputs => InputsOK'
  <2> SUFFICES ASSUME InputsOK, [InputsNext]_inputs PROVE InputsOK'
    OBVIOUS
  <2>1. ASSUME NEW f \in Findings, Find(f) PROVE InputsOK'
    BY <2>1 DEF InputsOK, Find
  <2>2. ASSUME NEW q \in Quality, MeasureScore(q) PROVE InputsOK'
    BY <2>2 DEF InputsOK, MeasureScore
  <2>3. ASSUME NEW a \in BOOLEAN, NEW b \in BOOLEAN, ResolveOwner(a, b)
        PROVE InputsOK'
    BY <2>3 DEF InputsOK, ResolveOwner, OwnerState
  <2>4. ASSUME NEW p \in Policy, Configure(p) PROVE InputsOK'
    BY <2>4 DEF InputsOK, Configure
  <2>5. CASE UNCHANGED inputs
    BY <2>5 DEF InputsOK, inputs
  <2> QED
    BY <2>1, <2>2, <2>3, <2>4, <2>5 DEF InputsNext
<1> QED
  BY <1>1, <1>2, PTL DEF InputsSpec

(* More findings refuse more and contest more. *)
LEMMA FindingsAccumulate ==
  ASSUME NEW s, NEW t, s \subseteq t
  PROVE  /\ Refused(s) => Refused(t)
         /\ Contested(s) => Contested(t)
BY DEF Refused, Contested

(* Adding findings to a report, with every other input the same, never     *)
(* lowers the rank of Decide's outcome.                                    *)
LEMMA DecideIsMonotone ==
  ASSUME NEW s, NEW t, s \subseteq t, NEW q, NEW o, NEW p
  PROVE  Rank(Decide(s, q, o, p)) <= Rank(Decide(t, q, o, p))
<1>1. CASE Refused(t)
  BY <1>1 DEF Decide, Rank
<1>2. CASE ~Refused(t)
  <2>1. ~Refused(s)
    BY <1>2, FindingsAccumulate
  <2>2. Holds(s, q, o, p) \subseteq Holds(t, q, o, p)
    BY <1>2, <2>1, FindingsAccumulate DEF Holds
  <2> QED
    BY <1>2, <2>1, <2>2 DEF Decide, Rank
<1> QED
  BY <1>1, <1>2

(* One more finding never makes a bundle easier to publish. *)
THEOREM FindingsTighten == InputsSpec => FindingsOnlyTighten
<1>1. [InputsNext]_inputs =>
        [(scan \subseteq scan' /\ UNCHANGED <<quality, owner, policy>>)
           => Rank(Now) <= Rank(Now')]_inputs
  BY DecideIsMonotone DEF Now
<1> QED
  BY <1>1, PTL DEF InputsSpec, FindingsOnlyTighten

(* A measurement, an override and the floor decide the scan hold alone. *)
LEMMA EvidenceIsLocal ==
  ASSUME NEW s, NEW q, NEW r, NEW o, NEW p1, NEW p2
  PROVE  /\ (Decide(s, q, o, p1) = "block") <=> (Decide(s, r, o, p2) = "block")
         /\ ("ownership" \in Holds(s, q, o, p1))
              <=> ("ownership" \in Holds(s, r, o, p2))
BY DEF Decide, Holds, HoldReason

(* Neither a measurement nor an override nor the floor touches a refusal   *)
(* or the ownership hold.                                                  *)
THEOREM EvidenceIsForTheScan == InputsSpec => EvidenceMovesOnlyTheScanHold
<1>1. [InputsNext]_inputs =>
        [UNCHANGED <<scan, owner>>
           => /\ (Now = "block") <=> (Now' = "block")
              /\ ("ownership" \in HoldsNow) <=> ("ownership" \in HoldsNow')]_inputs
  BY EvidenceIsLocal DEF Now, HoldsNow
<1> QED
  BY <1>1, PTL DEF InputsSpec, EvidenceMovesOnlyTheScanHold

(* Reconsider releases a version held for its scan exactly when the        *)
(* measurement clears the floor.                                           *)
LEMMA HeldScanReclears ==
  ASSUME NEW s, NEW o, NEW p, "scan" \in Holds(s, Unmeasured, o, p),
         NEW q, NEW floor
  PROVE  Reclears(s, q, floor) <=> QualityClears(q, floor)
<1>1. ~Refused(s) /\ Contested(s)
  BY DEF Holds
<1>2. "ownership" \notin
        Holds(s, q, NotEvaluated, [floor |-> floor, override |-> FALSE])
  BY DEF Holds, OwnerHolds, NotEvaluated
<1>3. "scan" \in Holds(s, q, NotEvaluated, [floor |-> floor, override |-> FALSE])
        <=> ~QualityClears(q, floor)
  BY <1>1 DEF Holds, HoldReason
<1>4. Holds(s, q, NotEvaluated, [floor |-> floor, override |-> FALSE])
        \subseteq HoldReason
  BY DEF Holds
<1> QED
  BY <1>1, <1>2, <1>3, <1>4 DEF Reclears, Decide, HoldReason

(* Every reachable version held for its scan is cleared by exactly the     *)
(* scores that clear the floor.                                            *)
THEOREM ScanHoldsClear == InputsSpec => []ScanHoldClearsByScore
<1>1. ScanHoldClearsByScore
  BY HeldScanReclears DEF ScanHoldClearsByScore
<1> QED
  BY <1>1, PTL DEF InputsSpec
=============================================================================
