--------------------------- MODULE EventsProofs ----------------------------
(* Proofs about what arrives and goes out.  Webhooks, for any number of      *)
(* endpoints, deliveries and jobs, and any number of attempts; the GitHub    *)
(* App, for any number of Apps and flows; the checks of pull requests, for   *)
(* any number of pull requests, heads, syncs and contests; submissions and   *)
(* the changes they become, for any number of each; and the sync of a        *)
(* connection, for any number of skills, names and folders.                  *)
EXTENDS MCGit, Sequences, FiniteSetTheorems, WellFoundedInduction, TLAPS

-----------------------------------------------------------------------------
(* The inductive invariant.                                                  *)

(* A job is of a delivery, has an attempt left while it waits, and holds a   *)
(* good answer only of a delivery its receiver accepted.                     *)
JobsInOrder ==
  \A j \in Jobs :
    /\ job[j].state # "none" => job[j].of \in Deliveries
    /\ job[j].state = "waiting" => job[j].attempt < MaxAttempts
    /\ job[j].at = "record" /\ job[j].ok => job[j].of \in accepted

DeliveriesHaveEndpoints ==
  \A d \in Deliveries : delivery[d].state # "none" => delivery[d].endpoint \in Endpoints

(* The secret receivers may still expect is the one before the last rotation.*)
PromisedIsPrevious ==
  \A e \in Endpoints : endpoint[e].promised # 0 => endpoint[e].promised = endpoint[e].previous

IInv ==
  /\ TypeOK
  /\ JobsInOrder /\ DeliveriesHaveEndpoints /\ PromisedIsPrevious
  /\ PendingHasAJob /\ DeliveredWasAccepted

-----------------------------------------------------------------------------
(* The rows, read off their types.                                           *)

EndpointRows == [state : {"none", "on", "off"}, secret : 0..MaxSecret,
                 previous : 0..MaxSecret, promised : 0..MaxSecret]
DeliveryRows == [endpoint : Endpoints \cup {"none"},
                 state : {"none", "pending", "delivered", "failed"}]
JobRows == [state : {"none", "waiting", "running", "done", "discarded"},
            of : Deliveries \cup {"none"}, attempt : 0..MaxAttempts,
            at : {"start", "send", "record"}, keys : SUBSET (0..MaxSecret), ok : BOOLEAN]

LEMMA RowTypes ==
  TypeOK <=> /\ endpoint \in [Endpoints -> EndpointRows]
             /\ delivery \in [Deliveries -> DeliveryRows]
             /\ job \in [Jobs -> JobRows]
             /\ accepted \subseteq Deliveries /\ unrecorded \subseteq Deliveries
             /\ crashes \in 0..MaxCrash
BY DEF TypeOK, EndpointRows, DeliveryRows, JobRows

(* What River does with a job whose attempt failed.                          *)
LEMMA ErroredJob ==
  ASSUME job \in [Jobs -> JobRows], NEW j \in Jobs, job[j].state = "running",
         NEW row, row = Errored(j)
  PROVE  /\ row \in JobRows /\ row.of = job[j].of /\ row.attempt = job[j].attempt
         /\ row.at = "start"
         /\ row.state = IF job[j].attempt < MaxAttempts THEN "waiting" ELSE "discarded"
<1>1. job[j] \in JobRows
  OBVIOUS
<1> QED
  BY <1>1 DEF JobRows, Errored

LEMMA InsertedJob ==
  ASSUME NEW j, NEW d \in Deliveries, NEW row, row = Insert(j, d)
  PROVE  /\ row \in JobRows /\ row.of = d /\ row.state = "waiting"
         /\ row.attempt < MaxAttempts /\ row.at = "start"
<1>1. row = [state |-> "waiting", of |-> d, attempt |-> 0, at |-> "start",
             keys |-> {}, ok |-> FALSE]
  BY DEF Insert, NoJob
<1>2. 0 \in 0..MaxAttempts /\ 0 < MaxAttempts
  BY BoundsAssumption
<1> QED
  BY <1>1, <1>2 DEF JobRows

(* As many jobs as deliveries, no two of one delivery, are one for each.     *)
LEMMA OneJobEach ==
  ASSUME NEW ds \in SUBSET Deliveries, NEW js \in SUBSET Jobs,
         Cardinality(js) = Cardinality(ds), NEW of \in [js -> ds],
         \A i, j \in js : of[i] = of[j] => i = j
  PROVE  \A d \in ds : \E j \in js : of[j] = d
<1>1. IsFiniteSet(ds)
  BY FS_Subset, RowsAssumption
<1>2. of \in Injection(js, ds)
  BY DEF Injection, IsInjective
<1>3. of \in Surjection(js, ds)
  BY <1>1, <1>2, FS_Injection
<1> QED
  BY <1>3 DEF Surjection

-----------------------------------------------------------------------------
(* Endpoints come, change and go: no job moves, and no delivery but those of *)
(* an endpoint that goes.                                                    *)
LEMMA EndpointStep ==
  ASSUME IInv, NEW e \in Endpoints,
         \/ CreateEndpoint(e) \/ Rotate(e) \/ WindowEnds(e) \/ DeleteEndpoint(e)
         \/ \E state \in {"on", "off"} : UpdateEndpoint(e, state)
  PROVE  IInv'
<1> USE DEF EndpointRows
<1>0. /\ endpoint \in [Endpoints -> EndpointRows] /\ delivery \in [Deliveries -> DeliveryRows]
      /\ 0 \in 0..MaxSecret /\ 1 \in 0..MaxSecret
      /\ UNCHANGED <<job, accepted, unrecorded, crashes>>
  BY RowTypes, BoundsAssumption
     DEF IInv, CreateEndpoint, Rotate, WindowEnds, DeleteEndpoint, UpdateEndpoint
(* The row it writes.                                                        *)
<1>1. PICK row \in EndpointRows :
        /\ endpoint' = [endpoint EXCEPT ![e] = row]
        /\ row.promised # 0 => row.promised = row.previous
  <2>1. CASE CreateEndpoint(e) \/ DeleteEndpoint(e)
    <3>1. \/ endpoint' = [endpoint EXCEPT ![e] = NoEndpoint]
          \/ endpoint' = [endpoint EXCEPT ![e] = [NoEndpoint EXCEPT !.state = "on", !.secret = 1]]
      BY <2>1 DEF CreateEndpoint, DeleteEndpoint
    <3>2. PICK row : /\ row = NoEndpoint \/ row = [NoEndpoint EXCEPT !.state = "on", !.secret = 1]
                     /\ endpoint' = [endpoint EXCEPT ![e] = row]
      BY <3>1
    <3>3. row \in EndpointRows /\ row.promised = 0
      <4>1. \/ row = [state |-> "none", secret |-> 0, previous |-> 0, promised |-> 0]
            \/ row = [state |-> "on", secret |-> 1, previous |-> 0, promised |-> 0]
        BY <3>2 DEF NoEndpoint
      <4> QED
        BY <1>0, <4>1
    <3> QED
      BY <3>2, <3>3
  <2>2. CASE Rotate(e)
    <3>1. PICK old \in EndpointRows : old = endpoint[e] /\ old.secret < MaxSecret
      BY <1>0, <2>2 DEF Rotate
    <3>2. old.secret \in 0..MaxSecret /\ old.secret + 1 \in 0..MaxSecret
      BY <3>1, BoundsAssumption
    <3>3. PICK row : row = Rotated(old)
      OBVIOUS
    <3>4. row \in EndpointRows /\ row.promised = row.previous
      BY <3>2, <3>3 DEF Rotated
    <3>5. endpoint' = [endpoint EXCEPT ![e] = row]
      BY <2>2, <3>1, <3>3 DEF Rotate
    <3> QED
      BY <3>4, <3>5
  <2>3. CASE WindowEnds(e)
    <3>1. PICK row : row = [endpoint[e] EXCEPT !.promised = 0]
      OBVIOUS
    <3>2. row \in EndpointRows /\ row.promised = 0
      BY <1>0, <3>1
    <3> QED
      BY <2>3, <3>1, <3>2 DEF WindowEnds
  <2>4. CASE \E state \in {"on", "off"} : UpdateEndpoint(e, state)
    <3>1. PICK state \in {"on", "off"} : UpdateEndpoint(e, state)
      BY <2>4
    <3>2. PICK row : row = [endpoint[e] EXCEPT !.state = state]
      OBVIOUS
    <3>3. row \in EndpointRows /\ row.promised = endpoint[e].promised
          /\ row.previous = endpoint[e].previous
      BY <1>0, <3>2
    <3> QED
      BY <3>1, <3>2, <3>3 DEF UpdateEndpoint, IInv, PromisedIsPrevious
  <2> QED
    BY <2>1, <2>2, <2>3, <2>4
<1>2. /\ delivery' \in [Deliveries -> DeliveryRows]
      /\ \A d \in Deliveries : /\ delivery'[d].endpoint = delivery[d].endpoint
                               /\ delivery'[d].state \in {delivery[d].state, "none"}
  BY <1>0 DEF CreateEndpoint, Rotate, WindowEnds, DeleteEndpoint, UpdateEndpoint, DeliveryRows
<1> HIDE DEF EndpointRows
<1>3. TypeOK'
  <2>1. endpoint' \in [Endpoints -> EndpointRows]
    BY <1>0, <1>1
  <2>2. /\ job' \in [Jobs -> JobRows] /\ crashes' \in 0..MaxCrash
        /\ accepted' \subseteq Deliveries /\ unrecorded' \subseteq Deliveries
    BY <1>0, RowTypes DEF IInv
  <2> QED
    BY <1>2, <2>1, <2>2 DEF TypeOK, EndpointRows, DeliveryRows, JobRows
<1>4. JobsInOrder' /\ DeliveriesHaveEndpoints'
  BY <1>0, <1>2 DEF IInv, JobsInOrder, DeliveriesHaveEndpoints
<1>5. PromisedIsPrevious'
  BY <1>0, <1>1 DEF IInv, PromisedIsPrevious
<1>6. PendingHasAJob' /\ DeliveredWasAccepted'
  BY <1>0, <1>2 DEF IInv, PendingHasAJob, DeliveredWasAccepted, Unfinished
<1> QED
  BY <1>3, <1>4, <1>5, <1>6 DEF IInv

(* New jobs for deliveries that become pending.                              *)
LEMMA EmitStep ==
  ASSUME IInv, NEW ds \in SUBSET Deliveries, NEW js \in SUBSET Jobs, Emit(ds, js)
  PROVE  IInv'
<1>0. /\ delivery \in [Deliveries -> DeliveryRows] /\ job \in [Jobs -> JobRows]
      /\ UNCHANGED <<endpoint, accepted, unrecorded, crashes>>
  BY RowTypes DEF IInv, Emit
<1>1. PICK to \in [ds -> {e \in Endpoints : endpoint[e].state = "on"}], of \in [js -> ds] :
        /\ \A i, j \in js : of[i] = of[j] => i = j
        /\ delivery' = [d \in Deliveries |->
             IF d \in ds THEN [endpoint |-> to[d], state |-> "pending"] ELSE delivery[d]]
        /\ job' = [j \in Jobs |-> IF j \in js THEN Insert(j, of[j]) ELSE job[j]]
  BY DEF Emit
<1>2. Cardinality(js) = Cardinality(ds) /\ \A j \in js : job[j].state = "none"
  BY DEF Emit
<1>3. \A d \in ds : \E j \in js : of[j] = d
  BY <1>1, <1>2, OneJobEach
<1>4. \A j \in js : /\ job'[j] \in JobRows /\ job'[j].of = of[j] /\ of[j] \in Deliveries
                    /\ job'[j].state = "waiting" /\ job'[j].attempt < MaxAttempts
                    /\ job'[j].at = "start"
  BY <1>1, InsertedJob
<1>5. \A j \in Jobs \ js : job'[j] = job[j]
  BY <1>1
<1>6. \A d \in ds : /\ delivery'[d] \in DeliveryRows /\ delivery'[d].endpoint \in Endpoints
                    /\ delivery'[d].state = "pending"
  BY <1>1 DEF DeliveryRows
<1>7. \A d \in Deliveries \ ds : delivery'[d] = delivery[d]
  BY <1>1
<1>8. TypeOK'
  <2>1. delivery' \in [Deliveries -> DeliveryRows]
    BY <1>0, <1>1, <1>6, <1>7
  <2>2. job' \in [Jobs -> JobRows]
    BY <1>0, <1>1, <1>4, <1>5
  <2> QED
    BY <1>0, <2>1, <2>2, RowTypes DEF IInv, TypeOK, EndpointRows, DeliveryRows, JobRows
<1>9. JobsInOrder'
  BY <1>0, <1>4, <1>5 DEF IInv, JobsInOrder
<1>10. DeliveriesHaveEndpoints' /\ PromisedIsPrevious' /\ DeliveredWasAccepted'
  BY <1>0, <1>6, <1>7
     DEF IInv, DeliveriesHaveEndpoints, PromisedIsPrevious, DeliveredWasAccepted
<1>11. PendingHasAJob'
  <2>1. ASSUME NEW d \in Deliveries \ unrecorded, delivery'[d].state = "pending"
        PROVE  Unfinished(d)'
    <3>1. CASE d \in ds
      BY <1>3, <1>4, <3>1 DEF Unfinished
    <3>2. CASE d \notin ds
      <4>1. PICK j \in Jobs : job[j].of = d /\ job[j].state \in {"waiting", "running"}
        BY <1>7, <2>1, <3>2 DEF IInv, PendingHasAJob, Unfinished
      <4> QED
        BY <1>2, <1>5, <4>1 DEF Unfinished
    <3> QED
      BY <3>1, <3>2
  <2> QED
    BY <1>0, <2>1 DEF PendingHasAJob
<1> QED
  BY <1>8, <1>9, <1>10, <1>11 DEF IInv

LEMMA RedeliverStep ==
  ASSUME IInv, NEW d \in Deliveries, NEW j \in Jobs, Redeliver(d, j)
  PROVE  IInv'
<1>0. /\ delivery \in [Deliveries -> DeliveryRows] /\ job \in [Jobs -> JobRows]
      /\ UNCHANGED <<endpoint, accepted, unrecorded, crashes>>
      /\ delivery[d].state # "none" /\ job[j].state = "none"
      /\ delivery' = [delivery EXCEPT ![d].state = "pending"]
  BY RowTypes DEF IInv, Redeliver
<1>1. PICK row : row = Insert(j, d) /\ job' = [job EXCEPT ![j] = row]
  BY DEF Redeliver
<1>2. /\ row \in JobRows /\ row.of = d /\ row.state = "waiting"
      /\ row.attempt < MaxAttempts /\ row.at = "start"
  BY <1>1, InsertedJob
<1>3. /\ delivery' \in [Deliveries -> DeliveryRows] /\ delivery'[d].state = "pending"
      /\ \A c \in Deliveries : /\ delivery'[c].endpoint = delivery[c].endpoint
                               /\ c # d => delivery'[c] = delivery[c]
  BY <1>0 DEF DeliveryRows
<1>4. job' \in [Jobs -> JobRows] /\ job'[j] = row /\ \A i \in Jobs \ {j} : job'[i] = job[i]
  BY <1>0, <1>1, <1>2
<1>5. TypeOK'
  BY <1>0, <1>3, <1>4, RowTypes DEF IInv, TypeOK, EndpointRows, DeliveryRows, JobRows
<1>6. JobsInOrder'
  BY <1>0, <1>2, <1>4 DEF IInv, JobsInOrder
<1>7. DeliveriesHaveEndpoints' /\ PromisedIsPrevious' /\ DeliveredWasAccepted'
  BY <1>0, <1>3 DEF IInv, DeliveriesHaveEndpoints, PromisedIsPrevious, DeliveredWasAccepted
<1>8. PendingHasAJob'
  <2>1. ASSUME NEW c \in Deliveries \ unrecorded, delivery'[c].state = "pending"
        PROVE  Unfinished(c)'
    <3>1. CASE c = d
      BY <1>2, <1>4, <3>1 DEF Unfinished
    <3>2. CASE c # d
      <4>1. PICK i \in Jobs : job[i].of = c /\ job[i].state \in {"waiting", "running"}
        BY <1>3, <2>1, <3>2 DEF IInv, PendingHasAJob, Unfinished
      <4> QED
        BY <1>0, <1>4, <4>1 DEF Unfinished
    <3> QED
      BY <3>1, <3>2
  <2> QED
    BY <1>0, <2>1 DEF PendingHasAJob
<1> QED
  BY <1>5, <1>6, <1>7, <1>8 DEF IInv

-----------------------------------------------------------------------------
(* A step of a job that writes its own row and its own delivery.             *)
JobWritten(j, row) ==
  LET d == job[j].of IN
  /\ job' = [job EXCEPT ![j] = row] /\ row.of = d
  /\ row.state = "waiting" => row.attempt < MaxAttempts
  /\ row.at = "record" /\ row.ok => d \in accepted'
  /\ UNCHANGED endpoint
  /\ delivery' \in [Deliveries -> DeliveryRows]
  /\ \A c \in Deliveries : /\ delivery'[c].endpoint = delivery[c].endpoint
                           /\ delivery'[c].state = "none" <=> delivery[c].state = "none"
                           /\ c # d => delivery'[c] = delivery[c]
  /\ accepted \subseteq accepted' /\ accepted' \subseteq Deliveries
  /\ unrecorded \subseteq unrecorded' /\ unrecorded' \subseteq Deliveries
  /\ crashes' \in 0..MaxCrash
  /\ delivery'[d].state = "delivered" => delivery[d].state = "delivered" \/ d \in accepted'
  /\ delivery'[d].state = "pending" => row.state \in {"waiting", "running"} \/ d \in unrecorded'

LEMMA JobStep ==
  ASSUME IInv, NEW j \in Jobs, NEW row \in JobRows, JobWritten(j, row),
         job[j].state # "none"
  PROVE  IInv'
<1>0. /\ delivery \in [Deliveries -> DeliveryRows] /\ job \in [Jobs -> JobRows]
      /\ job[j].of \in Deliveries
  BY RowTypes DEF IInv, JobsInOrder
<1> DEFINE d == job[j].of
<1>1. /\ job' \in [Jobs -> JobRows] /\ job'[j] = row /\ row.of = d
      /\ \A i \in Jobs \ {j} : job'[i] = job[i]
      /\ row.state = "waiting" => row.attempt < MaxAttempts
      /\ row.at = "record" /\ row.ok => d \in accepted'
  BY <1>0 DEF JobWritten
<1>2. /\ UNCHANGED endpoint /\ delivery' \in [Deliveries -> DeliveryRows]
      /\ accepted' \subseteq Deliveries /\ unrecorded' \subseteq Deliveries
      /\ accepted \subseteq accepted' /\ unrecorded \subseteq unrecorded'
      /\ crashes' \in 0..MaxCrash
  BY DEF JobWritten
<1>3. \A c \in Deliveries : /\ delivery'[c].endpoint = delivery[c].endpoint
                            /\ delivery'[c].state = "none" <=> delivery[c].state = "none"
                            /\ c # d => delivery'[c] = delivery[c]
  BY DEF JobWritten
<1>4. /\ delivery'[d].state = "delivered" => delivery[d].state = "delivered" \/ d \in accepted'
      /\ delivery'[d].state = "pending" => row.state \in {"waiting", "running"} \/ d \in unrecorded'
  BY DEF JobWritten
<1> HIDE DEF d
<1>5. TypeOK'
  <2>1. endpoint' \in [Endpoints -> EndpointRows]
    BY <1>2, RowTypes DEF IInv
  <2> QED
    BY <1>1, <1>2, <2>1 DEF TypeOK, EndpointRows, DeliveryRows, JobRows
<1>6. JobsInOrder'
  BY <1>0, <1>1, <1>2 DEF IInv, JobsInOrder, d
<1>7. DeliveriesHaveEndpoints' /\ PromisedIsPrevious'
  BY <1>2, <1>3 DEF IInv, DeliveriesHaveEndpoints, PromisedIsPrevious
<1>8. DeliveredWasAccepted'
  <2>1. ASSUME NEW c \in Deliveries, delivery'[c].state = "delivered" PROVE c \in accepted'
    <3>1. CASE c = d
      BY <1>2, <1>4, <2>1, <3>1 DEF IInv, DeliveredWasAccepted
    <3>2. CASE c # d
      BY <1>2, <1>3, <2>1, <3>2 DEF IInv, DeliveredWasAccepted
    <3> QED
      BY <3>1, <3>2
  <2> QED
    BY <2>1 DEF DeliveredWasAccepted
<1>9. PendingHasAJob'
  <2>1. ASSUME NEW c \in Deliveries \ unrecorded', delivery'[c].state = "pending"
        PROVE  Unfinished(c)'
    <3>1. CASE c = d
      BY <1>1, <1>4, <2>1, <3>1 DEF Unfinished
    <3>2. CASE c # d
      <4>1. PICK i \in Jobs : job[i].of = c /\ job[i].state \in {"waiting", "running"}
        BY <1>2, <1>3, <2>1, <3>2 DEF IInv, PendingHasAJob, Unfinished
      <4>2. i # j
        BY <3>2, <4>1 DEF d
      <4> QED
        BY <1>1, <4>1, <4>2 DEF Unfinished
    <3> QED
      BY <3>1, <3>2
  <2> QED
    BY <2>1 DEF PendingHasAJob
<1> QED
  BY <1>5, <1>6, <1>7, <1>8, <1>9 DEF IInv

LEMMA WorkStep ==
  ASSUME IInv, NEW j \in Jobs, Work(j) \/ Crash(j)
  PROVE  IInv'
<1> DEFINE d == job[j].of
<1>0. /\ delivery \in [Deliveries -> DeliveryRows] /\ job \in [Jobs -> JobRows]
      /\ endpoint \in [Endpoints -> EndpointRows]
      /\ accepted \subseteq Deliveries /\ unrecorded \subseteq Deliveries
      /\ crashes \in 0..MaxCrash
  BY RowTypes DEF IInv
<1>1. job[j].state \in {"waiting", "running"} /\ d \in Deliveries
  BY Zenon DEF Work, Start, Load, Send, Record, Crash, IInv, JobsInOrder
<1>2. PICK old \in JobRows : old = job[j]
  BY <1>0
<1>3. delivery[d].state # "none" => delivery[d].endpoint \in Endpoints
  BY <1>1 DEF IInv, DeliveriesHaveEndpoints
<1>4. delivery[d].state = "delivered" => d \in accepted
  BY <1>1 DEF IInv, DeliveredWasAccepted
<1>5. CASE Start(j)
  <2>1. PICK row : row = [old EXCEPT !.state = "running", !.attempt = @ + 1, !.at = "start"]
    OBVIOUS
  <2>2. old.attempt + 1 \in 0..MaxAttempts
    BY <1>2, <1>5, BoundsAssumption DEF Start, IInv, JobsInOrder, JobRows
  <2>3. /\ row \in JobRows /\ row.of = old.of /\ row.state = "running" /\ row.at = "start"
    BY <2>1, <2>2 DEF JobRows
  <2>4. job' = [job EXCEPT ![j] = row] /\ UNCHANGED <<endpoint, delivery, accepted, unrecorded, crashes>>
    BY <1>2, <1>5, <2>1 DEF Start
  <2>5. JobWritten(j, row)
    BY <1>0, <1>2, <2>3, <2>4 DEF JobWritten
  <2> QED
    BY <1>1, <2>3, <2>5, JobStep
<1>6. ASSUME NEW row, row = Ended(j), job[j].state = "running"
      PROVE  /\ row \in JobRows /\ row.of = old.of /\ row.state = "done"
             /\ row.at = old.at /\ row.ok = old.ok
  BY <1>2, <1>6 DEF Ended, JobRows
<1>7. CASE Load(j)
  <2>1. /\ job[j].state = "running" /\ old.at = "start"
        /\ UNCHANGED <<endpoint, accepted, unrecorded, crashes>>
    BY <1>2, <1>7, Zenon DEF Load
  <2>2. CASE /\ delivery[d].state = "none"
             /\ job' = [job EXCEPT ![j] = Ended(j)] /\ UNCHANGED delivery
    <3>1. PICK row : row = Ended(j)
      OBVIOUS
    <3>2. JobWritten(j, row)
      BY <1>0, <1>2, <1>6, <2>1, <2>2, <3>1 DEF JobWritten
    <3> QED
      BY <1>1, <1>6, <2>1, <3>1, <3>2, JobStep
  <2>3. CASE /\ delivery[d].state # "none"
             /\ delivery' = [delivery EXCEPT ![d].state = "failed"]
             /\ job' = [job EXCEPT ![j] = Ended(j)]
    <3>1. PICK row : row = Ended(j)
      OBVIOUS
    <3>2. /\ delivery' \in [Deliveries -> DeliveryRows] /\ delivery'[d].state = "failed"
          /\ delivery'[d].endpoint = delivery[d].endpoint
          /\ \A c \in Deliveries : c # d => delivery'[c] = delivery[c]
      BY <1>0, <1>1, <2>3 DEF DeliveryRows
    <3>3. JobWritten(j, row)
      BY <1>0, <1>2, <1>6, <2>1, <2>3, <3>1, <3>2 DEF JobWritten
    <3> QED
      BY <1>1, <1>6, <2>1, <3>1, <3>3, JobStep
  <2>4. CASE /\ delivery[d].state # "none"
             /\ job' = [job EXCEPT ![j].at = "send", ![j].keys =
                  {endpoint[delivery[d].endpoint].secret} \cup
                  (IF endpoint[delivery[d].endpoint].promised # 0
                   THEN {endpoint[delivery[d].endpoint].previous} ELSE {})]
             /\ UNCHANGED delivery
    <3>1. PICK keys : keys = {endpoint[delivery[d].endpoint].secret} \cup
                  (IF endpoint[delivery[d].endpoint].promised # 0
                   THEN {endpoint[delivery[d].endpoint].previous} ELSE {})
      OBVIOUS
    <3>2. keys \in SUBSET (0..MaxSecret)
      <4>1. PICK row \in EndpointRows : row = endpoint[delivery[d].endpoint]
        BY <1>0, <1>3, <2>4
      <4>2. row.secret \in 0..MaxSecret /\ row.previous \in 0..MaxSecret
        BY DEF EndpointRows
      <4>3. keys = {row.secret} \cup (IF row.promised # 0 THEN {row.previous} ELSE {})
        BY <3>1, <4>1
      <4> QED
        BY <4>2, <4>3
    <3>3. PICK row : row = [old EXCEPT !.at = "send", !.keys = keys]
      OBVIOUS
    <3>4. /\ row \in JobRows /\ row.of = old.of /\ row.state = "running" /\ row.at = "send"
      BY <1>2, <2>1, <3>2, <3>3, ZenonT(30) DEF JobRows
    <3>5. job' = [job EXCEPT ![j] = row]
      BY <1>0, <1>2, <2>4, <3>1, <3>3, Zenon
    <3>6. JobWritten(j, row)
      BY <1>0, <1>2, <2>1, <2>4, <3>4, <3>5 DEF JobWritten
    <3> QED
      BY <1>1, <3>4, <3>6, JobStep
  <2> QED
    BY <1>7, <2>2, <2>3, <2>4, ZenonT(30) DEF Load
<1>8. CASE \E accepts, arrives \in BOOLEAN : Send(j, accepts, arrives)
  <2>1. PICK accepts \in BOOLEAN, arrives \in BOOLEAN : Send(j, accepts, arrives)
    BY <1>8
  <2>2. PICK ok \in BOOLEAN : ok = Answered(accepts, arrives)
    BY DEF Answered
  <2>3. PICK row : row = [old EXCEPT !.at = "record", !.ok = ok]
    OBVIOUS
  <2>4. /\ job[j].state = "running" /\ job' = [job EXCEPT ![j] = row]
        /\ UNCHANGED <<endpoint, delivery, unrecorded, crashes>>
    BY <1>0, <1>2, <2>1, <2>2, <2>3 DEF Send
  <2>5. /\ row \in JobRows /\ row.of = old.of /\ row.state = "running" /\ row.ok = ok
    BY <1>2, <2>3, <2>4 DEF JobRows
  <2>6. /\ accepted \subseteq accepted' /\ accepted' \subseteq Deliveries
        /\ ok => d \in accepted'
    BY <1>0, <1>1, <2>1, <2>2 DEF Send, Answered
  <2>7. JobWritten(j, row)
    BY <1>0, <1>2, <1>4, <2>4, <2>5, <2>6 DEF JobWritten
  <2> QED
    BY <1>1, <2>5, <2>7, JobStep
<1>9. CASE Record(j)
  <2>1. /\ job[j].state = "running" /\ old.at = "record"
        /\ UNCHANGED <<endpoint, accepted, unrecorded, crashes>>
        /\ old.ok => d \in accepted
    BY <1>2, <1>9 DEF Record, IInv, JobsInOrder
  <2>2. CASE delivery[d].state = "none"
    <3>1. PICK row : row = Errored(j)
      OBVIOUS
    <3>2. /\ row \in JobRows /\ row.of = old.of /\ row.attempt = old.attempt /\ row.at = "start"
          /\ row.state = "waiting" => row.attempt < MaxAttempts
      BY <1>0, <1>2, <2>1, <3>1, ErroredJob
    <3>3. JobWritten(j, row)
      BY <1>0, <1>2, <1>9, <2>1, <2>2, <3>1, <3>2 DEF JobWritten, Record
    <3> QED
      BY <1>1, <3>2, <3>3, JobStep
  <2>3. CASE delivery[d].state # "none"
    <3>1. PICK row : row = IF old.ok THEN Ended(j) ELSE Errored(j)
      OBVIOUS
    <3>2. /\ row \in JobRows /\ row.of = old.of
          /\ old.ok => row.state = "done"
          /\ ~old.ok => /\ row.at = "start" /\ row.attempt = old.attempt
                        /\ row.state = IF old.attempt < MaxAttempts THEN "waiting" ELSE "discarded"
      BY <1>0, <1>2, <1>6, <2>1, <3>1, ErroredJob
    <3>3. PICK state : state = StateAfter(j, job[j].ok)
      OBVIOUS
    <3>4. /\ state = "delivered" => old.ok
          /\ state = "pending" => ~old.ok /\ old.attempt < MaxAttempts
          /\ state \in {"pending", "delivered", "failed"}
      BY <1>2, <3>3, BoundsAssumption DEF StateAfter, JobRows
    <3>5. /\ delivery' \in [Deliveries -> DeliveryRows] /\ delivery'[d].state = state
          /\ delivery'[d].endpoint = delivery[d].endpoint
          /\ \A c \in Deliveries : c # d => delivery'[c] = delivery[c]
      BY <1>0, <1>1, <1>9, <2>3, <3>3, <3>4 DEF Record, DeliveryRows
    <3>6. job' = [job EXCEPT ![j] = row]
      BY <1>2, <1>9, <2>3, <3>1 DEF Record
    <3>7. JobWritten(j, row)
      BY <1>0, <1>2, <2>1, <2>3, <3>2, <3>4, <3>5, <3>6 DEF JobWritten
    <3> QED
      BY <1>1, <3>2, <3>7, JobStep
  <2> QED
    BY <2>2, <2>3
<1>10. CASE Crash(j)
  <2>1. PICK row : row = Errored(j)
    OBVIOUS
  <2>2. /\ job[j].state = "running" /\ job' = [job EXCEPT ![j] = row]
        /\ UNCHANGED <<endpoint, delivery, accepted>>
    BY <1>10, <2>1 DEF Crash
  <2>3. /\ row \in JobRows /\ row.of = old.of /\ row.attempt = old.attempt /\ row.at = "start"
        /\ row.state = IF old.attempt < MaxAttempts THEN "waiting" ELSE "discarded"
    BY <1>0, <1>2, <2>1, <2>2, ErroredJob
  <2>4. /\ unrecorded \subseteq unrecorded' /\ unrecorded' \subseteq Deliveries
        /\ row.state = "discarded" => d \in unrecorded'
        /\ crashes' \in 0..MaxCrash
    <3>1. old.attempt \in Nat /\ MaxAttempts \in Nat /\ MaxCrash \in Nat
      BY BoundsAssumption DEF JobRows
    <3> QED
      BY <1>0, <1>1, <1>2, <1>10, <2>3, <3>1 DEF Crash
  <2>5. JobWritten(j, row)
    BY <1>0, <1>2, <1>4, <2>2, <2>3, <2>4 DEF JobWritten
  <2> QED
    BY <1>1, <2>3, <2>5, JobStep
<1> QED
  BY <1>5, <1>7, <1>8, <1>9, <1>10 DEF Work

-----------------------------------------------------------------------------
(* The theorems.                                                             *)

LEMMA InitKeeps == Init => IInv
<1> SUFFICES ASSUME Init PROVE IInv
  OBVIOUS
<1>1. NoEndpoint \in EndpointRows /\ NoDelivery \in DeliveryRows /\ NoJob \in JobRows
  BY BoundsAssumption DEF NoEndpoint, NoDelivery, NoJob, EndpointRows, DeliveryRows, JobRows
<1>2. TypeOK
  BY <1>1, RowTypes, BoundsAssumption DEF Init
<1>3. JobsInOrder
  BY DEF Init, JobsInOrder, NoJob
<1>4. DeliveriesHaveEndpoints /\ PendingHasAJob /\ DeliveredWasAccepted
  BY DEF Init, DeliveriesHaveEndpoints, PendingHasAJob, DeliveredWasAccepted, NoDelivery
<1>5. PromisedIsPrevious
  BY DEF Init, PromisedIsPrevious, NoEndpoint
<1> QED
  BY <1>2, <1>3, <1>4, <1>5 DEF IInv

LEMMA NextKeeps == IInv /\ [Next]_vars => IInv'
<1>1. ASSUME IInv, UNCHANGED vars PROVE IInv'
  BY <1>1 DEF vars, IInv, TypeOK, JobsInOrder, DeliveriesHaveEndpoints, PromisedIsPrevious,
              PendingHasAJob, Unfinished, DeliveredWasAccepted
<1> QED
  BY <1>1, EndpointStep, EmitStep, RedeliverStep, WorkStep DEF Next

(* The invariant holds of every behaviour.                                   *)
THEOREM WebhooksInvariant == Spec => []IInv
BY InitKeeps, NextKeeps, PTL DEF Spec

(* A pending delivery has a job that will still run, and one that is called  *)
(* delivered was accepted, whatever is redelivered, switched off, deleted or *)
(* dies meanwhile (worker.go, store.go:185).                                 *)
THEOREM DeliveriesStayTrue == Spec => []DeliveriesAreTrue
<1>1. IInv => DeliveriesAreTrue
  BY DEF IInv, DeliveriesAreTrue
<1> QED
  BY WebhooksInvariant, <1>1, PTL

(* A job moves from its start to sending only by loading its delivery.       *)
LEMMA LoadsBeforeSending ==
  ASSUME IInv, Next, NEW j \in Jobs, job[j].at = "start", job'[j].at = "send"
  PROVE  Load(j)
<1>0. job \in [Jobs -> JobRows]
  BY RowTypes DEF IInv
<1>1. UNCHANGED job => FALSE
  OBVIOUS
<1>2. ASSUME NEW ds \in SUBSET Deliveries, NEW js \in SUBSET Jobs, Emit(ds, js) PROVE FALSE
  <2>1. PICK of \in [js -> ds] :
          job' = [i \in Jobs |-> IF i \in js THEN Insert(i, of[i]) ELSE job[i]]
    BY <1>2 DEF Emit
  <2>2. j \in js => job'[j].at = "start"
    BY <2>1, InsertedJob
  <2> QED
    BY <2>1, <2>2
<1>3. ASSUME NEW d \in Deliveries, NEW i \in Jobs, Redeliver(d, i) PROVE FALSE
  <2>1. Insert(i, d).at = "start"
    BY InsertedJob
  <2> QED
    BY <1>0, <1>3, <2>1 DEF Redeliver
<1>4. ASSUME NEW i \in Jobs, Start(i) \/ Record(i) \/ Crash(i)
             \/ \E accepts, arrives \in BOOLEAN : Send(i, accepts, arrives)
      PROVE  FALSE
  <2>1. job[i].state = "running" => Errored(i).at = "start"
    BY <1>0, ErroredJob
  <2>2. Ended(i).at = job[i].at
    BY <1>0, SMTT(30) DEF Ended, JobRows
  <2> QED
    BY <1>0, <1>4, <2>1, <2>2 DEF Start, Record, Crash, Send, JobRows
<1>5. ASSUME NEW i \in Jobs, Load(i) PROVE i = j
  BY <1>0, <1>5 DEF Load
<1> QED
  BY <1>1, <1>2, <1>3, <1>4, <1>5
     DEF Next, Work, CreateEndpoint, Rotate, WindowEnds, DeleteEndpoint, UpdateEndpoint

(* A pending delivery becomes failed only by a job of it: as it loads the    *)
(* delivery, or as it records its last attempt.                              *)
LEMMA FailsBy ==
  ASSUME IInv, Next, NEW d \in Deliveries,
         delivery[d].state = "pending", delivery'[d].state = "failed"
  PROVE  \E j \in Jobs : job[j].of = d /\ (Load(j) \/ Record(j))
<1>0. delivery \in [Deliveries -> DeliveryRows]
  BY RowTypes DEF IInv
<1>1. UNCHANGED delivery => FALSE
  OBVIOUS
<1>2. ASSUME NEW ds \in SUBSET Deliveries, NEW js \in SUBSET Jobs, Emit(ds, js) PROVE FALSE
  <2>1. PICK to \in [ds -> {e \in Endpoints : endpoint[e].state = "on"}] :
          delivery' = [c \in Deliveries |->
            IF c \in ds THEN [endpoint |-> to[c], state |-> "pending"] ELSE delivery[c]]
    BY <1>2 DEF Emit
  <2> QED
    BY <2>1
<1>3. ASSUME NEW c \in Deliveries, NEW i \in Jobs, Redeliver(c, i) PROVE FALSE
  BY <1>0, <1>3 DEF Redeliver, DeliveryRows
<1>4. ASSUME NEW e \in Endpoints, DeleteEndpoint(e) PROVE FALSE
  BY <1>0, <1>4 DEF DeleteEndpoint, DeliveryRows
<1>5. ASSUME NEW j \in Jobs, Load(j) \/ Record(j) PROVE job[j].of = d
  BY <1>0, <1>5, Zenon DEF Load, Record
<1> QED
  BY <1>1, <1>2, <1>3, <1>4, <1>5, Zenon
     DEF Next, Work, CreateEndpoint, Rotate, WindowEnds, UpdateEndpoint, Start, Crash, Send

(* A delivery fails only once a job has spent its attempts or its endpoint   *)
(* is off, and an attempt signs with the secret of a rotation's window too,  *)
(* however rotations and jobs interleave (worker.go, store.go).              *)
THEOREM AttemptsStayFair == Spec => AttemptsAreFair
<1>1. ASSUME IInv, Next PROVE FailsExhaustedStep
  <2>1. SUFFICES ASSUME NEW d \in Deliveries,
                        delivery[d].state = "pending", delivery'[d].state = "failed"
                 PROVE  \/ endpoint[delivery[d].endpoint].state = "off"
                        \/ \E j \in Jobs : job[j].of = d /\ job[j].attempt = MaxAttempts
    BY DEF FailsExhaustedStep
  <2>2. PICK j \in Jobs : job[j].of = d /\ (Load(j) \/ Record(j))
    BY <1>1, <2>1, FailsBy
  <2>3. CASE Load(j)
    BY <2>1, <2>2, <2>3 DEF Load
  <2>4. CASE Record(j)
    <3>1. job[j].attempt \in 0..MaxAttempts /\ delivery \in [Deliveries -> DeliveryRows]
      BY <1>1, RowTypes DEF IInv, JobRows
    <3>2. StateAfter(j, job[j].ok) = "failed"
      BY <2>1, <2>2, <2>4, <3>1 DEF Record, DeliveryRows
    <3>3. job[j].attempt >= MaxAttempts
      BY <3>2, SMTT(30) DEF StateAfter
    <3> QED
      BY <2>2, <3>1, <3>3, BoundsAssumption
  <2> QED
    BY <2>2, <2>3, <2>4
<1>2. ASSUME IInv, Next PROVE PromisedSecretSignsStep
  <2>1. SUFFICES ASSUME NEW j \in Jobs, job[j].at = "start", job'[j].at = "send"
                 PROVE  LET e == endpoint[delivery[job[j].of].endpoint] IN
                          /\ e.secret \in job'[j].keys
                          /\ e.promised # 0 => e.promised \in job'[j].keys
    BY DEF PromisedSecretSignsStep
  <2>2. Load(j) /\ job \in [Jobs -> JobRows]
    BY <1>2, <2>1, LoadsBeforeSending, RowTypes DEF IInv
  <2> DEFINE at == delivery[job[j].of].endpoint
  <2>3. Ended(j).at = "start"
    BY <2>1, <2>2 DEF Ended, JobRows
  <2>4. /\ delivery[job[j].of].state # "none"
        /\ job'[j].keys = {endpoint[at].secret} \cup
                          (IF endpoint[at].promised # 0 THEN {endpoint[at].previous} ELSE {})
    <3>1. job' # [job EXCEPT ![j] = Ended(j)]
      BY <2>1, <2>2, <2>3
    <3>2. /\ delivery[job[j].of].state # "none"
          /\ job' = [job EXCEPT ![j].at = "send", ![j].keys =
               {endpoint[at].secret} \cup
               (IF endpoint[at].promised # 0 THEN {endpoint[at].previous} ELSE {})]
      BY <2>2, <3>1, ZenonT(30) DEF Load
    <3> QED
      BY <2>2, <3>2 DEF JobRows
  <2>5. at \in Endpoints
    BY <1>2, <2>2, <2>4, Zenon DEF Load, IInv, JobsInOrder, DeliveriesHaveEndpoints
  <2>6. endpoint[at].promised # 0 => endpoint[at].promised = endpoint[at].previous
    BY <1>2, <2>5 DEF IInv, PromisedIsPrevious
  <2> QED
    BY <2>4, <2>6
<1>3. IInv /\ [Next]_vars => [FailsExhaustedStep /\ PromisedSecretSignsStep]_vars
  BY <1>1, <1>2
<1> QED
  BY WebhooksInvariant, <1>3, PTL DEF Spec, AttemptsAreFair

-----------------------------------------------------------------------------
(* The GitHub App.  An App whose code came back has a state that is used up; *)
(* the trail is one of creations and deletions of Apps.                      *)
ConnRows == [at : {"none", "gone", "pending", "ok", "error"}, inst : Apps \cup {"none"},
             synced : 0..MaxPush, hooked : BOOLEAN]
Seen     == [at : {"none", "gone", "pending", "ok", "error"}, synced : 0..MaxPush]
SyncJobs == [at : {"none", "available", "running", "read"}, tries : Nat,
             app : Apps \cup {"none"}, head : 0..MaxPush, seen : Seen]
Records  == [what : {"create", "delete"}, app : Apps]

AskedIsSpent ==
  \A a \in Apps : asked[a] # "none" => made[a] # "none" /\ flow[made[a]] = "spent"

AppInv ==
  /\ H!TypeOK
  /\ head \in 1..MaxPush /\ conn \in ConnRows /\ syncJob \in [BOOLEAN -> SyncJobs]
  /\ audit \in Seq(Records)
  /\ AskedIsSpent
  /\ H!StatesServeOnce /\ H!TrailTellsTheApp

LEMMA AppInit == GitInit => AppInv
<1> SUFFICES ASSUME H!Init PROVE AppInv
  BY DEF GitInit
<1>1. H!NoConn \in ConnRows /\ H!NoJob \in SyncJobs
  BY AppAssumption DEF H!NoConn, H!NoJob, H!None, ConnRows, SyncJobs, Seen
<1> QED
  BY <1>1, AppAssumption DEF H!Init, AppInv, H!TypeOK, H!None, AskedIsSpent, H!StatesServeOnce,
     H!TrailTellsTheApp, ConnRows, SyncJobs, H!NoConn, H!NoJob

LEMMA NewIsUnused ==
  ASSUME NEW set, NEW used \in SUBSET set, "none" \notin set,
         NEW one \in set, one = H!NewIn(set, used)
  PROVE  one \notin used
BY DEF H!NewIn, H!None

(* What the trail's properties read of the audit records.                    *)
LEMMA TrailGrows ==
  ASSUME audit \in Seq(Records), H!TrailTellsTheApp, app \in Apps \cup {"none"},
         NEW rec \in Records, audit' = Append(audit, rec),
         \/ rec.what = "create" /\ app = "none" /\ app' = rec.app
         \/ rec.what = "delete" /\ app = rec.app /\ app' = "none"
  PROVE  audit' \in Seq(Records) /\ H!TrailTellsTheApp'
<1>1. /\ audit' \in Seq(Records) /\ Len(audit') = Len(audit) + 1 /\ audit'[Len(audit')] = rec
      /\ \A i \in 1..Len(audit) : audit'[i] = audit[i]
      /\ Len(audit) \in Nat /\ audit' # << >>
      /\ audit # << >> => Len(audit) > 0 /\ audit[Len(audit)] \in Records
      /\ audit = << >> => Len(audit) = 0
  OBVIOUS
<1>2. app' = (IF audit' = << >> \/ H!Last(audit').what = "delete" THEN "none"
              ELSE H!Last(audit').app)
  BY <1>1 DEF H!Last, Records
<1>3. ASSUME NEW i \in 2..Len(audit')
      PROVE  IF audit'[i].what = "delete"
             THEN audit'[i - 1] = [what |-> "create", app |-> audit'[i].app]
             ELSE audit'[i - 1].what = "delete"
  <2>1. CASE i <= Len(audit)
    <3>1. i \in 2..Len(audit) /\ i - 1 \in 1..Len(audit)
      BY <1>1, <2>1
    <3> QED
      BY <1>1, <3>1 DEF H!TrailTellsTheApp
  <2>2. CASE i = Len(audit) + 1
    <3>1. audit'[i] = rec /\ audit'[i - 1] = audit[Len(audit)] /\ audit # << >>
      BY <1>1, <2>2
    <3>2. app = IF audit[Len(audit)].what = "delete" THEN "none" ELSE audit[Len(audit)].app
      BY <3>1 DEF H!TrailTellsTheApp, H!Last, H!None
    <3>3. audit[Len(audit)] \in Records
      BY <1>1, <3>1
    <3> QED
      BY <3>1, <3>2, <3>3, AppAssumption DEF Records
  <2> QED
    BY <1>1, <2>1, <2>2
<1> QED
  BY <1>1, <1>2, <1>3 DEF H!TrailTellsTheApp, H!None

(* Rows of jobs as the steps change them.                                    *)
LEMMA JobsMove ==
  /\ H!NoJob \in SyncJobs
  /\ \A row \in SyncJobs, times \in Nat :
       [row EXCEPT !.at = "available", !.tries = times] \in SyncJobs
  /\ \A row \in SyncJobs : [row EXCEPT !.at = "available"] \in SyncJobs
  /\ \A row \in SyncJobs, h \in 0..MaxPush : [row EXCEPT !.at = "read", !.head = h] \in SyncJobs
<1>1. H!NoJob \in SyncJobs
  BY AppAssumption DEF H!NoJob, H!None, SyncJobs, Seen
<1> QED
  BY <1>1 DEF SyncJobs

LEMMA InsertedJobs ==
  ASSUME syncJob \in [BOOLEAN -> SyncJobs], NEW force \in BOOLEAN
  PROVE  H!Inserted(force) \in [BOOLEAN -> SyncJobs]
<1>1. [H!NoJob EXCEPT !.at = "available"] \in SyncJobs
  BY JobsMove
<1> QED
  BY <1>1 DEF H!Inserted

(* Jobs and events touch the connection, its jobs and GitHub's branch.       *)
Outer == <<flow, made, installed, app, audit>>

LEMMA RowsKeep ==
  ASSUME AppInv, UNCHANGED Outer, head' \in 1..MaxPush, conn' \in ConnRows,
         syncJob' \in [BOOLEAN -> SyncJobs], asked' = asked
  PROVE  AppInv'
<1>1. UNCHANGED <<flow, made, installed, app, audit, asked>>
  BY DEF Outer
<1>2. conn'.at \in {"none", "gone", "pending", "ok", "error"} /\ conn'.synced \in 0..MaxPush
  BY DEF ConnRows
<1>3. \A f \in BOOLEAN : /\ syncJob'[f].at \in {"none", "available", "running", "read"}
                         /\ syncJob'[f].tries \in Nat
  BY DEF SyncJobs
<1>4. H!TypeOK'
  BY <1>1, <1>2, <1>3 DEF AppInv, H!TypeOK, H!None
<1>5. AskedIsSpent' /\ H!StatesServeOnce'
  BY <1>1 DEF AppInv, AskedIsSpent, H!StatesServeOnce, H!None
<1>6. audit' \in Seq(Records) /\ H!TrailTellsTheApp'
  BY <1>1 DEF AppInv, H!TrailTellsTheApp, H!None
<1> QED
  BY <1>4, <1>5, <1>6 DEF AppInv

(* The steps by what they leave alone.                                       *)
LEMMA SetUpKeeps == AppInv /\ H!SetUp => AppInv'
<1> SUFFICES ASSUME AppInv, H!SetUp PROVE AppInv'
  OBVIOUS
<1>1. ASSUME NEW f \in Flows, H!StartManifest(f) PROVE AppInv'
  <2>1. flow[f] = "unused"
    BY <1>1, NewIsUnused, AppAssumption DEF H!StartManifest
  <2> QED
    BY <1>1, <2>1, AppAssumption DEF AppInv, H!StartManifest, H!OnGitHub, H!TypeOK, AskedIsSpent,
       H!StatesServeOnce, H!TrailTellsTheApp, H!None
<1>2. ASSUME NEW f \in Flows, H!Expire(f) PROVE AppInv'
  BY <1>2, AppAssumption DEF AppInv, H!Expire, H!OnGitHub, H!TypeOK, AskedIsSpent,
     H!StatesServeOnce, H!TrailTellsTheApp, H!None
<1>3. ASSUME NEW a \in Apps, NEW f \in Flows, H!Confirm(a, f) PROVE AppInv'
  <2>1. made[a] = "none"
    BY <1>3, NewIsUnused, AppAssumption DEF H!Confirm, H!None
  <2>2. asked[a] = "none"
    BY <2>1 DEF AppInv, AskedIsSpent
  <2> QED
    BY <1>3, <2>1, <2>2, AppAssumption DEF AppInv, H!Confirm, H!OnGitHub, H!TypeOK, AskedIsSpent,
       H!StatesServeOnce, H!TrailTellsTheApp, H!None
<1>4. ASSUME NEW a \in Apps, H!Install(a) PROVE AppInv'
  BY <1>4 DEF AppInv, H!Install, H!TypeOK, AskedIsSpent, H!StatesServeOnce, H!TrailTellsTheApp
<1>5. ASSUME NEW a \in Apps, H!Callback(a) PROVE AppInv'
  <2>1. made[a] \in Flows /\ flow[made[a]] = "fresh" /\ asked[a] = "none"
    BY <1>5 DEF AppInv, H!Callback, H!TypeOK, H!None
  <2>2. \A b \in Apps : made[b] = made[a] => asked[b] = "none"
    BY <2>1 DEF AppInv, AskedIsSpent
  <2> QED
    BY <1>5, <2>1, <2>2, AppAssumption DEF AppInv, H!Callback, H!Spent, H!OnGitHub, H!TypeOK,
       AskedIsSpent, H!StatesServeOnce, H!TrailTellsTheApp, H!None
<1>6. ASSUME NEW a \in Apps, H!Convert(a) PROVE AppInv'
  BY <1>6 DEF AppInv, H!Convert, H!OnGitHub, H!TypeOK, AskedIsSpent, H!StatesServeOnce,
     H!TrailTellsTheApp, H!None
<1>7. ASSUME NEW a \in Apps, H!Save(a) PROVE AppInv'
  <2>1. app' \in Apps /\ (app # "none" => app' = app) /\ (app = "none" => app' = a)
    BY <1>7 DEF AppInv, H!Save, H!Stored, H!TypeOK, H!None
  <2>2. audit' \in Seq(Records) /\ H!TrailTellsTheApp'
    <3>1. CASE app' = app
      BY <1>7, <3>1 DEF AppInv, H!Save, H!TrailTellsTheApp
    <3>2. CASE app' # app
      <4> DEFINE rec == [what |-> "create", app |-> a]
      <4>1. rec \in Records /\ audit' = Append(audit, rec) /\ app = "none" /\ app' = rec.app
        BY <1>7, <2>1, <3>2 DEF H!Save, Records
      <4>2. app \in Apps \cup {"none"}
        BY DEF AppInv, H!TypeOK, H!None
      <4> HIDE DEF rec
      <4>3. rec.what = "create"
        BY DEF rec
      <4> QED
        BY <4>1, <4>2, <4>3, TrailGrows DEF AppInv
    <3> QED
      BY <3>1, <3>2
  <2> QED
    BY <1>7, <2>1, <2>2 DEF AppInv, H!Save, H!OnGitHub, H!TypeOK, AskedIsSpent,
       H!StatesServeOnce, H!None
<1>8. CASE H!Disconnect
  <2> DEFINE rec == [what |-> "delete", app |-> app]
  <2>1. app \in Apps /\ rec \in Records /\ audit' = Append(audit, rec) /\ app' = "none"
    BY <1>8 DEF AppInv, H!Disconnect, H!Forgotten, H!TypeOK, H!None, Records
  <2>2. rec.what = "delete" /\ rec.app = app
    OBVIOUS
  <2> HIDE DEF rec
  <2>3. audit' \in Seq(Records) /\ H!TrailTellsTheApp'
    BY <2>1, <2>2, TrailGrows DEF AppInv
  <2> QED
    BY <1>8, <2>1, <2>3 DEF AppInv, H!Disconnect, H!OnGitHub, H!TypeOK, AskedIsSpent,
       H!StatesServeOnce, H!None
<1>9. CASE H!Connect
  <2>1. syncJob' \in [BOOLEAN -> SyncJobs]
    BY <1>9, InsertedJobs DEF AppInv, H!Connect
  <2>2. H!NoConn \in ConnRows /\ app \in Apps
    BY <1>9, AppAssumption DEF AppInv, H!Connect, H!NoConn, H!None, ConnRows, H!TypeOK
  <2>3. conn' \in ConnRows
    BY <1>9, <2>2 DEF H!Connect, ConnRows
  <2> QED
    <3>1. UNCHANGED Outer /\ head' \in 1..MaxPush /\ asked' = asked
      BY <1>9 DEF AppInv, H!Connect, H!OnGitHub, Outer
    <3> QED
      BY <2>1, <2>3, <3>1, RowsKeep
<1>10. CASE H!RemoveConnection
  <2>1. conn' \in ConnRows
    BY <1>10 DEF AppInv, H!RemoveConnection, ConnRows
  <2>2. UNCHANGED Outer /\ head' \in 1..MaxPush /\ asked' = asked
        /\ syncJob' \in [BOOLEAN -> SyncJobs]
    BY <1>10 DEF AppInv, H!RemoveConnection, H!OnGitHub, Outer
  <2> QED
    BY <2>1, <2>2, RowsKeep
<1> QED
  BY <1>1, <1>2, <1>3, <1>4, <1>5, <1>6, <1>7, <1>8, <1>9, <1>10 DEF H!SetUp

LEMMA ArriveKeeps == AppInv /\ (H!Arrive \/ H!Tick \/ H!AskSync \/ H!AskContest) => AppInv'
<1> SUFFICES ASSUME AppInv, H!Arrive \/ H!Tick \/ H!AskSync \/ H!AskContest PROVE AppInv'
  OBVIOUS
<1> USE DEF H!OnGitHub
<1>1. CASE H!Tick \/ H!AskSync \/ H!AskContest
  BY <1>1, InsertedJobs, RowsKeep DEF AppInv, H!Tick, H!AskSync, H!AskContest, Outer
<1>2. ASSUME NEW e \in Events, H!Happen(e) PROVE AppInv'
  <2>1. head' \in 1..MaxPush
    BY <1>2, AppAssumption DEF AppInv, H!Happen
  <2> QED
    BY <1>2, <2>1, RowsKeep DEF AppInv, H!Happen, Outer
<1>3. ASSUME NEW d \in events, H!Deliver(d) PROVE AppInv'
  <2>1. conn' \in ConnRows
    BY <1>3 DEF AppInv, H!Deliver, ConnRows
  <2>2. syncJob' \in [BOOLEAN -> SyncJobs]
    BY <1>3, InsertedJobs DEF AppInv, H!Deliver
  <2> QED
    BY <1>3, <2>1, <2>2, RowsKeep DEF AppInv, H!Deliver, Outer
<1>4. ASSUME NEW d \in events, H!Lose(d) PROVE AppInv'
  BY <1>4, RowsKeep DEF AppInv, H!Lose, Outer
<1> QED
  BY <1>1, <1>2, <1>3, <1>4 DEF H!Arrive

LEMMA SyncKeeps ==
  ASSUME AppInv, NEW force \in BOOLEAN, H!Sync(force)
  PROVE  AppInv'
<1> USE DEF H!OnGitHub
<1>0. /\ H!NoJob \in SyncJobs /\ syncJob \in [BOOLEAN -> SyncJobs] /\ syncJob[force] \in SyncJobs
      /\ conn \in ConnRows /\ head \in 1..MaxPush /\ MaxPush \in Nat
      /\ app \in Apps \cup {"none"}
  BY AppAssumption DEF AppInv, H!TypeOK, H!NoJob, H!None, SyncJobs, Seen
<1>1. H!Finish(force) => syncJob' \in [BOOLEAN -> SyncJobs]
  BY <1>0 DEF H!Finish
<1>2. H!Errored => conn' \in ConnRows
  BY <1>0 DEF H!Errored, ConnRows
<1>3. H!Retry(force) => syncJob' \in [BOOLEAN -> SyncJobs]
  <2>1. [H!NoJob EXCEPT !.at = "available", !.tries = syncJob[force].tries + 1] \in SyncJobs
    <3>1. syncJob[force].tries + 1 \in Nat
      BY <1>0 DEF SyncJobs
    <3> QED
      BY <3>1, JobsMove
  <2> QED
    BY <1>0, <2>1 DEF H!Retry
<1>4. CASE H!Begin(force)
  <2>1. [syncJob[force] EXCEPT !.at = "running", !.app = app,
                               !.seen = [at |-> conn.at, synced |-> conn.synced]] \in SyncJobs
    BY <1>0 DEF SyncJobs, Seen, ConnRows
  <2>2. syncJob' \in [BOOLEAN -> SyncJobs] /\ conn' \in ConnRows
    BY <1>0, <1>1, <1>2, <1>4, <2>1 DEF H!Begin
  <2> QED
    BY <1>0, <1>4, <2>2, RowsKeep DEF H!Begin, Outer
<1>5. CASE H!ReadHead(force)
  <2>1. [syncJob[force] EXCEPT !.at = "read", !.head = head] \in SyncJobs
    <3>1. head \in 0..MaxPush
      BY <1>0
    <3> QED
      BY <1>0, <3>1, JobsMove
  <2>2. syncJob' \in [BOOLEAN -> SyncJobs] /\ conn' \in ConnRows
    <3>1. CASE H!Errored /\ H!Finish(force)
      BY <1>1, <1>2, <3>1
    <3>2. CASE /\ syncJob' = [syncJob EXCEPT ![force].at = "read", ![force].head = head]
               /\ UNCHANGED conn
      BY <1>0, <2>1, <3>2
    <3>3. CASE H!Retry(force) /\ UNCHANGED conn
      BY <1>0, <1>3, <3>3
    <3> QED
      BY <1>5, <3>1, <3>2, <3>3 DEF H!ReadHead
  <2> QED
    BY <1>0, <1>5, <2>2, RowsKeep DEF H!ReadHead, Outer
<1>6. CASE H!Record(force)
  <2>1. [conn EXCEPT !.at = "ok", !.synced = syncJob[force].head] \in ConnRows
    BY <1>0 DEF SyncJobs, ConnRows
  <2>2. syncJob' \in [BOOLEAN -> SyncJobs] /\ conn' \in ConnRows
    BY <1>0, <1>1, <1>2, <1>3, <1>6, <2>1 DEF H!Record
  <2> QED
    BY <1>0, <1>6, <2>2, RowsKeep DEF H!Record, Outer
<1> QED
  BY <1>4, <1>5, <1>6 DEF H!Sync

LEMMA CrashKeeps == AppInv /\ H!Crash => AppInv'
<1> SUFFICES ASSUME AppInv, H!Crash PROVE AppInv'
  OBVIOUS
<1>1. \A f \in BOOLEAN : syncJob[f] \in SyncJobs
  BY DEF AppInv
<1>2. \A f \in BOOLEAN : [H!NoJob EXCEPT !.at = "available", !.tries = syncJob[f].tries] \in SyncJobs
  <2>2. \A f \in BOOLEAN : syncJob[f].tries \in Nat
    BY <1>1 DEF SyncJobs
  <2> QED
    BY <2>2, JobsMove
<1>3. syncJob' \in [BOOLEAN -> SyncJobs]
  BY <1>1, <1>2 DEF H!Crash
<1>4. asked' \in [Apps -> {"none", "consumed", "converted", "answered"}]
      /\ \A a \in Apps : asked'[a] # "none" <=> asked[a] # "none"
  BY DEF H!Crash, H!None
<1>5. UNCHANGED <<flow, made, installed, head, app, audit, conn>>
  BY DEF H!Crash, H!OnGitHub
<1>6. H!TypeOK'
  BY <1>1, <1>3, <1>4, <1>5 DEF AppInv, H!TypeOK, H!None, SyncJobs
<1>7. AskedIsSpent' /\ H!StatesServeOnce' /\ H!TrailTellsTheApp'
  BY <1>4, <1>5 DEF AppInv, H!TypeOK, AskedIsSpent, H!StatesServeOnce, H!TrailTellsTheApp, H!None
<1> QED
  BY <1>3, <1>5, <1>6, <1>7 DEF AppInv

LEMMA AppPreserved == AppInv /\ [GitNext]_every => AppInv'
<1> SUFFICES ASSUME AppInv, [GitNext]_every PROVE AppInv'
  OBVIOUS
<1>1. CASE H!Next
  BY <1>1, SetUpKeeps, ArriveKeeps, SyncKeeps, CrashKeeps DEF H!Next
<1>2. CASE UNCHANGED hVars
  BY <1>2 DEF hVars, AppInv, H!TypeOK, AskedIsSpent, H!StatesServeOnce, H!TrailTellsTheApp
<1>3. H!Next \/ UNCHANGED hVars
  BY DEF GitNext, Changes, Checks, App, InApp, Sync, every
<1> QED
  BY <1>1, <1>2, <1>3

(* The App the instance keeps, the states that brought it, its records and   *)
(* the jobs of its connection, whatever fails, restarts or is done twice.    *)
THEOREM AppInvariant == GitSpec => []AppInv
BY AppInit, AppPreserved, PTL DEF GitSpec

(* A manifest state brings one App, and the audit trail names the App that   *)
(* is connected (githubapp/routes.go).                                       *)
THEOREM TrailStaysTrue == GitSpec => []TrailTellsTheApp
<1>1. AppInv => TrailTellsTheApp
  BY DEF AppInv, TrailTellsTheApp
<1> QED
  BY <1>1, AppInvariant, PTL

-----------------------------------------------------------------------------
(* A set of numbers has a least one.                                         *)
Below == {x \in Nat \X Nat : x[1] < x[2]}

LEMMA Least ==
  ASSUME NEW set \in SUBSET Nat, set # {}
  PROVE  \E x \in set : \A v \in set : x <= v
<1>1. IsWellFoundedOn(Below, Nat)
  <2>1. Below = OpToRel(<, Nat)
    BY DEF Below, OpToRel
  <2>. QED BY <2>1, NatLessThanWellFounded, Zenon DEF OpToRel, Below
<1>. QED
  <2>. HIDE DEF Below
  <2>1. PICK x \in set : \A y \in set : ~ (<<y, x>> \in Below)
    BY <1>1, WFMin
  <2>2. \A y \in set : ~ (y < x)
    BY <2>1 DEF Below
  <2>. QED BY <2>2

-----------------------------------------------------------------------------
(* The checks of pull requests.                                              *)
PullRows  == [open : BOOLEAN, at : K!Heads, label : BOOLEAN, fork : BOOLEAN, draft : BOOLEAN]
CheckRows == [there : BOOLEAN, run : BOOLEAN, requested : BOOLEAN]
HeadRows  == [there : BOOLEAN, skill : BOOLEAN, contest : 0..MaxContest, reported : BOOLEAN]
Contested == [state : {"none", "made", "queued", "ended"}, of : {<<>>} \cup (K!PullIds \X K!Heads)]
SyncRows  == [at : {"idle", "check", "post", "record", "contest", "submit", "link", "report",
                    "update", "drop"},
              list : {<<>>} \cup [K!PullIds -> PullRows], todo : SUBSET K!PullIds,
              run : BOOLEAN, contest : 0..MaxContest]

ChecksTyped ==
  /\ listed \in [K!PullIds -> PullRows]
  /\ check \in [K!PullIds -> [K!Heads -> CheckRows]]
  /\ kept \in [K!PullIds -> [K!Heads -> HeadRows]]
  /\ posted \in [K!PullIds -> [K!Heads -> BOOLEAN]]
  /\ contest \in [K!Contests -> Contested] /\ sync \in [Syncs -> SyncRows]
  /\ \A c \in K!Contests : contest[c].state = "none" <=> contest[c].of = <<>>

(* Who asked for a contest is on record, a row's check run was posted, and   *)
(* only a row that is there names a contest.                                 *)
Followed ==
  /\ \A p \in K!PullIds : listed[p].label => p \in wanted
  /\ \A p \in K!PullIds, h \in K!Heads : /\ check[p][h].requested => p \in wanted
                                         /\ check[p][h].run => posted[p][h]
                                         /\ kept[p][h].contest # 0 => kept[p][h].there

(* What a sync under way holds.                                              *)
InFlight(s) == sync[s].at \in {"submit", "link"}
SyncOK(s) ==
  /\ sync[s].at # "idle" =>
       /\ sync[s].list \in [K!PullIds -> PullRows]
       /\ \A p \in K!PullIds : /\ sync[s].list[p].label => p \in wanted
                               /\ sync[s].list[p].fork = listed[p].fork
  /\ sync[s].at \notin {"idle", "drop"} => sync[s].todo # {}
  /\ InFlight(s) => /\ sync[s].contest \in K!Contests
                    /\ contest[sync[s].contest].of = <<K!Pull(s), K!At(s)>>
  /\ sync[s].at = "record" /\ sync[s].run => posted[K!Pull(s)][K!At(s)]

(* Where no sync overlaps or fails, a contest's head names it, or will.      *)
Quiet == happens \cap {"overlap", "fail"} = {}
QuietOK ==
  /\ \A s, t \in Syncs : sync[s].at # "idle" /\ sync[t].at # "idle" => s = t
  /\ \A c \in K!Contests, p \in K!PullIds, h \in K!Heads : contest[c].of = <<p, h>> =>
       \/ kept[p][h].contest = c
       \/ \E s \in Syncs : InFlight(s) /\ sync[s].contest = c
  /\ \A s \in Syncs : InFlight(s) =>
       kept[K!Pull(s)][K!At(s)].there /\ kept[K!Pull(s)][K!At(s)].contest = 0

(* Where also no head comes back, what is checked is no newer than what was  *)
(* listed, and the head people see is kept.                                  *)
CalmOK ==
  /\ \A p \in K!PullIds, h \in K!Heads : check[p][h].there =>
       h <= listed[p].at /\ \A s \in Syncs : sync[s].at # "idle" => h <= sync[s].list[p].at
  /\ \A s \in Syncs, p \in K!PullIds : sync[s].at # "idle" => sync[s].list[p].at <= listed[p].at
  /\ \A p \in K!PullIds : LET h == listed[p].at IN
       check[p][h].there /\ content[p][h] # "none" => kept[p][h].there
  /\ \A s \in Syncs : sync[s].at \in {"post", "record"} /\ content[K!Pull(s)][K!At(s)] # "none" =>
       kept[K!Pull(s)][K!At(s)].there

ChecksInv ==
  /\ K!TypeOK /\ ChecksTyped /\ Followed
  /\ \A s \in Syncs : SyncOK(s)
  /\ K!ContestsAreAllowed
  /\ Quiet => QuietOK
  /\ happens = {} => CalmOK

LEMMA ChecksInit == GitInit => ChecksInv
<1> SUFFICES ASSUME K!Init PROVE ChecksInv
  BY DEF GitInit
<1>1. 1 \in K!Heads /\ 0 \in 0..MaxContest
  BY ChecksAssumption DEF K!Heads
<1>2. PICK u \in Setups : /\ happens = u.happens /\ mode = u.mode
                          /\ listed = [p \in K!PullIds |-> [open |-> TRUE, at |-> 1, label |-> FALSE,
                                                           fork |-> u.fork, draft |-> u.draft]]
  BY DEF K!Init
<1>3. listed \in [K!PullIds -> PullRows] /\ \A p \in K!PullIds : ~listed[p].label
  BY <1>1, <1>2, ChecksAssumption DEF PullRows
<1>4. K!NoCheck \in CheckRows /\ K!NoHead \in HeadRows /\ K!NoContest \in Contested /\ K!IdleSync \in SyncRows
  BY <1>1 DEF K!NoCheck, K!NoHead, K!NoContest, K!IdleSync, CheckRows, HeadRows, Contested, SyncRows
<1>5. /\ \A s \in Syncs : sync[s].at = "idle"
      /\ \A c \in K!Contests : contest[c].state = "none" /\ contest[c].of = <<>>
      /\ \A p \in K!PullIds, h \in K!Heads : /\ ~check[p][h].there /\ ~check[p][h].run
                                             /\ ~check[p][h].requested /\ kept[p][h].contest = 0
                                             /\ shown[p][h] = "none"
  BY DEF K!Init, K!IdleSync, K!NoContest, K!NoCheck, K!NoHead
<1>6. ChecksTyped
  BY <1>3, <1>4, <1>5 DEF K!Init, ChecksTyped
<1>7. K!TypeOK
  <2>1. check \in K!Per(CheckRows) /\ kept \in K!Per(HeadRows)
    BY <1>6 DEF ChecksTyped, K!Per
  <2>2. shown \in K!Per({"none", "running", "ended"})
    BY DEF K!Init, K!Per
  <2>3. happens \subseteq K!Happening /\ mode \in {"off", "request", "ready"}
    BY <1>2, ChecksAssumption
  <2> QED
    BY <1>5, <2>1, <2>2, <2>3 DEF K!TypeOK, CheckRows, HeadRows
<1>8. Followed /\ (\A s \in Syncs : SyncOK(s)) /\ K!ContestsAreAllowed
  BY <1>3, <1>5 DEF Followed, SyncOK, InFlight, K!ContestsAreAllowed
<1>9. QuietOK /\ CalmOK
  <2>1. \A c \in K!Contests, p \in K!PullIds, h \in K!Heads : contest[c].of # <<p, h>>
    BY <1>5, SMTT(30)
  <2>2. \A p \in K!PullIds : listed[p].at \in K!Heads
    <3>1. \A p \in K!PullIds : listed[p] \in PullRows
      BY <1>3
    <3> QED
      BY <3>1 DEF PullRows
  <2>3. QuietOK
    BY <1>5, <2>1 DEF QuietOK, InFlight
  <2>4. CalmOK
    BY <1>5, <2>2 DEF CalmOK
  <2> QED
    BY <2>3, <2>4
<1> QED
  BY <1>6, <1>7, <1>8, <1>9 DEF ChecksInv

(* The types the module states.                                              *)
LEMMA TypeOf ==
  ASSUME ChecksInv, UNCHANGED <<happens, mode>>, ChecksTyped',
         shown' \in K!Per({"none", "running", "ended"}),
         \A p \in K!PullIds, h \in K!Heads :
           /\ kept'[p][h].contest # 0 => contest'[kept'[p][h].contest].of = <<p, h>>
           /\ shown'[p][h] # "none" => posted'[p][h]
  PROVE  K!TypeOK'
<1>1. check' \in K!Per(CheckRows) /\ kept' \in K!Per(HeadRows)
  BY DEF ChecksTyped, K!Per
<1>2. \A c \in K!Contests : contest'[c].state \in {"none", "made", "queued", "ended"}
  BY DEF ChecksTyped, Contested
<1> QED
  BY <1>1, <1>2 DEF ChecksInv, K!TypeOK, CheckRows, HeadRows

(* Which heads and check runs are named.                                     *)
LEMMA Names ==
  ASSUME ChecksInv, NEW p \in K!PullIds, NEW h \in K!Heads
  PROVE  /\ kept[p][h].contest # 0 => kept[p][h].there /\ contest[kept[p][h].contest].of = <<p, h>>
         /\ shown[p][h] # "none" => posted[p][h]
         /\ kept[p][h].contest # 0 => kept[p][h].contest \in K!Contests
<1>1. kept[p][h].contest # 0 => kept[p][h].there
  BY DEF ChecksInv, Followed
<1>2. kept[p][h].contest # 0 => contest[kept[p][h].contest].of = <<p, h>>
  BY DEF ChecksInv, K!TypeOK
<1>3. shown[p][h] # "none" => posted[p][h]
  BY DEF ChecksInv, K!TypeOK
<1>4. kept[p][h].contest \in 0..MaxContest
  <2>1. kept[p][h] \in HeadRows
    BY DEF ChecksInv, ChecksTyped
  <2> QED
    BY <2>1 DEF HeadRows
<1> QED
  BY <1>1, <1>2, <1>3, <1>4, ChecksAssumption DEF K!Contests

LEMMA ListedHeads ==
  ASSUME ChecksInv
  PROVE  \A q \in K!PullIds : listed[q].at \in K!Heads
<1>1. \A q \in K!PullIds : listed[q] \in PullRows
  BY DEF ChecksInv, ChecksTyped
<1> QED
  BY <1>1 DEF PullRows

(* The pull request a sync is at.                                            *)
LEMMA FirstIsThere ==
  ASSUME NEW todo \in SUBSET K!PullIds, todo # {}
  PROVE  PullOrder[CHOOSE k \in DOMAIN PullOrder :
                     PullOrder[k] \in todo /\ \A i \in 1..(k - 1) : PullOrder[i] \notin todo] \in todo
<1> DEFINE At == {k \in 1..Len(PullOrder) : PullOrder[k] \in todo}
<1>1. At \subseteq Nat /\ At # {}
  BY ChecksAssumption DEF K!PullIds, K!ToSet
<1>2. PICK k \in At : \A i \in At : k <= i
  BY <1>1, Least
<1>3. k \in DOMAIN PullOrder /\ PullOrder[k] \in todo
  BY ChecksAssumption
<1>4. \A i \in 1..(k - 1) : PullOrder[i] \notin todo
  BY <1>2, ChecksAssumption
<1> QED
  BY <1>3, <1>4

LEMMA PlaceOf ==
  ASSUME ChecksInv, NEW s \in Syncs, sync[s].at \notin {"idle", "drop"}
  PROVE  /\ K!Pull(s) \in K!PullIds /\ K!Pull(s) \in sync[s].todo /\ K!At(s) \in K!Heads
         /\ sync[s] \in SyncRows /\ sync[s].list \in [K!PullIds -> PullRows]
         /\ K!At(s) = sync[s].list[K!Pull(s)].at
<1>1. sync[s] \in SyncRows /\ sync[s].todo # {} /\ sync[s].list \in [K!PullIds -> PullRows]
  BY DEF ChecksInv, ChecksTyped, SyncOK
<1>2. sync[s].todo \in SUBSET K!PullIds
  BY <1>1 DEF SyncRows
<1>3. K!Pull(s) \in sync[s].todo
  BY <1>1, <1>2, FirstIsThere DEF K!Pull
<1> QED
  BY <1>1, <1>2, <1>3 DEF K!At, PullRows

LEMMA SamePlace ==
  ASSUME NEW s, sync'[s].todo = sync[s].todo, sync'[s].list = sync[s].list
  PROVE  (K!Pull(s))' = K!Pull(s) /\ (K!At(s))' = K!At(s)
BY DEF K!Pull, K!At

-----------------------------------------------------------------------------
(* People and GitHub leave the syncs as they are.                            *)
LEMMA PeopleKeep ==
  ASSUME ChecksInv, UNCHANGED <<happens, mode, content, check, kept, contest, posted, shown, sync>>,
         listed' \in [K!PullIds -> PullRows], wanted \subseteq wanted',
         \A p \in K!PullIds : /\ listed'[p].fork = listed[p].fork
                              /\ listed'[p].label => p \in wanted'
                              /\ happens = {} => listed'[p].at \in {listed[p].at, listed[p].at + 1}
  PROVE  ChecksInv'
<1>1. K!TypeOK' /\ ChecksTyped'
  BY DEF ChecksInv, K!TypeOK, ChecksTyped
<1>2. Followed' /\ \A s \in Syncs : SyncOK(s)'
  <2>1. \A s \in Syncs : (K!Pull(s))' = K!Pull(s) /\ (K!At(s))' = K!At(s)
    BY SamePlace
  <2> QED
    BY <2>1 DEF ChecksInv, Followed, SyncOK, InFlight
<1>3. K!ContestsAreAllowed'
  <2>1. \A c \in K!Contests : contest[c].state # "none" => contest[c].of \in K!PullIds \X K!Heads
    BY DEF ChecksInv, ChecksTyped, Contested
  <2> QED
    BY <2>1 DEF ChecksInv, K!ContestsAreAllowed
<1>4. Quiet' => QuietOK'
  <2>1. \A s \in Syncs : (K!Pull(s))' = K!Pull(s) /\ (K!At(s))' = K!At(s)
    BY SamePlace
  <2> QED
    BY <2>1 DEF ChecksInv, Quiet, QuietOK, InFlight
<1>5. ASSUME happens = {} PROVE CalmOK'
  <2>1. \A s \in Syncs : (K!Pull(s))' = K!Pull(s) /\ (K!At(s))' = K!At(s)
    BY SamePlace
  <2>2. CalmOK
    BY <1>5 DEF ChecksInv
  <2>3. \A p \in K!PullIds : listed[p].at \in Nat /\ listed'[p].at \in Nat /\ listed'[p].at >= listed[p].at
    <3>1. \A p \in K!PullIds : listed[p] \in PullRows /\ listed'[p] \in PullRows
      BY DEF ChecksInv, ChecksTyped
    <3>2. \A p \in K!PullIds : listed[p].at \in Nat /\ listed'[p].at \in Nat
      BY <3>1 DEF PullRows, K!Heads
    <3> QED
      BY <1>5, <3>2
  <2>4. \A s \in Syncs, p \in K!PullIds : sync[s].at # "idle" => sync[s].list[p].at \in Nat
    BY DEF ChecksInv, SyncOK, PullRows, K!Heads
  <2>5. \A p \in K!PullIds, h \in K!Heads : h \in Nat
    BY DEF K!Heads
  <2>6. \A p \in K!PullIds : LET h == listed'[p].at IN
          check[p][h].there /\ content[p][h] # "none" => kept[p][h].there
    <3> SUFFICES ASSUME NEW p \in K!PullIds, check[p][listed'[p].at].there, content[p][listed'[p].at] # "none"
                 PROVE  kept[p][listed'[p].at].there
      OBVIOUS
    <3>1. listed'[p].at \in K!Heads
      BY DEF PullRows
    <3>2. listed'[p].at <= listed[p].at
      BY <2>2, <3>1 DEF CalmOK
    <3>3. listed'[p].at = listed[p].at
      BY <2>3, <3>2
    <3> QED
      BY <2>2, <3>3 DEF CalmOK
  <2>7. \A p \in K!PullIds, h \in K!Heads : check[p][h].there => h <= listed'[p].at
    BY <2>2, <2>3, <2>5 DEF CalmOK
  <2>8. \A s \in Syncs, p \in K!PullIds : sync[s].at # "idle" => sync[s].list[p].at <= listed'[p].at
    BY <2>2, <2>3, <2>4 DEF CalmOK
  <2> QED
    BY <2>1, <2>2, <2>6, <2>7, <2>8 DEF CalmOK
<1> QED
  BY <1>1, <1>2, <1>3, <1>4, <1>5 DEF ChecksInv

LEMMA PullsMove ==
  ASSUME ChecksInv, NEW p \in K!PullIds,
         \/ \E h \in K!Heads : K!Push(p, h)
         \/ K!CloseOrReopen(p) \/ K!MarkReady(p) \/ K!Label(p) \/ K!ReleaseSkill(p)
  PROVE  ChecksInv'
<1>0. listed \in [K!PullIds -> PullRows] /\ listed[p] \in PullRows
      /\ \A q \in K!PullIds : listed[q].label => q \in wanted
  BY DEF ChecksInv, ChecksTyped, Followed
<1>1. ASSUME NEW h \in K!Heads, K!Push(p, h) PROVE ChecksInv'
  <2>1. listed' \in [K!PullIds -> PullRows]
    BY <1>0, <1>1 DEF K!Push, PullRows
  <2>2. \A q \in K!PullIds : /\ listed'[q].fork = listed[q].fork /\ listed'[q].label = listed[q].label
                             /\ happens = {} => listed'[q].at \in {listed[q].at, listed[q].at + 1}
    BY <1>0, <1>1 DEF K!Push, PullRows
  <2> QED
    BY <1>0, <1>1, <2>1, <2>2, PeopleKeep DEF K!Push
<1>2. ASSUME K!CloseOrReopen(p) \/ K!MarkReady(p) \/ K!Label(p) PROVE ChecksInv'
  <2>1. listed' \in [K!PullIds -> PullRows]
    <3>1. CASE K!CloseOrReopen(p)
      BY <1>0, <3>1 DEF K!CloseOrReopen, PullRows
    <3>2. CASE K!MarkReady(p)
      BY <1>0, <3>2 DEF K!MarkReady, PullRows
    <3>3. CASE K!Label(p)
      BY <1>0, <3>3 DEF K!Label, PullRows
    <3> QED
      BY <1>2, <3>1, <3>2, <3>3
  <2>2. \A q \in K!PullIds : /\ listed'[q].fork = listed[q].fork /\ listed'[q].at = listed[q].at
                             /\ listed'[q].label => q \in wanted'
    BY <1>0, <1>2 DEF K!CloseOrReopen, K!MarkReady, K!Label, PullRows
  <2>3. UNCHANGED <<happens, mode, content, check, kept, contest, posted, shown, sync>>
        /\ wanted \subseteq wanted'
    BY <1>2 DEF K!CloseOrReopen, K!MarkReady, K!Label
  <2> QED
    BY <2>1, <2>2, <2>3, PeopleKeep
<1>3. CASE K!ReleaseSkill(p)
  BY <1>0, <1>3, PeopleKeep DEF K!ReleaseSkill
<1> QED
  BY <1>1, <1>2, <1>3

(* A row of a pull request's head is replaced.                               *)
LEMMA Cell ==
  ASSUME NEW rows, NEW f \in [K!PullIds -> [K!Heads -> rows]],
         NEW p \in K!PullIds, NEW h \in K!Heads, NEW row \in rows
  PROVE  LET g == [f EXCEPT ![p][h] = row] IN
           /\ g \in [K!PullIds -> [K!Heads -> rows]]
           /\ \A q \in K!PullIds, i \in K!Heads :
                g[q][i] = IF q = p /\ i = h THEN row ELSE f[q][i]
OBVIOUS

LEMMA RequestKeeps ==
  ASSUME ChecksInv, NEW p \in K!PullIds, NEW h \in K!Heads, K!RequestContest(p, h)
  PROVE  ChecksInv'
<1>0. /\ check \in [K!PullIds -> [K!Heads -> CheckRows]]
      /\ \A s \in Syncs : (K!Pull(s))' = K!Pull(s) /\ (K!At(s))' = K!At(s)
  BY SamePlace DEF ChecksInv, ChecksTyped, K!RequestContest
<1>1. /\ check' \in [K!PullIds -> [K!Heads -> CheckRows]]
      /\ \A q \in K!PullIds, g \in K!Heads :
           /\ check'[q][g].there = check[q][g].there /\ check'[q][g].run = check[q][g].run
           /\ check'[q][g].requested => check[q][g].requested \/ q = p
  <2> DEFINE row == [check[p][h] EXCEPT !.requested = TRUE]
  <2>1. /\ row \in CheckRows /\ row.there = check[p][h].there /\ row.run = check[p][h].run
        /\ check' = [check EXCEPT ![p][h] = row]
    <3>1. check[p][h] \in CheckRows
      BY <1>0
    <3>2. row \in CheckRows /\ row.there = check[p][h].there /\ row.run = check[p][h].run
      BY <3>1 DEF CheckRows
    <3>3. check' = [check EXCEPT ![p][h] = row]
      BY DEF K!RequestContest
    <3> QED
      BY <3>2, <3>3
  <2> HIDE DEF row
  <2>2. /\ check' \in [K!PullIds -> [K!Heads -> CheckRows]]
        /\ \A q \in K!PullIds, g \in K!Heads :
             check'[q][g] = IF q = p /\ g = h THEN row ELSE check[q][g]
    BY <1>0, <2>1, Cell
  <2> QED
    BY <2>1, <2>2
<1>2. UNCHANGED <<happens, mode, content, listed, kept, contest, posted, shown, sync>>
      /\ wanted' = wanted \cup {p}
  BY DEF K!RequestContest
<1>3. K!TypeOK' /\ ChecksTyped' /\ Followed'
  <2>1. ChecksTyped'
    BY <1>1, <1>2 DEF ChecksInv, ChecksTyped
  <2>2. Followed'
    BY <1>1, <1>2 DEF ChecksInv, Followed
  <2>3. shown' \in K!Per({"none", "running", "ended"})
    BY <1>2 DEF ChecksInv, K!TypeOK
  <2> QED
    BY <1>2, <2>1, <2>2, <2>3, Names, TypeOf
<1>4. (\A s \in Syncs : SyncOK(s)') /\ (Quiet' => QuietOK')
  BY <1>0, <1>2 DEF ChecksInv, SyncOK, InFlight, Quiet, QuietOK
<1>5. K!ContestsAreAllowed'
  BY <1>2 DEF ChecksInv, K!ContestsAreAllowed
<1>6. ASSUME happens = {} PROVE CalmOK'
  <2>1. CalmOK
    BY <1>6 DEF ChecksInv
  <2>2. \A q \in K!PullIds, g \in K!Heads : check'[q][g].there = check[q][g].there
    BY <1>1
  <2> QED
    BY <1>0, <1>2, <2>1, <2>2, ListedHeads, SMTT(30) DEF CalmOK
<1> QED
  BY <1>2, <1>3, <1>4, <1>5, <1>6 DEF ChecksInv

LEMMA EndKeeps ==
  ASSUME ChecksInv, NEW c \in K!Contests, K!EndContest(c)
  PROVE  ChecksInv'
<1>1. /\ contest \in [K!Contests -> Contested] /\ contest' \in [K!Contests -> Contested]
      /\ \A b \in K!Contests : /\ contest'[b].of = contest[b].of
                               /\ contest'[b].state = "none" <=> contest[b].state = "none"
  BY DEF ChecksInv, ChecksTyped, K!EndContest, Contested
<1>2. UNCHANGED <<happens, mode, content, listed, check, kept, posted, shown, wanted, sync>>
  BY DEF K!EndContest
<1>3. \A s \in Syncs : (K!Pull(s))' = K!Pull(s) /\ (K!At(s))' = K!At(s)
  BY <1>2, SamePlace
<1>4. ChecksTyped' /\ Followed'
  BY <1>1, <1>2 DEF ChecksInv, ChecksTyped, Followed
<1>5. K!TypeOK'
  <2>1. \A b \in K!Contests : contest'[b].state \in {"none", "made", "queued", "ended"}
    BY <1>1 DEF Contested
  <2>2. \A p \in K!PullIds, h \in K!Heads :
          /\ kept'[p][h].contest # 0 => contest'[kept'[p][h].contest].of = <<p, h>>
          /\ shown'[p][h] # "none" => posted'[p][h]
    BY <1>1, <1>2, Names
  <2>3. shown' \in K!Per({"none", "running", "ended"})
    BY <1>2 DEF ChecksInv, K!TypeOK
  <2> QED
    BY <1>2, <1>4, <2>2, <2>3, TypeOf
<1>6. /\ \A s \in Syncs : SyncOK(s)'
      /\ Quiet' => QuietOK'
      /\ happens = {} => CalmOK'
  <2>1. \A s \in Syncs : SyncOK(s)'
    BY <1>1, <1>2, <1>3 DEF ChecksInv, SyncOK, InFlight
  <2>2. Quiet' => QuietOK'
    BY <1>1, <1>2, <1>3 DEF ChecksInv, InFlight, Quiet, QuietOK
  <2>3. happens = {} => CalmOK'
    BY <1>2, <1>3 DEF ChecksInv, CalmOK
  <2> QED
    BY <2>1, <2>2, <2>3
<1>7. K!ContestsAreAllowed'
  BY <1>1, <1>2 DEF ChecksInv, K!ContestsAreAllowed
<1> QED
  BY <1>2, <1>4, <1>5, <1>6, <1>7 DEF ChecksInv

-----------------------------------------------------------------------------
(* One sync goes on.                                                         *)
Moved(s, row) == row \in SyncRows /\ sync' = [sync EXCEPT ![s] = row]
Setting == <<happens, mode, content, listed, wanted>>

LEMMA MovedIs ==
  ASSUME ChecksInv, NEW s \in Syncs, NEW row, Moved(s, row)
  PROVE  /\ sync' \in [Syncs -> SyncRows] /\ sync'[s] = row
         /\ \A t \in Syncs : t # s => /\ sync'[t] = sync[t]
                                      /\ (K!Pull(t))' = K!Pull(t) /\ (K!At(t))' = K!At(t)
<1>1. sync' \in [Syncs -> SyncRows] /\ sync'[s] = row /\ \A t \in Syncs : t # s => sync'[t] = sync[t]
  BY DEF ChecksInv, ChecksTyped, Moved
<1> QED
  BY <1>1, SamePlace

(* What the other syncs hold stays true.                                     *)
LEMMA OthersOK ==
  ASSUME ChecksInv, UNCHANGED Setting, NEW s \in Syncs, NEW row, Moved(s, row),
         \A c \in K!Contests : contest[c].of # <<>> => contest'[c].of = contest[c].of,
         \A p \in K!PullIds, h \in K!Heads : posted[p][h] => posted'[p][h]
  PROVE  \A t \in Syncs : t # s => SyncOK(t)'
<1> SUFFICES ASSUME NEW t \in Syncs, t # s PROVE SyncOK(t)'
  OBVIOUS
<1>1. SyncOK(t) /\ sync'[t] = sync[t] /\ (K!Pull(t))' = K!Pull(t) /\ (K!At(t))' = K!At(t)
  BY MovedIs DEF ChecksInv
<1>2. sync[t].at \notin {"idle", "drop"} => K!Pull(t) \in K!PullIds /\ K!At(t) \in K!Heads
  BY PlaceOf
<1>3. InFlight(t) => contest[sync[t].contest].of # <<>>
  BY <1>1 DEF SyncOK, InFlight
<1> QED
  BY <1>1, <1>2, <1>3 DEF SyncOK, InFlight, Setting

LEMMA Alone ==
  ASSUME ChecksInv, Quiet, NEW s \in Syncs, sync[s].at # "idle"
  PROVE  \A t \in Syncs : t # s => sync[t].at = "idle"
BY DEF ChecksInv, QuietOK

LEMMA CalmIsQuiet == happens = {} => Quiet
BY DEF Quiet

LEMMA CalmStep ==
  ASSUME ChecksInv, UNCHANGED Setting, NEW s \in Syncs, NEW row, Moved(s, row), happens = {},
         \A t \in Syncs : t # s => sync[t].at = "idle",
         row.at # "idle" => \A p \in K!PullIds : row.list[p].at <= listed[p].at,
         \A p \in K!PullIds, h \in K!Heads : check'[p][h].there =>
           h <= listed[p].at /\ (row.at # "idle" => h <= row.list[p].at),
         \A p \in K!PullIds : LET h == listed[p].at IN
           check'[p][h].there /\ content[p][h] # "none" => kept'[p][h].there,
         row.at \in {"post", "record"} /\ content[(K!Pull(s))'][(K!At(s))'] # "none" =>
           kept'[(K!Pull(s))'][(K!At(s))'].there
  PROVE  CalmOK'
BY MovedIs DEF CalmOK, Setting

(* A step that moves only the sync.                                          *)
LEMMA OnlySync ==
  ASSUME ChecksInv, NEW s \in Syncs, NEW row, Moved(s, row), UNCHANGED Setting,
         UNCHANGED <<check, kept, contest, posted, shown>>,
         row.at \notin {"submit", "link"}, row.at = "record" => ~row.run,
         row.at # "idle" => /\ row.list \in [K!PullIds -> PullRows]
                            /\ \A p \in K!PullIds : /\ row.list[p].label => p \in wanted
                                                    /\ row.list[p].fork = listed[p].fork,
         row.at \notin {"idle", "drop"} => row.todo # {},
         Quiet => /\ sync[s].at \notin {"submit", "link"}
                  /\ row.at # "idle" => \A t \in Syncs : t # s => sync[t].at = "idle",
         happens = {} => /\ row.at # "idle" => \A p \in K!PullIds :
                              /\ row.list[p].at <= listed[p].at
                              /\ \A h \in K!Heads : check[p][h].there => h <= row.list[p].at
                         /\ row.at \in {"post", "record"}
                              /\ content[(K!Pull(s))'][(K!At(s))'] # "none"
                            => kept[(K!Pull(s))'][(K!At(s))'].there
  PROVE  ChecksInv'
<1>1. ChecksTyped' /\ Followed'
  BY MovedIs DEF ChecksInv, ChecksTyped, Followed, Setting
<1>2. K!TypeOK'
  BY DEF ChecksInv, K!TypeOK, Setting
<1>3. \A t \in Syncs : SyncOK(t)'
  <2>1. SyncOK(s)'
    BY MovedIs DEF SyncOK, InFlight, Setting
  <2> QED
    BY <2>1, OthersOK
<1>4. K!ContestsAreAllowed'
  BY DEF ChecksInv, K!ContestsAreAllowed, Setting
<1>5. ASSUME Quiet PROVE QuietOK'
  <2>1. QuietOK
    BY <1>5 DEF ChecksInv
  <2> QED
    BY <1>5, <2>1, MovedIs DEF QuietOK, InFlight
<1>6. ASSUME happens = {} PROVE CalmOK'
  <2>1. CalmOK
    BY <1>6 DEF ChecksInv
  <2> QED
    BY <1>6, <2>1, MovedIs DEF CalmOK, Setting
<1> QED
  BY <1>1, <1>2, <1>3, <1>4, <1>5, <1>6 DEF ChecksInv, Quiet, Setting

LEMMA SyncFacts ==
  ASSUME ChecksInv, NEW s \in Syncs
  PROVE  /\ sync[s] \in SyncRows /\ SyncOK(s) /\ sync \in [Syncs -> SyncRows]
         /\ kept \in [K!PullIds -> [K!Heads -> HeadRows]]
         /\ check \in [K!PullIds -> [K!Heads -> CheckRows]]
         /\ posted \in [K!PullIds -> [K!Heads -> BOOLEAN]]
         /\ contest \in [K!Contests -> Contested]
         /\ shown \in [K!PullIds -> [K!Heads -> {"none", "running", "ended"}]]
BY DEF ChecksInv, ChecksTyped, K!TypeOK, K!Per

(* Fields of a sync that are replaced.                                       *)
LEMMA RowMoves ==
  ASSUME NEW row \in SyncRows,
         NEW at \in {"idle", "check", "post", "record", "contest", "submit", "link", "report",
                     "update", "drop"},
         NEW b \in BOOLEAN, NEW c \in 0..MaxContest, NEW todo \in SUBSET K!PullIds
  PROVE  /\ [row EXCEPT !.at = at] \in SyncRows
         /\ [row EXCEPT !.at = at, !.run = b] \in SyncRows
         /\ [row EXCEPT !.at = at, !.contest = c] \in SyncRows
         /\ [row EXCEPT !.at = at, !.contest = c, !.run = b] \in SyncRows
         /\ [row EXCEPT !.todo = todo, !.at = at] \in SyncRows
BY DEF SyncRows

LEMMA IdleRow == K!IdleSync \in SyncRows /\ K!IdleSync.at = "idle"
BY ChecksAssumption DEF K!IdleSync, SyncRows

LEMMA ListRow ==
  ASSUME NEW row \in SyncRows, NEW at \in {"check", "drop"},
         NEW list \in [K!PullIds -> PullRows], NEW todo \in SUBSET K!PullIds
  PROVE  [row EXCEPT !.at = at, !.list = list, !.todo = todo] \in SyncRows
BY DEF SyncRows

LEMMA NewRow ==
  ASSUME NEW b \in BOOLEAN
  PROVE  LET row == [K!NoHead EXCEPT !.there = TRUE, !.skill = b] IN
           row \in HeadRows /\ row.there /\ row.contest = 0
<1>1. 0 \in 0..MaxContest
  BY ChecksAssumption
<1>2. K!NoHead \in HeadRows /\ K!NoHead.contest = 0
  BY <1>1 DEF K!NoHead, HeadRows
<1> QED
  BY <1>2 DEF HeadRows

LEMMA PlaceStays ==
  ASSUME ChecksInv, NEW s \in Syncs, NEW row, Moved(s, row),
         row.todo = sync[s].todo, row.list = sync[s].list
  PROVE  (K!Pull(s))' = K!Pull(s) /\ (K!At(s))' = K!At(s)
BY MovedIs, SamePlace

LEMMA ListKeeps ==
  ASSUME ChecksInv, NEW s \in Syncs, K!List(s)
  PROVE  ChecksInv'
<1> DEFINE open == {q \in K!PullIds : listed[q].open}
           row  == [K!IdleSync EXCEPT !.at = IF open = {} THEN "drop" ELSE "check",
                                      !.list = listed, !.todo = open]
<1>1. Moved(s, row) /\ UNCHANGED Setting /\ UNCHANGED <<check, kept, contest, posted, shown>>
  <2>1. listed \in [K!PullIds -> PullRows] /\ open \in SUBSET K!PullIds
    BY DEF ChecksInv, ChecksTyped
  <2>2. row \in SyncRows
    <3> HIDE DEF open
    <3> QED
      BY <2>1, IdleRow, ListRow
  <2> QED
    BY <2>2 DEF K!List, Moved, Setting
<1>2. /\ row.at \in {"drop", "check"} /\ row.list = listed /\ row.todo = open
      /\ row.at # "drop" => row.todo # {}
  BY DEF K!IdleSync
<1>3. /\ listed \in [K!PullIds -> PullRows] /\ sync[s].at = "idle"
      /\ \A p \in K!PullIds : listed[p].label => p \in wanted
  BY DEF ChecksInv, ChecksTyped, Followed, K!List, K!Is
<1>4. Quiet => \A t \in Syncs : sync[t].at = "idle"
  BY DEF K!List, K!Is, Quiet
<1>5. happens = {} => \A p \in K!PullIds : /\ listed[p].at <= listed[p].at
                                          /\ \A h \in K!Heads : check[p][h].there => h <= listed[p].at
  <2>1. \A p \in K!PullIds : listed[p].at \in Nat
    BY <1>3 DEF PullRows, K!Heads
  <2> QED
    BY <2>1 DEF ChecksInv, CalmOK
<1> HIDE DEF row
<1> QED
  BY <1>1, <1>2, <1>3, <1>4, <1>5, OnlySync

(* A step that goes on at the same pull request and moves only the sync.     *)
LEMMA SyncGoesOn ==
  ASSUME ChecksInv, NEW s \in Syncs, sync[s].at \notin {"idle", "drop"}, NEW row, Moved(s, row),
         UNCHANGED Setting, UNCHANGED <<check, kept, contest, posted, shown>>,
         row.list = sync[s].list, row.todo # {} \/ row.at = "drop", row.at # "idle",
         row.at \notin {"submit", "link", "post"},
         row.at = "record" => ~row.run /\ row.todo = sync[s].todo
                                       /\ content[K!Pull(s)][K!At(s)] = "none",
         Quiet => ~InFlight(s)
  PROVE  ChecksInv'
<1>1. SyncOK(s) /\ sync[s].list \in [K!PullIds -> PullRows]
  BY SyncFacts, PlaceOf
<1>2. Quiet => sync[s].at \notin {"submit", "link"} /\ \A t \in Syncs : t # s => sync[t].at = "idle"
  BY Alone DEF InFlight
<1>3. happens = {} => \A p \in K!PullIds :
        /\ row.list[p].at <= listed[p].at
        /\ \A h \in K!Heads : check[p][h].there => h <= row.list[p].at
  BY DEF ChecksInv, CalmOK
<1>4. row.at = "record" => (K!Pull(s))' = K!Pull(s) /\ (K!At(s))' = K!At(s) /\ content' = content
  BY PlaceStays DEF Setting
<1>5. /\ row.list \in [K!PullIds -> PullRows]
      /\ \A p \in K!PullIds : /\ row.list[p].label => p \in wanted
                              /\ row.list[p].fork = listed[p].fork
  BY <1>1 DEF SyncOK
<1>6. row.at \in {"post", "record"} => content[(K!Pull(s))'][(K!At(s))'] = "none"
  BY <1>4
<1>7. row.at # "idle" => /\ row.list \in [K!PullIds -> PullRows]
                         /\ \A p \in K!PullIds : /\ row.list[p].label => p \in wanted
                                                 /\ row.list[p].fork = listed[p].fork
  BY <1>5
<1>8. Quiet => /\ sync[s].at \notin {"submit", "link"}
               /\ row.at # "idle" => \A t \in Syncs : t # s => sync[t].at = "idle"
  BY <1>2
<1>9. happens = {} => /\ row.at # "idle" => \A p \in K!PullIds :
                           /\ row.list[p].at <= listed[p].at
                           /\ \A h \in K!Heads : check[p][h].there => h <= row.list[p].at
                      /\ row.at \in {"post", "record"}
                           /\ content[(K!Pull(s))'][(K!At(s))'] # "none"
                         => kept[(K!Pull(s))'][(K!At(s))'].there
  BY <1>3, <1>6
<1>10. row.at \notin {"submit", "link"} /\ (row.at = "record" => ~row.run)
       /\ (row.at \notin {"idle", "drop"} => row.todo # {})
  OBVIOUS
<1> QED
  BY <1>7, <1>8, <1>9, <1>10, OnlySync

LEMMA NoContestKeeps ==
  ASSUME ChecksInv, NEW s \in Syncs, K!NoContestNow(s)
  PROVE  ChecksInv'
<1> DEFINE row == [sync[s] EXCEPT !.at = "report"]
<1>1. sync[s] \in SyncRows /\ sync[s].at = "contest"
  BY SyncFacts DEF K!NoContestNow, K!Is
<1>2. Moved(s, row) /\ UNCHANGED Setting /\ UNCHANGED <<check, kept, contest, posted, shown>>
  BY <1>1 DEF K!NoContestNow, K!Goes, Moved, Setting, SyncRows, ChecksInv, ChecksTyped
<1>3. row.at = "report" /\ row.list = sync[s].list /\ row.todo = sync[s].todo
  BY <1>1 DEF SyncRows
<1>4. sync[s].todo # {}
  BY <1>1, SyncFacts DEF SyncOK
<1> HIDE DEF row
<1>5. ~InFlight(s)
  BY <1>1 DEF InFlight
<1> QED
  BY <1>1, <1>2, <1>3, <1>4, <1>5, SyncGoesOn

(* The next pull request, or the end of the list.                            *)
LEMMA NextPullIs ==
  ASSUME ChecksInv, NEW s \in Syncs, sync[s].at \notin {"idle", "drop"}, sync' = K!NextPull(s)
  PROVE  \E row : /\ Moved(s, row) /\ row.list = sync[s].list
                  /\ row.at \in {"check", "drop"} /\ (row.todo # {} \/ row.at = "drop")
<1> DEFINE rest == sync[s].todo \ {K!Pull(s)}
           row  == [sync[s] EXCEPT !.todo = rest, !.at = IF rest = {} THEN "drop" ELSE "check"]
<1>1. sync[s] \in SyncRows /\ sync \in [Syncs -> SyncRows]
  BY SyncFacts
<1>2. row \in SyncRows /\ row.list = sync[s].list /\ row.todo = rest
      /\ row.at = IF rest = {} THEN "drop" ELSE "check"
  BY <1>1 DEF SyncRows
<1>3. sync' = [sync EXCEPT ![s] = row]
  BY <1>1 DEF K!NextPull
<1> QED
  BY <1>2, <1>3 DEF Moved

(* A sync that ends early.                                                   *)
LEMMA Quits ==
  ASSUME ChecksInv, NEW s \in Syncs, sync' = [sync EXCEPT ![s] = K!IdleSync],
         Quiet => ~InFlight(s),
         UNCHANGED Setting, UNCHANGED <<check, kept, contest, posted, shown>>
  PROVE  ChecksInv'
BY IdleRow, OnlySync DEF Moved, InFlight

LEMMA StopKeeps ==
  ASSUME ChecksInv, NEW s \in Syncs, K!Stop(s)
  PROVE  ChecksInv'
BY Quits DEF K!Stop, Quiet, Setting

LEMMA CheckKeeps ==
  ASSUME ChecksInv, NEW s \in Syncs, K!Check(s)
  PROVE  ChecksInv'
<1> DEFINE p == K!Pull(s)
           h == K!At(s)
<1>1. /\ sync[s] \in SyncRows /\ sync[s].at = "check" /\ SyncOK(s) /\ sync \in [Syncs -> SyncRows]
      /\ p \in K!PullIds /\ h \in K!Heads /\ sync[s].todo # {}
      /\ sync[s].list \in [K!PullIds -> PullRows]
  BY SyncFacts, PlaceOf DEF K!Check, K!Is
<1>2. UNCHANGED Setting /\ UNCHANGED <<check, contest, posted, shown>>
  BY DEF K!Check, Setting
<1>3. CASE check[p][h].there /\ sync' = K!Goes(s, "contest") /\ UNCHANGED kept
  <2> DEFINE row == [sync[s] EXCEPT !.at = "contest"]
  <2>1. Moved(s, row) /\ row.at = "contest" /\ row.list = sync[s].list /\ row.todo = sync[s].todo
    BY <1>1, <1>3 DEF K!Goes, Moved, SyncRows
  <2> HIDE DEF row
  <2> QED
    BY <1>1, <1>2, <1>3, <2>1, SyncGoesOn DEF InFlight
<1>4. CASE /\ content[p][h] = "none" /\ UNCHANGED kept
           /\ sync' = [K!Goes(s, "record") EXCEPT ![s].run = FALSE]
  <2> DEFINE row == [sync[s] EXCEPT !.at = "record", !.run = FALSE]
  <2>1. /\ Moved(s, row) /\ row.at = "record" /\ row.list = sync[s].list /\ row.todo = sync[s].todo
        /\ ~row.run
    BY <1>1, <1>4 DEF K!Goes, Moved, SyncRows
  <2> HIDE DEF row
  <2> QED
    BY <1>1, <1>2, <1>4, <2>1, SyncGoesOn DEF InFlight
<1>5. CASE /\ kept' = IF kept[p][h].there THEN kept
                      ELSE [kept EXCEPT ![p][h] = [K!NoHead EXCEPT !.there = TRUE,
                                                                   !.skill = touched[p] # "none"]]
           /\ sync' = K!Goes(s, "post")
  <2> DEFINE row == [sync[s] EXCEPT !.at = "post"]
  <2>1. Moved(s, row) /\ row.at = "post" /\ row.list = sync[s].list /\ row.todo = sync[s].todo
    BY <1>1, <1>5 DEF K!Goes, Moved, SyncRows
  <2> HIDE DEF row
  <2>2. (K!Pull(s))' = p /\ (K!At(s))' = h
    BY <2>1, PlaceStays
  <2>3. /\ kept' \in [K!PullIds -> [K!Heads -> HeadRows]] /\ kept'[p][h].there
        /\ \A q \in K!PullIds, g \in K!Heads : /\ kept'[q][g].contest = kept[q][g].contest
                                               /\ kept[q][g].there => kept'[q][g].there
    <3>1. CASE kept[p][h].there
      BY <1>5, <3>1, SyncFacts
    <3>2. CASE ~kept[p][h].there
      <4> DEFINE new == [K!NoHead EXCEPT !.there = TRUE, !.skill = touched[p] # "none"]
      <4>1. new \in HeadRows /\ new.there /\ new.contest = 0
        <5>1. (touched[p] # "none") \in BOOLEAN
          OBVIOUS
        <5> QED
          BY <5>1, NewRow
      <4>2. kept[p][h].contest = 0
        BY <1>1, <3>2 DEF ChecksInv, Followed
      <4>3. kept' = [kept EXCEPT ![p][h] = new]
        BY <1>5, <3>2
      <4> HIDE DEF new
      <4> QED
        BY <1>1, <4>1, <4>2, <4>3, SyncFacts, Cell
    <3> QED
      BY <3>1, <3>2
  <2>4. ChecksTyped' /\ Followed'
    <3>1. ChecksTyped'
      BY <1>2, <2>1, <2>3, MovedIs DEF ChecksInv, ChecksTyped, Setting
    <3> HIDE DEF p, h
    <3>2. \A q \in K!PullIds, g \in K!Heads : kept'[q][g].contest # 0 => kept'[q][g].there
      BY <2>3, Names
    <3> QED
      BY <1>2, <3>1, <3>2 DEF ChecksInv, Followed, Setting
  <2>5. K!TypeOK'
    <3>1. shown' \in K!Per({"none", "running", "ended"}) /\ UNCHANGED <<happens, mode>>
      BY <1>2 DEF ChecksInv, K!TypeOK, Setting
    <3>2. \A q \in K!PullIds, g \in K!Heads :
            /\ kept'[q][g].contest # 0 => contest'[kept'[q][g].contest].of = <<q, g>>
            /\ shown'[q][g] # "none" => posted'[q][g]
      <4>1. \A q \in K!PullIds, g \in K!Heads :
              /\ kept[q][g].contest # 0 => contest[kept[q][g].contest].of = <<q, g>>
              /\ shown[q][g] # "none" => posted[q][g]
        BY DEF ChecksInv, K!TypeOK
      <4>2. contest' = contest /\ shown' = shown /\ posted' = posted
        BY <1>2
      <4> QED
        <5> HIDE DEF p, h
        <5> SUFFICES ASSUME NEW q \in K!PullIds, NEW g \in K!Heads
                     PROVE  /\ kept'[q][g].contest # 0 => contest'[kept'[q][g].contest].of = <<q, g>>
                            /\ shown'[q][g] # "none" => posted'[q][g]
          OBVIOUS
        <5>1. kept'[q][g].contest = kept[q][g].contest
          BY <2>3
        <5> QED
          BY <4>1, <4>2, <5>1
    <3> QED
      BY <2>4, <3>1, <3>2, TypeOf
  <2>6. \A t \in Syncs : SyncOK(t)'
    <3>1. SyncOK(s)'
      BY <1>1, <1>2, <2>1, <2>2, MovedIs DEF SyncOK, InFlight, Setting
    <3> QED
      BY <1>2, <2>1, <3>1, OthersOK
  <2>7. K!ContestsAreAllowed'
    BY <1>2 DEF ChecksInv, K!ContestsAreAllowed, Setting
  <2>8. ASSUME Quiet PROVE QuietOK'
    <3>1. \A t \in Syncs : t # s => sync[t].at = "idle"
      BY <1>1, <2>8, Alone
    <3>2. \A c \in K!Contests, q \in K!PullIds, g \in K!Heads : contest'[c].of = <<q, g>> =>
            kept'[q][g].contest = c
      <4>1. \A t \in Syncs : ~InFlight(t)
        BY <1>1, <3>1 DEF InFlight
      <4> QED
        BY <1>2, <2>3, <2>8, <4>1 DEF ChecksInv, QuietOK
    <3>3. UNCHANGED happens /\ row.at \notin {"submit", "link"}
      BY <1>2, <2>1 DEF Setting
    <3> QED
      <4>1. /\ \A c \in K!Contests, q \in K!PullIds, g \in K!Heads : contest'[c].of = <<q, g>> =>
                 kept'[q][g].contest = c \/ (row.at \in {"submit", "link"} /\ row.contest = c)
            /\ row.at \in {"submit", "link"} =>
                 kept'[(K!Pull(s))'][(K!At(s))'].there /\ kept'[(K!Pull(s))'][(K!At(s))'].contest = 0
        BY <3>2, <3>3
      <4> HIDE DEF p, h
      <4> QED
        BY <2>1, <2>8, <3>1, <3>3, <4>1, MovedIs DEF QuietOK, InFlight
  <2>9. ASSUME happens = {} PROVE CalmOK'
    <3>1. CalmOK /\ \A t \in Syncs : t # s => sync[t].at = "idle"
      BY <1>1, <2>9, Alone, CalmIsQuiet DEF ChecksInv
    <3>2. \A q \in K!PullIds : listed[q].at \in K!Heads
      BY DEF ChecksInv, ChecksTyped, PullRows
    <3>3. /\ \A q \in K!PullIds : row.list[q].at <= listed[q].at
          /\ \A q \in K!PullIds, g \in K!Heads : check'[q][g].there =>
               h \in K!Heads /\ g <= listed[q].at /\ g <= row.list[q].at
      BY <1>1, <1>2, <2>1, <3>1 DEF CalmOK
    <3>4. \A q \in K!PullIds : LET g == listed[q].at IN
            check'[q][g].there /\ content[q][g] # "none" => kept'[q][g].there
      BY <1>2, <2>3, <3>1, <3>2 DEF CalmOK
    <3> QED
      BY <1>2, <2>1, <2>2, <2>3, <2>9, <3>1, <3>3, <3>4, CalmStep
  <2> QED
    BY <1>2, <2>4, <2>5, <2>6, <2>7, <2>8, <2>9 DEF ChecksInv, Quiet, Setting
<1> QED
  BY <1>3, <1>4, <1>5 DEF K!Check

(* What a step of a sync has to be shown to keep.                            *)
LEMMA StepKeeps ==
  ASSUME ChecksInv, UNCHANGED Setting, NEW s \in Syncs, NEW row, Moved(s, row),
         ChecksTyped', Followed', SyncOK(s)',
         shown' \in [K!PullIds -> [K!Heads -> {"none", "running", "ended"}]],
         \A p \in K!PullIds, h \in K!Heads :
           /\ kept'[p][h].contest # 0 => contest'[kept'[p][h].contest].of = <<p, h>>
           /\ shown'[p][h] # "none" => posted'[p][h]
           /\ posted[p][h] => posted'[p][h],
         \A c \in K!Contests : contest[c].of # <<>> => contest'[c].of = contest[c].of,
         K!ContestsAreAllowed', Quiet => QuietOK', happens = {} => CalmOK'
  PROVE  ChecksInv'
<1>1. UNCHANGED <<happens, mode>>
  BY DEF Setting
<1>2. K!TypeOK'
  BY <1>1, TypeOf DEF K!Per
<1>3. \A t \in Syncs : SyncOK(t)'
  BY OthersOK
<1> QED
  BY <1>1, <1>2, <1>3 DEF ChecksInv, Quiet

LEMMA PostKeeps ==
  ASSUME ChecksInv, NEW s \in Syncs, NEW reached \in BOOLEAN, K!Post(s, reached)
  PROVE  ChecksInv'
<1> DEFINE p == K!Pull(s)
           h == K!At(s)
           row == [sync[s] EXCEPT !.at = "record", !.run = reached]
<1>1. /\ sync[s] \in SyncRows /\ sync[s].at = "post" /\ SyncOK(s) /\ sync \in [Syncs -> SyncRows]
      /\ p \in K!PullIds /\ h \in K!Heads /\ sync[s].todo # {}
      /\ sync[s].list \in [K!PullIds -> PullRows]
  BY SyncFacts, PlaceOf DEF K!Post, K!Is
<1>2. UNCHANGED Setting /\ UNCHANGED <<check, kept, contest>>
  BY DEF K!Post, Setting
<1>3. /\ Moved(s, row) /\ row.at = "record" /\ row.list = sync[s].list /\ row.todo = sync[s].todo
      /\ row.run = reached
  BY <1>1 DEF K!Post, K!Goes, Moved, SyncRows
<1> HIDE DEF row
<1>4. (K!Pull(s))' = p /\ (K!At(s))' = h
  BY <1>3, PlaceStays
<1>5. /\ posted' \in [K!PullIds -> [K!Heads -> BOOLEAN]] /\ (reached => posted'[p][h])
      /\ \A q \in K!PullIds, g \in K!Heads : posted[q][g] => posted'[q][g]
  <2>1. posted \in [K!PullIds -> [K!Heads -> BOOLEAN]]
        /\ posted' = [posted EXCEPT ![p][h] = posted[p][h] \/ reached]
    BY SyncFacts DEF K!Post
  <2>2. (posted[p][h] \/ reached) \in BOOLEAN
    OBVIOUS
  <2> HIDE DEF p, h
  <2> QED
    BY <1>1, <2>1, <2>2
<1>6. /\ shown' \in [K!PullIds -> [K!Heads -> {"none", "running", "ended"}]]
      /\ \A q \in K!PullIds, g \in K!Heads : shown'[q][g] # "none" => shown[q][g] # "none"
  <2>1. shown \in [K!PullIds -> [K!Heads -> {"none", "running", "ended"}]]
        /\ shown' = IF reached THEN [shown EXCEPT ![p][h] = "none"] ELSE shown
    BY SyncFacts DEF K!Post
  <2> HIDE DEF p, h
  <2> QED
    BY <1>1, <2>1
<1>7. ChecksTyped' /\ Followed'
  BY <1>2, <1>3, <1>5, MovedIs DEF ChecksInv, ChecksTyped, Followed, Setting
<1>8. SyncOK(s)'
  BY <1>1, <1>2, <1>3, <1>4, <1>5, MovedIs DEF SyncOK, InFlight, Setting
<1>9. \A q \in K!PullIds, g \in K!Heads :
        /\ kept'[q][g].contest # 0 => contest'[kept'[q][g].contest].of = <<q, g>>
        /\ shown'[q][g] # "none" => posted'[q][g]
        /\ posted[q][g] => posted'[q][g]
  <2> HIDE DEF p, h
  <2> QED
    BY <1>2, <1>5, <1>6, Names
<1>10. K!ContestsAreAllowed'
  BY <1>2 DEF ChecksInv, K!ContestsAreAllowed, Setting
<1>11. ASSUME Quiet PROVE QuietOK'
  <2>1. QuietOK /\ \A t \in Syncs : t # s => sync[t].at = "idle"
    BY <1>1, <1>11, Alone DEF ChecksInv
  <2> HIDE DEF p, h
  <2> QED
    BY <1>1, <1>2, <1>3, <2>1, MovedIs DEF QuietOK, InFlight
<1>12. ASSUME happens = {} PROVE CalmOK'
  <2>1. CalmOK /\ \A t \in Syncs : t # s => sync[t].at = "idle"
    BY <1>1, <1>12, Alone, CalmIsQuiet DEF ChecksInv
  <2>2. content[p][h] # "none" => kept[p][h].there
    BY <1>1, <2>1 DEF CalmOK
  <2> HIDE DEF p, h
  <2> QED
    BY <1>1, <1>2, <1>3, <1>4, <2>1, <2>2, MovedIs DEF CalmOK, Setting
<1> HIDE DEF p, h
<1> QED
  BY <1>2, <1>3, <1>6, <1>7, <1>8, <1>9, <1>10, <1>11, <1>12, StepKeeps

LEMMA RecordKeeps ==
  ASSUME ChecksInv, NEW s \in Syncs, K!RecordCheck(s)
  PROVE  ChecksInv'
<1> DEFINE p == K!Pull(s)
           h == K!At(s)
           row == [sync[s] EXCEPT !.at = "contest"]
<1>1. /\ sync[s] \in SyncRows /\ sync[s].at = "record" /\ SyncOK(s) /\ sync \in [Syncs -> SyncRows]
      /\ p \in K!PullIds /\ h \in K!Heads /\ sync[s].todo # {}
      /\ sync[s].list \in [K!PullIds -> PullRows] /\ h = sync[s].list[p].at
  BY SyncFacts, PlaceOf DEF K!RecordCheck, K!Is
<1>2. UNCHANGED Setting /\ UNCHANGED <<kept, contest, posted, shown>>
  BY DEF K!RecordCheck, Setting
<1>3. Moved(s, row) /\ row.at = "contest" /\ row.list = sync[s].list /\ row.todo = sync[s].todo
  BY <1>1 DEF K!RecordCheck, K!Goes, Moved, SyncRows
<1> HIDE DEF row
<1>4. /\ check' \in [K!PullIds -> [K!Heads -> CheckRows]]
      /\ \A q \in K!PullIds, g \in K!Heads : check'[q][g] # check[q][g] =>
           q = p /\ g = h /\ ~check'[q][g].requested /\ check'[q][g].run = sync[s].run
  <2> DEFINE new == [K!NoCheck EXCEPT !.there = TRUE, !.run = sync[s].run]
  <2>1. new \in CheckRows /\ ~new.requested /\ new.run = sync[s].run
    BY <1>1 DEF K!NoCheck, CheckRows, SyncRows
  <2>2. check' = IF check[p][h].there THEN check ELSE [check EXCEPT ![p][h] = new]
    BY DEF K!RecordCheck
  <2> HIDE DEF new, p, h
  <2>3. CASE check' = check
    BY <2>3, SyncFacts
  <2>4. CASE check' = [check EXCEPT ![p][h] = new]
    BY <1>1, <2>1, <2>4, SyncFacts, Cell
  <2> QED
    BY <2>2, <2>3, <2>4
<1>5. ChecksTyped' /\ Followed'
  <2>1. sync[s].run => posted[p][h]
    BY <1>1 DEF SyncOK
  <2>2. ChecksTyped'
    BY <1>2, <1>3, <1>4, MovedIs DEF ChecksInv, ChecksTyped, Setting
  <2> HIDE DEF p, h
  <2> QED
    BY <1>2, <1>4, <2>1, <2>2 DEF ChecksInv, Followed, Setting
<1>6. SyncOK(s)'
  BY <1>1, <1>2, <1>3, MovedIs DEF SyncOK, InFlight, Setting
<1>7. K!ContestsAreAllowed'
  BY <1>2 DEF ChecksInv, K!ContestsAreAllowed, Setting
<1>8. ASSUME Quiet PROVE QuietOK'
  <2>1. QuietOK /\ \A t \in Syncs : t # s => sync[t].at = "idle"
    BY <1>1, <1>8, Alone DEF ChecksInv
  <2> HIDE DEF p, h
  <2> QED
    BY <1>1, <1>2, <1>3, <2>1, MovedIs DEF QuietOK, InFlight
<1>9. ASSUME happens = {} PROVE CalmOK'
  <2>1. CalmOK /\ \A t \in Syncs : t # s => sync[t].at = "idle"
    BY <1>1, <1>9, Alone, CalmIsQuiet DEF ChecksInv
  <2>2. content[p][h] # "none" => kept[p][h].there
    BY <1>1, <2>1 DEF CalmOK
  <2> HIDE DEF p, h
  <2>3. h <= listed[p].at /\ h \in Nat /\ \A q \in K!PullIds : row.list[q].at <= listed[q].at
    BY <1>1, <1>3, <2>1 DEF CalmOK, K!Heads
  <2>4. \A q \in K!PullIds, g \in K!Heads : check'[q][g].there =>
          check[q][g].there \/ (q = p /\ g = h)
    BY <1>4
  <2>5. \A q \in K!PullIds, g \in K!Heads : check'[q][g].there => g <= listed[q].at /\ g <= row.list[q].at
    BY <1>1, <1>3, <2>1, <2>3, <2>4 DEF CalmOK
  <2>6. \A q \in K!PullIds : LET g == listed[q].at IN
          check'[q][g].there /\ content[q][g] # "none" => kept'[q][g].there
    <3>1. \A q \in K!PullIds : listed[q].at \in K!Heads
      BY DEF ChecksInv, ChecksTyped, PullRows
    <3> QED
      BY <1>2, <2>1, <2>2, <2>4, <3>1 DEF CalmOK
  <2> QED
    <3>1. listed' = listed /\ content' = content
      BY <1>2 DEF Setting
    <3>2. \A t \in Syncs : sync'[t].at # "idle" => t = s /\ sync'[t] = row
      BY <1>3, <2>1, MovedIs
    <3> QED
      BY <1>3, <2>3, <2>5, <2>6, <3>1, <3>2 DEF CalmOK
<1>10. \A q \in K!PullIds, g \in K!Heads :
        /\ kept'[q][g].contest # 0 => contest'[kept'[q][g].contest].of = <<q, g>>
        /\ shown'[q][g] # "none" => posted'[q][g]
        /\ posted[q][g] => posted'[q][g]
  BY <1>2, Names
<1> HIDE DEF p, h
<1> QED
  BY <1>2, <1>3, <1>5, <1>6, <1>7, <1>8, <1>9, <1>10, SyncFacts, StepKeeps

(* Where no sync overlaps or fails and this one holds no contest, each one   *)
(* is named by its head.                                                     *)
LEMMA AllNamed ==
  ASSUME ChecksInv, Quiet, NEW s \in Syncs, sync[s].at # "idle", ~InFlight(s)
  PROVE  \A c \in K!Contests, p \in K!PullIds, h \in K!Heads :
           contest[c].of = <<p, h>> => kept[p][h].contest = c
BY Alone DEF ChecksInv, QuietOK, InFlight

(* What is said of no fork and no blocked head has to be said of a contest   *)
(* that is made.                                                             *)
LEMMA WantedIsAsked ==
  ASSUME ChecksInv, NEW s \in Syncs, sync[s].at = "contest", K!Wanted(s), listed[K!Pull(s)].fork
  PROVE  K!Pull(s) \in wanted
<1>1. K!Pull(s) \in K!PullIds /\ K!At(s) \in K!Heads /\ SyncOK(s)
  BY PlaceOf, SyncFacts
<1>2. sync[s].list[K!Pull(s)].label => K!Pull(s) \in wanted
  BY <1>1 DEF SyncOK
<1>3. sync[s].list[K!Pull(s)].fork = listed[K!Pull(s)].fork
  BY <1>1 DEF SyncOK
<1>4. check[K!Pull(s)][K!At(s)].requested => K!Pull(s) \in wanted
  BY <1>1 DEF ChecksInv, Followed
<1> QED
  BY <1>2, <1>3, <1>4 DEF K!Wanted

LEMMA StartKeeps ==
  ASSUME ChecksInv, NEW s \in Syncs, NEW c \in K!Contests, K!StartContest(s, c)
  PROVE  ChecksInv'
<1> DEFINE p == K!Pull(s)
           h == K!At(s)
           row == [sync[s] EXCEPT !.at = "submit", !.contest = c]
<1>1. /\ sync[s] \in SyncRows /\ sync[s].at = "contest" /\ SyncOK(s) /\ sync \in [Syncs -> SyncRows]
      /\ p \in K!PullIds /\ h \in K!Heads /\ sync[s].todo # {}
      /\ sync[s].list \in [K!PullIds -> PullRows]
  BY SyncFacts, PlaceOf DEF K!StartContest, K!Is
<1>2. UNCHANGED Setting /\ UNCHANGED <<check, posted, shown>>
  BY DEF K!StartContest, Setting
<1>3. /\ Moved(s, row) /\ row.at = "submit" /\ row.list = sync[s].list /\ row.todo = sync[s].todo
      /\ row.contest = c
  <2>1. c \in 0..MaxContest
    BY ChecksAssumption DEF K!Contests
  <2> QED
    BY <1>1, <2>1 DEF K!StartContest, K!Goes, Moved, SyncRows
<1> HIDE DEF row
<1>4. (K!Pull(s))' = p /\ (K!At(s))' = h
  BY <1>3, PlaceStays
<1>5. /\ contest \in [K!Contests -> Contested] /\ contest[c].state = "none" /\ contest[c].of = <<>>
      /\ \A b \in K!Contests : contest[b].state = "none" <=> contest[b].of = <<>>
  BY DEF K!StartContest, ChecksInv, ChecksTyped
<1>6. /\ contest' \in [K!Contests -> Contested]
      /\ contest'[c].state = "made" /\ contest'[c].of = <<p, h>>
      /\ \A b \in K!Contests : b # c => contest'[b] = contest[b]
  <2> DEFINE new == [state |-> "made", of |-> <<p, h>>]
  <2>1. new \in Contested /\ new.state = "made" /\ new.of = <<p, h>>
    BY <1>1 DEF Contested
  <2>2. contest' = [contest EXCEPT ![c] = new]
    BY DEF K!StartContest
  <2> HIDE DEF new, p, h
  <2> QED
    BY <1>5, <2>1, <2>2
<1>7. /\ K!Wanted(s) /\ content[p][h] # "block" /\ kept[p][h].there /\ kept[p][h].contest = 0
  BY DEF K!StartContest, K!Contestable
<1>8. /\ kept' \in [K!PullIds -> [K!Heads -> HeadRows]]
      /\ \A q \in K!PullIds, g \in K!Heads : /\ kept'[q][g].there = kept[q][g].there
                                             /\ kept'[q][g].contest = kept[q][g].contest
  <2> DEFINE new == [kept[p][h] EXCEPT !.skill = TRUE]
  <2>1. kept[p][h] \in HeadRows
    BY <1>1, SyncFacts
  <2>2. /\ new \in HeadRows /\ new.there = kept[p][h].there /\ new.contest = kept[p][h].contest
        /\ kept' = [kept EXCEPT ![p][h] = new]
    BY <2>1 DEF HeadRows, K!StartContest
  <2> HIDE DEF new, p, h
  <2>3. /\ kept' \in [K!PullIds -> [K!Heads -> HeadRows]]
        /\ \A q \in K!PullIds, g \in K!Heads :
             kept'[q][g] = IF q = p /\ g = h THEN new ELSE kept[q][g]
    BY <1>1, <2>2, SyncFacts, Cell
  <2> QED
    BY <2>2, <2>3
<1>9. \A b \in K!Contests : contest[b].of # <<>> => contest'[b].of = contest[b].of
  BY <1>5, <1>6
<1>10. \A b \in K!Contests : contest'[b].of = contest[b].of \/ (b = c /\ contest'[b].of = <<p, h>>)
  BY <1>6
<1> HIDE DEF p, h
<1>11. \A q \in K!PullIds, g \in K!Heads :
        /\ kept'[q][g].contest # 0 => contest'[kept'[q][g].contest].of = <<q, g>>
        /\ shown'[q][g] # "none" => posted'[q][g]
        /\ posted[q][g] => posted'[q][g]
  <2> SUFFICES ASSUME NEW q \in K!PullIds, NEW g \in K!Heads
               PROVE  /\ kept'[q][g].contest # 0 => contest'[kept'[q][g].contest].of = <<q, g>>
                      /\ shown'[q][g] # "none" => posted'[q][g]
                      /\ posted[q][g] => posted'[q][g]
    OBVIOUS
  <2>1. kept'[q][g].contest = kept[q][g].contest
    BY <1>8
  <2>2. ASSUME kept[q][g].contest # 0 PROVE contest'[kept[q][g].contest].of = <<q, g>>
    <3> DEFINE e == kept[q][g].contest
    <3>1. e \in K!Contests /\ contest[e].of = <<q, g>>
      BY <2>2, Names
    <3> HIDE DEF e
    <3>2. <<q, g>> # <<>>
      OBVIOUS
    <3>3. contest'[e].of = contest[e].of
      BY <1>9, <3>1, <3>2
    <3> QED
      BY <3>1, <3>3 DEF e
  <2>3. shown[q][g] # "none" => posted[q][g]
    BY Names
  <2> QED
    BY <1>2, <2>1, <2>2, <2>3
<1>12. ChecksTyped' /\ Followed'
  <2>1. \A b \in K!Contests : contest'[b].state = "none" <=> contest'[b].of = <<>>
    BY <1>5, <1>6
  <2>2. ChecksTyped'
    BY <1>2, <1>3, <1>6, <1>8, <2>1, MovedIs DEF ChecksInv, ChecksTyped, Setting
  <2>3. \A q \in K!PullIds, g \in K!Heads : kept'[q][g].contest # 0 => kept'[q][g].there
    BY <1>8, Names
  <2> QED
    BY <1>2, <2>2, <2>3 DEF ChecksInv, Followed, Setting
<1>13. SyncOK(s)'
  BY <1>1, <1>2, <1>3, <1>4, <1>6, MovedIs DEF SyncOK, InFlight, Setting
<1>14. K!ContestsAreAllowed'
  <2>1. listed[p].fork => p \in wanted
    BY <1>1, <1>7, WantedIsAsked DEF p
  <2>2. /\ contest'[c].of[1] = p /\ contest'[c].of[2] = h
    BY <1>6
  <2> QED
    BY <1>2, <1>6, <1>7, <2>1, <2>2 DEF ChecksInv, K!ContestsAreAllowed, Setting
<1>15. ASSUME Quiet PROVE QuietOK'
  <2>1. \A t \in Syncs : t # s => sync[t].at = "idle"
    BY <1>1, <1>15, Alone
  <2>2. \A b \in K!Contests, q \in K!PullIds, g \in K!Heads :
          contest[b].of = <<q, g>> => kept[q][g].contest = b
    BY <1>1, <1>15, AllNamed DEF InFlight
  <2>3. \A b \in K!Contests, q \in K!PullIds, g \in K!Heads :
          contest'[b].of = <<q, g>> => kept'[q][g].contest = b \/ b = c
    BY <1>8, <1>10, <2>2
  <2>4. kept'[p][h].there /\ kept'[p][h].contest = 0
    BY <1>1, <1>7, <1>8
  <2> QED
    BY <1>3, <1>4, <2>1, <2>3, <2>4, MovedIs DEF QuietOK, InFlight
<1>16. ASSUME happens = {} PROVE CalmOK'
  <2>1. CalmOK /\ \A t \in Syncs : t # s => sync[t].at = "idle"
    BY <1>1, <1>16, Alone, CalmIsQuiet DEF ChecksInv
  <2>2. \A q \in K!PullIds : listed[q].at \in K!Heads
    BY DEF ChecksInv, ChecksTyped, PullRows
  <2>3. \A q \in K!PullIds, g \in K!Heads : kept'[q][g].there = kept[q][g].there
    BY <1>8
  <2> QED
    BY <1>1, <1>2, <1>3, <2>1, <2>2, <2>3, MovedIs, SMTT(30) DEF CalmOK, Setting
<1>17. shown' \in [K!PullIds -> [K!Heads -> {"none", "running", "ended"}]]
  BY <1>2, SyncFacts
<1> QED
  BY <1>2, <1>3, <1>9, <1>11, <1>12, <1>13, <1>14, <1>15, <1>16, <1>17, StepKeeps

LEMMA SubmitKeeps ==
  ASSUME ChecksInv, NEW s \in Syncs, NEW queued \in BOOLEAN, K!Submit(s, queued)
  PROVE  ChecksInv'
<1> DEFINE c == sync[s].contest
           row == IF queued THEN [sync[s] EXCEPT !.at = "link"] ELSE K!IdleSync
<1>1. /\ sync[s] \in SyncRows /\ sync[s].at = "submit" /\ SyncOK(s) /\ sync \in [Syncs -> SyncRows]
      /\ K!Pull(s) \in K!PullIds /\ K!At(s) \in K!Heads /\ sync[s].todo # {}
      /\ sync[s].list \in [K!PullIds -> PullRows]
  BY SyncFacts, PlaceOf DEF K!Submit, K!Is
<1>2. UNCHANGED Setting /\ UNCHANGED <<check, kept, posted, shown>> /\ (queued \/ "fail" \in happens)
  BY DEF K!Submit, Setting
<1>3. /\ Moved(s, row)
      /\ queued => /\ row.at = "link" /\ row.list = sync[s].list /\ row.todo = sync[s].todo
                   /\ row.contest = c
      /\ ~queued => row.at = "idle"
  <2>1. CASE queued
    BY <1>1, <2>1 DEF K!Submit, K!Goes, Moved, SyncRows
  <2>2. CASE ~queued
    BY <1>1, <2>2, IdleRow DEF K!Submit, Moved
  <2> QED
    BY <2>1, <2>2
<1> HIDE DEF row
<1>4. queued => (K!Pull(s))' = K!Pull(s) /\ (K!At(s))' = K!At(s)
  BY <1>3, PlaceStays
<1>5. /\ contest \in [K!Contests -> Contested] /\ c \in K!Contests
      /\ contest[c].of = <<K!Pull(s), K!At(s)>>
      /\ \A b \in K!Contests : contest[b].state = "none" <=> contest[b].of = <<>>
  BY <1>1 DEF SyncOK, InFlight, ChecksInv, ChecksTyped
<1>6. /\ contest' \in [K!Contests -> Contested]
      /\ \A b \in K!Contests : /\ contest'[b].of = contest[b].of
                               /\ contest'[b].state = "none" <=> contest[b].state = "none"
  <2> DEFINE new == [contest[c] EXCEPT !.state = IF queued THEN "queued" ELSE "ended"]
  <2>1. contest[c].state # "none"
    BY <1>5
  <2>2. new \in Contested /\ new.of = contest[c].of /\ new.state # "none"
    BY <1>5 DEF Contested
  <2>3. contest' = [contest EXCEPT ![c] = new]
    BY <1>5 DEF K!Submit, Contested
  <2> HIDE DEF new, c
  <2> QED
    BY <1>5, <2>1, <2>2, <2>3
<1>7. \A q \in K!PullIds, g \in K!Heads :
        /\ kept'[q][g].contest # 0 => contest'[kept'[q][g].contest].of = <<q, g>>
        /\ shown'[q][g] # "none" => posted'[q][g]
        /\ posted[q][g] => posted'[q][g]
  <2> SUFFICES ASSUME NEW q \in K!PullIds, NEW g \in K!Heads
               PROVE  kept[q][g].contest # 0 => contest'[kept[q][g].contest].of = <<q, g>>
    BY <1>2, Names
  <2> DEFINE e == kept[q][g].contest
  <2>1. e # 0 => e \in K!Contests /\ contest[e].of = <<q, g>>
    BY Names
  <2> HIDE DEF e
  <2> QED
    BY <1>6, <2>1 DEF e
<1>8. ChecksTyped' /\ Followed'
  <2>1. \A b \in K!Contests : contest'[b].state = "none" <=> contest'[b].of = <<>>
    BY <1>5, <1>6
  <2>2. ChecksTyped'
    BY <1>2, <1>3, <1>6, <2>1, MovedIs DEF ChecksInv, ChecksTyped, Setting
  <2> QED
    BY <1>2, <2>2 DEF ChecksInv, Followed, Setting
<1>9. SyncOK(s)'
  BY <1>1, <1>2, <1>3, <1>4, <1>5, <1>6, MovedIs DEF SyncOK, InFlight, Setting
<1>10. K!ContestsAreAllowed'
  BY <1>2, <1>6 DEF ChecksInv, K!ContestsAreAllowed, Setting
<1>11. ASSUME Quiet PROVE QuietOK'
  <2>1. QuietOK /\ (\A t \in Syncs : t # s => sync[t].at = "idle") /\ queued
    BY <1>1, <1>2, <1>11, Alone DEF ChecksInv, Quiet
  <2> QED
    BY <1>1, <1>2, <1>3, <1>4, <1>6, <2>1, MovedIs DEF QuietOK, InFlight
<1>12. ASSUME happens = {} PROVE CalmOK'
  <2>1. CalmOK /\ (\A t \in Syncs : t # s => sync[t].at = "idle") /\ queued
    BY <1>1, <1>2, <1>12, Alone, CalmIsQuiet DEF ChecksInv
  <2> QED
    BY <1>1, <1>2, <1>3, <2>1, MovedIs DEF CalmOK, Setting
<1>13. shown' \in [K!PullIds -> [K!Heads -> {"none", "running", "ended"}]]
  BY <1>2, SyncFacts
<1> HIDE DEF c
<1> QED
  BY <1>2, <1>3, <1>6, <1>7, <1>8, <1>9, <1>10, <1>11, <1>12, <1>13, StepKeeps

LEMMA LinkKeeps ==
  ASSUME ChecksInv, NEW s \in Syncs, K!Link(s)
  PROVE  ChecksInv'
<1> DEFINE p == K!Pull(s)
           h == K!At(s)
           c == sync[s].contest
           row == [sync[s] EXCEPT !.at = "report"]
<1>1. /\ sync[s] \in SyncRows /\ sync[s].at = "link" /\ SyncOK(s) /\ sync \in [Syncs -> SyncRows]
      /\ p \in K!PullIds /\ h \in K!Heads /\ sync[s].todo # {}
      /\ sync[s].list \in [K!PullIds -> PullRows]
  BY SyncFacts, PlaceOf DEF K!Link, K!Is
<1>2. UNCHANGED Setting /\ UNCHANGED <<check, contest, posted, shown>>
  BY DEF K!Link, Setting
<1>3. Moved(s, row) /\ row.at = "report" /\ row.list = sync[s].list /\ row.todo = sync[s].todo
  BY <1>1 DEF K!Link, K!Goes, Moved, SyncRows
<1> HIDE DEF row
<1>4. c \in K!Contests /\ contest[c].of = <<p, h>> /\ c \in 0..MaxContest /\ c # 0
  <2>1. c \in K!Contests /\ contest[c].of = <<p, h>>
    BY <1>1 DEF SyncOK, InFlight
  <2> QED
    BY <2>1, ChecksAssumption DEF K!Contests
<1>5. /\ kept' \in [K!PullIds -> [K!Heads -> HeadRows]]
      /\ \A q \in K!PullIds, g \in K!Heads :
           /\ kept'[q][g].there = kept[q][g].there
           /\ kept'[q][g].contest = IF q = p /\ g = h /\ kept[p][h].there THEN c ELSE kept[q][g].contest
  <2> DEFINE new == [kept[p][h] EXCEPT !.contest = c]
  <2>1. kept[p][h] \in HeadRows
    BY <1>1, SyncFacts
  <2>2. /\ new \in HeadRows /\ new.there = kept[p][h].there /\ new.contest = c
        /\ kept' = IF kept[p][h].there THEN [kept EXCEPT ![p][h] = new] ELSE kept
    BY <1>4, <2>1 DEF HeadRows, K!Link
  <2> HIDE DEF new, p, h, c
  <2> QED
    BY <1>1, <2>2, SyncFacts, Cell
<1> HIDE DEF p, h, c
<1>6. \A q \in K!PullIds, g \in K!Heads :
        /\ kept'[q][g].contest # 0 => contest'[kept'[q][g].contest].of = <<q, g>>
        /\ shown'[q][g] # "none" => posted'[q][g]
        /\ posted[q][g] => posted'[q][g]
  <2> SUFFICES ASSUME NEW q \in K!PullIds, NEW g \in K!Heads
               PROVE  kept'[q][g].contest # 0 => contest[kept'[q][g].contest].of = <<q, g>>
    BY <1>2, Names
  <2>1. kept'[q][g].contest = IF q = p /\ g = h /\ kept[p][h].there THEN c ELSE kept[q][g].contest
    BY <1>5
  <2>2. CASE q = p /\ g = h /\ kept[p][h].there
    BY <1>4, <2>1, <2>2
  <2>3. CASE kept'[q][g].contest = kept[q][g].contest
    BY <2>3, Names
  <2> QED
    BY <2>1, <2>2, <2>3
<1>7. ChecksTyped' /\ Followed'
  <2>1. ChecksTyped'
    BY <1>2, <1>3, <1>5, MovedIs DEF ChecksInv, ChecksTyped, Setting
  <2>2. \A q \in K!PullIds, g \in K!Heads : kept'[q][g].contest # 0 => kept'[q][g].there
    BY <1>5, Names
  <2> QED
    BY <1>2, <2>1, <2>2 DEF ChecksInv, Followed, Setting
<1>8. SyncOK(s)'
  BY <1>1, <1>2, <1>3, MovedIs DEF SyncOK, InFlight, Setting
<1>9. K!ContestsAreAllowed'
  BY <1>2 DEF ChecksInv, K!ContestsAreAllowed, Setting
<1>10. ASSUME Quiet PROVE QuietOK'
  <2>1. QuietOK /\ \A t \in Syncs : t # s => sync[t].at = "idle"
    BY <1>1, <1>10, Alone DEF ChecksInv
  <2>2. kept[p][h].there /\ kept[p][h].contest = 0
    BY <1>1, <2>1 DEF QuietOK, InFlight, p, h
  <2>3. \A b \in K!Contests, q \in K!PullIds, g \in K!Heads :
          contest[b].of = <<q, g>> => kept[q][g].contest = b \/ b = c
    BY <2>1 DEF QuietOK, InFlight, c
  <2>4. \A b \in K!Contests, q \in K!PullIds, g \in K!Heads :
          contest[b].of = <<q, g>> => kept'[q][g].contest = b
    <3> SUFFICES ASSUME NEW b \in K!Contests, NEW q \in K!PullIds, NEW g \in K!Heads,
                        contest[b].of = <<q, g>>
                 PROVE  kept'[q][g].contest = b
      OBVIOUS
    <3>1. b # 0
      BY DEF K!Contests
    <3> QED
      BY <1>4, <1>5, <2>2, <2>3, <3>1
  <2> QED
    BY <1>1, <1>2, <1>3, <2>1, <2>4, MovedIs DEF QuietOK, InFlight
<1>11. ASSUME happens = {} PROVE CalmOK'
  <2>1. CalmOK /\ \A t \in Syncs : t # s => sync[t].at = "idle"
    BY <1>1, <1>11, Alone, CalmIsQuiet DEF ChecksInv
  <2>2. \A q \in K!PullIds : listed[q].at \in K!Heads
    BY DEF ChecksInv, ChecksTyped, PullRows
  <2>3. \A q \in K!PullIds, g \in K!Heads : kept'[q][g].there = kept[q][g].there
    BY <1>5
  <2> QED
    BY <1>1, <1>2, <1>3, <2>1, <2>2, <2>3, MovedIs, SMTT(30) DEF CalmOK, Setting
<1>12. shown' \in [K!PullIds -> [K!Heads -> {"none", "running", "ended"}]]
  BY <1>2, SyncFacts
<1> QED
  BY <1>2, <1>3, <1>6, <1>7, <1>8, <1>9, <1>10, <1>11, <1>12, StepKeeps

LEMMA ReportKeeps ==
  ASSUME ChecksInv, NEW s \in Syncs, K!Report(s)
  PROVE  ChecksInv'
<1> DEFINE p == K!Pull(s)
           h == K!At(s)
<1>1. /\ sync[s] \in SyncRows /\ sync[s].at = "report" /\ SyncOK(s) /\ sync \in [Syncs -> SyncRows]
      /\ p \in K!PullIds /\ h \in K!Heads /\ sync[s].todo # {}
      /\ sync[s].list \in [K!PullIds -> PullRows]
  BY SyncFacts, PlaceOf DEF K!Report, K!Is
<1>2. UNCHANGED Setting /\ UNCHANGED <<check, contest, posted, shown>>
  BY DEF K!Report, Setting
<1>3. CASE sync' = K!NextPull(s) /\ UNCHANGED kept
  <2>1. PICK row : /\ Moved(s, row) /\ row.list = sync[s].list
                   /\ row.at \in {"check", "drop"} /\ (row.todo # {} \/ row.at = "drop")
    BY <1>1, <1>3, NextPullIs
  <2>2. ~InFlight(s)
    BY <1>1 DEF InFlight
  <2> QED
    BY <1>1, <1>2, <1>3, <2>1, <2>2, SyncGoesOn
<1>4. CASE /\ kept' = [kept EXCEPT ![p][h] = K!News(p, h)]
           /\ sync' = [K!Goes(s, "update") EXCEPT ![s].contest = kept[p][h].contest,
                                                  ![s].run = K!Ended(kept[p][h].contest)]
  <2> DEFINE row == [sync[s] EXCEPT !.at = "update", !.contest = kept[p][h].contest,
                                    !.run = K!Ended(kept[p][h].contest)]
  <2>1. kept[p][h] \in HeadRows /\ kept[p][h].contest \in 0..MaxContest
    BY <1>1, SyncFacts DEF HeadRows
  <2>2. /\ Moved(s, row) /\ row.at = "update" /\ row.list = sync[s].list /\ row.todo = sync[s].todo
    <3>1. K!Ended(kept[p][h].contest) \in BOOLEAN
      BY DEF K!Ended
    <3>2. row \in SyncRows
      BY <1>1, <2>1, <3>1, RowMoves, Zenon
    <3>3. row.at = "update" /\ row.list = sync[s].list /\ row.todo = sync[s].todo
      BY <1>1 DEF SyncRows
    <3>4. sync' = [sync EXCEPT ![s] = row]
      BY <1>1, <1>4 DEF K!Goes
    <3> HIDE DEF row
    <3> QED
      BY <3>2, <3>3, <3>4 DEF Moved
  <2> HIDE DEF row
  <2>3. /\ kept' \in [K!PullIds -> [K!Heads -> HeadRows]]
        /\ \A q \in K!PullIds, g \in K!Heads : /\ kept'[q][g].there = kept[q][g].there
                                               /\ kept'[q][g].contest = kept[q][g].contest
    <3> DEFINE new == K!News(p, h)
    <3>1. K!Ended(kept[p][h].contest) \in BOOLEAN /\ kept[p][h].reported \in BOOLEAN
      BY <2>1 DEF K!Ended, HeadRows
    <3>2. (kept[p][h].reported \/ K!Ended(kept[p][h].contest)) \in BOOLEAN
      OBVIOUS
    <3>3. new \in HeadRows /\ new.there = kept[p][h].there /\ new.contest = kept[p][h].contest
      BY <2>1, <3>2 DEF HeadRows, K!News
    <3> HIDE DEF new, p, h
    <3>4. /\ kept' \in [K!PullIds -> [K!Heads -> HeadRows]]
          /\ \A q \in K!PullIds, g \in K!Heads :
               kept'[q][g] = IF q = p /\ g = h THEN new ELSE kept[q][g]
      BY <1>1, <1>4, <3>3, SyncFacts, Cell DEF new
    <3> QED
      BY <3>3, <3>4
  <2> HIDE DEF p, h
  <2>4. ChecksTyped' /\ Followed'
    <3>1. ChecksTyped'
      BY <1>2, <2>2, <2>3, MovedIs DEF ChecksInv, ChecksTyped, Setting
    <3>2. \A q \in K!PullIds, g \in K!Heads : kept'[q][g].contest # 0 => kept'[q][g].there
      BY <2>3, Names
    <3> QED
      BY <1>2, <3>1, <3>2 DEF ChecksInv, Followed, Setting
  <2>5. SyncOK(s)'
    BY <1>1, <1>2, <2>2, MovedIs DEF SyncOK, InFlight, Setting
  <2>6. K!ContestsAreAllowed'
    BY <1>2 DEF ChecksInv, K!ContestsAreAllowed, Setting
  <2>7. ASSUME Quiet PROVE QuietOK'
    <3>1. QuietOK /\ \A t \in Syncs : t # s => sync[t].at = "idle"
      BY <1>1, <2>7, Alone DEF ChecksInv
    <3>2. \A b \in K!Contests, q \in K!PullIds, g \in K!Heads :
            contest'[b].of = <<q, g>> => kept'[q][g].contest = b
      BY <1>1, <1>2, <2>3, <2>7, AllNamed DEF InFlight
    <3> QED
      BY <1>2, <2>2, <3>1, <3>2, MovedIs DEF QuietOK, InFlight
  <2>8. ASSUME happens = {} PROVE CalmOK'
    <3>1. CalmOK /\ \A t \in Syncs : t # s => sync[t].at = "idle"
      BY <1>1, <2>8, Alone, CalmIsQuiet DEF ChecksInv
    <3>2. \A q \in K!PullIds : listed[q].at \in K!Heads
      BY DEF ChecksInv, ChecksTyped, PullRows
    <3>3. \A q \in K!PullIds, g \in K!Heads : kept'[q][g].there = kept[q][g].there
      BY <2>3
    <3> QED
      BY <1>1, <1>2, <2>2, <3>1, <3>2, <3>3, MovedIs, SMTT(30) DEF CalmOK, Setting
  <2>9. \A q \in K!PullIds, g \in K!Heads :
          /\ kept'[q][g].contest # 0 => contest'[kept'[q][g].contest].of = <<q, g>>
          /\ shown'[q][g] # "none" => posted'[q][g]
          /\ posted[q][g] => posted'[q][g]
    <3> SUFFICES ASSUME NEW q \in K!PullIds, NEW g \in K!Heads
                 PROVE  kept'[q][g].contest # 0 => contest[kept'[q][g].contest].of = <<q, g>>
      BY <1>2, Names
    <3>1. kept'[q][g].contest = kept[q][g].contest
      BY <2>3
    <3> QED
      BY <3>1, Names
  <2> QED
    BY <1>2, <2>2, <2>4, <2>5, <2>6, <2>7, <2>8, <2>9, SyncFacts, StepKeeps
<1> QED
  BY <1>3, <1>4 DEF K!Report

LEMMA UpdateKeeps ==
  ASSUME ChecksInv, NEW s \in Syncs, NEW outcome \in {"ok", "unreachable", "error"},
         K!Update(s, outcome)
  PROVE  ChecksInv'
<1> DEFINE p == K!Pull(s)
           h == K!At(s)
<1>1. /\ sync[s] \in SyncRows /\ sync[s].at = "update" /\ SyncOK(s) /\ sync \in [Syncs -> SyncRows]
      /\ p \in K!PullIds /\ h \in K!Heads /\ sync[s].todo # {}
      /\ sync[s].list \in [K!PullIds -> PullRows]
  BY SyncFacts, PlaceOf DEF K!Update, K!Is
<1>2. UNCHANGED Setting /\ UNCHANGED <<check, kept, contest, posted>>
  BY DEF K!Update, Setting
<1>3. /\ shown' \in [K!PullIds -> [K!Heads -> {"none", "running", "ended"}]]
      /\ \A q \in K!PullIds, g \in K!Heads : shown'[q][g] # "none" => posted[q][g]
  <2> DEFINE new == IF sync[s].run THEN "ended" ELSE "running"
  <2>1. shown' = IF K!HasRun(p, h) /\ outcome = "ok" THEN [shown EXCEPT ![p][h] = new] ELSE shown
    BY DEF K!Update
  <2>2. K!HasRun(p, h) => posted[p][h]
    BY <1>1 DEF ChecksInv, Followed, K!HasRun
  <2>3. new \in {"none", "running", "ended"}
    OBVIOUS
  <2> HIDE DEF p, h, new
  <2>4. CASE shown' = shown
    BY <2>4, SyncFacts, Names
  <2>5. CASE K!HasRun(p, h) /\ shown' = [shown EXCEPT ![p][h] = new]
    <3>1. /\ shown' \in [K!PullIds -> [K!Heads -> {"none", "running", "ended"}]]
          /\ \A q \in K!PullIds, g \in K!Heads :
               shown'[q][g] = IF q = p /\ g = h THEN new ELSE shown[q][g]
      BY <1>1, <2>3, <2>5, SyncFacts, Cell
    <3> QED
      BY <2>2, <2>5, <3>1, Names
  <2> QED
    BY <2>1, <2>4, <2>5
<1>4. PICK row : /\ Moved(s, row) /\ row.at \in {"idle", "check", "drop"}
                 /\ row.at # "idle" => row.list = sync[s].list
                 /\ row.at = "check" => row.todo # {}
  <2>1. CASE sync' = [sync EXCEPT ![s] = K!IdleSync]
    BY <2>1, IdleRow DEF Moved
  <2>2. CASE sync' = K!NextPull(s)
    BY <1>1, <2>2, NextPullIs
  <2> QED
    BY <2>1, <2>2 DEF K!Update
<1> HIDE DEF p, h
<1>5. ChecksTyped' /\ Followed'
  BY <1>2, <1>4, MovedIs DEF ChecksInv, ChecksTyped, Followed, Setting
<1>6. SyncOK(s)'
  BY <1>1, <1>2, <1>4, MovedIs DEF SyncOK, InFlight, Setting
<1>7. K!ContestsAreAllowed'
  BY <1>2 DEF ChecksInv, K!ContestsAreAllowed, Setting
<1>8. ASSUME Quiet PROVE QuietOK'
  <2>1. QuietOK /\ \A t \in Syncs : t # s => sync[t].at = "idle"
    BY <1>1, <1>8, Alone DEF ChecksInv
  <2> QED
    BY <1>1, <1>2, <1>4, <2>1, MovedIs DEF QuietOK, InFlight
<1>9. ASSUME happens = {} PROVE CalmOK'
  <2>1. CalmOK /\ \A t \in Syncs : t # s => sync[t].at = "idle"
    BY <1>1, <1>9, Alone, CalmIsQuiet DEF ChecksInv
  <2> QED
    BY <1>1, <1>2, <1>4, <2>1, MovedIs DEF CalmOK, Setting
<1>10. \A q \in K!PullIds, g \in K!Heads :
        /\ kept'[q][g].contest # 0 => contest'[kept'[q][g].contest].of = <<q, g>>
        /\ shown'[q][g] # "none" => posted'[q][g]
        /\ posted[q][g] => posted'[q][g]
  BY <1>2, <1>3, Names
<1> QED
  BY <1>2, <1>3, <1>4, <1>5, <1>6, <1>7, <1>8, <1>9, <1>10, StepKeeps

(* A sync that drops, alone, finds no head that a contest has.               *)
LEMMA StaleIsFree ==
  ASSUME ChecksInv, Quiet, NEW s \in Syncs, sync[s].at = "drop"
  PROVE  \A x \in K!Stale(s) : ~K!Referenced(x)
<1> SUFFICES ASSUME NEW x \in K!Stale(s), NEW c \in K!Contests, contest[c].of = x PROVE FALSE
  BY DEF K!Referenced
<1>1. PICK q \in K!PullIds, g \in K!Heads : x = <<q, g>> /\ kept[q][g].contest = 0
  BY DEF K!Stale
<1>2. kept[q][g].contest = c
  BY <1>1, AllNamed DEF InFlight
<1> QED
  BY <1>1, <1>2 DEF K!Contests

LEMMA DropKeeps ==
  ASSUME ChecksInv, NEW s \in Syncs, K!Drop(s)
  PROVE  ChecksInv'
<1>1. /\ sync[s] \in SyncRows /\ sync[s].at = "drop" /\ SyncOK(s) /\ sync \in [Syncs -> SyncRows]
  BY SyncFacts DEF K!Drop, K!Is
<1>2. UNCHANGED Setting /\ UNCHANGED <<contest, posted, shown>>
  BY DEF K!Drop, Setting
<1>3. PICK row : Moved(s, row) /\ row.at = "idle"
  BY IdleRow DEF K!Drop, Moved
<1>4. PICK gone \in SUBSET {x \in K!Stale(s) : ~K!Referenced(x)} :
        /\ gone = K!Stale(s) \/ \E x \in K!Stale(s) : K!Referenced(x)
        /\ kept' = [q \in K!PullIds |-> [g \in K!Heads |->
                      IF <<q, g>> \in gone THEN K!NoHead ELSE kept[q][g]]]
        /\ check' = IF gone # K!Stale(s) THEN check
                    ELSE [q \in K!PullIds |-> IF sync[s].list[q].open THEN check[q]
                                              ELSE [g \in K!Heads |-> K!NoCheck]]
  BY DEF K!Drop
<1>5. /\ K!NoHead \in HeadRows /\ K!NoHead.contest = 0
      /\ K!NoCheck \in CheckRows /\ ~K!NoCheck.there /\ ~K!NoCheck.requested /\ ~K!NoCheck.run
  BY ChecksAssumption DEF K!NoHead, K!NoCheck, HeadRows, CheckRows
<1>6. /\ kept' \in [K!PullIds -> [K!Heads -> HeadRows]]
      /\ \A q \in K!PullIds, g \in K!Heads :
           /\ kept'[q][g] = IF <<q, g>> \in gone THEN K!NoHead ELSE kept[q][g]
           /\ <<q, g>> \in gone => kept[q][g].contest = 0
           /\ kept'[q][g].contest = kept[q][g].contest
  <2>1. /\ kept' \in [K!PullIds -> [K!Heads -> HeadRows]]
        /\ \A q \in K!PullIds, g \in K!Heads :
             kept'[q][g] = IF <<q, g>> \in gone THEN K!NoHead ELSE kept[q][g]
    BY <1>4, <1>5, SyncFacts
  <2>2. \A q \in K!PullIds, g \in K!Heads : <<q, g>> \in gone => kept[q][g].contest = 0
    BY <1>4, Zenon DEF K!Stale
  <2> QED
    BY <1>5, <2>1, <2>2
<1>7. /\ check' \in [K!PullIds -> [K!Heads -> CheckRows]]
      /\ \A q \in K!PullIds, g \in K!Heads : \/ check'[q][g] = check[q][g]
                                             \/ check'[q][g] = K!NoCheck
      /\ gone = K!Stale(s) => \A q \in K!PullIds, g \in K!Heads :
           ~sync[s].list[q].open => check'[q][g] = K!NoCheck
  <2>1. CASE check' = check /\ gone # K!Stale(s)
    BY <2>1, SyncFacts
  <2>2. CASE check' = [q \in K!PullIds |-> IF sync[s].list[q].open THEN check[q]
                                           ELSE [g \in K!Heads |-> K!NoCheck]]
    BY <1>5, <2>2, SyncFacts
  <2> QED
    BY <1>4, <2>1, <2>2
<1>8. ChecksTyped' /\ Followed'
  <2>1. ChecksTyped'
    BY <1>2, <1>3, <1>6, <1>7, MovedIs DEF ChecksInv, ChecksTyped, Setting
  <2>2. \A q \in K!PullIds, g \in K!Heads : /\ kept'[q][g].contest # 0 => kept'[q][g].there
                                            /\ check'[q][g].requested => check[q][g].requested
                                            /\ check'[q][g].run => check[q][g].run
    <3> SUFFICES ASSUME NEW q \in K!PullIds, NEW g \in K!Heads
                 PROVE  /\ kept'[q][g].contest # 0 => kept'[q][g].there
                        /\ check'[q][g].requested => check[q][g].requested
                        /\ check'[q][g].run => check[q][g].run
      OBVIOUS
    <3>1. kept'[q][g].contest # 0 => kept'[q][g] = kept[q][g] /\ kept[q][g].there
      <4>1. kept'[q][g] = IF <<q, g>> \in gone THEN K!NoHead ELSE kept[q][g]
        BY <1>6
      <4>2. kept[q][g].contest # 0 => kept[q][g].there
        BY Names
      <4> QED
        BY <1>5, <4>1, <4>2
    <3>2. check'[q][g] = check[q][g] \/ check'[q][g] = K!NoCheck
      BY <1>7
    <3> QED
      BY <1>5, <3>1, <3>2
  <2> QED
    BY <1>2, <2>1, <2>2 DEF ChecksInv, Followed, Setting
<1>9. SyncOK(s)'
  BY <1>3, MovedIs DEF SyncOK, InFlight
<1>10. K!ContestsAreAllowed'
  BY <1>2 DEF ChecksInv, K!ContestsAreAllowed, Setting
<1>11. ASSUME Quiet PROVE QuietOK'
  <2>1. QuietOK /\ \A t \in Syncs : t # s => sync[t].at = "idle"
    BY <1>1, <1>11, Alone DEF ChecksInv
  <2>2. \A b \in K!Contests, q \in K!PullIds, g \in K!Heads :
          contest'[b].of = <<q, g>> => kept'[q][g].contest = b
    <3>1. \A b \in K!Contests, q \in K!PullIds, g \in K!Heads :
            contest[b].of = <<q, g>> => kept[q][g].contest = b
      BY <1>1, <1>11, AllNamed DEF InFlight
    <3>2. \A q \in K!PullIds, g \in K!Heads : kept'[q][g].contest = kept[q][g].contest
      BY <1>6
    <3> QED
      BY <1>2, <3>1, <3>2
  <2> QED
    BY <1>2, <1>3, <2>1, <2>2, MovedIs DEF QuietOK, InFlight
<1>12. ASSUME happens = {} PROVE CalmOK'
  <2>1. CalmOK /\ \A t \in Syncs : t # s => sync[t].at = "idle"
    BY <1>1, <1>12, Alone, CalmIsQuiet DEF ChecksInv
  <2>2. \A q \in K!PullIds, g \in K!Heads : check'[q][g].there => check[q][g].there
    BY <1>5, <1>7
  <2>3. gone = K!Stale(s)
    BY <1>1, <1>4, <1>12, CalmIsQuiet, StaleIsFree
  <2>4. \A q \in K!PullIds : LET g == listed[q].at IN
          check'[q][g].there /\ content[q][g] # "none" => kept'[q][g].there
    <3> SUFFICES ASSUME NEW q \in K!PullIds, NEW g \in K!Heads, g = listed[q].at,
                        check'[q][g].there, content[q][g] # "none"
                 PROVE  kept'[q][g].there
      BY DEF ChecksInv, ChecksTyped, PullRows
    <3>1. kept[q][g].there /\ check[q][g].there
      BY <2>1, <2>2 DEF CalmOK
    <3>2. sync[s].list[q].at = g
      <4>1. g <= sync[s].list[q].at /\ sync[s].list[q].at <= g
        BY <1>1, <2>1, <3>1 DEF CalmOK
      <4>2. g \in Nat /\ sync[s].list[q].at \in Nat
        <5>1. sync[s].list[q] \in PullRows
          BY <1>1 DEF SyncOK
        <5> QED
          BY <5>1 DEF PullRows, K!Heads
      <4> QED
        BY <4>1, <4>2
    <3>3. sync[s].list[q].open
      BY <1>5, <1>7, <2>3
    <3>4. <<q, g>> \notin gone
      BY <2>3, <3>2, <3>3 DEF K!Stale
    <3> QED
      BY <1>6, <3>1, <3>4
  <2>5. \A q \in K!PullIds, g \in K!Heads : check'[q][g].there => g <= listed[q].at
    BY <2>1, <2>2 DEF CalmOK
  <2> QED
    BY <1>2, <1>3, <2>1, <2>4, <2>5, MovedIs DEF CalmOK, Setting
<1>13. \A q \in K!PullIds, g \in K!Heads :
        /\ kept'[q][g].contest # 0 => contest'[kept'[q][g].contest].of = <<q, g>>
        /\ shown'[q][g] # "none" => posted'[q][g]
        /\ posted[q][g] => posted'[q][g]
  <2> SUFFICES ASSUME NEW q \in K!PullIds, NEW g \in K!Heads
               PROVE  kept'[q][g].contest # 0 => contest[kept'[q][g].contest].of = <<q, g>>
    BY <1>2, Names
  <2>1. kept'[q][g].contest = kept[q][g].contest
    BY <1>6
  <2> QED
    BY <2>1, Names
<1>14. /\ shown' \in [K!PullIds -> [K!Heads -> {"none", "running", "ended"}]]
       /\ \A c \in K!Contests : contest'[c].of = contest[c].of
  BY <1>2, SyncFacts
<1> QED
  <2>1. \A c \in K!Contests : contest[c].of # <<>> => contest'[c].of = contest[c].of
    BY <1>14
  <2>2. (Quiet => QuietOK') /\ (happens = {} => CalmOK')
    BY <1>11, <1>12
  <2> QED
    BY <1>2, <1>3, <1>8, <1>9, <1>10, <1>13, <1>14, <2>1, <2>2, StepKeeps

-----------------------------------------------------------------------------
LEMMA ChecksKept ==
  ASSUME ChecksInv, [GitNext]_every
  PROVE  ChecksInv'
<1>1. CASE UNCHANGED kVars
  <2>1. UNCHANGED <<happens, mode, content, listed, check, kept, contest, posted, shown, wanted, sync>>
    BY <1>1 DEF kVars
  <2>2. \A s \in Syncs : (K!Pull(s))' = K!Pull(s) /\ (K!At(s))' = K!At(s)
    BY <2>1, SamePlace
  <2>3. K!TypeOK' /\ ChecksTyped' /\ Followed' /\ K!ContestsAreAllowed'
    <3>1. ChecksTyped' /\ Followed'
      BY <2>1 DEF ChecksInv, ChecksTyped, Followed
    <3>2. K!TypeOK'
      BY <2>1 DEF ChecksInv, K!TypeOK
    <3>3. K!ContestsAreAllowed'
      BY <2>1 DEF ChecksInv, K!ContestsAreAllowed
    <3> QED
      BY <3>1, <3>2, <3>3
  <2>4. \A s \in Syncs : SyncOK(s)'
    BY <2>1, <2>2 DEF ChecksInv, SyncOK, InFlight
  <2>5. (Quiet => QuietOK') /\ (happens = {} => CalmOK')
    BY <2>1, <2>2 DEF ChecksInv, QuietOK, CalmOK, InFlight
  <2> QED
    BY <2>1, <2>3, <2>4, <2>5 DEF ChecksInv, Quiet
<1>2. CASE K!Next
  <2>1. ASSUME NEW p \in K!PullIds,
               \/ K!CloseOrReopen(p) \/ K!MarkReady(p) \/ K!Label(p) \/ K!ReleaseSkill(p)
               \/ \E h \in K!Heads : K!Push(p, h) \/ K!RequestContest(p, h)
        PROVE  ChecksInv'
    BY <2>1, PullsMove, RequestKeeps
  <2>2. ASSUME NEW c \in K!Contests, K!EndContest(c) PROVE ChecksInv'
    BY <2>2, EndKeeps
  <2>3. ASSUME NEW s \in Syncs, K!Step(s) PROVE ChecksInv'
    BY <2>3, ListKeeps, CheckKeeps, RecordKeeps, NoContestKeeps, LinkKeeps, ReportKeeps, DropKeeps,
       PostKeeps, StartKeeps, SubmitKeeps, UpdateKeeps DEF K!Step
  <2>4. ASSUME NEW s \in Syncs, K!Stop(s) PROVE ChecksInv'
    BY <2>4, StopKeeps
  <2> QED
    BY <1>2, <2>1, <2>2, <2>3, <2>4 DEF K!Next
<1> QED
  BY <1>1, <1>2 DEF GitNext, Changes, Sync, Checks, App, every

(* The invariant of the checks of pull requests (gitsync/pulls.go): a row's  *)
(* names and times agree, what a sync under way holds is true, and where no  *)
(* sync overlaps or fails each contest is the one its head names or will.    *)
THEOREM ChecksInvariant == GitSpec => []ChecksInv
<1>1. GitInit => ChecksInv
  BY ChecksInit
<1>2. ChecksInv /\ [GitNext]_every => ChecksInv'
  BY ChecksKept
<1> QED
  BY <1>1, <1>2, PTL DEF GitSpec

(* For every number of pull requests, heads, syncs and contests: a head has  *)
(* one contest at most where nothing overlaps, fails or comes back, no fork  *)
(* and no blocked head has one unasked, the head people see keeps what a     *)
(* request needs, and what a contest has is not dropped (gitsync/pulls.go).  *)
THEOREM ChecksStayCovered == GitSpec => []ChecksCoverTheHead
<1>1. ChecksInv => ChecksCoverTheHead
  <2> SUFFICES ASSUME ChecksInv PROVE ChecksCoverTheHead
    OBVIOUS
  <2>1. K!OncePerHead
    <3> SUFFICES ASSUME happens = {}, NEW p \in K!PullIds, NEW h \in K!Heads,
                        NEW b \in K!Contests, NEW c \in K!Contests,
                        contest[b].of = <<p, h>>, contest[c].of = <<p, h>>
                 PROVE  b = c
      BY DEF K!OncePerHead
    <3>1. QuietOK
      BY CalmIsQuiet DEF ChecksInv
    <3>2. b # 0 /\ c # 0
      BY DEF K!Contests
    <3>3. CASE kept[p][h].contest = b /\ kept[p][h].contest = c
      BY <3>3
    <3>4. CASE \E s \in Syncs : InFlight(s) /\ sync[s].contest \in {b, c}
      <4>1. PICK s \in Syncs : InFlight(s) /\ sync[s].contest \in {b, c}
        BY <3>4
      <4>2. contest[sync[s].contest].of = <<K!Pull(s), K!At(s)>>
        BY <4>1, SyncFacts DEF SyncOK
      <4>3. K!Pull(s) = p /\ K!At(s) = h
        BY <4>1, <4>2
      <4>4. kept[p][h].contest = 0
        BY <3>1, <4>1, <4>3 DEF QuietOK
      <4>5. \E t \in Syncs : InFlight(t) /\ sync[t].contest = b
        BY <3>1, <3>2, <4>4 DEF QuietOK
      <4>6. \E t \in Syncs : InFlight(t) /\ sync[t].contest = c
        BY <3>1, <3>2, <4>4 DEF QuietOK
      <4> QED
        BY <3>1, <4>5, <4>6 DEF QuietOK, InFlight
    <3> QED
      BY <3>1, <3>3, <3>4 DEF QuietOK
  <2>2. K!CheckedHeadIsKept
    BY DEF ChecksInv, CalmOK, K!CheckedHeadIsKept
  <2>3. K!DropsUnreferencedQuietly
    BY StaleIsFree DEF K!DropsUnreferencedQuietly, K!DropsUnreferenced, K!Is, Quiet
  <2> QED
    BY <2>1, <2>2, <2>3 DEF ChecksCoverTheHead, ChecksInv
<1> QED
  BY <1>1, ChecksInvariant, PTL

-----------------------------------------------------------------------------
(* Submissions as changes of the branch.  What a request holds is still so,  *)
(* and no two hold the same; where syncs do not meet, a sync's changes are    *)
(* as it read them.                                                          *)
SubRows    == [state : {"none", "pending", "approved", "rejected"},
               content : Contents \cup {"none"}, change : Pulls \cup {"none"},
               version : 0..MaxVersion]
ReviewRows == [at : {"idle", "open", "record", "attach", "publish", "commit"},
               sub : Subs \cup {"none"}, content : Contents \cup {"none"},
               pull : Pulls \cup {"none"}, version : 0..MaxVersion]
ChangeRows == [state : {"none", "open", "merged", "closed"}, version : 0..MaxVersion]
Versions   == [content : Contents \ Blocked, commit : 0..MaxCommit, sub : Subs \cup {"none"}]

(* A merged change whose version is one of the skill's.                      *)
Linked(p) == change[p].state = "merged" /\ change[p].version \in 1..Len(version)

SubsOK ==
  \A s \in Subs :
    /\ sub[s].state # "none" => sub[s].content \in Contents \ Blocked
    /\ sub[s].state = "approved" =>
         /\ sub[s].version \in 1..Len(version)
         /\ \/ sub[s].change \in Pulls /\ Linked(sub[s].change)
            \/ version[sub[s].version].content = sub[s].content

ReviewOK(v) ==
  /\ review[v].at # "idle" => review[v].content \in Contents \ Blocked
  /\ review[v].at \in {"record", "attach"} => review[v].pull \in Pulls
  /\ review[v].at = "record" =>
       change[review[v].pull].state = "none" /\ pull[review[v].pull].state # "none"
  /\ review[v].at = "attach" => review[v].sub \in Subs
  /\ review[v].at \in {"publish", "commit"} =>
       /\ review[v].sub \in Subs /\ sub[review[v].sub].state = "pending"
       /\ sub[review[v].sub].content = review[v].content
  /\ review[v].at = "commit" =>
       review[v].version \in 1..Len(version) /\ version[review[v].version].content = review[v].content

ReviewsApart ==
  \A v, w \in Reviewers : v # w =>
    /\ review[v].at = "record" /\ review[w].at = "record" => review[v].pull # review[w].pull
    /\ review[v].at \in {"publish", "commit"} /\ review[w].at \in {"publish", "commit"} =>
         review[v].sub # review[w].sub

Recorded ==
  \A p \in Pulls : /\ change[p].state # "none" => pull[p].state # "none"
                   /\ change[p].state = "merged" => pull[p].state = "merged"

RunOK(t) ==
  /\ run[t].at # "idle" => run[t].head \in 1..Len(branch)
  /\ run[t].at \in {"track", "close", "link", "approve"} =>
       \A p \in run[t].todo : change[p].state # "none"
  /\ run[t].at \in {"close", "approve"} => run[t].pull \in Pulls
  /\ run[t].at \in {"link", "approve"} => \A p \in run[t].todo : change[p].state = "merged"
  /\ run[t].at = "approve" => run[t].version \in 1..Len(version) /\ Linked(run[t].pull)

(* A version of a submission is its approval's, or will be.                  *)
PublishedFor ==
  losses = 0 =>
    /\ G!PublishedOnce
    /\ \A s \in Subs, i \in 1..Len(version) : version[i].sub = s =>
         \/ sub[s].state = "approved"
         \/ \E v \in Reviewers : review[v].at = "commit" /\ review[v].sub = s

Exact ==
  \A s \in Subs : sub[s].state = "approved" =>
    /\ sub[s].version \in DOMAIN version
    /\ \/ /\ sub[s].change # "none"
          /\ change[sub[s].change] = [state |-> "merged", version |-> sub[s].version]
       \/ version[sub[s].version].content = sub[s].content

Only(t) == \A q \in Runs : q # t => run[q].at = "idle"

LinksOK ==
  /\ \A t \in Runs : run[t].at # "idle" => Only(t)
  /\ \A t \in Runs :
       /\ run[t].at \in {"track", "close"} => \A p \in run[t].todo : change[p].state = "open"
       /\ run[t].at \in {"link", "approve"} =>
            \A p \in run[t].todo : change[p].state = "merged" /\ change[p].version = 0
       /\ run[t].at = "approve" => /\ run[t].pull \notin run[t].todo
                                   /\ change[run[t].pull].state = "merged"
                                   /\ change[run[t].pull].version = run[t].version
  /\ Exact

(* The version that is served, or the newest, has the commit's content.      *)
Fits(k) ==
  \/ branch[k] \in Blocked \/ G!Unchanged(branch[k])
  \/ version # <<>> /\ version[Len(version)].content = branch[k]

HeadOK ==
  bound /\ "detach" \notin regime =>
    /\ \A t \in Runs : /\ run[t].at # "idle" => synced <= run[t].head
                       /\ run[t].at \in {"list", "link", "approve"} => Fits(run[t].head)
    /\ synced = Len(branch) => Fits(synced)

NoNative ==
  bound /\ "detach" \notin regime => \A v \in Reviewers : review[v].at \notin {"publish", "commit"}

OneSync == "overlap" \notin regime

ChangesInv ==
  /\ G!TypeOK /\ SubsOK
  /\ (\A v \in Reviewers : ReviewOK(v)) /\ ReviewsApart
  /\ Recorded /\ (\A t \in Runs : RunOK(t))
  /\ Len(branch) # 0 /\ PublishedFor /\ NoNative
  /\ OneSync => LinksOK /\ HeadOK

LEMMA ChangesInit == GitInit => ChangesInv
<1> SUFFICES ASSUME G!Init PROVE ChangesInv
  BY DEF GitInit
<1>1. G!TypeOK
  BY ChangesAssumption DEF G!Init, G!TypeOK, G!IdleRun, G!IdleReview, G!None
<1>2. SubsOK /\ (\A v \in Reviewers : ReviewOK(v)) /\ ReviewsApart /\ Recorded
      /\ (\A t \in Runs : RunOK(t)) /\ Len(branch) # 0 /\ NoNative
  BY DEF G!Init, G!IdleRun, G!IdleReview, SubsOK, ReviewOK, ReviewsApart, Recorded, RunOK, NoNative, Linked
<1>3. PublishedFor
  BY DEF G!Init, PublishedFor, G!PublishedOnce
<1>4. LinksOK /\ HeadOK
  BY DEF G!Init, G!IdleRun, LinksOK, HeadOK, Exact, Only
<1> QED
  BY <1>1, <1>2, <1>3, <1>4 DEF ChangesInv

-----------------------------------------------------------------------------
(* The newest of some versions is one of them.                               *)
LEMMA NewestIs ==
  ASSUME NEW n \in Nat, NEW set \in SUBSET (1..n), set # {}
  PROVE  G!Newest(set) \in set
<1> DEFINE back == {n - x : x \in set}
<1>1. back \in SUBSET Nat /\ back # {}
  <2>1. PICK e \in set : TRUE
    OBVIOUS
  <2>2. n - e \in back
    BY <2>1
  <2>3. \A x \in set : n - x \in Nat
    OBVIOUS
  <2> QED
    BY <2>2, <2>3
<1>2. PICK y \in back : \A z \in back : y <= z
  BY <1>1, Least
<1>3. PICK x \in set : y = n - x
  BY <1>2
<1>4. \A z \in set : z <= x
  <2> TAKE z \in set
  <2>1. y <= n - z /\ z \in Nat /\ x \in Nat
    BY <1>2
  <2> QED
    BY <1>3, <2>1
<1> QED
  BY <1>4 DEF G!Newest

(* What a publish makes of the versions.                                     *)
LEMMA PublishedIs ==
  ASSUME version \in Seq(Versions), Len(version) < MaxVersion, NEW c \in Contents,
         NEW at \in 0..MaxCommit, NEW of \in Subs \cup {"none"},
         version' = G!Published(c, at, of)
  PROVE  /\ version' \in Seq(Versions) /\ Len(version') <= MaxVersion
         /\ Len(version) <= Len(version') /\ Len(version') <= Len(version) + 1
         /\ \A i \in 1..Len(version) : version'[i] = version[i]
         /\ \A i \in 1..Len(version') : i <= Len(version) \/ version'[i].sub = of
         /\ \/ c \in Blocked \/ (G!Unchanged(c) /\ version' = version)
            \/ version' # <<>> /\ version'[Len(version')].content = c
         /\ c \notin Blocked =>
              G!Answered(c) \in 1..Len(version') /\ version'[G!Answered(c)].content = c
<1> DEFINE new == [content |-> c, commit |-> at, sub |-> of]
<1>0. Len(version) \in Nat /\ MaxVersion \in Nat /\ DOMAIN version = 1..Len(version)
  BY ChangesAssumption
<1>1. ASSUME G!Unchanged(c)
      PROVE  G!LatestServed \in 1..Len(version) /\ version[G!LatestServed].content = c
  <2>1. G!Served # {} /\ G!Served \in SUBSET (1..Len(version))
    BY <1>0, <1>1 DEF G!Unchanged, G!LatestServed, G!Served
  <2>2. G!Newest(G!Served) \in G!Served
    BY <1>0, <2>1, NewestIs
  <2> QED
    BY <1>1, <2>1, <2>2 DEF G!Unchanged, G!LatestServed
<1>2. CASE c \in Blocked \/ G!Unchanged(c)
  <2>1. version' = version
    BY <1>2 DEF G!Published
  <2> QED
    <3>1. c \notin Blocked => /\ G!Unchanged(c) /\ G!Answered(c) = G!LatestServed
                              /\ G!Answered(c) \in 1..Len(version) /\ version[G!Answered(c)].content = c
      BY <1>1, <1>2 DEF G!Answered
    <3>2. /\ version' \in Seq(Versions) /\ Len(version') <= MaxVersion
          /\ Len(version) <= Len(version') /\ Len(version') <= Len(version) + 1
          /\ \A i \in 1..Len(version) : version'[i] = version[i]
          /\ \A i \in 1..Len(version') : i <= Len(version) \/ version'[i].sub = of
      BY <1>0, <2>1
    <3>3. c \in Blocked \/ (G!Unchanged(c) /\ version' = version)
      BY <1>2, <2>1
    <3>4. c \notin Blocked =>
            G!Answered(c) \in 1..Len(version') /\ version'[G!Answered(c)].content = c
      BY <2>1, <3>1
    <3> QED
      BY <3>2, <3>3, <3>4
<1>3. CASE ~(c \in Blocked \/ G!Unchanged(c))
  <2>1. new \in Versions /\ new.sub = of /\ new.content = c
    BY <1>3 DEF Versions
  <2>2. version' = Append(version, new) /\ G!Answered(c) = Len(version) + 1
    BY <1>3 DEF G!Published, G!Answered
  <2> HIDE DEF new
  <2>3. /\ version' \in Seq(Versions) /\ Len(version') = Len(version) + 1
        /\ \A i \in 1..Len(version) : version'[i] = version[i]
        /\ version'[Len(version) + 1] = new
    BY <1>0, <2>1, <2>2
  <2>4. /\ version' # <<>> /\ Len(version') \in 1..Len(version') /\ version'[Len(version')] = new
        /\ Len(version) <= Len(version') /\ Len(version') <= Len(version) + 1
        /\ Len(version') <= MaxVersion
        /\ \A i \in 1..Len(version') : i <= Len(version) \/ i = Len(version')
    BY <1>0, <2>3
  <2>5. \A i \in 1..Len(version') : i <= Len(version) \/ version'[i].sub = of
    BY <2>1, <2>4
  <2> QED
    BY <2>1, <2>2, <2>3, <2>4, <2>5
<1> QED
  BY <1>2, <1>3

-----------------------------------------------------------------------------
(* What a step that leaves a part of the state alone leaves of its facts.    *)
LEMMA VersionsStay ==
  ASSUME UNCHANGED <<version, branch>>
  PROVE  \A k \in Nat : Fits(k)' <=> Fits(k)
BY DEF Fits, G!Unchanged, G!LatestServed, G!Served

(* A push and a merge: the branch grows, and a merge was of an open pull.    *)
LEMMA BranchGrows ==
  ASSUME ChangesInv, NEW c \in Contents, Len(branch) < MaxCommit, branch' = Append(branch, c),
         UNCHANGED <<change, sub, version, bound, synced, run, review, orphaned, losses, regime>>,
         pull' \in [Pulls -> [state : {"none", "open", "merged", "closed"},
                              content : Contents \cup {"none"}, at : 0..MaxCommit]],
         \A p \in Pulls : /\ pull[p].state # "none" => pull'[p].state # "none"
                          /\ pull[p].state = "merged" => pull'[p].state = "merged"
  PROVE  ChangesInv'
<1>1. /\ branch' \in Seq(Contents) /\ Len(branch') = Len(branch) + 1 /\ Len(branch) \in Nat
      /\ \A k \in 1..Len(branch) : branch'[k] = branch[k]
  BY DEF ChangesInv, G!TypeOK
<1>2. G!TypeOK'
  <2>1. Len(branch') <= MaxCommit /\ 0..Len(branch) \subseteq 0..Len(branch')
    BY <1>1, ChangesAssumption
  <2> QED
    BY <1>1, <2>1 DEF ChangesInv, G!TypeOK, G!None
<1>3. SubsOK' /\ (\A v \in Reviewers : ReviewOK(v)') /\ ReviewsApart' /\ NoNative' /\ PublishedFor'
  <2>1. \A v \in Reviewers : ReviewOK(v)'
    BY DEF ChangesInv, ReviewOK
  <2> QED
    BY <2>1 DEF ChangesInv, SubsOK, ReviewsApart, NoNative, PublishedFor, G!PublishedOnce, Linked
<1>4. Recorded' /\ (\A t \in Runs : RunOK(t)') /\ Len(branch') # 0
  BY <1>1 DEF ChangesInv, Recorded, RunOK, Linked
<1>5. ASSUME OneSync PROVE LinksOK' /\ HeadOK'
  <2>1. LinksOK'
    BY <1>5 DEF ChangesInv, LinksOK, Exact, Only
  <2>2. \A k \in 1..Len(branch) : Fits(k)' = Fits(k)
    BY <1>1 DEF Fits, G!Unchanged, G!LatestServed, G!Served
  <2>3. synced \in 0..Len(branch) /\ synced # Len(branch') /\ \A t \in Runs : RunOK(t)
    BY <1>1 DEF ChangesInv, G!TypeOK
  <2> QED
    BY <1>5, <2>1, <2>2, <2>3 DEF ChangesInv, HeadOK, RunOK, Linked
<1> QED
  BY <1>2, <1>3, <1>4, <1>5 DEF ChangesInv, OneSync

LEMMA PushKeeps == ASSUME ChangesInv, NEW c \in Contents, G!Push(c) PROVE ChangesInv'
<1>1. pull' \in [Pulls -> [state : {"none", "open", "merged", "closed"},
                           content : Contents \cup {"none"}, at : 0..MaxCommit]]
  BY DEF G!Push, ChangesInv, G!TypeOK, G!None
<1> QED
  BY <1>1, BranchGrows DEF G!Push

LEMMA MergeKeeps ==
  ASSUME ChangesInv, NEW p \in Pulls, NEW c \in Contents, G!Merge(p, c) PROVE ChangesInv'
<1>1. /\ pull \in [Pulls -> [state : {"none", "open", "merged", "closed"},
                             content : Contents \cup {"none"}, at : 0..MaxCommit]]
      /\ Len(branch) + 1 \in 0..MaxCommit
  BY ChangesAssumption DEF G!Merge, ChangesInv, G!TypeOK, G!None
<1>2. /\ pull' \in [Pulls -> [state : {"none", "open", "merged", "closed"},
                              content : Contents \cup {"none"}, at : 0..MaxCommit]]
      /\ \A q \in Pulls : /\ pull[q].state # "none" => pull'[q].state # "none"
                          /\ pull[q].state = "merged" => pull'[q].state = "merged"
  BY <1>1 DEF G!Merge
<1> QED
  BY <1>2, BranchGrows DEF G!Merge

LEMMA CloseKeeps == ASSUME ChangesInv, NEW p \in Pulls, G!Close(p) PROVE ChangesInv'
<1>1. /\ UNCHANGED <<branch, change, sub, version, bound, synced, run, review, orphaned, losses, regime>>
      /\ \A q \in Pulls : /\ pull[q].state # "none" => pull'[q].state # "none"
                          /\ pull[q].state = "merged" => pull'[q].state = "merged"
      /\ pull' \in [Pulls -> [state : {"none", "open", "merged", "closed"},
                              content : Contents \cup {"none"}, at : 0..MaxCommit]]
  <2>1. pull \in [Pulls -> [state : {"none", "open", "merged", "closed"},
                             content : Contents \cup {"none"}, at : 0..MaxCommit]]
    BY DEF ChangesInv, G!TypeOK, G!None
  <2> QED
    BY <2>1 DEF G!Close
<1>2. G!TypeOK' /\ SubsOK' /\ ReviewsApart' /\ NoNative' /\ PublishedFor' /\ Recorded'
      /\ Len(branch') # 0
  BY <1>1 DEF ChangesInv, G!TypeOK, G!None, SubsOK, ReviewsApart, NoNative, PublishedFor,
     G!PublishedOnce, Recorded, Linked
<1>3. (\A v \in Reviewers : ReviewOK(v)') /\ (\A t \in Runs : RunOK(t)')
  BY <1>1 DEF ChangesInv, ReviewOK, RunOK, Linked
<1>4. OneSync => LinksOK' /\ HeadOK'
  <2>1. \A k \in Nat : Fits(k)' <=> Fits(k)
    BY <1>1, VersionsStay
  <2>2. synced \in Nat /\ \A t \in Runs : run[t].head \in Nat
    BY DEF ChangesInv, G!TypeOK
  <2> QED
    BY <1>1, <2>1, <2>2 DEF ChangesInv, LinksOK, HeadOK, Exact, Only
<1> QED
  BY <1>1, <1>2, <1>3, <1>4 DEF ChangesInv, OneSync

(* The submissions alone: one is made, or one that no reviewer holds is      *)
(* decided.                                                                  *)
LEMMA SubsMove ==
  ASSUME ChangesInv, sub' \in [Subs -> SubRows],
         UNCHANGED <<branch, pull, change, version, bound, synced, run, review, orphaned, losses, regime>>,
         SubsOK', LinksOK => Exact',
         \A s \in Subs : /\ G!Locked(s) => sub'[s] = sub[s]
                         /\ sub[s].state = "approved" => sub'[s].state = "approved"
  PROVE  ChangesInv'
<1>1. G!TypeOK' /\ ReviewsApart' /\ NoNative' /\ Recorded' /\ Len(branch') # 0
  BY DEF ChangesInv, G!TypeOK, G!None, SubRows, ReviewsApart, NoNative, Recorded
<1>2. PublishedFor'
  BY DEF ChangesInv, PublishedFor, G!PublishedOnce
<1>3. \A v \in Reviewers : ReviewOK(v)'
  <2> SUFFICES ASSUME NEW v \in Reviewers PROVE ReviewOK(v)'
    OBVIOUS
  <2>1. ReviewOK(v) /\ (review[v].at \in {"publish", "commit"} => G!Locked(review[v].sub))
    BY DEF ChangesInv, G!Locked
  <2> QED
    BY <2>1 DEF ReviewOK
<1>4. \A t \in Runs : RunOK(t)'
  BY DEF ChangesInv, RunOK, Linked
<1>5. OneSync => LinksOK' /\ HeadOK'
  BY DEF ChangesInv, LinksOK, HeadOK, Fits, G!Unchanged, G!LatestServed, G!Served, Only
<1> QED
  BY <1>1, <1>2, <1>3, <1>4, <1>5 DEF ChangesInv, OneSync

LEMMA SubTypes == ASSUME ChangesInv PROVE sub \in [Subs -> SubRows]
BY DEF ChangesInv, G!TypeOK, SubRows, G!None

LEMMA SubmitKeeps2 ==
  ASSUME ChangesInv, NEW s \in Subs, NEW c \in Contents, G!Submit(s, c) PROVE ChangesInv'
<1>1. /\ sub' \in [Subs -> SubRows] /\ c \notin Blocked /\ sub[s].state = "none"
      /\ \A w \in Subs : w # s => sub'[w] = sub[w]
      /\ sub'[s].state = "pending" /\ sub'[s].content = c
  BY SubTypes, ZenonT(30) DEF G!Submit, SubRows
<1>2. ~G!Locked(s)
  BY <1>1 DEF ChangesInv, ReviewOK, G!Locked
<1>3. SubsOK'
  BY <1>1 DEF ChangesInv, SubsOK, G!Submit, Linked
<1>4. LinksOK => Exact'
  BY <1>1 DEF LinksOK, Exact, G!Submit, Only
<1> QED
  BY <1>1, <1>2, <1>3, <1>4, SubsMove DEF G!Submit

LEMMA RejectKeeps == ASSUME ChangesInv, NEW s \in Subs, G!Reject(s) PROVE ChangesInv'
<1>1. /\ sub' \in [Subs -> SubRows] /\ sub[s].state = "pending" /\ ~G!Locked(s)
      /\ \A w \in Subs : w # s => sub'[w] = sub[w]
      /\ sub'[s].state = "rejected" /\ sub'[s].content = sub[s].content
  BY SubTypes DEF G!Reject, G!Decidable, SubRows
<1>2. SubsOK'
  BY <1>1 DEF ChangesInv, SubsOK, G!Reject, Linked
<1>3. LinksOK => Exact'
  BY <1>1 DEF LinksOK, Exact, G!Reject, Only
<1> QED
  BY <1>1, <1>2, <1>3, SubsMove DEF G!Reject

(* Detach and adopt, in a behaviour that has them.                           *)
LEMMA BoundMoves ==
  ASSUME ChangesInv, bound' \in BOOLEAN, "detach" \in regime,
         UNCHANGED <<branch, pull, change, sub, version, synced, run, review, orphaned, losses, regime>>
  PROVE  ChangesInv'
<1>1. G!TypeOK' /\ SubsOK' /\ ReviewsApart' /\ NoNative' /\ PublishedFor' /\ Recorded'
      /\ Len(branch') # 0
  BY DEF ChangesInv, G!TypeOK, G!None, SubsOK, ReviewsApart, NoNative, PublishedFor,
     G!PublishedOnce, Recorded, Linked
<1>2. (\A v \in Reviewers : ReviewOK(v)') /\ (\A t \in Runs : RunOK(t)')
  BY DEF ChangesInv, ReviewOK, RunOK, Linked
<1>3. OneSync => LinksOK' /\ HeadOK'
  BY DEF ChangesInv, LinksOK, HeadOK, Exact, Only
<1> QED
  BY <1>1, <1>2, <1>3 DEF ChangesInv, OneSync

-----------------------------------------------------------------------------
(* Reviews.                                                                  *)
LEMMA ReviewMoves ==
  ASSUME ChangesInv, NEW v \in Reviewers, NEW row \in ReviewRows,
         review' = [review EXCEPT ![v] = row]
  PROVE  /\ review' \in [Reviewers -> ReviewRows] /\ review'[v] = row
         /\ \A w \in Reviewers : w # v => review'[w] = review[w]
BY DEF ChangesInv, G!TypeOK, ReviewRows, G!None

LEMMA ReviewFacts ==
  ASSUME ChangesInv, NEW v \in Reviewers
  PROVE  review[v] \in ReviewRows /\ ReviewOK(v)
BY DEF ChangesInv, G!TypeOK, ReviewRows, G!None

LEMMA IdleReviews == G!IdleReview \in ReviewRows /\ G!IdleReview.at = "idle"
BY ChangesAssumption DEF G!IdleReview, ReviewRows, G!None

LEMMA TypeMoves ==
  ASSUME ChangesInv, UNCHANGED <<branch, version, synced, bound, regime, run, pull>>,
         change' \in [Pulls -> ChangeRows], sub' \in [Subs -> SubRows],
         review' \in [Reviewers -> ReviewRows], orphaned' \subseteq Subs, losses' \in 0..MaxCrash
  PROVE  G!TypeOK'
BY DEF ChangesInv, G!TypeOK, ReviewRows, ChangeRows, SubRows, G!None

LEMMA ChangeTypes ==
  ASSUME ChangesInv
  PROVE  /\ change \in [Pulls -> ChangeRows] /\ sub \in [Subs -> SubRows]
         /\ review \in [Reviewers -> ReviewRows] /\ orphaned \subseteq Subs
         /\ losses \in 0..MaxCrash /\ version \in Seq(Versions) /\ Len(version) <= MaxVersion
         /\ branch \in Seq(Contents) /\ Len(branch) <= MaxCommit /\ bound \in BOOLEAN
         /\ synced \in 0..Len(branch)
BY DEF ChangesInv, G!TypeOK, ReviewRows, ChangeRows, SubRows, Versions, G!None

(* The facts about branch, versions and runs, where a step leaves these.     *)
LEMMA HeadStays ==
  ASSUME ChangesInv, UNCHANGED <<branch, version, synced, bound, regime, run>>
  PROVE  HeadOK => HeadOK'
<1>1. \A k \in Nat : Fits(k)' <=> Fits(k)
  BY VersionsStay
<1>2. synced \in Nat /\ \A t \in Runs : run[t].head \in Nat
  BY DEF ChangesInv, G!TypeOK
<1> QED
  BY <1>1, <1>2 DEF HeadOK

(* A review alone moves: it begins, or its process dies.                     *)
LEMMA ReviewAlone ==
  ASSUME ChangesInv, NEW v \in Reviewers, NEW row \in ReviewRows,
         review' = [review EXCEPT ![v] = row],
         UNCHANGED <<branch, pull, change, sub, version, bound, synced, run, orphaned, regime>>,
         \/ losses' = losses /\ review[v].at = "idle"
         \/ losses' \in 1..MaxCrash,
         row.at \in {"idle", "open", "publish"},
         row.at # "idle" => row.content \in Contents \ Blocked,
         row.at = "publish" => /\ row.sub \in Subs /\ sub[row.sub].state = "pending"
                               /\ sub[row.sub].content = row.content
                               /\ ~bound /\ ~G!Locked(row.sub)
  PROVE  ChangesInv'
<1>1. /\ review' \in [Reviewers -> ReviewRows] /\ review'[v] = row
      /\ \A w \in Reviewers : w # v => review'[w] = review[w]
  BY ReviewMoves
<1>2. G!TypeOK'
  BY <1>1, TypeMoves, ChangeTypes, ChangesAssumption
<1>3. SubsOK' /\ Recorded' /\ Len(branch') # 0 /\ \A t \in Runs : RunOK(t)'
  BY DEF ChangesInv, SubsOK, Recorded, RunOK, Linked
<1>4. \A w \in Reviewers : ReviewOK(w)'
  <2> SUFFICES ASSUME NEW w \in Reviewers PROVE ReviewOK(w)'
    OBVIOUS
  <2>1. CASE w = v
    BY <1>1, <2>1 DEF ReviewOK
  <2>2. CASE w # v
    BY <1>1, <2>2, ReviewFacts DEF ReviewOK
  <2> QED
    BY <2>1, <2>2
<1>5. ReviewsApart' /\ NoNative'
  <2>1. ReviewsApart'
    BY <1>1 DEF ChangesInv, ReviewsApart, G!Locked
  <2>2. NoNative'
    BY <1>1 DEF ChangesInv, NoNative
  <2> QED
    BY <2>1, <2>2
<1>6. PublishedFor'
  BY <1>1 DEF ChangesInv, PublishedFor, G!PublishedOnce
<1>7. OneSync => LinksOK' /\ HeadOK'
  BY HeadStays DEF ChangesInv, LinksOK, Exact, Only
<1> QED
  BY <1>2, <1>3, <1>4, <1>5, <1>6, <1>7 DEF ChangesInv, OneSync

LEMMA ApproveAsChangeKeeps ==
  ASSUME ChangesInv, NEW v \in Reviewers, NEW s \in Subs, G!ApproveAsChange(v, s)
  PROVE  ChangesInv'
<1> DEFINE row == [G!IdleReview EXCEPT !.at = "open", !.sub = s, !.content = sub[s].content]
<1>1. sub[s].content \in Contents \ Blocked /\ review[v].at = "idle"
  BY DEF G!ApproveAsChange, ChangesInv, SubsOK, Linked
<1>2. row \in ReviewRows /\ row.at = "open" /\ row.content = sub[s].content
  BY <1>1, IdleReviews DEF ReviewRows
<1>3. review' = [review EXCEPT ![v] = row]
  BY DEF G!ApproveAsChange
<1> HIDE DEF row
<1> QED
  BY <1>1, <1>2, <1>3, ReviewAlone DEF G!ApproveAsChange

LEMMA ProposeKeeps ==
  ASSUME ChangesInv, NEW v \in Reviewers, NEW c \in Contents, G!Propose(v, c)
  PROVE  ChangesInv'
<1> DEFINE row == [G!IdleReview EXCEPT !.at = "open", !.content = c]
<1>1. row \in ReviewRows /\ row.at = "open" /\ row.content = c
  BY IdleReviews DEF ReviewRows
<1>2. review' = [review EXCEPT ![v] = row] /\ review[v].at = "idle" /\ c \notin Blocked
  BY DEF G!Propose
<1> HIDE DEF row
<1> QED
  BY <1>1, <1>2, ReviewAlone DEF G!Propose

LEMMA ApproveNativeKeeps ==
  ASSUME ChangesInv, NEW v \in Reviewers, NEW s \in Subs, G!ApproveNative(v, s)
  PROVE  ChangesInv'
<1> DEFINE row == [G!IdleReview EXCEPT !.at = "publish", !.sub = s, !.content = sub[s].content]
<1>1. /\ sub[s].content \in Contents \ Blocked /\ review[v].at = "idle"
      /\ sub[s].state = "pending" /\ ~G!Locked(s) /\ ~bound
  BY DEF G!ApproveNative, G!Decidable, ChangesInv, SubsOK, Linked
<1>2. row \in ReviewRows /\ row.at = "publish" /\ row.content = sub[s].content /\ row.sub = s
  BY <1>1, IdleReviews DEF ReviewRows
<1>3. review' = [review EXCEPT ![v] = row]
  BY DEF G!ApproveNative
<1> HIDE DEF row
<1> QED
  BY <1>1, <1>2, <1>3, ReviewAlone DEF G!ApproveNative

LEMMA CrashReviewKeeps ==
  ASSUME ChangesInv, NEW v \in Reviewers, G!CrashReview(v) PROVE ChangesInv'
<1>1. losses' \in 1..MaxCrash
  BY ChangesAssumption DEF G!CrashReview, ChangesInv, G!TypeOK
<1> QED
  BY <1>1, IdleReviews, ReviewAlone DEF G!CrashReview

-----------------------------------------------------------------------------
(* A change: opened on GitHub, recorded, attached.                           *)
LEMMA NextPullIsFree ==
  ASSUME NEW p \in Pulls, p = G!NextPull
  PROVE  pull[p].state = "none"
BY ChangesAssumption DEF G!NextPull, G!None

LEMMA OpenPullKeeps ==
  ASSUME ChangesInv, NEW v \in Reviewers, NEW p \in Pulls, G!OpenPull(v, p) PROVE ChangesInv'
<1> DEFINE row == [review[v] EXCEPT !.at = "record", !.pull = p]
<1>1. /\ review[v].at = "open" /\ pull[p].state = "none" /\ change[p].state = "none"
      /\ review[v] \in ReviewRows /\ ReviewOK(v)
  BY NextPullIsFree, ReviewFacts DEF G!OpenPull, ChangesInv, Recorded
<1>2. /\ row \in ReviewRows /\ row.at = "record" /\ row.pull = p
      /\ row.content \in Contents \ Blocked /\ review' = [review EXCEPT ![v] = row]
  BY <1>1 DEF ReviewRows, ReviewOK, G!OpenPull
<1> HIDE DEF row
<1>3. /\ review' \in [Reviewers -> ReviewRows] /\ review'[v] = row
      /\ \A w \in Reviewers : w # v => review'[w] = review[w]
  BY <1>2, ReviewMoves
<1>4. /\ UNCHANGED <<branch, change, sub, version, bound, synced, run, orphaned, losses, regime>>
      /\ \A q \in Pulls : /\ pull[q].state # "none" => pull'[q].state # "none"
                          /\ pull[q].state = "merged" => pull'[q].state = "merged"
      /\ pull'[p].state # "none"
      /\ pull' \in [Pulls -> [state : {"none", "open", "merged", "closed"},
                              content : Contents \cup {"none"}, at : 0..MaxCommit]]
  <2>1. pull \in [Pulls -> [state : {"none", "open", "merged", "closed"},
                             content : Contents \cup {"none"}, at : 0..MaxCommit]]
    BY DEF ChangesInv, G!TypeOK, G!None
  <2>2. review[v].content \in Contents
    BY <1>1 DEF ReviewOK
  <2> DEFINE new == [pull[p] EXCEPT !.state = "open", !.content = review[v].content]
  <2>3. /\ new \in [state : {"none", "open", "merged", "closed"},
                     content : Contents \cup {"none"}, at : 0..MaxCommit]
        /\ new.state = "open"
    BY <2>1, <2>2
  <2>4. pull' = [pull EXCEPT ![p] = new]
    BY <2>1 DEF G!OpenPull
  <2> HIDE DEF new
  <2>5. UNCHANGED <<branch, change, sub, version, bound, synced, run, orphaned, losses, regime>>
    BY DEF G!OpenPull
  <2> QED
    BY <1>1, <2>1, <2>3, <2>4, <2>5
<1>5. G!TypeOK'
  BY <1>3, <1>4 DEF ChangesInv, G!TypeOK, ReviewRows, G!None
<1>6. SubsOK' /\ Recorded' /\ Len(branch') # 0 /\ \A t \in Runs : RunOK(t)'
  <2>1. SubsOK' /\ Len(branch') # 0
    BY <1>4 DEF ChangesInv, SubsOK, Linked
  <2>2. Recorded'
    BY <1>4 DEF ChangesInv, Recorded
  <2>3. \A t \in Runs : RunOK(t)'
    BY <1>4 DEF ChangesInv, RunOK, Linked
  <2> QED
    BY <2>1, <2>2, <2>3
<1>7. \A w \in Reviewers : ReviewOK(w)'
  <2> SUFFICES ASSUME NEW w \in Reviewers PROVE ReviewOK(w)'
    OBVIOUS
  <2>1. CASE w = v
    BY <1>1, <1>2, <1>3, <1>4, <2>1 DEF ReviewOK
  <2>2. CASE w # v
    BY <1>3, <1>4, <2>2, ReviewFacts DEF ReviewOK
  <2> QED
    BY <2>1, <2>2
<1>8. ReviewsApart' /\ NoNative'
  <2>1. \A w \in Reviewers : w # v /\ review[w].at = "record" => review[w].pull # p
    BY <1>1, ReviewFacts DEF ReviewOK
  <2>2. ReviewsApart'
    BY <1>2, <1>3, <2>1 DEF ChangesInv, ReviewsApart
  <2>3. NoNative'
    BY <1>2, <1>3, <1>4 DEF ChangesInv, NoNative
  <2> QED
    BY <2>2, <2>3
<1>9. PublishedFor'
  BY <1>1, <1>2, <1>3, <1>4 DEF ChangesInv, PublishedFor, G!PublishedOnce
<1>10. OneSync => LinksOK' /\ HeadOK'
  BY <1>4, HeadStays DEF ChangesInv, LinksOK, Exact, Only
<1> QED
  BY <1>4, <1>5, <1>6, <1>7, <1>8, <1>9, <1>10 DEF ChangesInv, OneSync

LEMMA RecordChangeKeeps ==
  ASSUME ChangesInv, NEW v \in Reviewers, G!RecordChange(v) PROVE ChangesInv'
<1> DEFINE p == review[v].pull
           row == IF review[v].sub = "none" THEN G!IdleReview ELSE [review[v] EXCEPT !.at = "attach"]
           new == [change[p] EXCEPT !.state = "open"]
<1>1. /\ review[v].at = "record" /\ review[v] \in ReviewRows /\ ReviewOK(v)
      /\ p \in Pulls /\ change[p].state = "none" /\ pull[p].state # "none"
      /\ change \in [Pulls -> ChangeRows]
  BY ReviewFacts, ChangeTypes DEF G!RecordChange, ReviewOK
<1>2. /\ row \in ReviewRows /\ row.at \in {"idle", "attach"}
      /\ row.at = "attach" => /\ row.pull = p /\ row.sub \in Subs
                              /\ row.content \in Contents \ Blocked
  BY <1>1, IdleReviews DEF ReviewRows, ReviewOK
<1>3. new \in ChangeRows /\ new.state = "open" /\ new.version = change[p].version
  BY <1>1 DEF ChangeRows
<1>4. /\ review' = [review EXCEPT ![v] = row] /\ change' = [change EXCEPT ![p] = new]
      /\ UNCHANGED <<branch, pull, sub, version, bound, synced, run, losses, regime>>
  BY <1>1 DEF G!RecordChange, G!None, ChangeRows
<1>5. orphaned' \subseteq Subs
  BY <1>1, ChangeTypes DEF G!RecordChange, ReviewRows, G!None
<1> HIDE DEF p, row, new
<1>6. /\ review' \in [Reviewers -> ReviewRows] /\ review'[v] = row
      /\ \A w \in Reviewers : w # v => review'[w] = review[w]
  BY <1>2, <1>4, ReviewMoves
<1>7. /\ change' \in [Pulls -> ChangeRows] /\ change'[p] = new
      /\ \A q \in Pulls : q # p => change'[q] = change[q]
  BY <1>1, <1>3, <1>4
<1>8. G!TypeOK'
  BY <1>4, <1>5, <1>6, <1>7, TypeMoves, ChangeTypes
<1>9. SubsOK' /\ Recorded' /\ Len(branch') # 0 /\ \A t \in Runs : RunOK(t)'
  <2>1. \A t \in Runs : RunOK(t)'
    <3> SUFFICES ASSUME NEW t \in Runs PROVE RunOK(t)'
      OBVIOUS
    <3>1. RunOK(t) /\ run[t].todo \subseteq Pulls
      BY DEF ChangesInv, G!TypeOK
    <3> QED
      BY <1>1, <1>3, <1>4, <1>7, <3>1 DEF RunOK, Linked
  <2> QED
    BY <1>1, <1>3, <1>4, <1>7, <2>1 DEF ChangesInv, SubsOK, Recorded, Linked
<1>10. \A w \in Reviewers : ReviewOK(w)'
  <2> SUFFICES ASSUME NEW w \in Reviewers PROVE ReviewOK(w)'
    OBVIOUS
  <2>1. CASE w = v
    BY <1>1, <1>2, <1>4, <1>6, <2>1 DEF ReviewOK
  <2>2. CASE w # v
    <3>1. ReviewOK(w) /\ (review[w].at = "record" => review[w].pull # p)
      BY <1>1, <2>2 DEF ChangesInv, ReviewsApart, p
    <3> QED
      BY <1>4, <1>6, <1>7, <2>2, <3>1 DEF ReviewOK
  <2> QED
    BY <2>1, <2>2
<1>11. ReviewsApart' /\ NoNative'
  BY <1>2, <1>4, <1>6 DEF ChangesInv, ReviewsApart, NoNative
<1>12. PublishedFor'
  BY <1>1, <1>2, <1>4, <1>6 DEF ChangesInv, PublishedFor, G!PublishedOnce
<1>13. ASSUME OneSync PROVE LinksOK' /\ HeadOK'
  <2>1. LinksOK /\ HeadOK /\ \A t \in Runs : run[t].todo \subseteq Pulls /\ RunOK(t)
    BY <1>13 DEF ChangesInv, G!TypeOK
  <2>2. Exact'
    <3> SUFFICES ASSUME NEW s \in Subs, sub[s].state = "approved"
                 PROVE  /\ sub[s].version \in DOMAIN version
                        /\ \/ /\ sub[s].change # "none"
                              /\ change'[sub[s].change] = [state |-> "merged", version |-> sub[s].version]
                           \/ version[sub[s].version].content = sub[s].content
      BY <1>4 DEF Exact, G!None
    <3>1. sub[s].change \in Pulls \cup {"none"}
      BY ChangeTypes DEF SubRows
    <3> QED
      BY <1>1, <1>7, <2>1, <3>1 DEF LinksOK, Exact, G!None, Only
  <2>3. LinksOK'
    BY <1>1, <1>4, <1>7, <2>1, <2>2 DEF LinksOK, RunOK, Linked, Only
  <2> QED
    BY <1>4, <2>1, <2>3, HeadStays
<1> QED
  BY <1>4, <1>8, <1>9, <1>10, <1>11, <1>12, <1>13 DEF ChangesInv, OneSync

LEMMA AttachKeeps ==
  ASSUME ChangesInv, NEW v \in Reviewers, G!Attach(v) PROVE ChangesInv'
<1> DEFINE s == review[v].sub
           p == review[v].pull
<1>1. /\ review[v].at = "attach" /\ s \in Subs /\ p \in Pulls /\ ~G!Locked(s)
      /\ sub \in [Subs -> SubRows]
  BY ReviewFacts, ChangeTypes DEF G!Attach, ReviewOK
<1>2. /\ review' = [review EXCEPT ![v] = G!IdleReview]
      /\ UNCHANGED <<branch, pull, change, version, bound, synced, run, losses, regime>>
  BY DEF G!Attach
<1>3. /\ sub' \in [Subs -> SubRows]
      /\ \A w \in Subs : /\ w # s \/ sub[w].state # "pending" => sub'[w] = sub[w]
                         /\ sub'[w].state = sub[w].state /\ sub'[w].content = sub[w].content
  <2> DEFINE new == [sub[s] EXCEPT !.change = p]
  <2>1. new \in SubRows /\ new.state = sub[s].state /\ new.content = sub[s].content
    BY <1>1 DEF SubRows
  <2>2. sub' = sub \/ (sub' = [sub EXCEPT ![s] = new] /\ sub[s].state = "pending")
    BY DEF G!Attach, G!Attachable
  <2> HIDE DEF new, s, p
  <2> QED
    BY <1>1, <2>1, <2>2
<1>4. orphaned' \subseteq Subs
  BY <1>1, ChangeTypes DEF G!Attach
<1> HIDE DEF s, p
<1>5. /\ review' \in [Reviewers -> ReviewRows] /\ review'[v] = G!IdleReview
      /\ \A w \in Reviewers : w # v => review'[w] = review[w]
  BY <1>2, ReviewMoves, IdleReviews
<1>6. G!TypeOK'
  BY <1>2, <1>3, <1>4, <1>5, TypeMoves, ChangeTypes
<1>7. SubsOK' /\ Recorded' /\ Len(branch') # 0 /\ \A t \in Runs : RunOK(t)'
  <2>1. SubsOK'
    BY <1>2, <1>3 DEF ChangesInv, SubsOK, Linked
  <2> QED
    BY <1>2, <2>1 DEF ChangesInv, Recorded, RunOK, Linked
<1>8. \A w \in Reviewers : ReviewOK(w)'
  <2> SUFFICES ASSUME NEW w \in Reviewers PROVE ReviewOK(w)'
    OBVIOUS
  <2>1. CASE w = v
    BY <1>5, <2>1, IdleReviews DEF ReviewOK
  <2>2. CASE w # v
    BY <1>2, <1>3, <1>5, <2>2, ReviewFacts DEF ReviewOK
  <2> QED
    BY <2>1, <2>2
<1>9. ReviewsApart' /\ NoNative'
  BY <1>2, <1>5, IdleReviews DEF ChangesInv, ReviewsApart, NoNative
<1>10. PublishedFor'
  BY <1>1, <1>2, <1>3, <1>5 DEF ChangesInv, PublishedFor, G!PublishedOnce
<1>11. OneSync => LinksOK' /\ HeadOK'
  <2>1. OneSync => Exact'
    BY <1>2, <1>3 DEF ChangesInv, LinksOK, Exact, Only
  <2>2. OneSync => LinksOK'
    BY <1>2, <2>1 DEF ChangesInv, LinksOK, Only
  <2> QED
    BY <1>2, <2>2, HeadStays DEF ChangesInv
<1> QED
  BY <1>2, <1>6, <1>7, <1>8, <1>9, <1>10, <1>11 DEF ChangesInv, OneSync

-----------------------------------------------------------------------------
(* A review of a skill that is not bound: its publish, and its decision.     *)
LEMMA PublishNativeKeeps ==
  ASSUME ChangesInv, NEW v \in Reviewers, G!PublishNative(v) PROVE ChangesInv'
<1> DEFINE s == review[v].sub
           c == review[v].content
           row == [review[v] EXCEPT !.at = "commit", !.version = G!Answered(c)]
<1>1. /\ review[v].at = "publish" /\ s \in Subs /\ sub[s].state = "pending" /\ sub[s].content = c
      /\ c \in Contents \ Blocked /\ review[v] \in ReviewRows
  BY ReviewFacts DEF G!PublishNative, ReviewOK
<1>2. /\ version' = G!Published(c, 0, s) /\ Len(version) < MaxVersion
      /\ review' = [review EXCEPT ![v] = row]
      /\ UNCHANGED <<branch, pull, change, sub, bound, synced, run, orphaned, losses, regime>>
  BY DEF G!PublishNative
<1>3. 0 \in 0..MaxCommit /\ MaxVersion \in Nat
  BY ChangesAssumption
<1> DEFINE n == G!Answered(c)
<1> HIDE DEF n, s, c, row
<1>4. /\ version' \in Seq(Versions) /\ Len(version') <= MaxVersion /\ Len(version) <= Len(version')
      /\ \A i \in 1..Len(version) : version'[i] = version[i]
      /\ \A i \in 1..Len(version') : i <= Len(version) \/ version'[i].sub = s
      /\ n \in 1..Len(version') /\ version'[n].content = c
      /\ Len(version) \in Nat /\ Len(version') \in Nat /\ Len(version') <= Len(version) + 1
  BY <1>1, <1>2, <1>3, PublishedIs, ChangeTypes DEF n
<1>5. /\ row \in ReviewRows /\ row.at = "commit" /\ row.version = n /\ row.sub = s
      /\ row.content = c
  <2>1. n \in 0..MaxVersion
    BY <1>3, <1>4
  <2> QED
    BY <1>1, <2>1 DEF ReviewRows, row, n, s, c
<1>6. /\ review' \in [Reviewers -> ReviewRows] /\ review'[v] = row
      /\ \A w \in Reviewers : w # v => review'[w] = review[w]
  BY <1>2, <1>5, ReviewMoves
<1>7. G!TypeOK'
  BY <1>2, <1>4, <1>6 DEF ChangesInv, G!TypeOK, ReviewRows, Versions, G!None
<1>8. SubsOK' /\ Recorded' /\ Len(branch') # 0 /\ \A t \in Runs : RunOK(t)'
  <2>1. SubsOK'
    BY <1>2, <1>4 DEF ChangesInv, SubsOK, Linked
  <2>2. \A t \in Runs : RunOK(t)'
    BY <1>2, <1>4 DEF ChangesInv, RunOK, Linked
  <2> QED
    BY <1>2, <2>1, <2>2 DEF ChangesInv, Recorded
<1>9. \A w \in Reviewers : ReviewOK(w)'
  <2> SUFFICES ASSUME NEW w \in Reviewers PROVE ReviewOK(w)'
    OBVIOUS
  <2>1. CASE w = v
    BY <1>1, <1>2, <1>4, <1>5, <1>6, <2>1 DEF ReviewOK
  <2>2. CASE w # v
    BY <1>2, <1>4, <1>6, <2>2, ReviewFacts DEF ReviewOK
  <2> QED
    BY <2>1, <2>2
<1>10. ReviewsApart' /\ NoNative'
  <2>1. ReviewsApart'
    BY <1>1, <1>5, <1>6 DEF ChangesInv, ReviewsApart, s
  <2>2. NoNative'
    BY <1>1, <1>2, <1>5, <1>6 DEF ChangesInv, NoNative
  <2> QED
    BY <2>1, <2>2
<1>11. PublishedFor'
  <2> SUFFICES ASSUME losses = 0
               PROVE  /\ G!PublishedOnce'
                      /\ \A w \in Subs, i \in 1..Len(version') : version'[i].sub = w =>
                           \/ sub[w].state = "approved"
                           \/ \E x \in Reviewers : review'[x].at = "commit" /\ review'[x].sub = w
    BY <1>2 DEF PublishedFor
  <2>1. \A i \in 1..Len(version) : version[i].sub # s
    <3> SUFFICES ASSUME NEW i \in 1..Len(version), version[i].sub = s PROVE FALSE
      OBVIOUS
    <3>1. PICK x \in Reviewers : review[x].at = "commit" /\ review[x].sub = s
      BY <1>1 DEF ChangesInv, PublishedFor
    <3> QED
      BY <1>1, <3>1 DEF ChangesInv, ReviewsApart, s
  <2>2. \A i, j \in 1..Len(version') : i <= Len(version) \/ j <= Len(version) \/ i = j
    BY <1>4
  <2>3. DOMAIN version = 1..Len(version) /\ DOMAIN version' = 1..Len(version')
    BY <1>4, ChangeTypes
  <2>4. G!PublishedOnce'
    BY <1>2, <1>4, <2>1, <2>2, <2>3, SMTT(30) DEF ChangesInv, PublishedFor, G!PublishedOnce
  <2>5. ASSUME NEW w \in Subs, NEW i \in 1..Len(version'), version'[i].sub = w
        PROVE  \/ sub[w].state = "approved"
               \/ \E x \in Reviewers : review'[x].at = "commit" /\ review'[x].sub = w
    <3>1. CASE i <= Len(version)
      <4>1. version[i].sub = w /\ i \in 1..Len(version)
        BY <1>4, <2>5, <3>1
      <4>2. \/ sub[w].state = "approved"
            \/ \E x \in Reviewers : review[x].at = "commit" /\ review[x].sub = w
        BY <4>1 DEF ChangesInv, PublishedFor
      <4> QED
        BY <1>1, <1>6, <4>2
    <3>2. CASE i > Len(version)
      BY <1>4, <1>5, <1>6, <2>5, <3>2
    <3> QED
      BY <1>4, <3>1, <3>2
  <2> QED
    BY <2>4, <2>5
<1>12. ASSUME OneSync PROVE LinksOK' /\ HeadOK'
  <2>1. Exact'
    <3>1. DOMAIN version = 1..Len(version) /\ DOMAIN version' = 1..Len(version')
      BY <1>4, ChangeTypes
    <3> QED
      BY <1>2, <1>4, <1>12, <3>1 DEF ChangesInv, LinksOK, Exact, Only
  <2>2. LinksOK'
    BY <1>2, <1>12, <2>1 DEF ChangesInv, LinksOK, Only
  <2>3. HeadOK'
    BY <1>1, <1>2 DEF ChangesInv, NoNative, HeadOK
  <2> QED
    BY <2>2, <2>3
<1> QED
  BY <1>2, <1>7, <1>8, <1>9, <1>10, <1>11, <1>12 DEF ChangesInv, OneSync

LEMMA CommitNativeKeeps ==
  ASSUME ChangesInv, NEW v \in Reviewers, G!CommitNative(v) PROVE ChangesInv'
<1> DEFINE s == review[v].sub
           new == [sub[s] EXCEPT !.state = "approved", !.version = review[v].version]
<1>1. /\ review[v].at = "commit" /\ s \in Subs /\ sub[s].state = "pending"
      /\ sub[s].content = review[v].content /\ review[v] \in ReviewRows
      /\ review[v].version \in 1..Len(version)
      /\ version[review[v].version].content = sub[s].content
      /\ sub \in [Subs -> SubRows]
  BY ReviewFacts, ChangeTypes DEF G!CommitNative, ReviewOK
<1>2. /\ new \in SubRows /\ new.state = "approved" /\ new.content = sub[s].content
      /\ new.version = review[v].version /\ new.change = sub[s].change
  BY <1>1, ZenonT(30) DEF SubRows, ReviewRows
<1>3. /\ sub' = [sub EXCEPT ![s] = new] /\ review' = [review EXCEPT ![v] = G!IdleReview]
      /\ UNCHANGED <<branch, pull, change, version, bound, synced, run, orphaned, losses, regime>>
  BY <1>1 DEF G!CommitNative, SubRows
<1> HIDE DEF new, s
<1>4. /\ sub' \in [Subs -> SubRows] /\ sub'[s] = new
      /\ \A w \in Subs : w # s => sub'[w] = sub[w]
  BY <1>1, <1>2, <1>3
<1>5. /\ review' \in [Reviewers -> ReviewRows] /\ review'[v] = G!IdleReview
      /\ \A w \in Reviewers : w # v => review'[w] = review[w]
  BY <1>3, ReviewMoves, IdleReviews
<1>6. G!TypeOK'
  BY <1>3, <1>4, <1>5, TypeMoves, ChangeTypes
<1>7. SubsOK' /\ Recorded' /\ Len(branch') # 0 /\ \A t \in Runs : RunOK(t)'
  <2>1. SubsOK'
    BY <1>1, <1>2, <1>3, <1>4 DEF ChangesInv, SubsOK, Linked
  <2> QED
    BY <1>3, <2>1 DEF ChangesInv, Recorded, RunOK, Linked
<1>8. \A w \in Reviewers : ReviewOK(w)'
  <2> SUFFICES ASSUME NEW w \in Reviewers PROVE ReviewOK(w)'
    OBVIOUS
  <2>1. CASE w = v
    BY <1>5, <2>1, IdleReviews DEF ReviewOK
  <2>2. CASE w # v
    <3>1. ReviewOK(w) /\ (review[w].at \in {"publish", "commit"} => review[w].sub # s)
      BY <1>1, <2>2 DEF ChangesInv, ReviewsApart, s
    <3> QED
      BY <1>3, <1>4, <1>5, <2>2, <3>1 DEF ReviewOK
  <2> QED
    BY <2>1, <2>2
<1>9. ReviewsApart' /\ NoNative'
  BY <1>3, <1>5, IdleReviews DEF ChangesInv, ReviewsApart, NoNative
<1>10. PublishedFor'
  <2> SUFFICES ASSUME losses = 0
               PROVE  /\ G!PublishedOnce'
                      /\ \A w \in Subs, i \in 1..Len(version) : version[i].sub = w =>
                           \/ sub'[w].state = "approved"
                           \/ \E x \in Reviewers : review'[x].at = "commit" /\ review'[x].sub = w
    BY <1>3 DEF PublishedFor
  <2>1. G!PublishedOnce'
    BY <1>3 DEF ChangesInv, PublishedFor, G!PublishedOnce
  <2>2. ASSUME NEW w \in Subs, NEW i \in 1..Len(version), version[i].sub = w
        PROVE  \/ sub'[w].state = "approved"
               \/ \E x \in Reviewers : review'[x].at = "commit" /\ review'[x].sub = w
    <3>1. \/ sub[w].state = "approved"
          \/ \E x \in Reviewers : review[x].at = "commit" /\ review[x].sub = w
      BY <2>2 DEF ChangesInv, PublishedFor
    <3> QED
      BY <1>2, <1>4, <1>5, <3>1 DEF s
  <2> QED
    BY <2>1, <2>2
<1>11. OneSync => LinksOK' /\ HeadOK'
  <2>1. OneSync => Exact'
    <3>1. DOMAIN version = 1..Len(version)
      BY ChangeTypes
    <3> QED
      BY <1>1, <1>2, <1>3, <1>4, <3>1 DEF ChangesInv, LinksOK, Exact, Only
  <2>2. OneSync => LinksOK'
    BY <1>3, <2>1 DEF ChangesInv, LinksOK, Only
  <2> QED
    BY <1>3, <2>2, HeadStays DEF ChangesInv
<1> QED
  BY <1>3, <1>6, <1>7, <1>8, <1>9, <1>10, <1>11 DEF ChangesInv, OneSync

-----------------------------------------------------------------------------
(* Syncs.                                                                    *)
RunRows == [at : {"idle", "track", "close", "publish", "list", "link", "approve"},
            head : 0..Len(branch), known : 0..Len(branch), todo : SUBSET Pulls,
            pull : Pulls \cup {"none"}, version : 0..MaxVersion]

LinkRow(row) ==
  /\ row.at \in {"track", "close"} => \A p \in row.todo : change[p].state = "open"
  /\ row.at \in {"link", "approve"} =>
       \A p \in row.todo : change[p].state = "merged" /\ change[p].version = 0
  /\ row.at = "approve" => /\ row.pull \notin row.todo
                           /\ change[row.pull].state = "merged"
                           /\ change[row.pull].version = row.version

LEMMA RunTypes == ASSUME ChangesInv PROVE run \in [Runs -> RunRows]
BY DEF ChangesInv, G!TypeOK, RunRows, G!None

LEMMA RunFacts ==
  ASSUME ChangesInv, NEW t \in Runs
  PROVE  run[t] \in RunRows /\ RunOK(t) /\ (OneSync => LinkRow(run[t]))
BY RunTypes DEF ChangesInv, LinksOK, LinkRow, Only

LEMMA OnlyRun ==
  ASSUME ChangesInv, OneSync, NEW t \in Runs, run[t].at # "idle" PROVE Only(t)
BY DEF ChangesInv, LinksOK, Only

LEMMA RunMoves ==
  ASSUME ChangesInv, NEW t \in Runs, NEW row \in RunRows, run' = [run EXCEPT ![t] = row]
  PROVE  /\ run' \in [Runs -> RunRows] /\ run'[t] = row
         /\ \A q \in Runs : q # t => run'[q] = run[q]
BY RunTypes

LEMMA IdleRuns == ASSUME ChangesInv PROVE G!IdleRun \in RunRows /\ G!IdleRun.at = "idle"
<1>1. 0 \in 0..Len(branch) /\ 0 \in 0..MaxVersion
  BY ChangesAssumption DEF ChangesInv, G!TypeOK
<1> QED
  BY <1>1 DEF G!IdleRun, RunRows, G!None

LEMMA RowHead ==
  ASSUME ChangesInv, NEW row \in RunRows
  PROVE  row.head \in Nat /\ row.head \in 0..Len(branch) /\ synced \in Nat
BY ChangeTypes DEF RunRows

LEMMA RunTyped ==
  ASSUME ChangesInv, UNCHANGED <<branch, pull, review, bound, regime>>, run' \in [Runs -> RunRows],
         change' \in [Pulls -> ChangeRows], sub' \in [Subs -> SubRows],
         version' \in Seq(Versions), Len(version') <= MaxVersion, synced' \in 0..Len(branch),
         orphaned' \subseteq Subs, losses' \in 0..MaxCrash
  PROVE  G!TypeOK'
BY DEF ChangesInv, G!TypeOK, RunRows, ReviewRows, ChangeRows, SubRows, Versions, G!None

(* A sync that changes no row of another's.                                  *)
LEMMA RunAlone ==
  ASSUME ChangesInv, NEW t \in Runs, NEW row \in RunRows, run' = [run EXCEPT ![t] = row],
         UNCHANGED <<branch, pull, change, sub, version, bound, review, regime>>,
         synced' \in 0..Len(branch), orphaned' \subseteq Subs,
         losses' = losses \/ losses' \in 1..MaxCrash,
         RunOK(t)', OneSync => LinkRow(row) /\ Only(t), OneSync /\ HeadOK => HeadOK'
  PROVE  ChangesInv'
<1>1. /\ run' \in [Runs -> RunRows] /\ run'[t] = row
      /\ \A q \in Runs : q # t => run'[q] = run[q]
  BY RunMoves
<1>2. losses' \in 0..MaxCrash
  BY ChangeTypes
<1>3. G!TypeOK'
  BY <1>1, <1>2, RunTyped, ChangeTypes
<1>4. SubsOK' /\ Recorded' /\ Len(branch') # 0 /\ ReviewsApart' /\ NoNative'
  BY DEF ChangesInv, SubsOK, Recorded, ReviewsApart, NoNative, Linked
<1>5. \A v \in Reviewers : ReviewOK(v)'
  BY DEF ChangesInv, ReviewOK
<1>6. \A q \in Runs : RunOK(q)'
  <2> SUFFICES ASSUME NEW q \in Runs, q # t PROVE RunOK(q)'
    OBVIOUS
  <2> QED
    BY <1>1, RunFacts DEF RunOK, Linked
<1>7. PublishedFor'
  <2>1. losses' = 0 => losses = 0
    OBVIOUS
  <2> QED
    BY <2>1 DEF ChangesInv, PublishedFor, G!PublishedOnce
<1>8. ASSUME OneSync PROVE LinksOK'
  <2>1. Exact'
    BY <1>8 DEF ChangesInv, LinksOK, Exact, Only
  <2>2. \A q \in Runs : q # t => run'[q].at = "idle"
    BY <1>1, <1>8 DEF Only
  <2> QED
    BY <1>1, <1>8, <2>1, <2>2 DEF LinksOK, LinkRow, Only
<1> QED
  BY <1>3, <1>4, <1>5, <1>6, <1>7, <1>8 DEF ChangesInv, OneSync

LEMMA HeadRow ==
  ASSUME ChangesInv, OneSync, HeadOK, NEW t \in Runs, run'[t].head \in Nat, synced' \in Nat,
         Only(t), \A q \in Runs : q # t => run'[q] = run[q],
         UNCHANGED <<branch, version, bound, regime>>,
         bound /\ "detach" \notin regime =>
           /\ run'[t].at # "idle" => synced' <= run'[t].head
           /\ run'[t].at \in {"list", "link", "approve"} => Fits(run'[t].head)
           /\ synced' = Len(branch) => Fits(synced')
  PROVE  HeadOK'
<1>1. \A k \in Nat : Fits(k)' <=> Fits(k)
  BY VersionsStay
<1>2. \A q \in Runs : q # t => run'[q].at = "idle"
  BY DEF Only
<1>3. Fits(run'[t].head) <=> Fits(run[t].head)'
  BY <1>1 DEF Fits, G!Unchanged, G!LatestServed, G!Served
<1>4. Fits(synced') <=> Fits(synced)'
  BY <1>1 DEF Fits, G!Unchanged, G!LatestServed, G!Served
<1> QED
  BY <1>2, <1>3, <1>4 DEF HeadOK

LEMMA BeginKeeps == ASSUME ChangesInv, NEW t \in Runs, G!Begin(t) PROVE ChangesInv'
<1> DEFINE open == {p \in Pulls : change[p].state = "open"}
           row == [G!IdleRun EXCEPT !.at = "track", !.head = Len(branch), !.known = synced,
                                    !.todo = open]
<1>1. /\ Len(branch) \in 1..Len(branch) /\ synced \in 0..Len(branch) /\ Len(branch) \in 0..Len(branch)
      /\ synced <= Len(branch)
  BY ChangeTypes DEF ChangesInv
<1>2. row \in RunRows /\ row.at = "track" /\ row.head = Len(branch) /\ row.todo = open
  BY <1>1, IdleRuns DEF RunRows
<1>3. /\ run' = [run EXCEPT ![t] = row] /\ run[t].at = "idle"
      /\ UNCHANGED <<branch, pull, change, sub, version, bound, synced, review, orphaned, losses, regime>>
  BY DEF G!Begin
<1> HIDE DEF row
<1>4. run'[t] = row /\ (\A q \in Runs : q # t => run'[q] = run[q]) /\ (OneSync => Only(t))
  BY <1>2, <1>3, RunMoves DEF G!Begin, OneSync, Only
<1>5. RunOK(t)' /\ LinkRow(row)
  BY <1>1, <1>2, <1>3, <1>4 DEF RunOK, LinkRow, Linked
<1>6. OneSync /\ HeadOK => HeadOK'
  BY <1>1, <1>2, <1>3, <1>4, HeadRow DEF HeadOK
<1> QED
  BY <1>1, <1>2, <1>3, <1>4, <1>5, <1>6, RunAlone, ChangeTypes

LEMMA TrackedKeeps == ASSUME ChangesInv, NEW t \in Runs, G!Tracked(t) PROVE ChangesInv'
<1> DEFINE row == IF G!InStep(t) THEN G!IdleRun ELSE [run[t] EXCEPT !.at = "publish"]
<1>1. /\ run[t] \in RunRows /\ RunOK(t) /\ run[t].at = "track"
      /\ run' = [run EXCEPT ![t] = row]
      /\ UNCHANGED <<branch, pull, change, sub, version, bound, synced, review, orphaned, losses, regime>>
  BY RunFacts DEF G!Tracked
<1>2. /\ row \in RunRows /\ row.at \in {"idle", "publish"}
      /\ row.at # "idle" => row.head = run[t].head
  BY <1>1, IdleRuns DEF RunRows
<1> HIDE DEF row
<1>3. /\ run'[t] = row /\ row.head \in Nat /\ synced \in Nat
      /\ (\A q \in Runs : q # t => run'[q] = run[q]) /\ (OneSync => Only(t))
  BY <1>1, <1>2, RunMoves, RowHead, OnlyRun
<1>4. RunOK(t)' /\ LinkRow(row)
  BY <1>1, <1>2, <1>3 DEF RunOK, LinkRow, Linked
<1>5. OneSync /\ HeadOK => HeadOK'
  BY <1>1, <1>2, <1>3, HeadRow DEF HeadOK
<1> QED
  BY <1>1, <1>2, <1>3, <1>4, <1>5, RunAlone, ChangeTypes

LEMMA ListMergedKeeps == ASSUME ChangesInv, NEW t \in Runs, G!ListMerged(t) PROVE ChangesInv'
<1> DEFINE unlinked == {p \in Pulls : change[p].state = "merged" /\ change[p].version = 0}
           row == [run[t] EXCEPT !.at = "link", !.todo = unlinked]
<1>1. /\ run[t] \in RunRows /\ RunOK(t) /\ run[t].at = "list"
      /\ run' = [run EXCEPT ![t] = row]
      /\ UNCHANGED <<branch, pull, change, sub, version, bound, synced, review, orphaned, losses, regime>>
  BY RunFacts DEF G!ListMerged
<1>2. row \in RunRows /\ row.at = "link" /\ row.head = run[t].head /\ row.todo = unlinked
  BY <1>1 DEF RunRows
<1> HIDE DEF row
<1>3. /\ run'[t] = row /\ row.head \in Nat /\ synced \in Nat
      /\ (\A q \in Runs : q # t => run'[q] = run[q]) /\ (OneSync => Only(t))
  BY <1>1, <1>2, RunMoves, RowHead, OnlyRun
<1>4. RunOK(t)' /\ LinkRow(row)
  BY <1>1, <1>2, <1>3 DEF RunOK, LinkRow, Linked
<1>5. OneSync /\ HeadOK => HeadOK'
  BY <1>1, <1>2, <1>3, HeadRow DEF HeadOK
<1> QED
  BY <1>1, <1>2, <1>3, <1>4, <1>5, RunAlone, ChangeTypes

LEMMA CrashRunKeeps == ASSUME ChangesInv, NEW t \in Runs, G!CrashRun(t) PROVE ChangesInv'
<1>1. /\ run' = [run EXCEPT ![t] = G!IdleRun] /\ losses' \in 1..MaxCrash
      /\ UNCHANGED <<branch, pull, change, sub, version, bound, synced, review, regime>>
  BY ChangesAssumption, ChangeTypes DEF G!CrashRun
<1>2. /\ run'[t] = G!IdleRun /\ G!IdleRun.head \in Nat /\ synced \in Nat
      /\ (\A q \in Runs : q # t => run'[q] = run[q]) /\ (OneSync => Only(t))
  BY <1>1, IdleRuns, RunMoves, RowHead, OnlyRun DEF G!CrashRun
<1>3. RunOK(t)' /\ LinkRow(G!IdleRun)
  BY <1>2, IdleRuns DEF RunOK, LinkRow, Linked
<1>4. OneSync /\ HeadOK => HeadOK'
  BY <1>1, <1>2, IdleRuns, HeadRow, SMTT(30) DEF HeadOK
<1>5. orphaned' \subseteq Subs
  BY ChangeTypes DEF G!CrashRun, G!Waiting
<1> QED
  BY <1>1, <1>2, <1>3, <1>4, <1>5, IdleRuns, RunAlone, ChangeTypes

LEMMA RecordKeeps2 == ASSUME ChangesInv, NEW t \in Runs, G!Record(t) PROVE ChangesInv'
<1>1. /\ run[t] \in RunRows /\ RunOK(t) /\ run[t].at = "link" /\ synced' = run[t].head
      /\ run' = [run EXCEPT ![t] = G!IdleRun]
      /\ UNCHANGED <<branch, pull, change, sub, version, bound, review, orphaned, losses, regime>>
  BY RunFacts DEF G!Record, G!Recorded
<1>2. /\ run'[t] = G!IdleRun /\ G!IdleRun.head \in Nat /\ run[t].head \in Nat
      /\ run[t].head \in 0..Len(branch)
      /\ (\A q \in Runs : q # t => run'[q] = run[q]) /\ (OneSync => Only(t))
  BY <1>1, IdleRuns, RunMoves, RowHead, OnlyRun
<1>3. RunOK(t)' /\ LinkRow(G!IdleRun)
  BY <1>2, IdleRuns DEF RunOK, LinkRow, Linked
<1>4. OneSync /\ HeadOK => HeadOK'
  BY <1>1, <1>2, IdleRuns, HeadRow, SMTT(30) DEF HeadOK
<1> QED
  BY <1>1, <1>2, <1>3, <1>4, IdleRuns, RunAlone, ChangeTypes

-----------------------------------------------------------------------------
(* A sync decides the submissions that wait on a change, which no reviewer   *)
(* holds.                                                                    *)
LEMMA ResolvedIs ==
  ASSUME ChangesInv, NEW p \in Pulls, NEW state \in {"approved", "rejected"}, NEW n \in 0..MaxVersion,
         sub' = G!Resolved(p, state, n)
  PROVE  /\ sub' \in [Subs -> SubRows]
         /\ \A s \in Subs : IF sub[s].change = p /\ sub[s].state = "pending"
                            THEN /\ sub'[s].state = state /\ sub'[s].version = n
                                 /\ sub'[s].content = sub[s].content /\ sub'[s].change = p
                            ELSE sub'[s] = sub[s]
<1>1. sub' = [s \in Subs |-> IF s \in G!Waiting(p)
                             THEN [sub[s] EXCEPT !.state = state, !.version = n] ELSE sub[s]]
  BY DEF G!Resolved
<1>2. ASSUME NEW s \in Subs
      PROVE  /\ sub'[s] \in SubRows
             /\ IF sub[s].change = p /\ sub[s].state = "pending"
                THEN /\ sub'[s].state = state /\ sub'[s].version = n
                     /\ sub'[s].content = sub[s].content /\ sub'[s].change = p
                ELSE sub'[s] = sub[s]
  <2> DEFINE new == [sub[s] EXCEPT !.state = state, !.version = n]
  <2>1. sub[s] \in SubRows
    BY ChangeTypes
  <2>2. /\ new \in SubRows /\ new.state = state /\ new.version = n
        /\ new.content = sub[s].content /\ new.change = sub[s].change
    BY <2>1 DEF SubRows
  <2>3. sub'[s] = IF s \in G!Waiting(p) THEN new ELSE sub[s]
    BY <1>1
  <2>4. s \in G!Waiting(p) <=> sub[s].change = p /\ sub[s].state = "pending"
    BY DEF G!Waiting
  <2> HIDE DEF new
  <2> QED
    BY <2>1, <2>2, <2>3, <2>4
<1> QED
  BY <1>1, <1>2

LEMMA ResolveKeeps ==
  ASSUME ChangesInv, NEW t \in Runs, NEW row \in RunRows, run' = [run EXCEPT ![t] = row],
         NEW p \in Pulls, NEW state \in {"approved", "rejected"}, NEW n \in 0..MaxVersion,
         sub' = G!Resolved(p, state, n), \A s \in G!Waiting(p) : ~G!Locked(s),
         UNCHANGED <<branch, pull, change, version, bound, synced, review, orphaned, losses, regime>>,
         state = "approved" => n \in 1..Len(version) /\ Linked(p),
         OneSync /\ state = "approved" => change[p].state = "merged" /\ change[p].version = n,
         row.at \in {"track", "link"}, row.head = run[t].head, row.todo = run[t].todo,
         run[t].at = (IF row.at = "track" THEN "close" ELSE "approve")
  PROVE  ChangesInv'
<1>1. /\ run' \in [Runs -> RunRows] /\ run'[t] = row
      /\ \A q \in Runs : q # t => run'[q] = run[q]
  BY RunMoves
<1>2. /\ sub' \in [Subs -> SubRows]
      /\ \A s \in Subs : IF sub[s].change = p /\ sub[s].state = "pending"
                         THEN /\ sub'[s].state = state /\ sub'[s].version = n
                              /\ sub'[s].content = sub[s].content /\ sub'[s].change = p
                         ELSE sub'[s] = sub[s]
  BY ResolvedIs
<1>3. \A s \in Subs : G!Locked(s) => sub'[s] = sub[s]
  BY <1>2 DEF G!Waiting
<1>4. G!TypeOK'
  BY <1>1, <1>2, RunTyped, ChangeTypes
<1>5. SubsOK' /\ Recorded' /\ Len(branch') # 0 /\ ReviewsApart' /\ NoNative'
  <2>1. SubsOK'
    BY <1>2 DEF ChangesInv, SubsOK, Linked
  <2> QED
    BY <2>1 DEF ChangesInv, Recorded, ReviewsApart, NoNative
<1>6. \A v \in Reviewers : ReviewOK(v)'
  <2> SUFFICES ASSUME NEW v \in Reviewers PROVE ReviewOK(v)'
    OBVIOUS
  <2>1. review[v].at \in {"publish", "commit"} => G!Locked(review[v].sub)
    BY DEF G!Locked
  <2> QED
    BY <1>3, <2>1, ReviewFacts DEF ReviewOK
<1>7. \A q \in Runs : RunOK(q)'
  <2> SUFFICES ASSUME NEW q \in Runs PROVE RunOK(q)'
    OBVIOUS
  <2>1. RunOK(q) /\ RunOK(t)
    BY RunFacts
  <2>2. CASE q = t
    BY <1>1, <2>1, <2>2 DEF RunOK, Linked
  <2>3. CASE q # t
    BY <1>1, <2>1, <2>3 DEF RunOK, Linked
  <2> QED
    BY <2>2, <2>3
<1>8. PublishedFor'
  <2>1. \A s \in Subs : sub[s].state = "approved" => sub'[s].state = "approved"
    BY <1>2
  <2> QED
    BY <2>1 DEF ChangesInv, PublishedFor, G!PublishedOnce
<1>9. ASSUME OneSync PROVE LinksOK' /\ HeadOK'
  <2>1. LinksOK /\ HeadOK /\ Only(t) /\ LinkRow(run[t])
    BY <1>9, RunFacts, OnlyRun DEF ChangesInv
  <2>2. Exact'
    <3> SUFFICES ASSUME NEW s \in Subs, sub'[s].state = "approved"
                 PROVE  /\ sub'[s].version \in DOMAIN version
                        /\ \/ /\ sub'[s].change # "none"
                              /\ change[sub'[s].change] = [state |-> "merged", version |-> sub'[s].version]
                           \/ version[sub'[s].version].content = sub'[s].content
      BY DEF Exact, G!None
    <3>1. CASE sub[s].change = p /\ sub[s].state = "pending"
      <4>1. sub'[s].change = p /\ sub'[s].version = n /\ state = "approved" /\ p # "none"
        BY <1>2, <3>1, ChangesAssumption
      <4>2. change[p] \in ChangeRows /\ DOMAIN version = 1..Len(version)
        BY ChangeTypes
      <4>3. change[p] = [state |-> "merged", version |-> n]
        BY <1>9, <4>1, <4>2 DEF ChangeRows
      <4> QED
        BY <4>1, <4>2, <4>3
    <3>2. CASE ~(sub[s].change = p /\ sub[s].state = "pending")
      BY <1>2, <2>1, <3>2 DEF LinksOK, Exact, G!None, Only
    <3> QED
      BY <3>1, <3>2
  <2>3. LinksOK'
    BY <1>1, <2>1, <2>2 DEF LinksOK, LinkRow, Only
  <2>4. run'[t].head \in Nat /\ synced' \in Nat
    BY <1>1, RowHead
  <2>5. HeadOK'
    BY <1>1, <1>9, <2>1, <2>4, HeadRow DEF HeadOK
  <2> QED
    BY <2>3, <2>5
<1> QED
  BY <1>4, <1>5, <1>6, <1>7, <1>8, <1>9 DEF ChangesInv, OneSync

LEMMA CloseChangeKeeps == ASSUME ChangesInv, NEW t \in Runs, G!CloseChange(t) PROVE ChangesInv'
<1> DEFINE row == [run[t] EXCEPT !.at = "track", !.pull = "none"]
<1>1. /\ run[t] \in RunRows /\ run[t].at = "close" /\ run[t].pull \in Pulls
      /\ sub' = G!Resolved(run[t].pull, "rejected", 0) /\ run' = [run EXCEPT ![t] = row]
      /\ \A s \in G!Waiting(run[t].pull) : ~G!Locked(s)
      /\ UNCHANGED <<branch, pull, change, version, bound, synced, review, orphaned, losses, regime>>
  BY RunFacts DEF G!CloseChange, RunOK, G!None, Linked
<1>2. row \in RunRows /\ row.at = "track" /\ row.head = run[t].head /\ row.todo = run[t].todo
  BY <1>1 DEF RunRows
<1>3. 0 \in 0..MaxVersion
  BY ChangesAssumption
<1> HIDE DEF row
<1> QED
  BY <1>1, <1>2, <1>3, ResolveKeeps

LEMMA ApproveChangeKeeps == ASSUME ChangesInv, NEW t \in Runs, G!ApproveChange(t) PROVE ChangesInv'
<1> DEFINE row == [run[t] EXCEPT !.at = "link", !.pull = "none", !.version = 0]
           n == run[t].version
<1>1. /\ run[t] \in RunRows /\ run[t].at = "approve" /\ run[t].pull \in Pulls
      /\ n \in 1..Len(version) /\ n \in 0..MaxVersion /\ Linked(run[t].pull)
      /\ sub' = G!Resolved(run[t].pull, "approved", n) /\ run' = [run EXCEPT ![t] = row]
      /\ \A s \in G!Waiting(run[t].pull) : ~G!Locked(s)
      /\ UNCHANGED <<branch, pull, change, version, bound, synced, review, orphaned, losses, regime>>
  <2>1. run[t] \in RunRows /\ run[t].at = "approve" /\ RunOK(t)
    BY RunFacts DEF G!ApproveChange
  <2>2. n \in 0..MaxVersion
    BY <2>1 DEF RunRows
  <2> QED
    BY <2>1, <2>2 DEF G!ApproveChange, RunOK, G!None, Linked
<1>2. row \in RunRows /\ row.at = "link" /\ row.head = run[t].head /\ row.todo = run[t].todo
  <2>1. 0 \in 0..MaxVersion
    BY ChangesAssumption
  <2> QED
    BY <1>1, <2>1 DEF RunRows
<1>3. OneSync => change[run[t].pull].state = "merged" /\ change[run[t].pull].version = n
  BY <1>1, RunFacts DEF LinkRow
<1> HIDE DEF row, n
<1> QED
  BY <1>1, <1>2, <1>3, ResolveKeeps

-----------------------------------------------------------------------------
(* A sync moves a change's row, which a reviewer's new change is not.        *)
LEMMA ChangeMoves ==
  ASSUME ChangesInv, NEW t \in Runs, NEW row \in RunRows, run' = [run EXCEPT ![t] = row],
         NEW p \in Pulls, NEW new \in ChangeRows, change' = [change EXCEPT ![p] = new],
         UNCHANGED <<branch, pull, sub, version, bound, synced, review, orphaned, losses, regime>>,
         change[p].state # "none", new.state # "none",
         run[t].at \in {"track", "link"}, p \in run[t].todo, new.state = pull[p].state \/ new.state = change[p].state,
         row.todo = run[t].todo \ {p}, row.head = run[t].head,
         run[t].at = "track" => row.at \in {"track", "close"},
         run[t].at = "link" => /\ row.at = "approve" /\ row.pull = p /\ new.version = row.version
                               /\ new.state = change[p].state,
         row.at \in {"close", "approve"} => row.pull \in Pulls,
         run[t].at = "track" => new.version = change[p].version,
         row.at = "approve" => row.version \in 1..Len(version)
  PROVE  ChangesInv'
<1>1. /\ run' \in [Runs -> RunRows] /\ run'[t] = row
      /\ \A q \in Runs : q # t => run'[q] = run[q]
  BY RunMoves
<1>2. /\ change' \in [Pulls -> ChangeRows] /\ change'[p] = new
      /\ \A q \in Pulls : q # p => change'[q] = change[q]
  BY ChangeTypes
<1>3. G!TypeOK'
  BY <1>1, <1>2, RunTyped, ChangeTypes
<1>9. \A q \in Pulls : Linked(q) => Linked(q)'
  <2> SUFFICES ASSUME NEW q \in Pulls, Linked(q) PROVE Linked(q)'
    OBVIOUS
  <2>1. q # p \/ (change'[q].state = "merged" /\ (run[t].at = "track" => new.version = change[p].version))
    BY <1>2 DEF ChangesInv, Recorded, Linked
  <2> QED
    BY <1>2, <2>1 DEF Linked
<1>10. Recorded' /\ Len(branch') # 0 /\ ReviewsApart' /\ NoNative'
  BY <1>2 DEF ChangesInv, Recorded, ReviewsApart, NoNative
<1>4. SubsOK' /\ Recorded' /\ Len(branch') # 0 /\ ReviewsApart' /\ NoNative'
  <2>1. SubsOK'
    BY <1>9 DEF ChangesInv, SubsOK, Linked
  <2> QED
    BY <1>10, <2>1
<1>5. \A v \in Reviewers : ReviewOK(v)'
  BY <1>2, ReviewFacts DEF ReviewOK
<1>6. \A q \in Runs : RunOK(q)'
  <2> SUFFICES ASSUME NEW q \in Runs PROVE RunOK(q)'
    OBVIOUS
  <2>1. /\ RunOK(q) /\ run[q].todo \subseteq Pulls /\ RunOK(t) /\ run[t].todo \subseteq Pulls
        /\ run[q] \in RunRows
    BY RunFacts DEF RunRows
  <2>2. \A w \in Pulls : change[w].state # "none" => change'[w].state # "none"
    BY <1>2
  <2>5. \A w \in Pulls : change[w].state = "merged" => change'[w].state = "merged"
    BY <1>2 DEF ChangesInv, Recorded
  <2>3. CASE q = t
    <3>1. /\ \A w \in row.todo : change'[w].state # "none"
          /\ run[t].at = "link" => \A w \in row.todo : change'[w].state = "merged"
      BY <2>1, <2>2, <2>5 DEF RunOK, Linked
    <3>2. row.at = "approve" => Linked(row.pull)'
      BY <1>2, <2>1 DEF RunOK, Linked
    <3> QED
      BY <1>1, <2>1, <2>3, <3>1, <3>2 DEF RunOK, Linked
  <2>4. CASE q # t
    <3>1. run'[q] = run[q] /\ (run[q].at = "approve" => Linked(run[q].pull)')
      BY <1>1, <1>9, <2>1, <2>4 DEF RunOK, Linked
    <3> QED
      BY <2>1, <2>2, <2>5, <3>1 DEF RunOK, Linked
  <2> QED
    BY <2>3, <2>4
<1>7. PublishedFor'
  BY DEF ChangesInv, PublishedFor, G!PublishedOnce
<1>8. ASSUME OneSync PROVE LinksOK' /\ HeadOK'
  <2>1. LinksOK /\ HeadOK /\ Only(t) /\ LinkRow(run[t]) /\ run[t].todo \subseteq Pulls
    BY <1>8, RunFacts, OnlyRun DEF ChangesInv, RunRows
  <2>2. change[p].state # "merged" \/ change[p].version = 0
    BY <2>1 DEF LinkRow
  <2>3. Exact'
    <3> SUFFICES ASSUME NEW s \in Subs, sub[s].state = "approved"
                 PROVE  /\ sub[s].version \in DOMAIN version
                        /\ \/ /\ sub[s].change # "none"
                              /\ change'[sub[s].change] = [state |-> "merged", version |-> sub[s].version]
                           \/ version[sub[s].version].content = sub[s].content
      BY DEF Exact, G!None
    <3>1. sub[s].change \in Pulls \cup {"none"} /\ sub[s].version \in 1..Len(version)
      BY ChangeTypes DEF SubRows, ChangesInv, SubsOK, Linked
    <3>2. sub[s].version # 0 /\ DOMAIN version = 1..Len(version)
      BY <3>1, ChangeTypes
    <3>3. \/ /\ sub[s].change # "none"
             /\ change[sub[s].change] = [state |-> "merged", version |-> sub[s].version]
          \/ version[sub[s].version].content = sub[s].content
      BY <2>1 DEF LinksOK, Exact, G!None, Only
    <3>4. sub[s].change \in Pulls /\ change[sub[s].change] = [state |-> "merged", version |-> sub[s].version]
            => change'[sub[s].change] = change[sub[s].change]
      BY <1>2, <2>2, <3>2
    <3> QED
      BY <3>1, <3>2, <3>3, <3>4
  <2>4. LinkRow(row)'
    <3>1. \A w \in row.todo : w \in Pulls /\ w # p /\ change'[w] = change[w] /\ w \in run[t].todo
      BY <1>2, <2>1
    <3> QED
      BY <1>2, <2>1, <3>1 DEF LinkRow
  <2>5. LinksOK'
    BY <1>1, <2>1, <2>3, <2>4 DEF LinksOK, LinkRow, Only
  <2>6. run'[t].head \in Nat /\ synced' \in Nat
    BY <1>1, RowHead
  <2>7. HeadOK'
    BY <1>1, <1>8, <2>1, <2>6, HeadRow DEF HeadOK
  <2> QED
    BY <2>5, <2>7
<1> QED
  BY <1>3, <1>4, <1>5, <1>6, <1>7, <1>8 DEF ChangesInv, OneSync

LEMMA TrackKeeps ==
  ASSUME ChangesInv, NEW t \in Runs, NEW p \in Pulls, G!Track(t, p) PROVE ChangesInv'
<1> DEFINE new == [change[p] EXCEPT !.state = pull[p].state]
           row == [run[t] EXCEPT !.todo = @ \ {p},
                     !.at = IF pull[p].state = "closed" THEN "close" ELSE @,
                     !.pull = IF pull[p].state = "closed" THEN p ELSE @]
<1>1. /\ run[t] \in RunRows /\ run[t].at = "track" /\ p \in run[t].todo
      /\ change[p].state # "none" /\ pull[p].state # "none"
      /\ run' = [run EXCEPT ![t] = row]
      /\ UNCHANGED <<branch, pull, sub, version, bound, synced, review, orphaned, losses, regime>>
  BY RunFacts DEF G!Track, RunOK, ChangesInv, Recorded, Linked
<1>2. /\ new \in ChangeRows /\ new.state = pull[p].state /\ new.version = change[p].version
      /\ change' = [change EXCEPT ![p] = new]
  <2>1. change[p] \in ChangeRows /\ pull[p].state \in {"none", "open", "merged", "closed"}
    BY ChangeTypes DEF ChangesInv, G!TypeOK
  <2> QED
    BY <2>1 DEF G!Track, ChangeRows
<1>3. /\ row \in RunRows /\ row.todo = run[t].todo \ {p} /\ row.head = run[t].head
      /\ row.at \in {"track", "close"} /\ (row.at = "close" => row.pull \in Pulls)
  <2>1. CASE pull[p].state = "closed"
    BY <1>1, <2>1 DEF RunRows
  <2>2. CASE pull[p].state # "closed"
    BY <1>1, <2>2 DEF RunRows
  <2> QED
    BY <2>1, <2>2
<1> HIDE DEF new, row
<1> QED
  BY <1>1, <1>2, <1>3, ChangeMoves

LEMMA VersionOfIs ==
  ASSUME ChangesInv, NEW p \in Pulls
  PROVE  G!VersionOf(p) \in 0..Len(version) /\ Len(version) \in Nat
<1> DEFINE same == {n \in DOMAIN version : version[n].content = pull[p].content}
<1>1. Len(version) \in Nat /\ DOMAIN version = 1..Len(version)
  BY ChangeTypes
<1>2. same # {} => G!Newest(same) \in same
  BY <1>1, NewestIs
<1> QED
  BY <1>1, <1>2 DEF G!VersionOf

LEMMA LinkKeeps2 ==
  ASSUME ChangesInv, NEW t \in Runs, NEW p \in Pulls, G!Link(t, p) PROVE ChangesInv'
<1> DEFINE n == G!VersionOf(p)
<1>1. /\ run[t] \in RunRows /\ run[t].at = "link" /\ p \in run[t].todo /\ RunOK(t)
      /\ OneSync => LinkRow(run[t])
      /\ UNCHANGED <<branch, pull, sub, version, bound, synced, review, orphaned, losses, regime>>
  BY RunFacts DEF G!Link
<1>2. n \in 0..Len(version) /\ n \in 0..MaxVersion /\ Len(version) \in Nat
  <2>1. n \in 0..Len(version) /\ Len(version) \in Nat /\ Len(version) <= MaxVersion
    BY VersionOfIs, ChangeTypes
  <2> QED
    BY <2>1, ChangesAssumption
<1>3. CASE n = 0
  <2> DEFINE row == [run[t] EXCEPT !.todo = @ \ {p}]
  <2>1. run' = [run EXCEPT ![t] = row] /\ UNCHANGED change
    BY <1>1, <1>3 DEF G!Link, RunRows
  <2>2. /\ row \in RunRows /\ row.at = "link" /\ row.head = run[t].head
        /\ row.todo = run[t].todo \ {p}
    BY <1>1 DEF RunRows
  <2> HIDE DEF row, n
  <2>3. /\ run'[t] = row /\ row.head \in Nat /\ synced \in Nat
        /\ (\A q \in Runs : q # t => run'[q] = run[q]) /\ (OneSync => Only(t))
    BY <1>1, <2>1, <2>2, RunMoves, RowHead, OnlyRun
  <2>4. RunOK(t)' /\ (OneSync => LinkRow(row))
    BY <1>1, <2>1, <2>2, <2>3 DEF RunOK, LinkRow, Linked
  <2>5. OneSync /\ HeadOK => HeadOK'
    BY <1>1, <2>1, <2>2, <2>3, HeadRow DEF HeadOK
  <2> QED
    BY <1>1, <2>1, <2>2, <2>3, <2>4, <2>5, RunAlone, ChangeTypes
<1>4. change[p].state # "none"
  BY <1>1 DEF RunOK, Linked
<1>5. CASE n # 0
  <2> DEFINE row == [run[t] EXCEPT !.todo = @ \ {p}, !.at = "approve", !.pull = p, !.version = n]
             new == [change[p] EXCEPT !.version = n]
  <2>1. run' = [run EXCEPT ![t] = row] /\ change' = [change EXCEPT ![p] = new]
    BY <1>1, <1>5 DEF G!Link, RunRows
  <2>2. /\ row \in RunRows /\ row.at = "approve" /\ row.head = run[t].head
        /\ row.todo = run[t].todo \ {p} /\ row.pull = p /\ row.version = n
    BY <1>1, <1>2 DEF RunRows
  <2>3. new \in ChangeRows /\ new.version = n /\ new.state = change[p].state
    BY <1>2, ChangeTypes DEF ChangeRows
  <2>4. n \in 1..Len(version)
    BY <1>2, <1>5
  <2> HIDE DEF row, new, n
  <2> QED
    <3>1. /\ new.state = pull[p].state \/ new.state = change[p].state
          /\ run[t].at \in {"track", "link"} /\ change[p].state # "none" /\ new.state # "none"
          /\ run[t].at = "track" => row.at \in {"track", "close"}
          /\ run[t].at = "link" => /\ row.at = "approve" /\ row.pull = p /\ new.version = row.version
                                   /\ new.state = change[p].state
          /\ row.at \in {"close", "approve"} => row.pull \in Pulls
          /\ row.at = "approve" => row.version \in 1..Len(version)
      BY <1>1, <1>4, <2>2, <2>3, <2>4
    <3> QED
      BY <1>1, <2>1, <2>2, <2>3, <3>1, ChangeMoves
<1> QED
  BY <1>3, <1>5

(* A sync's publish of the head it read.                                     *)
LEMMA PublishKeeps == ASSUME ChangesInv, NEW t \in Runs, G!Publish(t) PROVE ChangesInv'
<1> DEFINE row == [run[t] EXCEPT !.at = "list"]
           h == run[t].head
           c == branch[h]
<1>1. /\ run[t] \in RunRows /\ run[t].at = "publish" /\ h \in 1..Len(branch)
      /\ run' = [run EXCEPT ![t] = row] /\ Len(version) < MaxVersion
      /\ version' = IF bound THEN G!Published(c, h, "none") ELSE version
      /\ UNCHANGED <<branch, pull, change, sub, bound, synced, review, orphaned, losses, regime>>
  BY RunFacts DEF G!Publish, RunOK, G!None, Linked
<1>2. /\ c \in Contents /\ h \in 0..MaxCommit /\ Len(branch) \in Nat
      /\ synced \in 0..Len(branch) /\ version \in Seq(Versions) /\ Len(version) \in Nat
  <2>1. branch \in Seq(Contents) /\ Len(branch) <= MaxCommit
    BY ChangeTypes
  <2> QED
    BY <1>1, <2>1, ChangeTypes, ChangesAssumption
<1>3. row \in RunRows /\ row.at = "list" /\ row.head = h
  BY <1>1 DEF RunRows
<1> HIDE DEF row, c, h
<1>13. ASSUME bound
       PROVE  version' = G!Published(c, h, "none") /\ "none" \in Subs \cup {"none"}
  BY <1>1, <1>13
<1>14. ASSUME bound
       PROVE  \/ c \in Blocked \/ (G!Unchanged(c) /\ version' = version)
              \/ version' # <<>> /\ version'[Len(version')].content = c
  BY <1>1, <1>2, <1>13, <1>14, PublishedIs
<1>15. /\ version' \in Seq(Versions) /\ Len(version') <= MaxVersion
       /\ Len(version) <= Len(version')
       /\ \A i \in 1..Len(version) : version'[i] = version[i]
  <2>1. CASE bound
    BY <1>1, <1>2, <1>13, <2>1, PublishedIs
  <2>2. CASE ~bound
    <3>1. version' = version /\ Len(version) <= MaxVersion
      BY <1>1, <1>2, <2>2, ChangesAssumption
    <3> QED
      BY <1>2, <3>1
  <2> QED
    BY <2>1, <2>2
<1>16. \A i \in 1..Len(version') : i <= Len(version) \/ version'[i].sub = "none"
  <2>1. CASE bound
    BY <1>1, <1>2, <1>13, <2>1, PublishedIs
  <2>2. CASE ~bound
    BY <1>1, <1>2, <2>2
  <2> QED
    BY <2>1, <2>2
<1>17. Len(version') \in Nat
  BY <1>15
<1>4. /\ version' \in Seq(Versions) /\ Len(version') <= MaxVersion
      /\ Len(version) <= Len(version') /\ Len(version') \in Nat
      /\ \A i \in 1..Len(version) : version'[i] = version[i]
      /\ \A i \in 1..Len(version') : i <= Len(version) \/ version'[i].sub = "none"
  BY <1>15, <1>16, <1>17, Zenon
<1>5. /\ run' \in [Runs -> RunRows] /\ run'[t] = row
      /\ \A q \in Runs : q # t => run'[q] = run[q]
  BY <1>1, <1>3, RunMoves
<1>6. G!TypeOK'
  BY <1>1, <1>4, <1>5, RunTyped, ChangeTypes
<1>7. SubsOK' /\ Recorded' /\ Len(branch') # 0 /\ ReviewsApart' /\ NoNative'
  <2>1. SubsOK'
    BY <1>1, <1>4 DEF ChangesInv, SubsOK, Linked
  <2> QED
    BY <1>1, <2>1 DEF ChangesInv, Recorded, ReviewsApart, NoNative
<1>8. \A v \in Reviewers : ReviewOK(v)'
  <2> SUFFICES ASSUME NEW v \in Reviewers PROVE ReviewOK(v)'
    OBVIOUS
  <2> QED
    BY <1>1, <1>2, <1>4, ReviewFacts DEF ReviewOK
<1>9. \A q \in Runs : RunOK(q)'
  <2> SUFFICES ASSUME NEW q \in Runs PROVE RunOK(q)'
    OBVIOUS
  <2>1. RunOK(q) /\ RunOK(t)
    BY RunFacts
  <2>2. CASE q = t
    BY <1>1, <1>3, <1>5, <2>1, <2>2 DEF RunOK, h, Linked
  <2>3. CASE q # t
    BY <1>1, <1>2, <1>4, <1>5, <2>1, <2>3 DEF RunOK, Linked
  <2> QED
    BY <2>2, <2>3
<1>10. PublishedFor'
  <2> SUFFICES ASSUME losses = 0
               PROVE  /\ G!PublishedOnce'
                      /\ \A s \in Subs, i \in 1..Len(version') : version'[i].sub = s =>
                           \/ sub[s].state = "approved"
                           \/ \E v \in Reviewers : review[v].at = "commit" /\ review[v].sub = s
    BY <1>1 DEF PublishedFor
  <2>1. \A s \in Subs, i \in 1..Len(version') : version'[i].sub = s =>
          i \in 1..Len(version) /\ version[i].sub = s
    BY <1>2, <1>4, ChangesAssumption
  <2>2. DOMAIN version = 1..Len(version) /\ DOMAIN version' = 1..Len(version')
    BY <1>2, <1>4
  <2>3. G!PublishedOnce'
    BY <1>1, <2>1, <2>2 DEF ChangesInv, PublishedFor, G!PublishedOnce
  <2> QED
    BY <2>1, <2>3 DEF ChangesInv, PublishedFor
<1>11. ASSUME OneSync PROVE LinksOK' /\ HeadOK'
  <2>1. LinksOK /\ HeadOK /\ Only(t)
    BY <1>1, <1>11, OnlyRun DEF ChangesInv
  <2>2. Exact'
    <3>1. DOMAIN version = 1..Len(version) /\ DOMAIN version' = 1..Len(version')
      BY <1>2, <1>4
    <3>2. \A i \in DOMAIN version : i \in DOMAIN version' /\ version'[i] = version[i]
      BY <1>2, <1>4, <3>1
    <3> QED
      BY <1>1, <2>1, <3>2 DEF LinksOK, Exact, Only
  <2>3. LinksOK'
    BY <1>1, <1>3, <1>5, <2>1, <2>2 DEF LinksOK, Only
  <2>4. HeadOK'
    <3> SUFFICES ASSUME bound, "detach" \notin regime
                 PROVE  /\ synced <= h /\ Fits(run[t].head)'
                        /\ synced = Len(branch) => Fits(synced)'
      BY <1>1, <1>3, <1>5, <2>1 DEF HeadOK, Only
    <3>1. synced <= h
      BY <1>1, <2>1 DEF HeadOK, h
    <3>2. run'[t].head = h /\ branch' = branch
      BY <1>1, <1>3, <1>5
    <3>3. branch'[run'[t].head] = c /\ Blocked' = Blocked
      BY <3>2 DEF c
    <3>4. Fits(run[t].head)'
      <4>1. CASE c \in Blocked
        BY <3>3, <4>1 DEF Fits
      <4>2. CASE G!Unchanged(c) /\ version' = version
        <5>1. G!LatestServed # 0 /\ version[G!LatestServed].content = c
          BY <4>2 DEF G!Unchanged
        <5>2. G!LatestServed' = G!LatestServed
          BY <4>2 DEF G!LatestServed, G!Served
        <5>3. G!LatestServed' # 0 /\ version'[G!LatestServed'].content = branch'[run'[t].head]
          BY <3>3, <4>2, <5>1, <5>2
        <5> QED
          BY <5>3 DEF Fits, G!Unchanged
      <4>3. CASE version' # <<>> /\ version'[Len(version')].content = c
        BY <3>3, <4>3 DEF Fits
      <4> QED
        BY <1>14, <4>1, <4>2, <4>3
    <3>5. ASSUME synced = Len(branch) PROVE Fits(synced)'
      <4>1. synced' = run'[t].head
        BY <1>1, <1>2, <3>1, <3>2, <3>5
      <4> QED
        BY <3>4, <4>1 DEF Fits
    <3> QED
      BY <3>1, <3>4, <3>5
  <2> QED
    BY <2>3, <2>4
<1> QED
  BY <1>1, <1>6, <1>7, <1>8, <1>9, <1>10, <1>11 DEF ChangesInv, OneSync

-----------------------------------------------------------------------------
LEMMA ChangesKept == ChangesInv /\ [GitNext]_every => ChangesInv'
<1> SUFFICES ASSUME ChangesInv, [GitNext]_every PROVE ChangesInv'
  OBVIOUS
<1>1. CASE UNCHANGED gVars
  <2>1. /\ UNCHANGED <<branch, pull, change, sub, version, bound, synced, run, review, orphaned,
                       losses, regime>>
    BY <1>1 DEF gVars
  <2>2. G!TypeOK' /\ SubsOK' /\ ReviewsApart' /\ NoNative' /\ PublishedFor' /\ Recorded'
        /\ Len(branch') # 0
    BY <2>1 DEF ChangesInv, G!TypeOK, SubsOK, ReviewsApart, NoNative, PublishedFor,
       G!PublishedOnce, Recorded, Linked
  <2>3. (\A v \in Reviewers : ReviewOK(v)') /\ (\A t \in Runs : RunOK(t)')
    BY <2>1 DEF ChangesInv, ReviewOK, RunOK, Linked
  <2>4. OneSync => LinksOK' /\ HeadOK'
    BY <2>1, HeadStays DEF ChangesInv, LinksOK, Exact, Only
  <2> QED
    BY <2>1, <2>2, <2>3, <2>4 DEF ChangesInv, OneSync
<1>2. ASSUME G!Next PROVE ChangesInv'
  <2>1. ASSUME NEW c \in Contents, G!Push(c) \/ \E p \in Pulls : G!Merge(p, c) PROVE ChangesInv'
    BY <2>1, PushKeeps, MergeKeeps
  <2>2. ASSUME NEW p \in Pulls, G!Close(p) PROVE ChangesInv'
    BY <2>2, CloseKeeps
  <2>3. ASSUME NEW s \in Subs, G!Reject(s) \/ \E c \in Contents : G!Submit(s, c) PROVE ChangesInv'
    BY <2>3, RejectKeeps, SubmitKeeps2
  <2>4. ASSUME G!Detach \/ G!Adopt PROVE ChangesInv'
    BY <2>4, BoundMoves DEF G!Detach, G!Adopt
  <2>5. ASSUME NEW v \in Reviewers,
               \/ G!RecordChange(v) \/ G!Attach(v) \/ G!PublishNative(v)
               \/ G!CommitNative(v) \/ G!CrashReview(v)
        PROVE  ChangesInv'
    BY <2>5, RecordChangeKeeps, AttachKeeps, PublishNativeKeeps, CommitNativeKeeps, CrashReviewKeeps
  <2>6. ASSUME NEW v \in Reviewers,
               \/ \E s \in Subs : G!ApproveAsChange(v, s) \/ G!ApproveNative(v, s)
               \/ \E c \in Contents : G!Propose(v, c)
               \/ \E p \in Pulls : G!OpenPull(v, p)
        PROVE  ChangesInv'
    BY <2>6, ApproveAsChangeKeeps, ApproveNativeKeeps, ProposeKeeps, OpenPullKeeps
  <2>7. ASSUME NEW t \in Runs,
               \/ G!Begin(t) \/ G!CloseChange(t) \/ G!Tracked(t) \/ G!Publish(t) \/ G!ListMerged(t)
               \/ G!ApproveChange(t) \/ G!Record(t) \/ G!CrashRun(t)
        PROVE  ChangesInv'
    BY <2>7, BeginKeeps, CloseChangeKeeps, TrackedKeeps, PublishKeeps, ListMergedKeeps,
       ApproveChangeKeeps, RecordKeeps2, CrashRunKeeps
  <2>8. ASSUME NEW t \in Runs, NEW p \in Pulls, G!Track(t, p) \/ G!Link(t, p) PROVE ChangesInv'
    BY <2>8, TrackKeeps, LinkKeeps2
  <2> QED
    BY <1>2, <2>1, <2>2, <2>3, <2>4, <2>5, <2>6, <2>7, <2>8 DEF G!Next, G!Sync
<1> QED
  BY <1>1, <1>2 DEF GitNext, Changes, Sync, Checks, App, every

(* The invariant of submissions and changes (gitsync/changes.go,             *)
(* submissions/store.go).                                                    *)
THEOREM ChangesInvariant == GitSpec => []ChangesInv
<1>1. GitInit => ChangesInv
  BY ChangesInit
<1>2. ChangesInv /\ [GitNext]_every => ChangesInv'
  BY ChangesKept
<1> QED
  BY <1>1, <1>2, PTL DEF GitSpec

(* For every number of submissions, pull requests, reviewers, contents and   *)
(* versions, and every overlap of syncs: an approved submission names one    *)
(* with its own content or the one its change was linked to, no two          *)
(* reviewers publish it, and after a sync that met no other the connection   *)
(* is in step with its branch (gitsync/changes.go, submissions/routes.go).   *)
THEOREM ApprovalsHaveVersions == GitSpec => []ApprovalHasItsVersion
<1>1. ChangesInv => ApprovalHasItsVersion
  <2> SUFFICES ASSUME ChangesInv PROVE ApprovalHasItsVersion
    OBVIOUS
  <2>1. G!TypeOK /\ (OneSync => Exact /\ HeadOK)
    BY DEF ChangesInv, LinksOK
  <2>2. G!PublishedOnce
    <3>1. CASE losses = 0
      BY <3>1 DEF ChangesInv, PublishedFor
    <3>2. CASE losses # 0
      BY <3>2 DEF G!PublishedOnce
    <3> QED
      BY <3>1, <3>2
  <2>3. G!SyncedIsInStep
    BY <2>1 DEF HeadOK, Fits, G!SyncedIsInStep, OneSync
  <2>4. G!ApprovalHasItsVersion
    <3> SUFFICES ASSUME NEW s \in Subs, sub[s].state = "approved"
                 PROVE  /\ sub[s].version \in DOMAIN version
                        /\ \/ version[sub[s].version].content = sub[s].content
                           \/ /\ sub[s].change # "none" /\ change[sub[s].change].state = "merged"
                              /\ change[sub[s].change].version \in
                                   IF "overlap" \in regime THEN DOMAIN version ELSE {sub[s].version}
      BY DEF G!ApprovalHasItsVersion, G!None
    <3>1. DOMAIN version = 1..Len(version)
      BY ChangeTypes
    <3>2. CASE OneSync
      <4>1. Exact /\ "overlap" \notin regime /\ (sub[s].change # "none" => sub[s].change \in Pulls)
        BY <2>1, <3>2, ChangeTypes DEF OneSync, SubRows
      <4>2. CASE version[sub[s].version].content = sub[s].content
        BY <4>1, <4>2 DEF Exact
      <4>3. CASE version[sub[s].version].content # sub[s].content
        <5>1. /\ sub[s].version \in DOMAIN version /\ sub[s].change # "none"
              /\ change[sub[s].change] = [state |-> "merged", version |-> sub[s].version]
          BY <4>1, <4>3 DEF Exact
        <5>2. change[sub[s].change].state = "merged" /\ change[sub[s].change].version = sub[s].version
          BY <5>1
        <5> QED
          BY <4>1, <5>1, <5>2
      <4> QED
        BY <4>2, <4>3
    <3>3. CASE ~OneSync
      BY <3>1, <3>3, ChangesAssumption DEF ChangesInv, SubsOK, Linked, OneSync
    <3> QED
      BY <3>2, <3>3
  <2> QED
    BY <2>1, <2>2, <2>3, <2>4 DEF ApprovalHasItsVersion
<1> QED
  BY <1>1, ChangesInvariant, PTL

-----------------------------------------------------------------------------
(* What a step of the submissions leaves of one that is decided, and of the  *)
(* change one waits on.                                                      *)
LEMMA DecisionsStay ==
  ASSUME ChangesInv, [GitNext]_every PROVE G!DecidedStaysStep /\ G!WaitsOnOneChangeStep
<1> DEFINE Kept(s) == /\ sub[s].state \in {"approved", "rejected"} => sub'[s] = sub[s]
                      /\ sub[s].change # "none" => sub'[s].change = sub[s].change
<1> SUFFICES ASSUME NEW s \in Subs PROVE Kept(s)
  BY DEF G!DecidedStaysStep, G!WaitsOnOneChangeStep, G!None
<1>1. sub \in [Subs -> SubRows]
  BY SubTypes
<1>2. CASE UNCHANGED sub
  BY <1>2
<1>3. ASSUME NEW w \in Subs, NEW c \in Contents, G!Submit(w, c) PROVE Kept(s)
  BY <1>1, <1>3 DEF G!Submit, SubRows
<1>4. ASSUME NEW w \in Subs, G!Reject(w) PROVE Kept(s)
  BY <1>1, <1>4 DEF G!Reject, G!Decidable, SubRows
<1>5. ASSUME NEW v \in Reviewers, G!Attach(v) PROVE Kept(s)
  BY <1>1, <1>5 DEF G!Attach, G!Attachable, G!None, SubRows
<1>6. ASSUME NEW v \in Reviewers, G!CommitNative(v) PROVE Kept(s)
  <2>1. review[v].at = "commit" /\ ReviewOK(v)
    BY <1>6 DEF G!CommitNative, ChangesInv
  <2>2. sub[review[v].sub].state = "pending" /\ review[v].sub \in Subs
    BY <2>1 DEF ReviewOK
  <2> QED
    BY <1>1, <1>6, <2>2 DEF G!CommitNative, SubRows
<1>7. ASSUME NEW t \in Runs, G!CloseChange(t) \/ G!ApproveChange(t) PROVE Kept(s)
  <2>1. \E n, state : sub' = G!Resolved(run[t].pull, state, n)
    BY <1>7 DEF G!CloseChange, G!ApproveChange
  <2>2. \A n, state : sub' = G!Resolved(run[t].pull, state, n) =>
          sub'[s] = IF s \in G!Waiting(run[t].pull)
                    THEN [sub[s] EXCEPT !.state = state, !.version = n] ELSE sub[s]
    BY DEF G!Resolved
  <2> QED
    BY <1>1, <2>1, <2>2 DEF G!Waiting, SubRows
<1>8. ASSUME G!Next PROVE Kept(s)
  <2>1. ASSUME NEW c \in Contents, G!Push(c) \/ \E p \in Pulls : G!Merge(p, c) PROVE UNCHANGED sub
    BY <2>1 DEF G!Push, G!Merge
  <2>2. ASSUME NEW p \in Pulls, G!Close(p) PROVE UNCHANGED sub
    BY <2>2 DEF G!Close
  <2>3. ASSUME G!Detach \/ G!Adopt PROVE UNCHANGED sub
    BY <2>3 DEF G!Detach, G!Adopt
  <2>4. ASSUME NEW v \in Reviewers,
               \/ G!RecordChange(v) \/ G!PublishNative(v) \/ G!CrashReview(v)
               \/ \E w \in Subs : G!ApproveAsChange(v, w) \/ G!ApproveNative(v, w)
               \/ \E c \in Contents : G!Propose(v, c)
               \/ \E p \in Pulls : G!OpenPull(v, p)
        PROVE  UNCHANGED sub
    BY <2>4, ZenonT(30) DEF G!RecordChange, G!PublishNative, G!CrashReview, G!ApproveAsChange,
       G!ApproveNative, G!Propose, G!OpenPull
  <2>5. ASSUME NEW t \in Runs,
               \/ G!Begin(t) \/ G!Tracked(t) \/ G!Publish(t) \/ G!ListMerged(t)
               \/ G!Record(t) \/ G!CrashRun(t)
               \/ \E p \in Pulls : G!Track(t, p) \/ G!Link(t, p)
        PROVE  UNCHANGED sub
    BY <2>5, Zenon DEF G!Begin, G!Tracked, G!Publish, G!ListMerged, G!Record, G!CrashRun, G!Track, G!Link
  <2> HIDE DEF Kept
  <2> QED
    BY <1>2, <1>3, <1>4, <1>5, <1>6, <1>7, <1>8, <2>1, <2>2, <2>3, <2>4, <2>5 DEF G!Next, G!Sync
<1> HIDE DEF Kept
<1> QED
  BY <1>2, <1>8 DEF GitNext, Changes, Sync, Checks, App, every, gVars

-----------------------------------------------------------------------------
(* The sync of a connection.  A sync that nobody disturbed still holds what  *)
(* the registry has: the bindings it read are bound rows of their names, and *)
(* each folder it is done with is ignored, refused, or its row's binding.    *)
SkillRows == [name : S!Names \cup {"none"}, path : S!Paths \cup {"none"},
              removed : BOOLEAN, versions : BOOLEAN]
Bindings  == [id : Ids, name : S!Names, path : S!Paths, removed : BOOLEAN]
Trees     == [S!Paths -> S!Names \cup {"none"}]
TreeRuns  == [at : {"idle", "rename", "folders", "publish", "bind", "removals"},
              tree : Trees, ignored : SUBSET S!Names, rows : SUBSET Bindings,
              bound : SUBSET Bindings, folders : SUBSET S!Paths,
              path : S!Paths \cup {"none"}, refused : Trees, created : BOOLEAN]

OneNameEach ==
  /\ \A i, j \in Ids : skill[i].name = skill[j].name /\ skill[i].name # "none" => i = j
  /\ \A i \in Ids : skill[i].name = "none" => skill[i] = S!NoSkill

SyncTypes ==
  /\ tree \in Trees /\ skill \in [Ids -> SkillRows] /\ OneNameEach
  /\ ignored \in SUBSET S!Names /\ refused \in Trees
  /\ connected \in BOOLEAN /\ disturbed \in BOOLEAN /\ stranded \in SUBSET Ids
  /\ syncRun \in TreeRuns
  /\ pushes \in 0..MaxTree /\ people \in 0..MaxPeople /\ deaths \in 0..MaxCrash

(* The name of the folder that is being published and bound.                 *)
Now == syncRun.tree[syncRun.path]

SyncShape ==
  /\ \A b, c \in syncRun.rows : b.id = c.id => b = c
  /\ \A b \in syncRun.rows, c \in syncRun.bound : b.id # c.id
  /\ syncRun.folders \subseteq S!Folders(syncRun.tree)
  /\ syncRun.at = "rename" => syncRun.folders = S!Folders(syncRun.tree)
  /\ syncRun.at \notin {"rename"} => syncRun.rows = {}
  /\ syncRun.at = "removals" => syncRun.folders = {}
  /\ syncRun.created => syncRun.at \in {"publish", "bind"}

NowOK ==
  syncRun.at \in {"publish", "bind"} =>
    /\ syncRun.path \in syncRun.folders /\ S!Accepted(syncRun.path)
    /\ syncRun.created <=> ~ \E b \in syncRun.bound : b.name = Now

BoundHaveVersions == syncRun.at = "bind" => \A i \in S!Row(Now) : skill[i].versions

Versionless ==
  \A i \in Ids : skill[i] # S!NoSkill /\ ~skill[i].versions =>
    \/ i \in stranded
    \/ syncRun.created /\ i \in S!Row(Now)

(* The bindings as they were read or renamed.                                *)
HeldBindings == syncRun.rows \cup syncRun.bound

BindingsHold ==
  /\ connected /\ syncRun.ignored = ignored
  /\ \A b \in HeldBindings :
       /\ skill[b.id].name = b.name
       /\ b.removed /\ S!Declaring(syncRun.tree, b.name) = {} => skill[b.id].removed
  /\ \A i \in Ids : S!Bound(i) =>
       (\E b \in HeldBindings : b.id = i) \/ S!Declaring(syncRun.tree, skill[i].name) # {}

Settled(p) ==
  \/ syncRun.tree[p] \in syncRun.ignored
  \/ syncRun.refused[p] = syncRun.tree[p]
  \/ /\ S!Accepted(p)
     /\ \E i \in S!Row(syncRun.tree[p]) : skill[i].path = p /\ ~skill[i].removed

GoneAreRemoved ==
  \A i \in Ids : S!Bound(i) /\ S!Declaring(syncRun.tree, skill[i].name) = {} => skill[i].removed

Undisturbed ==
  /\ syncRun.at # "idle" =>
       /\ BindingsHold
       /\ \A p \in S!Folders(syncRun.tree) : p \notin syncRun.folders => Settled(p)
       /\ syncRun.at = "bind" => S!Row(Now) # {}
       /\ syncRun.at = "removals" => GoneAreRemoved
  /\ S!SyncMatchesTree

SyncInv ==
  /\ SyncTypes /\ SyncShape /\ NowOK /\ BoundHaveVersions /\ Versionless
  /\ ~disturbed => Undisturbed

LEMMA NamesApart ==
  /\ "none" \notin S!Names /\ "none" \notin S!Paths
  /\ MaxTree \in Nat /\ MaxPeople \in Nat /\ MaxCrash \in Nat
BY SyncAssumption, ChangesAssumption DEF S!Names, S!Paths

LEMMA IdleRowIs ==
  /\ S!IdleRun \in TreeRuns /\ S!IdleRun.at = "idle" /\ S!IdleRun.rows = {}
  /\ S!IdleRun.folders = {} /\ ~S!IdleRun.created /\ S!IdleRun.bound = {}
BY DEF S!IdleRun, TreeRuns, Trees, S!None

LEMMA NoSkillIs ==
  /\ S!NoSkill \in SkillRows /\ S!NoSkill.name = "none" /\ S!NoSkill.path = "none"
  /\ S!NoSkill.removed = FALSE /\ S!NoSkill.versions = FALSE
BY DEF S!NoSkill, SkillRows, S!None

LEMMA SyncInit == GitInit => SyncInv
<1> SUFFICES ASSUME S!Init PROVE SyncInv
  BY DEF GitInit
<1>1. syncRun = S!IdleRun /\ ~disturbed /\ disturbed \in BOOLEAN
  BY DEF S!Init
<1>2. SyncTypes
  <2>1. skill \in [Ids -> SkillRows] /\ OneNameEach
    BY NoSkillIs DEF S!Init, OneNameEach
  <2> QED
    BY <1>1, <2>1, IdleRowIs, NamesApart DEF S!Init, SyncTypes, Trees, S!None
<1>3. SyncShape /\ NowOK /\ BoundHaveVersions
  BY <1>1, IdleRowIs DEF SyncShape, NowOK, BoundHaveVersions
<1>4. Versionless
  BY DEF S!Init, Versionless
<1>5. Undisturbed
  BY <1>1, IdleRowIs DEF Undisturbed, S!SyncMatchesTree
<1> QED
  BY <1>2, <1>3, <1>4, <1>5 DEF SyncInv

(* What a person does: a row is gone, has versions, or keeps its name and    *)
(* whether it has any.                                                       *)
LEMMA PersonKeeps ==
  ASSUME SyncInv, UNCHANGED <<tree, syncRun, pushes, deaths>>, disturbed' = TRUE,
         people' \in 0..MaxPeople, skill' \in [Ids -> SkillRows], OneNameEach',
         ignored' \in SUBSET S!Names, refused' \in Trees, connected' \in BOOLEAN,
         stranded' \in SUBSET Ids,
         \A i \in Ids :
           \/ skill'[i] = S!NoSkill \/ skill'[i].versions
           \/ /\ skill'[i].name = skill[i].name /\ skill'[i].versions = skill[i].versions
              /\ i \in stranded => i \in stranded'
  PROVE  SyncInv'
<1>1. SyncTypes' /\ SyncShape'
  BY DEF SyncInv, SyncTypes, SyncShape
<1>2. NowOK'
  BY DEF SyncInv, NowOK, Now, S!Accepted, S!None
<1>3. BoundHaveVersions'
  <2> SUFFICES ASSUME syncRun.at = "bind", NEW i \in Ids, skill'[i].name = Now
               PROVE  skill'[i].versions
    BY DEF BoundHaveVersions, S!Row, Now
  <2>1. Now # "none" /\ (skill[i].name = Now => skill[i].versions)
    BY DEF SyncInv, NowOK, BoundHaveVersions, S!Row, S!Accepted, S!None, Now
  <2> QED
    BY <2>1, NoSkillIs
<1>4. Versionless'
  <2> SUFFICES ASSUME NEW i \in Ids, skill'[i] # S!NoSkill, ~skill'[i].versions
               PROVE  i \in stranded' \/ (syncRun.created /\ skill'[i].name = Now)
    BY DEF Versionless, S!Row, Now
  <2>1. skill'[i].name # "none"
    BY DEF OneNameEach
  <2>2. /\ skill'[i].name = skill[i].name /\ ~skill[i].versions
        /\ (i \in stranded => i \in stranded') /\ skill[i] # S!NoSkill
    BY <2>1, NoSkillIs
  <2> QED
    BY <2>2 DEF SyncInv, Versionless, S!Row
<1> QED
  BY <1>1, <1>2, <1>3, <1>4 DEF SyncInv

LEMMA TreeFacts ==
  ASSUME SyncInv
  PROVE  /\ skill \in [Ids -> SkillRows] /\ OneNameEach /\ ignored \in SUBSET S!Names
         /\ refused \in Trees /\ connected \in BOOLEAN /\ stranded \in SUBSET Ids
         /\ people \in 0..MaxPeople /\ pushes \in 0..MaxTree /\ deaths \in 0..MaxCrash
         /\ syncRun \in TreeRuns /\ tree \in Trees /\ disturbed \in BOOLEAN
BY DEF SyncInv, SyncTypes

LEMMA PersonActs ==
  ASSUME SyncInv, S!Person PROVE people' \in 0..MaxPeople /\ disturbed' = TRUE
BY TreeFacts, NamesApart DEF S!Person

LEMMA RegisterKeeps2 ==
  ASSUME SyncInv, NEW i \in Ids, NEW n \in S!Names, S!Register(i, n) PROVE SyncInv'
<1> DEFINE row == [S!NoSkill EXCEPT !.name = n, !.versions = TRUE]
<1>1. row \in SkillRows /\ row.name = n /\ row.versions = TRUE
  BY NoSkillIs DEF SkillRows
<1>2. /\ S!Person /\ skill[i] = S!NoSkill /\ skill' = [skill EXCEPT ![i] = row]
      /\ \A j \in Ids : skill[j].name # n
      /\ UNCHANGED <<tree, ignored, refused, connected, syncRun, stranded, pushes, deaths>>
  BY DEF S!Register, S!Row
<1> HIDE DEF row
<1>3. /\ skill' \in [Ids -> SkillRows] /\ skill'[i] = row
      /\ \A j \in Ids : j # i => skill'[j] = skill[j]
  BY <1>1, <1>2, TreeFacts
<1>4. OneNameEach'
  BY <1>1, <1>2, <1>3, TreeFacts, NamesApart DEF OneNameEach
<1>5. \A j \in Ids :
        \/ skill'[j] = S!NoSkill \/ skill'[j].versions
        \/ /\ skill'[j].name = skill[j].name /\ skill'[j].versions = skill[j].versions
           /\ j \in stranded => j \in stranded'
  BY <1>1, <1>2, <1>3
<1> QED
  BY <1>2, <1>3, <1>4, <1>5, PersonActs, TreeFacts, PersonKeeps

LEMMA DeleteSkillKeeps ==
  ASSUME SyncInv, NEW i \in Ids, S!DeleteSkill(i) PROVE SyncInv'
<1>1. /\ S!Person /\ skill' = [skill EXCEPT ![i] = S!NoSkill] /\ stranded' = stranded \ {i}
      /\ UNCHANGED <<tree, ignored, refused, connected, syncRun, pushes, deaths>>
  BY DEF S!DeleteSkill
<1>2. /\ skill' \in [Ids -> SkillRows] /\ skill'[i] = S!NoSkill
      /\ \A j \in Ids : j # i => skill'[j] = skill[j]
  BY <1>1, TreeFacts, NoSkillIs
<1>3. OneNameEach'
  BY <1>1, <1>2, TreeFacts, NoSkillIs DEF OneNameEach
<1>4. /\ stranded' \in SUBSET Ids
      /\ \A j \in Ids :
        \/ skill'[j] = S!NoSkill \/ skill'[j].versions
        \/ /\ skill'[j].name = skill[j].name /\ skill'[j].versions = skill[j].versions
           /\ j \in stranded => j \in stranded'
  BY <1>1, <1>2, TreeFacts
<1> QED
  BY <1>1, <1>2, <1>3, <1>4, PersonActs, TreeFacts, PersonKeeps

(* Rows whose name and versions stay.                                        *)
LEMMA RowsKeepNames ==
  ASSUME SyncInv, skill' \in [Ids -> SkillRows],
         \A j \in Ids : /\ skill'[j].name = skill[j].name /\ skill'[j].versions = skill[j].versions
                        /\ skill[j] = S!NoSkill => skill'[j] = S!NoSkill
  PROVE  OneNameEach'
BY TreeFacts DEF OneNameEach

LEMMA AdoptKeeps ==
  ASSUME SyncInv, NEW p \in S!Paths, NEW i \in Ids, S!Adopt(p, i) PROVE SyncInv'
<1> DEFINE row == [skill[i] EXCEPT !.path = p]
<1>1. /\ S!Person /\ skill' = [skill EXCEPT ![i] = row] /\ ignored' = ignored \ {refused[p]}
      /\ skill[i].name # "none"
      /\ UNCHANGED <<tree, refused, connected, syncRun, stranded, pushes, deaths>>
  BY TreeFacts DEF S!Adopt, S!Row, S!None
<1>2. row \in SkillRows /\ row.name = skill[i].name /\ row.versions = skill[i].versions
  BY TreeFacts DEF SkillRows
<1> HIDE DEF row
<1>3. /\ skill' \in [Ids -> SkillRows] /\ skill'[i] = row
      /\ \A j \in Ids : j # i => skill'[j] = skill[j]
  BY <1>1, <1>2, TreeFacts
<1>4. \A j \in Ids : /\ skill'[j].name = skill[j].name /\ skill'[j].versions = skill[j].versions
                     /\ skill[j] = S!NoSkill => skill'[j] = S!NoSkill
  BY <1>1, <1>2, <1>3, NoSkillIs
<1>5. OneNameEach'
  BY <1>3, <1>4, RowsKeepNames
<1>6. ignored' \in SUBSET S!Names
  BY <1>1, TreeFacts
<1> QED
  BY <1>1, <1>3, <1>4, <1>5, <1>6, PersonActs, TreeFacts, PersonKeeps

LEMMA DetachedIs ==
  ASSUME NEW row \in SkillRows
  PROVE  /\ S!Detached(row) \in SkillRows /\ S!Detached(row).name = row.name
         /\ S!Detached(row).versions = row.versions
BY DEF SkillRows, S!Detached, S!None

LEMMA NoneDetached == S!Detached(S!NoSkill) = S!NoSkill
<1>1. ASSUME NEW row \in SkillRows, row.path = "none", row.removed = FALSE
      PROVE  S!Detached(row) = row
  <2> DEFINE new == S!Detached(row)
  <2>1. new \in SkillRows /\ new.name = row.name /\ new.path = row.path
        /\ new.removed = row.removed /\ new.versions = row.versions
    BY <1>1 DEF S!Detached, S!None, SkillRows
  <2> HIDE DEF new
  <2>2. new = row
    BY <2>1 DEF SkillRows
  <2> QED
    BY <2>2 DEF new
<1> QED
  BY <1>1, NoSkillIs

LEMMA DetachKeeps ==
  ASSUME SyncInv, NEW i \in Ids, S!Detach(i) PROVE SyncInv'
<1> DEFINE row == S!Detached(skill[i])
<1>1. /\ S!Person /\ skill' = [skill EXCEPT ![i] = row] /\ ignored' = ignored \cup {skill[i].name}
      /\ skill[i].path # "none"
      /\ UNCHANGED <<tree, refused, connected, syncRun, stranded, pushes, deaths>>
  BY DEF S!Detach, S!Bound, S!None
<1>2. /\ row \in SkillRows /\ row.name = skill[i].name /\ row.versions = skill[i].versions
      /\ skill[i] = S!NoSkill => row = S!NoSkill
  BY TreeFacts, DetachedIs, NoneDetached
<1> HIDE DEF row
<1>3. /\ skill' \in [Ids -> SkillRows] /\ skill'[i] = row
      /\ \A j \in Ids : j # i => skill'[j] = skill[j]
  BY <1>1, <1>2, TreeFacts
<1>4. \A j \in Ids : /\ skill'[j].name = skill[j].name /\ skill'[j].versions = skill[j].versions
                     /\ skill[j] = S!NoSkill => skill'[j] = S!NoSkill
  BY <1>1, <1>2, <1>3
<1>5. OneNameEach'
  BY <1>3, <1>4, RowsKeepNames
<1>6. ignored' \in SUBSET S!Names
  <2>1. skill[i].name # "none"
    BY <1>1, TreeFacts, NoSkillIs DEF OneNameEach
  <2>2. skill[i].name \in S!Names
    BY <2>1, TreeFacts DEF SkillRows
  <2> QED
    BY <1>1, <2>2, TreeFacts
<1> QED
  BY <1>1, <1>3, <1>4, <1>5, <1>6, PersonActs, TreeFacts, PersonKeeps

LEMMA DisconnectKeeps == ASSUME SyncInv, S!Disconnect PROVE SyncInv'
<1>1. /\ S!Person /\ skill' = [i \in Ids |-> S!Detached(skill[i])] /\ ignored' = {}
      /\ refused' = [p \in S!Paths |-> "none"] /\ connected' = FALSE
      /\ UNCHANGED <<tree, syncRun, stranded, pushes, deaths>>
  BY DEF S!Disconnect, S!None
<1>2. /\ skill' \in [Ids -> SkillRows] /\ \A j \in Ids : skill'[j] = S!Detached(skill[j])
      /\ refused' \in Trees
  BY <1>1, TreeFacts, DetachedIs DEF Trees
<1>3. \A j \in Ids : /\ skill'[j].name = skill[j].name /\ skill'[j].versions = skill[j].versions
                     /\ skill[j] = S!NoSkill => skill'[j] = S!NoSkill
  BY <1>2, TreeFacts, DetachedIs, NoneDetached
<1>4. OneNameEach'
  BY <1>2, <1>3, RowsKeepNames
<1> QED
  BY <1>1, <1>2, <1>3, <1>4, PersonActs, TreeFacts, PersonKeeps

-----------------------------------------------------------------------------
(* A push changes the branch under a sync, which keeps the tree it read.     *)
LEMMA SyncStays ==
  ASSUME SyncInv, tree' \in Trees, pushes' \in 0..MaxTree,
         UNCHANGED <<skill, ignored, refused, connected, syncRun, disturbed, stranded, people, deaths>>
  PROVE  SyncInv'
<1>1. SyncTypes' /\ SyncShape' /\ NowOK' /\ BoundHaveVersions' /\ Versionless'
  BY DEF SyncInv, SyncTypes, OneNameEach, SyncShape, NowOK, Now, BoundHaveVersions, Versionless,
     S!Accepted, S!Row, S!Folders, S!Declaring
<1>2. Undisturbed' <=> Undisturbed
  <2>1. BindingsHold' <=> BindingsHold
    BY DEF BindingsHold, HeldBindings, S!Bound, S!Declaring
  <2>2. \A p \in S!Paths : Settled(p)' <=> Settled(p)
    BY DEF Settled, S!Accepted, S!Row, S!Declaring
  <2>3. GoneAreRemoved' <=> GoneAreRemoved
    BY DEF GoneAreRemoved, S!Bound, S!Declaring
  <2>4. S!SyncMatchesTree' <=> S!SyncMatchesTree
    BY DEF S!SyncMatchesTree, S!Folders, S!Row, S!Bound, S!Declaring
  <2> QED
    BY <2>1, <2>2, <2>3, <2>4 DEF Undisturbed, S!Folders, S!Row, Now
<1> QED
  BY <1>1, <1>2 DEF SyncInv

LEMMA TreePushKeeps ==
  ASSUME SyncInv, NEW p \in S!Paths, NEW n \in S!Names \cup {"none"}, S!Push(p, n) PROVE SyncInv'
<1>1. tree' \in Trees /\ pushes' \in 0..MaxTree
  BY TreeFacts, NamesApart DEF S!Push, Trees
<1> QED
  BY <1>1, SyncStays DEF S!Push

LEMMA BoundRows ==
  ASSUME SyncInv, NEW i \in Ids, S!Bound(i)
  PROVE  skill[i].name \in S!Names /\ skill[i].path \in S!Paths /\ skill[i].removed \in BOOLEAN
         /\ skill[i] # S!NoSkill
<1>1. skill[i] # S!NoSkill /\ skill[i] \in SkillRows /\ skill[i].path # "none"
  BY TreeFacts, NoSkillIs DEF S!Bound, S!None
<1> QED
  BY <1>1, TreeFacts DEF OneNameEach, SkillRows

LEMMA SyncBegins == ASSUME SyncInv, S!Begin PROVE SyncInv'
<1> DEFINE rows == {S!Binding(i) : i \in {j \in Ids : S!Bound(j)}}
           new == [S!IdleRun EXCEPT !.at = "rename", !.tree = tree, !.ignored = ignored,
                     !.rows = rows, !.folders = S!Folders(tree)]
<1>1. /\ syncRun.at = "idle" /\ connected /\ syncRun' = new /\ disturbed' = FALSE
      /\ UNCHANGED <<tree, skill, ignored, refused, connected, stranded, pushes, people, deaths>>
  BY DEF S!Begin
<1>2. \A i \in Ids : /\ S!Bound(i) => S!Binding(i) \in Bindings
                     /\ S!Binding(i).id = i /\ S!Binding(i).name = skill[i].name
                     /\ S!Binding(i).removed = skill[i].removed
  BY BoundRows DEF S!Binding, Bindings
<1>3. rows \in SUBSET Bindings /\ S!Folders(tree) \in SUBSET S!Paths
  BY <1>2 DEF S!Folders
<1>4. \A b \in rows : \E i \in Ids : S!Bound(i) /\ b = S!Binding(i)
  OBVIOUS
<1>5. \A i \in Ids : S!Bound(i) => S!Binding(i) \in rows
  OBVIOUS
<1> HIDE DEF rows
<1>6. /\ new \in TreeRuns /\ new.at = "rename" /\ new.tree = tree /\ new.ignored = ignored
      /\ new.rows = rows /\ new.folders = S!Folders(tree) /\ new.bound = {} /\ ~new.created
  BY <1>3, TreeFacts, IdleRowIs DEF TreeRuns
<1> HIDE DEF new
<1>7. SyncTypes'
  BY <1>1, <1>6 DEF SyncInv, SyncTypes, OneNameEach
<1>8. SyncShape'
  BY <1>1, <1>2, <1>4, <1>6 DEF SyncShape, S!Folders
<1>9. NowOK' /\ BoundHaveVersions'
  BY <1>1, <1>6 DEF NowOK, BoundHaveVersions
<1>10. Versionless'
  <2>1. ~syncRun.created
    BY <1>1 DEF SyncInv, SyncShape
  <2> QED
    BY <1>1, <2>1 DEF SyncInv, Versionless
<1>11. Undisturbed'
  <2>1. \A b \in rows : skill[b.id].name = b.name /\ (b.removed => skill[b.id].removed)
    BY <1>2, <1>4
  <2>2. \A i \in Ids : S!Bound(i) => \E b \in rows : b.id = i
    BY <1>2, <1>5
  <2>3. BindingsHold'
    BY <1>1, <1>6, <2>1, <2>2 DEF BindingsHold, HeldBindings, S!Bound
  <2> QED
    BY <1>1, <1>6, <2>3 DEF Undisturbed, S!SyncMatchesTree, S!Folders
<1> QED
  BY <1>1, <1>7, <1>8, <1>9, <1>10, <1>11 DEF SyncInv

(* A sync that stops, and one whose connection is gone.                      *)
LEMMA SyncEnds ==
  ASSUME SyncInv, syncRun' = S!IdleRun, disturbed' = TRUE, deaths' \in 0..MaxCrash,
         UNCHANGED <<tree, skill, ignored, refused, connected, pushes, people>>,
         stranded' = IF syncRun.at \in {"publish", "bind"} /\ syncRun.created
                     THEN stranded \cup S!Row(syncRun.tree[syncRun.path]) ELSE stranded
  PROVE  SyncInv'
<1>1. SyncTypes'
  BY IdleRowIs DEF SyncInv, SyncTypes, OneNameEach, S!Row
<1>2. SyncShape' /\ NowOK' /\ BoundHaveVersions'
  BY IdleRowIs DEF SyncShape, NowOK, BoundHaveVersions
<1>3. Versionless'
  BY DEF SyncInv, SyncShape, Versionless, Now
<1> QED
  BY <1>1, <1>2, <1>3 DEF SyncInv

LEMMA SyncStopKeeps == ASSUME SyncInv, S!Stop PROVE SyncInv'
<1>1. deaths' \in 0..MaxCrash
  BY TreeFacts, NamesApart DEF S!Stop
<1> QED
  BY <1>1, SyncEnds DEF S!Stop

LEMMA BindFailsKeeps == ASSUME SyncInv, S!BindFails PROVE SyncInv'
<1>1. deaths' \in 0..MaxCrash
  BY TreeFacts DEF S!BindFails
<1> QED
  BY <1>1, SyncEnds DEF S!BindFails

LEMMA SyncRecords == ASSUME SyncInv, S!Record PROVE SyncInv'
<1> DEFINE new == [S!IdleRun EXCEPT !.tree = syncRun.tree, !.bound = syncRun.bound,
                                    !.ignored = syncRun.ignored]
<1>1. /\ syncRun.at = "removals" /\ syncRun' = new
      /\ refused' = IF connected THEN syncRun.refused ELSE refused
      /\ UNCHANGED <<tree, skill, ignored, connected, disturbed, stranded, pushes, people, deaths>>
  BY DEF S!Record
<1>2. /\ new \in TreeRuns /\ new.at = "idle" /\ new.tree = syncRun.tree
      /\ new.bound = syncRun.bound /\ new.rows = {} /\ new.folders = {} /\ ~new.created
  BY TreeFacts, IdleRowIs DEF TreeRuns
<1> HIDE DEF new
<1>3. SyncTypes'
  <2>1. refused' \in Trees
    BY <1>1, TreeFacts DEF TreeRuns
  <2> QED
    BY <1>1, <1>2, <2>1 DEF SyncInv, SyncTypes, OneNameEach
<1>4. SyncShape' /\ NowOK' /\ BoundHaveVersions'
  BY <1>1, <1>2 DEF SyncShape, NowOK, BoundHaveVersions
<1>5. Versionless'
  BY <1>1 DEF SyncInv, SyncShape, Versionless
<1>6. ASSUME ~disturbed PROVE S!SyncMatchesTree'
  <2>1. /\ BindingsHold /\ GoneAreRemoved /\ syncRun.folders = {}
        /\ \A p \in S!Folders(syncRun.tree) : Settled(p)
    BY <1>1, <1>6 DEF SyncInv, SyncShape, Undisturbed
  <2>2. refused' = syncRun.refused /\ syncRun.ignored = ignored /\ syncRun'.tree = syncRun.tree
    BY <1>1, <1>2, <2>1 DEF BindingsHold
  <2>3. ASSUME NEW p \in S!Folders(syncRun.tree), syncRun.tree[p] \notin ignored
        PROVE  \/ refused'[p] = syncRun.tree[p]
               \/ /\ S!Declaring(syncRun.tree, syncRun.tree[p]) = {p}
                  /\ \E i \in S!Row(syncRun.tree[p]) : skill[i].path = p /\ ~skill[i].removed
    BY <2>1, <2>2, <2>3 DEF Settled, S!Accepted
  <2>4. ASSUME NEW p \in S!Folders(syncRun.tree), NEW q \in S!Folders(syncRun.tree), p # q,
               syncRun.tree[q] = syncRun.tree[p], syncRun.tree[p] \notin ignored
        PROVE  refused'[p] = syncRun.tree[p]
    <3>1. q \in S!Declaring(syncRun.tree, syncRun.tree[p])
      BY <2>4 DEF S!Declaring, S!Folders
    <3> QED
      BY <2>3, <2>4, <3>1
  <2> QED
    BY <1>1, <2>1, <2>2, <2>3, <2>4 DEF S!SyncMatchesTree, GoneAreRemoved, S!Folders, S!Row,
       S!Bound, S!Declaring
<1> QED
  BY <1>1, <1>2, <1>3, <1>4, <1>5, <1>6 DEF SyncInv, Undisturbed

-----------------------------------------------------------------------------
(* The renames are done.                                                     *)
LEMMA RenamedKeeps == ASSUME SyncInv, S!Renamed PROVE SyncInv'
<1> DEFINE new == [syncRun EXCEPT !.at = "folders"]
<1>1. /\ syncRun.at = "rename" /\ syncRun.rows = {} /\ syncRun' = new
      /\ UNCHANGED <<tree, skill, ignored, refused, connected, disturbed, stranded, pushes, people, deaths>>
  BY DEF S!Renamed
<1>2. /\ new \in TreeRuns /\ new.at = "folders" /\ new.tree = syncRun.tree /\ new.bound = syncRun.bound
      /\ new.rows = syncRun.rows /\ new.folders = syncRun.folders /\ new.created = syncRun.created
      /\ new.ignored = syncRun.ignored
  BY TreeFacts DEF TreeRuns
<1> HIDE DEF new
<1>3. SyncTypes' /\ SyncShape' /\ NowOK' /\ BoundHaveVersions'
  BY <1>1, <1>2 DEF SyncInv, SyncTypes, OneNameEach, SyncShape, NowOK, BoundHaveVersions, S!Folders
<1>4. Versionless'
  BY <1>1 DEF SyncInv, SyncShape, Versionless
<1>5. ASSUME ~disturbed PROVE Undisturbed'
  <2>1. BindingsHold /\ syncRun.folders = S!Folders(syncRun.tree)
    BY <1>1, <1>5 DEF SyncInv, Undisturbed, SyncShape
  <2>2. BindingsHold'
    BY <1>1, <1>2, <2>1 DEF BindingsHold, HeldBindings, S!Bound, S!Declaring
  <2> QED
    BY <1>1, <1>2, <2>1, <2>2 DEF Undisturbed, S!SyncMatchesTree, S!Folders
<1> QED
  BY <1>1, <1>3, <1>4, <1>5 DEF SyncInv

LEMMA RenameKeeps ==
  ASSUME SyncInv, NEW b \in syncRun.rows, S!Rename(b) PROVE SyncInv'
<1> DEFINE n == syncRun.tree[b.path]
           nb == IF S!Renames(b) THEN [b EXCEPT !.name = n] ELSE b
           new == [syncRun EXCEPT !.rows = @ \ {b}, !.bound = @ \cup {nb}]
           row == [skill[b.id] EXCEPT !.name = n]
<1>1. /\ syncRun.at = "rename" /\ syncRun \in TreeRuns /\ b \in Bindings /\ b.id \in Ids
      /\ b.name \in S!Names /\ b.path \in S!Paths /\ skill \in [Ids -> SkillRows]
  BY TreeFacts DEF S!Rename, TreeRuns, Bindings
<1>2. S!Renames(b) => /\ S!Declaring(syncRun.tree, b.name) = {} /\ n \in S!Names
                      /\ S!Declaring(syncRun.tree, n) # {}
                      /\ \A i \in Ids : skill[i].name # n
  BY <1>1 DEF S!Renames, S!Accepted, S!Row, S!None, TreeRuns, Trees
<1>3. nb \in Bindings /\ nb.id = b.id /\ (S!Renames(b) => nb.name = n) /\ (~S!Renames(b) => nb = b)
  BY <1>1, <1>2 DEF Bindings
<1>4. /\ syncRun' = new
      /\ skill' = IF S!Renames(b) /\ skill[b.id] # S!NoSkill THEN [skill EXCEPT ![b.id] = row] ELSE skill
      /\ UNCHANGED <<tree, ignored, refused, connected, disturbed, stranded, pushes, people, deaths>>
  BY DEF S!Rename
<1>5. S!Renames(b) => /\ row \in SkillRows /\ row.name = n /\ row.versions = skill[b.id].versions
                      /\ row.path = skill[b.id].path /\ row.removed = skill[b.id].removed
  BY <1>1, <1>2 DEF SkillRows
<1> HIDE DEF nb, row
<1>6. /\ new \in TreeRuns /\ new.at = "rename" /\ new.tree = syncRun.tree
      /\ new.rows = syncRun.rows \ {b} /\ new.bound = syncRun.bound \cup {nb}
      /\ new.folders = syncRun.folders /\ new.created = syncRun.created
      /\ new.ignored = syncRun.ignored
  BY <1>1, <1>3 DEF TreeRuns
<1> HIDE DEF new, n
<1>7. /\ skill' \in [Ids -> SkillRows]
      /\ \A i \in Ids : /\ i # b.id => skill'[i] = skill[i]
                        /\ skill'[i].path = skill[i].path /\ skill'[i].removed = skill[i].removed
                        /\ skill'[i].versions = skill[i].versions
                        /\ skill[i] = S!NoSkill => skill'[i] = S!NoSkill
      /\ skill'[b.id].name = IF S!Renames(b) /\ skill[b.id] # S!NoSkill THEN n ELSE skill[b.id].name
  <2>1. CASE S!Renames(b) /\ skill[b.id] # S!NoSkill
    BY <1>1, <1>4, <1>5, <2>1
  <2>2. CASE ~(S!Renames(b) /\ skill[b.id] # S!NoSkill)
    BY <1>1, <1>4, <2>2
  <2> QED
    BY <2>1, <2>2
<1>8. SyncTypes'
  <2>1. OneNameEach'
    BY <1>1, <1>2, <1>7, TreeFacts, NamesApart DEF OneNameEach
  <2> QED
    BY <1>4, <1>6, <1>7, <2>1 DEF SyncInv, SyncTypes
<1>9. SyncShape'
  BY <1>1, <1>3, <1>4, <1>6 DEF SyncInv, SyncShape, S!Folders
<1>10. NowOK' /\ BoundHaveVersions'
  BY <1>4, <1>6 DEF NowOK, BoundHaveVersions
<1>11. Versionless'
  <2>1. ~syncRun.created
    BY <1>1 DEF SyncInv, SyncShape
  <2> QED
    BY <1>4, <1>7, <2>1 DEF SyncInv, Versionless
<1>12. ASSUME ~disturbed PROVE Undisturbed'
  <2>1. BindingsHold /\ syncRun.folders = S!Folders(syncRun.tree)
    BY <1>1, <1>12 DEF SyncInv, Undisturbed, SyncShape
  <2>2. skill[b.id].name = b.name /\ skill[b.id] # S!NoSkill
    BY <1>1, <2>1, NoSkillIs, NamesApart DEF BindingsHold, HeldBindings
  <2>3. ASSUME NEW c \in HeldBindings'
        PROVE  /\ skill'[c.id].name = c.name
               /\ c.removed /\ S!Declaring(syncRun.tree, c.name) = {} => skill'[c.id].removed
    <3>1. CASE c = nb
      BY <1>1, <1>2, <1>3, <1>7, <2>1, <2>2, <3>1, SMTT(30) DEF BindingsHold, HeldBindings
    <3>2. CASE c # nb
      <4>1. c \in HeldBindings /\ c \in Bindings /\ (c \in syncRun.rows => c # b)
        BY <1>1, <1>4, <1>6, <2>3, <3>2 DEF HeldBindings, TreeRuns, SyncInv, SyncShape
      <4>2. c.id # b.id /\ c.id \in Ids
        BY <4>1 DEF HeldBindings, SyncInv, SyncShape, Bindings
      <4> QED
        BY <1>7, <2>1, <4>1, <4>2 DEF BindingsHold
    <3> QED
      BY <3>1, <3>2
  <2>4. ASSUME NEW i \in Ids, S!Bound(i)'
        PROVE  (\E c \in HeldBindings' : c.id = i) \/ S!Declaring(syncRun.tree, skill'[i].name) # {}
    <3>1. CASE i = b.id
      BY <1>3, <1>4, <1>6, <3>1 DEF HeldBindings
    <3>2. CASE i # b.id
      <4>1. S!Bound(i) /\ skill'[i] = skill[i]
        BY <1>7, <2>4, <3>2 DEF S!Bound
      <4>2. CASE \E c \in HeldBindings : c.id = i
        BY <1>4, <1>6, <3>2, <4>2 DEF HeldBindings
      <4> QED
        BY <2>1, <4>1, <4>2 DEF BindingsHold
    <3> QED
      BY <3>1, <3>2
  <2>5. BindingsHold'
    BY <1>4, <1>6, <2>1, <2>3, <2>4 DEF BindingsHold, S!Declaring
  <2> QED
    BY <1>4, <1>6, <2>1, <2>5 DEF Undisturbed, S!SyncMatchesTree, S!Folders
<1> QED
  BY <1>4, <1>8, <1>9, <1>10, <1>11, <1>12 DEF SyncInv

(* The skills whose folders are gone.                                        *)
LEMMA RemovalsKeep == ASSUME SyncInv, S!Removals PROVE SyncInv'
<1> DEFINE new == [syncRun EXCEPT !.at = "removals"]
<1>1. /\ syncRun.at = "folders" /\ syncRun.folders = {} /\ syncRun' = new
      /\ skill' = [i \in Ids |-> IF S!Gone(i) THEN [skill[i] EXCEPT !.removed = TRUE] ELSE skill[i]]
      /\ UNCHANGED <<tree, ignored, refused, connected, disturbed, stranded, pushes, people, deaths>>
  BY DEF S!Removals
<1>2. /\ new \in TreeRuns /\ new.at = "removals" /\ new.tree = syncRun.tree /\ new.bound = syncRun.bound
      /\ new.rows = syncRun.rows /\ new.folders = syncRun.folders /\ new.created = syncRun.created
      /\ new.ignored = syncRun.ignored /\ new.refused = syncRun.refused
  BY TreeFacts DEF TreeRuns
<1> HIDE DEF new
<1>3. ASSUME NEW i \in Ids
      PROVE  /\ skill'[i] \in SkillRows /\ skill'[i].name = skill[i].name
             /\ skill'[i].path = skill[i].path /\ skill'[i].versions = skill[i].versions
             /\ S!Gone(i) => skill[i] # S!NoSkill /\ skill'[i].removed = TRUE
             /\ ~S!Gone(i) => skill'[i] = skill[i]
  BY <1>1, TreeFacts DEF SkillRows, S!Gone
<1>4. skill' \in [Ids -> SkillRows] /\ skill \in [Ids -> SkillRows]
      /\ \A i \in Ids : skill[i] = S!NoSkill => skill'[i] = S!NoSkill
  BY <1>1, <1>3, TreeFacts
<1>5. SyncTypes'
  <2>1. OneNameEach'
    BY <1>3, <1>4, RowsKeepNames
  <2> QED
    BY <1>1, <1>2, <1>4, <2>1 DEF SyncInv, SyncTypes
<1>6. SyncShape' /\ NowOK' /\ BoundHaveVersions'
  BY <1>1, <1>2 DEF SyncInv, SyncShape, NowOK, BoundHaveVersions, S!Folders
<1>7. Versionless'
  <2>1. ~syncRun.created
    BY <1>1 DEF SyncInv, SyncShape
  <2> QED
    BY <1>1, <1>3, <1>4, <2>1 DEF SyncInv, Versionless
<1>8. ASSUME ~disturbed PROVE Undisturbed'
  <2>1. /\ BindingsHold /\ syncRun.rows = {}
        /\ \A p \in S!Folders(syncRun.tree) : Settled(p)
    BY <1>1, <1>8 DEF SyncInv, SyncShape, Undisturbed
  <2>2. HeldBindings = syncRun.bound /\ HeldBindings' = HeldBindings /\ HeldBindings \subseteq Bindings
    BY <1>1, <1>2, <2>1, TreeFacts DEF HeldBindings, TreeRuns
  <2>3. BindingsHold'
    <3>1. ASSUME NEW c \in HeldBindings
          PROVE  /\ skill'[c.id].name = c.name
                 /\ c.removed /\ S!Declaring(syncRun.tree, c.name) = {} => skill'[c.id].removed
      <4>1. c.id \in Ids
        BY <2>2 DEF Bindings
      <4> QED
        BY <1>3, <2>1, <4>1 DEF BindingsHold
    <3>2. ASSUME NEW i \in Ids, S!Bound(i)'
          PROVE  (\E c \in HeldBindings : c.id = i) \/ S!Declaring(syncRun.tree, skill'[i].name) # {}
      <4>1. S!Bound(i) /\ skill'[i].name = skill[i].name
        BY <1>3, <3>2 DEF S!Bound
      <4> QED
        BY <2>1, <4>1 DEF BindingsHold
    <3>3. \A n : S!Declaring(syncRun.tree, n)' = S!Declaring(syncRun.tree, n)
      BY <1>1, <1>2 DEF S!Declaring
    <3>4. connected' /\ syncRun'.ignored = ignored' /\ syncRun'.tree = syncRun.tree
      BY <1>1, <1>2, <2>1 DEF BindingsHold
    <3> QED
      BY <2>2, <3>1, <3>2, <3>4 DEF BindingsHold, S!Declaring
  <2>4. ASSUME NEW p \in S!Folders(syncRun.tree) PROVE Settled(p)'
    <3>1. Settled(p)
      BY <2>1
    <3>2. CASE S!Accepted(p)
      <4>1. ASSUME NEW i \in Ids, skill[i].name = syncRun.tree[p] PROVE skill'[i] = skill[i]
        <5>1. ~S!Gone(i)
          <6>1. ASSUME NEW c \in syncRun.bound, c.id = i PROVE S!Declaring(syncRun.tree, c.name) # {}
            BY <2>1, <2>2, <3>2, <4>1, <6>1 DEF BindingsHold, S!Accepted
          <6> QED
            BY <6>1 DEF S!Gone
        <5> QED
          BY <1>3, <5>1
      <4>2. /\ S!Accepted(p)' /\ syncRun'.tree[p] = syncRun.tree[p]
            /\ syncRun'.ignored = syncRun.ignored /\ syncRun'.refused[p] = syncRun.refused[p]
        BY <1>1, <1>2, <3>2 DEF S!Accepted, S!Declaring
      <4> QED
        BY <3>1, <4>1, <4>2 DEF Settled, S!Row
    <3>3. CASE ~S!Accepted(p)
      BY <1>1, <1>2, <3>1, <3>3 DEF Settled
    <3> QED
      BY <3>2, <3>3
  <2>5. GoneAreRemoved'
    <3> SUFFICES ASSUME NEW i \in Ids, skill'[i].path # "none",
                        S!Declaring(syncRun.tree, skill'[i].name) = {}
                 PROVE  skill'[i].removed
      BY <1>1, <1>2 DEF GoneAreRemoved, S!Bound, S!None, S!Declaring
    <3>1. /\ S!Bound(i) /\ S!Declaring(syncRun.tree, skill[i].name) = {} /\ skill[i] # S!NoSkill
      BY <1>3, NoSkillIs DEF S!Bound, S!None
    <3>2. PICK c \in syncRun.bound : c.id = i
      BY <2>1, <2>2, <3>1 DEF BindingsHold
    <3>3. skill[i].name = c.name /\ (c.removed => skill[i].removed)
      BY <2>1, <2>2, <3>1, <3>2 DEF BindingsHold
    <3>4. CASE c.removed
      BY <1>3, <3>3, <3>4
    <3>5. CASE ~c.removed
      BY <1>3, <3>1, <3>2, <3>3, <3>5 DEF S!Gone
    <3> QED
      BY <3>4, <3>5
  <2> QED
    BY <1>1, <1>2, <2>3, <2>4, <2>5 DEF Undisturbed, S!SyncMatchesTree, S!Folders
<1> QED
  BY <1>1, <1>5, <1>6, <1>7, <1>8 DEF SyncInv

-----------------------------------------------------------------------------
(* A folder that is done with.                                               *)
LEMMA DoneIs ==
  ASSUME SyncInv, NEW p \in S!Paths
  PROVE  /\ S!Done(p) \in TreeRuns /\ S!Done(p).at = "folders" /\ S!Done(p).tree = syncRun.tree
         /\ S!Done(p).folders = syncRun.folders \ {p} /\ ~S!Done(p).created
         /\ S!Done(p).rows = syncRun.rows /\ S!Done(p).bound = syncRun.bound
         /\ S!Done(p).ignored = syncRun.ignored /\ S!Done(p).refused = syncRun.refused
BY TreeFacts DEF S!Done, TreeRuns, S!None

LEMMA RefuseIs ==
  ASSUME SyncInv, NEW p \in S!Paths
  PROVE  /\ S!Refuse(p) \in TreeRuns /\ S!Refuse(p).at = "folders" /\ S!Refuse(p).tree = syncRun.tree
         /\ S!Refuse(p).folders = syncRun.folders \ {p} /\ ~S!Refuse(p).created
         /\ S!Refuse(p).rows = syncRun.rows /\ S!Refuse(p).bound = syncRun.bound
         /\ S!Refuse(p).ignored = syncRun.ignored
         /\ S!Refuse(p).refused[p] = syncRun.tree[p]
         /\ \A q \in S!Paths : q # p => S!Refuse(p).refused[q] = syncRun.refused[q]
<1> DEFINE done == S!Done(p)
<1>1. done \in TreeRuns /\ syncRun.tree[p] \in S!Names \cup {"none"}
  BY DoneIs, TreeFacts DEF TreeRuns, Trees
<1>2. S!Refuse(p) = [done EXCEPT !.refused[p] = syncRun.tree[p]]
  BY DEF S!Refuse
<1> HIDE DEF done
<1>3. /\ S!Refuse(p) \in TreeRuns /\ S!Refuse(p).at = done.at /\ S!Refuse(p).tree = done.tree
      /\ S!Refuse(p).folders = done.folders /\ S!Refuse(p).created = done.created
      /\ S!Refuse(p).rows = done.rows /\ S!Refuse(p).bound = done.bound
      /\ S!Refuse(p).ignored = done.ignored
      /\ S!Refuse(p).refused[p] = syncRun.tree[p]
      /\ \A q \in S!Paths : q # p => S!Refuse(p).refused[q] = done.refused[q]
  BY <1>1, <1>2 DEF TreeRuns, Trees
<1> QED
  BY <1>3, DoneIs DEF done

(* A step that leaves the folder p done with: the bindings held and what the *)
(* other folders came to stay, and what is bound has a folder.               *)
LEMMA FolderSettles ==
  ASSUME SyncInv, NEW p \in S!Paths, NEW new \in TreeRuns, syncRun' = new,
         syncRun.at \in {"folders", "publish", "bind"}, p \in syncRun.folders,
         new.at = "folders", new.tree = syncRun.tree, new.folders = syncRun.folders \ {p},
         ~new.created, new.rows = syncRun.rows, new.bound = syncRun.bound,
         new.ignored = syncRun.ignored,
         \A q \in S!Paths : q # p => new.refused[q] = syncRun.refused[q],
         skill' \in [Ids -> SkillRows], OneNameEach', stranded' \in SUBSET Ids,
         UNCHANGED <<tree, ignored, refused, connected, disturbed, pushes, people, deaths>>,
         \A i \in Ids : skill'[i] # S!NoSkill /\ ~skill'[i].versions => i \in stranded',
         \A i \in Ids : skill'[i] = skill[i] \/ (S!Accepted(p) /\ skill[i].name = syncRun.tree[p]),
         ~disturbed => /\ BindingsHold'
                       /\ \/ syncRun.tree[p] \in syncRun.ignored
                          \/ new.refused[p] = syncRun.tree[p]
                          \/ /\ S!Accepted(p)
                             /\ \E i \in Ids : skill'[i].name = syncRun.tree[p] /\ skill'[i].path = p
                                              /\ ~skill'[i].removed
  PROVE  SyncInv'
<1>1. SyncTypes'
  BY DEF SyncInv, SyncTypes
<1>2. SyncShape' /\ NowOK' /\ BoundHaveVersions'
  BY DEF SyncInv, SyncShape, NowOK, BoundHaveVersions, S!Folders
<1>3. Versionless'
  BY DEF Versionless
<1>4. ASSUME ~disturbed PROVE Undisturbed'
  <2>1. \A q \in S!Folders(syncRun.tree) : q \notin syncRun.folders => Settled(q)
    BY <1>4 DEF SyncInv, Undisturbed
  <2>2. ASSUME NEW q \in S!Folders(syncRun.tree), q \notin new.folders PROVE Settled(q)'
    <3>1. CASE q = p
      BY <1>4, <3>1 DEF Settled, S!Accepted, S!Row, S!Declaring
    <3>2. CASE q # p
      <4>1. Settled(q) /\ q \in S!Paths /\ new.refused[q] = syncRun.refused[q]
        BY <2>1, <2>2, <3>2 DEF S!Folders
      <4>2. CASE S!Accepted(q)
        <5>1. S!Accepted(p) => syncRun.tree[q] # syncRun.tree[p]
          BY <3>2, <4>1, <4>2 DEF S!Accepted, S!Declaring
        <5>2. \A i \in Ids : skill[i].name = syncRun.tree[q] => skill'[i] = skill[i]
          BY <5>1
        <5> QED
          BY <4>1, <4>2, <5>2 DEF Settled, S!Row, S!Accepted, S!Declaring
      <4>3. CASE ~S!Accepted(q)
        BY <4>1, <4>3 DEF Settled
      <4> QED
        BY <4>2, <4>3
    <3> QED
      BY <3>1, <3>2
  <2> QED
    BY <1>4, <2>2 DEF Undisturbed, S!SyncMatchesTree, S!Folders
<1> QED
  BY <1>1, <1>2, <1>3, <1>4 DEF SyncInv

(* The bindings held while no row's name changes for another.                *)
LEMMA BindingsStay ==
  ASSUME SyncInv, BindingsHold, NEW new \in TreeRuns, syncRun' = new, UNCHANGED <<connected, ignored>>,
         new.tree = syncRun.tree, new.rows = syncRun.rows, new.bound = syncRun.bound,
         new.ignored = syncRun.ignored,
         \A i \in Ids : \/ skill'[i].name = skill[i].name /\ skill'[i].path = skill[i].path
                           /\ skill'[i].removed = skill[i].removed
                        \/ /\ S!Declaring(syncRun.tree, skill'[i].name) # {}
                           /\ \/ skill'[i].name = skill[i].name
                              \/ \A b \in syncRun.bound \cup syncRun.rows : b.id # i
                        \/ /\ skill'[i].path = "none"
                           /\ \A b \in syncRun.bound \cup syncRun.rows : b.id # i
  PROVE  BindingsHold'
<1>1. ASSUME NEW b \in HeldBindings
      PROVE  /\ skill'[b.id].name = b.name
             /\ b.removed /\ S!Declaring(syncRun.tree, b.name) = {} => skill'[b.id].removed
  <2>1. b.id \in Ids /\ b \in syncRun.bound \cup syncRun.rows
    BY TreeFacts DEF HeldBindings, TreeRuns, Bindings
  <2>2. /\ skill[b.id].name = b.name
        /\ b.removed /\ S!Declaring(syncRun.tree, b.name) = {} => skill[b.id].removed
    BY DEF BindingsHold
  <2> QED
    BY <2>1, <2>2
<1>2. ASSUME NEW i \in Ids, S!Bound(i)'
      PROVE  (\E c \in HeldBindings : c.id = i) \/ S!Declaring(syncRun.tree, skill'[i].name) # {}
  <2>1. skill'[i].path # "none"
    BY <1>2 DEF S!Bound, S!None
  <2>2. CASE skill'[i].name = skill[i].name /\ skill'[i].path = skill[i].path
    BY <2>1, <2>2 DEF BindingsHold, S!Bound, S!None
  <2> QED
    BY <2>1, <2>2
<1>3. HeldBindings' = HeldBindings /\ connected' /\ syncRun'.ignored = ignored'
      /\ syncRun'.tree = syncRun.tree
  BY DEF HeldBindings, BindingsHold
<1> QED
  BY <1>1, <1>2, <1>3 DEF BindingsHold, S!Declaring

-----------------------------------------------------------------------------
LEMMA IdsOfNoRow ==
  ASSUME SyncInv, BindingsHold, NEW i \in Ids, skill[i].name = "none"
  PROVE  \A b \in syncRun.bound \cup syncRun.rows : b.id # i
BY TreeFacts, NamesApart DEF BindingsHold, HeldBindings, TreeRuns, Bindings

(* A folder without a step of its own: ignored, or refused at once.          *)
LEMMA FolderDone ==
  ASSUME SyncInv, NEW p \in S!Paths, p \in syncRun.folders, syncRun.at = "folders",
         UNCHANGED <<tree, skill, ignored, refused, connected, disturbed, stranded, pushes, people, deaths>>,
         \/ syncRun.tree[p] \in syncRun.ignored /\ syncRun' = S!Done(p)
         \/ syncRun' = S!Refuse(p)
  PROVE  SyncInv'
<1> DEFINE new == syncRun'
<1>1. /\ new \in TreeRuns /\ new.at = "folders" /\ new.tree = syncRun.tree
      /\ new.folders = syncRun.folders \ {p} /\ ~new.created /\ new.rows = syncRun.rows
      /\ new.bound = syncRun.bound /\ new.ignored = syncRun.ignored
      /\ \A q \in S!Paths : q # p => new.refused[q] = syncRun.refused[q]
      /\ syncRun.tree[p] \in syncRun.ignored \/ new.refused[p] = syncRun.tree[p]
  <2>1. CASE syncRun.tree[p] \in syncRun.ignored /\ syncRun' = S!Done(p)
    BY <2>1, DoneIs
  <2>2. CASE syncRun' = S!Refuse(p)
    BY <2>2, RefuseIs
  <2> QED
    BY <2>1, <2>2
<1>2. \A i \in Ids : skill'[i] # S!NoSkill /\ ~skill'[i].versions => i \in stranded'
  BY DEF SyncInv, SyncShape, Versionless
<1>3. ~disturbed => BindingsHold
  BY DEF SyncInv, Undisturbed
<1>4. ~disturbed => BindingsHold'
  <2>1. \A i \in Ids : skill'[i].name = skill[i].name /\ skill'[i].path = skill[i].path
                       /\ skill'[i].removed = skill[i].removed
    OBVIOUS
  <2> QED
    BY <1>1, <1>3, <2>1, BindingsStay
<1>5. OneNameEach'
  BY TreeFacts DEF OneNameEach
<1> HIDE DEF new
<1>6. syncRun' = new
  BY DEF new
<1> QED
  BY <1>1, <1>2, <1>4, <1>5, <1>6, TreeFacts, FolderSettles

(* A folder that goes on to its publish, with its row.                       *)
LEMMA FolderOpens ==
  ASSUME SyncInv, NEW p \in S!Paths, p \in syncRun.folders, S!Accepted(p), syncRun.at = "folders",
         NEW new \in TreeRuns, syncRun' = new, new.at = "publish", new.path = p,
         new.tree = syncRun.tree, new.folders = syncRun.folders, new.rows = syncRun.rows,
         new.bound = syncRun.bound, new.ignored = syncRun.ignored, new.refused = syncRun.refused,
         new.created <=> ~ \E b \in syncRun.bound : b.name = syncRun.tree[p],
         skill' \in [Ids -> SkillRows], OneNameEach',
         UNCHANGED <<tree, ignored, refused, connected, disturbed, stranded, pushes, people, deaths>>,
         \A i \in Ids : \/ skill'[i] = skill[i]
                        \/ /\ skill[i] = S!NoSkill /\ new.created /\ skill'[i].path = "none"
                           /\ skill'[i].name = syncRun.tree[p]
  PROVE  SyncInv'
<1>1. SyncTypes'
  BY DEF SyncInv, SyncTypes
<1>2. SyncShape'
  BY DEF SyncInv, SyncShape, S!Folders
<1>3. NowOK' /\ BoundHaveVersions'
  BY DEF NowOK, BoundHaveVersions, Now, S!Accepted, S!Declaring
<1>4. Versionless'
  <2>1. ~syncRun.created
    BY DEF SyncInv, SyncShape
  <2> QED
    BY <2>1 DEF SyncInv, Versionless, S!Row, Now
<1>5. ASSUME ~disturbed PROVE Undisturbed'
  <2>1. BindingsHold /\ \A q \in S!Folders(syncRun.tree) : q \notin syncRun.folders => Settled(q)
    BY <1>5 DEF SyncInv, Undisturbed
  <2>2. BindingsHold'
    <3>1. \A i \in Ids : \/ skill'[i].name = skill[i].name /\ skill'[i].path = skill[i].path
                            /\ skill'[i].removed = skill[i].removed
                         \/ /\ skill'[i].path = "none"
                            /\ \A b \in syncRun.bound \cup syncRun.rows : b.id # i
      BY <2>1, IdsOfNoRow, NoSkillIs
    <3> QED
      BY <2>1, <3>1, BindingsStay
  <2>3. ASSUME NEW q \in S!Folders(syncRun.tree), q \notin syncRun.folders PROVE Settled(q)'
    <3>1. Settled(q) /\ syncRun.tree[q] # "none"
      BY <2>1, <2>3 DEF S!Folders, S!None
    <3>2. \A i \in Ids : skill[i].name = syncRun.tree[q] => skill'[i] = skill[i]
      BY <3>1, NoSkillIs
    <3> QED
      BY <3>1, <3>2 DEF Settled, S!Row, S!Accepted, S!Declaring
  <2> QED
    BY <1>5, <2>2, <2>3 DEF Undisturbed, S!SyncMatchesTree, S!Folders
<1> QED
  BY <1>1, <1>2, <1>3, <1>4, <1>5 DEF SyncInv

LEMMA FolderKeeps ==
  ASSUME SyncInv, NEW p \in S!Paths, NEW i \in Ids, S!Folder(p, i) PROVE SyncInv'
<1> DEFINE n == syncRun.tree[p]
           mine == \E b \in syncRun.bound : b.name = n
<1>1. /\ syncRun.at = "folders" /\ p \in syncRun.folders /\ syncRun \in TreeRuns
      /\ UNCHANGED <<tree, ignored, refused, connected, disturbed, stranded, pushes, people, deaths>>
  BY TreeFacts DEF S!Folder, S!Earliest
<1>2. ~syncRun.created /\ n \in S!Names \cup {"none"}
  BY <1>1 DEF SyncInv, SyncShape, TreeRuns, Trees
<1>3. CASE n \in syncRun.ignored /\ syncRun' = S!Done(p) /\ UNCHANGED skill
  BY <1>1, <1>3, FolderDone
<1>4. CASE syncRun' = S!Refuse(p) /\ UNCHANGED skill
  BY <1>1, <1>4, FolderDone
<1>5. CASE /\ S!Accepted(p) /\ ~S!Taken(n) /\ (mine \/ S!Row(n) # {})
           /\ syncRun' = [syncRun EXCEPT !.at = "publish", !.path = p] /\ UNCHANGED skill
  <2> DEFINE new == [syncRun EXCEPT !.at = "publish", !.path = p]
  <2>1. /\ new \in TreeRuns /\ new.at = "publish" /\ new.path = p /\ new.tree = syncRun.tree
        /\ new.folders = syncRun.folders /\ new.rows = syncRun.rows /\ new.bound = syncRun.bound
        /\ new.ignored = syncRun.ignored /\ new.refused = syncRun.refused
        /\ new.created = syncRun.created
    BY <1>1 DEF TreeRuns
  <2> HIDE DEF new
  <2>2. mine
    BY <1>5 DEF S!Taken
  <2>3. syncRun' = new /\ skill' = skill
    BY <1>5 DEF new
  <2>4. OneNameEach'
    BY <2>3, TreeFacts DEF OneNameEach
  <2>5. new.created <=> ~ \E b \in syncRun.bound : b.name = syncRun.tree[p]
    BY <1>2, <2>1, <2>2
  <2> QED
    BY <1>1, <1>5, <2>1, <2>3, <2>4, <2>5, TreeFacts, FolderOpens
<1>6. CASE /\ S!Accepted(p) /\ ~mine /\ S!Row(n) = {} /\ skill[i] = S!NoSkill
           /\ skill' = [skill EXCEPT ![i] = [S!NoSkill EXCEPT !.name = n]]
           /\ syncRun' = [syncRun EXCEPT !.at = "publish", !.path = p, !.created = TRUE]
  <2> DEFINE new == [syncRun EXCEPT !.at = "publish", !.path = p, !.created = TRUE]
             row == [S!NoSkill EXCEPT !.name = n]
  <2>1. /\ new \in TreeRuns /\ new.at = "publish" /\ new.path = p /\ new.tree = syncRun.tree
        /\ new.folders = syncRun.folders /\ new.rows = syncRun.rows /\ new.bound = syncRun.bound
        /\ new.ignored = syncRun.ignored /\ new.refused = syncRun.refused /\ new.created
    BY <1>1 DEF TreeRuns
  <2>2. row \in SkillRows /\ row.name = n /\ row.path = "none" /\ n # "none"
    BY <1>2, <1>6, NoSkillIs DEF SkillRows, S!Accepted, S!None
  <2>3. syncRun' = new /\ skill' = [skill EXCEPT ![i] = row] /\ \A j \in Ids : skill[j].name # n
    BY <1>6 DEF S!Row
  <2>4. ~ \E b \in syncRun.bound : b.name = syncRun.tree[p]
    BY <1>6
  <2> HIDE DEF new, row, n, mine
  <2>5. /\ skill' \in [Ids -> SkillRows] /\ skill'[i] = row
        /\ \A j \in Ids : j # i => skill'[j] = skill[j]
    BY <2>2, <2>3, TreeFacts
  <2>6. OneNameEach'
    BY <2>2, <2>3, <2>5, TreeFacts DEF OneNameEach
  <2>7. \A j \in Ids : \/ skill'[j] = skill[j]
                       \/ /\ skill[j] = S!NoSkill /\ new.created /\ skill'[j].path = "none"
                          /\ skill'[j].name = syncRun.tree[p]
    BY <1>6, <2>1, <2>2, <2>5 DEF n
  <2>8. new.created <=> ~ \E b \in syncRun.bound : b.name = syncRun.tree[p]
    BY <2>1, <2>4
  <2> QED
    BY <1>1, <1>6, <2>1, <2>3, <2>5, <2>6, <2>7, <2>8, FolderOpens
<1> QED
  BY <1>3, <1>4, <1>5, <1>6 DEF S!Folder

-----------------------------------------------------------------------------
(* The folder that is being published, and its rows.                         *)
LEMMA NowFacts ==
  ASSUME SyncInv, syncRun.at \in {"publish", "bind"}
  PROVE  /\ syncRun.path \in S!Paths /\ syncRun.path \in syncRun.folders
         /\ S!Accepted(syncRun.path) /\ Now \in S!Names /\ S!Declaring(syncRun.tree, Now) # {}
         /\ syncRun.created <=> ~ \E b \in syncRun.bound : b.name = Now
<1>1. /\ syncRun.path \in syncRun.folders /\ S!Accepted(syncRun.path) /\ syncRun \in TreeRuns
      /\ syncRun.created <=> ~ \E b \in syncRun.bound : b.name = Now
  BY TreeFacts DEF SyncInv, NowOK
<1> QED
  BY <1>1 DEF TreeRuns, Trees, Now, S!Accepted, S!None

LEMMA PublishTakes ==
  ASSUME SyncInv, S!PublishFolder(TRUE), S!Row(Now) # {} PROVE SyncInv'
<1> DEFINE new == [syncRun EXCEPT !.at = "bind"]
<1>1. /\ syncRun.at = "publish" /\ syncRun' = new
      /\ skill' = [i \in Ids |-> IF i \in S!Row(Now) THEN [skill[i] EXCEPT !.versions = TRUE] ELSE skill[i]]
      /\ UNCHANGED <<tree, ignored, refused, connected, disturbed, stranded, pushes, people, deaths>>
  BY DEF S!PublishFolder, Now
<1>2. /\ new \in TreeRuns /\ new.at = "bind" /\ new.path = syncRun.path /\ new.tree = syncRun.tree
      /\ new.folders = syncRun.folders /\ new.rows = syncRun.rows /\ new.bound = syncRun.bound
      /\ new.ignored = syncRun.ignored /\ new.refused = syncRun.refused
      /\ new.created = syncRun.created
  BY TreeFacts DEF TreeRuns
<1> HIDE DEF new
<1>3. ASSUME NEW i \in Ids
      PROVE  /\ skill'[i] \in SkillRows /\ skill'[i].name = skill[i].name
             /\ skill'[i].path = skill[i].path /\ skill'[i].removed = skill[i].removed
             /\ i \in S!Row(Now) => skill'[i].versions = TRUE /\ skill[i] # S!NoSkill
             /\ i \notin S!Row(Now) => skill'[i] = skill[i]
  BY <1>1, TreeFacts, NowFacts, NoSkillIs, NamesApart DEF SkillRows, S!Row
<1>4. /\ skill' \in [Ids -> SkillRows] /\ skill \in [Ids -> SkillRows]
      /\ \A i \in Ids : skill[i] = S!NoSkill => skill'[i] = S!NoSkill
  BY <1>1, <1>3, TreeFacts
<1>5. SyncTypes'
  <2>1. \A i \in Ids : /\ skill'[i].name = skill[i].name
                       /\ skill[i] = S!NoSkill => skill'[i] = S!NoSkill
    BY <1>3, <1>4
  <2>2. OneNameEach'
    BY <2>1, TreeFacts DEF OneNameEach
  <2> QED
    BY <1>1, <1>2, <1>4, <2>2 DEF SyncInv, SyncTypes
<1>6. Now' = Now /\ S!Row(Now)' = S!Row(Now)
  <2>1. Now' = Now
    BY <1>1, <1>2 DEF Now
  <2> QED
    BY <1>3, <2>1 DEF S!Row
<1>7. SyncShape' /\ NowOK'
  <2>1. SyncShape'
    BY <1>1, <1>2 DEF SyncInv, SyncShape, S!Folders
  <2> QED
    BY <1>1, <1>2, <1>6, <2>1, NowFacts DEF NowOK, S!Accepted, S!Declaring
<1>8. BoundHaveVersions' /\ Versionless'
  <2>1. BoundHaveVersions'
    BY <1>3, <1>6 DEF BoundHaveVersions, S!Row
  <2>2. Versionless'
    <3> SUFFICES ASSUME NEW i \in Ids, skill'[i] # S!NoSkill, ~skill'[i].versions
                 PROVE  i \in stranded'
      BY DEF Versionless
    <3>1. i \notin S!Row(Now) /\ skill'[i] = skill[i]
      BY <1>3
    <3> QED
      BY <1>1, <3>1 DEF SyncInv, Versionless
  <2> QED
    BY <2>1, <2>2
<1>9. ASSUME ~disturbed PROVE Undisturbed'
  <2>1. BindingsHold /\ \A q \in S!Folders(syncRun.tree) : q \notin syncRun.folders => Settled(q)
    BY <1>1, <1>9 DEF SyncInv, Undisturbed
  <2>2. BindingsHold'
    <3>1. \A i \in Ids : skill'[i].name = skill[i].name /\ skill'[i].path = skill[i].path
                         /\ skill'[i].removed = skill[i].removed
      BY <1>3
    <3> QED
      BY <1>1, <1>2, <2>1, <3>1, BindingsStay
  <2>3. ASSUME NEW q \in S!Folders(syncRun.tree), q \notin syncRun.folders PROVE Settled(q)'
    <3>1. Settled(q)
      BY <2>1, <2>3
    <3> QED
      BY <1>1, <1>2, <1>3, <3>1 DEF Settled, S!Row, S!Accepted, S!Declaring
  <2> QED
    BY <1>1, <1>2, <1>6, <1>9, <2>2, <2>3 DEF Undisturbed, S!SyncMatchesTree, S!Folders
<1> QED
  BY <1>1, <1>5, <1>7, <1>8, <1>9 DEF SyncInv

LEMMA PublishRefuses ==
  ASSUME SyncInv, NEW accepts \in BOOLEAN, S!PublishFolder(accepts), ~(accepts /\ S!Row(Now) # {})
  PROVE  SyncInv'
<1> DEFINE p == syncRun.path
           new == S!Refuse(p)
           gone == {i \in S!Row(Now) : syncRun.created /\ ~skill[i].versions}
<1>1. /\ syncRun.at = "publish" /\ syncRun' = new
      /\ skill' = [i \in Ids |-> IF i \in gone THEN S!NoSkill ELSE skill[i]]
      /\ UNCHANGED <<tree, ignored, refused, connected, disturbed, stranded, pushes, people, deaths>>
  BY DEF S!PublishFolder, S!Undone, Now
<1>2. p \in S!Paths /\ p \in syncRun.folders /\ S!Accepted(p) /\ Now = syncRun.tree[p]
      /\ (syncRun.created => \A b \in syncRun.bound : b.name # Now)
  BY <1>1, NowFacts DEF Now
<1>3. /\ new \in TreeRuns /\ new.at = "folders" /\ new.tree = syncRun.tree
      /\ new.folders = syncRun.folders \ {p} /\ ~new.created /\ new.rows = syncRun.rows
      /\ new.bound = syncRun.bound /\ new.ignored = syncRun.ignored
      /\ \A q \in S!Paths : q # p => new.refused[q] = syncRun.refused[q]
      /\ new.refused[p] = syncRun.tree[p]
  BY <1>2, RefuseIs
<1>4. \A i \in gone : i \in Ids /\ skill[i].name = Now /\ syncRun.created
  BY DEF S!Row
<1>5. \A i \in Ids \ gone : skill[i].name = Now => ~syncRun.created \/ skill[i].versions
  BY DEF S!Row
<1> HIDE DEF new, p, gone
<1>6. skill' \in [Ids -> SkillRows] /\ \A i \in Ids : skill'[i] = IF i \in gone THEN S!NoSkill ELSE skill[i]
  BY <1>1, TreeFacts, NoSkillIs
<1>7. OneNameEach'
  BY <1>6, TreeFacts, NoSkillIs DEF OneNameEach
<1>8. \A i \in Ids : skill'[i] # S!NoSkill /\ ~skill'[i].versions => i \in stranded'
  BY <1>1, <1>5, <1>6 DEF SyncInv, Versionless, S!Row
<1>9. \A i \in Ids : skill'[i] = skill[i] \/ (S!Accepted(p) /\ skill[i].name = syncRun.tree[p])
  BY <1>2, <1>4, <1>6
<1>10. ~disturbed => BindingsHold'
  <2> SUFFICES ASSUME ~disturbed PROVE BindingsHold'
    OBVIOUS
  <2>1. BindingsHold /\ syncRun.rows = {}
    BY <1>1 DEF SyncInv, SyncShape, Undisturbed
  <2>2. \A i \in gone : \A b \in syncRun.bound \cup syncRun.rows : b.id # i
    BY <1>2, <1>4, <2>1 DEF BindingsHold, HeldBindings
  <2>3. \A i \in Ids : \/ skill'[i].name = skill[i].name /\ skill'[i].path = skill[i].path
                          /\ skill'[i].removed = skill[i].removed
                       \/ /\ skill'[i].path = "none"
                          /\ \A b \in syncRun.bound \cup syncRun.rows : b.id # i
    BY <1>6, <2>2, NoSkillIs
  <2> QED
    BY <1>1, <1>3, <2>1, <2>3, BindingsStay
<1> QED
  BY <1>1, <1>2, <1>3, <1>6, <1>7, <1>8, <1>9, <1>10, TreeFacts, FolderSettles

LEMMA BindKeeps == ASSUME SyncInv, S!Bind PROVE SyncInv'
<1> DEFINE p == syncRun.path
           new == S!Done(p)
<1>1. /\ syncRun.at = "bind" /\ syncRun' = new /\ stranded' = stranded \ S!Row(Now)
      /\ skill' = [i \in Ids |-> IF i \in S!Row(Now) THEN S!BoundTo(skill[i], p) ELSE skill[i]]
      /\ UNCHANGED <<tree, ignored, refused, connected, disturbed, pushes, people, deaths>>
  BY DEF S!Bind, Now
<1>2. p \in S!Paths /\ p \in syncRun.folders /\ S!Accepted(p) /\ Now = syncRun.tree[p]
      /\ Now \in S!Names /\ S!Declaring(syncRun.tree, Now) # {}
  BY <1>1, NowFacts DEF Now
<1>3. /\ new \in TreeRuns /\ new.at = "folders" /\ new.tree = syncRun.tree
      /\ new.folders = syncRun.folders \ {p} /\ ~new.created /\ new.rows = syncRun.rows
      /\ new.bound = syncRun.bound /\ new.ignored = syncRun.ignored
      /\ new.refused = syncRun.refused
  BY <1>2, DoneIs
<1> HIDE DEF new
<1>4. ASSUME NEW i \in Ids
      PROVE  /\ skill'[i] \in SkillRows /\ skill'[i].name = skill[i].name
             /\ skill'[i].versions = skill[i].versions
             /\ i \in S!Row(Now) => skill'[i].path = p /\ skill'[i].removed = FALSE /\ skill[i].name = Now
             /\ i \notin S!Row(Now) => skill'[i] = skill[i] /\ skill[i].name # Now
  BY <1>1, <1>2, TreeFacts DEF SkillRows, S!BoundTo, S!Row
<1> HIDE DEF p
<1>5. skill' \in [Ids -> SkillRows] /\ skill \in [Ids -> SkillRows]
  BY <1>1, <1>4, TreeFacts
<1>6. \A i \in Ids : skill[i] = S!NoSkill => skill'[i] = S!NoSkill
  BY <1>2, <1>4, NoSkillIs, NamesApart
<1>7. OneNameEach'
  <2>1. \A i \in Ids : /\ skill'[i].name = skill[i].name
                       /\ skill[i] = S!NoSkill => skill'[i] = S!NoSkill
    BY <1>4, <1>6
  <2> QED
    BY <2>1, TreeFacts DEF OneNameEach
<1>8. \A i \in Ids : skill'[i] # S!NoSkill /\ ~skill'[i].versions => i \in stranded'
  <2> SUFFICES ASSUME NEW i \in Ids, skill'[i] # S!NoSkill, ~skill'[i].versions PROVE i \in stranded'
    OBVIOUS
  <2>1. skill[i] # S!NoSkill /\ ~skill[i].versions
    BY <1>4, <1>6
  <2>2. i \notin S!Row(Now)
    BY <1>1, <2>1 DEF SyncInv, BoundHaveVersions
  <2> QED
    BY <1>1, <2>1, <2>2 DEF SyncInv, Versionless
<1>9. \A i \in Ids : skill'[i] = skill[i] \/ (S!Accepted(p) /\ skill[i].name = syncRun.tree[p])
  BY <1>2, <1>4
<1>10. ASSUME ~disturbed
       PROVE  /\ BindingsHold'
              /\ \E i \in Ids : skill'[i].name = syncRun.tree[p] /\ skill'[i].path = p
                               /\ ~skill'[i].removed
  <2>1. BindingsHold /\ S!Row(Now) # {}
    BY <1>1, <1>10 DEF SyncInv, Undisturbed
  <2>2. \A i \in Ids : \/ skill'[i].name = skill[i].name /\ skill'[i].path = skill[i].path
                          /\ skill'[i].removed = skill[i].removed
                       \/ /\ S!Declaring(syncRun.tree, skill'[i].name) # {}
                          /\ skill'[i].name = skill[i].name
    BY <1>2, <1>4
  <2>3. BindingsHold'
    BY <1>1, <1>3, <2>1, <2>2, BindingsStay
  <2>4. PICK i \in Ids : i \in S!Row(Now)
    BY <2>1 DEF S!Row
  <2> QED
    BY <1>2, <1>4, <2>3, <2>4
<1>11. stranded' \in SUBSET Ids
  BY <1>1, TreeFacts
<1> QED
  BY <1>1, <1>2, <1>3, <1>5, <1>7, <1>8, <1>9, <1>10, <1>11, TreeFacts, FolderSettles

-----------------------------------------------------------------------------
LEMMA SyncKept == SyncInv /\ [GitNext]_every => SyncInv'
<1> SUFFICES ASSUME SyncInv, [GitNext]_every PROVE SyncInv'
  OBVIOUS
<1>1. CASE UNCHANGED sVars
  BY <1>1, TreeFacts, SyncStays DEF sVars
<1>2. ASSUME S!Next PROVE SyncInv'
  <2>1. ASSUME NEW b \in syncRun.rows, S!Rename(b) PROVE SyncInv'
    BY <2>1, RenameKeeps
  <2>2. ASSUME NEW p \in S!Paths, NEW i \in Ids, S!Folder(p, i) PROVE SyncInv'
    BY <2>2, FolderKeeps
  <2>3. ASSUME NEW accepts \in BOOLEAN, S!PublishFolder(accepts) PROVE SyncInv'
    <3>1. CASE accepts /\ S!Row(Now) # {}
      <4>1. S!PublishFolder(TRUE)
        BY <2>3, <3>1
      <4> QED
        BY <3>1, <4>1, PublishTakes
    <3>2. CASE ~(accepts /\ S!Row(Now) # {})
      BY <2>3, <3>2, PublishRefuses
    <3> QED
      BY <3>1, <3>2
  <2>4. ASSUME NEW p \in S!Paths, NEW n \in S!Names \cup {"none"}, S!Push(p, n) PROVE SyncInv'
    BY <2>4, TreePushKeeps
  <2>5. ASSUME NEW i \in Ids, S!DeleteSkill(i) \/ S!Detach(i) PROVE SyncInv'
    BY <2>5, DeleteSkillKeeps, DetachKeeps
  <2>6. ASSUME NEW i \in Ids, NEW n \in S!Names, S!Register(i, n) PROVE SyncInv'
    BY <2>6, RegisterKeeps2
  <2>7. ASSUME NEW i \in Ids, NEW p \in S!Paths, S!Adopt(p, i) PROVE SyncInv'
    BY <2>7, AdoptKeeps
  <2>8. ASSUME S!Begin \/ S!Renamed \/ S!Bind \/ S!BindFails \/ S!Removals \/ S!Record
               \/ S!Stop \/ S!Disconnect
        PROVE  SyncInv'
    BY <2>8, SyncBegins, RenamedKeeps, BindKeeps, BindFailsKeeps, RemovalsKeep, SyncRecords,
       SyncStopKeeps, DisconnectKeeps
  <2> QED
    BY <1>2, <2>1, <2>2, <2>3, <2>4, <2>5, <2>6, <2>7, <2>8 DEF S!Next, S!Sync, S!None
<1> QED
  BY <1>1, <1>2 DEF GitNext, Changes, Sync, Checks, App, every

(* The invariant of a connection's sync (gitsync/reconcile.go).              *)
THEOREM SyncInvariant == GitSpec => []SyncInv
<1>1. GitInit => SyncInv
  BY SyncInit
<1>2. SyncInv /\ [GitNext]_every => SyncInv'
  BY SyncKept
<1> QED
  BY <1>1, <1>2, PTL DEF GitSpec

(* For every number of names, paths, skills, pushes, acts of people and      *)
(* deaths: a sync that nobody disturbed leaves each folder bound or refused  *)
(* and each bound skill without a folder marked removed, and one that        *)
(* refuses a new folder leaves no row of it (gitsync/reconcile.go).          *)
THEOREM SyncsMatchTheTree == GitSpec => []SyncMatchesTree
<1>1. SyncInv => SyncMatchesTree
  <2> SUFFICES ASSUME SyncInv PROVE SyncMatchesTree
    OBVIOUS
  <2>1. S!TypeOK
    BY TreeFacts DEF S!TypeOK, SkillRows, Trees, TreeRuns, Bindings, OneNameEach, S!None
  <2>2. S!SyncMatchesTree
    BY DEF SyncInv, Undisturbed, S!SyncMatchesTree
  <2>3. S!NothingLeftBehind
    BY DEF SyncInv, SyncShape, Versionless, S!NothingLeftBehind
  <2> QED
    BY <2>1, <2>2, <2>3 DEF SyncMatchesTree
<1> QED
  BY <1>1, SyncInvariant, PTL

(* What a sync publishes or binds, it held the binding of or registered.     *)
LEMMA NoTakeover == ASSUME SyncInv, [GitNext]_every PROVE S!NoTakeoverStep
<1> SUFFICES ASSUME NEW i \in Ids, syncRun.at \in {"publish", "bind"}, people' = people,
                    skill'[i] # skill[i], ~disturbed, ~syncRun.created
             PROVE  \E b \in syncRun.bound : b.id = i
  BY DEF S!NoTakeoverStep
<1>1. PICK b \in syncRun.bound : b.name = Now
  BY NowFacts
<1>2. skill[b.id].name = Now /\ b.id \in Ids /\ Now \in S!Names
  BY <1>1, TreeFacts, NowFacts DEF SyncInv, Undisturbed, BindingsHold, HeldBindings, TreeRuns, Bindings
<1>3. i \in S!Row(Now)
  <2>1. S!Next
    BY DEF GitNext, Changes, Sync, Checks, App, every, sVars
  <2>2. people \in Nat
    BY TreeFacts, NamesApart
  <2>3. ~S!Begin /\ ~S!Renamed /\ ~S!Removals /\ ~S!Record
    BY DEF S!Begin, S!Renamed, S!Removals, S!Record
  <2>8. (\A c \in syncRun.rows : ~S!Rename(c)) /\ (\A p \in S!Paths, j \in Ids : ~S!Folder(p, j))
    BY Zenon DEF S!Rename, S!Folder
  <2>9. ~S!Person
    BY <2>2 DEF S!Person
  <2>4. CASE S!BindFails \/ S!Stop \/ \E p \in S!Paths, n \in S!Names \cup {"none"} : S!Push(p, n)
    BY <2>4 DEF S!BindFails, S!Stop, S!Push
  <2>5. CASE S!Bind
    BY <2>5, TreeFacts DEF S!Bind, Now
  <2>6. CASE \E accepts \in BOOLEAN : S!PublishFolder(accepts)
    BY <2>6, TreeFacts DEF S!PublishFolder, S!Undone, Now
  <2>7. ~S!Disconnect /\ (\A j \in Ids : ~S!DeleteSkill(j) /\ ~S!Detach(j))
        /\ (\A j \in Ids, n \in S!Names : ~S!Register(j, n))
        /\ (\A j \in Ids, p \in S!Paths : ~S!Adopt(p, j))
    BY <2>9 DEF S!Disconnect, S!DeleteSkill, S!Detach, S!Register, S!Adopt
  <2> QED
    BY <2>1, <2>3, <2>4, <2>5, <2>6, <2>7, <2>8 DEF S!Next, S!Sync, S!None
<1>4. i = b.id
  BY <1>2, <1>3, TreeFacts, NamesApart DEF OneNameEach, S!Row
<1> QED
  BY <1>4

(* For every number of submissions, reviewers, syncs and skills: a           *)
(* submission is decided once, waits on one change until then, and no sync   *)
(* takes over a skill that a person made (submissions/store.go,              *)
(* gitsync/reconcile.go).                                                    *)
THEOREM DecisionsAreFinal == GitSpec => DecidedOnce
<1>1. ChangesInv /\ SyncInv /\ [GitNext]_every =>
        [/\ part = "changes" => G!DecidedStaysStep /\ G!WaitsOnOneChangeStep
         /\ part = "sync"    => S!NoTakeoverStep]_<<gVars, sVars>>
  BY DecisionsStay, NoTakeover
<1> QED
  BY <1>1, ChangesInvariant, SyncInvariant, PTL DEF GitSpec, DecidedOnce
=============================================================================
