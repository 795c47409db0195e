------------------------------ MODULE Webhooks ------------------------------
(***************************************************************************)
(* Webhook deliveries (src/internal/webhooks).  A change stores one event   *)
(* and, for each enabled endpoint that wants it, one delivery with one job  *)
(* of the River queue, all in the transaction of the change.  A job loads   *)
(* its delivery, sends it and records the attempt; River runs a job that    *)
(* returned an error again until its attempts are spent, and rescues one    *)
(* whose process died.  An admin edits, disables, rotates, deletes and      *)
(* redelivers meanwhile.                                                    *)
(*                                                                          *)
(* Payloads are left out.  A secret is the number of its rotation.          *)
(***************************************************************************)
EXTENDS Naturals, FiniteSets

CONSTANTS
  Endpoints, Deliveries, Jobs,  \* rows that may come to be
  MaxAttempts,  \* attempts of a job (maxAttempts, 24 in the code)
  MaxSecret,    \* bound on the rotations of an endpoint's secret
  MaxCrash      \* bound on the deaths of a process with a running job

ASSUME BoundsAssumption ==
  MaxAttempts \in Nat \ {0} /\ MaxSecret \in Nat \ {0} /\ MaxCrash \in Nat

ASSUME RowsAssumption == IsFiniteSet(Deliveries) /\ IsFiniteSet(Jobs)

ASSUME NamesAssumption == "none" \notin Endpoints \cup Deliveries

VARIABLES
  endpoint,   \* webhook_endpoints
  delivery,   \* webhook_deliveries
  job,        \* River's rows, and what a running job holds
  accepted,   \* deliveries some attempt of which the receiver accepted
  unrecorded, \* deliveries whose job was discarded before its last attempt was recorded
  crashes

vars == <<endpoint, delivery, job, accepted, unrecorded, crashes>>

NoEndpoint == [state |-> "none", secret |-> 0, previous |-> 0, promised |-> 0]
NoDelivery == [endpoint |-> "none", state |-> "none"]
NoJob      == [state |-> "none", of |-> "none", attempt |-> 0, at |-> "start",
               keys |-> {}, ok |-> FALSE]

TypeOK ==
  /\ endpoint \in [Endpoints ->
       [state : {"none", "on", "off"}, secret : 0..MaxSecret,
        previous : 0..MaxSecret, promised : 0..MaxSecret]]
  /\ delivery \in [Deliveries ->
       [endpoint : Endpoints \cup {"none"},
        state : {"none", "pending", "delivered", "failed"}]]
  /\ job \in [Jobs ->
       [state : {"none", "waiting", "running", "done", "discarded"},
        of : Deliveries \cup {"none"}, attempt : 0..MaxAttempts,
        at : {"start", "send", "record"}, keys : SUBSET (0..MaxSecret),
        ok : BOOLEAN]]
  /\ accepted \subseteq Deliveries /\ unrecorded \subseteq Deliveries
  /\ crashes \in 0..MaxCrash

Init ==
  /\ endpoint = [e \in Endpoints |-> NoEndpoint]
  /\ delivery = [d \in Deliveries |-> NoDelivery]
  /\ job = [j \in Jobs |-> NoJob]
  /\ accepted = {} /\ unrecorded = {} /\ crashes = 0

-----------------------------------------------------------------------------
(* Endpoints.  promised is the replaced secret until its window ends.       *)
CreateEndpoint(e) ==
  /\ endpoint[e].state = "none"
  /\ endpoint' = [endpoint EXCEPT ![e] = [NoEndpoint EXCEPT !.state = "on", !.secret = 1]]
  /\ UNCHANGED <<delivery, job, accepted, unrecorded, crashes>>

UpdateEndpoint(e, state) ==
  /\ endpoint[e].state \notin {"none", state}
  /\ endpoint' = [endpoint EXCEPT ![e].state = state]
  /\ UNCHANGED <<delivery, job, accepted, unrecorded, crashes>>

Rotated(row) ==
  [row EXCEPT !.secret = @ + 1, !.previous = row.secret, !.promised = row.secret]

Rotate(e) ==
  /\ endpoint[e].state # "none" /\ endpoint[e].secret < MaxSecret
  /\ endpoint' = [endpoint EXCEPT ![e] = Rotated(@)]
  /\ UNCHANGED <<delivery, job, accepted, unrecorded, crashes>>

WindowEnds(e) ==
  /\ endpoint[e].promised # 0
  /\ endpoint' = [endpoint EXCEPT ![e].promised = 0]
  /\ UNCHANGED <<delivery, job, accepted, unrecorded, crashes>>

(* The deliveries and their attempts go with the endpoint; jobs stay.       *)
DeleteEndpoint(e) ==
  /\ endpoint[e].state # "none"
  /\ endpoint' = [endpoint EXCEPT ![e] = NoEndpoint]
  /\ delivery' = [d \in Deliveries |->
       IF delivery[d].endpoint = e THEN [delivery[d] EXCEPT !.state = "none"]
       ELSE delivery[d]]
  /\ UNCHANGED <<job, accepted, unrecorded, crashes>>

-----------------------------------------------------------------------------
(* A job is a new row that names a delivery. *)
Insert(j, d) == [NoJob EXCEPT !.state = "waiting", !.of = d]

(* emit: in the transaction of the change, so all of it or nothing.  A test *)
(* event is the same for its one endpoint.                                  *)
Emit(ds, js) ==
  /\ Cardinality(ds) = Cardinality({e \in Endpoints : endpoint[e].state = "on"})
  /\ ds # {} /\ Cardinality(js) = Cardinality(ds)
  /\ \A d \in ds : delivery[d].endpoint = "none"
  /\ \A j \in js : job[j].state = "none"
  /\ \E to \in [ds -> {e \in Endpoints : endpoint[e].state = "on"}],
        of \in [js -> ds] :
       /\ \A c, d \in ds : to[c] = to[d] => c = d
       /\ \A i, j \in js : of[i] = of[j] => i = j
       /\ delivery' = [d \in Deliveries |->
            IF d \in ds THEN [endpoint |-> to[d], state |-> "pending"] ELSE delivery[d]]
       /\ job' = [j \in Jobs |-> IF j \in js THEN Insert(j, of[j]) ELSE job[j]]
  /\ UNCHANGED <<endpoint, accepted, unrecorded, crashes>>

(* Redeliver: pending again, with another job, whatever the first is doing. *)
Redeliver(d, j) ==
  /\ delivery[d].state # "none" /\ job[j].state = "none"
  /\ delivery' = [delivery EXCEPT ![d].state = "pending"]
  /\ job' = [job EXCEPT ![j] = Insert(j, d)]
  /\ UNCHANGED <<endpoint, accepted, unrecorded, crashes>>

-----------------------------------------------------------------------------
(* River gives a waiting job its next attempt.                              *)
Start(j) ==
  /\ job[j].state = "waiting"
  /\ job' = [job EXCEPT ![j].state = "running", ![j].attempt = @ + 1, ![j].at = "start"]
  /\ UNCHANGED <<endpoint, delivery, accepted, unrecorded, crashes>>

(* mutant: the last attempt is taken for the one before. *)
StateAfterEarly(j, ok) ==
  IF ok THEN "delivered"
  ELSE IF job[j].attempt >= MaxAttempts - 1 THEN "failed" ELSE "pending"

(* The state an attempt leaves a delivery in.                               *)
StateAfter(j, ok) ==
  IF ok THEN "delivered"
  ELSE IF job[j].attempt >= MaxAttempts THEN "failed" ELSE "pending"

(* A job that returned an error runs again until its attempts are spent.    *)
Errored(j) ==
  [job[j] EXCEPT !.state = IF @ = "running" /\ job[j].attempt < MaxAttempts
                           THEN "waiting" ELSE "discarded", !.at = "start"]

Ended(j) == [job[j] EXCEPT !.state = "done"]

(* loadDelivery: the row, its endpoint and the secrets live now.            *)
Load(j) ==
  LET d == job[j].of
      e == delivery[d].endpoint
  IN
  /\ job[j].state = "running" /\ job[j].at = "start"
  /\ \/ /\ delivery[d].state = "none"
        /\ job' = [job EXCEPT ![j] = Ended(j)]
        /\ UNCHANGED delivery
     \/ /\ delivery[d].state # "none" /\ endpoint[e].state = "off"
        /\ delivery' = [delivery EXCEPT ![d].state = "failed"]
        /\ job' = [job EXCEPT ![j] = Ended(j)]
     \/ /\ delivery[d].state # "none" /\ endpoint[e].state = "on"
        /\ job' = [job EXCEPT ![j].at = "send", ![j].keys =
             {endpoint[e].secret} \cup
             (IF endpoint[e].promised # 0 THEN {endpoint[e].previous} ELSE {})]
        /\ UNCHANGED delivery
  /\ UNCHANGED <<endpoint, accepted, unrecorded, crashes>>

(* mutant: an answer of any status counts as accepted. *)
AnsweredAny(accepts, arrives) == arrives

(* A 2xx answer that came back. *)
Answered(accepts, arrives) == accepts /\ arrives

(* The receiver answers 2xx, or anything else; an answer it sent may be     *)
(* lost on the way back.                                                    *)
Send(j, accepts, arrives) ==
  /\ job[j].state = "running" /\ job[j].at = "send"
  /\ accepted' = IF accepts THEN accepted \cup {job[j].of} ELSE accepted
  /\ job' = [job EXCEPT ![j].at = "record", ![j].ok = Answered(accepts, arrives)]
  /\ UNCHANGED <<endpoint, delivery, unrecorded, crashes>>

(* recordAttempt writes the state whatever it is by now; a delivery that is *)
(* gone fails it, and the job runs again to find it gone.                   *)
Record(j) ==
  LET d == job[j].of IN
  /\ job[j].state = "running" /\ job[j].at = "record"
  /\ IF delivery[d].state = "none"
     THEN /\ job' = [job EXCEPT ![j] = Errored(j)]
          /\ UNCHANGED delivery
     ELSE /\ delivery' = [delivery EXCEPT ![d].state = StateAfter(j, job[j].ok)]
          /\ job' = [job EXCEPT ![j] = IF job[j].ok THEN Ended(j) ELSE Errored(j)]
  /\ UNCHANGED <<endpoint, accepted, unrecorded, crashes>>

(* The process dies, or the database refuses a read or the record: the      *)
(* attempt is spent.  River runs the job again or discards it.              *)
Crash(j) ==
  /\ job[j].state = "running" /\ crashes < MaxCrash
  /\ crashes' = crashes + 1
  /\ job' = [job EXCEPT ![j] = Errored(j)]
  /\ unrecorded' = IF job[j].attempt >= MaxAttempts
                   THEN unrecorded \cup {job[j].of} ELSE unrecorded
  /\ UNCHANGED <<endpoint, delivery, accepted>>

Work(j) ==
  \/ Start(j) \/ Load(j) \/ Record(j)
  \/ \E accepts, arrives \in BOOLEAN : Send(j, accepts, arrives)

Next ==
  \/ \E e \in Endpoints :
       \/ CreateEndpoint(e) \/ Rotate(e) \/ WindowEnds(e) \/ DeleteEndpoint(e)
       \/ \E state \in {"on", "off"} : UpdateEndpoint(e, state)
  \/ \E ds \in SUBSET Deliveries, js \in SUBSET Jobs : Emit(ds, js)
  \/ \E d \in Deliveries, j \in Jobs : Redeliver(d, j)
  \/ \E j \in Jobs : Work(j) \/ Crash(j)

(* River's workers poll and its retries come due: a job that can take a     *)
(* step takes one.                                                          *)
Fairness == \A j \in Jobs : WF_vars(Work(j))

Spec == Init /\ [][Next]_vars /\ Fairness

-----------------------------------------------------------------------------
Unfinished(d) ==
  \E j \in Jobs : job[j].of = d /\ job[j].state \in {"waiting", "running"}

(* A pending delivery has a job that will still run: redelivery, the end of *)
(* an older job, a disabled endpoint and a dying process leave none pending *)
(* with nobody to end it, except a last attempt that was never recorded.    *)
PendingHasAJob ==
  \A d \in Deliveries \ unrecorded : delivery[d].state = "pending" => Unfinished(d)

(* A delivery that is called delivered was accepted by its receiver.        *)
DeliveredWasAccepted ==
  \A d \in Deliveries : delivery[d].state = "delivered" => d \in accepted

(* Both hold of the state of every delivery (worker.go, store.go:185).      *)
DeliveriesAreTrue == PendingHasAJob /\ DeliveredWasAccepted

(* A delivery fails only once some job has spent its attempts, or when its  *)
(* endpoint was off as the attempt began.                                   *)
FailsExhaustedStep ==
  \A d \in Deliveries :
    delivery[d].state = "pending" /\ delivery'[d].state = "failed" =>
      \/ endpoint[delivery[d].endpoint].state = "off"
      \/ \E j \in Jobs : job[j].of = d /\ job[j].attempt = MaxAttempts

(* Within the window of a rotation, what is loaded is signed with the       *)
(* secret that was replaced as well, however the rotations follow.          *)
PromisedSecretSignsStep ==
  \A j \in Jobs : job[j].at = "start" /\ job'[j].at = "send" =>
    LET e == endpoint[delivery[job[j].of].endpoint] IN
      /\ e.secret \in job'[j].keys
      /\ e.promised # 0 => e.promised \in job'[j].keys

(* What an attempt may do: fail a delivery only when its tries are spent,   *)
(* and sign with every secret that receivers may still expect.              *)
AttemptsAreFair == [][FailsExhaustedStep /\ PromisedSecretSignsStep]_vars

(* Every delivery settles: redeliveries, endpoints that are switched off or *)
(* deleted and processes that die leave none pending for ever, but where a  *)
(* last attempt was never recorded.                                         *)
DeliveriesSettle ==
  \A d \in Deliveries :
    [](delivery[d].state = "pending" =>
         <>(delivery[d].state # "pending" \/ d \in unrecorded))
=============================================================================
