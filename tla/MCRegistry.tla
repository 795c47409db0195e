----------------------------- MODULE MCRegistry -----------------------------
(* What people and machines bring to the registry, one part at a time:       *)
(* accounts and their keys, evaluation suites and the scores against them,   *)
(* and the ledger of runs.  A behaviour is of the part its first state       *)
(* picks; the others stay as they begin.                                     *)
EXTENDS Accounts, Sequences, TLC

CONSTANTS
  Refs, Skills, Jobs, MaxClaims, NoRef,
  Titles, Consumers, Batches, Batch, Reports, Report, MinComparableRuns, MaxHooks, MaxDay, MaxChanges

ASSUME SuitesAssumption == NoRef \notin Refs /\ MaxClaims \in Nat \ {0}

(* A client gives each batch of its own a key of its own, or none.           *)
ASSUME LedgerAssumption ==
  /\ "none" \notin Titles \cup Batches \cup Reports
  /\ \A b \in Batches :
       /\ Batch[b].consumer \in Consumers
       /\ Len(Batch[b].events) \in Nat /\ DOMAIN Batch[b].events = 1..Len(Batch[b].events)
       /\ \A i \in 1..Len(Batch[b].events) : Batch[b].events[i].skill \in Titles
       /\ Batch[b].key # "none" =>
            \A c \in Batches \ {b} : <<Batch[c].consumer, Batch[c].key>> # <<Batch[b].consumer, Batch[b].key>>
  /\ \A o \in Reports : Report[o].consumer \in Consumers

VARIABLES
  part,
  suite, made, archive, job, suiteRequest, score, released, vouched, derivedOnce,
  named, oldName, dismissed, event, run, runSkill, batch, replaced, task, put, day, hooks, changes

-----------------------------------------------------------------------------
(* Two people, a service account, a key, and each of these requests.         *)
RegistryAsks ==
  LET None  == [scopes |-> {}, set |-> NoSet]
      Limited == [scopes: {{"eval:work"}}, set: {NoSet}]
                 \cup [scopes: {{"skills:read", "sets:read"}}, set: SetIds]
  IN [do: {"read"}, route: {"skills", "sets"}]
     \cup [do: {"role"}, on: Users, to: {"owner", "member"}]
     \cup [do: {"disable"}, on: Users] \cup [do: {"password"}, on: People]
     \cup [do: {"newBot", "dropBot"}, on: Bots]
     \cup [do: {"botKey"}, on: Bots, key: Keys, limits: {l \in Limited: l.set # NoSet}]
     \cup [do: {"dropBotKey"}, on: Bots, key: Keys]
     \cup [do: {"newKey"}, key: Keys, limits: {None}]
     \cup [do: {"dropKey"}, key: Keys]
     \cup [do: {"leave"}]

(* A batch about two skills of one run, sent twice, and two outcomes of it.  *)
OneBatch    == [b1 |-> [consumer |-> "c1", key |-> "k", sent |-> 2,
                        events |-> <<[run |-> "r1", skill |-> "x", version |-> 1],
                                     [run |-> "r1", skill |-> "y", version |-> 1]>>]]
TwoOutcomes == [o1 |-> [consumer |-> "c1", run |-> "r1", outcome |-> "succeeded"],
                o2 |-> [consumer |-> "c1", run |-> "r1", outcome |-> "failed"]]

E == INSTANCE SuiteRegistry WITH request <- suiteRequest
L == INSTANCE RunLedger WITH
       Names <- Titles, skill <- named, alias <- oldName, audit <- replaced

eVars == <<suite, made, archive, job, suiteRequest, score, released, vouched, derivedOnce>>
lVars == <<named, oldName, dismissed, event, run, runSkill, batch, replaced, task, put,
           day, hooks, changes>>
all   == <<part, vars, eVars, lVars>>

MCInit ==
  /\ part \in {"people", "bots", "suites", "ledger"}
  /\ Init /\ E!Init
  /\ L!Init /\ (part # "ledger" => named = {})

(* People manage each other and their keys, or service accounts.             *)
OfPeople == {"read", "role", "disable", "password", "newKey", "dropKey", "leave"}
OfBots   == {"read", "role", "disable", "newBot", "dropBot", "botKey",
             "dropBotKey", "leave"}
Asking(kinds) == \A q \in Requests : request'[q].at \in {"resolved", "served", "looked"} =>
                                        request'[q].asks.do \in kinds

Members ==
  /\ Next /\ UNCHANGED <<part, eVars, lVars>>
  /\ \/ part = "people" /\ Asking(OfPeople)
     \/ part = "bots"   /\ Asking(OfBots)
Suites  == part = "suites"   /\ E!Next /\ UNCHANGED <<part, vars, lVars>>
Ledger  == part = "ledger"   /\ L!Next /\ UNCHANGED <<part, vars, eVars>>

MCNext == Members \/ Suites \/ Ledger
MCSpec == MCInit /\ [][MCNext]_all

Interchangeable == Permutations(People) \cup Permutations(Requests)

-----------------------------------------------------------------------------
(* No score counts as authored, and no held version is released by one,      *)
(* unless somebody wrote or read its suite; a derived suite rises only by a  *)
(* review; and every recorded suite has its archive                          *)
(* (evalsuite/routes.go:145-148, registry.go:182-190).                       *)
SuitesAreVouched ==
  part = "suites" => /\ E!TypeOK
                     /\ E!ReleasesAreVouched /\ E!AuthoredScoresAreVouched
                     /\ E!RaisedHasReviewer  /\ E!SuitesAreStored

(* That a worker generated a suite's content is never forgotten              *)
(* (registry.go:284-290).                                                    *)
MachineStays == [][part = "suites" => E!MachineStaysStep]_eVars

(* A batch is counted once however often it is sent, a replaced outcome is   *)
(* in the audit log, and every panel counts the same events                  *)
(* (runs/store.go:170-171, analytics/event.go).                              *)
LedgerAddsUp ==
  part = "ledger" => L!TypeOK /\ L!BatchesStoreOnce /\ L!OutcomesAreAudited /\ L!QueriesAgree
=============================================================================
