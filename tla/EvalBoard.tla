----------------------------- MODULE EvalBoard ------------------------------
(***************************************************************************)
(* What the eval queue promises its callers, with leases, tokens, workers  *)
(* and requests left out: a submitted job is tried at most MaxAttempts     *)
(* times, and ends once and for all, either measured by exactly one        *)
(* verified score, or cancelled, or given up after the last try.           *)
(***************************************************************************)
EXTENDS Naturals

CONSTANTS Jobs, MaxAttempts

VARIABLES
  phase,  \* where each job stands
  tries,  \* attempts made at it
  rows    \* verified scores recorded for it

boardVars == <<phase, tries, rows>>

BoardInit ==
  /\ phase = [j \in Jobs |-> "absent"]
  /\ tries = [j \in Jobs |-> 0]
  /\ rows  = [j \in Jobs |-> 0]

Open(j) ==
  /\ phase[j] = "absent"
  /\ phase' = [phase EXCEPT ![j] = "open"]
  /\ UNCHANGED <<tries, rows>>

Try(j) ==
  /\ phase[j] = "open"
  /\ tries[j] < MaxAttempts
  /\ tries' = [tries EXCEPT ![j] = @ + 1]
  /\ UNCHANGED <<phase, rows>>

Measure(j) ==
  /\ phase[j] = "open"
  /\ tries[j] > 0
  /\ rows[j] = 0
  /\ phase' = [phase EXCEPT ![j] = "measured"]
  /\ rows' = [rows EXCEPT ![j] = 1]
  /\ UNCHANGED tries

Withdraw(j) ==
  /\ phase[j] = "open"
  /\ phase' = [phase EXCEPT ![j] = "cancelled"]
  /\ UNCHANGED <<tries, rows>>

(* One sweep may give up several jobs. *)
GiveUp(S) ==
  /\ \A j \in S : phase[j] = "open" /\ tries[j] = MaxAttempts
  /\ phase' = [j \in Jobs |-> IF j \in S THEN "given up" ELSE phase[j]]
  /\ UNCHANGED <<tries, rows>>

BoardNext ==
  \/ \E j \in Jobs : Open(j) \/ Try(j) \/ Measure(j) \/ Withdraw(j)
  \/ \E S \in SUBSET Jobs : GiveUp(S)

BoardSpec == BoardInit /\ [][BoardNext]_boardVars
=============================================================================
