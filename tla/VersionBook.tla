---------------------------- MODULE VersionBook -----------------------------
(***************************************************************************)
(* What publishing promises of one skill, with requests, reviews and       *)
(* transactions left out: versions are numbered in the order they are      *)
(* accepted, each is served from the start or held, a held one is decided  *)
(* once, and clients are always pointed at the newest version served.      *)
(***************************************************************************)
EXTENDS Naturals

CONSTANTS MaxVersion    \* bound on the versions of the skill

VARIABLES
  book,     \* per version number: what became of it
  served    \* the version clients sync, 0 before the first

bookVars == <<book, served>>

Numbers == 1..MaxVersion

BookInit ==
  /\ book = [v \in Numbers |-> "none"]
  /\ served = 0

(* v is served if nothing newer is. *)
Serve(v) ==
  /\ \A w \in Numbers : w > v => book[w] # "released"
  /\ served' = v

Accept(v) ==
  /\ book[v] = "none"
  /\ \A w \in Numbers : w < v => book[w] # "none"
  /\ \/ book' = [book EXCEPT ![v] = "needs_review"] /\ UNCHANGED served
     \/ book' = [book EXCEPT ![v] = "released"] /\ Serve(v)

Approve(v) ==
  /\ book[v] = "needs_review"
  /\ book' = [book EXCEPT ![v] = "released"]
  /\ \/ Serve(v)
     \/ (\E w \in Numbers : w > v /\ book[w] = "released") /\ UNCHANGED served

Refuse(v) ==
  /\ book[v] = "needs_review"
  /\ book' = [book EXCEPT ![v] = "rejected"]
  /\ UNCHANGED served

BookNext == \E v \in Numbers : Accept(v) \/ Approve(v) \/ Refuse(v)

BookSpec == BookInit /\ [][BookNext]_bookVars
=============================================================================
