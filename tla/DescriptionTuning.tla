--------------------------- MODULE DescriptionTuning ---------------------------
(***************************************************************************)
(* `whetstone tune`: measuring a skill's description on trigger queries    *)
(* and keeping the best of the ones a model proposes                       *)
(* (internal/eval/tune).                                                   *)
(*                                                                         *)
(* A query should fire the skill or should not.  The set is topped up to   *)
(* the size asked for and split into a train half, which proposals are     *)
(* written from, and a held-out half, which decides.  Each iteration       *)
(* scores one description on both.                                         *)
(***************************************************************************)
EXTENDS Naturals, Sequences, FiniteSets

CONSTANTS
    Positive,       \* queries that should fire the skill
    Negative,       \* queries that should not
    Own,            \* the queries the set starts with
    Want,           \* how many the set is to hold
    Descriptions,   \* descriptions a model may propose
    Runs,           \* runs per query
    Iterations,
    HoldoutPercent, \* the held-out fraction; 0 disables the split
    None

VARIABLES
    phase,    \* which step comes next
    queries, train, test,
    current,  \* the description to score next
    fired,    \* what each description scored so far fired, kept by the gateway's cache
    history,  \* the attempts, in order
    told,     \* the queries a proposal was written from
    best      \* the attempt kept

vars == << phase, queries, train, test, current, fired, history, told, best >>

Attempts == [desc : Descriptions, train : Nat, test : Nat, measured : BOOLEAN]

Init == /\ phase = "topup" /\ queries = Own
        /\ train = {} /\ test = {}
        /\ current \in Descriptions
        /\ fired = [d \in Descriptions |-> None]
        /\ history = << >> /\ told = {} /\ best = None

\* TopUp: a long enough set stays as it is; a model's queries, less the ones already
\* there, fill a short one, and too few of them fail the run.
TopUp == /\ phase = "topup"
         /\ \/ /\ Cardinality(queries) >= Want
               /\ phase' = "split" /\ UNCHANGED queries
            \/ \E more \in SUBSET ((Positive \cup Negative) \ queries) :
                   /\ Cardinality(queries) + Cardinality(more) = Want /\ more # {}
                   /\ queries' = queries \cup more /\ phase' = "split"
            \/ /\ Cardinality(queries) < Want
               /\ phase' = "failed" /\ UNCHANGED queries
         /\ UNCHANGED << train, test, current, fired, history, told, best >>

\* At least one of each kind that there is, and no more than there are.
HoldoutCount(n) == LET part == (n * HoldoutPercent) \div 100 IN
    IF n = 0 THEN 0 ELSE IF part < 1 THEN 1 ELSE IF part > n THEN n ELSE part

\* The shuffle by the seed may put any of them first.
Split ==
    /\ phase = "split"
    /\ \E held \in SUBSET queries :
        /\ IF HoldoutPercent = 0 THEN held = {}
           ELSE /\ Cardinality(held \cap Positive) = HoldoutCount(Cardinality(queries \cap Positive))
                /\ Cardinality(held \cap Negative) = HoldoutCount(Cardinality(queries \cap Negative))
        /\ test' = held /\ train' = queries \ held
    /\ phase' = "score"
    /\ UNCHANGED << queries, current, fired, history, told, best >>

\* A query fires when at least half of its runs chose the skill.
Passes(hits, q) == (2 * hits[q] >= Runs) <=> (q \in Positive)

Passed(hits, set) == Cardinality({q \in set : Passes(hits, q)})

\* Score on both halves; a description scored before is answered from the cache.
Score ==
    /\ phase = "score"
    /\ \E hits \in [queries -> 0 .. Runs] :
        /\ fired[current] # None => hits = fired[current]
        /\ fired' = [fired EXCEPT ![current] = hits]
        /\ history' = Append(history,
               [desc |-> current, train |-> Passed(hits, train), test |-> Passed(hits, test),
                measured |-> test # {}])
        /\ phase' = IF Passed(hits, train) = Cardinality(train) \/ Len(history') = Iterations
                    THEN "select" ELSE "improve"
    /\ UNCHANGED << queries, train, test, current, told, best >>

\* improvePrompt quotes the train failures and the train scores.
Shown == {q \in train : ~ Passes(fired[current], q)}

Improve == /\ phase = "improve"
           /\ told' = told \cup Shown
           /\ \E d \in Descriptions : current' = d
           /\ phase' = "score"
           /\ UNCHANGED << queries, train, test, fired, history, best >>

\* A call that fails, or an empty answer, fails the run.
Fail == /\ phase \in {"score", "improve"}
        /\ phase' = "failed"
        /\ UNCHANGED << queries, train, test, current, fired, history, told, best >>

(* mutant: the train score decides first *)
BetterOnTrain(a, b) == IF a.train # b.train THEN a.train > b.train ELSE a.test > b.test

\* The held-out score decides, the train score breaks a tie.
Better(a, b) == IF a.measured /\ b.measured /\ a.test # b.test
                THEN a.test > b.test ELSE a.train > b.train

\* The winner of the first n attempts.
Winner[n \in Nat] == IF n <= 1 THEN history[1]
                     ELSE LET before == Winner[n - 1] IN
                          IF Better(history[n], before) THEN history[n] ELSE before

Select == /\ phase = "select"
          /\ best' = Winner[Len(history)]
          /\ phase' = "done"
          /\ UNCHANGED << queries, train, test, current, fired, history, told >>

Next == TopUp \/ Split \/ Score \/ Improve \/ Fail \/ Select

Spec == Init /\ [][Next]_vars

-----------------------------------------------------------------------------
\* The halves are of the set, the attempts are scores of it.
TypeOK == /\ phase \in {"topup", "split", "score", "improve", "select", "done", "failed"}
          /\ queries \subseteq Positive \cup Negative
          /\ current \in Descriptions /\ told \subseteq queries
          /\ Len(history) <= Iterations
          /\ \A i \in 1 .. Len(history) :
                 /\ history[i] \in Attempts
                 /\ history[i].train <= Cardinality(train)
                 /\ history[i].test <= Cardinality(test)

\* The description kept was measured, passes at least as many held-out queries as every
\* other description tried, the author's own among them, and was written without sight
\* of any held-out query (internal/eval/tune/loop.go:42-46, improve.go:32-36).  What
\* was proposed last but never scored is not kept.
WinnerHoldsOut ==
    phase = "done" =>
        /\ \E i \in 1 .. Len(history) : best = history[i]
        /\ \A i \in 1 .. Len(history) :
               \/ best.test > history[i].test
               \/ best.test = history[i].test /\ best.train >= history[i].train
        /\ best.desc # history[1].desc =>
               best.test > history[1].test \/ best.train > history[1].train
        /\ told \cap test = {}

\* internal/eval/tune/split.go:10: "maxHoldout caps the fraction so a train half always
\* remains".
TrainRemains == phase \in {"score", "improve", "select", "done"} => train # {}
=============================================================================
