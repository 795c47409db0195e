---------------------------- MODULE MCOwnership -----------------------------
(* Instances of Ownership for TLC. *)
EXTENDS Ownership, TLC

AB == {"a", "b"}
SomeNames == {<<"a">>, <<"a", "b">>, <<"b">>}

Exact(n)  == [scope |-> n, prefix |-> FALSE]
Prefix(n) == [scope |-> n, prefix |-> TRUE]

(* Nested prefixes, and a name that is also the scope of a prefix.          *)
NestedPatterns == {Prefix(<<>>), Prefix(<<"a">>), Exact(<<"a">>)}

(* What callers write: nothing is gained by listing an admin. *)
OnlyAnn == {Users \ Admins}

(* One pattern may lose its rule and get another.                          *)
SecondRuleForA == [p \in Patterns |-> IF p = Prefix(<<"a">>) THEN 2 ELSE 1]

Symmetry == Permutations(Requests)
=============================================================================
