--------------------------- MODULE MCPublishGate ----------------------------
(* Instances of PublishGate for TLC: an admin and someone who sometimes owns *)
(* the skill, a clean bundle, one a sandbox could clear and one that no      *)
(* measurement clears, and a report above and one below the floor.           *)
EXTENDS PublishGate, TLC

CONSTANTS admin, bob, clean, shady, stolen

Found(class, severity) == {[class |-> class, severity |-> severity]}

Scans == clean  :> {}
      @@ shady  :> Found("heuristic", "high")
      @@ stolen :> Found("secret", "critical")

CleanOrShady == [c \in {clean, shady} |-> Scans[c]]
AnyBundle    == [c \in {clean, shady, stolen} |-> Scans[c]]

TwoScores == {0, 1}

Clearing == [measured |-> TRUE, verified |-> TRUE, complete |-> TRUE,
             headline |-> 1, violations |-> FALSE]
Reports  == {Clearing, [Clearing EXCEPT !.headline = 0]}

BobOwns == {{bob}}

Symmetry == Permutations(Requests)
=============================================================================
