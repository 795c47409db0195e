-------------------------------- MODULE MCGate ------------------------------
(* Two scores, and one finding of every kind the gate tells apart. *)
EXTENDS GateInputs

TwoScores == {0, 1}

Kinds == {[class |-> "exfiltration", severity |-> "critical"],
          [class |-> "unmapped",     severity |-> "high"],
          [class |-> "injection",    severity |-> "high"],
          [class |-> "secret",       severity |-> "medium"],
          [class |-> "heuristic",    severity |-> "low"]}
=============================================================================
