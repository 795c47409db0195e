----------------------------- MODULE GateInputs -----------------------------
(***************************************************************************)
(* One bundle and the inputs of its gate decision, which change while the  *)
(* bundle waits: a scanner rule set finds more, an evaluation measures it, *)
(* the ownership rules change, an admin overrides or the floor moves.  The *)
(* properties relate the decisions before and after one such change.       *)
(***************************************************************************)
EXTENDS Gate

CONSTANTS
  Findings    \* the findings scanners may report

ASSUME FindingsAssumption == Findings \subseteq Finding

VARIABLES scan, quality, owner, policy

inputs == <<scan, quality, owner, policy>>

InputsOK ==
  /\ scan \subseteq Findings
  /\ quality \in Quality
  /\ owner \in OwnerState
  /\ policy \in Policy

InputsInit ==
  /\ scan = {}
  /\ quality = Unmeasured
  /\ owner = NotEvaluated
  /\ policy \in [floor : Scores, override : {FALSE}]

Find(f) ==
  /\ scan' = scan \cup {f}
  /\ UNCHANGED <<quality, owner, policy>>

MeasureScore(q) ==
  /\ quality' = q
  /\ UNCHANGED <<scan, owner, policy>>

ResolveOwner(isOwner, unowned) ==
  /\ owner' = [evaluated |-> TRUE, isOwner |-> isOwner, unowned |-> unowned]
  /\ UNCHANGED <<scan, quality, policy>>

Configure(p) ==
  /\ policy' = p
  /\ UNCHANGED <<scan, quality, owner>>

InputsNext ==
  \/ \E f \in Findings : Find(f)
  \/ \E q \in Quality : MeasureScore(q)
  \/ \E isOwner, unowned \in BOOLEAN : ResolveOwner(isOwner, unowned)
  \/ \E p \in Policy : Configure(p)

InputsSpec == InputsInit /\ [][InputsNext]_inputs

-----------------------------------------------------------------------------
(* How far a decision keeps a bundle from being served. *)
Rank(outcome) ==
  CASE outcome \in {"allow", "allow_with_warning"} -> 0
    [] outcome = "needs_review" -> 1
    [] outcome = "block" -> 2

Now == Decide(scan, quality, owner, policy)
HoldsNow == Holds(scan, quality, owner, policy)

(* One more finding never makes a bundle easier to publish, whatever its   *)
(* class: an unmapped class, an advisory severity and a cleared appeal      *)
(* included (gate.go Decide).                                               *)
FindingsOnlyTighten ==
  [][(scan \subseteq scan' /\ UNCHANGED <<quality, owner, policy>>)
       => Rank(Now) <= Rank(Now')]_inputs

(* Neither a measurement nor an override nor the floor touches a refusal or *)
(* the ownership hold: an evaluation re-decides the scan alone (release.go  *)
(* Reconsider, "clears scan only").                                         *)
EvidenceMovesOnlyTheScanHold ==
  [][UNCHANGED <<scan, owner>>
       => /\ (Now = "block") <=> (Now' = "block")
          /\ ("ownership" \in HoldsNow) <=> ("ownership" \in HoldsNow')]_inputs

(* What Reconsider needs of a version that was held for its scan: it is     *)
(* cleared exactly when the measurement clears the floor, although the       *)
(* outcome must be "allow" itself and a report with findings could come out *)
(* as "allow_with_warning".                                                 *)
ScanHoldClearsByScore ==
  "scan" \in Holds(scan, Unmeasured, owner, policy)
    => (Reclears(scan, quality, policy.floor)
          <=> QualityClears(quality, policy.floor))
=============================================================================
