-------------------------------- MODULE Gate --------------------------------
(***************************************************************************)
(* The publish gate (internal/gate): a pure function of the scan report,   *)
(* the measured quality, the publisher's ownership standing and the        *)
(* deployment's policy.  A report is the set of its findings' classes and  *)
(* severities: Decide only asks whether there is a finding of a kind.      *)
(***************************************************************************)
EXTENDS Integers

CONSTANTS
  Scores      \* headline scores and floors

ASSUME ScoresAssumption == Scores \subseteq Int

Unappealable == {"exfiltration", "secret"}
Appealable   == {"execution", "injection", "heuristic"}

(* "unmapped" stands for every class the gate does not know. *)
Class    == Unappealable \cup Appealable \cup {"unmapped"}
Severity == {"critical", "high", "medium", "low"}
Finding  == [class : Class, severity : Severity]

Outcome    == {"allow", "allow_with_warning", "needs_review", "block"}
HoldReason == {"scan", "ownership"}

(* A version nobody has measured has no quality state at all. *)
Unmeasured == [measured |-> FALSE]
Quality == {Unmeasured} \cup
  [measured : {TRUE}, verified : BOOLEAN, complete : BOOLEAN,
   headline : Scores, violations : BOOLEAN]

(* The zero OwnerState, which skips the ownership dimension. *)
OwnerState    == [evaluated : BOOLEAN, isOwner : BOOLEAN, unowned : BOOLEAN]
NotEvaluated  == [evaluated |-> FALSE, isOwner |-> FALSE, unowned |-> FALSE]
Policy        == [floor : Scores, override : BOOLEAN]

OwnerHolds(o) == o.evaluated /\ ~o.isOwner /\ ~o.unowned

QualityClears(q, floor) ==
  /\ q.measured
  /\ q.verified
  /\ q.complete
  /\ q.headline >= floor
  /\ ~q.violations

Blocking(f) == f.severity \in {"critical", "high"}

Contested(scan) == \E f \in scan : Blocking(f) /\ f.class \in Appealable

(* mutant: the appealable case is tried first. *)
RefusedUnlessContested(scan) ==
  /\ ~Contested(scan)
  /\ \E f \in scan : Blocking(f) /\ f.class \notin Appealable

(* A blocking finding of a class nobody mapped fails closed. *)
Refused(scan) == \E f \in scan : Blocking(f) /\ f.class \notin Appealable

(* A block has no hold to clear: the version is never created. *)
Holds(scan, q, o, p) ==
  IF Refused(scan) THEN {}
  ELSE {r \in HoldReason :
          \/ /\ r = "scan"
             /\ Contested(scan)
             /\ ~QualityClears(q, p.floor) /\ ~p.override
          \/ r = "ownership" /\ OwnerHolds(o)}

(* mutant: a cleared appeal is still reported as a warning. *)
DecideWarnsFirst(scan, q, o, p) ==
  IF Refused(scan) THEN "block"
  ELSE IF Holds(scan, q, o, p) # {} THEN "needs_review"
  ELSE IF scan # {} THEN "allow_with_warning"
  ELSE "allow"

Decide(scan, q, o, p) ==
  IF Refused(scan) THEN "block"
  ELSE IF Holds(scan, q, o, p) # {} THEN "needs_review"
  ELSE IF ~Contested(scan) /\ scan # {} THEN "allow_with_warning"
  ELSE "allow"

(* Every route that creates a version decides before it can be measured;   *)
(* Reconsider decides again from the stored report and a new measurement,  *)
(* for no publisher and without an override.                               *)
DecidePublish(scan, o, p) == Decide(scan, Unmeasured, o, p)
Reclears(scan, q, floor) ==
  Decide(scan, q, NotEvaluated, [floor |-> floor, override |-> FALSE]) = "allow"
=============================================================================
