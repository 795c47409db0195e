SPECIFICATION Spec
CONSTANTS
  Evals = {1, 2}  Skilled = {s1}  Baselines = {b1}  Probes = {q1}
  x1 = x1  x2 = x2  Suites = {x1, x2}
  Concurrency = 2  MaxRateLimitRetries = 2  MaxSpent = 3  MaxProcesses = 1
  Managed = {m1}  Listed = {l1}  Hand = {h1}
  Dirs = {claude, codex}  Shared = codex
  Slots = {1, 2}  MaxVersion = 2  MaxRuns = 3
  Lines = {u1}  MaxLines = 3
  Procs = {p1, p2}  Drivers = {"docker", "kubernetes", "northflank"}  Namespaces = {host, box}
  Pids = {1, 2}  Policies = {"allowlist"}  MaxSandboxes = 2  MaxFaults = 1
  Commands = {c1}  Edits = {e1}  Descriptions = {d1, d2}  Drafts = {m1}
  Hands = {h1}  MaxSpecs = 2
  Positive = {y1, y2}  Negative = {n1, n2}  Own = {y1, n1}  Want = 4
  Proposed = {a1, a2, a3}  Runs = 1  Iterations = 3  HoldoutPercent = 40
  Headings = {notes, rules}  Planned = {notes}  Weights = {1, 3}
  StepWeights = {2, 5}  StubWeight = 2  Budget = 6  MaxReferences = 2
  MaxRevisions = 2  MaxSections = 2  MaxGens = 1
  None = None
SYMMETRY Interchangeable
INVARIANTS
  MeasuredHasEvidence
  HandMadeStays
  SandboxesHold
  BundleIsApproved
  WinnerHoldsOut
  NothingIsDropped
PROPERTIES
  WorkIsKept
CHECK_DEADLOCK FALSE
