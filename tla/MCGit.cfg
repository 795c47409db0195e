SPECIFICATION GitSpec
CONSTANTS
  Subs = {s1}  Pulls = {p1, p2}  Reviewers = {v1, v2}  Runs = {tick, asked}  Forced = {asked}
  Contents = {c1, c2, c3}  Held = {c2}  Blocked = {c3}  First = c1
  MaxCommit = 2  MaxVersion = 3  MaxCrash = 1
  A = A  B = B  C = C  dir1 = dir1  dir2 = dir2  Ids = {i1, i2}  Outside = {}
  MaxTree = 2  MaxPeople = 1
  r = r  MaxHead = 2  MaxContest = 2  Syncs = {y1, y2}
  Regimes <- OneOfEach  NameOrder <- ThreeNames  PathOrder <- TwoPaths
  PullOrder <- OnePull  Setups <- EightSetups
  Endpoints = {e1}  Deliveries = {d1}  Jobs = {j1}  MaxAttempts = 1  MaxSecret = 1
  Apps = {a1, a2}  Flows = {f1, f2}  Events = {}  MaxPush = 1  MaxFaults = 1  MaxAudit = 3
INVARIANTS
  ApprovalHasItsVersion
  SyncMatchesTree
  ChecksCoverTheHead
  TrailTellsTheApp
PROPERTIES
  DecidedOnce
CHECK_DEADLOCK FALSE
