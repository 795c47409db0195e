SPECIFICATION MCSpec
CONSTANTS
  Requests = {r1, r2}
  People = {p1, p2}  Bots = {b1}  Keys = {k1}  SetIds = {s1}  NoSet = NoSet  Session = Session
  Asks <- RegistryAsks
  Refs = {x1, x2}  Skills = {s1}  Jobs = {j1}  MaxClaims = 2  NoRef = NoRef
  Titles = {"x", "y"}  Consumers = {"c1"}  Batches = {"b1"}  Batch <- OneBatch
  Reports = {"o1", "o2"}  Report <- TwoOutcomes
  MinComparableRuns = 2  MaxHooks = 1  MaxDay = 2  MaxChanges = 1
SYMMETRY Interchangeable
INVARIANTS
  AccountsHold
  SuitesAreVouched
  LedgerAddsUp
PROPERTIES
  OwnersStay
  MachineStays
CHECK_DEADLOCK FALSE
