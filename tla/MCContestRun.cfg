SPECIFICATION FairSpec
CONSTANTS
  Jobs = {j1}
  WorkerIds = {w}
  Suites = {s1}
  NoWorker = NoWorker
  NoSuite = NoSuite
  NoJob = NoJob
  MaxAttempts = 2
  Procs = {p1}
  WorkerOf <- SameId
  Handlers = {h1, h2}
  Candidates = {c1, c2}
INVARIANTS
  FailedJobClosesContest
PROPERTY
  ContestsEnd
CHECK_DEADLOCK FALSE
