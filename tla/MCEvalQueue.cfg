SPECIFICATION FairSpec
CONSTANTS
  p1 = p1
  p2 = p2
  w1 = w1
  w2 = w2
  Jobs = {j1}
  WorkerIds = {w1, w2}
  Suites = {s1}
  NoWorker = NoWorker
  NoSuite = NoSuite
  MaxAttempts = 2
  Procs = {p1, p2}
  WorkerOf <- OwnIds
  Handlers = {h1, h2}
  NoJob = NoJob
INVARIANTS
  OneScorePerDoneJob
PROPERTIES
  ScoreNeedsTheClaim
  ImplementsBoard
  JobsFinish
CHECK_DEADLOCK FALSE
