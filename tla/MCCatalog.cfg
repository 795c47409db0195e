SPECIFICATION CatalogSpec
CONSTANTS
  Callers = {r1, r2}
  f1 = f1  f2 = f2  A = A  B = B  C = C  S1 = S1
  Folders <- TwoFolders  Tree <- TwoCommits  Scan <- Texts  Suited = {f1}
  plugin = plugin  MaxId = 2  MaxFaults = 1  MaxPeople = 1  MaxMishaps = 1
  Named = {A, B, C}  SetOrder <- OneSet  EntryLists <- TwoLists  Regimes <- FiveRegimes
  NoName = NoName  MaxPublish = 2  MaxSkill = 3  MaxChange = 1
SYMMETRY Alike
INVARIANTS
  ImportsTellTheTruth
  SetsStayTrue
PROPERTIES
  PinsKeepTheirBundle
CHECK_DEADLOCK FALSE
