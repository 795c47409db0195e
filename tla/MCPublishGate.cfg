SPECIFICATION Spec
CONSTANTS
  admin = admin  bob = bob
  clean = clean  shady = shady  stolen = stolen
  Requests = {r1, r2}
  Users = {admin, bob}
  Admins = {admin}
  Contents = {clean, shady}
  ScanOf <- CleanOrShady
  Evidence <- Reports
  RuleLists = {}
  Scores <- TwoScores
  Floor = 1
  MaxVersion = 2
  NoUser = NoUser
  NoContent = NoContent
SYMMETRY Symmetry
INVARIANTS
  LatestIsNewestRelease
  ServedIsVetted
PROPERTIES
  ImplementsBook
