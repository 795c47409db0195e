SPECIFICATION FairSpec
CONSTANTS
  admin = admin  bob = bob
  clean = clean  shady = shady  stolen = stolen
  Requests = {r1, r2}
  Users = {admin, bob}
  Admins = {admin}
  Contents = {clean, shady, stolen}
  ScanOf <- AnyBundle
  Evidence <- Reports
  RuleLists <- BobOwns
  Scores <- TwoScores
  Floor = 1
  MaxVersion = 1
  NoUser = NoUser
  NoContent = NoContent
PROPERTIES
  RequestsFinish
