SPECIFICATION Spec
CONSTANTS
  Requests = {r1, r2}
  Archives = {a1, a2}
  Files = {f1, f2, f3, f4}
  Blocks = 2
  MaxVersion = 3
  MaxSkill = 2
  Regimes <- ThreeRegimes
  NoArchive = NoArchive
  NoFile = NoFile
SYMMETRY Symmetry
CHECK_DEADLOCK FALSE
INVARIANTS
  PartialIsBeingWritten
  VersionsKeepTheirArchive
