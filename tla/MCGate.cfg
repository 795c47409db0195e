SPECIFICATION InputsSpec
CONSTANTS
  Scores <- TwoScores
  Findings <- Kinds
INVARIANTS
  ScanHoldClearsByScore
PROPERTIES
  FindingsOnlyTighten
