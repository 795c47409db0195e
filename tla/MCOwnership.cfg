SPECIFICATION Spec
CONSTANTS
  Atoms <- AB
  Names <- SomeNames
  Patterns <- NestedPatterns
  Users = {root, ann}
  Admins = {root}
  Accounts = {sa}
  Requests = {r1, r2}
  MaxRules <- SecondRuleForA
  MemberLists <- OnlyAnn
  NoUser = NoUser
SYMMETRY Symmetry
INVARIANTS
  ResolveFindsTheGoverningRule
  RulesStayGranted
PROPERTY
  DeletesWhatItSaw
CHECK_DEADLOCK FALSE
