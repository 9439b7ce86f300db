SPECIFICATION Spec
CONSTANTS
  FindingCount = 4
  Kinds <- MCKinds
  Judgements = {"same", "uncertain", "unlike"}
  FlagBound = 1
CONSTRAINTS FlaggedClaims
INVARIANTS
  TypeOK
  ClustersAreComponents
  NothingIsLost
  ProseNeedsTheEcho
  AlarmsLead
CHECK_DEADLOCK FALSE
