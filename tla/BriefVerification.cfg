SPECIFICATION FairSpec
CONSTANTS
  Claims = {c1, c2}
  CleanStatuses = {"verified"}
  ProblemStatuses = {"contradicted", "verifier_error"}
  SubmitBound = 2
INVARIANTS
  TypeOK
  StaleOnlyIfOvertaken
  SettledMeansApplied
PROPERTIES
  AcceptedAsSeen
  ClaimsGetResults
