SPECIFICATION Spec
CONSTANTS
  Claims = {c1, c2}
  CleanStatuses = {"verified"}
  ProblemStatuses = {"contradicted"}
  SubmitBound = 2
INVARIANTS
  NoResultOfPriorTask
