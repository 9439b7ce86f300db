SPECIFICATION Spec
CONSTANTS
  Sources = {paper}
  Texts = {text}
  SourcedTypes = {"empirical"}
  DesignTypes = {"gap"}
  Verdicts = {"verified", "contradicted"}
  NoId = no_id
  Ttl = 1
  BodyBound = 2
  CallBound = 3
INVARIANTS
  TypeOK
  SameQuestionSameResult
PROPERTIES
  SourceAgesOnlyWhenOutrun
