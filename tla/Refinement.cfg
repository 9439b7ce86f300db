SPECIFICATION Spec
CONSTANTS
  Texts = {"a", "b"}
  Offered <- MCOffered
  Edits <- MCEdits
  VersionBound = 3
  Lenses = {l1}
  RunBound = 3
CONSTRAINTS AtRest FewAtOnce
INVARIANTS
  TypeOK
  ScreensAreHonest
  ReuseIsSound
