SPECIFICATION Spec
CONSTANTS
  Originals = {o1, o2}
  CallBound = 3
INVARIANTS
  TypeOK
  LastSynthesisIsCurrent
  ReadIsChallengeable
  OneHeirUnlessOvertaken
PROPERTIES
  LostIsLost
