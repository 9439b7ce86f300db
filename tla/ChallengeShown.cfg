SPECIFICATION Spec
CONSTANTS
  Originals = {o1, o2}
  CallBound = 1
INVARIANTS
  ReaderSeesTheWinners
