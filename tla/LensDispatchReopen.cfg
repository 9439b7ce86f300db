SPECIFICATION Spec
CONSTANTS
  Seats = {s1, s2}
  FindingsPerRun = 1
  HardTimeout = 2
  NoProgressTimeout = 1
  ClockBound = 2
  DispatchBound = 1
INVARIANTS
  ReopensAtRoundBoundary
