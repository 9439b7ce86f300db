SPECIFICATION FairSpec
CONSTANTS
  Seats = {s1, s2}
  FindingsPerRun = 2
  HardTimeout = 2
  NoProgressTimeout = 1
  ClockBound = 2
  DispatchBound = 2
INVARIANTS
  TypeOK
  OneRunPerSeat
  EventIsComplete
  RunsHaveTheirFindings
  OrphanFindingMeansCrash
  ArrivalsAreSaveOrder
PROPERTIES
  AnswerInTimeIsKept
  DispatchSettles
  KeepsPromise
