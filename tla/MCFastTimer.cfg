SPECIFICATION FairSpec
CONSTANTS
  Part = 2
  Periods <- AllPeriods
  TickMod = 6
  MaxBusy = 3
  MaxLag = 5
INVARIANTS
  TypeOK
  NoPeriodLost
PROPERTIES
  FiresWhenDue
  CyclicEnds
