SPECIFICATION Spec
CONSTANTS
  SecMs = 2
  DaySec = 2
  TickMod = 6
  Date <- SomeDates
  HostTimes <- BeforeLeapDay
  NoCall = NoCall
  MaxHost = 13
INVARIANT
  NoBackwards
