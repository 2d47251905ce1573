SPECIFICATION FairSpec
CONSTANTS
  LogMax = 2
  BurstMax = 2
  ReplyMin = 1
  MaxCmds = 2
  Datagram <- SomeDatagrams
  InboxMax = 1
  MaxFrames = 3
CHECK_DEADLOCK FALSE
INVARIANTS
  TypeOK
  EachFrameOnce
  OwnBranch
PROPERTIES
  ApplicationRuns
  CommandsServed
  SignalEnds
