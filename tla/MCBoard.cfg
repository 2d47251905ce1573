SPECIFICATION BoardSpec
CONSTANTS
  AnaNb = 1
  InDigNb = 1
  OutDigNb = 2
  InFreqNb = 0
  PwmNb = 1
  EvntNb = 1
  DutyMod = 2
  Trigger = {"rising", "falling"}
  Edge = {"rising", "falling", "none"}
  Callback = {cb1, cb2}
  Null = Null
  Number = {0, 1}
  Id = {0, 1}
  Datagram <- SomeDatagrams
  Line = {1}
  MaxMsgs = 3
  MaxDepth = 2
VIEW View
INVARIANTS
  TypeOK
  ToldInOrder
PROPERTY
  ImplementsBoard
