SPECIFICATION FairSpec
CONSTANTS
  n1 = n1
  n2 = n2
  c1 = c1
  c2 = c2
  Bit = {1, 2}
  Node <- MCNode
  Callback <- MCCallback
  NoCallback = NoCallback
  Entry <- MCEntry
  Free = Free
  NoFrame = NoFrame
  RegMax = 3
  BurstMax = 2
  ReplyMax = 2
INVARIANTS
  TypeOK
  NoDuplicateRegistration
  UsedSlotsFirst
  DumpComplete
PROPERTIES
  ImplementsSubscriptions
  InjectionEnds
