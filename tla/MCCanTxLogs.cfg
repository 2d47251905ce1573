SPECIFICATION Spec
CONSTANTS
  f1 = f1
  f2 = f2
  Frame = {f1, f2}
  NoFrame = NoFrame
  LogMax = 3
INVARIANTS
  TypeOK
  LogsAgree
PROPERTY
  ImplementsFifo
