SPECIFICATION Spec
CONSTANTS
  b = b
  Bit = {b}
  StorageSize = 4
  EraseUnit = 2
  ProgramUnit = 2
  PageSize = 2
  EraseRequired = TRUE
  WordMod = 8
  MaxTransfer = 3
  ReadFaults = FALSE
  InDoubt = InDoubt
  Torn = Torn
INVARIANTS
  TypeOK
  AckedBytesOnFile
  MirrorHoldsAcked
PROPERTIES
  ProgramOnlyClearsBits
