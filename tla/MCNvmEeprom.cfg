SPECIFICATION Spec
CONSTANTS
  b = b
  Bit = {b}
  StorageSize = 4
  EraseUnit = 1
  ProgramUnit = 1
  PageSize = 2
  EraseRequired = FALSE
  WordMod = 8
  MaxTransfer = 3
  ReadFaults = FALSE
  InDoubt = InDoubt
  Torn = Torn
PROPERTIES
  OnlyRequestedBytesChange
  FullImageKept
  ChunkWithinPage
