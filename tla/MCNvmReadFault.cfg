SPECIFICATION Spec
CONSTANTS
  b = b
  Bit = {b}
  StorageSize = 2
  EraseUnit = 1
  ProgramUnit = 1
  PageSize = 1
  EraseRequired = FALSE
  WordMod = 8
  MaxTransfer = 3
  ReadFaults = TRUE
  InDoubt = InDoubt
  Torn = Torn
PROPERTIES
  FullImageKept
