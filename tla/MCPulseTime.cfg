SPECIFICATION Spec
CONSTANTS
  NPwm = 2
  NEnc = 0
  NDig = 1
  Den = 2
  Rev = 2
  TickMod = 4
  DefaultPpr = 2
  Freqs <- TimeFreqs
  Counts = {0, 2}
  Mappings = {}
  Levels = {}
  Positions = {}
  Speeds = {}
  MaxHost = 5
INVARIANTS
  TypeOK
  NoStaleCredit
  NeverEarly
  NeverLate
