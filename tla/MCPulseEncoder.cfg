SPECIFICATION Spec
VIEW Present
CONSTANTS
  NPwm = 2
  NEnc = 1
  NDig = 1
  Den = 2
  Rev = 4
  TickMod = 4
  DefaultPpr = 4
  Freqs <- EncoderFreqs
  Counts = {2}
  Mappings <- EncoderMappings
  Levels = {TRUE}
  Positions <- EncoderPositions
  Speeds = {1}
  MaxHost = 4
INVARIANTS
  AngleOfPosition
PROPERTY
  OnCourse
