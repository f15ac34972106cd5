SPECIFICATION Spec
CONSTANTS
  None = None
  InBufs = {i1, i2}
  OutBufs = {o1, o2}
  Thumbnail = TRUE
  MinBuffers = 1
  MaxDelay = 1
  Transitions <- PlaybackTransitions
  Restarts = FALSE
  ClientCommands <- FlushAll
  MaxInputs = 3
  MaxCmds = 4
  Reconfigures = FALSE
  MayFail = TRUE
SYMMETRY Symmetry
PROPERTY KeepsContract
CHECK_DEADLOCK FALSE
