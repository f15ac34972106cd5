SPECIFICATION Spec
CONSTANTS
  None = None
  InBufs = {i1, i2}
  OutBufs = {o1, o2}
  Thumbnail = FALSE
  MinBuffers = 1
  MaxDelay = 1
  Transitions <- PlaybackTransitions
  Restarts = FALSE
  ClientCommands <- FlushAll
  MaxInputs = 3
  MaxCmds = 6
  Reconfigures = FALSE
  MayFail = TRUE
SYMMETRY Symmetry
INVARIANTS TypeOK OutputsCounted HeldExactlyOnce SessionEndsClean EndInOrder BuffersEndWaits
CHECK_DEADLOCK FALSE
