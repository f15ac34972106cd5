SPECIFICATION Spec
CONSTANTS
  Buffers = {b1, b2, b3}
  None = None
  Kinds = {"preview"}
  Zooms = {FALSE}
  MaxBuffers = 2
  SkipFrames = 1
  StartPolls = 10
  StopPolls = 3
  MaxRequests = 3
  MaxFaults = 1
SYMMETRY Symmetry
INVARIANT ReleasedWhenStopped
CHECK_DEADLOCK FALSE
