SPECIFICATION LiveSpec
CONSTANTS
  Buffers = {b1, b2, b3}
  None = None
  Kinds = {"preview", "record"}
  Zooms = {FALSE, TRUE}
  MaxBuffers = 2
  SkipFrames = 1
  StartPolls = 10
  StopPolls = 2
  MaxRequests = 2
  MaxFaults = 1
INVARIANTS BuffersInStep StartAlone ThreadAsTold DeviceInStep AbortNeedsLateStop
PROPERTIES FrameInItsBuffer ReleaseReturns
CHECK_DEADLOCK FALSE
