SPECIFICATION LiveSpec
CONSTANTS
  None = None
  InBufs = {i1}
  OutBufs = {o1, o2}
  Thumbnail = FALSE
  MinBuffers = 1
  MaxDelay = 1
  Transitions <- ResumeTransitions
  Restarts = TRUE
  ClientCommands <- PortCommands
  MaxInputs = 2
  MaxCmds = 6
  Reconfigures = TRUE
  MayFail = TRUE
INVARIANTS PortsInStep NoLostWakeup
PROPERTIES KeepsContract TokensConsumed CommandsAnswered
CHECK_DEADLOCK FALSE
