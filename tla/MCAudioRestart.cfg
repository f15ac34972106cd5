SPECIFICATION Spec
CONSTANTS
  Inputs = {}
  Routable <- MCRoutable
  Sources = {"MIC"}
  InDevices = {"BUILTIN_MIC"}
  None = None
  RefMax = 7
  MaxDisabled = 1
  MaxFaults = 0
INVARIANT IdleCardsAreFree
