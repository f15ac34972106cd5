SPECIFICATION Spec
CONSTANTS
  Inputs = {i1, i2}
  Routable <- MCRoutable
  Sources = {"CAMCORDER"}
  InDevices = {"BUILTIN_MIC"}
  None = None
  RefMax = 7
  MaxDisabled = 1
  MaxFaults = 1
SYMMETRY Symmetry
INVARIANTS
  HdmiAlone
  TransfersOnOpenPcm
  OutDeviceIsActiveOnes
  MixerFollows
  CardsInStep
