SPECIFICATION Spec
CONSTANTS
  Binders = {b1, b2}
  Presets = {720, 1080}
  Screen = 600
  Boot = 1080
  Original <- MirrorScenario
  Wanted <- BothScenarios
  MaxChanges = 3
SYMMETRY Symmetry
INVARIANTS StateInStep ImplFollows HdmiShown QueueFollows
CHECK_DEADLOCK FALSE
