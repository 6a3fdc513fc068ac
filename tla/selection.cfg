SPECIFICATION HSpec
CONSTANTS
  Wrap = 4
  ParserTimeout = 2
  HbFresh = 2
  HbStale = 4
  Priorities = {0, 1}
  Wires = {"w"}
  MaxStep = 1
  PortConfigs <- Reconfigured
  Selections <- TwoSelections
  Qualities <- Perfect
  Horizon = 5
INVARIANTS TypeOK SelectionInv SwitchIsPrompt
PROPERTY SwitchIsEarned
