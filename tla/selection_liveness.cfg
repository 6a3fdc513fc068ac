SPECIFICATION FairSpec
CONSTANTS
  Wrap = 4
  ParserTimeout = 2
  HbFresh = 2
  HbStale = 4
  Priorities = {0, 1}
  Wires = {"w"}
  MaxStep = 1
  PortConfigs <- EqualSbus
  Selections <- SlowSelection
  Qualities <- Graded
PROPERTIES BetterPortWins SelectionSettles
