SPECIFICATION AgeSpec
CONSTANTS
  Wrap = 13
  ParserTimeout = 2
  HbFresh = 4
  HbStale = 8
  Priorities = {0}
  Wires = {"w", "x"}
  LinkTimeout = 2
  AgeMaxStep = 3
  Qualities <- Reported
  Configs <- AnyConfig
INVARIANTS AgeTypeOK AliveIsRecent FrameNeedsLink
