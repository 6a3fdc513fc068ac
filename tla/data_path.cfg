SPECIFICATION DSpec
CONSTANTS
  Wrap = 3
  ParserTimeout = 1
  HbFresh = 1
  HbStale = 2
  Priorities = {0, 1}
  Wires = {"w", "v"}
  RxMaxStep = 1
  PortConfigs <- OneReceiver
  Selections <- Immediate
  Qualities <- Perfect
  ChannelCount = 1
  Received <- Sticks
  Interval <- EachUnit
  OutputConfigs <- SbusOut
  FailsafeSets <- Low
  MaxStep = 1
  Horizon = 3
  SilenceLimit = 5
INVARIANTS DTypeOK LinkLossIsPublished SilenceReachesFc LinkReachesFc
