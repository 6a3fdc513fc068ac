SPECIFICATION Spec
CONSTANTS
  ChannelCount = 2
  Wrap = 5
  MaxStep = 2
  Horizon = 6
  Interval <- Intervals
  Received <- Sticks
  FailsafeSets <- Low
  OutputConfigs <- Several
INVARIANTS TypeOK OutputConverges RateKept OneFinalFrame OutputInv FrameSurvives
PROPERTY FlagIsCleared
