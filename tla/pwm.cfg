SPECIFICATION Spec
CONSTANTS
  Wrap = 2
  ChannelCount = 1
  MaxStep = 1
  Horizon = 3
  Pins = {"a", "b"}
  Outputs <- TwoOutputs
  Interval <- OneRate
  PwmConfigs <- HandedOn
  PwmModes <- AllModes
  Received <- Low
INVARIANTS TypeOK PinsFollow PwmConverges
