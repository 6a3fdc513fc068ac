SPECIFICATION Spec
CONSTANTS
  Wrap = 5
  Interval = 3
  MaxStep = 1
  Capacity = 2
  CountWrap = 2
  Horizon = 6
  Saved <- SomeSettings
INVARIANTS TypeOK EachIsCountedOnce InjectionsAreSpaced InjectionIsPeriodic
