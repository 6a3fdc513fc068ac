SPECIFICATION RingSpec
CONSTANTS
  Packets = {p1, p2}
  Nothing = none
  Capacity = 3
  CountWrap = 6
INVARIANTS RingTypeOK CountFits
PROPERTY IsLossyQueue
