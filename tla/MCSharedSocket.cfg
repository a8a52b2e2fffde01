SPECIFICATION FairSpec
CONSTANTS
  w1 = w1  w2 = w2
  MaxPackets = 2
  Traffic <- MCTraffic
  Writers = {w1, w2}
  None = None
INVARIANTS TypeOK PacketsInOrder NothingLeftOpen
PROPERTY GoroutinesEnd
CHECK_DEADLOCK FALSE
