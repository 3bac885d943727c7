\* The counter drifts once a decrement is lost.
SPECIFICATION Spec
CONSTANTS
  Capacity = 3
  MaxDropped = 2
INVARIANT SettledLenIsDepth
CHECK_DEADLOCK FALSE
