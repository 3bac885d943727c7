\* The counter is right, but the two sides set the gauge out of order.
SPECIFICATION Spec
CONSTANTS
  Capacity = 3
  MaxDropped = 2
INVARIANT SettledGaugeIsLen
CHECK_DEADLOCK FALSE
