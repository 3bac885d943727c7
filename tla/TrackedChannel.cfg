\* Three places and a sender and a receiver in every step of their calls; the
\* channel fills, drops, drains and is closed from either end.
SPECIFICATION Spec
CONSTANTS
  Capacity = 3
  MaxDropped = 2
INVARIANTS
  TypeOK
  DriftAtMostOne
\* Both ends of the channel may be gone.
CHECK_DEADLOCK FALSE
