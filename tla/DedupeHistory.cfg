\* Four hashes through a cache of two entries: evictions happen all the time,
\* and MaxMs = 4 with a window of 2 makes the saturating addition saturate.
SPECIFICATION HSpec
CONSTANTS
  Keys = {h1, h2, h3, h4}
  Capacity = 2
  TtlMs = 2
  MaxMs = 4
INVARIANTS
  TypeOK
  WithinCapacity
  EvictedOnlyBySlotsOthers
  ListIsRecency
PROPERTIES
  ImplementsWindow
