\* Two factories, two requests for two tokens, a cache of two entries that
\* expire, two pairs at most, one wrong code hash; any call to the node may fail,
\* and the clock shows 0, 1 or 2 whenever it is read.
SPECIFICATION Spec
CONSTANTS
  f1 = f1  f2 = f2
  t1 = t1  t2 = t2
  None = none
  Factories = {f1, f2}
  Requests <- MCRequests
  FactoryLists <- MCLists
  Configured <- MCConfigured
  CacheCapacity = 2
  PositiveTtl = 1
  NegativeTtl = 1
  CodeHashPositiveTtl = 1
  CodeHashNegativeTtl = 0
  MaxNow = 2
  MaxPairs = 2
INVARIANTS
  TypeOK
  AnswerIsTrue
  NoFactoryOverlooked
PROPERTIES
  ImplementsResolver
