\* Two transactions, a channel of one hash each. Delays of 2, 4 and then 7 ms,
\* and 4 values of streak: the doubling and the limit both happen.
SPECIFICATION FairSpec
CONSTANTS
  h1 = h1  h2 = h2
  PoolOrder <- MCOrder
  PendingSize = 1
  TxpoolSize = 1
  BaseDelay = 2
  MaxDelay = 7
  DelayLimit = 16
  MaxStreak = 3
  MaxUnread = 1
INVARIANTS
  TypeOK
  BackoffIsExponential
  HeadOfPollKept
PROPERTIES
  Resubscribes
  HeadIsBackfilled
