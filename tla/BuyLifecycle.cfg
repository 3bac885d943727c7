\* A buy and two adds that cannot be bought, over and over on both streams; an
\* account that may have been used, a base fee that rises and falls.
SPECIFICATION LifeFairSpec
CONSTANTS
  h1 = h1  h2 = h2  h3 = h3
  r1 = r1  r2 = r2  r3 = r3
  f1 = f1  f2 = f2
  weth = weth  token = token
  Native = native
  None = none
  Hashes = {h1, h2, h3}
  Tx <- LifeTx
  Sources = {"pending", "txpool"}
  ChannelSize = 1
  DedupCapacity = 1
  DedupTtl = 0
  Routers = {r1, r2}
  RouterFactory <- Unmapped
  Factories = {}
  BaseTokens = {weth, native}
  MinBase = 1
  AllowWithoutPair = TRUE
  OwnerSet = TRUE
  FirstAccountNonces = {0, 1}
  ClockSteps <- Forward
  MaxNow = 3
  MaxAttempts = 2
  MaxWalletTxs = 0
  MaxLives = 1
  Owner = owner
  ZeroAddress = zero
  MsPerSec = 2
  WeiPerGwei = 2
  DeadlineSecs = 0
  GasMode = "eip1559"
  MaxFeeGwei = 2
  MaxPriorityGwei = 1
  BaseFees = {4, 5}
INVARIANTS
  NoLateBuy
  WaitingInLine
PROPERTIES
  BuysSettle
  StreamsDrain
\* The bounds let the world run out.
CHECK_DEADLOCK FALSE
