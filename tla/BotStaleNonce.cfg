\* The owner deployed the executor from the same wallet: its account is at 1.
SPECIFICATION Spec
CONSTANTS
  h1 = h1  h2 = h2  h3 = h3
  r1 = r1  r2 = r2  r3 = r3
  f1 = f1  f2 = f2
  weth = weth  token = token
  Native = native
  None = none
  Hashes = {h1, h2}
  Tx <- BuysTx
  Sources = {"pending", "txpool"}
  ChannelSize = 1
  DedupCapacity = 3
  DedupTtl = 1
  Routers = {r1, r2}
  RouterFactory <- Mapped
  Factories = {f1, f2}
  BaseTokens = {weth}
  MinBase = 1
  AllowWithoutPair = FALSE
  OwnerSet = TRUE
  Owner = owner
  ZeroAddress = zero
  MsPerSec = 1000
  WeiPerGwei = 1000
  DeadlineSecs = 1
  GasMode = "legacy"
  MaxFeeGwei = 2
  MaxPriorityGwei = 1
  FirstAccountNonces = {1}
  ClockSteps <- Forward
  MaxNow = 3
  MaxAttempts = 2
  MaxWalletTxs = 0
  MaxLives = 1
INVARIANT NonceCurrent
\* The bounds let the world run out.
CHECK_DEADLOCK FALSE
