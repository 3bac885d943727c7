\* Two adds of the same tokens on different curves and one of a router without a
\* factory, announced again and again while pairs of two factories appear, the
\* clock goes on and is set back, the wallet sends on its own, and the process
\* crashes and is started again.
SPECIFICATION HSpec
CONSTANTS
  h1 = h1  h2 = h2  h3 = h3
  r1 = r1  r2 = r2  r3 = r3
  f1 = f1  f2 = f2
  weth = weth  token = token
  Native = native
  None = none
  Hashes = {h1, h2, h3}
  Tx <- BuysTx
  Sources = {"pending"}
  ChannelSize = 1
  DedupCapacity = 2
  DedupTtl = 0
  Routers = {r1, r2}
  RouterFactory <- Mapped
  Factories = {f1, f2}
  BaseTokens = {weth, native}
  MinBase = 1
  AllowWithoutPair = FALSE
  OwnerSet = TRUE
  Owner = owner
  ZeroAddress = zero
  MsPerSec = 1000
  WeiPerGwei = 1000
  DeadlineSecs = 1
  GasMode = "legacy"
  MaxFeeGwei = 2
  MaxPriorityGwei = 1
  FirstAccountNonces = {0, 1}
  ClockSteps <- ForwardAndBack
  MaxNow = 1
  MaxAttempts = 2
  MaxWalletTxs = 1
  MaxLives = 2
INVARIANTS
  TypeOK
  NoNonceGap
  NothingParked
  RequestMatchesAdd
  NoDoubleBuy
  NoSecondBuyAfterRestart
  GuardedBuy
  PinnedFactory
\* The bounds let the world run out.
CHECK_DEADLOCK FALSE
