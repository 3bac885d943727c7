-------------------------------- MODULE MCBot --------------------------------
(***************************************************************************)
(* Instances of Bot: what the transactions are and how it is configured.   *)
(***************************************************************************)
EXTENDS Bot, TLC

CONSTANTS
  h1, h2, h3,         \* hashes
  r1, r2, r3,         \* routers; r3 is not configured
  f1, f2,             \* factories
  weth, token         \* tokens

\* addLiquidity between two tokens; which of the two amounts is which matters.
V2(router, a, b) ==
  [to |-> router, selector |-> "addLiquidity", wellFormed |-> TRUE,
   args |-> [tokenA |-> a, tokenB |-> b, amountADesired |-> 1,
             amountBDesired |-> 2]]

Solidly(router, a, b, stable) ==
  [to |-> router, selector |-> "addLiquiditySolidly", wellFormed |-> TRUE,
   args |-> [tokenA |-> a, tokenB |-> b, amountADesired |-> 1,
             amountBDesired |-> 2, stable |-> stable]]

Eth(router) ==
  [to |-> router, selector |-> "addLiquidityETH", wellFormed |-> TRUE,
   args |-> [token |-> token, amountETHMin |-> 2]]

\* Two adds of the same tokens on different curves of the mapped router, and one
\* of the other router.
BuysTx ==
  (h1 :> Solidly(r1, weth, token, TRUE))
    @@ (h2 :> V2(r1, token, weth))
    @@ (h3 :> Solidly(r2, weth, token, TRUE))

\* A good add, one of the native coin, which cannot be bought, and one that is
\* too small.
LifeTx ==
  (h1 :> V2(r1, weth, token))
    @@ (h2 :> Eth(r1))
    @@ (h3 :> [V2(r1, weth, token) EXCEPT !.args.amountADesired = 0])

\* Time passes, and the clock may be set back as well.
Forward == {1}
ForwardAndBack == {1, -1}

Mapped == r1 :> f1
Unmapped == [r \in {} |-> f1]
=============================================================================
