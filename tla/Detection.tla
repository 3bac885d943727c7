------------------------------ MODULE Detection ------------------------------
(***************************************************************************)
(* Reading a mempool transaction as a liquidity add: decode_router_calldata*)
(* (crates/dex/src/decoder.rs) and Bot::detect_liquidity_add               *)
(* (crates/bot/src/orchestrator.rs).                                       *)
(*                                                                         *)
(* A transaction is a record [to, selector, wellFormed, args]: args has    *)
(* the arguments of the router method that selector names, by the names of *)
(* its ABI, as far as the bot looks at them; wellFormed says whether the   *)
(* calldata decodes as such. Any other selector, or none, is "unknown".    *)
(***************************************************************************)
EXTENDS Naturals

CONSTANTS
  Routers,        \* dex.routers
  RouterFactory,  \* dex.router_factories: a function from some routers
  Factories,      \* dex.factories
  BaseTokens,     \* dex.base_tokens
  MinBase,        \* dex.min_base_amount
  Native,         \* Address::ZERO as a base token: the native coin
  None            \* Option::None

\* RouterCall: what a call asks the router to add.
NoCall == [call |-> "none"]
BadCall == [call |-> "error"]
V2AddLiquidity(args) ==
  [call |-> "AddLiquidity", tokenA |-> args.tokenA, tokenB |-> args.tokenB,
   amountADesired |-> args.amountADesired,
   amountBDesired |-> args.amountBDesired]
V2AddLiquidityEth(args) ==
  [call |-> "AddLiquidityEth", token |-> args.token,
   amountEthMin |-> args.amountETHMin]
SolidlyAddLiquiditySwapped(args) ==
  [call |-> "AddLiquiditySolidly", tokenA |-> args.tokenA,
   tokenB |-> args.tokenB, stable |-> args.stable,
   amountADesired |-> args.amountBDesired,
   amountBDesired |-> args.amountADesired]
SolidlyAddLiquidity(args) ==
  [call |-> "AddLiquiditySolidly", tokenA |-> args.tokenA,
   tokenB |-> args.tokenB, stable |-> args.stable,
   amountADesired |-> args.amountADesired,
   amountBDesired |-> args.amountBDesired]

Decoded(tx) ==
  CASE tx.selector = "addLiquidity" -> V2AddLiquidity(tx.args)
    [] tx.selector = "addLiquidityETH" -> V2AddLiquidityEth(tx.args)
    [] OTHER -> SolidlyAddLiquidity(tx.args)
decode_router_calldata(tx) ==
  IF tx.selector = "unknown" THEN NoCall
  ELSE IF ~tx.wellFormed THEN BadCall ELSE Decoded(tx)

\* Not a liquidity add the bot acts on (Ok(None)), and calldata of an add that
\* does not decode (Err).
NotAnAdd == [verdict |-> "none"]
Undecodable == [verdict |-> "error"]

\* LiquidityCandidate.stable: "v2" for None.
Curve(call) ==
  IF call.call # "AddLiquiditySolidly" THEN "v2"
  ELSE IF call.stable THEN "stable" ELSE "volatile"

\* A LiquidityCandidate; its hash and the time it was seen stay in the caller.
Candidate(tx, call, base, token, amount) ==
  [verdict |-> "candidate", router |-> tx.to, base |-> base, token |-> token,
   amount |-> amount, curve |-> Curve(call), pair |-> None,
   factory |-> IF tx.to \in DOMAIN RouterFactory THEN RouterFactory[tx.to]
               ELSE None]

\* min_base_amount is a minimum: base_amount < min rejects.
Offered(tx, call, base, token, amount) ==
  IF amount < MinBase THEN NotAnAdd ELSE Candidate(tx, call, base, token, amount)

\* tokenA is the base when it is listed, whatever tokenB is; tokenB only when
\* tokenA is not. For addLiquidityETH the base is the native coin, if listed.
Chosen(tx, call) ==
  IF call.call = "AddLiquidityEth" THEN
    IF Native \in BaseTokens
      THEN Offered(tx, call, Native, call.token, call.amountEthMin)
      ELSE NotAnAdd
  ELSE IF call.tokenA \in BaseTokens
    THEN Offered(tx, call, call.tokenA, call.tokenB, call.amountADesired)
  ELSE IF call.tokenB \in BaseTokens
    THEN Offered(tx, call, call.tokenB, call.tokenA, call.amountBDesired)
  ELSE NotAnAdd

Detect(tx) ==
  LET call == decode_router_calldata(tx) IN
  IF tx.to \notin Routers \/ call.call = "none" THEN NotAnAdd
  ELSE IF call.call = "error" THEN Undecodable
  ELSE Chosen(tx, call)
=============================================================================
