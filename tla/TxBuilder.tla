------------------------------ MODULE TxBuilder ------------------------------
(***************************************************************************)
(* From a candidate to the transaction that buys it: the parameters        *)
(* execute_candidate chooses (crates/bot/src/orchestrator.rs), the request *)
(* ExecutorTxBuilder makes of them and the fees FeeStrategy adds to it     *)
(* (crates/executor).                                                      *)
(***************************************************************************)
EXTENDS Naturals

CONSTANTS
  Owner,           \* the address of the owner's key
  MsPerSec,        \* 1000; smaller in runs, whose clock is bounded
  WeiPerGwei,      \* 10^9; smaller in runs
  DeadlineSecs,    \* dex.deadline_secs
  GasMode,         \* executor.gas_mode
  MaxFeeGwei, MaxPriorityGwei

\* A node refuses a priority fee above the maximum; no code compares them.
ASSUME TxBuilderAssumption ==
  /\ MsPerSec \in Nat \ {0} /\ WeiPerGwei \in Nat \ {0}
  /\ DeadlineSecs \in Nat
  /\ GasMode \in {"eip1559", "legacy"}
  /\ MaxFeeGwei \in Nat /\ MaxPriorityGwei \in 0 .. MaxFeeGwei

gwei_to_wei_raw(gwei) == gwei
gwei_to_wei(gwei) == gwei * WeiPerGwei

\* The request, with what it may cost per unit of gas and what of that is for
\* the miner.
apply(method, params, n) ==
  [from |-> Owner, method |-> method, params |-> params, nonce |-> n,
   feeCap |-> gwei_to_wei(MaxFeeGwei),
   tip |-> IF GasMode = "eip1559" THEN gwei_to_wei(MaxPriorityGwei)
           ELSE gwei_to_wei(MaxFeeGwei)]

build_buy_v2(params, n) == apply("buyV2", params, n)
build_buy_solidly(params, n) == apply("buySolidly", params, n)

\* The contract's deadline is in seconds, the bot's clock in milliseconds.
DeadlineInMs(ms) == ms + DeadlineSecs
Deadline(ms) == ms \div MsPerSec + DeadlineSecs

\* Of the contract's guards only the deadline is set: no minimum output, no
\* minimum of the reserves, no block limit.
BuyV2Params(c, deadline, pair) ==
  [router |-> c.router, path |-> <<c.base, c.token>>, amountIn |-> c.amount,
   minAmountOut |-> 0, recipient |-> Owner, deadline |-> deadline, pair |-> pair,
   minBaseReserve |-> 0, minTokenReserve |-> 0, maxBlockNumber |-> 0]
BuySolidlyParams(c, deadline, pair) ==
  [router |-> c.router, tokenIn |-> c.base, tokenOut |-> c.token,
   stable |-> c.curve = "stable", amountIn |-> c.amount, minAmountOut |-> 0,
   recipient |-> Owner, deadline |-> deadline, pair |-> pair,
   minBaseReserve |-> 0, minTokenReserve |-> 0, maxBlockNumber |-> 0]
=============================================================================
