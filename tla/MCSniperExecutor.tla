-------------------------- MODULE MCSniperExecutor --------------------------
(***************************************************************************)
(* Instances of SniperExecutor: the buys that are asked for.               *)
(***************************************************************************)
EXTENDS SniperExecutor

CONSTANTS owner, executor, stranger, friend, nobody, v2Router, solidlyRouter

\* A buy of the owner's with no guard, for two of base.
Plain(kind, router) ==
  [kind |-> kind, sender |-> owner, router |-> router, hops |-> 2,
   amountIn |-> 2, minAmountOut |-> 0, recipient |-> owner, deadline |-> MaxHeight,
   pair |-> FALSE, minBaseReserve |-> 0, minTokenReserve |-> 0,
   maxBlockNumber |-> 0]

V2 == Plain("v2", v2Router)
Solidly == Plain("solidly", solidlyRouter)

\* Both routers, each guard, each kind of recipient, and a stranger's calls.
TheCalls ==
  {V2, [V2 EXCEPT !.hops = 1], [V2 EXCEPT !.sender = stranger],
   [V2 EXCEPT !.minAmountOut = 2, !.recipient = friend],
   [V2 EXCEPT !.amountIn = 1, !.recipient = executor, !.deadline = 0],
   [Solidly EXCEPT !.recipient = nobody, !.minAmountOut = 1],
   [Solidly EXCEPT !.sender = stranger],
   [Solidly EXCEPT !.maxBlockNumber = 1, !.amountIn = 1],
   [V2 EXCEPT !.pair = TRUE, !.minBaseReserve = 1, !.minTokenReserve = 2]}

\* One guarded buy, which asks for more base in the pair than token.
GuardedCalls ==
  {[V2 EXCEPT !.amountIn = 1, !.pair = TRUE,
              !.minBaseReserve = 2, !.minTokenReserve = 1]}
=============================================================================
