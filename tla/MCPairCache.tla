------------------------------ MODULE MCPairCache ------------------------------
(***************************************************************************)
(* An instance of PairCache.                                               *)
(***************************************************************************)
EXTENDS PairCache, TLC

CONSTANTS f1, f2, t1, t2

\* The same two tokens on a V2 curve and, in the other order, on a stable one.
MCRequests ==
  {[a |-> t1, b |-> t2, curve |-> "v2"], [a |-> t2, b |-> t1, curve |-> "stable"]}

\* A pinned factory, and all the configured ones.
MCLists == {<<f2>>, <<f1, f2>>}

\* f1's code hash is configured wrongly, f2's is asked for.
MCConfigured == f1 :> "wrong"
=============================================================================
