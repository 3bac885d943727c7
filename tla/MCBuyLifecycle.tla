--------------------------- MODULE MCBuyLifecycle ---------------------------
(***************************************************************************)
(* Instances of BuyLifecycle, with the transactions of MCBot.              *)
(***************************************************************************)
EXTENDS BuyLifecycle, MCBot
=============================================================================
