---------------------------- MODULE MCBotHistory ----------------------------
(***************************************************************************)
(* Instances of BotHistory, with the transactions of MCBot.                *)
(***************************************************************************)
EXTENDS BotHistory, MCBot
=============================================================================
