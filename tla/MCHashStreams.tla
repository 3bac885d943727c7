---------------------------- MODULE MCHashStreams ----------------------------
(***************************************************************************)
(* HashStreams for TLC: a pool that can exceed the txpool channel by one.  *)
(***************************************************************************)
EXTENDS HashStreams

CONSTANTS h1, h2

MCOrder == <<h1, h2>>
=============================================================================
