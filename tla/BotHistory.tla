------------------------------ MODULE BotHistory ------------------------------
(***************************************************************************)
(* Bot with the history its deduper answers for: when the running process  *)
(* last saw each hash and which others it has seen since, as DedupeWindow  *)
(* keeps them. It restrains nothing.                                       *)
(***************************************************************************)
EXTENDS Bot

VARIABLES
  lastSeen, since,  \* see DedupeWindow; empty at the start of a process
  excused           \* the hash in flight was seen before, and was let through
                    \* because the window it had was over or forgotten

historyVars == <<lastSeen, since, excused>>

Window == INSTANCE DedupeWindow
  WITH Keys <- Hashes, Slots <- Dedupe!Slots, TtlMs <- DedupTtl, MaxMs <- MaxNow,
       verdict <- excused

InFlight == pc \in {"fetch", "resolve", "send"}

\* At this sighting of h its last one is more than the TTL ago, or at least
\* as many other hashes were seen since as the deduper holds.
Excuse(h) ==
  /\ h \in Window!Seen
  /\ Window!Lapsed(h, now) \/ Cardinality(since[h]) >= Dedupe!Slots

HInit ==
  /\ Init
  /\ lastSeen = [h \in {} |-> 0] /\ since = [h \in {} |-> {}]
  /\ excused = FALSE

SightedFrom(s) ==
  /\ Recv(s)
  /\ Window!Sighted(Head(stream[s]), now)
  /\ excused' = (InFlight' /\ Excuse(Head(stream[s])))

RestartForgets ==
  /\ Restart
  /\ lastSeen' = [h \in {} |-> 0] /\ since' = [h \in {} |-> {}]
  /\ excused' = FALSE

Others ==
  \/ FetchMissing \/ FetchFails \/ FetchFound \/ ResolveDone \/ ResolveFails
  \/ SendOk \/ SendFails \/ SendLost
  \/ \E s \in Sources, h \in Hashes : Announce(s, h)
  \/ Crash \/ Tick \/ WalletTx
  \/ \E f \in AllFactories, c \in Adds : CreatePair(f, c)

HNext ==
  \/ \E s \in Sources : SightedFrom(s)
  \/ RestartForgets
  \/ /\ Others
     /\ excused' = (InFlight' /\ excused)
     /\ UNCHANGED <<lastSeen, since>>

HSpec == HInit /\ [][HNext]_<<vars, historyVars>>
-----------------------------------------------------------------------------
(***************************************************************************)
(* Properties.                                                             *)
(***************************************************************************)

\* However often the two streams announce an add, and in whatever order with
\* others, a process that has bought it handles it again only if it had not
\* seen its hash for more than the TTL, or had seen as many others since as
\* the deduper holds: nothing else lets an add be bought twice.
NoDoubleBuy ==
  (/\ InFlight
   /\ \E i \in DOMAIN attempts : attempts[i].life = life /\ attempts[i].hash = hash)
  => excused
=============================================================================
