--------------------------- MODULE BackfillHistory ---------------------------
(***************************************************************************)
(* Bot with one more history variable: the hashes the running process last *)
(* fetched in vain. It restrains nothing.                                  *)
(***************************************************************************)
EXTENDS MCBot

VARIABLE missed

HInit == Init /\ missed = {}

Others ==
  \/ \E s \in Sources : Recv(s)
  \/ FetchFails \/ ResolveDone \/ ResolveFails \/ SendOk \/ SendFails \/ SendLost
  \/ \E s \in Sources, h \in Hashes : Announce(s, h)
  \/ Crash \/ Tick \/ WalletTx
  \/ \E f \in AllFactories, c \in Adds : CreatePair(f, c)

HNext ==
  \/ FetchMissing /\ missed' = missed \cup {hash}
  \/ FetchFound /\ missed' = missed \ {hash}
  \/ Restart /\ missed' = {}
  \/ Others /\ UNCHANGED missed

HSpec == HInit /\ [][HNext]_<<vars, missed>>

\* A hash the node did not know when it was fetched is fetched again when the
\* txpool backfill announces it: "`txpool_content` backfill helps catch missed
\* txs" (README.md). Within the deduper's window the code does not do this.
MissedHashIsRetried ==
  (pc = "select" /\ stream["txpool"] # <<>> /\ Head(stream["txpool"]) \in missed)
    => ~Dedupe!Live(Head(stream["txpool"]), now)
=============================================================================
