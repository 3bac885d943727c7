--------------------------------- MODULE Bot ---------------------------------
(***************************************************************************)
(* The orchestrator (crates/bot/src/orchestrator.rs): Bot::run takes       *)
(* hashes from its streams one at a time, and handle_hash takes each one   *)
(* through deduper, fetch, detection, pair resolution and execution before *)
(* the next is looked at. The node, the chain and the process around it    *)
(* are part of the model: announcements, answers, time, other             *)
(* transactions of the wallet, new pairs, a crash at any step, restarts.   *)
(*                                                                         *)
(* The task rests at pc:                                                   *)
(*   "select"   in select!, waiting for a hash                             *)
(*   "fetch"    awaiting eth_getTransactionByHash (has a timeout)          *)
(*   "resolve"  awaiting the calls of PairMetadataCache::resolve (has none)*)
(*   "send"     awaiting eth_sendTransaction (has none)                    *)
(*   "stopped"  run() returned an error, or the process was killed         *)
(* Between two of these nothing is awaited, so a handler's code up to its  *)
(* next await is one action.                                               *)
(***************************************************************************)
EXTENDS Integers, Sequences, FiniteSets, Detection, TxBuilder

CONSTANTS
  Hashes,         \* transaction hashes
  Tx,             \* hash -> the transaction, see Detection
  Sources,        \* the hash streams: "pending", and "txpool" in that mode
  ChannelSize,    \* room in each stream's channel
  DedupCapacity,  \* mempool.dedup_capacity
  DedupTtl,       \* mempool.dedup_ttl_ms
  AllowWithoutPair,  \* dex.allow_execution_without_pair
  OwnerSet,       \* the owner's key is in the environment
  ZeroAddress,    \* Address::ZERO where a pair is expected
  FirstAccountNonces,  \* what the owner's account nonce may be at the start
  ClockSteps,     \* bound: what the clock moves by at once
  MaxNow,         \* bound: the clock shows nothing later
  MaxAttempts,    \* bound: after so many buys the node announces no more
  MaxWalletTxs,   \* bound: other transactions of the owner's wallet
  MaxLives        \* bound: lifetimes of the process

\* What a selector's arguments are, as far as the amounts go: uint256.
Encoded(tx) ==
  \/ tx.selector = "unknown"
  \/ tx.selector = "addLiquidityETH" /\ tx.args.amountETHMin \in Nat
  \/ /\ tx.selector \in {"addLiquidity", "addLiquiditySolidly"}
     /\ tx.args.amountADesired \in Nat /\ tx.args.amountBDesired \in Nat

ASSUME BotAssumption ==
  /\ IsFiniteSet(Hashes) /\ None \notin Hashes
  /\ MinBase \in Nat
  /\ \A h \in Hashes : Encoded(Tx[h])
  /\ ChannelSize \in Nat \ {0}
  /\ DedupCapacity \in Nat /\ DedupTtl \in Nat
  /\ AllowWithoutPair \in BOOLEAN /\ OwnerSet \in BOOLEAN
  /\ FirstAccountNonces \subseteq Nat
  /\ ClockSteps \subseteq Int
  /\ MaxNow \in Nat /\ MaxAttempts \in Nat
  /\ MaxWalletTxs \in Nat /\ MaxLives \in Nat

VARIABLES
  stream,        \* source -> the hashes in its channel
  expiresAt, age,  \* the deduper, see DedupeCache
  pc, hash, seenAt, cand, nonce,  \* the task and handle_hash's locals
  nextNonce,     \* NonceManager.next
  now,           \* the clock
  pairs,         \* pairs that exist on chain, by PairOf
  accountNonce,  \* next nonce of the owner's account, its pool included
  walletTxs,     \* how many other transactions the wallet made
  life,          \* which start of the process this is
  attempts       \* history: the buys handed to the node, with the outcome

task == <<pc, hash, seenAt, cand, nonce>>
chain == <<now, pairs, accountNonce, walletTxs>>
vars == <<stream, expiresAt, age, task, nextNonce, chain, life, attempts>>

Dedupe == INSTANCE DedupeCache
  WITH Keys <- Hashes, Capacity <- DedupCapacity, TtlMs <- DedupTtl,
       MaxMs <- MaxNow + DedupTtl

\* The pair of a candidate's tokens and curve at factory f: a pair has no
\* order of its tokens.
PairOf(f, c) == [factory |-> f, tokens |-> {c.base, c.token}, curve |-> c.curve]

EmptyStreams == [s \in Sources |-> <<>>]

\* Bot::new: nothing seen, nothing cached, nonces from 0.
Init ==
  /\ stream = EmptyStreams
  /\ Dedupe!Init
  /\ pc = "select" /\ hash = None /\ seenAt = 0 /\ cand = NotAnAdd /\ nonce = 0
  /\ nextNonce = 0
  /\ now = 0 /\ pairs = {} /\ accountNonce \in FirstAccountNonces
  /\ walletTxs = 0 /\ life = 1
  /\ attempts = <<>>

\* The locals of a handle_hash that has returned.
NoLocals == hash' = None /\ seenAt' = 0 /\ cand' = NotAnAdd /\ nonce' = 0

\* handle_hash returned Ok: back to select!.
Done == pc' = "select" /\ NoLocals /\ UNCHANGED stream

\* `?` took an error out of run(): the channels are dropped.
Stop ==
  /\ pc' = "stopped"
  /\ NoLocals
  /\ stream' = EmptyStreams
-----------------------------------------------------------------------------
\* A stream task gets a hash from the node and try_sends it; a full channel
\* drops it. The node may announce a hash on both streams and repeatedly.
AnnounceUnbounded(s, h) ==
  /\ pc # "stopped" /\ Len(attempts) < MaxAttempts
  /\ stream' = [stream EXCEPT ![s] = Append(@, h)]
  /\ UNCHANGED <<expiresAt, age, task, nextNonce, chain, life, attempts>>
Announce(s, h) ==
  /\ pc # "stopped" /\ Len(attempts) < MaxAttempts
  /\ stream' = [stream EXCEPT ![s] =
                  IF Len(@) < ChannelSize THEN Append(@, h) ELSE @]
  /\ UNCHANGED <<expiresAt, age, task, nextNonce, chain, life, attempts>>

\* handle_hash of the stream's first hash, up to its first await: a duplicate
\* is done with, anything else is fetched.
Handled(s) ==
  /\ stream' = [stream EXCEPT ![s] = Tail(@)]
  /\ \E fresh \in BOOLEAN :
       /\ Dedupe!CheckAndUpdate(Head(stream[s]), now, fresh)
       /\ IF fresh
            THEN /\ pc' = "fetch" /\ hash' = Head(stream[s]) /\ seenAt' = now
                 /\ UNCHANGED <<cand, nonce>>
            ELSE UNCHANGED task
  /\ UNCHANGED <<nextNonce, chain, life, attempts>>

\* select! takes a hash from any stream that has one.
RecvBiased(s) ==
  /\ pc = "select" /\ stream[s] # <<>>
  /\ s = "txpool" => stream["pending"] = <<>>
  /\ Handled(s)
Recv(s) == pc = "select" /\ stream[s] # <<>> /\ Handled(s)

\* The node does not know the transaction (not yet, or no longer): Ok(None).
FetchMissing ==
  /\ pc = "fetch"
  /\ Done
  /\ UNCHANGED <<expiresAt, age, nextNonce, chain, life, attempts>>

\* The call failed, or tx_fetch_timeout_ms passed without an answer.
FetchFails ==
  /\ pc = "fetch"
  /\ Stop
  /\ UNCHANGED <<expiresAt, age, nextNonce, chain, life, attempts>>

\* The rest of handle_hash, once the candidate is as resolved as it gets: the
\* native base is not supported, a missing pair must be allowed, the risk
\* engine passes everything, and without the owner's key nothing is sent.
\* Only a buy that is going to be sent takes a nonce.
Qualified(c) ==
  /\ c.base # Native
  /\ c.pair # None \/ AllowWithoutPair
  /\ OwnerSet
ContinueEagerly(c) ==
  /\ nextNonce' = nextNonce + 1
  /\ IF Qualified(c) THEN /\ pc' = "send" /\ cand' = c /\ nonce' = nextNonce
                          /\ UNCHANGED <<stream, hash, seenAt>>
     ELSE Done
Continue(c) ==
  IF Qualified(c)
    THEN /\ pc' = "send" /\ cand' = c
         /\ nonce' = nextNonce /\ nextNonce' = nextNonce + 1
         /\ UNCHANGED <<stream, hash, seenAt>>
    ELSE Done /\ UNCHANGED nextNonce

\* resolve_candidate_pair returns at once for the native base, and for a
\* router without a mapping when there are mappings.
NeedsResolver(c) ==
  /\ c.base # Native
  /\ c.factory # None \/ DOMAIN RouterFactory = {}

\* The transaction is there; nothing is awaited until its pair is resolved.
FetchFound ==
  /\ pc = "fetch"
  /\ LET c == Detect(Tx[hash]) IN
     \/ c.verdict = "none" /\ Done /\ UNCHANGED nextNonce
     \/ c.verdict = "error" /\ Stop /\ UNCHANGED nextNonce
     \/ /\ c.verdict = "candidate" /\ NeedsResolver(c)
        /\ pc' = "resolve" /\ cand' = c
        /\ UNCHANGED <<stream, hash, seenAt, nonce, nextNonce>>
     \/ c.verdict = "candidate" /\ ~NeedsResolver(c) /\ Continue(c)
  /\ UNCHANGED <<expiresAt, age, chain, life, attempts>>

\* The pinned factory, or every configured one.
FactoriesUnpinned(c) == Factories
FactoriesFor(c) == IF c.factory # None THEN {c.factory} ELSE Factories

\* A candidate with its pair and the factory it was found at.
Resolved(c, f, p) ==
  [verdict |-> "candidate", router |-> c.router, base |-> c.base,
   token |-> c.token, amount |-> c.amount, curve |-> c.curve,
   pair |-> p, factory |-> f]

\* What PairMetadataCache::resolve may answer: no pair (there is none, a
\* query failed, or a cached miss is still valid), or the one of a factory it
\* was told to ask.
AnswersAnyCurve(c) ==
  {Resolved(c, p.factory, p) :
     p \in {q \in pairs : q.factory \in FactoriesFor(c)
                          /\ q.tokens = {c.base, c.token}}}
Answers(c) ==
  {c} \cup {Resolved(c, f, PairOf(f, c)) :
              f \in {g \in FactoriesFor(c) : PairOf(g, c) \in pairs}}

ResolveDone ==
  /\ pc = "resolve"
  /\ \E c \in Answers(cand) : Continue(c)
  /\ UNCHANGED <<expiresAt, age, chain, life, attempts>>

\* One of the calls whose errors resolve() hands on fails.
ResolveFails ==
  /\ pc = "resolve"
  /\ Stop
  /\ UNCHANGED <<expiresAt, age, nextNonce, chain, life, attempts>>

\* The buy that is sent, and what the node says to it.
Buy(accepted) ==
  [life |-> life, hash |-> hash, seenAt |-> seenAt, nonce |-> nonce,
   accepted |-> accepted, cand |-> cand]

\* What execute_candidate makes of the candidate.
Request(c, d, n) ==
  LET pair == IF c.pair = None THEN ZeroAddress ELSE c.pair IN
  IF c.curve = "v2" THEN build_buy_v2(BuyV2Params(c, d, pair), n)
  ELSE build_buy_solidly(BuySolidlyParams(c, d, pair), n)

\* The node's side of eth_sendTransaction: a nonce already used is refused, one
\* ahead of the account is parked until the gap is filled.
Attempt(accepted) ==
  /\ accepted => nonce >= accountNonce
  /\ attempts' = Append(attempts, Buy(accepted))
  /\ accountNonce' = IF accepted /\ nonce = accountNonce THEN accountNonce + 1
                     ELSE accountNonce
  /\ UNCHANGED <<expiresAt, age, nextNonce, now, pairs, walletTxs,
                 life>>

\* The buy is in the node's pool and its hash is returned.
SendOk == pc = "send" /\ Attempt(TRUE) /\ Done

\* The node refuses it (for its nonce or any other reason): send().await?.
SendFails == pc = "send" /\ Attempt(FALSE) /\ Stop

\* The node takes it, but its answer is lost, or the process is killed first.
SendLost == pc = "send" /\ Attempt(TRUE) /\ Stop

\* The process is killed.
Crash ==
  /\ pc # "stopped"
  /\ Stop
  /\ UNCHANGED <<expiresAt, age, nextNonce, chain, life, attempts>>

\* The operator starts it again: Bot::new, which keeps nothing and asks the
\* node for nothing.
RestartSynced ==
  /\ pc = "stopped" /\ life < MaxLives
  /\ life' = life + 1
  /\ pc' = "select" /\ nextNonce' = accountNonce
  /\ expiresAt' = [h \in {} |-> 0] /\ age' = Dedupe!NoAges
  /\ UNCHANGED <<stream, hash, seenAt, cand, nonce, chain, attempts>>
Restart ==
  /\ pc = "stopped" /\ life < MaxLives
  /\ life' = life + 1
  /\ pc' = "select" /\ nextNonce' = 0
  /\ expiresAt' = [h \in {} |-> 0] /\ age' = Dedupe!NoAges
  /\ UNCHANGED <<stream, hash, seenAt, cand, nonce, chain, attempts>>
-----------------------------------------------------------------------------
\* The world: time, another transaction of the owner's wallet, a new pair.
\* now_ms is the wall clock, which may also be set back.
Tick ==
  /\ \E d \in ClockSteps : now + d \in 0 .. MaxNow /\ now' = now + d
  /\ UNCHANGED <<stream, expiresAt, age, task, nextNonce, pairs, accountNonce,
                 walletTxs, life, attempts>>

WalletTx ==
  /\ walletTxs < MaxWalletTxs /\ walletTxs' = walletTxs + 1
  /\ accountNonce' = accountNonce + 1
  /\ UNCHANGED <<stream, expiresAt, age, task, nextNonce, now, pairs, life, attempts>>

\* The adds among the transactions, and the factories a pair may be made at.
Adds == {c \in {Detect(Tx[h]) : h \in Hashes} : c.verdict = "candidate"}
AllFactories == Factories \cup {RouterFactory[r] : r \in DOMAIN RouterFactory}

CreatePair(f, c) ==
  /\ PairOf(f, c) \notin pairs
  /\ pairs' = pairs \cup {PairOf(f, c)}
  /\ UNCHANGED <<stream, expiresAt, age, task, nextNonce, now, accountNonce,
                 walletTxs, life, attempts>>

BotNext ==
  \/ \E s \in Sources : Recv(s)
  \/ FetchMissing \/ FetchFails \/ FetchFound
  \/ ResolveDone \/ ResolveFails
  \/ SendOk \/ SendFails \/ SendLost

WorldNext ==
  \/ \E s \in Sources, h \in Hashes : Announce(s, h)
  \/ Crash \/ Restart \/ Tick \/ WalletTx
  \/ \E f \in AllFactories, c \in Adds : CreatePair(f, c)

Next == BotNext \/ WorldNext

Spec == Init /\ [][Next]_vars

\* What the runtime guarantees: select! polls its branches in random order, so
\* no stream that stays ready is passed over for ever, and the fetch has a
\* timer. The node owes nothing: resolve and send may wait for ever.
Fairness == (\A s \in Sources : SF_vars(Recv(s))) /\ WF_vars(FetchFails)

FairSpec == Spec /\ Fairness
-----------------------------------------------------------------------------
(***************************************************************************)
(* Properties.                                                             *)
(***************************************************************************)

Candidates ==
  {Resolved(c, f, p) :
     c \in Adds, f \in AllFactories \cup {None},
     p \in {PairOf(g, c) : g \in AllFactories, c \in Adds} \cup {None}}

StreamsOK ==
  /\ stream \in [Sources -> Seq(Hashes)]
  /\ \A s \in Sources : Len(stream[s]) <= ChannelSize

DedupeOK == DOMAIN expiresAt \subseteq Hashes /\ DOMAIN age = DOMAIN expiresAt

TaskOK ==
  /\ pc \in {"select", "fetch", "resolve", "send", "stopped"}
  /\ hash \in Hashes \cup {None}
  /\ pc \in {"fetch", "resolve", "send"} <=> hash # None
  /\ cand \in Candidates \cup {NotAnAdd}
  /\ pc \in {"resolve", "send"} <=> cand # NotAnAdd
  /\ seenAt \in Nat /\ nonce \in Nat /\ nextNonce \in Nat

ChainOK ==
  /\ now \in Nat /\ accountNonce \in Nat /\ walletTxs \in Nat
  /\ pairs \subseteq {PairOf(f, c) : f \in AllFactories, c \in Adds}

Buys == [life : Nat, hash : Hashes, seenAt : Nat, nonce : Nat,
         accepted : BOOLEAN, cand : Candidates]

AttemptsOK == life \in Nat \ {0} /\ attempts \in Seq(Buys)

\* The task's locals are set exactly where its code has them, the channels
\* hold at most channel_size hashes, and the deduper's map and list agree.
TypeOK == StreamsOK /\ DedupeOK /\ TaskOK /\ ChainOK /\ AttemptsOK

\* The buys of one process carry the nonces 0, 1, 2, ... without a hole, and
\* each but the last was taken by the node: a nonce drawn for a buy that was
\* not sent would park every later buy behind the gap.
NoNonceGap ==
  \A i \in DOMAIN attempts :
    LET follows == i > 1 /\ attempts[i-1].life = attempts[i].life IN
    /\ follows => /\ attempts[i-1].accepted
                  /\ attempts[i].nonce = attempts[i-1].nonce + 1
    /\ ~follows => attempts[i].nonce = 0

\* A buy never runs ahead of its account: whatever the wallet sends by itself,
\* whatever is refused or lost, and however often the process starts again, the
\* node has none to park (what it may have to do is refuse one, NonceCurrent).
NothingParked == pc = "send" => nonce <= accountNonce

\* A restart forgets every hash it has seen, and the txpool announces them
\* again; still no add is bought by two processes. What prevents it is only
\* that the new process starts at nonce 0 (so that syncing it at the start,
\* as NonceManager::sync could, needs a deduper that survives).
NoSecondBuyAfterRestart ==
  \A i, j \in DOMAIN attempts :
    /\ attempts[i].accepted /\ attempts[j].accepted
    /\ attempts[i].hash = attempts[j].hash
    => attempts[i].life = attempts[j].life

\* Unless allow_execution_without_pair says otherwise, a buy names a pair: one
\* that exists, of the buy's own tokens, its curve and its factory.
Guarded(c) ==
  \/ c.pair = None /\ AllowWithoutPair
  \/ c.pair \in pairs /\ c.pair = PairOf(c.factory, c)
GuardedBuy == \A i \in DOMAIN attempts : Guarded(attempts[i].cand)

\* The pair of a buy comes from the factory its router is mapped to, or, when
\* nothing is mapped, from a configured one: never from another DEX's factory
\* (docs/architecture.md: "avoids cross-DEX pair mismatches").
Pinned(c) ==
  c.pair # None =>
    IF c.router \in DOMAIN RouterFactory
      THEN c.factory = RouterFactory[c.router]
      ELSE DOMAIN RouterFactory = {} /\ c.factory \in Factories
PinnedFactory == \A i \in DOMAIN attempts : Pinned(attempts[i].cand)

\* From calldata to calldata: the request asks for what its add offers, by the
\* add's own arguments, on its curve and router; what is bought goes to the
\* owner, and the contract is told which pair to look at.
Requested(request, c, tx) ==
  LET params == request.params
      tokens == IF request.method = "buyV2" THEN params.path
                ELSE <<params.tokenIn, params.tokenOut>> IN
  /\ request.method = "buySolidly" <=> tx.selector = "addLiquiditySolidly"
  /\ request.method = "buySolidly" => (params.stable <=> tx.args.stable)
  /\ params.router = tx.to /\ params.recipient = Owner
  /\ tokens[1] \in BaseTokens \ {Native}
  /\ \/ /\ tokens = <<tx.args.tokenA, tx.args.tokenB>>
        /\ params.amountIn = tx.args.amountADesired
     \/ /\ tokens = <<tx.args.tokenB, tx.args.tokenA>>
        /\ params.amountIn = tx.args.amountBDesired
  /\ c.pair # None => params.pair = c.pair
RequestMatchesAdd ==
  \A i \in DOMAIN attempts :
    LET b == attempts[i] IN
    \A d \in 0 .. 1 : Requested(Request(b.cand, d, b.nonce), b.cand, Tx[b.hash])

\* No stream is starved: whatever it holds is taken out, unless the bot waits
\* for ever for an answer it has no timeout for (resolve, send).
StreamsDrain ==
  \/ <>[](pc \in {"resolve", "send"})
  \/ \A s \in Sources : (stream[s] # <<>>) ~> (stream[s] = <<>>)

\* A buy is sent with the account's next nonce, also when the owner's wallet
\* deployed the executor before the bot first ran (contracts/README.md). The
\* code starts at 0 and never asks.
NonceCurrent == pc = "send" => nonce >= accountNonce
=============================================================================
