# SonicEdge in TLA+

SonicEdge (`src/`) is a bot that watches the mempool of an EVM chain for transactions
adding liquidity to a DEX pair and sends a buy of the token, through an executor
contract of its own. This directory models its Rust core and the contract in TLA+,
checks the models with TLC and proves some of the results with TLAPS.

    tlc -workers 2 -config BotBuys.cfg MCBotHistory # one run
    tlapm DedupeProofs.tla                          # one module of proofs

`PROJECT.json` is the index: which module stands for which lines, the runs, the hazards
and what covers them, the theorems, the disagreements found.

## 1. The system

```
 node ──subscription──> PendingTxStream ─try_send─> [channel] ─┐
   │  ──txpool_content─> TxpoolBackfill ─try_send─> [channel] ─┤ select!   one task
   │  ──newHeads───────> NewHeadStream  ─try_send─> [channel] ─┘   │
   │                                                             v
   │        handle_hash:  DedupeCache ─> TxFetcher ─> decoder/detect_liquidity_add
   │                                        ^              │
   │<──getTransactionByHash─────────────────┘              v
   │<──getPair, code hash, getCode, token0/1──── PairMetadataCache::resolve
   │                                                       │ RiskEngine (passes all)
   │<──eth_sendTransaction── TxSender <── builder <── NonceManager
   v
 pool ──block──> SonicSniperExecutor ──> router, pair, tokens
```

The three streams are tasks of their own, which run on other threads than the
orchestrator. The orchestrator handles one hash to its end before it looks at the next.
Nothing is persisted. Every error in handling a hash ends the process.

| Component | Source | State | Operations | Hard about it | Correct when |
|---|---|---|---|---|---|
| Deduper | `crates/core/src/dedupe.rs` | LRU map hash → end of window | `check_and_update` | eviction against window, the clock may step back, saturation | it answers as a sliding window of bounded memory |
| Tracked channel | `crates/chain/src/channel.rs` | bounded queue, atomic length, gauge | `try_send`, `recv`, `len`, dropping either end | two threads between push and count, between count and gauge | the length is that of the queue, up to steps under way |
| Orchestrator | `crates/bot/src/orchestrator.rs` | deduper, pair cache, next nonce; the locals of one `handle_hash` | `run`, `handle_hash`, `resolve_candidate_pair`, `execute_candidate` | the world moves at each await; duplicates over two streams; crash and restart; awaits without a timeout | no add is bought twice, no nonce is wasted, a buy is of its add and guarded by its pair, no stream starves |
| Detection | `orchestrator.rs`, `crates/dex/src/decoder.rs` | none | `decode_router_calldata`, `detect_liquidity_add` | which token is the base, native coin, minimum | the request has the add's own tokens and amount (`RequestMatchesAdd`) |
| Pair cache | `crates/dex/src/pair_cache.rs`, `pair.rs` | LRU of answers with two TTLs, code hashes per factory | `resolve` and the calls it awaits | pairs are made between two calls, errors swallowed in some and passed on in others, one clock reading used throughout, which a later one may precede | its answers are true; a new pair is found once the negative TTL is over |
| Nonce manager | `crates/executor/src/nonce.rs` | next nonce | `new(0)`, `next_nonce`; `set`, `sync` have no caller | the account moves on its own | nonces without gaps, equal to the account's |
| Fetcher, sender | `crates/chain/src/fetcher.rs`, `crates/executor/src/sender.rs` | none | one call each, only the fetch with a timeout | a lost answer | part of the orchestrator |
| Streams | `crates/chain/src/pending.rs`, `heads.rs`, `txpool.rs`, `reconnect.rs` | backoff, poll timer | subscribe, forward, reconnect, poll | a full channel drops; backoff arithmetic | a subscription is always made again, with delays that double; what the channel can hold of the pool is delivered |
| Executor contract | `contracts/SonicSniperExecutor.sol` | owner, flag; balances and allowances kept by the tokens | `buyV2`, `buySolidly`, `setUseFeeOnTransfer`, `rescueToken`, `rescueETH` | up to five calls that change tokens of others, each of which may fail; base left over from earlier | a buy is one step or none, keeps its guards and leaves no allowance |
| Builder, fees, ABI | `crates/executor/src/tx_builder.rs`, `fees.rs`, `abi.rs` | none | a request from a candidate | units of time and fee, fields copied by hand | no buy after its deadline, none stuck in the pool |
| Risk engine | `crates/risk` | none | `assess`, a placeholder that passes everything | – | – |
| Client, config, CLI, metrics server, `state.rs` | | none of the core logic | | | not modelled |

The code hazards (`PROJECT.json`, "hazards") are what the properties aim at.

**The clock.** `now_ms` reads `SystemTime`, which may be set back. The models follow:
`DedupeCache` and `PairCache` take any time of a bounded range at each reading, whatever
the reading before, and `Bot`'s clock moves in either direction. The invariants, action
properties and refinements are proved for such clocks. Time goes forward alone in
`buy_lifecycle`, to bound its states, and in `bot_stale_nonce` and `bot_missed_hash`,
whose counterexamples need no more.

## 2. The modules

| Module | What it is |
|---|---|
| `LruOrder` | operators: the recency list of the `lru` crate as its two callers use it (external code) |
| `DedupeCache` | the deduper, one action per outcome of `check_and_update` |
| `DedupeWindow` | the abstract specification: a sliding window without a cache |
| `DedupeHistory` | `DedupeCache` with a history, and the refinement to `DedupeWindow` |
| `TrackedChannel` | one sender and one receiver, each of their calls in its atomic steps |
| `Detection` | decoding and detection as operators |
| `Bot` | the orchestrator with the deduper (`INSTANCE DedupeCache`), detection (`EXTENDS`), streams, nonces, node, chain, crash and restart |
| `BotHistory` | `Bot` with the history its deduper answers for (`INSTANCE DedupeWindow`) |
| `BackfillHistory` | `Bot` with the set of hashes fetched in vain |
| `PairCache` | `resolve` call by call, with the chain moving between the calls |
| `Resolver` | the abstract specification: a call has one reply, and no cache |
| `TxBuilder` | the request a candidate becomes, with deadline and fees, as operators |
| `BuyLifecycle` | `Bot` composed with `TxBuilder`'s requests, the node's pool and a chain that mines them |
| `SniperExecutor` | the contract, call by call, with rollback |
| `AtomicBuy` | the abstract specification: a buy is one step |
| `HashStreams` | the subscription and the poll task with their channels, in a world that drops and refuses |
| `MCBot`, `MCBotHistory`, `MCBuyLifecycle`, `MCPairCache`, `MCHashStreams`, `MCSniperExecutor` | instances for TLC |
| `LruOrderProofs`, `DedupeProofs`, `TrackedChannelProofs`, `BotProofs`, `BuyLifecycleProofs`, `PairCacheProofs`, `HashStreamsProofs`, `SniperExecutorProofs` | theorems |

### Correspondence

**DedupeCache.** `expiresAt` is the map, `age` the LRU order: a key's number of keys
used more recently, so the map and the order have the same domain. `Hit` is the branch
that returns false, `Miss` the rest, the overwriting of an expired entry included. The
clock is an argument. u64::MAX is the constant `MaxMs`.

**TrackedChannel.** An action is what happens between two points where the other thread
can be seen: the push into the mpsc channel, `fetch_add`, `set_queue_depth` of the value
kept; the pop, `fetch_update(checked_sub)`, `load`, `set_queue_depth`. All operations on
the counter are SeqCst, so an interleaving of steps is what the build can produce. Items
are counted, not told apart. The model has metrics attached, without them the gauge
steps are absent. `DropReceiver` is `run` returning, `DropSender` a stream task that
died.

**Bot.** `pc` is where the orchestrator's task awaits (`select`, `fetch`, `resolve`,
`send`) or that it is gone (`stopped`). All code between two awaits is one action, and
the awaits are where announcements, moves of the clock, new pairs, other transactions of
the wallet, and a kill can come in. `cand` is the `LiquidityCandidate`, `nextNonce` the
`NonceManager`, `attempts` the history of the buys handed to the node. An error that `?`
carries out of `run` is `Stop`: the channels are dropped. `Restart` is `Bot::new`. The
heads stream is left out: its items are only logged. `resolve` answers by contract
(`Answers`: nothing, or an existing pair of one of the factories asked, whenever it was
made). `Resolver` allows less than that, and `PairCache` implements `Resolver`.

`BotHistory` restrains nothing: beside each step of `Bot` it keeps what `DedupeHistory`
keeps, `lastSeen` and `since`, and `excused`: the hash in flight had been seen before and
was let through because its window was over or it was forgotten for others.

The node: a nonce that is used is refused; one that is ahead is parked in its pool
(accepted); a failed answer may hide an accepted transaction (`SendLost`). It keeps what
it accepted, so eviction from its pool is outside the model.

**PairCache.** `pc` names the node call that `resolve` awaits, `"next"` the head of the
loop over the factories. `start` is the one clock reading `resolve` takes; `codeNow` the
one that `code_hash_for_factory` takes; each may be any of `Times`. What is promised is
promised in terms of those readings, since the code has no other time: `latest` is the
latest one any call of `resolve` began with, and `visibleSince` dates a pair, or a query
for it that failed, by that. With a clock that is never set back `latest` is no later
than the pair itself, so that "a pair older than the negative TTL is not passed over"
follows; with one that is, a cached miss lives until the clock is again where it was, plus
the TTL, and the property says so. Addresses are not computed: CREATE2 yields the
pair's address iff the code hash is the factory's own. Factories are trusted to answer
`getPair` with their pair of these tokens, as the code trusts them: there it only asks
that `token0` and `token1` are not zero, while for a derived address it compares them
with the tokens asked for. For `Resolver`, `passed` and `rest` together are the list of
the call, `answer` without its history is the reply, and a query that fails shows as the
pair being made anew.

**Detection, TxBuilder.** A transaction is the method its selector names with the
arguments of that method; `decode_router_calldata` turns it into a router call, `Detect`
into a candidate, `Request` (in `Bot`) into what is sent. Records stand for ABI-encoded
bytes; whether bytes decode is an attribute of the transaction. A legacy gas price is a
request whose tip may be all of the fee.

**BuyLifecycle.** Every step of the bot is a step of `Bot`, with `deadline`, the local
of `execute_candidate`, set where the task gets to `send`, and the request recorded
where the node answers. The rest is the chain: `minedNonce` and `baseFee`, and blocks
that take the account's next nonce if its fee allows. The contract may revert a buy for
any reason and must after the deadline.

**SniperExecutor.** One action per call the contract makes into a token or the router:
`Submit` (the checks, up to the first call), `Pull`, `Clear`, `Approve`, `Swap`,
`Reset`. `Revert` is any of them failing, answering `false`, or the swap yielding too
little: the EVM restores `saved`. `buyV2` and `buySolidly` differ in the length check of
the path and in the fee-on-transfer branch, the rest is line by line the same. The
router is external: it takes at most what it was approved, pays out of the pair, and may
deliver less than it says when the token takes a fee. Block number and time are one
counter. A call that a `require` of the first lines refuses changes nothing and is no
step.

**HashStreams.** `subPc` and `pollPc` name where the two tasks await. `backoff` is the
variable of that name, `Wake` the end of either sleep with the `next_backoff` behind it,
`Ended` and `SubscribeFails` the ways into the sleep. One `PushAt` is one round of the
loop over the content: the loop has no await, but the receiver runs on another thread.
`heads.rs` is the loop of `pending.rs` line by line. `TrackedChannel` has the channel's
counters, here it is its bounded queue. The order of the pool is fixed (sender, then
nonce; a transaction that moves from `queued` to `pending` would change its place).
`listed` is history: what a poll that found its channel empty has to push.
`DelayLimit` is 2^64: a configured delay of 2^63 ms or more would be truncated to a
short one, and `BackoffIsExponential` would fail.

### Mutants

For every property of a passing run there is a plausible bug that breaks it, kept beside
the operator it would replace, above it and with the same parameters: `MissOverfull`
above `Miss`, `RestartSynced` above `Restart`. Nothing uses these operators; they
document what the property is there for, and `PROJECT.json` ("mutants") pairs them up.

## 3. The runs

| Run | Module, cfg | Distinct states | Shows |
|---|---|---|---|
| dedupe_cache | `DedupeHistory` | 37 thousand | capacity, no early eviction, exact recency, refinement of the window |
| tracked_channel | `TrackedChannel` | 5 thousand | the counter is never too low and at most 1 too high |
| channel_len_drift | `TrackedChannel` / `ChannelLenDrift` | violation | `len()` of a quiet channel can be wrong |
| channel_stale_gauge | `TrackedChannel` / `ChannelStaleGauge` | violation | so can the gauge |
| bot_buys | `MCBotHistory` / `BotBuys` | 1.6 million | types; no add is bought twice, by one process (unless the deduper had to let it through) or by two; no nonce gap, and none ahead of the account; a request asks for its add and names a pair that exists, of its tokens, curve and pinned factory |
| buy_lifecycle | `MCBuyLifecycle` / `BuyLifecycle` | 219 thousand | no buy after its deadline; those in the pool stand in line by nonce, with the full fee; every accepted buy is mined while the base fee allows; streams drain |
| bot_stale_nonce | `MCBot` / `BotStaleNonce` | violation | a buy may carry a used nonce |
| bot_missed_hash | `BackfillHistory` / `BotMissedHash` | violation | the backfill does not retry a hash fetched in vain |
| pair_cache | `MCPairCache` / `PairCache` | 2.5 million | answers are true; no pair is overlooked by a call later than the negative TTL after all calls before it was made; the calls implement the one reply of `Resolver` |
| hash_streams | `MCHashStreams` / `HashStreams` | 38 thousand | delays double up to the maximum; a poll that finds its channel empty loses nothing of the head of the pool; subscriptions come back; the head of the pool is backfilled |
| sniper_executor | `MCSniperExecutor` / `SniperExecutor` | 442 thousand | types; no approval outlives a buy; the calls of a buy implement the one step of `AtomicBuy` |
| reserve_guard | `MCSniperExecutor` / `ReserveGuard` | violation | the reserve guard is the wrong way round when the bought token is token0 |

**Bounds.** *Deduper*: four hashes in a cache of two make eviction, re-insertion after
eviction and overwriting after expiry meet; a window of 2 on a clock that ends at 4 (and
is free to step back) has inside, end and outside of the window, and saturates.
*Channel*: three places and two counted drops; the program counters allow one call at a
time per side, so larger capacities add only copies of the middle. *Bot*: a clock of
two values that goes on and is set back, with a TTL of 0, puts sightings before, at and
after the end of a window, which includes its end (longer windows are `dedupe_cache`'s);
a deduper of two for three hashes forgets; one stream of
one place is enough for a duplicate to wait behind its original and for a full channel
to drop (both streams run in `buy_lifecycle` and the runs of violations; a hash may come
again on either); `MaxAttempts` 2 buys (and what is announced by then) with two
lifetimes give every pair of buys the properties speak about. At `MaxAttempts` the node
announces nothing more, so the state space is finite and everything already announced is
still handled. The transactions of `BuysTx` are put together so that they can be
mistaken for each other: the same two tokens in either order, on a stable and on a V2
curve, with two amounts each, by a router that is mapped to a factory, and the stable one
again by a router that is not, whose pairs exist but must not be used.
*BuyLifecycle*: a good add, one of the native coin and one below the minimum, on both
streams; no pairs, since what the resolver answers does not matter here, and no restart; a deduper with one place
and no window lets the same add be bought twice, for two buys in the pool. `MsPerSec`
and `WeiPerGwei` are 2 and `DeadlineSecs` 0, so that on a clock that goes forward to 3 a buy can
be in time and late, and a maximum fee of 2 gwei (4 wei) is enough for one base fee and
not for the other; with a factor of 1 a forgotten conversion would not show. The account
starts at 0 or 1, so that a buy can be refused. *Pair cache*: two requests of the same
tokens on different curves and given in different order, two factories, a clock that
shows any of three values at each reading, with TTLs 1, 1 for answers and 1, 0 for code
hashes; at most two of the four
pairs are made, in any order and at any time, which is enough for a wrong one and one
that comes too late; one factory configured with a wrong code hash. Any call can fail at
any time. *Hash streams*: a pool that exceeds the txpool channel by one;
delays 2, 4 and then 7, so that the doubling and the limit both show within the three
sleeps counted; neither the truncation of a doubled delay nor a maximum below the base
occurs with them. (Three hashes with a channel of two pass as well, in 910 thousand
states.) *Contract*: two routers, nine buys with each guard, recipient and sender, 3
units of base and 2 of the token; `amountIn` is 2 or 1, so that the contract can hold
nothing, some or all of it beforehand, from deposits or from a swap that took less.
`reserve_guard` has one call of its own, guarded by a minimum of 2 of base and 1 of the
token.

**Fairness.** `buy_lifecycle` and `hash_streams` assume some. `tokio::select!` polls its
branches in random order, so a stream that is ready again and again is taken with
probability 1: strong fairness of `Recv(s)`, per stream. The fetch runs under
`tokio::time::timeout`: weak fairness of `FetchFails`. The awaits of `resolve` and
`send` have no timeout and the node owes no answer: no fairness, and `StreamsDrain` says
"unless the bot waits there for ever": it is about starvation, and excuses that hang,
which the code allows (`PROJECT.json` lists it as a hazard without a property). Under weak fairness of a biased `select!`, the
mutant, the backfill starves. Blocks are made and take what they may: weak fairness of
`Mine`; that the base fee stays within the maximum from some time on is a premise of
`BuysSettle`. In `HashStreams` timers fire and a task that can go on does (weak fairness
of its steps); a subscription is assumed to be answered while the node is up. Nothing is
assumed of the polls' answers or of the receiver: that polls succeed again and again
with the channel empty is a premise of `HeadIsBackfilled`.

`CHECK_DEADLOCK FALSE` stands where the system may really stop: a stopped bot at its
last life and the end of the clock, a closed channel. The deduper, the pair cache, the
hash streams and the contract are checked for deadlock.

## 4. Disagreements found

1. **A lost decrement** (`channel_len_drift`). `try_send` adds to the counter after
   the item is already visible. A `recv` on another thread that pops it in between
   finds 0, changes nothing (`checked_sub`), and the later `fetch_add` leaves 1 on an
   empty channel, for good. The unit test of the file, single-threaded, expects
   `len() == 0`. The drift is never more than 1 (`DriftAtMostOne`, proved).
2. **A stale gauge** (`channel_stale_gauge`). Both sides set the gauge from a value
   read earlier; the older value can be set last.
3. **The nonce starts at 0** (`bot_stale_nonce`). `NonceManager::sync` has no
   caller; `contracts/README.md` has the owner deploy the executor from the bot's
   wallet, whose account then is at 1: the first buy is refused and ends the process.
   What this costs is also what `NoSecondBuyAfterRestart` rests on: with a synced
   nonce and a deduper that forgets, a restarted bot buys the same add again (mutant
   `RestartSynced`), so the two would have to be fixed together.
4. **A missed hash is not retried** (`bot_missed_hash`). The hash is marked before
   the fetch, also if the node answers null; within the window, which every new
   announcement prolongs, the backfill's announcement is dropped.
5. **The reserve guard's orientation** (`reserve_guard`). `minBaseReserve` is compared
   with `reserve0`, which is the token's reserve when the bought token has the lower
   address. In the trace a buy that asks for 2 of base and 1 of the token in the pair is
   made on a pair with 1 of base and 2 of the token. `GuardedWhenBaseIsToken0` proves that in the other case the guard is right.
   The bot itself passes zero for both minimums, so it is callers with their own
   that meet this.

## 5. What is proved

All with TLAPS, for every value of the constants that satisfies the named `ASSUME`s.

**Deduper** (`DedupeProofs`, on `LruOrderProofs`). `TypeCorrect`, `CapacityRespected`,
`NoEarlyEviction`, `RecencyIsExact`, and the refinement `CacheImplementsWindow`. The
invariant of the argument says, beside the types, that the places of the list are
distinct numbers below the capacity, that `since[k]` of a cached key is exactly the
cached keys in front of it, and that the value cached for `k` is `lastSeen[k] + TtlMs`,
saturated. Eviction and the age-as-a-count then agree: what falls off stood at the last
place, with `Slots - 1` keys in front and the new one. `PutIsList` and `PutPlaces` carry
the list through `put`.

**Tracked channel** (`TrackedChannelProofs`). `TypeCorrect`, `DriftBounded`,
`SettledLenBounds`. The invariant is `DriftAtMostOne` itself with types: a decrement is
lost only when the counter is 0, which forces the drift to be 0 before.

**Orchestrator** (`BotProofs`), for any transactions, any configuration, any number of
restarts:

- `TypeCorrect`.
- `NoncesHaveNoGap`. The invariant (`NonceState`) ties the nonce manager to the
  history: before a nonce is drawn it holds the one after the process's last buy (0 if
  there is none), at `send` the drawn nonce is that one, and while a process runs its
  last buy was accepted, since a refusal ends it. No attempt is of a later life
  than the current one, so a restart begins with an empty history.
- `RestartBuysNothingTwice`. Stronger than its name: over all lifetimes only one
  process has any buy accepted. Nonce 0 is accepted only if the account is at 0 and
  uses it up (`NonceUsed`), and each process begins with 0.
- `BuysAreGuarded`, `FactoriesArePinned`, `RequestsMatchAdds`. A candidate at `resolve`
  is what detection makes of the hash's transaction (`CandState`), so that what the
  resolver adds and what `Continue` lets pass give a good buy; pairs are never unmade.
  The last goes on through `Request` to the fields of the calldata.
- `BuysAreNotParked`. The nonce manager itself is never ahead of the account
  (`NeverAhead`): it starts at 0, and while a process runs each nonce drawn was
  accepted, which moved the account on. A refusal can leave the manager ahead, but ends
  the process.
- `NothingBoughtTwice`, of `HSpec`. The clock may do anything. The deduper is the one `DedupeProofs` is about:
  that module is instantiated with the bot's variables, every sighting is one of its
  calls (`SightingKeepsHistory`) and every other step leaves it alone, so its invariant
  holds here for any capacity, and what is let through is what the window of
  `DedupeWindow` must let pass. `HistoryInv` adds that every hash bought or in flight in
  this life has been seen. Nothing is assumed of the capacity: that a hash was forgotten
  for others is one of the two excuses `NoDoubleBuy` names.

They assume `BotAssumption`: finitely many hashes, natural amounts, TTL and capacity.

**The buys** (`BuyLifecycleProofs`). `LifeImplementsBot`: a behaviour of the composition
is one of `Bot` for the bot's variables, so all of the above holds there too.
`NoLateBuyHolds`: the invariant says that a deadline, as a local or in a request, is
`Deadline` of the clock when it was chosen, and that a buy was mined at a second not
after it; the rest is arithmetic of the division by `MsPerSec`. `BuysWaitInLine`: the
nonces waiting in the pool are among those the account has used and no block had, and no
two are the same, since a buy is accepted exactly when its nonce is the account's
(`AccountStep`). `ChainNeverStuck` is the part of `BuysSettle` that is safety: while a
buy waits and the base fee is within the maximum, the next nonce is a buy's that may be
mined or the wallet's own, so that `Mine` has something to do.

**Pair cache** (`PairCacheProofs`), for any requests, lists of factories, TTLs and
configured hashes, and any clock: `TypeCorrect`, `AnswerIsTrueHolds`,
`NoFactoryOverlookedHolds`, and the refinement `ImplementsResolverHolds`. No step of the
proofs needs a reading to follow an earlier one; what only grows is `latest`. The
invariant has six parts, types first. `Cache`: the order is a list as in
`LruOrderProofs`. `Entries`: a cached pair is the one its key stands for and exists; a
cached miss runs out at most the negative TTL after `latest`, and after what that was
when its pair was made or a query for it last failed, if there is one. `Past`: none of
these dates is later than `latest`. `Turn`: nor is the beginning of the call; before a pair is reported it exists; before a
miss is cached, the pair was made, or a query for it failed, since the call began; for
the factories passed over the negative TTL is added to that. `Answers` carries both
properties over the moment of return, and with it through later calls and new pairs,
since an answer is judged by the time its call began. For the refinement, a step is one
of nine kinds (`Kinds`): one turn after the other leaves the list of the call as it is
(`TurnPlace`), a factory passed over is excused (`PassedExcused`, from `Turn`), a query
that fails is one about an element of the list, and each way to return is a reply. What
it says beyond the two invariants: "no pair" is not replied before the whole list was
gone through (the mutant `CachedMissEnds` passes both invariants).

**Hash streams** (`HashStreamsProofs`), for any pool, channel sizes and delays:

- `TypeCorrect`, with the truncation of the backoff kept below `DelayLimit`.
- `BackoffDoubles`, under two hypotheses. `DelaysDouble`: twice either configured delay
  fits the width, which the code does not check and any sensible configuration meets;
  without it the property is false (section 2). `StreakLongEnough`: the counter of the
  model goes on until the delay has reached the maximum; that is about a bound of the
  model, not the code. `PowerOf2` is a recursive function; that it exists and steps as
  written (`PowerOf2Def`) rests on `InductionOverSet`, induction stated of a set of
  numbers, which follows from `<` on the naturals being well-founded.
- `PollDeliversHead`. The invariant (`PushOrder`) says that what a poll has pushed comes
  before what it has left, and that the channel holds no more than it has pushed: as
  long as fewer than `TxpoolSize` come before a transaction there is room for it, and
  the receiver only makes more. This is the safety half of `HeadIsBackfilled`.

**Contract** (`SniperExecutorProofs`), for any set of calls, routers and accounts:
`TypeCorrect`, `NoStandingAllowanceHolds`, `ImplementsAtomicBuyHolds`,
`GuardedWhenBaseIsToken0`. The refinement hides a running transaction by showing `saved`
until it ends. Its invariant: `Approvals`, at most one router has an approval, only
while its transaction runs, and exactly `amountIn` before the swap, so that the swap
takes no more than that of the contract's base; `Asked`, the call is the owner's and
within the block guard; `Progress`, the balances at each `pc` as a function of `saved`,
so that at `Reset` they add up to `Buy`.

**Only model-checked**: liveness (`Resubscribes`, `HeadIsBackfilled`, `BuysSettle`,
`StreamsDrain`), since fairness and ENABLED are out of the prover's reach. Every safety
invariant and refinement that a passing run checks is a theorem.

## 6. Not modelled

The risk engine is a placeholder that passes every candidate. Parsing of configuration
and command line, the bytes of the ABI encoding, logging, the HTTP server of the metrics
and the connection of the providers have no behaviour the properties speak about.
`get_reserves` (`pair.rs`), `NonceManager::set` and `sync`, `encode_buy_v2`,
`encode_buy_solidly` and `BotState` have no caller in the program. The heads stream
reaches the orchestrator only to be logged; that it comes back is `Resubscribes`.
Reorganisations of the chain and eviction from the node's pool are outside the model,
and so is waiting for a buy to be mined, which the bot does not do. `HeadIsBackfilled`
is limited to as much of the pool as the channel holds: behind that, a full channel
drops.

The contract's reentrancy (a token or router that calls back into it) is not modelled:
only the owner could call, and the owner is a plain account. `SniperExecutor` takes the
owner's and others' transactions as coming between its own, which is how the chain runs
them.

## 7. State of the plan

All modules planned are written: the deduper, channel, detection, bot, pair cache and
streams first, then the transaction builder, the life of a buy and the contract, with
the proofs of section 5. What remains not modelled is listed in section 6 with its
reason. Of the properties of passing runs, the four of liveness are without a proof;
`ChainNeverStuck` and `PollDeliversHead` are the safety two of them rest on.
