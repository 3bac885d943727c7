------------------------------ MODULE PairCache ------------------------------
(***************************************************************************)
(* PairMetadataCache (crates/dex/src/pair_cache.rs): which pair two tokens *)
(* trade on, asked of a list of factories in order, with positive and      *)
(* negative answers cached for a while. resolve() awaits one node call     *)
(* after another; between two of them pairs are made. One caller at a time *)
(* uses the cache (&mut self).                                             *)
(*                                                                         *)
(* now_ms is the wall clock, which may be set back: whenever it is read it *)
(* shows any time, whatever it showed before.                              *)
(*                                                                         *)
(* The node answers truthfully about the chain or with an error. Addresses *)
(* and hashes are abstracted: a pair is known by its key, and the address  *)
(* CREATE2 derives is that of the pair iff the code hash is the factory's. *)
(***************************************************************************)
EXTENDS Integers, Sequences, FiniteSets, LruOrder

CONSTANTS
  Factories,
  Requests,      \* records [a, b, curve]: resolve's tokens and `stable`
  FactoryLists,  \* the lists resolve is called with, see Bot
  Configured,    \* dex.factory_pair_code_hashes: factory -> hash
  CacheCapacity, PositiveTtl, NegativeTtl,          \* dex.pair_cache_*
  CodeHashPositiveTtl, CodeHashNegativeTtl,  \* CODE_HASH_*_TTL_MS
  MaxNow,        \* bound: no reading of the clock is later
  MaxPairs,      \* bound: how many pairs are made
  None           \* Option::None

ASSUME PairCacheAssumption ==
  /\ CacheCapacity \in Nat /\ PositiveTtl \in Nat /\ NegativeTtl \in Nat
  /\ CodeHashPositiveTtl \in Nat /\ CodeHashNegativeTtl \in Nat
  /\ FactoryLists \subseteq Seq(Factories)
  /\ DOMAIN Configured \subseteq Factories
  /\ MaxNow \in Nat /\ MaxPairs \in Nat
  /\ None \notin Requests

VARIABLES
  entries, places,   \* the LruCache: key -> [value, expires], and its order
  codeHashes,        \* factory -> [value, expires]
  pc,                \* the call awaited, "next" at the loop head, or "idle"
  req, rest, start,  \* resolve's tokens, the factories left, its now_ms
  passed,            \* the factories whose turn is over, in order (history)
  codeHash, codeNow, \* locals of resolve_with_create2 and code_hash_for_factory
  answer,            \* what the last resolve returned, and for which call
  latest,            \* the latest now_ms a call was made at so far (history)
  visibleSince       \* pair that exists -> `latest` when it was made, or when
                     \* a query for it last failed (history)

cacheVars == <<entries, places>>
locals == <<req, rest, passed, start, codeHash, codeNow>>
vars == <<cacheVars, codeHashes, pc, locals, answer, latest, visibleSince>>

\* What now_ms may return.
Times == 0 .. MaxNow

\* PairKey::new: the tokens are sorted, so their order makes no difference.
KeyIgnoringCurve(f, r) == [factory |-> f, tokens |-> {r.a, r.b}]
KeyOf(f, r) == [factory |-> f, tokens |-> {r.a, r.b}, curve |-> r.curve]

\* The pair itself, as the factory knows it.
PairOf(f, r) == [factory |-> f, tokens |-> {r.a, r.b}, curve |-> r.curve]
Exists(f, r) == PairOf(f, r) \in DOMAIN visibleSince

\* Some(pair) is not None.
ASSUME PairAssumption == \A f \in Factories, r \in Requests : PairOf(f, r) # None

Slots == IF CacheCapacity = 0 THEN 1 ELSE CacheCapacity

RightHash == "right"   \* the factory's own init code hash

Never == MaxNow        \* u64::MAX: no reading of the clock is later

NoAnswer == [kind |-> "none yet", pair |-> None]

Init ==
  /\ entries = [k \in {} |-> None] /\ places = NoAges
  /\ codeHashes = [f \in DOMAIN Configured |->
                     [value |-> Configured[f], expires |-> Never]]
  /\ pc = "idle" /\ req = None /\ rest = <<>> /\ passed = <<>> /\ start = 0
  /\ codeHash = None /\ codeNow = 0
  /\ answer = NoAnswer
  /\ latest = 0 /\ visibleSince = [p \in {} |-> 0]

\* The factory of this turn of the loop.
This == Head(rest)
Key == KeyOf(This, req)

\* get_cached, when it has an answer: the entry moves to the head.
Fresh(k) == k \in DOMAIN entries /\ start <= entries[k].expires

\* LruCache::put of an entry for k.
Put(capacity, time, k, value, ttl) ==
  LET new == AfterPut(places, capacity, k) IN
  /\ places' = new
  /\ entries' = [j \in DOMAIN new |->
       IF j = k THEN [value |-> value, expires |-> time + ttl] ELSE entries[j]]

\* insert_cached, with the time resolve was called.
InsertedOverfull(k, value, ttl) == Put(Slots + 1, start, k, value, ttl)
InsertedLate(k, value, ttl) == \E time \in Times : Put(Slots, time, k, value, ttl)
Inserted(k, value, ttl) == Put(Slots, start, k, value, ttl)

\* resolve returns; its locals are gone.
Return(result) ==
  /\ answer' = result
  /\ pc' = "idle" /\ req' = None /\ rest' = <<>> /\ passed' = <<>> /\ start' = 0
  /\ codeHash' = None /\ codeNow' = 0

\* Ok(pair) or Ok(None), with what the call was about (history).
Ok(kind, pair) ==
  Return([kind |-> kind, pair |-> pair, req |-> req, rest |-> rest,
          start |-> start, passed |-> passed])

\* On to the next factory.
Skip ==
  /\ pc' = "next" /\ rest' = Tail(rest) /\ passed' = Append(passed, This)
  /\ codeHash' = None /\ codeNow' = 0
  /\ UNCHANGED <<req, start, answer>>

\* This factory has no pair, as far as the node would say: that is cached.
Miss == Inserted(Key, None, NegativeTtl) /\ Skip

Hit == Inserted(Key, PairOf(This, req), PositiveTtl)
       /\ Ok("pair", PairOf(This, req))

Fail == Return([kind |-> "error", pair |-> None]) /\ UNCHANGED cacheVars

\* A query about this factory's pair failed, whether or not there is one.
Failed == visibleSince' = [p \in DOMAIN visibleSince |->
                             IF p = PairOf(This, req) THEN latest ELSE visibleSince[p]]
-----------------------------------------------------------------------------
Resolve(r, list, time) ==
  /\ pc = "idle"
  /\ pc' = "next" /\ req' = r /\ rest' = list /\ start' = time
  /\ answer' = NoAnswer
  /\ latest' = IF time > latest THEN time ELSE latest
  /\ UNCHANGED <<cacheVars, codeHashes, passed, codeHash, codeNow, visibleSince>>

\* Every factory was asked, or known to have no pair: Ok(None).
Exhausted ==
  /\ pc = "next" /\ rest = <<>>
  /\ Ok("none", None)
  /\ UNCHANGED <<cacheVars, codeHashes, latest, visibleSince>>

\* A cached pair ends the search, a cached miss only this factory's turn.
CachedMissEnds ==
  /\ pc = "next" /\ rest # <<>> /\ Fresh(Key)
  /\ places' = Touched(places, Key) /\ UNCHANGED entries
  /\ IF entries[Key].value # None THEN Ok("pair", entries[Key].value)
     ELSE Ok("none", None)
  /\ UNCHANGED <<codeHashes, latest, visibleSince>>
Cached ==
  /\ pc = "next" /\ rest # <<>> /\ Fresh(Key)
  /\ places' = Touched(places, Key) /\ UNCHANGED entries
  /\ IF entries[Key].value # None THEN Ok("pair", entries[Key].value) ELSE Skip
  /\ UNCHANGED <<codeHashes, latest, visibleSince>>

\* Nothing cached, or no longer valid (and then popped): getPair is called.
Uncached ==
  /\ pc = "next" /\ rest # <<>> /\ ~Fresh(Key)
  /\ places' = AfterPop(places, Key)
  /\ entries' = [k \in DOMAIN entries \ {Key} |-> entries[k]]
  /\ pc' = "getPair"
  /\ UNCHANGED <<codeHashes, locals, answer, latest, visibleSince>>

GetPairFound ==
  /\ pc = "getPair" /\ Exists(This, req)
  /\ pc' = "tokens"
  /\ UNCHANGED <<cacheVars, codeHashes, locals, answer, latest, visibleSince>>

\* The code hash is known (or known to be unavailable) for now.
HashFresh(time) == This \in DOMAIN codeHashes /\ time <= codeHashes[This].expires

\* resolve_with_create2 up to its first call: without a valid entry the code
\* hash is asked for, with one the derived address is probed at once. The clock
\* is read again.
TryCreate2At(time) ==
  IF ~HashFresh(time)
    THEN /\ pc' = "pairCodeHash" /\ codeNow' = time
         /\ UNCHANGED <<cacheVars, req, rest, passed, start, codeHash, answer>>
  ELSE IF codeHashes[This].value = None THEN Miss
  ELSE /\ pc' = "exists" /\ codeHash' = codeHashes[This].value
       /\ UNCHANGED <<cacheVars, req, rest, passed, start, codeNow, answer>>
TryCreate2 == \E time \in Times : TryCreate2At(time)

\* getPair answers the zero address.
GetPairZero ==
  /\ pc = "getPair" /\ ~Exists(This, req)
  /\ TryCreate2
  /\ UNCHANGED <<codeHashes, latest, visibleSince>>

\* getPair fails: the address is derived instead.
GetPairFails ==
  /\ pc = "getPair"
  /\ Failed
  /\ TryCreate2
  /\ UNCHANGED <<codeHashes, latest>>

\* What code_hash_for_factory caches, counted from before the calls.
Learnt(h) ==
  codeHashes' = [f \in DOMAIN codeHashes \cup {This} |->
    IF f # This THEN codeHashes[f]
    ELSE [value |-> h, expires |-> codeNow +
            (IF h = None THEN CodeHashNegativeTtl ELSE CodeHashPositiveTtl)]]

\* One of the factory's two getters answers with its code hash; the second is
\* tried when the first fails; when both do, that is cached as well.
CodeHashAnswer(getter) ==
  /\ pc = getter
  /\ Learnt(RightHash)
  /\ pc' = "exists" /\ codeHash' = RightHash /\ codeNow' = 0
  /\ UNCHANGED <<cacheVars, req, rest, passed, start, answer, latest, visibleSince>>
PairCodeHashFails ==
  /\ pc = "pairCodeHash" /\ pc' = "initCodeHash"
  /\ UNCHANGED <<cacheVars, codeHashes, locals, answer, latest, visibleSince>>
NoCodeHash ==
  /\ pc = "initCodeHash"
  /\ Learnt(None)
  /\ Miss
  /\ UNCHANGED <<latest, visibleSince>>

\* contract_exists: code at the derived address, or not, or an error.
DerivedExists ==
  /\ pc = "exists" /\ codeHash = RightHash /\ Exists(This, req)
  /\ pc' = "derivedTokens"
  /\ UNCHANGED <<cacheVars, codeHashes, locals, answer, latest, visibleSince>>
DerivedMissing ==
  /\ pc = "exists" /\ ~(codeHash = RightHash /\ Exists(This, req))
  /\ Miss
  /\ UNCHANGED <<codeHashes, latest, visibleSince>>
ExistsFails ==
  /\ pc = "exists"
  /\ Failed /\ Fail
  /\ UNCHANGED <<codeHashes, latest>>

\* The derived pair's tokens are the two asked for, or are not to be had.
DerivedConfirmed ==
  /\ pc = "derivedTokens"
  /\ Hit
  /\ UNCHANGED <<codeHashes, latest, visibleSince>>
DerivedRefused ==
  /\ pc = "derivedTokens"
  /\ Failed /\ Miss
  /\ UNCHANGED <<codeHashes, latest>>

\* The tokens of the pair getPair named: both, one missing, or an error.
TokensOk ==
  /\ pc = "tokens"
  /\ Hit
  /\ UNCHANGED <<codeHashes, latest, visibleSince>>
TokensZero ==
  /\ pc = "tokens"
  /\ Failed /\ Miss
  /\ UNCHANGED <<codeHashes, latest>>
TokensFail ==
  /\ pc = "tokens"
  /\ Failed /\ Fail
  /\ UNCHANGED <<codeHashes, latest>>

\* The world.
CreatePair(f, r) ==
  /\ ~Exists(f, r) /\ Cardinality(DOMAIN visibleSince) < MaxPairs
  /\ visibleSince' = [p \in DOMAIN visibleSince \cup {PairOf(f, r)} |->
       IF p = PairOf(f, r) THEN latest ELSE visibleSince[p]]
  /\ UNCHANGED <<cacheVars, codeHashes, pc, locals, answer, latest>>

Next ==
  \/ \E r \in Requests, list \in FactoryLists, time \in Times : Resolve(r, list, time)
  \/ Exhausted \/ Cached \/ Uncached
  \/ GetPairFound \/ GetPairZero \/ GetPairFails
  \/ \E getter \in {"pairCodeHash", "initCodeHash"} : CodeHashAnswer(getter)
  \/ PairCodeHashFails \/ NoCodeHash
  \/ DerivedExists \/ DerivedMissing \/ ExistsFails
  \/ DerivedConfirmed \/ DerivedRefused
  \/ TokensOk \/ TokensZero \/ TokensFail
  \/ \E f \in Factories, r \in Requests : CreatePair(f, r)

Spec == Init /\ [][Next]_vars
-----------------------------------------------------------------------------
(***************************************************************************)
(* Properties.                                                             *)
(***************************************************************************)

Keys == {KeyOf(f, r) : f \in Factories, r \in Requests}
Pairs == {PairOf(f, r) : f \in Factories, r \in Requests}

TypeOK ==
  /\ DOMAIN entries \subseteq Keys /\ DOMAIN places = DOMAIN entries
  /\ Cardinality(DOMAIN entries) <= Slots
  /\ \A k \in DOMAIN entries :
       entries[k].value \in Pairs \cup {None} /\ entries[k].expires \in Nat
  /\ DOMAIN codeHashes \subseteq Factories
  /\ \A f \in DOMAIN codeHashes : codeHashes[f].expires \in Nat
  /\ pc \in {"idle", "next", "getPair", "pairCodeHash", "initCodeHash", "exists",
             "derivedTokens", "tokens"}
  /\ pc # "idle" <=> req \in Requests
  /\ rest \in Seq(Factories) /\ passed \in Seq(Factories)
  /\ pc \notin {"idle", "next"} => rest # <<>>
  /\ {start, codeNow, latest} \subseteq Nat
  /\ DOMAIN visibleSince \subseteq Pairs

\* A pair that resolve returns is of the tokens and the curve asked for, is one
\* of the factory whose turn it was, and exists: whatever was cached by other
\* calls, evicted or expired, an answer is never another request's.
AnswerIsTrue ==
  answer.kind = "pair" =>
    /\ answer.pair \in DOMAIN visibleSince
    /\ answer.pair = PairOf(Head(answer.rest), answer.req)

\* "Negative cache TTL keeps new pools discoverable" (docs/architecture.md). Let
\* L be the latest time any call was made at before a pair was made, or before
\* a query for it last failed: no call made later than L + NegativeTtl passes
\* over the pair's factory, however long the calls about it took and wherever
\* the clock was set in between. As long as the clock is not set back, L is no
\* later than the pair itself, so no pair older than NegativeTtl is passed over.
Overlooks(f) ==
  /\ Exists(f, answer.req)
  /\ answer.start > visibleSince[PairOf(f, answer.req)] + NegativeTtl
NoFactoryOverlooked ==
  answer.kind \in {"pair", "none"} =>
    \A i \in DOMAIN answer.passed : ~Overlooks(answer.passed[i])

\* resolve answers as Resolver does, which has no cache, in the order of the
\* list: the first factory of the whole list whose pair it cannot be excused
\* from finding decides, and no earlier miss ends the search.
Abstract == INSTANCE Resolver WITH
  call <- [req |-> req, list |-> passed \o rest, start |-> start],
  reply <- [kind |-> answer.kind, pair |-> answer.pair]
ImplementsResolver == Abstract!Spec
=============================================================================
