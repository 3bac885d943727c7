----------------------------- MODULE DedupeCache -----------------------------
(***************************************************************************)
(* DedupeCache<K> (crates/core/src/dedupe.rs): the LRU cache of recently   *)
(* seen transaction hashes, each with the time its suppression window ends.*)
(***************************************************************************)
EXTENDS Naturals, LruOrder

CONSTANTS
  Keys,       \* the transaction hashes
  Capacity,   \* mempool.dedup_capacity
  TtlMs,      \* mempool.dedup_ttl_ms
  MaxMs       \* u64::MAX, where saturating_add stops

ASSUME DedupeAssumption ==
  /\ Capacity \in Nat
  /\ TtlMs \in Nat
  /\ MaxMs \in Nat

Times == 0 .. MaxMs

VARIABLES
  expiresAt,  \* the cached values: key -> end of its window, inclusive
  age         \* the cache's recency list, see LruOrder

dedupeVars == <<expiresAt, age>>

Cached == DOMAIN expiresAt

\* capacity.max(1)
Slots == IF Capacity = 0 THEN 1 ELSE Capacity

\* u64::saturating_add. (PlainAdd is a fault variant, as are the other
\* operators below that nothing in this module uses: see README, "Mutants".)
PlainAdd(a, b) == a + b
SaturatingAdd(a, b) == IF a + b > MaxMs THEN MaxMs ELSE a + b

\* The entry is there and its window is still open, the last millisecond
\* included.
LiveExclusive(k, now) == k \in Cached /\ now < expiresAt[k]
Live(k, now) == k \in Cached /\ now <= expiresAt[k]

Init ==
  /\ expiresAt = [k \in {} |-> 0]
  /\ age = NoAges

\* A sighting inside the window: the entry moves to the head of the list and
\* its window slides; the caller is told to drop the hash.
HitPeeking(k, now) ==
  /\ Live(k, now)
  /\ expiresAt' = [expiresAt EXCEPT ![k] = SaturatingAdd(now, TtlMs)]
  /\ UNCHANGED age
HitWithoutRefresh(k, now) ==
  /\ Live(k, now)
  /\ age' = Touched(age, k)
  /\ UNCHANGED expiresAt
Hit(k, now) ==
  /\ Live(k, now)
  /\ age' = Touched(age, k)
  /\ expiresAt' = [expiresAt EXCEPT ![k] = SaturatingAdd(now, TtlMs)]

\* A first sighting, or one after the window: the key is (re)inserted at the
\* head, the least recently used key making room, and the caller goes on.
InsertedWith(k, now, ages) ==
  /\ age' = ages
  /\ expiresAt' = [j \in DOMAIN ages |->
       IF j = k THEN SaturatingAdd(now, TtlMs) ELSE expiresAt[j]]
MissOverfull(k, now) ==
  ~Live(k, now) /\ InsertedWith(k, now, AfterPut(age, Slots + 1, k))
MissInPlace(k, now) ==
  ~Live(k, now) /\ InsertedWith(k, now,
    IF k \in Cached THEN age ELSE AfterPut(age, Slots, k))
Miss(k, now) ==
  ~Live(k, now) /\ InsertedWith(k, now, AfterPut(age, Slots, k))

\* check_and_update(k, now) returning `fresh`. The caller reads the clock, so
\* `now` is whatever SystemTime says: it may step back between two calls.
CheckAndUpdate(k, now, fresh) ==
  \/ fresh = FALSE /\ Hit(k, now)
  \/ fresh = TRUE  /\ Miss(k, now)

Next == \E k \in Keys, now \in Times, fresh \in BOOLEAN :
          CheckAndUpdate(k, now, fresh)

Spec == Init /\ [][Next]_dedupeVars
=============================================================================
