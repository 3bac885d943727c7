---------------------------- MODULE DedupeHistory ----------------------------
(***************************************************************************)
(* DedupeCache with the history its promise is about: when each key was    *)
(* last seen, which others were seen since, and what the last call         *)
(* answered. The history never restrains the cache; it is what lets the    *)
(* cache be compared with DedupeWindow.                                    *)
(***************************************************************************)
EXTENDS DedupeCache, FiniteSets

VARIABLES lastSeen, since, verdict

vars == <<expiresAt, age, lastSeen, since, verdict>>

Window == INSTANCE DedupeWindow

HInit == Init /\ Window!WindowInit

Sighting(k, now, fresh) ==
  /\ CheckAndUpdate(k, now, fresh)
  /\ Window!Sighted(k, now)

Call(k, now, fresh) ==
  /\ Sighting(k, now, fresh)
  /\ verdict' = [key |-> k, fresh |-> fresh]

HNext == \E k \in Keys, now \in Times, fresh \in BOOLEAN : Call(k, now, fresh)

HSpec == HInit /\ [][HNext]_vars
-----------------------------------------------------------------------------
(***************************************************************************)
(* Properties.                                                             *)
(***************************************************************************)

\* The cache and its history have the shapes the code gives them: the value
\* map and the recency list hold the same keys, all of them seen before.
TypeOK ==
  /\ DOMAIN age = Cached
  /\ Cached \subseteq Window!Seen
  /\ Window!Seen \subseteq Keys
  /\ \A k \in Cached : expiresAt[k] \in Times /\ age[k] \in Nat
  /\ \A k \in Window!Seen : lastSeen[k] \in Times
  /\ DOMAIN since = Window!Seen
  /\ \A k \in Window!Seen : since[k] \subseteq Window!Seen \ {k}

\* The list never holds more than dedup_capacity entries (one when it is 0),
\* whatever the order of hits, misses and expiries: LruCache::new(capacity).
WithinCapacity == IsFiniteSet(Cached) /\ Cardinality(Cached) <= Slots

\* An entry stays cached until Slots other hashes have been seen since its
\* last sighting, a hit on it counting as a sighting: no burst of fewer
\* hashes, and no order of them, makes check_and_update forget one.
EvictedOnlyBySlotsOthers ==
  \A k \in Window!Seen \ Cached : Cardinality(since[k]) >= Slots

\* The recency list is the order of the sightings: of two cached keys the one
\* in front is the one seen later, and its place counts the keys seen since.
ListIsRecency ==
  \A k \in Cached :
    /\ since[k] = {j \in Cached : age[j] < age[k]}
    /\ Cardinality(since[k]) = age[k]

\* check_and_update answers as DedupeWindow says it must, call for call: a
\* hash is dropped iff it was seen at most TtlMs ago (on any clock, one that
\* steps back included) and fewer than Slots others were seen since.
ImplementsWindow == Window!WindowSpec
=============================================================================
