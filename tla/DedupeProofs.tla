---------------------------- MODULE DedupeProofs ----------------------------
(***************************************************************************)
(* Proofs about the deduper for every Capacity, TtlMs and set of Keys: its *)
(* invariants, and that it implements DedupeWindow.                        *)
(***************************************************************************)
EXTENDS DedupeHistory, LruOrderProofs, FiniteSetTheorems

\* The window of every cached key ends TtlMs after its last sighting.
WindowEndsAreCurrent ==
  \A k \in Cached : expiresAt[k] = SaturatingAdd(lastSeen[k], TtlMs)

\* The inductive invariant. ListIsRecency ties the list to the history and
\* makes an eviction say how many keys were seen; places below Slots and
\* without ties bound the cache.
DedupeInv ==
  /\ TypeOK
  /\ IsList(age)
  /\ \A k \in Cached : age[k] < Slots
  /\ \A k \in Window!Seen : IsFiniteSet(since[k])
  /\ EvictedOnlyBySlotsOthers
  /\ ListIsRecency
  /\ WindowEndsAreCurrent

LEMMA SlotsPositive == Slots \in Nat \ {0}
BY DedupeAssumption DEF Slots

LEMMA SaturatingAddType ==
  ASSUME NEW a \in Times, NEW now \in Times
  PROVE  /\ SaturatingAdd(a, TtlMs) \in Times
         /\ now <= SaturatingAdd(a, TtlMs) <=> now <= a + TtlMs
BY DedupeAssumption DEF SaturatingAdd, Times

\* put keeps the other keys in their order.
LEMMA PutKeepsOrder ==
  ASSUME NEW a, IsList(a), NEW k, NEW i, NEW j,
         i \in DOMAIN AfterPut(a, Slots, k) \ {k},
         j \in DOMAIN AfterPut(a, Slots, k) \ {k}
  PROVE  AfterPut(a, Slots, k)[i] < AfterPut(a, Slots, k)[j] <=> a[i] < a[j]
<1> DEFINE new == AfterPut(a, Slots, k)
<1>1. i \in DOMAIN a /\ j \in DOMAIN a
  BY PutPlaces, SlotsPositive
<1>2. a[i] \in Nat /\ a[j] \in Nat
  BY <1>1 DEF IsList
<1>3. CASE k \in DOMAIN a
  <2>1. a[k] \in Nat /\ a[i] # a[k] /\ a[j] # a[k]
    BY <1>1, <1>3 DEF IsList
  <2>2. /\ new[i] = (IF a[k] < a[i] THEN a[i] ELSE a[i] + 1)
        /\ new[j] = (IF a[k] < a[j] THEN a[j] ELSE a[j] + 1)
    BY <1>3, PutPlaces, SlotsPositive
  <2> HIDE DEF new
  <2>3. new[i] < new[j] <=> a[i] < a[j]
    BY <1>2, <2>1, <2>2
  <2> QED
    BY <2>3 DEF new
<1>4. CASE k \notin DOMAIN a
  <2>1. new[i] = a[i] + 1 /\ new[j] = a[j] + 1
    BY <1>4, PutPlaces, SlotsPositive
  <2> HIDE DEF new
  <2>2. new[i] < new[j] <=> a[i] < a[j]
    BY <1>2, <2>1
  <2> QED
    BY <2>2 DEF new
<1> QED
  BY <1>3, <1>4

\* Whatever the answer, a call is a put of the key with a fresh window.
LEMMA CallIsPut ==
  ASSUME TypeOK, NEW k \in Keys, NEW now \in Times, NEW fresh \in BOOLEAN,
         CheckAndUpdate(k, now, fresh)
  PROVE  /\ age' = AfterPut(age, Slots, k)
         /\ DOMAIN expiresAt' = DOMAIN age'
         /\ \A j \in DOMAIN age' :
              expiresAt'[j] = IF j = k THEN SaturatingAdd(now, TtlMs)
                              ELSE expiresAt[j]
         /\ fresh = ~Live(k, now)
<1>1. CASE fresh = FALSE /\ Hit(k, now)
  <2>1. k \in DOMAIN age /\ DOMAIN age = DOMAIN expiresAt
    BY <1>1 DEF Hit, Live, TypeOK, Cached
  <2>2. age' = AfterPut(age, Slots, k) /\ DOMAIN age' = DOMAIN age
    BY <1>1, <2>1 DEF Hit, AfterPut, Touched
  <2> QED
    BY <1>1, <2>1, <2>2 DEF Hit
<1>2. CASE fresh = TRUE /\ Miss(k, now)
  <2>1. DOMAIN expiresAt' = DOMAIN AfterPut(age, Slots, k)
    BY <1>2 DEF Miss, InsertedWith
  <2> QED
    BY <1>2, <2>1 DEF Miss, InsertedWith
<1> QED
  BY <1>1, <1>2 DEF CheckAndUpdate

\* The instance brings a Cardinality of its own, which is the same operator.
LEMMA SameCardinality == \A S : Window!Cardinality(S) = Cardinality(S)
BY Zenon DEF Window!Cardinality, Cardinality

\* The promise's bookkeeping, in terms of the cache: a key is cached iff it
\* was seen and fewer than Slots others were seen since.
LEMMA CachedIffRecent ==
  ASSUME DedupeInv, NEW k \in Keys
  PROVE  k \in Cached <=> k \in Window!Seen /\ ~(Cardinality(since[k]) >= Slots)
<1>1. k \in Cached => k \in Window!Seen /\ Cardinality(since[k]) = age[k]
                      /\ age[k] \in Nat /\ age[k] < Slots
  BY DEF DedupeInv, TypeOK, ListIsRecency
<1>2. k \in Window!Seen \ Cached => Cardinality(since[k]) >= Slots
  BY DEF DedupeInv, EvictedOnlyBySlotsOthers
<1> QED
  BY <1>1, <1>2, SlotsPositive

\* The cache answers a call as the window does.
LEMMA AnswersAsWindow ==
  ASSUME DedupeInv, NEW k \in Keys, NEW now \in Times
  PROVE  ~Live(k, now) <=> Window!MustPass(k, now)
<1>1. k \in Cached =>
        (now <= expiresAt[k] <=> ~Window!Lapsed(k, now))
  <2>1. ASSUME k \in Cached
        PROVE  now <= expiresAt[k] <=> ~Window!Lapsed(k, now)
    <3>1. lastSeen[k] \in Times
      BY <2>1 DEF DedupeInv, TypeOK
    <3>2. expiresAt[k] = SaturatingAdd(lastSeen[k], TtlMs)
      BY <2>1 DEF DedupeInv, WindowEndsAreCurrent
    <3>3. now <= expiresAt[k] <=> now <= lastSeen[k] + TtlMs
      BY <3>1, <3>2, SaturatingAddType
    <3> QED
      BY <3>1, <3>3, DedupeAssumption DEF Window!Lapsed, Times
  <2> QED
    BY <2>1
<1>2. k \in Cached <=>
        k \in Window!Seen /\ ~(Cardinality(since[k]) >= Slots)
  BY CachedIffRecent
<1>3. Window!MustPass(k, now) <=>
        \/ k \notin Window!Seen
        \/ Window!Lapsed(k, now)
        \/ Cardinality(since[k]) >= Slots
  BY SameCardinality DEF Window!MustPass
<1> QED
  BY <1>1, <1>2, <1>3 DEF Live

LEMMA InitDedupeInv == HInit => DedupeInv
BY DedupeAssumption, SlotsPositive
   DEF HInit, Init, NoAges, Window!WindowInit, DedupeInv, TypeOK, Cached,
       Window!Seen, IsList, EvictedOnlyBySlotsOthers, ListIsRecency,
       WindowEndsAreCurrent

LEMMA SightingKeepsDedupeInv ==
  ASSUME DedupeInv, NEW k \in Keys, NEW now \in Times, NEW fresh \in BOOLEAN,
         Sighting(k, now, fresh)
  PROVE  DedupeInv'
<1>1. /\ age' = AfterPut(age, Slots, k)
      /\ DOMAIN expiresAt' = DOMAIN age'
      /\ \A j \in DOMAIN age' :
           expiresAt'[j] = IF j = k THEN SaturatingAdd(now, TtlMs)
                           ELSE expiresAt[j]
  BY CallIsPut DEF Sighting, DedupeInv
<1>2. /\ DOMAIN age = Cached
      /\ IsList(age)
      /\ \A i \in DOMAIN age : age[i] \in Nat /\ age[i] < Slots
  BY DEF DedupeInv, TypeOK
<1>3. /\ DOMAIN age' \subseteq Cached \cup {k}
      /\ k \in DOMAIN age'
      /\ age'[k] = 0
      /\ \A i \in DOMAIN age' \ {k} :
           /\ i \in Cached
           /\ age'[i] = IF k \in Cached /\ age[k] < age[i]
                        THEN age[i] ELSE age[i] + 1
      /\ \A i \in Cached \ DOMAIN age' : k \notin Cached /\ age[i] + 1 >= Slots
      /\ \A i \in DOMAIN age' \ {k}, j \in Cached :
           age[j] < age[i] => j \in DOMAIN age'
  BY <1>1, <1>2, PutPlaces, SlotsPositive
<1>4. IsList(age') /\ \A i \in DOMAIN age' : age'[i] < Slots
  BY <1>1, <1>2, PutIsList, SlotsPositive
<1>5. /\ Window!Seen' = Window!Seen \cup {k}
      /\ lastSeen'[k] = now
      /\ since'[k] = {}
      /\ \A j \in Window!Seen \ {k} :
           lastSeen'[j] = lastSeen[j] /\ since'[j] = since[j] \cup {k}
      /\ DOMAIN since' = Window!Seen \cup {k}
  BY DEF Sighting, Window!Sighted, Window!Seen
<1>6. /\ Cached' = DOMAIN age'
      /\ Cached \subseteq Window!Seen
      /\ Cached' \subseteq Window!Seen'
  BY <1>1, <1>3, <1>5 DEF Cached, DedupeInv, TypeOK
<1>7. \A j \in Window!Seen : IsFiniteSet(since[j])
  BY DEF DedupeInv
<1>8. TypeOK'
  <2>1. \A j \in Cached' : expiresAt'[j] \in Times
    BY <1>1, <1>3, <1>6, SaturatingAddType DEF DedupeInv, TypeOK
  <2>2. \A j \in Cached' : age'[j] \in Nat
    BY <1>4, <1>6 DEF IsList
  <2>3. \A j \in Window!Seen' : lastSeen'[j] \in Times
    BY <1>5 DEF DedupeInv, TypeOK
  <2>4. \A j \in Window!Seen' : since'[j] \subseteq Window!Seen' \ {j}
    BY <1>5 DEF DedupeInv, TypeOK
  <2>5. Window!Seen' \subseteq Keys
    BY <1>5 DEF DedupeInv, TypeOK
  <2> QED
    BY <1>5, <1>6, <2>1, <2>2, <2>3, <2>4, <2>5 DEF TypeOK
<1>9. \A j \in Window!Seen' : IsFiniteSet(since'[j])
  <2>1. IsFiniteSet(since'[k])
    BY <1>5, FS_EmptySet
  <2>2. ASSUME NEW j \in Window!Seen \ {k}
        PROVE  IsFiniteSet(since'[j])
    <3>1. IsFiniteSet(since[j] \cup {k})
      BY <1>7, <2>2, FS_AddElement
    <3>2. since'[j] = since[j] \cup {k}
      BY <1>5, <2>2
    <3> QED
      BY <3>1, <3>2
  <2> QED
    BY <1>5, <2>1, <2>2
<1>10. EvictedOnlyBySlotsOthers'
  <2>1. ASSUME NEW j \in Window!Seen' \ Cached'
        PROVE  Cardinality(since'[j]) >= Slots
    <3>1. j # k /\ j \in Window!Seen /\ since'[j] = since[j] \cup {k}
      BY <1>3, <1>5, <1>6, <2>1
    <3>2. /\ Cardinality(since[j]) \in Nat
          /\ Cardinality(since'[j]) =
               IF k \in since[j] THEN Cardinality(since[j])
               ELSE Cardinality(since[j]) + 1
      BY <1>7, <3>1, FS_AddElement, FS_CardinalityType
    <3>3. CASE j \notin Cached
      <4>1. Cardinality(since[j]) >= Slots
        BY <3>1, <3>3 DEF DedupeInv, EvictedOnlyBySlotsOthers
      <4> QED
        BY <3>2, <4>1, SlotsPositive
    <3>4. CASE j \in Cached
      <4>1. k \notin Cached /\ age[j] + 1 >= Slots
        BY <1>3, <1>6, <2>1, <3>4
      <4>2. since[j] \subseteq Cached /\ Cardinality(since[j]) = age[j]
        BY <3>4 DEF DedupeInv, ListIsRecency
      <4> QED
        BY <3>2, <4>1, <4>2
    <3> QED
      BY <3>3, <3>4
  <2> QED
    BY <2>1 DEF EvictedOnlyBySlotsOthers
<1>11. ListIsRecency'
  <2>1. since'[k] = {j \in Cached' : age'[j] < age'[k]}
        /\ Cardinality(since'[k]) = age'[k]
    <3>1. \A j \in Cached' : ~(age'[j] < 0)
      BY <1>4, <1>6 DEF IsList
    <3> QED
      BY <1>3, <1>5, <3>1, FS_EmptySet
  <2>2. ASSUME NEW j \in Cached', j # k
        PROVE  /\ since'[j] = {i \in Cached' : age'[i] < age'[j]}
               /\ Cardinality(since'[j]) = age'[j]
    <3>1. /\ j \in Cached /\ j \in DOMAIN age' \ {k} /\ j \in Window!Seen \ {k}
          /\ age[j] \in Nat
          /\ age'[j] = IF k \in Cached /\ age[k] < age[j]
                       THEN age[j] ELSE age[j] + 1
      BY <1>2, <1>3, <1>6, <2>2
    <3>2. since[j] = {i \in Cached : age[i] < age[j]}
          /\ Cardinality(since[j]) = age[j]
      BY <3>1 DEF DedupeInv, ListIsRecency
    <3>3. since'[j] = since[j] \cup {k}
      BY <1>5, <3>1
    <3>4. \A i \in DOMAIN age' \ {k} : age'[i] < age'[j] <=> age[i] < age[j]
      BY <1>1, <1>2, <3>1, PutKeepsOrder
    <3>5. age'[k] < age'[j]
      BY <1>3, <3>1, <1>2, <1>4, <1>6 DEF IsList
    <3>6. \A i \in since[j] \ {k} : i \in Cached' /\ age'[i] < age'[j]
      BY <1>3, <1>6, <3>1, <3>2, <3>4
    <3>7. \A i \in Cached' : age'[i] < age'[j] => i \in since[j] \cup {k}
      BY <1>3, <1>6, <3>2, <3>4
    <3>8. since'[j] = {i \in Cached' : age'[i] < age'[j]}
      BY <1>3, <1>6, <3>3, <3>5, <3>6, <3>7
    <3>9. k \in since[j] <=> k \in Cached /\ age[k] < age[j]
      BY <3>2
    <3>10. Cardinality(since'[j]) =
             IF k \in since[j] THEN Cardinality(since[j])
             ELSE Cardinality(since[j]) + 1
      BY <1>7, <3>1, <3>3, FS_AddElement
    <3> QED
      BY <3>1, <3>2, <3>8, <3>9, <3>10
  <2> QED
    BY <2>1, <2>2 DEF ListIsRecency
<1>12. WindowEndsAreCurrent'
  BY <1>1, <1>3, <1>5, <1>6 DEF DedupeInv, WindowEndsAreCurrent, SaturatingAdd
<1> QED
  BY <1>4, <1>6, <1>8, <1>9, <1>10, <1>11, <1>12 DEF DedupeInv, Slots

LEMMA StutterKeepsDedupeInv ==
  ASSUME DedupeInv, UNCHANGED <<expiresAt, age, lastSeen, since>>
  PROVE  DedupeInv'
BY DEF DedupeInv, TypeOK, Cached, Window!Seen, IsList, Slots,
       EvictedOnlyBySlotsOthers, ListIsRecency, WindowEndsAreCurrent,
       SaturatingAdd

\* DedupeInv holds in every reachable state, for every capacity, window and
\* clock: check_and_update preserves it whatever it answers.
THEOREM DedupeInvariant == HSpec => []DedupeInv
<1>1. DedupeInv /\ [HNext]_vars => DedupeInv'
  BY SightingKeepsDedupeInv, StutterKeepsDedupeInv DEF HNext, Call, vars
<1> QED
  BY InitDedupeInv, <1>1, PTL DEF HSpec

\* Value map, recency list and history always have the shapes TypeOK gives.
THEOREM TypeCorrect == HSpec => []TypeOK
<1>1. DedupeInv => TypeOK
  BY DEF DedupeInv
<1> QED
  BY DedupeInvariant, <1>1, PTL

\* The cache never exceeds its capacity: its places are distinct numbers
\* below Slots.
THEOREM CapacityRespected == HSpec => []WithinCapacity
<1>1. DedupeInv => WithinCapacity
  <2> SUFFICES ASSUME DedupeInv PROVE WithinCapacity
    OBVIOUS
  <2>1. age \in Injection(Cached, 0 .. Slots - 1)
    <3>1. DOMAIN age = Cached /\ IsList(age) /\ \A k \in Cached : age[k] < Slots
      BY DEF DedupeInv, TypeOK
    <3>2. age \in [Cached -> 0 .. Slots - 1]
      BY <3>1, SlotsPositive DEF IsList
    <3> QED
      BY <3>1, <3>2 DEF Injection, IsInjective, IsList
  <2>2. IsFiniteSet(0 .. Slots - 1) /\ Cardinality(0 .. Slots - 1) = Slots
    BY SlotsPositive, FS_Interval
  <2>3. IsFiniteSet(Cached) /\ Cardinality(Cached) <= Cardinality(0 .. Slots - 1)
    BY <2>1, <2>2, FS_Injection
  <2> QED
    BY <2>2, <2>3 DEF WithinCapacity
<1> QED
  BY DedupeInvariant, <1>1, PTL

\* No hash is forgotten before Slots others were seen since its last sighting.
THEOREM NoEarlyEviction == HSpec => []EvictedOnlyBySlotsOthers
<1>1. DedupeInv => EvictedOnlyBySlotsOthers
  BY DEF DedupeInv
<1> QED
  BY DedupeInvariant, <1>1, PTL

\* The recency list is the order of the sightings.
THEOREM RecencyIsExact == HSpec => []ListIsRecency
<1>1. DedupeInv => ListIsRecency
  BY DEF DedupeInv
<1> QED
  BY DedupeInvariant, <1>1, PTL

\* The cache implements the window: every call it answers is a call of
\* DedupeWindow with the same answer.
THEOREM CacheImplementsWindow == HSpec => ImplementsWindow
<1>1. HInit => Window!WindowInit
  BY DEF HInit
<1>2. DedupeInv /\ [HNext]_vars => [Window!WindowNext]_(Window!windowVars)
  <2> SUFFICES ASSUME DedupeInv, [HNext]_vars
               PROVE  [Window!WindowNext]_(Window!windowVars)
    OBVIOUS
  <2>1. ASSUME NEW k \in Keys, NEW now \in Times, NEW fresh \in BOOLEAN,
               Call(k, now, fresh)
        PROVE  Window!WindowCall(k, now)
    <3>1. fresh = ~Live(k, now)
      BY <2>1, CallIsPut DEF Call, Sighting, DedupeInv
    <3>2. fresh = Window!MustPass(k, now)
      BY <3>1, AnswersAsWindow, Zenon DEF Window!MustPass
    <3> QED
      BY <2>1, <3>2 DEF Call, Sighting, Window!WindowCall
  <2>2. CASE UNCHANGED vars
    BY <2>2 DEF vars, Window!windowVars
  <2> QED
    BY <2>1, <2>2 DEF HNext, Window!WindowNext, Times
<1> QED
  BY DedupeInvariant, <1>1, <1>2, PTL DEF HSpec, ImplementsWindow, Window!WindowSpec
=============================================================================
