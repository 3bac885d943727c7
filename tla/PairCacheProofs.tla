--------------------------- MODULE PairCacheProofs ---------------------------
(***************************************************************************)
(* Theorems about PairCache, for every list of factories, configured code  *)
(* hash, capacity and lifetime, whatever the node fails to answer and      *)
(* whatever the clock shows.                                               *)
(***************************************************************************)
EXTENDS PairCache, LruOrderProofs, FiniteSetTheorems

\* The recency list has exactly the cached keys, on places below the capacity.
Cache ==
  /\ DOMAIN places = DOMAIN entries /\ IsList(places)
  /\ \A k \in DOMAIN places : places[k] < Slots

\* A cached pair exists. A cached miss expires within NegativeTtl of the latest
\* time a call was made at, and if its pair exists nevertheless, of the latest
\* before that was made or last asked for in vain.
Sound(k) ==
  \/ entries[k].value = k /\ k \in DOMAIN visibleSince
  \/ /\ entries[k].value = None
     /\ entries[k].expires <= latest + NegativeTtl
     /\ k \in DOMAIN visibleSince =>
          entries[k].expires <= visibleSince[k] + NegativeTtl

Entries == \A k \in DOMAIN entries : Sound(k)

Past == \A p \in DOMAIN visibleSince :
          visibleSince[p] \in Nat /\ visibleSince[p] <= latest

\* What a call of resolve knows about the factory whose turn it is, and about
\* those it passed over: until the code hash and the derived address are known,
\* a pair that exists was made, or asked for in vain, since the call began.
AskedSince == Exists(This, req) => start <= visibleSince[Key]
Turn ==
  /\ pc = "idle" => passed = <<>> /\ req = None
  /\ pc # "idle" => start <= latest
  /\ pc \in {"tokens", "derivedTokens"} => Exists(This, req)
  /\ pc \in {"pairCodeHash", "initCodeHash", "exists"} => AskedSince
  /\ pc # "idle" => \A i \in DOMAIN passed :
       Exists(passed[i], req) =>
         start <= visibleSince[PairOf(passed[i], req)] + NegativeTtl

Answers ==
  /\ AnswerIsTrue /\ NoFactoryOverlooked
  /\ answer.kind \in {"pair", "none"} =>
       answer.start \in Nat /\ answer.start <= latest

IInv == TypeOK /\ Cache /\ Entries /\ Past /\ Turn /\ Answers
-----------------------------------------------------------------------------
(***************************************************************************)
(* The cache.                                                              *)
(***************************************************************************)

LEMMA SlotsPositive == Slots \in Nat \ {0}
  BY PairCacheAssumption DEF Slots

LEMMA CacheInserted ==
  ASSUME Cache, NEW k, NEW value, NEW ttl, Inserted(k, value, ttl)
  PROVE  /\ Cache'
         /\ \A j \in DOMAIN entries' :
              \/ j \in DOMAIN entries /\ entries'[j] = entries[j]
              \/ j = k /\ entries'[j] = [value |-> value, expires |-> start + ttl]
<1> DEFINE new == AfterPut(places, Slots, k)
<1>1. IsList(places) /\ \A i \in DOMAIN places : places[i] < Slots
  BY DEF Cache
<1>2. places' = new /\ DOMAIN entries' = DOMAIN new
  BY DEF Inserted, Put
<1>3. IsList(new) /\ \A i \in DOMAIN new : new[i] < Slots
  BY <1>1, SlotsPositive, PutIsList
<1>4. DOMAIN new \subseteq DOMAIN places \cup {k}
  BY <1>1, SlotsPositive, PutPlaces
<1>5. \A j \in DOMAIN entries' :
        /\ j # k => entries'[j] = entries[j]
        /\ j = k => entries'[j] = [value |-> value, expires |-> start + ttl]
  BY DEF Inserted, Put
<1>6. Cache'
  BY <1>2, <1>3 DEF Cache, Slots
<1> QED
  BY <1>2, <1>4, <1>5, <1>6 DEF Cache

LEMMA CacheTouched ==
  ASSUME Cache, NEW k \in DOMAIN entries, places' = Touched(places, k),
         entries' = entries
  PROVE  Cache'
<1>1. AfterPut(places, Slots, k) = Touched(places, k)
  BY DEF AfterPut, Cache
<1>2. IsList(Touched(places, k)) /\ \A i \in DOMAIN places : Touched(places, k)[i] < Slots
  <2>1. DOMAIN Touched(places, k) = DOMAIN places
    BY DEF Touched
  <2> QED
    BY <1>1, <2>1, SlotsPositive, PutIsList DEF Cache
<1>3. DOMAIN places' = DOMAIN places
  BY DEF Touched
<1> QED
  BY <1>2, <1>3 DEF Cache, Slots

LEMMA CachePopped ==
  ASSUME Cache, NEW k, places' = AfterPop(places, k),
         entries' = [j \in DOMAIN entries \ {k} |-> entries[j]]
  PROVE  Cache'
<1>1. LET new == AfterPop(places, k) IN
        /\ DOMAIN new = DOMAIN places \ {k}
        /\ IsList(new)
        /\ \A i \in DOMAIN new : new[i] < Slots
  BY SlotsPositive, PopIsList DEF Cache
<1> QED
  BY <1>1 DEF Cache, Slots

\* The cache holds no more entries than it has places.
LEMMA CacheBounded == Cache => Cardinality(DOMAIN entries) <= Slots
<1> SUFFICES ASSUME Cache PROVE Cardinality(DOMAIN entries) <= Slots
  OBVIOUS
<1>1. places \in [DOMAIN entries -> 0 .. Slots - 1]
  BY SlotsPositive DEF Cache, IsList
<1>2. places \in Injection(DOMAIN entries, 0 .. Slots - 1)
  BY <1>1 DEF Cache, IsList, Injection, IsInjective
<1>3. IsFiniteSet(0 .. Slots - 1) /\ Cardinality(0 .. Slots - 1) = Slots
  BY SlotsPositive, FS_Interval
<1> QED
  BY <1>2, <1>3, FS_Injection
-----------------------------------------------------------------------------
(***************************************************************************)
(* The kinds of steps, as far as the properties are concerned.             *)
(***************************************************************************)

Undisturbed == UNCHANGED <<latest, visibleSince>>
Asked == UNCHANGED latest /\ (visibleSince' = visibleSince \/ Failed)

InTurn == pc \notin {"idle", "next"}

Missed == InTurn /\ Miss /\ Asked /\ (Exists(This, req) => start <= visibleSince'[Key])
Found == InTurn /\ Hit /\ Undisturbed /\ Exists(This, req)
GaveUp == InTurn /\ Fail /\ Asked /\ Failed

\* On to the next call about the same factory.
Called ==
  /\ InTurn /\ Asked /\ UNCHANGED <<cacheVars, req, rest, passed, start, answer>>
  /\ codeNow' \in Nat
  /\ pc' \in {"getPair", "pairCodeHash", "initCodeHash", "exists",
             "derivedTokens", "tokens"}
  /\ pc' \in {"tokens", "derivedTokens"} => Exists(This, req)
  /\ pc' \in {"pairCodeHash", "initCodeHash", "exists"} /\ Exists(This, req) =>
       start <= visibleSince'[Key]

ResolveStep == \E r \in Requests, list \in FactoryLists, time \in Times : Resolve(r, list, time)
CreateStep == \E f \in Factories, r \in Requests : CreatePair(f, r)

\* While a turn lasts there is a factory whose turn it is.
LEMMA TurnType ==
  ASSUME TypeOK, pc # "idle", rest # <<>>
  PROVE  /\ This \in Factories /\ req \in Requests /\ Key \in Keys
         /\ Key = PairOf(This, req) /\ Key \in Pairs /\ Key # None
         /\ Tail(rest) \in Seq(Factories) /\ start \in Nat /\ latest \in Nat
<1>1. This \in Factories /\ Tail(rest) \in Seq(Factories)
  BY DEF TypeOK, This
<1>2. req \in Requests /\ start \in Nat /\ latest \in Nat
  BY DEF TypeOK
<1>3. Key = PairOf(This, req)
  BY DEF Key, KeyOf, PairOf
<1> QED
  BY <1>1, <1>2, <1>3, PairAssumption DEF Key, Keys, Pairs

\* A query that failed is as good as a pair made now.
LEMMA FailedSince ==
  ASSUME TypeOK, Turn, pc # "idle", rest # <<>>, Failed, Exists(This, req)
  PROVE  start <= visibleSince'[Key]
<1>1. visibleSince'[PairOf(This, req)] = latest
  BY DEF Failed, Exists
<1> QED
  BY <1>1, TurnType DEF Turn

LEMMA Create2Step ==
  ASSUME TypeOK, pc = "getPair", TryCreate2, Asked,
         Exists(This, req) => start <= visibleSince'[Key]
  PROVE  Missed \/ Called
<1>1. InTurn
  BY DEF InTurn
<1> PICK time \in Times : TryCreate2At(time)
  BY DEF TryCreate2
<1>0. time \in Nat /\ codeNow \in Nat
  BY PairCacheAssumption DEF Times, TypeOK
<1>2. CASE ~HashFresh(time)
  BY <1>0, <1>1, <1>2 DEF TryCreate2At, Called, cacheVars
<1>3. CASE HashFresh(time) /\ codeHashes[This].value = None
  BY <1>1, <1>3 DEF TryCreate2At, Missed
<1>4. CASE HashFresh(time) /\ ~(codeHashes[This].value = None)
  BY <1>0, <1>1, <1>4 DEF TryCreate2At, Called, cacheVars
<1> QED
  BY <1>2, <1>3, <1>4

LEMMA Kinds ==
  ASSUME TypeOK, Turn, Next
  PROVE  \/ ResolveStep \/ Exhausted \/ Cached \/ Uncached
         \/ Missed \/ Found \/ GaveUp \/ Called
         \/ CreateStep
<1>0. codeNow \in Nat
  BY DEF TypeOK
<1>1. InTurn => pc # "idle" /\ rest # <<>>
  BY DEF InTurn, TypeOK
<1>2. CASE GetPairFound
  BY <1>0, <1>2 DEF GetPairFound, Called, InTurn, Asked, locals
<1>3. CASE GetPairZero
  BY <1>3, Create2Step DEF GetPairZero, Asked
<1>4. CASE GetPairFails
  <2>1. Asked /\ InTurn
    BY <1>4 DEF GetPairFails, Asked, InTurn
  <2>2. Exists(This, req) => start <= visibleSince'[Key]
    BY <1>1, <1>4, <2>1, FailedSince DEF GetPairFails
  <2> QED
    BY <1>4, <2>1, <2>2, Create2Step DEF GetPairFails
<1>5. CASE PairCodeHashFails
  BY <1>0, <1>5 DEF PairCodeHashFails, Called, InTurn, Asked, locals, Turn, AskedSince
<1>6. ASSUME NEW getter \in {"pairCodeHash", "initCodeHash"}, CodeHashAnswer(getter)
      PROVE  Called
  BY <1>6 DEF CodeHashAnswer, Called, InTurn, Asked, Turn, AskedSince
<1>7. CASE NoCodeHash
  BY <1>7 DEF NoCodeHash, Missed, InTurn, Asked, Turn, AskedSince
<1>8. CASE DerivedExists
  BY <1>0, <1>8 DEF DerivedExists, Called, InTurn, Asked, locals
<1>9. CASE DerivedMissing
  BY <1>9 DEF DerivedMissing, Missed, InTurn, Asked, Turn, AskedSince
<1>10. CASE ExistsFails \/ TokensFail
  BY <1>10 DEF ExistsFails, TokensFail, GaveUp, InTurn, Asked
<1>11. CASE DerivedConfirmed \/ TokensOk
  BY <1>11 DEF DerivedConfirmed, TokensOk, Found, InTurn, Undisturbed, Turn
<1>12. CASE DerivedRefused \/ TokensZero
  <2>1. InTurn /\ Miss /\ Failed /\ latest' = latest
    BY <1>12 DEF DerivedRefused, TokensZero, InTurn
  <2>2. Exists(This, req) => start <= visibleSince'[Key]
    BY <1>1, <2>1, FailedSince
  <2> QED
    BY <2>1, <2>2 DEF Missed, Asked
<1> QED
  BY <1>2, <1>3, <1>4, <1>5, <1>6, <1>7, <1>8, <1>9, <1>10, <1>11, <1>12
  DEF Next, ResolveStep, CreateStep

\* A pair that is made, or asked for in vain, is no older than any call so far.
Later ==
  /\ latest' \in Nat /\ latest <= latest'
  /\ DOMAIN visibleSince \subseteq DOMAIN visibleSince'
  /\ DOMAIN visibleSince' \subseteq Pairs
  /\ \A p \in DOMAIN visibleSince' :
       visibleSince'[p] \in Nat /\ visibleSince'[p] <= latest'
  /\ \A p \in DOMAIN visibleSince : visibleSince[p] <= visibleSince'[p]
  /\ \A p \in DOMAIN visibleSince' \ DOMAIN visibleSince : visibleSince'[p] = latest

LEMMA AskedLater == ASSUME TypeOK, Past, Asked PROVE Later
<1>1. latest \in Nat /\ DOMAIN visibleSince \subseteq Pairs
  BY DEF TypeOK
<1>2. CASE visibleSince' = visibleSince
  BY <1>1, <1>2 DEF Asked, Later, Past
<1>3. CASE Failed
  BY <1>1, <1>3 DEF Asked, Failed, Later, Past
<1> QED
  BY <1>2, <1>3 DEF Asked

LEMMA LaterStep == ASSUME TypeOK, Turn, Past, [Next]_vars PROVE Later
<1>1. CASE Undisturbed \/ Asked
  BY <1>1, AskedLater DEF Undisturbed, Asked
<1>2. CASE Exhausted \/ Cached \/ Uncached
  BY <1>1, <1>2 DEF Exhausted, Cached, Uncached, Undisturbed
<1>3. CASE Missed \/ Found \/ GaveUp \/ Called
  BY <1>1, <1>3 DEF Missed, Found, GaveUp, Called
<1>4. CASE ResolveStep
  <2>1. PICK r \in Requests, list \in FactoryLists, time \in Times : Resolve(r, list, time)
    BY <1>4 DEF ResolveStep
  <2>2. time \in Nat /\ latest \in Nat
    BY PairCacheAssumption DEF Times, TypeOK
  <2>3. latest' \in Nat /\ latest <= latest' /\ visibleSince' = visibleSince
    BY <2>1, <2>2 DEF Resolve
  <2>4. \A p \in DOMAIN visibleSince :
          visibleSince[p] \in Nat /\ visibleSince[p] <= latest'
    BY <2>2, <2>3 DEF Past
  <2> QED
    BY <2>3, <2>4 DEF Later, TypeOK
<1>5. CASE CreateStep
  <2>1. PICK f \in Factories, r \in Requests : CreatePair(f, r)
    BY <1>5 DEF CreateStep
  <2>2. PairOf(f, r) \in Pairs /\ latest \in Nat /\ latest' = latest
    BY <2>1 DEF Pairs, TypeOK, CreatePair
  <2>3. DOMAIN visibleSince' = DOMAIN visibleSince \cup {PairOf(f, r)}
    BY <2>1 DEF CreatePair
  <2>4. \A p \in DOMAIN visibleSince' :
          visibleSince'[p] = IF p = PairOf(f, r) THEN latest ELSE visibleSince[p]
    BY <2>1 DEF CreatePair
  <2>5. PairOf(f, r) \notin DOMAIN visibleSince
    BY <2>1 DEF CreatePair, Exists
  <2>6. DOMAIN visibleSince \subseteq Pairs
    BY DEF TypeOK
  <2> QED
    BY <2>2, <2>3, <2>4, <2>5, <2>6 DEF Later, Past
<1>6. CASE UNCHANGED vars
  BY <1>1, <1>6 DEF vars, Undisturbed
<1> QED
  BY <1>2, <1>3, <1>4, <1>5, <1>6, Kinds

\* What a step may do to an entry.
Kept(k) == k \in DOMAIN entries /\ entries'[k] = entries[k]
NowMissed(k) ==
  /\ Missed /\ k = Key
  /\ entries'[k] = [value |-> None, expires |-> start + NegativeTtl]
NowFound(k) ==
  /\ Found /\ k = Key
  /\ entries'[k] = [value |-> PairOf(This, req), expires |-> start + PositiveTtl]

LEMMA EntriesStep ==
  ASSUME TypeOK, Turn, Cache, [Next]_vars
  PROVE  /\ Cache'
         /\ \A k \in DOMAIN entries' : Kept(k) \/ NowMissed(k) \/ NowFound(k)
<1>1. CASE UNCHANGED cacheVars
  BY <1>1 DEF cacheVars, Cache, Kept, Slots
<1>2. CASE ResolveStep \/ Exhausted \/ GaveUp \/ Called \/ CreateStep
  BY <1>1, <1>2 DEF ResolveStep, Resolve, Exhausted, GaveUp, Fail, Called,
                    CreateStep, CreatePair, cacheVars
<1>3. CASE Cached
  <2>1. Key \in DOMAIN entries /\ places' = Touched(places, Key) /\ entries' = entries
    BY <1>3 DEF Cached, Fresh
  <2> QED
    BY <2>1, CacheTouched DEF Kept
<1>4. CASE Uncached
  <2>1. /\ places' = AfterPop(places, Key)
        /\ entries' = [j \in DOMAIN entries \ {Key} |-> entries[j]]
    BY <1>4 DEF Uncached
  <2> QED
    BY <2>1, CachePopped DEF Kept
<1>5. CASE Missed
  <2>1. Inserted(Key, None, NegativeTtl)
    BY <1>5 DEF Missed, Miss
  <2> QED
    BY <1>5, <2>1, CacheInserted DEF Kept, NowMissed
<1>6. CASE Found
  <2>1. Inserted(Key, PairOf(This, req), PositiveTtl)
    BY <1>6 DEF Found, Hit
  <2> QED
    BY <1>6, <2>1, CacheInserted DEF Kept, NowFound
<1>7. CASE UNCHANGED vars
  BY <1>1, <1>7 DEF vars
<1> QED
  BY <1>2, <1>3, <1>4, <1>5, <1>6, <1>7, Kinds
-----------------------------------------------------------------------------
(***************************************************************************)
(* Type correctness.                                                       *)
(***************************************************************************)

LEMMA InitIInv == Init => IInv
<1> SUFFICES ASSUME Init PROVE IInv
  OBVIOUS
<1>1. DOMAIN entries = {} /\ DOMAIN places = {} /\ DOMAIN visibleSince = {}
  BY DEF Init, NoAges
<1>2. Cache
  <2>1. places = [k \in {} |-> 0]
    BY DEF Init, NoAges
  <2>2. IsList(places)
    BY <2>1 DEF IsList
  <2> QED
    BY <1>1, <2>2 DEF Cache
<1>3. Entries /\ Past /\ Turn
  BY <1>1 DEF Init, Entries, Past, Turn
<1>4. Answers
  BY DEF Init, NoAnswer, Answers, AnswerIsTrue, NoFactoryOverlooked
<1>5. TypeOK
  <2>1. /\ DOMAIN codeHashes = DOMAIN Configured
        /\ \A f \in DOMAIN codeHashes : codeHashes[f].expires = MaxNow
    BY DEF Init, Never
  <2>2. Cardinality(DOMAIN entries) <= Slots
    BY <1>2, CacheBounded
  <2> QED
    BY <1>1, <2>1, <2>2, PairCacheAssumption DEF Init, TypeOK
<1> QED
  BY <1>2, <1>3, <1>4, <1>5 DEF IInv

LEMMA CodeHashStep ==
  ASSUME TypeOK, [Next]_vars
  PROVE  /\ DOMAIN codeHashes' \subseteq Factories
         /\ \A f \in DOMAIN codeHashes' : codeHashes'[f].expires \in Nat
<1>1. CASE UNCHANGED codeHashes
  BY <1>1 DEF TypeOK
<1>2. ASSUME NEW h, Learnt(h), This \in Factories
      PROVE  /\ DOMAIN codeHashes' \subseteq Factories
             /\ \A f \in DOMAIN codeHashes' : codeHashes'[f].expires \in Nat
  <2> DEFINE ttl == IF h = None THEN CodeHashNegativeTtl ELSE CodeHashPositiveTtl
  <2>1. codeNow + ttl \in Nat
    BY PairCacheAssumption DEF TypeOK
  <2>2. DOMAIN codeHashes' = DOMAIN codeHashes \cup {This}
    BY <1>2 DEF Learnt
  <2>3. \A f \in DOMAIN codeHashes' :
          /\ f # This => codeHashes'[f] = codeHashes[f] /\ f \in DOMAIN codeHashes
          /\ f = This => codeHashes'[f] = [value |-> h, expires |-> codeNow + ttl]
    BY <1>2 DEF Learnt
  <2> QED
    BY <1>2, <2>1, <2>2, <2>3 DEF TypeOK
<1>3. InTurn => This \in Factories
  BY TurnType DEF InTurn, TypeOK
<1>4. ASSUME NEW getter \in {"pairCodeHash", "initCodeHash"}, CodeHashAnswer(getter)
      PROVE  Learnt(RightHash) /\ InTurn
  BY <1>4 DEF CodeHashAnswer, InTurn
<1>5. NoCodeHash => Learnt(None) /\ InTurn
  BY DEF NoCodeHash, InTurn
<1>6. CASE UNCHANGED vars
  BY <1>1, <1>6 DEF vars
<1>7. CASE \/ ResolveStep \/ Exhausted \/ Cached \/ Uncached
           \/ GetPairFound \/ GetPairZero \/ GetPairFails
           \/ PairCodeHashFails
           \/ DerivedExists \/ DerivedMissing \/ ExistsFails
           \/ DerivedConfirmed \/ DerivedRefused
           \/ TokensOk \/ TokensZero \/ TokensFail
           \/ CreateStep
  BY <1>1, <1>7 DEF ResolveStep, Resolve, Exhausted, Cached, Uncached, GetPairFound,
       GetPairZero, GetPairFails, PairCodeHashFails, DerivedExists, DerivedMissing,
       ExistsFails, DerivedConfirmed, DerivedRefused, TokensOk, TokensZero, TokensFail,
       CreateStep, CreatePair
<1> QED
  BY <1>2, <1>3, <1>4, <1>5, <1>6, <1>7 DEF Next, ResolveStep, CreateStep

LEMMA TypeStep == ASSUME TypeOK, Turn, Past, Cache, [Next]_vars PROVE TypeOK'
<1>1. Later /\ Cache'
  BY LaterStep, EntriesStep
<1>2. /\ DOMAIN codeHashes' \subseteq Factories
      /\ \A f \in DOMAIN codeHashes' : codeHashes'[f].expires \in Nat
  BY CodeHashStep
<1>3. (Cardinality(DOMAIN entries) <= Slots)'
  BY <1>1, CacheBounded, PTL
<1>4. \A k \in DOMAIN entries' :
        /\ k \in Keys
        /\ entries'[k].value \in Pairs \cup {None} /\ entries'[k].expires \in Nat
  <2> SUFFICES ASSUME NEW k \in DOMAIN entries'
               PROVE  /\ k \in Keys /\ entries'[k].value \in Pairs \cup {None}
                      /\ entries'[k].expires \in Nat
    OBVIOUS
  <2>1. Kept(k) \/ NowMissed(k) \/ NowFound(k)
    BY EntriesStep
  <2>2. CASE Kept(k)
    BY <2>2 DEF Kept, TypeOK
  <2>3. CASE NowMissed(k) \/ NowFound(k)
    <3>1. InTurn /\ pc # "idle" /\ rest # <<>>
      BY <2>3 DEF NowMissed, NowFound, Missed, Found, InTurn, TypeOK
    <3> QED
      BY <2>3, <3>1, TurnType, PairCacheAssumption DEF NowMissed, NowFound
  <2> QED
    BY <2>1, <2>2, <2>3
<1>5. /\ pc' \in {"idle", "next", "getPair", "pairCodeHash", "initCodeHash",
                 "exists", "derivedTokens", "tokens"}
      /\ (pc' # "idle" <=> req' \in Requests)
      /\ rest' \in Seq(Factories) /\ passed' \in Seq(Factories)
      /\ (pc' \notin {"idle", "next"} => rest' # <<>>)
      /\ start' \in Nat /\ codeNow' \in Nat
  <2> DEFINE Goal ==
        /\ pc' \in {"idle", "next", "getPair", "pairCodeHash", "initCodeHash",
                 "exists", "derivedTokens", "tokens"}
        /\ (pc' # "idle" <=> req' \in Requests)
        /\ rest' \in Seq(Factories) /\ passed' \in Seq(Factories)
        /\ (pc' \notin {"idle", "next"} => rest' # <<>>)
        /\ start' \in Nat /\ codeNow' \in Nat
  <2> SUFFICES Goal
    OBVIOUS
  <2>1. /\ start \in Nat /\ codeNow \in Nat /\ latest \in Nat
        /\ rest \in Seq(Factories) /\ passed \in Seq(Factories)
        /\ (pc # "idle" <=> req \in Requests)
        /\ (InTurn => pc # "idle" /\ rest # <<>>)
    BY DEF TypeOK, InTurn
  <2>2. ASSUME NEW result, Return(result) PROVE Goal
    BY <2>2, PairCacheAssumption DEF Return
  <2>3. ASSUME pc # "idle", rest # <<>>, Skip PROVE Goal
    BY <2>1, <2>3, TurnType DEF Skip
  <2>4. CASE ResolveStep
    <3>1. PICK r \in Requests, list \in FactoryLists, time \in Times : Resolve(r, list, time)
      BY <2>4 DEF ResolveStep
    <3>2. list \in Seq(Factories)
      BY PairCacheAssumption
    <3>3. /\ pc' = "next" /\ req' = r /\ rest' = list /\ start' = time
          /\ codeNow' = codeNow /\ passed' = passed
      BY <3>1 DEF Resolve
    <3>4. time \in Nat
      BY PairCacheAssumption DEF Times
    <3> QED
      BY <2>1, <3>2, <3>3, <3>4
  <2>5. CASE Exhausted \/ GaveUp \/ Found
    BY <2>2, <2>5 DEF Exhausted, GaveUp, Fail, Found, Hit, Ok
  <2>6. CASE Missed
    BY <2>1, <2>3, <2>6 DEF Missed, Miss
  <2>7. CASE Cached
    BY <2>2, <2>3, <2>7 DEF Cached, Ok
  <2>8. CASE Uncached
    BY <2>1, <2>8 DEF Uncached, locals
  <2>9. CASE Called
    BY <2>1, <2>9 DEF Called
  <2>10. CASE CreateStep \/ UNCHANGED vars
    <3>1. UNCHANGED <<pc, req, rest, passed, start, codeNow>>
      BY <2>10 DEF CreateStep, CreatePair, vars, locals
    <3> QED
      BY <2>1, <3>1 DEF TypeOK
  <2> QED
    BY <2>4, <2>5, <2>6, <2>7, <2>8, <2>9, <2>10, Kinds
<1> QED
  BY <1>1, <1>2, <1>3, <1>4, <1>5 DEF TypeOK, Cache, Later
-----------------------------------------------------------------------------
(***************************************************************************)
(* The cached entries, the turn and the answers.                           *)
(***************************************************************************)

LEMMA SoundStep == ASSUME IInv, [Next]_vars PROVE Entries'
<1> SUFFICES ASSUME NEW k \in DOMAIN entries' PROVE Sound(k)'
  BY DEF Entries
<1>1. TypeOK /\ Cache /\ Entries /\ Past /\ Turn /\ Later
  BY LaterStep DEF IInv
<1>2. Kept(k) \/ NowMissed(k) \/ NowFound(k)
  BY <1>1, EntriesStep
<1>3. latest \in Nat /\ start \in Nat /\ NegativeTtl \in Nat
  BY <1>1, PairCacheAssumption DEF TypeOK
<1>4. CASE Kept(k)
  <2>1. Sound(k) /\ entries[k].expires \in Nat /\ entries'[k] = entries[k]
    BY <1>1, <1>4 DEF Kept, Entries, TypeOK
  <2>2. CASE entries[k].value = k /\ k \in DOMAIN visibleSince
    BY <1>1, <2>1, <2>2 DEF Sound, Later
  <2>3. CASE ~(entries[k].value = k /\ k \in DOMAIN visibleSince)
    <3>1. entries[k].value = None /\ entries[k].expires <= latest + NegativeTtl
      BY <2>1, <2>3 DEF Sound
    <3>2. entries'[k].expires <= latest' + NegativeTtl
      BY <1>1, <1>3, <2>1, <3>1 DEF Later
    <3>3. ASSUME k \in DOMAIN visibleSince'
          PROVE  entries'[k].expires <= visibleSince'[k] + NegativeTtl
      <4>1. visibleSince'[k] \in Nat
        BY <1>1, <3>3 DEF Later
      <4>2. CASE k \in DOMAIN visibleSince
        <5>1. /\ visibleSince[k] \in Nat /\ visibleSince[k] <= visibleSince'[k]
              /\ entries[k].expires <= visibleSince[k] + NegativeTtl
          BY <1>1, <2>1, <2>3, <4>2 DEF Sound, Later, Past
        <5> QED
          BY <1>3, <2>1, <4>1, <5>1
      <4>3. CASE k \notin DOMAIN visibleSince
        BY <1>1, <1>3, <2>1, <3>1, <3>3, <4>3 DEF Later
      <4> QED
        BY <4>2, <4>3
    <3> QED
      BY <2>1, <3>1, <3>2, <3>3 DEF Sound
  <2> QED
    BY <2>2, <2>3
<1>5. CASE NowMissed(k)
  <2>1. Missed /\ k = Key /\ InTurn
    BY <1>5 DEF NowMissed, Missed
  <2>2. entries'[k].value = None /\ entries'[k].expires = start + NegativeTtl
    BY <1>5 DEF NowMissed
  <2>3. start <= latest /\ latest' = latest
    BY <1>1, <2>1 DEF InTurn, Turn, Missed, Asked
  <2>4. Key = PairOf(This, req)
    BY DEF Key, KeyOf, PairOf
  <2>5. DOMAIN visibleSince' = DOMAIN visibleSince
    BY <2>1 DEF Missed, Asked, Failed
  <2>6. ASSUME k \in DOMAIN visibleSince'
        PROVE  start <= visibleSince'[k] /\ visibleSince'[k] \in Nat
    BY <1>1, <2>1, <2>4, <2>5, <2>6 DEF Missed, Exists, Later
  <2> QED
    BY <1>3, <2>2, <2>3, <2>6 DEF Sound
<1>6. CASE NowFound(k)
  <2>1. entries'[k].value = k /\ Found
    BY <1>6 DEF NowFound, Key, KeyOf, PairOf
  <2>2. k \in DOMAIN visibleSince'
    BY <1>6, <2>1 DEF NowFound, Found, Exists, Undisturbed, Key, KeyOf, PairOf
  <2> QED
    BY <2>1, <2>2 DEF Sound
<1> QED
  BY <1>2, <1>4, <1>5, <1>6

\* Once a pair's time and a call's are compared, later pairs do not matter.
LEMMA StillRecent ==
  ASSUME TypeOK, Past, Later, NEW p, NEW from \in Nat, from <= latest,
         p \in DOMAIN visibleSince => from <= visibleSince[p] + NegativeTtl
  PROVE  p \in DOMAIN visibleSince' => from <= visibleSince'[p] + NegativeTtl
<1> SUFFICES ASSUME p \in DOMAIN visibleSince'
             PROVE  from <= visibleSince'[p] + NegativeTtl
  OBVIOUS
<1>1. latest \in Nat /\ NegativeTtl \in Nat /\ visibleSince'[p] \in Nat
  BY PairCacheAssumption DEF TypeOK, Later
<1>2. CASE p \in DOMAIN visibleSince
  <2>1. visibleSince[p] \in Nat /\ visibleSince[p] <= visibleSince'[p]
    BY <1>2 DEF Past, Later
  <2> QED
    BY <1>1, <1>2, <2>1
<1>3. CASE p \notin DOMAIN visibleSince
  BY <1>1, <1>3 DEF Later
<1> QED
  BY <1>2, <1>3

\* A factory whose turn ends without a pair was not overlooked.
LEMMA SkipTurn ==
  ASSUME TypeOK, Past, Turn, Later, pc # "idle", rest # <<>>, Skip,
         Key \in DOMAIN visibleSince' => start <= visibleSince'[Key] + NegativeTtl
  PROVE  Turn'
<1>1. /\ pc' = "next" /\ req' = req /\ start' = start
      /\ passed' = Append(passed, This)
  BY DEF Skip
<1>2. start \in Nat /\ latest \in Nat /\ start <= latest
  BY DEF TypeOK, Turn
<1>3. start' <= latest'
  BY <1>1, <1>2 DEF Later
<1>4. ASSUME NEW i \in DOMAIN passed, PairOf(passed[i], req) \in DOMAIN visibleSince'
      PROVE  start <= visibleSince'[PairOf(passed[i], req)] + NegativeTtl
  <2> DEFINE f == passed[i]
  <2>1. PairOf(f, req) \in DOMAIN visibleSince =>
          start <= visibleSince[PairOf(f, req)] + NegativeTtl
    BY DEF Turn, Exists
  <2> QED
    BY <1>2, <1>4, <2>1, StillRecent
<1>5. PairOf(This, req) \in DOMAIN visibleSince' =>
        start <= visibleSince'[PairOf(This, req)] + NegativeTtl
  BY DEF Key, KeyOf, PairOf
<1>6. ASSUME NEW i \in DOMAIN passed'
      PROVE  (Exists(passed[i], req) =>
                start <= visibleSince[PairOf(passed[i], req)] + NegativeTtl)'
  <2>1. CASE i \in DOMAIN passed
    <3>1. passed'[i] = passed[i]
      BY <1>1, <2>1 DEF TypeOK
    <3> QED
      BY <1>1, <1>4, <2>1, <3>1 DEF Exists, PairOf
  <2>2. CASE i \notin DOMAIN passed
    <3>1. passed'[i] = This
      BY <1>1, <1>6, <2>2 DEF TypeOK
    <3> QED
      BY <1>1, <1>5, <3>1 DEF Exists, PairOf
  <2> QED
    BY <2>1, <2>2
<1> QED
  BY <1>1, <1>3, <1>6 DEF Turn

LEMMA TurnStep == ASSUME IInv, [Next]_vars PROVE Turn'
<1>1. TypeOK /\ Cache /\ Entries /\ Past /\ Turn /\ Later
  BY LaterStep DEF IInv
<1>2. latest \in Nat /\ start \in Nat /\ NegativeTtl \in Nat
  BY <1>1, PairCacheAssumption DEF TypeOK
<1>3. InTurn => pc # "idle" /\ rest # <<>>
  BY <1>1 DEF InTurn, TypeOK
<1>4. Key = PairOf(This, req)
  BY DEF Key, KeyOf, PairOf
<1>5. ASSUME NEW result, Return(result) PROVE Turn'
  BY <1>5 DEF Return, Turn
<1>6. ASSUME pc # "idle", UNCHANGED <<req, passed, start>>
      PROVE  /\ start' <= latest'
             /\ \A i \in DOMAIN passed' :
                  (Exists(passed[i], req) =>
                     start <= visibleSince[PairOf(passed[i], req)] + NegativeTtl)'
  <2>1. start <= latest
    BY <1>1, <1>6 DEF Turn
  <2>2. start' <= latest'
    BY <1>1, <1>2, <1>6, <2>1 DEF Later
  <2>3. ASSUME NEW i \in DOMAIN passed,
               PairOf(passed[i], req) \in DOMAIN visibleSince'
        PROVE  start <= visibleSince'[PairOf(passed[i], req)] + NegativeTtl
    <3> DEFINE f == passed[i]
    <3>1. PairOf(f, req) \in DOMAIN visibleSince =>
            start <= visibleSince[PairOf(f, req)] + NegativeTtl
      BY <1>1, <1>6 DEF Turn, Exists
    <3> QED
      BY <1>1, <1>2, <2>1, <2>3, <3>1, StillRecent
  <2> QED
    BY <1>6, <2>2, <2>3 DEF Exists, PairOf
<1>7. CASE ResolveStep
  <2>1. PICK r \in Requests, list \in FactoryLists, time \in Times : Resolve(r, list, time)
    BY <1>7 DEF ResolveStep
  <2>2. pc = "idle" /\ pc' = "next" /\ start' = time /\ passed' = passed
    BY <2>1 DEF Resolve
  <2>3. passed = <<>>
    BY <1>1, <2>2 DEF Turn
  <2>4. time \in Nat
    BY PairCacheAssumption DEF Times
  <2>5. start' <= latest'
    BY <1>2, <2>1, <2>4 DEF Resolve
  <2> QED
    BY <2>2, <2>3, <2>5 DEF Turn
<1>8. CASE Exhausted \/ GaveUp \/ Found
  BY <1>5, <1>8 DEF Exhausted, GaveUp, Fail, Found, Hit, Ok
<1>9. CASE Cached
  <2>1. pc = "next" /\ rest # <<>> /\ Fresh(Key) /\ visibleSince' = visibleSince
    BY <1>9 DEF Cached
  <2>2. Key \in DOMAIN entries /\ start <= entries[Key].expires
        /\ entries[Key].expires \in Nat
    BY <1>1, <2>1 DEF Fresh, TypeOK
  <2>3. CASE entries[Key].value # None
    BY <1>5, <1>9, <2>3 DEF Cached, Ok
  <2>4. CASE entries[Key].value = None
    <3>1. Key # None
      BY <1>1, <2>1, TurnType
    <3>2. Key \in DOMAIN visibleSince =>
            entries[Key].expires <= visibleSince[Key] + NegativeTtl
      BY <1>1, <2>2, <2>4, <3>1 DEF Entries, Sound
    <3>3. Key \in DOMAIN visibleSince => visibleSince[Key] \in Nat
      BY <1>1 DEF Past
    <3>4. Key \in DOMAIN visibleSince => start <= visibleSince[Key] + NegativeTtl
      BY <1>2, <2>2, <3>2, <3>3
    <3> QED
      BY <1>1, <1>9, <2>1, <2>4, <3>4, SkipTurn DEF Cached
  <2> QED
    BY <2>3, <2>4
<1>10. CASE Uncached
  BY <1>6, <1>10 DEF Uncached, locals, Turn
<1>11. CASE Missed
  <2>1. DOMAIN visibleSince' = DOMAIN visibleSince
    BY <1>11 DEF Missed, Asked, Failed
  <2>2. Key \in DOMAIN visibleSince' => start <= visibleSince'[Key]
    BY <1>4, <1>11, <2>1 DEF Missed, Exists
  <2>3. Key \in DOMAIN visibleSince' => visibleSince'[Key] \in Nat
    BY <1>1 DEF Later
  <2>4. Key \in DOMAIN visibleSince' => start <= visibleSince'[Key] + NegativeTtl
    BY <1>2, <2>2, <2>3
  <2> QED
    BY <1>1, <1>3, <1>11, <2>4, SkipTurn DEF Missed, Miss
<1>12. CASE Called
  <2>1. UNCHANGED <<req, rest, passed, start>> /\ pc # "idle"
    BY <1>12 DEF Called, InTurn
  <2>2. DOMAIN visibleSince' = DOMAIN visibleSince
    BY <1>12 DEF Called, Asked, Failed
  <2>3. (pc \in {"tokens", "derivedTokens"} => Exists(This, req))'
    BY <1>12, <2>1, <2>2 DEF Called, Exists, This, PairOf
  <2>4. (pc \in {"pairCodeHash", "initCodeHash", "exists"} => AskedSince)'
    BY <1>12, <2>1, <2>2 DEF Called, AskedSince, Exists, This, PairOf, Key, KeyOf
  <2> QED
    BY <1>6, <1>12, <2>1, <2>3, <2>4 DEF Called, Turn
<1>13. CASE CreateStep \/ UNCHANGED vars
  <2>1. UNCHANGED <<pc, req, rest, passed, start>>
    BY <1>13 DEF CreateStep, CreatePair, vars, locals
  <2>2. CASE pc = "idle"
    BY <1>1, <2>1, <2>2 DEF Turn
  <2>3. CASE pc # "idle"
    <3>1. (pc \in {"tokens", "derivedTokens"} => Exists(This, req))'
      BY <1>1, <2>1 DEF Turn, Later, Exists, This, PairOf
    <3>2. ASSUME pc \in {"pairCodeHash", "initCodeHash", "exists"},
                 PairOf(This, req) \in DOMAIN visibleSince'
          PROVE  start <= visibleSince'[Key]
      <4>1. visibleSince'[Key] \in Nat /\ start <= latest
        BY <1>1, <1>4, <2>3, <3>2 DEF Later, Turn
      <4>2. CASE Key \in DOMAIN visibleSince
        <5>1. start <= visibleSince[Key] /\ visibleSince[Key] \in Nat
          BY <1>1, <1>4, <3>2, <4>2 DEF Turn, AskedSince, Exists, Past
        <5> QED
          BY <1>1, <1>2, <4>1, <4>2, <5>1 DEF Later
      <4>3. CASE Key \notin DOMAIN visibleSince
        BY <1>1, <1>4, <3>2, <4>1, <4>3 DEF Later
      <4> QED
        BY <4>2, <4>3
    <3>3. (pc \in {"pairCodeHash", "initCodeHash", "exists"} => AskedSince)'
      BY <2>1, <3>2 DEF AskedSince, Exists, This, PairOf, Key, KeyOf
    <3> QED
      BY <1>6, <2>1, <2>3, <3>1, <3>3 DEF Turn
  <2> QED
    BY <2>2, <2>3
<1> QED
  BY <1>1, <1>7, <1>8, <1>9, <1>10, <1>11, <1>12, <1>13, Kinds

\* What resolve answers is right when it returns ...
LEMMA ReturnAnswers ==
  ASSUME TypeOK, Past, Turn, Undisturbed, pc # "idle",
         NEW kind, NEW pair, Ok(kind, pair),
         kind = "pair" => pair = PairOf(This, req) /\ pair \in DOMAIN visibleSince
  PROVE  Answers'
<1>1. /\ answer'.kind = kind /\ answer'.pair = pair /\ answer'.req = req
      /\ answer'.rest = rest /\ answer'.start = start /\ answer'.passed = passed
  BY DEF Ok, Return
<1>2. start \in Nat /\ start <= latest /\ latest' = latest /\ visibleSince' = visibleSince
  BY DEF TypeOK, Turn, Undisturbed
<1>3. AnswerIsTrue'
  BY <1>1, <1>2 DEF AnswerIsTrue, PairOf, This
<1>4. ASSUME NEW i \in DOMAIN passed, PairOf(passed[i], req) \in DOMAIN visibleSince
      PROVE  ~(start > visibleSince[PairOf(passed[i], req)] + NegativeTtl)
  <2> DEFINE f == passed[i]
  <2>1. start <= visibleSince[PairOf(f, req)] + NegativeTtl
    BY <1>4 DEF Turn, Exists
  <2>2. visibleSince[PairOf(f, req)] \in Nat /\ NegativeTtl \in Nat
    BY <1>4, PairCacheAssumption DEF Past
  <2> QED
    BY <1>2, <2>1, <2>2
<1>5. NoFactoryOverlooked'
  BY <1>1, <1>2, <1>4 DEF NoFactoryOverlooked, Overlooks, Exists, PairOf
<1> QED
  BY <1>1, <1>2, <1>3, <1>5 DEF Answers

\* ... and stays right as further calls and pairs are made.
LEMMA AnswersKept ==
  ASSUME TypeOK, Past, Answers, Later, answer' = answer
  PROVE  Answers'
<1>1. AnswerIsTrue'
  BY DEF Answers, AnswerIsTrue, Later, PairOf
<1>2. ASSUME answer.kind \in {"pair", "none"}, NEW i \in DOMAIN answer.passed,
             PairOf(answer.passed[i], answer.req) \in DOMAIN visibleSince'
      PROVE  ~(answer.start >
                 visibleSince'[PairOf(answer.passed[i], answer.req)] + NegativeTtl)
  <2> DEFINE p == PairOf(answer.passed[i], answer.req)
  <2>1. answer.start \in Nat /\ answer.start <= latest /\ NegativeTtl \in Nat
    BY <1>2, PairCacheAssumption DEF Answers
  <2>2. p \in DOMAIN visibleSince => ~(answer.start > visibleSince[p] + NegativeTtl)
    BY <1>2 DEF Answers, NoFactoryOverlooked, Overlooks, Exists
  <2>3. p \in DOMAIN visibleSince => visibleSince[p] \in Nat
    BY DEF Past
  <2>4. p \in DOMAIN visibleSince => answer.start <= visibleSince[p] + NegativeTtl
    BY <2>1, <2>2, <2>3
  <2>5. answer.start <= visibleSince'[p] + NegativeTtl
    BY <1>2, <2>1, <2>4, StillRecent
  <2>6. visibleSince'[p] \in Nat
    BY <1>2 DEF Later
  <2> QED
    BY <2>1, <2>5, <2>6
<1>3. NoFactoryOverlooked'
  BY <1>2 DEF NoFactoryOverlooked, Overlooks, Exists, PairOf
<1>4. (answer.kind \in {"pair", "none"} => answer.start \in Nat /\ answer.start <= latest)'
  <2>1. answer.kind \in {"pair", "none"} => answer.start \in Nat /\ answer.start <= latest
    BY DEF Answers
  <2>2. latest \in Nat /\ latest' \in Nat /\ latest <= latest'
    BY DEF TypeOK, Later
  <2> QED
    BY <2>1, <2>2
<1> QED
  BY <1>1, <1>3, <1>4 DEF Answers

LEMMA AnswersStep == ASSUME IInv, [Next]_vars PROVE Answers'
<1>1. TypeOK /\ Cache /\ Entries /\ Past /\ Turn /\ Answers /\ Later
  BY LaterStep DEF IInv
<1>2. CASE UNCHANGED answer
  BY <1>1, <1>2, AnswersKept
<1>3. CASE ResolveStep
  <2>1. answer' = NoAnswer
    BY <1>3 DEF ResolveStep, Resolve
  <2> QED
    BY <2>1 DEF NoAnswer, Answers, AnswerIsTrue, NoFactoryOverlooked
<1>4. CASE Exhausted
  BY <1>1, <1>4, ReturnAnswers DEF Exhausted, Undisturbed
<1>5. CASE Cached
  <2>1. pc = "next" /\ rest # <<>> /\ Undisturbed /\ Key \in DOMAIN entries
    BY <1>5 DEF Cached, Fresh, Undisturbed
  <2>2. CASE entries[Key].value # None
    <3>1. entries[Key].value = Key /\ Key \in DOMAIN visibleSince
      BY <1>1, <2>1, <2>2 DEF Entries, Sound
    <3>2. Key = PairOf(This, req)
      BY DEF Key, KeyOf, PairOf
    <3>3. Ok("pair", entries[Key].value)
      BY <1>5, <2>2 DEF Cached
    <3> QED
      BY <1>1, <2>1, <3>1, <3>2, <3>3, ReturnAnswers
  <2>3. CASE entries[Key].value = None
    BY <1>2, <1>5, <2>3 DEF Cached, Skip
  <2> QED
    BY <2>2, <2>3
<1>6. CASE Found
  <2>1. Ok("pair", PairOf(This, req)) /\ PairOf(This, req) \in DOMAIN visibleSince
        /\ Undisturbed /\ pc # "idle"
    BY <1>6 DEF Found, Hit, Exists, InTurn
  <2> QED
    BY <1>1, <2>1, ReturnAnswers
<1>7. CASE GaveUp
  <2>1. answer'.kind = "error"
    BY <1>7 DEF GaveUp, Fail, Return
  <2> QED
    BY <2>1 DEF Answers, AnswerIsTrue, NoFactoryOverlooked
<1>8. CASE Uncached \/ Missed \/ Called \/ CreateStep \/ UNCHANGED vars
  BY <1>2, <1>8 DEF Uncached, Missed, Miss, Skip, Called, CreateStep, CreatePair,
                    vars
<1> QED
  BY <1>1, <1>3, <1>4, <1>5, <1>6, <1>7, <1>8, Kinds
-----------------------------------------------------------------------------
(***************************************************************************)
(* The refinement of Resolver: a call is the factories passed over and the *)
(* ones left, so that its list stays the same from turn to turn.           *)
(***************************************************************************)

List == passed \o rest
Place == Len(passed) + 1    \* of This in List

\* The next turn is about the same list.
LEMMA TurnPlace ==
  ASSUME TypeOK, pc # "idle", rest # <<>>
  PROVE  /\ Place \in DOMAIN List /\ List[Place] = This
         /\ Append(passed, This) \o Tail(rest) = List
<1>1. passed \in Seq(Factories) /\ rest \in Seq(Factories)
  BY DEF TypeOK
<1>2. Len(passed) \in Nat /\ Len(rest) \in Nat \ {0}
  BY <1>1
<1>3. List \in Seq(Factories) /\ DOMAIN List = 1 .. Len(passed) + Len(rest)
  BY <1>1 DEF List
<1>4. Place \in DOMAIN List
  BY <1>2, <1>3 DEF Place
<1>5. List[Place] = This
  BY <1>1, <1>2 DEF List, Place, This
<1>6. This \in Factories
  BY TurnType
<1>7. Append(passed, This) \o Tail(rest) = List
  BY <1>1, <1>2, <1>6 DEF List, This
<1> QED
  BY <1>4, <1>5, <1>7

LEMMA AskedIs == \A i : Abstract!Asked(i) = PairOf(List[i], req)
BY DEF Abstract!Asked, Abstract!Pair, PairOf, List

\* The factories passed over are those before the one whose turn it is.
LEMMA PassedExcused ==
  ASSUME TypeOK, Turn, pc # "idle"
  PROVE  /\ DOMAIN passed = 1 .. Place - 1
         /\ \A i \in DOMAIN passed : Abstract!Excused(i)
<1>1. passed \in Seq(Factories) /\ rest \in Seq(Factories)
  BY DEF TypeOK
<1>2. DOMAIN passed = 1 .. Place - 1
  BY <1>1 DEF Place
<1>3. \A i \in DOMAIN passed : List[i] = passed[i]
  BY <1>1 DEF List
<1> QED
  BY <1>2, <1>3, AskedIs DEF Turn, Exists, Abstract!Excused

LEMMA InitRefines == Init => Abstract!Init
<1> SUFFICES ASSUME Init PROVE Abstract!Init
  OBVIOUS
<1>1. req = None /\ start = 0 /\ answer = NoAnswer
  BY DEF Init
<1>2. passed \o rest = <<>>
  <2>1. passed = <<>> /\ rest = <<>>
    BY DEF Init
  <2> QED
    BY <2>1
<1>3. latest = 0 /\ visibleSince = [p \in {} |-> 0]
  BY DEF Init
<1> QED
  BY <1>1, <1>2, <1>3 DEF Abstract!Init, NoAnswer, Abstract!NoCall, Abstract!NoReply

\* resolve returns: the reply to the call.
LEMMA OkReplies ==
  ASSUME NEW kind, NEW pair, Ok(kind, pair), Undisturbed
  PROVE  Abstract!Reply(kind, pair) /\ visibleSince' = visibleSince
BY DEF Ok, Return, Undisturbed, Abstract!Reply, Abstract!NoCall

\* The pair of this turn's factory is the reply.
LEMMA OkFinds ==
  ASSUME TypeOK, Turn, pc # "idle", rest # <<>>, Undisturbed,
         Ok("pair", PairOf(This, req)), Exists(This, req)
  PROVE  Abstract!Found(Place) /\ Place \in DOMAIN List
<1>1. Abstract!Asked(Place) = PairOf(This, req) /\ Place \in DOMAIN List
  BY TurnPlace, AskedIs
<1>2. \A i \in 1 .. Place - 1 : Abstract!Excused(i)
  BY PassedExcused
<1>3. Abstract!Reply("pair", Abstract!Asked(Place)) /\ visibleSince' = visibleSince
  BY <1>1, OkReplies
<1> QED
  BY <1>1, <1>2, <1>3 DEF Abstract!Found, Exists

\* A query of this turn that fails is one about an element of the list.
LEMMA FailedInVain ==
  ASSUME TypeOK, pc # "idle", rest # <<>>, Failed
  PROVE  Abstract!InVain(Place) /\ Place \in DOMAIN List
BY TurnPlace, AskedIs DEF Failed, Abstract!InVain

LEMMA StepRefines ==
  ASSUME IInv, [Next]_vars
  PROVE  [Abstract!Next]_<<[req |-> req, list |-> List, start |-> start],
                           [kind |-> answer.kind, pair |-> answer.pair],
                           latest, visibleSince>>
<1> DEFINE call == [req |-> req, list |-> List, start |-> start]
           reply == [kind |-> answer.kind, pair |-> answer.pair]
<1> SUFFICES \/ Abstract!Next
             \/ UNCHANGED <<call, reply, latest, visibleSince>>
  OBVIOUS
<1>1. TypeOK /\ Turn /\ Entries
  BY DEF IInv
<1>2. InTurn => pc # "idle" /\ rest # <<>>
  BY <1>1 DEF InTurn, TypeOK
<1>3. pc # "idle" => req # None
  BY <1>1, PairCacheAssumption DEF TypeOK
<1>4. ASSUME pc # "idle", rest # <<>>, Skip
      PROVE  UNCHANGED <<call, reply>>
  BY <1>1, <1>4, TurnPlace DEF Skip, List
<1>5. ASSUME NEW i \in DOMAIN List, pc # "idle",
             Abstract!Found(i) \/ Abstract!QueryFails(i) \/ Abstract!CallFails(i)
      PROVE  Abstract!Next
  BY <1>3, <1>5 DEF Abstract!Next, List
<1>6. ASSUME InTurn, Asked, UNCHANGED <<call, reply>>
      PROVE  Abstract!Next \/ UNCHANGED <<call, reply, latest, visibleSince>>
  <2>1. CASE visibleSince' = visibleSince
    BY <1>6, <2>1 DEF Asked
  <2>2. CASE Failed
    <3>1. Abstract!InVain(Place) /\ Place \in DOMAIN List
      BY <1>1, <1>2, <1>6, <2>2, FailedInVain
    <3>2. Abstract!QueryFails(Place)
      BY <1>6, <3>1 DEF Abstract!QueryFails, Asked, List
    <3> QED
      BY <1>2, <1>5, <1>6, <3>1, <3>2
  <2> QED
    BY <1>6, <2>1, <2>2 DEF Asked
<1>7. CASE ResolveStep
  <2>1. PICK r \in Requests, list \in FactoryLists, time \in Times : Resolve(r, list, time)
    BY <1>7 DEF ResolveStep
  <2>2. list \in Seq(Factories)
    BY PairCacheAssumption
  <2>3. passed = <<>> /\ req = None /\ passed' = <<>> /\ rest' = list
    BY <1>1, <2>1 DEF Turn, Resolve
  <2>4. passed' \o rest' = list
    BY <2>2, <2>3
  <2>5. Abstract!Call(r, list, time)
    BY <2>1, <2>3, <2>4 DEF Abstract!Call, Abstract!NoReply, Resolve, NoAnswer
  <2> QED
    BY <2>5 DEF Abstract!Next, Times
<1>8. CASE Exhausted
  <2>1. pc # "idle" /\ rest = <<>> /\ Ok("none", None) /\ Undisturbed
    BY <1>8 DEF Exhausted, Undisturbed
  <2>2. DOMAIN List = DOMAIN passed
    BY <1>1, <2>1 DEF List, TypeOK
  <2>3. \A i \in DOMAIN List : Abstract!Excused(i)
    BY <1>1, <2>1, <2>2, PassedExcused
  <2>4. Abstract!NotFound
    BY <2>1, <2>3, OkReplies DEF Abstract!NotFound, List
  <2> QED
    BY <1>3, <2>1, <2>4 DEF Abstract!Next
<1>9. CASE Cached
  <2>1. pc # "idle" /\ rest # <<>> /\ Undisturbed /\ Key \in DOMAIN entries
    BY <1>9 DEF Cached, Fresh, Undisturbed
  <2>2. CASE entries[Key].value # None
    <3>1. entries[Key].value = Key /\ Key \in DOMAIN visibleSince
      BY <1>1, <2>1, <2>2 DEF Entries, Sound
    <3>2. Key = PairOf(This, req)
      BY DEF Key, KeyOf, PairOf
    <3>3. Ok("pair", PairOf(This, req)) /\ Exists(This, req)
      BY <1>9, <2>2, <3>1, <3>2 DEF Cached, Exists
    <3> QED
      BY <1>1, <1>5, <2>1, <3>3, OkFinds
  <2>3. CASE entries[Key].value = None
    <3>1. Skip
      BY <1>9, <2>3 DEF Cached
    <3> QED
      BY <1>4, <2>1, <3>1 DEF Undisturbed
  <2> QED
    BY <2>2, <2>3
<1>10. CASE Uncached
  BY <1>10 DEF Uncached, locals, List
<1>11. CASE Missed
  BY <1>2, <1>4, <1>6, <1>11 DEF Missed, Miss
<1>12. CASE Called
  <2>1. UNCHANGED <<call, reply>>
    BY <1>12 DEF Called, List
  <2> QED
    BY <1>6, <1>12, <2>1 DEF Called
<1>13. CASE Found
  BY <1>1, <1>2, <1>5, <1>13, OkFinds DEF Found, Hit
<1>14. CASE GaveUp
  <2>1. Abstract!InVain(Place) /\ Place \in DOMAIN List /\ pc # "idle"
    BY <1>1, <1>2, <1>14, FailedInVain DEF GaveUp
  <2>2. Abstract!Reply("error", None)
    BY <1>14 DEF GaveUp, Fail, Return, Asked, Abstract!Reply, Abstract!NoCall
  <2> QED
    BY <1>5, <2>1, <2>2 DEF Abstract!CallFails
<1>15. CASE CreateStep
  <2>1. PICK f \in Factories, r \in Requests : CreatePair(f, r)
    BY <1>15 DEF CreateStep
  <2>2. Abstract!Make(Abstract!Pair(f, r))
    BY <2>1 DEF CreatePair, locals, Exists, PairOf, Abstract!Make, Abstract!Pair
  <2> QED
    BY <2>2 DEF Abstract!Next
<1>16. CASE UNCHANGED vars
  BY <1>16 DEF vars, locals, List
<1> QED
  BY <1>1, <1>7, <1>8, <1>9, <1>10, <1>11, <1>12, <1>13, <1>14, <1>15, <1>16,
     Kinds
-----------------------------------------------------------------------------
(***************************************************************************)
(* The theorems.                                                           *)
(***************************************************************************)

LEMMA IInvStep == IInv /\ [Next]_vars => IInv'
<1> SUFFICES ASSUME IInv, [Next]_vars PROVE IInv'
  OBVIOUS
<1>1. TypeOK /\ Cache /\ Turn /\ Past
  BY DEF IInv
<1>2. TypeOK' /\ Cache' /\ Past'
  BY <1>1, TypeStep, EntriesStep, LaterStep DEF Later, Past
<1>3. Entries' /\ Turn' /\ Answers'
  BY SoundStep, TurnStep, AnswersStep
<1> QED
  BY <1>2, <1>3 DEF IInv

LEMMA IInvHolds == Spec => []IInv
  BY InitIInv, IInvStep, PTL DEF Spec

\* TypeOK, the bound on the cache's size included.
THEOREM TypeCorrect == Spec => []TypeOK
<1>1. IInv => TypeOK
  BY DEF IInv
<1> QED
  BY <1>1, IInvHolds, PTL

\* AnswerIsTrue: a pair that resolve returns, cached or not, exists and is the
\* one asked for.
THEOREM AnswerIsTrueHolds == Spec => []AnswerIsTrue
<1>1. IInv => AnswerIsTrue
  BY DEF IInv, Answers
<1> QED
  BY <1>1, IInvHolds, PTL

\* NoFactoryOverlooked: a factory is passed over only by calls made no later than
\* NegativeTtl after all those before its pair was made, or before the node last
\* failed to tell of it. Nothing is assumed of the clock: it may be set back.
THEOREM NoFactoryOverlookedHolds == Spec => []NoFactoryOverlooked
<1>1. IInv => NoFactoryOverlooked
  BY DEF IInv, Answers
<1> QED
  BY <1>1, IInvHolds, PTL

\* ImplementsResolver: behind its caches and calls, resolve is the one reply of
\* Resolver, for every list of factories and every clock.
THEOREM ImplementsResolverHolds == Spec => ImplementsResolver
<1>1. Init => Abstract!Init
  BY InitRefines
<1>2. IInv /\ [Next]_vars =>
        [Abstract!Next]_<<[req |-> req, list |-> passed \o rest, start |-> start],
                          [kind |-> answer.kind, pair |-> answer.pair],
                          latest, visibleSince>>
  BY StepRefines DEF List
<1> QED
  BY <1>1, <1>2, IInvHolds, PTL DEF Spec, ImplementsResolver, Abstract!Spec
=============================================================================
