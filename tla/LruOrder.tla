------------------------------ MODULE LruOrder ------------------------------
(***************************************************************************)
(* The recency list of the lru crate (LruCache<K, V>), as the code of this *)
(* repository uses it: DedupeCache and PairMetadataCache both keep one.    *)
(* The crate is not part of the repository; what is modelled is what its   *)
(* callers rely on (get, get_mut, put and pop).                            *)
(*                                                                         *)
(* A list is a function age: age[k] is the number of cached keys that were *)
(* used more recently than k, so 0 is the head of the list and the largest *)
(* age is the next to be evicted.                                          *)
(***************************************************************************)
EXTENDS Naturals

\* LruCache::new(NonZeroUsize): nothing is cached.
NoAges == [k \in {} |-> 0]

\* get, get_mut, and put of a key that is cached: k moves to the head, and
\* the keys that were in front of it move one place back.
Touched(age, k) ==
  [j \in DOMAIN age |-> IF j = k THEN 0
                        ELSE IF age[j] < age[k] THEN age[j] + 1
                        ELSE age[j]]

\* put of a key that is not cached: every key moves one place back, and the
\* one that would stand at place `capacity` falls off the list.
Pushed(age, capacity, k) ==
  LET kept == {j \in DOMAIN age : age[j] + 1 < capacity} IN
  [j \in kept \cup {k} |-> IF j = k THEN 0 ELSE age[j] + 1]

\* put: update in place when k is cached, insert (and evict) otherwise.
AfterPut(age, capacity, k) ==
  IF k \in DOMAIN age THEN Touched(age, k) ELSE Pushed(age, capacity, k)

\* pop: k leaves the list, the keys behind it move up.
AfterPop(age, k) ==
  [j \in DOMAIN age \ {k} |->
     IF k \in DOMAIN age /\ age[j] > age[k] THEN age[j] - 1 ELSE age[j]]
=============================================================================
