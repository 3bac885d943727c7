---------------------------- MODULE LruOrderProofs ----------------------------
(***************************************************************************)
(* What put does to a recency list: the key is at the head, the others     *)
(* keep their order, and only the keys pushed past the end are gone.       *)
(***************************************************************************)
EXTENDS LruOrder, TLAPS

\* A list in which no two keys have the same place.
IsList(age) ==
  /\ age \in [DOMAIN age -> Nat]
  /\ \A i, j \in DOMAIN age : age[i] = age[j] => i = j

\* put leaves every other kept key where it was, or one place further back,
\* and drops a key only when it would stand at place `capacity` (lru's
\* eviction rule, which both caches rely on).
LEMMA PutPlaces ==
  ASSUME NEW age, IsList(age), NEW capacity \in Nat \ {0}, NEW k
  PROVE  LET new == AfterPut(age, capacity, k) IN
         /\ DOMAIN new \subseteq DOMAIN age \cup {k}
         /\ k \in DOMAIN new
         /\ new[k] = 0
         /\ \A i \in DOMAIN new \ {k} :
              /\ i \in DOMAIN age
              /\ new[i] = IF k \in DOMAIN age /\ age[k] < age[i]
                          THEN age[i] ELSE age[i] + 1
         /\ \A i \in DOMAIN age \ DOMAIN new :
              k \notin DOMAIN age /\ age[i] + 1 >= capacity
         /\ \A i \in DOMAIN new \ {k}, j \in DOMAIN age :
              age[j] < age[i] => j \in DOMAIN new
<1> DEFINE new == AfterPut(age, capacity, k)
<1>1. CASE k \in DOMAIN age
  <2>1. new = Touched(age, k)
    BY <1>1 DEF AfterPut
  <2>2. DOMAIN new = DOMAIN age
    BY <2>1 DEF Touched
  <2>3. new[k] = 0
    BY <1>1, <2>1 DEF Touched
  <2>4. \A i \in DOMAIN new \ {k} :
          new[i] = IF age[k] < age[i] THEN age[i] ELSE age[i] + 1
    BY <1>1, <2>1, <2>2 DEF Touched, IsList
  <2> QED
    BY <1>1, <2>2, <2>3, <2>4
<1>2. CASE k \notin DOMAIN age
  <2>1. new = Pushed(age, capacity, k)
    BY <1>2 DEF AfterPut
  <2>2. DOMAIN new = {j \in DOMAIN age : age[j] + 1 < capacity} \cup {k}
    BY <2>1 DEF Pushed
  <2>3. new[k] = 0
    BY <2>1 DEF Pushed
  <2>4. \A i \in DOMAIN new \ {k} : new[i] = age[i] + 1
    BY <2>1, <2>2 DEF Pushed
  <2>5. \A i \in DOMAIN age \ DOMAIN new : age[i] + 1 >= capacity
    BY <2>2 DEF IsList
  <2>6. \A i \in DOMAIN new \ {k}, j \in DOMAIN age :
          age[j] < age[i] => j \in DOMAIN new
    BY <2>2 DEF IsList
  <2> QED
    BY <1>2, <2>2, <2>3, <2>4, <2>5, <2>6
<1> QED
  BY <1>1, <1>2

\* The list put leaves is again one without ties, all its places below the
\* capacity if they were before.
LEMMA PutIsList ==
  ASSUME NEW age, IsList(age), NEW capacity \in Nat \ {0}, NEW k,
         \A i \in DOMAIN age : age[i] < capacity
  PROVE  LET new == AfterPut(age, capacity, k) IN
         /\ IsList(new)
         /\ \A i \in DOMAIN new : new[i] < capacity
<1> DEFINE new == AfterPut(age, capacity, k)
<1>1. new \in [DOMAIN new -> Nat]
  <2>1. \A i \in DOMAIN new : new[i] \in Nat
    BY PutPlaces DEF IsList
  <2>2. new = [i \in DOMAIN new |-> new[i]]
    BY DEF AfterPut, Touched, Pushed
  <2> QED
    BY <2>1, <2>2
<1>2. \A i \in DOMAIN new \ {k} : new[i] > 0
  BY PutPlaces DEF IsList
<1>3. ASSUME NEW i \in DOMAIN new, NEW j \in DOMAIN new, new[i] = new[j]
      PROVE  i = j
  <2>1. CASE i = k \/ j = k
    BY <1>2, <1>3, <2>1, PutPlaces
  <2>2. CASE i # k /\ j # k
    <3>1. i \in DOMAIN age /\ j \in DOMAIN age
      BY <2>2, PutPlaces
    <3>2. age[i] \in Nat /\ age[j] \in Nat
      BY <3>1 DEF IsList
    <3>3. CASE k \in DOMAIN age
      <4>1. age[k] \in Nat /\ age[i] # age[k] /\ age[j] # age[k]
        BY <2>2, <3>1, <3>3 DEF IsList
      <4>2. new[i] = (IF age[k] < age[i] THEN age[i] ELSE age[i] + 1)
        BY <2>2, <3>3, PutPlaces
      <4>3. new[j] = (IF age[k] < age[j] THEN age[j] ELSE age[j] + 1)
        BY <2>2, <3>3, PutPlaces
      <4>4. (IF age[k] < age[i] THEN age[i] ELSE age[i] + 1)
              = (IF age[k] < age[j] THEN age[j] ELSE age[j] + 1)
        BY <1>3, <4>2, <4>3
      <4>5. age[i] = age[j]
        BY <3>2, <4>1, <4>4
      <4> QED
        BY <3>1, <4>5 DEF IsList
    <3>4. CASE k \notin DOMAIN age
      <4>1. new[i] = age[i] + 1 /\ new[j] = age[j] + 1
        BY <2>2, <3>4, PutPlaces
      <4>2. age[i] + 1 = age[j] + 1
        BY <1>3, <4>1
      <4>3. age[i] = age[j]
        BY <4>2, <3>2
      <4> QED
        BY <3>1, <4>3 DEF IsList
    <3> QED
      BY <3>3, <3>4
  <2> QED
    BY <2>1, <2>2
<1>4. ASSUME NEW i \in DOMAIN new PROVE new[i] < capacity
  <2>1. CASE i = k
    BY <2>1, PutPlaces
  <2>2. CASE i # k /\ k \in DOMAIN age
    <3>1. DOMAIN new = DOMAIN age /\ new[i] <= (IF age[k] < age[i] THEN age[i] ELSE age[k])
      <4>1. i \in DOMAIN age /\ age[i] # age[k] /\ age[i] \in Nat /\ age[k] \in Nat
        BY <2>2, PutPlaces DEF IsList
      <4>2. DOMAIN new = DOMAIN age
        BY <2>2 DEF AfterPut, Touched
      <4>3. new[i] = IF age[k] < age[i] THEN age[i] ELSE age[i] + 1
        BY <2>2, PutPlaces
      <4> QED
        BY <4>1, <4>2, <4>3
    <3> QED
      BY <2>2, <3>1, <1>1 DEF IsList
  <2>3. CASE i # k /\ k \notin DOMAIN age
    <3>1. new = Pushed(age, capacity, k)
      BY <2>3 DEF AfterPut
    <3>2. i \in {j \in DOMAIN age : age[j] + 1 < capacity}
      BY <2>3, <3>1 DEF Pushed
    <3>3. new[i] = age[i] + 1
      BY <2>3, <3>1 DEF Pushed
    <3> QED
      BY <3>2, <3>3
  <2> QED
    BY <2>1, <2>2, <2>3
<1> QED
  BY <1>1, <1>3, <1>4 DEF IsList

\* pop takes the key out, the keys behind it move up one place.
LEMMA PopIsList ==
  ASSUME NEW age, IsList(age), NEW capacity \in Nat, NEW k,
         \A i \in DOMAIN age : age[i] < capacity
  PROVE  LET new == AfterPop(age, k) IN
         /\ DOMAIN new = DOMAIN age \ {k}
         /\ IsList(new)
         /\ \A i \in DOMAIN new : new[i] < capacity
<1> DEFINE new == AfterPop(age, k)
<1>1. DOMAIN new = DOMAIN age \ {k}
  BY DEF AfterPop
<1>2. \A i \in DOMAIN new :
        /\ age[i] \in Nat
        /\ k \in DOMAIN age /\ age[i] > age[k] => new[i] = age[i] - 1
        /\ ~(k \in DOMAIN age /\ age[i] > age[k]) => new[i] = age[i]
  BY DEF AfterPop, IsList
<1>3. k \in DOMAIN age => age[k] \in Nat /\ \A i \in DOMAIN new : age[i] # age[k]
  BY <1>1 DEF IsList
<1>4. \A i \in DOMAIN new : new[i] \in Nat /\ new[i] < capacity
  BY <1>1, <1>2, <1>3
<1>5. new = [i \in DOMAIN new |-> new[i]]
  BY DEF AfterPop
<1>6. \A i, j \in DOMAIN new : new[i] = new[j] => age[i] = age[j]
  BY <1>2, <1>3
<1>7. \A i, j \in DOMAIN new : new[i] = new[j] => i = j
  BY <1>1, <1>6 DEF IsList
<1>8. new \in [DOMAIN new -> Nat]
  BY <1>4, <1>5
<1> QED
  BY <1>1, <1>4, <1>7, <1>8 DEF IsList
=============================================================================
