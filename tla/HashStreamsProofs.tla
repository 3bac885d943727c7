-------------------------- MODULE HashStreamsProofs --------------------------
(***************************************************************************)
(* Theorems about HashStreams, for every pool, channel size, delays and    *)
(* width of the backoff. Induction over the naturals is by sets of         *)
(* numbers: one that has 0 and the successor of each of its numbers has    *)
(* them all.                                                               *)
(***************************************************************************)
EXTENDS HashStreams, FiniteSetTheorems, WellFoundedInduction, TLAPS

\* try_send never puts more into a channel than fits.
LEMMA SentFits ==
  ASSUME NEW channel \in Seq(Hashes), NEW size \in Nat, Len(channel) <= size,
         NEW hash \in Hashes
  PROVE  Sent(channel, size, hash) \in Seq(Hashes)
         /\ Len(Sent(channel, size, hash)) <= size
<1>1. CASE Len(channel) < size
  <2>1. Sent(channel, size, hash) = Append(channel, hash)
    BY <1>1 DEF Sent
  <2> QED
    BY <1>1, <2>1
<1>2. CASE ~(Len(channel) < size)
  BY <1>2 DEF Sent
<1> QED
  BY <1>1, <1>2

\* A delay that is doubled past 64 bits is cut off, never out of range.
LEMMA NextBackoffType ==
  ASSUME NEW b \in 0 .. DelayLimit - 1
  PROVE  NextBackoff(b) \in 0 .. DelayLimit - 1
<1> DEFINE next == (2 * b) % DelayLimit
<1>1. DelayLimit \in Nat \ {0} /\ MaxDelay \in 0 .. DelayLimit - 1
  BY HashStreamsAssumption
<1>2. 2 * b \in Nat
  BY <1>1
<1>3. next \in 0 .. DelayLimit - 1
  BY <1>1, <1>2
<1> QED
  BY <1>1, <1>3 DEF NextBackoff

LEMMA TypeInit == Init => TypeOK
<1> SUFFICES ASSUME Init PROVE TypeOK
  OBVIOUS
<1>1. up \in BOOLEAN /\ live \in BOOLEAN /\ running \in BOOLEAN
  BY Zenon DEF Init
<1>2. backoff \in 0 .. DelayLimit - 1 /\ streak \in 0 .. MaxStreak
  BY HashStreamsAssumption DEF Init
<1>3. unread \in Seq(Hashes) /\ pendingCh \in Seq(Hashes) /\ txpoolCh \in Seq(Hashes)
  BY DEF Init
<1>4. Len(pendingCh) <= PendingSize /\ Len(txpoolCh) <= TxpoolSize
  BY HashStreamsAssumption DEF Init
<1>5. pool = {} /\ seen = {} /\ batch = {} /\ listed = {} /\ ~live
      /\ subPc = "subscribe" /\ pollPc = "tick"
  BY DEF Init
<1> QED
  BY <1>1, <1>2, <1>3, <1>4, <1>5 DEF TypeOK

LEMMA TypeStep == TypeOK /\ [Next]_vars => TypeOK'
<1> SUFFICES ASSUME TypeOK, [Next]_vars PROVE TypeOK'
  OBVIOUS
<1> USE DEF TypeOK, sub, poll
<1>1. CASE Subscribed
  BY <1>1, HashStreamsAssumption DEF Subscribed
<1>2. CASE SubscribeFails \/ Ended
  BY <1>2 DEF SubscribeFails, Ended, StreamOver
<1>3. CASE Forward
  <2>1. Head(unread) \in Hashes /\ Tail(unread) \in Seq(Hashes)
    BY <1>3 DEF Forward
  <2>2. PendingSize \in Nat
    BY HashStreamsAssumption
  <2>3. Sent(pendingCh, PendingSize, Head(unread)) \in Seq(Hashes)
        /\ Len(Sent(pendingCh, PendingSize, Head(unread))) <= PendingSize
    BY <2>1, <2>2, SentFits
  <2>4. pendingCh' \in Seq(Hashes) /\ Len(pendingCh') <= PendingSize
    BY <1>3, <2>3 DEF Forward
  <2>5. subPc' \in {"streaming", "returned"}
    BY <1>3 DEF Forward
  <2> QED
    BY <1>3, <2>1, <2>4, <2>5 DEF Forward
<1>4. CASE Wake
  <2>1. backoff' \in 0 .. DelayLimit - 1
    BY <1>4, NextBackoffType DEF Wake
  <2>2. streak' \in 0 .. MaxStreak
    BY <1>4, HashStreamsAssumption DEF Wake
  <2>3. live' = live /\ live = FALSE
    BY <1>4 DEF Wake
  <2> QED
    BY <1>4, <2>1, <2>2, <2>3 DEF Wake
<1>5. CASE Tick \/ PollFails \/ Pushed
  BY <1>5 DEF Tick, PollFails, Pushed
<1>6. CASE PollOk
  BY <1>6 DEF PollOk
<1>7. CASE Push
  <2>1. PICK i \in batch : PushAt(i)
    BY <1>7 DEF Push
  <2>2. PoolOrder[i] \in Hashes /\ TxpoolSize \in Nat
    BY HashStreamsAssumption DEF Hashes
  <2>3. Sent(txpoolCh, TxpoolSize, PoolOrder[i]) \in Seq(Hashes)
        /\ Len(Sent(txpoolCh, TxpoolSize, PoolOrder[i])) <= TxpoolSize
    BY <2>2, SentFits
  <2>4. txpoolCh' \in Seq(Hashes) /\ Len(txpoolCh') <= TxpoolSize
    BY <2>1, <2>3 DEF PushAt
  <2>5. batch' \subseteq DOMAIN PoolOrder /\ listed' \subseteq DOMAIN PoolOrder
        /\ pollPc' \in {"tick", "asked", "pushing", "returned"}
    BY <2>1 DEF PushAt
  <2> QED
    BY <2>1, <2>4, <2>5 DEF PushAt
<1>8. CASE RecvPending \/ RecvTxpool
  <2>1. CASE RecvPending
    <3>1. Head(pendingCh) \in Hashes /\ Tail(pendingCh) \in Seq(Hashes)
          /\ Len(Tail(pendingCh)) <= PendingSize
      BY <2>1, HashStreamsAssumption DEF RecvPending
    <3> QED
      BY <2>1, <3>1 DEF RecvPending
  <2>2. CASE RecvTxpool
    <3>1. Head(txpoolCh) \in Hashes /\ Tail(txpoolCh) \in Seq(Hashes)
          /\ Len(Tail(txpoolCh)) <= TxpoolSize
      BY <2>2, HashStreamsAssumption DEF RecvTxpool
    <3> QED
      BY <2>2, <3>1 DEF RecvTxpool
  <2> QED
    BY <1>8, <2>1, <2>2
<1>9. CASE Drop
  <2>1. running' \in BOOLEAN
    BY <1>9, Zenon DEF Drop
  <2>2. pendingCh' \in Seq(Hashes) /\ txpoolCh' \in Seq(Hashes)
    BY <1>9 DEF Drop
  <2>3. Len(pendingCh') <= PendingSize /\ Len(txpoolCh') <= TxpoolSize
    BY <1>9, HashStreamsAssumption DEF Drop
  <2> QED
    BY <1>9, <2>1, <2>2, <2>3 DEF Drop
<1>10. ASSUME NEW h \in Hashes, Enter(h) PROVE TypeOK'
  <2>1. unread' \in Seq(Hashes)
    BY <1>10 DEF Enter
  <2> QED
    BY <1>10, <2>1 DEF Enter
<1>11. ASSUME NEW h \in Hashes, Leave(h) PROVE TypeOK'
  BY <1>11 DEF Leave
<1>12. CASE Disconnect \/ Connect
  <2>1. up' \in BOOLEAN /\ live' \in BOOLEAN
    BY <1>12, Zenon DEF Disconnect, Connect
  <2>2. live' => live
    BY <1>12 DEF Disconnect, Connect
  <2> QED
    BY <1>12, <2>1, <2>2 DEF Disconnect, Connect
<1>13. CASE UNCHANGED vars
  BY <1>13 DEF vars
<1> QED
  BY <1>1, <1>2, <1>3, <1>4, <1>5, <1>6, <1>7, <1>8, <1>9, <1>10, <1>11, <1>12, <1>13
  DEF Next

\* TypeOK: above all, that neither channel is ever over its size, whatever the
\* pool, the polls, the subscription and the receiver do.
THEOREM TypeCorrect == Spec => []TypeOK
<1> QED
  BY TypeInit, TypeStep, PTL DEF Spec
-----------------------------------------------------------------------------
(***************************************************************************)
(* Powers of two.                                                          *)
(***************************************************************************)

\* A set of numbers that is not empty has a least one.
LEMMA LeastNumber ==
  ASSUME NEW T, T \subseteq Nat, T # {}
  PROVE  \E n \in T : \A m \in T : n <= m
<1> DEFINE R == {p \in Nat \X Nat : p[1] < p[2]}
<1>1. IsWellFoundedOn(R, Nat)
  BY NatLessThanWellFounded, Zenon DEF OpToRel
<1>2. \E n \in T : \A m \in T : <<m, n>> \notin R
  <2> HIDE DEF R
  <2> QED
    BY <1>1, WFMin
<1>3. PICK n \in T : \A m \in T : <<m, n>> \notin R
  BY <1>2
<1>4. ASSUME NEW m \in T PROVE n <= m
  <2>1. <<m, n>> \notin R
    BY <1>3
  <2>2. <<m, n>> \in Nat \X Nat
    OBVIOUS
  <2> QED
    BY <2>1, <2>2
<1> QED
  BY <1>3, <1>4

\* Induction, over a set instead of a predicate.
LEMMA InductionOverSet ==
  ASSUME NEW S, 0 \in S, \A n \in Nat : n \in S => n + 1 \in S
  PROVE  Nat \subseteq S
<1> SUFFICES ASSUME Nat \ S # {} PROVE FALSE
  OBVIOUS
<1>1. PICK n \in Nat \ S : \A m \in Nat \ S : n <= m
  BY LeastNumber
<1>2. n # 0 /\ n - 1 \in Nat
  BY <1>1
<1>3. n - 1 \in S
  BY <1>1, <1>2
<1>4. (n - 1) + 1 \in S
  BY <1>2, <1>3
<1> QED
  BY <1>1, <1>4

\* The first n powers of two, as a function of its own.
PowersTo(n, f) ==
  /\ f \in [0 .. n -> Nat]
  /\ f[0] = 1
  /\ \A k \in 1 .. n : f[k] = 2 * f[k - 1]

LEMMA PowersExist == \A n \in Nat : \E f : PowersTo(n, f)
<1> DEFINE S == {n \in Nat : \E f : PowersTo(n, f)}
<1>1. 0 \in S
  <2>1. PowersTo(0, [k \in 0 .. 0 |-> 1])
    BY DEF PowersTo
  <2> QED
    BY <2>1
<1>2. ASSUME NEW n \in Nat, n \in S PROVE n + 1 \in S
  <2>1. PICK f : PowersTo(n, f)
    BY <1>2
  <2> DEFINE g == [k \in 0 .. n + 1 |-> IF k = n + 1 THEN 2 * f[n] ELSE f[k]]
  <2>2. g \in [0 .. n + 1 -> Nat] /\ g[0] = 1
    BY <2>1 DEF PowersTo
  <2>3. ASSUME NEW k \in 1 .. n + 1 PROVE g[k] = 2 * g[k - 1]
    <3>1. CASE k = n + 1
      BY <3>1
    <3>2. CASE k \in 1 .. n
      BY <2>1, <3>2 DEF PowersTo
    <3> QED
      BY <3>1, <3>2
  <2>4. PowersTo(n + 1, g)
    <3> HIDE DEF g
    <3> QED
      BY <2>2, <2>3 DEF PowersTo
  <2> QED
    BY <2>4
<1> HIDE DEF S
<1>3. Nat \subseteq S
  BY <1>1, <1>2, InductionOverSet
<1> QED
  BY <1>3 DEF S

LEMMA PowersAgree ==
  ASSUME NEW m \in Nat, NEW n \in Nat, NEW f, NEW g,
         PowersTo(m, f), PowersTo(n, g), NEW k \in Nat, k <= m, k <= n
  PROVE  f[k] = g[k]
<1> DEFINE S == {j \in Nat : j <= m /\ j <= n => f[j] = g[j]}
<1>1. 0 \in S
  BY DEF PowersTo
<1>2. ASSUME NEW j \in Nat, j \in S PROVE j + 1 \in S
  <2> SUFFICES ASSUME j + 1 <= m, j + 1 <= n PROVE f[j + 1] = g[j + 1]
    OBVIOUS
  <2>1. f[j] = g[j]
    BY <1>2
  <2>2. j + 1 \in 1 .. m /\ j + 1 \in 1 .. n /\ (j + 1) - 1 = j
    OBVIOUS
  <2>3. f[j + 1] = 2 * f[j] /\ g[j + 1] = 2 * g[j]
    BY <2>2 DEF PowersTo
  <2> QED
    BY <2>1, <2>3
<1> HIDE DEF S
<1>3. Nat \subseteq S
  BY <1>1, <1>2, InductionOverSet
<1>4. k \in S
  BY <1>3
<1> QED
  BY <1>4 DEF S

\* PowerOf2 is what its recursive definition says: there is such a function.
LEMMA PowerOf2Def ==
  PowerOf2 = [n \in Nat |-> IF n = 0 THEN 1 ELSE 2 * PowerOf2[n - 1]]
<1> DEFINE f(n) == CHOOSE f : PowersTo(n, f)
           P == [n \in Nat |-> f(n)[n]]
           Q == [n \in Nat |-> IF n = 0 THEN 1 ELSE 2 * P[n - 1]]
<1>1. \A n \in Nat : PowersTo(n, f(n))
  BY PowersExist
<1>2. ASSUME NEW n \in Nat PROVE P[n] = Q[n]
  <2> HIDE DEF f
  <2>1. CASE n = 0
    BY <1>1, <2>1 DEF PowersTo
  <2>2. CASE n # 0
    <3>1. n - 1 \in Nat /\ n \in 1 .. n
      BY <2>2
    <3>2. f(n)[n] = 2 * f(n)[n - 1]
      BY <1>1, <3>1 DEF PowersTo
    <3>3. f(n)[n - 1] = f(n - 1)[n - 1]
      <4>1. PowersTo(n, f(n)) /\ PowersTo(n - 1, f(n - 1))
        BY <1>1, <3>1
      <4> QED
        BY <4>1, <3>1, PowersAgree
    <3> QED
      BY <3>1, <3>2, <3>3, <2>2
  <2> QED
    BY <2>1, <2>2
<1>3. P = Q
  <2>1. DOMAIN P = Nat /\ DOMAIN Q = Nat
    OBVIOUS
  <2>2. P = [n \in Nat |-> P[n]] /\ Q = [n \in Nat |-> Q[n]]
    OBVIOUS
  <2> HIDE DEF P, Q
  <2> QED
    BY <1>2, <2>2
<1>4. \E g : g = [n \in Nat |-> IF n = 0 THEN 1 ELSE 2 * g[n - 1]]
  <2> HIDE DEF P
  <2> QED
    BY <1>3
<1> QED
  BY <1>4, Zenon DEF PowerOf2

LEMMA PowerOf2Steps ==
  ASSUME NEW n \in Nat
  PROVE  PowerOf2[0] = 1 /\ PowerOf2[n + 1] = 2 * PowerOf2[n]
<1>1. (n + 1) - 1 = n /\ n + 1 # 0 /\ n + 1 \in Nat
  OBVIOUS
<1> QED
  BY <1>1, PowerOf2Def

LEMMA PowerOf2Type == \A n \in Nat : PowerOf2[n] \in Nat
<1> DEFINE S == {n \in Nat : PowerOf2[n] \in Nat}
<1>1. 0 \in S
  BY PowerOf2Steps
<1>2. ASSUME NEW n \in Nat, n \in S PROVE n + 1 \in S
  BY <1>2, PowerOf2Steps
<1> HIDE DEF S
<1>3. Nat \subseteq S
  BY <1>1, <1>2, InductionOverSet
<1> QED
  BY <1>3 DEF S
-----------------------------------------------------------------------------
(***************************************************************************)
(* The backoff.                                                            *)
(***************************************************************************)

\* The delay after n sleeps.
DelayAfter(n) ==
  IF n = 0 THEN BaseDelay
  ELSE IF BaseDelay * PowerOf2[n] < MaxDelay THEN BaseDelay * PowerOf2[n]
  ELSE MaxDelay

\* Both delays can be doubled in 64 bits.
DelaysDouble == 2 * BaseDelay < DelayLimit /\ 2 * MaxDelay < DelayLimit

\* The streak is told apart from longer ones until the delay has grown to
\* MaxDelay (one of 0 never grows).
StreakLongEnough ==
  /\ MaxStreak >= 1
  /\ BaseDelay = 0 \/ BaseDelay * PowerOf2[MaxStreak] >= MaxDelay

LEMMA NextDelay ==
  ASSUME NEW n \in Nat, DelaysDouble
  PROVE  NextBackoff(DelayAfter(n)) = DelayAfter(n + 1)
<1> DEFINE d == BaseDelay * PowerOf2[n]
<1>1. BaseDelay \in Nat /\ MaxDelay \in Nat /\ DelayLimit \in Nat \ {0}
  BY HashStreamsAssumption
<1>2. PowerOf2[n] \in Nat
  BY PowerOf2Type
<1>3. d \in Nat
  BY <1>1, <1>2
<1>4. BaseDelay * PowerOf2[n + 1] = 2 * d
  <2>1. PowerOf2[n + 1] = 2 * PowerOf2[n]
    BY PowerOf2Steps
  <2>2. \A a, b \in Nat : a * (2 * b) = 2 * (a * b)
    OBVIOUS
  <2> QED
    BY <1>1, <1>2, <2>1, <2>2
<1>5. n = 0 => d = BaseDelay
  BY <1>1, PowerOf2Steps
<1>6. \A a \in Nat : 2 * a < DelayLimit => (2 * a) % DelayLimit = 2 * a
  BY <1>1
<1>7. DelayAfter(n + 1) = IF 2 * d < MaxDelay THEN 2 * d ELSE MaxDelay
  BY <1>4 DEF DelayAfter
<1>8. DelayAfter(n) = IF n = 0 THEN BaseDelay
                      ELSE IF d < MaxDelay THEN d ELSE MaxDelay
  BY DEF DelayAfter
<1> HIDE DEF d
<1>9. DelayAfter(n) \in Nat /\ 2 * DelayAfter(n) < DelayLimit
  BY <1>1, <1>3, <1>8 DEF DelaysDouble
<1>10. NextBackoff(DelayAfter(n)) =
         IF 2 * DelayAfter(n) < MaxDelay THEN 2 * DelayAfter(n) ELSE MaxDelay
  BY <1>6, <1>9 DEF NextBackoff
<1> QED
  BY <1>1, <1>3, <1>5, <1>7, <1>8, <1>10

\* At the bound of the streak the delay has stopped growing.
LEMMA DelaySettles ==
  ASSUME DelaysDouble, StreakLongEnough
  PROVE  NextBackoff(DelayAfter(MaxStreak)) = DelayAfter(MaxStreak)
<1>1. BaseDelay \in Nat /\ MaxDelay \in Nat /\ DelayLimit \in Nat \ {0}
      /\ MaxStreak \in Nat \ {0}
  BY HashStreamsAssumption DEF StreakLongEnough
<1>2. PowerOf2[MaxStreak] \in Nat
  BY <1>1, PowerOf2Type
<1>3. \A a \in Nat : 2 * a < DelayLimit => (2 * a) % DelayLimit = 2 * a
  BY <1>1
<1>4. CASE BaseDelay = 0
  <2>1. DelayAfter(MaxStreak) = 0
    BY <1>1, <1>2, <1>4 DEF DelayAfter
  <2> QED
    BY <1>1, <1>3, <2>1 DEF NextBackoff
<1>5. CASE BaseDelay * PowerOf2[MaxStreak] >= MaxDelay
  <2>1. BaseDelay * PowerOf2[MaxStreak] \in Nat
    BY <1>1, <1>2
  <2>2. DelayAfter(MaxStreak) = MaxDelay
    BY <1>1, <1>5, <2>1 DEF DelayAfter
  <2>3. NextBackoff(MaxDelay) = IF 2 * MaxDelay < MaxDelay THEN 2 * MaxDelay
                                ELSE MaxDelay
    BY <1>1, <1>3 DEF NextBackoff, DelaysDouble
  <2> QED
    BY <1>1, <2>2, <2>3
<1> QED
  BY <1>4, <1>5 DEF StreakLongEnough

LEMMA BackoffStep ==
  ASSUME TypeOK, BackoffIsExponential, [Next]_vars, DelaysDouble, StreakLongEnough
  PROVE  BackoffIsExponential'
<1>1. BackoffIsExponential <=> backoff = DelayAfter(streak)
  BY DEF BackoffIsExponential, DelayAfter
<1>2. BackoffIsExponential' <=> backoff' = DelayAfter(streak')
  BY DEF BackoffIsExponential, DelayAfter
<1>3. CASE UNCHANGED <<backoff, streak>>
  BY <1>1, <1>2, <1>3
<1>4. CASE Subscribed
  BY <1>2, <1>4 DEF Subscribed, DelayAfter
<1>5. CASE Wake
  <2>1. MaxStreak \in Nat /\ streak \in 0 .. MaxStreak
    BY HashStreamsAssumption DEF TypeOK
  <2>2. backoff' = NextBackoff(DelayAfter(streak))
    BY <1>1, <1>5 DEF Wake
  <2>3. CASE streak < MaxStreak
    BY <1>2, <1>5, <2>1, <2>2, <2>3, NextDelay DEF Wake
  <2>4. CASE streak = MaxStreak
    BY <1>2, <1>5, <2>1, <2>2, <2>4, DelaySettles DEF Wake
  <2> QED
    BY <2>1, <2>3, <2>4
<1>6. UNCHANGED <<backoff, streak>> \/ Subscribed \/ Wake
  BY DEF Next, vars, sub, SubscribeFails, Forward, Ended, Tick, PollFails, PollOk,
         Push, PushAt, Pushed, RecvPending, RecvTxpool, Drop, Enter, Leave,
         Disconnect, Connect
<1> QED
  BY <1>3, <1>4, <1>5, <1>6

\* BackoffIsExponential: however failed subscriptions and dropped ones follow
\* each other, the n-th delay since the last one made is 2^n times the first,
\* up to the maximum. Doubling must not overflow: a configured delay of 2^63 ms
\* or more is truncated by the cast instead.
THEOREM BackoffDoubles ==
  ASSUME DelaysDouble, StreakLongEnough
  PROVE  Spec => []BackoffIsExponential
<1>1. Init => BackoffIsExponential
  BY DEF Init, BackoffIsExponential
<1>2. TypeOK /\ BackoffIsExponential /\ [Next]_vars => BackoffIsExponential'
  BY BackoffStep
<1> QED
  BY <1>1, <1>2, TypeCorrect, PTL DEF Spec
-----------------------------------------------------------------------------
(***************************************************************************)
(* What a poll brings.                                                     *)
(***************************************************************************)

Holds(channel, h) == \E k \in DOMAIN channel : channel[k] = h
InChannel(h) == Holds(txpoolCh, h)

\* Of a poll that found the channel empty: what is pushed comes before what is
\* not, and the channel holds no more than was pushed.
PushOrder ==
  /\ IsFiniteSet(listed)
  /\ listed # {} => pollPc = "pushing" /\ batch \subseteq listed
  /\ \A i \in listed \ batch, j \in listed \cap batch : i < j
  /\ listed # {} => Len(txpoolCh) <= Cardinality(listed \ batch)

PollInv == TypeOK /\ PushOrder /\ HeadOfPollKept

\* try_send keeps what is there, and drops the new item only if it is full.
LEMMA SentKeeps ==
  ASSUME NEW channel \in Seq(Hashes), NEW size \in Nat, NEW hash \in Hashes
  PROVE  /\ Len(Sent(channel, size, hash)) <= Len(channel) + 1
         /\ \A h : Holds(channel, h) => Holds(Sent(channel, size, hash), h)
         /\ Len(channel) < size => Holds(Sent(channel, size, hash), hash)
<1>1. CASE Len(channel) < size
  <2>1. Sent(channel, size, hash) = Append(channel, hash)
    BY <1>1 DEF Sent
  <2>2. /\ Len(Append(channel, hash)) = Len(channel) + 1
        /\ Len(channel) + 1 \in DOMAIN Append(channel, hash)
        /\ Append(channel, hash)[Len(channel) + 1] = hash
    OBVIOUS
  <2>3. ASSUME NEW k \in DOMAIN channel
        PROVE  k \in DOMAIN Append(channel, hash)
               /\ Append(channel, hash)[k] = channel[k]
    OBVIOUS
  <2> QED
    BY <2>1, <2>2, <2>3 DEF Holds
<1>2. CASE ~(Len(channel) < size)
  <2>1. Sent(channel, size, hash) = channel
    BY <1>2 DEF Sent
  <2> QED
    BY <1>2, <2>1
<1> QED
  BY <1>1, <1>2

LEMMA PositionsFinite ==
  ASSUME NEW S, S \subseteq DOMAIN PoolOrder
  PROVE  IsFiniteSet(S)
<1>1. DOMAIN PoolOrder = 1 .. Len(PoolOrder) /\ Len(PoolOrder) \in Nat
  BY HashStreamsAssumption
<1>2. IsFiniteSet(1 .. Len(PoolOrder))
  BY <1>1, FS_Interval
<1> QED
  BY <1>1, <1>2, FS_Subset

LEMMA PushKeepsPoll ==
  ASSUME PollInv, Push
  PROVE  PushOrder' /\ HeadOfPollKept'
<1> USE DEF PollInv
<1>1. PICK i \in batch : (\A j \in batch : i <= j) /\ PushAt(i)
  BY DEF Push
<1>2. CASE ~running
  <2>1. listed' = {} /\ batch' = {} /\ running' = running
    BY <1>1, <1>2 DEF PushAt
  <2>2. IsFiniteSet(listed')
    BY <2>1, FS_EmptySet
  <2> QED
    BY <1>2, <2>1, <2>2 DEF PushOrder, HeadOfPollKept
<1>3. CASE running
  <2>1. /\ txpoolCh' = Sent(txpoolCh, TxpoolSize, PoolOrder[i])
        /\ batch' = batch \ {i} /\ pollPc' = pollPc /\ listed' = listed
        /\ seen' = seen /\ running'
    BY <1>1, <1>3 DEF PushAt
  <2>2. CASE listed = {}
    BY <2>1, <2>2 DEF PushOrder, HeadOfPollKept
  <2>3. CASE listed # {}
    <3>1. /\ listed \subseteq DOMAIN PoolOrder /\ batch \subseteq listed
          /\ i \in listed /\ listed \subseteq Nat
      BY <2>3, HashStreamsAssumption DEF PushOrder, TypeOK
    <3>2. IsFiniteSet(listed) /\ IsFiniteSet(listed \ batch)
      BY PositionsFinite DEF TypeOK
    <3>3. listed \ batch' = (listed \ batch) \cup {i} /\ i \notin listed \ batch
      BY <2>1, <3>1
    <3>4. /\ Cardinality(listed \ batch) \in Nat
          /\ Cardinality(listed \ batch') = Cardinality(listed \ batch) + 1
      BY <3>2, <3>3, FS_AddElement, FS_CardinalityType
    <3>5. TxpoolSize \in Nat /\ PoolOrder[i] \in Hashes
          /\ txpoolCh \in Seq(Hashes)
      BY HashStreamsAssumption, <3>1 DEF TypeOK, Hashes
    <3>6. Len(txpoolCh') <= Cardinality(listed' \ batch')
      <4>1. Len(txpoolCh') <= Len(txpoolCh) + 1
        BY <2>1, <3>5, SentKeeps
      <4>2. Len(txpoolCh) <= Cardinality(listed \ batch)
        BY <2>3 DEF PushOrder
      <4>3. txpoolCh' \in Seq(Hashes)
        BY <2>1, <3>5, SentFits DEF TypeOK
      <4> QED
        BY <2>1, <3>4, <3>5, <4>1, <4>2, <4>3
    <3>7. \A k \in listed' \ batch', j \in listed' \cap batch' : k < j
      <4> SUFFICES ASSUME NEW k \in listed \ batch', NEW j \in listed \cap batch'
                   PROVE  k < j
        BY <2>1
      <4>1. CASE k = i
        BY <1>1, <2>1, <3>1, <4>1
      <4>2. CASE k \in listed \ batch
        BY <2>1, <4>2 DEF PushOrder
      <4> QED
        BY <3>3, <4>1, <4>2
    <3>8. PushOrder'
      BY <2>1, <2>3, <3>1, <3>2, <3>6, <3>7 DEF PushOrder
    <3>9. Ahead(i) = listed \ batch
      <4>1. \A j \in listed \ batch : j < i
        BY <3>1 DEF PushOrder
      <4>2. \A j \in batch : ~(j < i)
        BY <1>1, <3>1
      <4> QED
        BY <3>1, <4>1, <4>2 DEF Ahead
    <3>10. ASSUME NEW k \in listed' \ batch', Cardinality(Ahead(k)') < TxpoolSize
           PROVE  PoolOrder[k] \in seen' \/ InChannel(PoolOrder[k])'
      <4>1. Ahead(k)' = Ahead(k)
        BY <2>1 DEF Ahead
      <4>2. CASE k = i
        <5>1. Len(txpoolCh) < TxpoolSize
          <6>1. Len(txpoolCh) <= Cardinality(listed \ batch)
            BY <2>3 DEF PushOrder
          <6>2. Cardinality(listed \ batch) < TxpoolSize
            BY <3>9, <3>10, <4>1, <4>2
          <6> QED
            BY <3>4, <3>5, <6>1, <6>2
        <5>2. Holds(Sent(txpoolCh, TxpoolSize, PoolOrder[i]), PoolOrder[i])
          BY <3>5, <5>1, SentKeeps
        <5> QED
          BY <2>1, <4>2, <5>2 DEF InChannel
      <4>3. CASE k \in listed \ batch
        <5>1. PoolOrder[k] \in seen \/ InChannel(PoolOrder[k])
          BY <1>3, <3>10, <4>1, <4>3 DEF HeadOfPollKept, InChannel, Holds
        <5>2. InChannel(PoolOrder[k])
                => Holds(Sent(txpoolCh, TxpoolSize, PoolOrder[i]), PoolOrder[k])
          BY <3>5, SentKeeps DEF InChannel
        <5> QED
          BY <2>1, <5>1, <5>2 DEF InChannel
      <4> QED
        BY <2>1, <3>3, <4>2, <4>3
    <3>11. HeadOfPollKept'
      BY <3>10 DEF HeadOfPollKept, InChannel, Holds
    <3> QED
      BY <3>8, <3>11
  <2> QED
    BY <2>2, <2>3
<1> QED
  BY <1>2, <1>3

\* What the receiver takes it has seen, and what it leaves stays in order.
LEMMA RecvKeepsPoll ==
  ASSUME PollInv, RecvTxpool
  PROVE  PushOrder' /\ HeadOfPollKept'
<1> USE DEF PollInv
<1>1. /\ txpoolCh' = Tail(txpoolCh) /\ seen' = seen \cup {Head(txpoolCh)}
      /\ pollPc' = pollPc /\ batch' = batch /\ listed' = listed
      /\ running' = running /\ txpoolCh # <<>>
  BY DEF RecvTxpool, poll
<1>2. /\ txpoolCh \in Seq(Hashes) /\ Len(txpoolCh') = Len(txpoolCh) - 1
      /\ Len(txpoolCh) \in Nat
      /\ \A k \in DOMAIN txpoolCh : k # 1 => k - 1 \in DOMAIN txpoolCh'
                                              /\ txpoolCh'[k - 1] = txpoolCh[k]
      /\ Head(txpoolCh) = txpoolCh[1]
  BY <1>1 DEF TypeOK
<1>3. PushOrder'
  <2>1. IsFiniteSet(listed \ batch)
    BY PositionsFinite DEF TypeOK
  <2>2. Cardinality(listed \ batch) \in Nat
    BY <2>1, FS_CardinalityType
  <2> QED
    BY <1>1, <1>2, <2>2 DEF PushOrder
<1>4. ASSUME NEW k \in listed \ batch, PoolOrder[k] \in seen \/ InChannel(PoolOrder[k])
      PROVE  PoolOrder[k] \in seen' \/ InChannel(PoolOrder[k])'
  <2>1. CASE PoolOrder[k] \in seen
    BY <1>1, <2>1
  <2>2. CASE InChannel(PoolOrder[k])
    <3>1. PICK n \in DOMAIN txpoolCh : txpoolCh[n] = PoolOrder[k]
      BY <2>2 DEF InChannel, Holds
    <3>2. CASE n = 1
      BY <1>1, <1>2, <3>1, <3>2
    <3>3. CASE n # 1
      BY <1>2, <3>1, <3>3 DEF InChannel, Holds
    <3> QED
      BY <3>2, <3>3
  <2> QED
    BY <1>4, <2>1, <2>2
<1>5. HeadOfPollKept'
  BY <1>1, <1>4 DEF HeadOfPollKept, InChannel, Holds, Ahead
<1> QED
  BY <1>3, <1>5

LEMMA PollStep == PollInv /\ [Next]_vars => PollInv'
<1> SUFFICES ASSUME PollInv, [Next]_vars PROVE PollInv'
  OBVIOUS
<1> USE DEF PollInv
<1>1. TypeOK'
  BY TypeStep
<1>2. CASE UNCHANGED <<poll, txpoolCh, seen, running>>
  BY <1>1, <1>2 DEF poll, PushOrder, HeadOfPollKept, Ahead
<1>3. CASE RecvPending
  BY <1>1, <1>3 DEF RecvPending, poll, PushOrder, HeadOfPollKept, Ahead
<1>4. CASE Tick \/ PollFails
  <2>1. listed = {}
    BY <1>4 DEF Tick, PollFails, PushOrder
  <2>2. UNCHANGED <<batch, listed, txpoolCh>>
    BY <1>4 DEF Tick, PollFails
  <2> QED
    BY <1>1, <2>1, <2>2 DEF PushOrder, HeadOfPollKept
<1>5. CASE PollOk
  <2>1. /\ listed' = {} \/ (listed' = batch' /\ Len(txpoolCh) = 0)
        /\ pollPc' = "pushing" /\ txpoolCh' = txpoolCh
    <3>1. listed' = {} \/ (listed' = batch' /\ txpoolCh = <<>>)
      BY <1>5 DEF PollOk
    <3>2. pollPc' = "pushing" /\ txpoolCh' = txpoolCh
      BY <1>5 DEF PollOk
    <3>3. txpoolCh = <<>> => Len(txpoolCh) = 0
      OBVIOUS
    <3> QED
      BY <3>1, <3>2, <3>3
  <2>2. IsFiniteSet(listed')
    BY <1>1, PositionsFinite DEF TypeOK
  <2>3. listed' \ batch' = {}
    BY <2>1
  <2>4. Cardinality({}) = 0
    BY FS_EmptySet
  <2>5. listed' # {} => Len(txpoolCh') <= Cardinality(listed' \ batch')
    BY <2>1, <2>3, <2>4
  <2> QED
    BY <1>1, <2>1, <2>2, <2>3, <2>5 DEF PushOrder, HeadOfPollKept
<1>6. CASE Push
  BY <1>1, <1>6, PushKeepsPoll
<1>7. CASE Pushed
  <2>1. listed' = {}
    BY <1>7 DEF Pushed
  <2>2. IsFiniteSet(listed')
    BY <2>1, FS_EmptySet
  <2> QED
    BY <1>1, <2>1, <2>2 DEF PushOrder, HeadOfPollKept
<1>8. CASE RecvTxpool
  BY <1>1, <1>8, RecvKeepsPoll
<1>9. CASE Drop
  <2>1. ~running' /\ txpoolCh' = <<>> /\ UNCHANGED poll
    BY <1>9 DEF Drop
  <2>2. Len(txpoolCh') = 0
    BY <2>1
  <2>3. IsFiniteSet(listed \ batch)
    BY PositionsFinite DEF TypeOK
  <2>4. Cardinality(listed \ batch) \in Nat
    BY <2>3, FS_CardinalityType
  <2>5. PushOrder'
    BY <2>1, <2>2, <2>4 DEF PushOrder, poll
  <2>6. HeadOfPollKept'
    BY <2>1 DEF HeadOfPollKept
  <2> QED
    BY <1>1, <2>5, <2>6
<1>10. \/ UNCHANGED <<poll, txpoolCh, seen, running>>
       \/ RecvPending \/ Tick \/ PollFails \/ PollOk \/ Push \/ Pushed
       \/ RecvTxpool \/ Drop
  BY DEF Next, vars, Subscribed, SubscribeFails, Forward, Ended, Wake, Enter, Leave,
         Disconnect, Connect
<1> QED
  BY <1>2, <1>3, <1>4, <1>5, <1>6, <1>7, <1>8, <1>9, <1>10

\* HeadOfPollKept: whatever the pool was when it was polled, and however the
\* receiver runs between two pushes, a poll that found the channel empty
\* delivers the head of the pool, as long as the channel.
THEOREM PollDeliversHead == Spec => []HeadOfPollKept
<1>1. Init => PollInv
  <2> SUFFICES ASSUME Init PROVE PollInv
    OBVIOUS
  <2>1. listed = {}
    BY DEF Init
  <2>2. IsFiniteSet(listed)
    BY <2>1, FS_EmptySet
  <2> QED
    BY <2>1, <2>2, TypeInit DEF PollInv, PushOrder, HeadOfPollKept
<1>2. PollInv => HeadOfPollKept
  BY DEF PollInv
<1> QED
  BY <1>1, <1>2, PollStep, PTL DEF Spec
=============================================================================
