----------------------------- MODULE HashStreams -----------------------------
(***************************************************************************)
(* Where the bot's hashes come from: the task that forwards a subscription *)
(* and subscribes again when it ends (crates/chain/src/pending.rs; heads.rs*)
(* is the same loop over block numbers), and the task that polls the whole *)
(* txpool (crates/chain/src/txpool.rs). Each fills a bounded channel with  *)
(* try_send; the orchestrator empties both on another thread. Around them: *)
(* transactions that come and go, and a websocket that drops.              *)
(*                                                                         *)
(* How long a sleep takes is not modelled, only which delay is slept.      *)
(***************************************************************************)
EXTENDS Integers, Sequences, FiniteSets

CONSTANTS
  PoolOrder,     \* every hash, in the order txpool_content lists them
  PendingSize,   \* mempool.fetch_concurrency
  TxpoolSize,    \* 1024
  BaseDelay, MaxDelay,  \* mempool.ws_reconnect_base_ms and _max_ms
  DelayLimit,    \* 2^64, the values of a u64 being below it
  MaxStreak,     \* bound: sleeps in a row told apart, enough to reach MaxDelay
  MaxUnread      \* bound: hashes a subscription has in flight

Hashes == {PoolOrder[i] : i \in DOMAIN PoolOrder}

ASSUME HashStreamsAssumption ==
  /\ PoolOrder \in Seq(Hashes)
  /\ PendingSize \in Nat \ {0} /\ TxpoolSize \in Nat \ {0}
  /\ DelayLimit \in Nat \ {0}
  /\ BaseDelay \in 0 .. DelayLimit - 1 /\ MaxDelay \in 0 .. DelayLimit - 1
  /\ MaxStreak \in Nat /\ MaxUnread \in Nat

VARIABLES
  pool,      \* the transactions in the node's pool
  up,        \* the node accepts subscriptions
  subPc,     \* the subscription task: "subscribe", "streaming", "asleep", "returned"
  backoff,   \* its backoff, in ms
  streak,    \* sleeps since a subscription was last made (history)
  live,      \* the subscription's connection is still there
  unread,    \* what the subscription has and the task has not read
  pollPc,    \* the poll task: "tick", "asked", "pushing", "returned"
  batch,     \* what it has left to push: positions in PoolOrder
  listed,    \* all it has to push, if it found its channel empty (history)
  pendingCh, txpoolCh,  \* the two channels
  seen,      \* the hashes the orchestrator took (history)
  running    \* the orchestrator holds its ends of the channels

sub == <<subPc, backoff, streak, live, unread>>
poll == <<pollPc, batch, listed>>
vars == <<pool, up, sub, poll, pendingCh, txpoolCh, seen, running>>

Init ==
  /\ pool = {} /\ up \in BOOLEAN
  /\ subPc = "subscribe" /\ backoff = BaseDelay /\ streak = 0
  /\ live = FALSE /\ unread = <<>>
  /\ pollPc = "tick" /\ batch = {} /\ listed = {}
  /\ pendingCh = <<>> /\ txpoolCh = <<>> /\ seen = {}
  /\ running = TRUE

SentOverfull(channel, size, hash) ==
  IF Len(channel) <= size THEN Append(channel, hash) ELSE channel
\* try_send on a channel whose receiver is there: a full one drops the item.
Sent(channel, size, hash) ==
  IF Len(channel) < size THEN Append(channel, hash) ELSE channel
-----------------------------------------------------------------------------
\* The subscription task.

SubscribedNoReset ==
  /\ subPc = "subscribe" /\ up
  /\ subPc' = "streaming" /\ live' = TRUE /\ streak' = 0
  /\ UNCHANGED <<pool, up, backoff, unread, poll, pendingCh, txpoolCh, seen, running>>
Subscribed ==
  /\ subPc = "subscribe" /\ up
  /\ subPc' = "streaming" /\ live' = TRUE
  /\ backoff' = BaseDelay /\ streak' = 0
  /\ UNCHANGED <<pool, up, unread, poll, pendingCh, txpoolCh, seen, running>>

\* Err: the task sleeps.
SubscribeFails ==
  /\ subPc = "subscribe" /\ ~up
  /\ subPc' = "asleep"
  /\ UNCHANGED <<pool, up, backoff, streak, live, unread, poll, pendingCh, txpoolCh,
                 seen, running>>

\* Some(hash): it is sent, unless the receiver is gone.
Forward ==
  /\ subPc = "streaming" /\ unread # <<>>
  /\ unread' = Tail(unread)
  /\ IF running
       THEN /\ pendingCh' = Sent(pendingCh, PendingSize, Head(unread))
            /\ UNCHANGED subPc
       ELSE subPc' = "returned" /\ UNCHANGED pendingCh
  /\ UNCHANGED <<pool, up, backoff, streak, live, poll, txpoolCh, seen, running>>

\* None: the connection is gone and everything it brought was read.
StreamOver == subPc = "streaming" /\ unread = <<>> /\ ~live
EndedForGood ==
  /\ StreamOver
  /\ subPc' = "returned"
  /\ UNCHANGED <<pool, up, backoff, streak, live, unread, poll, pendingCh, txpoolCh,
                 seen, running>>
Ended ==
  /\ StreamOver
  /\ subPc' = "asleep"
  /\ UNCHANGED <<pool, up, backoff, streak, live, unread, poll, pendingCh, txpoolCh,
                 seen, running>>

\* next_backoff: doubled and cast to u64, then limited.
NextBackoff(current) ==
  LET next == (2 * current) % DelayLimit IN
  IF next < MaxDelay THEN next ELSE MaxDelay

\* The delay is over; the next one is longer, and the task subscribes again.
Wake ==
  /\ subPc = "asleep"
  /\ subPc' = "subscribe" /\ backoff' = NextBackoff(backoff)
  /\ streak' = IF streak < MaxStreak THEN streak + 1 ELSE streak
  /\ UNCHANGED <<pool, up, live, unread, poll, pendingCh, txpoolCh, seen, running>>
-----------------------------------------------------------------------------
\* The poll task.

Tick ==
  /\ pollPc = "tick"
  /\ pollPc' = "asked"
  /\ UNCHANGED <<pool, up, sub, batch, listed, pendingCh, txpoolCh, seen, running>>

PollFails ==
  /\ pollPc = "asked"
  /\ pollPc' = "tick"
  /\ UNCHANGED <<pool, up, sub, batch, listed, pendingCh, txpoolCh, seen, running>>

\* The pool as it is now. Its transactions are listed by sender and nonce, so
\* that two of them keep their order from one poll to the next.
PollOk ==
  /\ pollPc = "asked"
  /\ batch' = {i \in DOMAIN PoolOrder : PoolOrder[i] \in pool}
  /\ listed' = IF txpoolCh = <<>> THEN batch' ELSE {}
  /\ pollPc' = "pushing"
  /\ UNCHANGED <<pool, up, sub, pendingCh, txpoolCh, seen, running>>

\* One try_send of the loop over the content; the receiver may run between two.
PushAt(i) ==
  /\ pollPc = "pushing"
  /\ IF running
       THEN /\ txpoolCh' = Sent(txpoolCh, TxpoolSize, PoolOrder[i])
            /\ batch' = batch \ {i} /\ UNCHANGED <<pollPc, listed>>
       ELSE pollPc' = "returned" /\ batch' = {} /\ listed' = {}
            /\ UNCHANGED txpoolCh
  /\ UNCHANGED <<pool, up, sub, pendingCh, seen, running>>
PushNewestFirst == \E i \in batch : (\A j \in batch : j <= i) /\ PushAt(i)
Push == \E i \in batch : (\A j \in batch : i <= j) /\ PushAt(i)

Pushed ==
  /\ pollPc = "pushing" /\ batch = {}
  /\ pollPc' = "tick" /\ listed' = {}
  /\ UNCHANGED <<pool, up, sub, batch, pendingCh, txpoolCh, seen, running>>
-----------------------------------------------------------------------------
\* The orchestrator's end: it takes a hash, or returns and drops the channels.

RecvPending ==
  /\ running /\ pendingCh # <<>>
  /\ seen' = seen \cup {Head(pendingCh)} /\ pendingCh' = Tail(pendingCh)
  /\ UNCHANGED <<pool, up, sub, poll, txpoolCh, running>>

RecvTxpool ==
  /\ running /\ txpoolCh # <<>>
  /\ seen' = seen \cup {Head(txpoolCh)} /\ txpoolCh' = Tail(txpoolCh)
  /\ UNCHANGED <<pool, up, sub, poll, pendingCh, running>>

Drop ==
  /\ running /\ running' = FALSE
  /\ pendingCh' = <<>> /\ txpoolCh' = <<>>
  /\ UNCHANGED <<pool, up, sub, poll, seen>>
-----------------------------------------------------------------------------
\* The world. A subscription announces a transaction that enters the pool if
\* it is live then; nothing announces it later.

Enter(h) ==
  /\ h \notin pool /\ Len(unread) < MaxUnread
  /\ pool' = pool \cup {h}
  /\ unread' = IF live THEN Append(unread, h) ELSE unread
  /\ UNCHANGED <<up, subPc, backoff, streak, live, poll, pendingCh, txpoolCh, seen, running>>

Leave(h) ==
  /\ h \in pool /\ pool' = pool \ {h}
  /\ UNCHANGED <<up, sub, poll, pendingCh, txpoolCh, seen, running>>

\* The connection drops, and the node takes no new one until it is up again.
Disconnect ==
  /\ up /\ up' = FALSE
  /\ live' = FALSE
  /\ UNCHANGED <<pool, subPc, backoff, streak, unread, poll, pendingCh, txpoolCh,
                 seen, running>>

Connect ==
  /\ ~up /\ up' = TRUE
  /\ UNCHANGED <<pool, sub, poll, pendingCh, txpoolCh, seen, running>>

Next ==
  \/ Subscribed \/ SubscribeFails \/ Forward \/ Ended \/ Wake
  \/ Tick \/ PollFails \/ PollOk \/ Push \/ Pushed
  \/ RecvPending \/ RecvTxpool \/ Drop
  \/ \E h \in Hashes : Enter(h) \/ Leave(h)
  \/ Disconnect \/ Connect

Spec == Init /\ [][Next]_vars

\* Timers fire, and a task that can go on does. `up` says that the node accepts
\* a subscription. Nothing is assumed of the polls' answers or the receiver.
Fairness ==
  /\ WF_vars(Subscribed) /\ WF_vars(Forward) /\ WF_vars(Ended) /\ WF_vars(Wake)
  /\ WF_vars(Tick) /\ WF_vars(Push) /\ WF_vars(Pushed)

FairSpec == Spec /\ Fairness
-----------------------------------------------------------------------------
(***************************************************************************)
(* Properties.                                                             *)
(***************************************************************************)

\* Neither channel is ever over its size, nothing but hashes travels, and only
\* a task that streams (or that gave up doing so) has a live subscription.
TypeOK ==
  /\ pool \subseteq Hashes /\ seen \subseteq Hashes
  /\ up \in BOOLEAN /\ live \in BOOLEAN /\ running \in BOOLEAN
  /\ live => subPc \in {"streaming", "returned"}
  /\ subPc \in {"subscribe", "streaming", "asleep", "returned"}
  /\ backoff \in 0 .. DelayLimit - 1 /\ streak \in 0 .. MaxStreak
  /\ unread \in Seq(Hashes)
  /\ pollPc \in {"tick", "asked", "pushing", "returned"}
  /\ batch \subseteq DOMAIN PoolOrder /\ listed \subseteq DOMAIN PoolOrder
  /\ pendingCh \in Seq(Hashes) /\ Len(pendingCh) <= PendingSize
  /\ txpoolCh \in Seq(Hashes) /\ Len(txpoolCh) <= TxpoolSize

\* 1, 2, 4, 8, ...
PowerOf2[n \in Nat] == IF n = 0 THEN 1 ELSE 2 * PowerOf2[n - 1]

\* However failed subscriptions and dropped ones follow each other, the delays
\* since the last subscription that was made are base, 2 base, 4 base, ... up
\* to the maximum (docs: "auto-reconnect with backoff").
BackoffIsExponential ==
  backoff = IF streak = 0 THEN BaseDelay
            ELSE LET doubled == BaseDelay * PowerOf2[streak] IN
                 IF doubled < MaxDelay THEN doubled ELSE MaxDelay

\* A poll that found its channel empty drops none of the transactions that
\* the pool lists first, as many as the channel holds, however the receiver
\* runs between two of its pushes: each one pushed is in the channel or taken.
Ahead(i) == {j \in listed : j < i}
HeadOfPollKept ==
  running =>
    \A i \in listed \ batch :
      Cardinality(Ahead(i)) < TxpoolSize =>
        \/ PoolOrder[i] \in seen
        \/ \E k \in DOMAIN txpoolCh : txpoolCh[k] = PoolOrder[i]

\* Once the node stays up, the bot is subscribed for good, whatever dropped or
\* was refused before ("Subscriptions auto-reconnect with backoff when the WS stream
\* drops", docs/architecture.md).
Resubscribes == <>[]up => <>[](live \/ ~running)

\* A poll that finds the channel empty, as it does when the bot keeps up.
QuietPoll == PollOk /\ txpoolCh = <<>>

Backfilled(h) == (h \in pool) ~> (h \in seen \/ h \notin pool \/ ~running)

\* If polls succeed again and again with the channel empty, every transaction
\* that stays in the pool reaches the bot, also when no subscription announced
\* it: those that the pool lists first, as many as the channel holds.
HeadIsBackfilled ==
  []<><<QuietPoll>>_vars =>
    \A i \in DOMAIN PoolOrder : i <= TxpoolSize => Backfilled(PoolOrder[i])
=============================================================================
