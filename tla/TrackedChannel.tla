---------------------------- MODULE TrackedChannel ----------------------------
(***************************************************************************)
(* tracked_channel (crates/chain/src/channel.rs): a bounded tokio mpsc     *)
(* channel whose length is also kept in an AtomicUsize and shown in a      *)
(* gauge. One stream task sends and the orchestrator receives, on threads  *)
(* of their own: the atomic counter and the gauge are updated after the    *)
(* push and after the pop, so the two sides' updates interleave. Each      *)
(* action below is one step between which the other thread can run.        *)
(*                                                                         *)
(* What the items are makes no difference here, only how many are queued.  *)
(* The actions are those of a channel with metrics attached.               *)
(***************************************************************************)
EXTENDS Naturals

CONSTANTS
  Capacity,    \* channel_size: 0 makes mpsc::channel panic
  MaxDropped   \* bound: how far dropped_total is counted

ASSUME ChannelAssumption ==
  /\ Capacity \in Nat \ {0}
  /\ MaxDropped \in Nat

VARIABLES
  queued,    \* items in the mpsc channel
  len,       \* the AtomicUsize
  gauge,     \* ChannelMetrics.queue_depth
  dropped,   \* ChannelMetrics.dropped_total
  txPc,      \* where the sending task is in try_send
  txLen,     \* its local `len`
  rxPc,      \* where the receiving task is in recv
  rxLen      \* its local `len`

vars == <<queued, len, gauge, dropped, txPc, txLen, rxPc, rxLen>>

\* idle: between two calls; closed: that end of the channel is dropped.
TxStates == {"idle", "pushed", "counted", "closed"}
RxStates == {"idle", "popped", "uncounted", "loaded", "closed"}

Init ==
  /\ queued = 0 /\ len = 0 /\ gauge = 0 /\ dropped = 0
  /\ txPc = "idle" /\ txLen = 0
  /\ rxPc = "idle" /\ rxLen = 0
-----------------------------------------------------------------------------
\* TrackedSender::try_send, in its four outcomes and three steps.

\* The mpsc channel takes the item.
Push ==
  /\ txPc = "idle" /\ rxPc # "closed" /\ queued < Capacity
  /\ queued' = queued + 1
  /\ txPc' = "pushed"
  /\ UNCHANGED <<len, gauge, dropped, txLen, rxPc, rxLen>>

\* fetch_add, whose result the sender keeps.
CountPushed ==
  /\ txPc = "pushed"
  /\ len' = len + 1
  /\ txLen' = len + 1
  /\ txPc' = "counted"
  /\ UNCHANGED <<queued, gauge, dropped, rxPc, rxLen>>

\* set_queue_depth of what fetch_add returned, Ok(()).
ShowPushed ==
  /\ txPc = "counted"
  /\ gauge' = txLen
  /\ txPc' = "idle"
  /\ UNCHANGED <<queued, len, dropped, txLen, rxPc, rxLen>>

\* Err(Full): the item is dropped and counted as such, and nothing else.
Full ==
  /\ txPc = "idle" /\ rxPc # "closed" /\ queued = Capacity
  /\ dropped < MaxDropped
  /\ dropped' = dropped + 1
  /\ UNCHANGED <<queued, len, gauge, txPc, txLen, rxPc, rxLen>>

\* Err(Closed): the receiver is gone; the stream task returns.
Closed ==
  /\ txPc = "idle" /\ rxPc = "closed"
  /\ txPc' = "closed"
  /\ UNCHANGED <<queued, len, gauge, dropped, txLen, rxPc, rxLen>>

\* The stream task is gone for another reason (it panicked).
DropSender ==
  /\ txPc = "idle"
  /\ txPc' = "closed"
  /\ UNCHANGED <<queued, len, gauge, dropped, txLen, rxPc, rxLen>>
-----------------------------------------------------------------------------
\* TrackedReceiver::recv. A recv that select! cancels has popped nothing and
\* changed nothing: once the pop is ready the rest runs without a yield.

\* Some(item): the channel gives it up, and has room again.
Pop ==
  /\ rxPc = "idle" /\ queued > 0
  /\ queued' = queued - 1
  /\ rxPc' = "popped"
  /\ UNCHANGED <<len, gauge, dropped, txPc, txLen, rxLen>>

\* None: every sender is gone and nothing is queued; no decrement.
PopNone ==
  /\ rxPc = "idle" /\ queued = 0 /\ txPc = "closed"
  /\ rxPc' = "uncounted"
  /\ UNCHANGED <<queued, len, gauge, dropped, txPc, txLen, rxLen>>

\* fetch_update with checked_sub: a counter at 0 stays there.
UncountStale ==
  /\ rxPc = "popped"
  /\ len' = IF rxLen = 0 THEN 0 ELSE rxLen - 1
  /\ rxPc' = "uncounted"
  /\ UNCHANGED <<queued, gauge, dropped, txPc, txLen, rxLen>>
UncountWrapping ==
  /\ rxPc = "popped"
  /\ len' = len - 1
  /\ rxPc' = "uncounted"
  /\ UNCHANGED <<queued, gauge, dropped, txPc, txLen, rxLen>>
Uncount ==
  /\ rxPc = "popped"
  /\ len' = IF len = 0 THEN 0 ELSE len - 1
  /\ rxPc' = "uncounted"
  /\ UNCHANGED <<queued, gauge, dropped, txPc, txLen, rxLen>>

\* load: what the gauge will show.
Load ==
  /\ rxPc = "uncounted"
  /\ rxLen' = len
  /\ rxPc' = "loaded"
  /\ UNCHANGED <<queued, len, gauge, dropped, txPc, txLen>>

\* set_queue_depth, and the item is returned.
ShowPopped ==
  /\ rxPc = "loaded"
  /\ gauge' = rxLen
  /\ rxPc' = "idle"
  /\ UNCHANGED <<queued, len, dropped, txPc, txLen, rxLen>>

\* BotOrchestrator::run returns with an error: what is queued is freed, and
\* the counter is not touched.
DropReceiver ==
  /\ rxPc = "idle"
  /\ rxPc' = "closed"
  /\ queued' = 0
  /\ UNCHANGED <<len, gauge, dropped, txPc, txLen, rxLen>>

SenderNext == Push \/ CountPushed \/ ShowPushed \/ Full \/ Closed \/ DropSender
ReceiverNext == Pop \/ PopNone \/ Uncount \/ Load \/ ShowPopped \/ DropReceiver

Next == SenderNext \/ ReceiverNext

Spec == Init /\ [][Next]_vars
-----------------------------------------------------------------------------
(***************************************************************************)
(* Properties.                                                             *)
(***************************************************************************)

TypeOK ==
  /\ queued \in 0 .. Capacity
  /\ len \in Nat /\ gauge \in Nat /\ txLen \in Nat /\ rxLen \in Nat
  /\ dropped \in 0 .. MaxDropped
  /\ txPc \in TxStates /\ rxPc \in RxStates

\* What each side has done to the queue and not yet to the counter.
SenderOwes == IF txPc = "pushed" THEN 1 ELSE 0
ReceiverOwes == IF rxPc = "popped" THEN 1 ELSE 0

\* The counter with the steps still owed is the number of queued items or one
\* more, never less and never two more, however try_send and recv interleave:
\* a decrement that finds 0 before the sender's fetch_add is lost, but the
\* count it leaves too high keeps that from happening again.
DriftAtMostOne ==
  rxPc # "closed" =>
    \E drift \in 0 .. 1 :
      len + SenderOwes = queued + ReceiverOwes + drift

\* No call is under way on either side of an open channel.
Settled == txPc = "idle" /\ rxPc = "idle"

\* len() of a quiet channel is the number of its items, as the test
\* tracked_channel_updates_len expects. The code does not keep this.
SettledLenIsDepth == Settled => len = queued

\* The gauge of a quiet channel shows its counter, as its help text says
\* ("Current queue depth"). The code does not keep this either.
SettledGaugeIsLen == Settled => gauge = len
=============================================================================
