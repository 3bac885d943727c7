------------------------- MODULE TrackedChannelProofs -------------------------
(***************************************************************************)
(* Proofs about the tracked channel for every capacity: its types, and     *)
(* that its counter never drifts by more than one.                         *)
(***************************************************************************)
EXTENDS TrackedChannel, TLAPS

LEMMA TypeInductive == TypeOK /\ [Next]_vars => TypeOK'
<1> USE ChannelAssumption DEF TypeOK, TxStates, RxStates
<1> SUFFICES ASSUME TypeOK, [Next]_vars PROVE TypeOK'
  OBVIOUS
<1>1. CASE Push
  BY <1>1 DEF Push
<1>2. CASE CountPushed
  BY <1>2 DEF CountPushed
<1>3. CASE ShowPushed
  BY <1>3 DEF ShowPushed
<1>4. CASE Full
  BY <1>4 DEF Full
<1>5. CASE Closed
  BY <1>5 DEF Closed
<1>6. CASE DropSender
  BY <1>6 DEF DropSender
<1>7. CASE Pop
  BY <1>7 DEF Pop
<1>8. CASE PopNone
  BY <1>8 DEF PopNone
<1>9. CASE Uncount
  BY <1>9 DEF Uncount
<1>10. CASE Load
  BY <1>10 DEF Load
<1>11. CASE ShowPopped
  BY <1>11 DEF ShowPopped
<1>12. CASE DropReceiver
  BY <1>12 DEF DropReceiver
<1>13. CASE UNCHANGED vars
  BY <1>13 DEF vars
<1> QED
  BY <1>1, <1>2, <1>3, <1>4, <1>5, <1>6, <1>7, <1>8, <1>9, <1>10, <1>11,
     <1>12, <1>13 DEF Next, SenderNext, ReceiverNext

\* Counter, queue and gauge always have the shapes of the code's types: the
\* counter in particular never goes below 0.
THEOREM TypeCorrect == Spec => []TypeOK
<1>1. Init => TypeOK
  BY ChannelAssumption DEF Init, TypeOK, TxStates, RxStates
<1> QED
  BY <1>1, TypeInductive, PTL DEF Spec

\* Only Uncount can change the drift, and it does so only when the counter is
\* 0: then the sender owes its fetch_add, nothing else is queued and there was
\* no drift before.
LEMMA DriftInductive ==
  TypeOK /\ DriftAtMostOne /\ [Next]_vars => DriftAtMostOne'
<1> SUFFICES ASSUME TypeOK, DriftAtMostOne, [Next]_vars,
                    rxPc' # "closed"
             PROVE  \E drift \in 0 .. 1 :
                      len' + SenderOwes' = queued' + ReceiverOwes' + drift
  BY DEF DriftAtMostOne
<1> USE ChannelAssumption DEF TypeOK, TxStates, RxStates, SenderOwes, ReceiverOwes
<1>1. rxPc # "closed"
  BY DEF Next, SenderNext, ReceiverNext, Push, CountPushed, ShowPushed, Full,
         Closed, DropSender, Pop, PopNone, Uncount, Load, ShowPopped,
         DropReceiver, vars
<1>2. PICK drift \in 0 .. 1 : len + SenderOwes = queued + ReceiverOwes + drift
  BY <1>1 DEF DriftAtMostOne
<1>3. CASE Push
  BY <1>2, <1>3 DEF Push
<1>4. CASE CountPushed
  BY <1>2, <1>4 DEF CountPushed
<1>5. CASE Pop
  BY <1>2, <1>5 DEF Pop
<1>6. CASE Uncount
  <2>1. CASE len = 0
    <3>1. len' + SenderOwes' = queued' + ReceiverOwes' + 1
      BY <1>2, <1>6, <2>1 DEF Uncount
    <3> QED
      BY <3>1
  <2>2. CASE len # 0
    BY <1>2, <1>6, <2>2 DEF Uncount
  <2> QED
    BY <2>1, <2>2
<1>7. CASE ShowPushed \/ Full \/ Closed \/ DropSender
  BY <1>2, <1>7 DEF ShowPushed, Full, Closed, DropSender
<1>8. CASE PopNone \/ Load \/ ShowPopped \/ DropReceiver \/ UNCHANGED vars
  BY <1>2, <1>8 DEF PopNone, Load, ShowPopped, DropReceiver, vars
<1> QED
  BY <1>3, <1>4, <1>5, <1>6, <1>7, <1>8 DEF Next, SenderNext, ReceiverNext

\* For every capacity, the counter plus what is owed is the depth or one more.
THEOREM DriftBounded == Spec => []DriftAtMostOne
<1>1. Init => DriftAtMostOne
  BY DEF Init, DriftAtMostOne, SenderOwes, ReceiverOwes
<1> QED
  BY <1>1, TypeCorrect, DriftInductive, PTL DEF Spec

\* What a reader of len() can rely on when nothing is under way.
THEOREM SettledLenBounds ==
  Spec => [](Settled => len \in {queued, queued + 1})
<1>1. TypeOK /\ DriftAtMostOne => (Settled => len \in {queued, queued + 1})
  BY DEF TypeOK, DriftAtMostOne, Settled, SenderOwes, ReceiverOwes
<1> QED
  BY TypeCorrect, DriftBounded, <1>1, PTL
=============================================================================
