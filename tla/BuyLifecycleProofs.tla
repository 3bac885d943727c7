------------------------- MODULE BuyLifecycleProofs -------------------------
(***************************************************************************)
(* Theorems about BuyLifecycle: the bot in it is that of Bot, so that what *)
(* is proved of Bot holds here; and no buy is mined later than its         *)
(* deadline allows, for every deadline, clock and order of blocks.         *)
(***************************************************************************)
EXTENDS BuyLifecycle, BotProofs

\* The bot's part of a step is a step of Bot, or nothing.
LEMMA LifeStep == [LifeNext]_lifeVars => [Next]_vars
<1> SUFFICES ASSUME [LifeNext]_lifeVars PROVE [Next]_vars
  OBVIOUS
<1>1. CASE BotStep
  BY <1>1 DEF BotStep
<1>2. CASE Mine \/ NewBaseFee
  BY <1>2 DEF Mine, MineBuy, MineOther, NewBaseFee
<1>3. CASE UNCHANGED lifeVars
  BY <1>3 DEF lifeVars
<1> QED
  BY <1>1, <1>2, <1>3 DEF LifeNext

\* Every theorem about Bot is one about BuyLifecycle: a pool that mines late, in
\* blocks of any base fee, gives the bot no behaviour it had not before.
THEOREM LifeImplementsBot == LifeSpec => Spec
<1>1. LifeInit => Init
  BY DEF LifeInit
<1> QED
  BY <1>1, LifeStep, PTL DEF LifeSpec, Spec
-----------------------------------------------------------------------------
(***************************************************************************)
(* The deadline travels from execute_candidate to the block.               *)
(***************************************************************************)

AllRequests == {Request(c, d, n) : c \in Candidates \cup {NotAnAdd}, d \in Nat, n \in Nat}

Sends == [request : AllRequests, begun : Nat, at : Nat,
          fate : {"pool", "refused", "bought", "reverted"}]

\* A buy at time `at` has the deadline of the time its execution began.
InTime(s) ==
  /\ s.request.params.deadline = Deadline(s.begun)
  /\ s.fate = "bought" => s.at \div MsPerSec <= s.request.params.deadline

LifeInv ==
  /\ begun \in Nat
  /\ pc = "send" => deadline = Deadline(begun)
  /\ sent \in Seq(Sends)
  /\ \A i \in DOMAIN sent : InTime(sent[i])

LEMMA DeadlineType == \A ms \in Nat : Deadline(ms) \in Nat
  BY TxBuilderAssumption DEF Deadline

\* Both builders send the deadline they are given.
LEMMA RequestDeadline ==
  ASSUME NEW c, NEW d, NEW n
  PROVE  Request(c, d, n).params.deadline = d
<1> DEFINE pair == IF c.pair = None THEN ZeroAddress ELSE c.pair
<1>1. CASE c.curve = "v2"
  <2>1. Request(c, d, n) = apply("buyV2", BuyV2Params(c, d, pair), n)
    BY <1>1 DEF Request, build_buy_v2
  <2>2. Request(c, d, n).params = BuyV2Params(c, d, pair)
    BY <2>1 DEF apply
  <2> QED
    BY <2>2 DEF BuyV2Params
<1>2. CASE c.curve # "v2"
  <2>1. Request(c, d, n) = apply("buySolidly", BuySolidlyParams(c, d, pair), n)
    BY <1>2 DEF Request, build_buy_solidly
  <2>2. Request(c, d, n).params = BuySolidlyParams(c, d, pair)
    BY <2>1 DEF apply
  <2> QED
    BY <2>2 DEF BuySolidlyParams
<1> QED
  BY <1>1, <1>2

\* Only a handler that awaits the send makes an attempt.
LEMMA AttemptsInSend ==
  ASSUME TypeOK, Next, attempts' # attempts
  PROVE  pc = "send"
<1>1. ASSUME NEW s \in Sources, Recv(s) PROVE FALSE
  BY <1>1 DEF Recv, Handled
<1>2. CASE FetchMissing \/ FetchFails \/ FetchFound \/ ResolveDone \/ ResolveFails
  BY <1>2 DEF FetchMissing, FetchFails, FetchFound, ResolveDone, ResolveFails
<1>3. CASE SendOk \/ SendFails \/ SendLost
  BY <1>3 DEF SendOk, SendFails, SendLost
<1>4. ASSUME NEW s \in Sources, NEW h \in Hashes, Announce(s, h) PROVE FALSE
  BY <1>4 DEF Announce
<1>5. CASE Crash \/ Restart \/ Tick \/ WalletTx
  BY <1>5 DEF Crash, Restart, Tick, WalletTx
<1>6. ASSUME NEW f \in AllFactories, NEW c \in Adds, CreatePair(f, c) PROVE FALSE
  BY <1>6 DEF CreatePair
<1> QED
  BY <1>1, <1>2, <1>3, <1>4, <1>5, <1>6 DEF Next, BotNext, WorldNext

LEMMA LifeInitInv == LifeInit => LifeInv
  BY DEF LifeInit, Init, LifeInv

LEMMA LifeInvStep == TypeOK /\ LifeInv /\ [LifeNext]_lifeVars => LifeInv'
<1> SUFFICES ASSUME TypeOK, LifeInv, [LifeNext]_lifeVars PROVE LifeInv'
  OBVIOUS
<1>1. now \in Nat /\ begun \in Nat /\ sent \in Seq(Sends)
  BY DEF TypeOK, ChainOK, LifeInv
<1>2. CASE BotStep
  <2>1. DeadlineChosen /\ RequestSent /\ Next
    BY <1>2 DEF BotStep
  <2>2. begun' \in Nat /\ (pc' = "send" => deadline' = Deadline(begun'))
    <3>1. CASE pc' # "send"
      BY <2>1, <3>1 DEF DeadlineChosen
    <3>2. CASE pc' = "send" /\ pc # "send"
      BY <1>1, <2>1, <3>2 DEF DeadlineChosen
    <3>3. CASE pc' = "send" /\ pc = "send"
      BY <1>1, <2>1, <3>3 DEF DeadlineChosen, LifeInv
    <3> QED
      BY <3>1, <3>2, <3>3
  <2>3. CASE attempts' = attempts
    BY <2>1, <2>2, <2>3 DEF RequestSent, LifeInv
  <2>4. CASE attempts' # attempts
    <3> DEFINE new == [request |-> Request(cand, deadline, nonce), begun |-> begun,
                       at |-> 0,
                       fate |-> IF attempts'[Len(attempts')].accepted THEN "pool"
                                ELSE "refused"]
    <3>1. pc = "send" /\ sent' = Append(sent, new)
      BY <2>1, <2>4, AttemptsInSend DEF RequestSent
    <3>2. deadline = Deadline(begun) /\ deadline \in Nat
      BY <1>1, <3>1, DeadlineType DEF LifeInv
    <3>3. cand \in Candidates \cup {NotAnAdd} /\ nonce \in Nat
      BY DEF TypeOK, TaskOK
    <3>4. new \in Sends
      <4>1. Request(cand, deadline, nonce) \in AllRequests
        BY <3>2, <3>3 DEF AllRequests
      <4> QED
        BY <1>1, <4>1 DEF Sends
    <3>5. InTime(new)
      BY <3>2, RequestDeadline DEF InTime
    <3>6. sent' \in Seq(Sends)
      BY <1>1, <3>1, <3>4
    <3>7. ASSUME NEW i \in DOMAIN sent' PROVE InTime(sent'[i])
      <4>1. CASE i \in DOMAIN sent
        <5>1. sent'[i] = sent[i]
          BY <1>1, <3>1, <3>4, <4>1
        <5> QED
          BY <4>1, <5>1 DEF LifeInv
      <4>2. CASE i \notin DOMAIN sent
        <5>1. sent'[i] = new
          BY <1>1, <3>1, <3>4, <4>2
        <5> QED
          BY <3>5, <5>1
      <4> QED
        BY <4>1, <4>2
    <3> QED
      BY <2>2, <3>6, <3>7 DEF LifeInv
  <2> QED
    BY <2>3, <2>4
<1>3. ASSUME NEW i \in DOMAIN sent, NEW fate \in {"bought", "reverted"},
             MineBuy(i, fate)
      PROVE  LifeInv'
  <2> DEFINE new == [request |-> sent[i].request, begun |-> sent[i].begun,
                     fate |-> fate, at |-> IF fate = "bought" THEN now ELSE 0]
  <2>1. sent' = [sent EXCEPT ![i] = new]
    BY <1>3 DEF MineBuy
  <2>2. new \in Sends
    <3>1. sent[i].request \in AllRequests /\ sent[i].begun \in Nat
      <4>1. sent[i] \in Sends
        BY <1>1
      <4> QED
        BY <4>1 DEF Sends
    <3>2. (IF fate = "bought" THEN now ELSE 0) \in Nat
      BY <1>1
    <3> QED
      BY <3>1, <3>2 DEF Sends
  <2>3. InTime(new)
    BY <1>3 DEF MineBuy, LifeInv, InTime
  <2>4. sent' \in Seq(Sends) /\ DOMAIN sent' = DOMAIN sent
    BY <1>1, <2>1, <2>2
  <2>5. \A j \in DOMAIN sent : sent'[j] = IF j = i THEN new ELSE sent[j]
    BY <1>1, <2>1
  <2>6. \A j \in DOMAIN sent' : InTime(sent'[j])
    BY <2>3, <2>4, <2>5 DEF LifeInv
  <2>7. UNCHANGED <<pc, begun, deadline>>
    BY <1>3 DEF MineBuy, vars, task
  <2> QED
    BY <1>1, <2>4, <2>6, <2>7 DEF LifeInv
<1>4. CASE MineOther \/ NewBaseFee \/ UNCHANGED lifeVars
  <2>1. UNCHANGED <<pc, begun, deadline, sent>>
    BY <1>4 DEF MineOther, NewBaseFee, lifeVars, account, vars, task
  <2> QED
    BY <2>1 DEF LifeInv
<1> QED
  BY <1>2, <1>3, <1>4 DEF LifeNext, Mine

\* Rounding to seconds makes a deadline at most one second generous.
LEMMA SecondsRound ==
  ASSUME NEW from \in Nat, NEW at \in Nat, at \div MsPerSec <= Deadline(from)
  PROVE  at < from + (DeadlineSecs + 1) * MsPerSec
<1> DEFINE M == MsPerSec
<1> DEFINE q == at \div M
<1> DEFINE p == from \div M
<1>1. M \in Nat /\ M > 0 /\ DeadlineSecs \in Nat
  BY TxBuilderAssumption
<1>2. q \in Nat /\ p \in Nat /\ q <= p + DeadlineSecs
  BY <1>1 DEF Deadline
<1>3. at = q * M + (at % M) /\ at % M < M /\ at % M >= 0
  BY <1>1
<1>4. from = p * M + (from % M) /\ from % M < M /\ from % M >= 0
  BY <1>1
<1> HIDE DEF q, p, M
<1>5. q * M <= (p + DeadlineSecs) * M
  BY <1>1, <1>2
<1>6. (p + DeadlineSecs) * M = p * M + DeadlineSecs * M
  BY <1>1, <1>2
<1>7. (DeadlineSecs + 1) * M = DeadlineSecs * M + M
  BY <1>1
<1>8. at < from + (DeadlineSecs + 1) * M
  BY <1>1, <1>2, <1>3, <1>4, <1>5, <1>6, <1>7
<1> QED
  BY <1>8 DEF M

\* NoLateBuy: however long a buy waits, for a nonce or for the base fee, it does
\* not buy later than deadline_secs and a second after execute_candidate began.
THEOREM NoLateBuyHolds == LifeSpec => []NoLateBuy
<1>1. LifeInv => NoLateBuy
  <2> SUFFICES ASSUME LifeInv, NEW i \in DOMAIN sent, sent[i].fate = "bought"
               PROVE  sent[i].at < sent[i].begun + (DeadlineSecs + 1) * MsPerSec
    BY DEF NoLateBuy
  <2>1. sent[i] \in Sends /\ InTime(sent[i])
    BY DEF LifeInv
  <2>2. sent[i].at \in Nat /\ sent[i].begun \in Nat
    BY <2>1 DEF Sends
  <2>3. sent[i].at \div MsPerSec <= Deadline(sent[i].begun)
    BY <2>1 DEF InTime
  <2> QED
    BY <2>2, <2>3, SecondsRound
<1>2. LifeSpec => []TypeOK
  BY LifeImplementsBot, TypeCorrect, PTL
<1>3. LifeSpec => []LifeInv
  BY <1>2, LifeInitInv, LifeInvStep, PTL DEF LifeSpec
<1> QED
  BY <1>1, <1>3, PTL
-----------------------------------------------------------------------------
(***************************************************************************)
(* The pool in the order of nonces.                                        *)
(***************************************************************************)

LineInv ==
  /\ minedNonce \in Nat /\ minedNonce <= accountNonce
  /\ \A i \in DOMAIN sent : sent[i].request.nonce \in Nat
  /\ WaitingInLine

\* The request carries the nonce that was drawn for it and the highest fee.
LEMMA RequestNonce ==
  ASSUME NEW c, NEW d, NEW n
  PROVE  /\ Request(c, d, n).nonce = n
         /\ Request(c, d, n).feeCap = MaxFeeGwei * WeiPerGwei
  BY DEF Request, build_buy_v2, build_buy_solidly, apply, gwei_to_wei

\* A buy that is accepted takes the account's next nonce; any other attempt,
\* and any other step of the bot, leaves the account's nonces as they are, or
\* adds one of the wallet's own.
LEMMA AccountStep ==
  ASSUME NonceInv, NeverAhead, Next
  PROVE  /\ accountNonce' \in {accountNonce, accountNonce + 1}
         /\ attempts' # attempts =>
              /\ attempts' # <<>> /\ nonce \in Nat
              /\ attempts'[Len(attempts')].accepted =>
                   nonce = accountNonce /\ accountNonce' = accountNonce + 1
<1> USE DEF chain
<1>1. ASSUME NEW accepted \in BOOLEAN, Attempt(accepted), pc = "send"
      PROVE  /\ accountNonce' \in {accountNonce, accountNonce + 1}
             /\ attempts' # <<>> /\ nonce \in Nat
             /\ attempts'[Len(attempts')].accepted =>
                  nonce = accountNonce /\ accountNonce' = accountNonce + 1
  <2>1. nonce \in Nat /\ accountNonce \in Nat /\ nonce <= accountNonce
    BY <1>1 DEF NonceInv, TypeOK, TaskOK, ChainOK, NeverAhead
  <2>2. attempts' # <<>> /\ attempts'[Len(attempts')] = Buy(accepted)
    BY <1>1, AttemptAppends DEF NonceInv
  <2>3. Buy(accepted).accepted = accepted
    BY DEF Buy
  <2>4. accepted => nonce >= accountNonce
    BY <1>1 DEF Attempt
  <2>5. accountNonce' = IF accepted /\ nonce = accountNonce THEN accountNonce + 1
                        ELSE accountNonce
    BY <1>1 DEF Attempt
  <2> QED
    BY <2>1, <2>2, <2>3, <2>4, <2>5
<1>2. CASE SendOk \/ SendFails \/ SendLost
  BY <1>1, <1>2 DEF SendOk, SendFails, SendLost
<1>3. CASE ~(SendOk \/ SendFails \/ SendLost)
  <2>1. attempts' = attempts
    BY <1>3 DEF Next, BotNext, WorldNext, Recv, Handled, FetchMissing, FetchFails,
                FetchFound, ResolveDone, ResolveFails, Announce, Crash, Restart, Tick,
                WalletTx, CreatePair
  <2>2. accountNonce' \in {accountNonce, accountNonce + 1}
    BY <1>3 DEF Next, BotNext, WorldNext, Recv, Handled, FetchMissing, FetchFails,
                FetchFound, ResolveDone, ResolveFails, Announce, Crash, Restart, Tick,
                WalletTx, CreatePair
  <2> QED
    BY <2>1, <2>2
<1> QED
  BY <1>2, <1>3

\* A step of the bot that makes no attempt.
LEMMA LongerLine ==
  ASSUME LineInv, accountNonce \in Nat,
         accountNonce' \in {accountNonce, accountNonce + 1},
         UNCHANGED <<sent, minedNonce>>
  PROVE  LineInv'
<1>1. minedNonce' <= accountNonce'
  BY DEF LineInv
<1>2. \A n \in minedNonce .. accountNonce - 1 : n \in minedNonce .. accountNonce' - 1
  <2>1. CASE accountNonce' = accountNonce
    BY <2>1
  <2>2. CASE accountNonce' = accountNonce + 1
    <3>1. minedNonce \in Nat
      BY DEF LineInv
    <3> HIDE DEF LineInv
    <3> QED
      BY <2>2, <3>1
  <2> QED
    BY <2>1, <2>2
<1>3. WaitingInLine'
  BY <1>2 DEF LineInv, WaitingInLine, Waiting
<1> QED
  BY <1>1, <1>3 DEF LineInv

\* A buy joins the line at its end, or was refused.
LEMMA JoinsLine ==
  ASSUME LineInv, sent \in Seq(Sends), accountNonce \in Nat, nonce \in Nat,
         accountNonce' \in {accountNonce, accountNonce + 1},
         minedNonce' = minedNonce,
         NEW new, new \in Sends, new.request.nonce = nonce,
         new.request.feeCap = MaxFeeGwei * WeiPerGwei,
         new.fate = "pool" => nonce = accountNonce /\ accountNonce' = accountNonce + 1,
         sent' = Append(sent, new)
  PROVE  LineInv'
<1> DEFINE n == Len(sent)
<1>1. /\ n \in Nat /\ DOMAIN sent = 1 .. n /\ DOMAIN sent' = 1 .. n + 1
      /\ sent'[n + 1] = new /\ \A i \in 1 .. n : sent'[i] = sent[i]
  OBVIOUS
<1> HIDE DEF n
<1>2. minedNonce \in Nat /\ minedNonce <= accountNonce /\ minedNonce' <= accountNonce'
  BY DEF LineInv
<1>3. \A i \in DOMAIN sent' : sent'[i].request.nonce \in Nat
  BY <1>1 DEF LineInv
<1>4. ASSUME NEW i \in DOMAIN sent', sent'[i].fate = "pool"
      PROVE  /\ sent'[i].request.nonce \in minedNonce' .. accountNonce' - 1
             /\ sent'[i].request.feeCap = MaxFeeGwei * WeiPerGwei
             /\ i # n + 1 => sent'[i].request.nonce < accountNonce
  <2>1. CASE i = n + 1
    BY <1>1, <1>2, <1>4, <2>1
  <2>2. CASE i \in 1 .. n
    <3>1. Waiting(i) /\ sent'[i] = sent[i]
      BY <1>1, <1>4, <2>2 DEF Waiting
    <3>2. sent[i].request.nonce \in minedNonce .. accountNonce - 1
          /\ sent[i].request.feeCap = MaxFeeGwei * WeiPerGwei
      BY <1>1, <2>2, <3>1 DEF LineInv, WaitingInLine
    <3> QED
      BY <1>2, <3>1, <3>2
  <2> QED
    BY <1>1, <2>1, <2>2
<1>5. ASSUME NEW i \in DOMAIN sent', NEW j \in DOMAIN sent' \ {i},
             sent'[i].fate = "pool", sent'[j].fate = "pool"
      PROVE  sent'[j].request.nonce # sent'[i].request.nonce
  <2>1. CASE i \in 1 .. n /\ j \in 1 .. n
    <3>1. Waiting(i) /\ Waiting(j) /\ sent'[i] = sent[i] /\ sent'[j] = sent[j]
      BY <1>1, <1>5, <2>1 DEF Waiting
    <3> QED
      BY <1>1, <1>5, <2>1, <3>1 DEF LineInv, WaitingInLine
  <2>2. CASE i = n + 1
    <3>1. sent'[i].request.nonce = accountNonce
      BY <1>1, <1>5, <2>2
    <3>2. sent'[j].request.nonce < accountNonce
      BY <1>4, <1>5, <2>2
    <3> QED
      BY <1>3, <3>1, <3>2
  <2>3. CASE j = n + 1
    <3>1. sent'[j].request.nonce = accountNonce
      BY <1>1, <1>5, <2>3
    <3>2. sent'[i].request.nonce < accountNonce
      BY <1>4, <1>5, <2>3
    <3> QED
      BY <1>3, <3>1, <3>2
  <2> QED
    BY <1>1, <2>1, <2>2, <2>3
<1>6. WaitingInLine'
  BY <1>4, <1>5 DEF WaitingInLine, Waiting
<1> QED
  BY <1>2, <1>3, <1>6 DEF LineInv

\* A block takes the first of the line.
LEMMA LineMoves ==
  ASSUME LineInv, accountNonce \in Nat, accountNonce' = accountNonce,
         minedNonce' = minedNonce + 1, minedNonce < accountNonce,
         DOMAIN sent' = DOMAIN sent,
         \A i \in DOMAIN sent :
           /\ sent'[i].request = sent[i].request
           /\ sent'[i].fate = "pool" => sent[i].fate = "pool"
                                        /\ sent[i].request.nonce # minedNonce
  PROVE  LineInv'
<1>1. minedNonce' \in Nat /\ minedNonce' <= accountNonce'
  BY DEF LineInv
<1>2. \A i \in DOMAIN sent' : sent'[i].request.nonce \in Nat
  BY DEF LineInv
<1>3. ASSUME NEW i \in DOMAIN sent', sent'[i].fate = "pool"
      PROVE  /\ Waiting(i)
             /\ sent'[i].request.nonce \in minedNonce' .. accountNonce' - 1
             /\ sent'[i].request.feeCap = MaxFeeGwei * WeiPerGwei
  <2>1. Waiting(i) /\ sent[i].request.nonce # minedNonce
    BY <1>3 DEF Waiting
  <2>2. sent[i].request.nonce \in minedNonce .. accountNonce - 1
        /\ sent[i].request.feeCap = MaxFeeGwei * WeiPerGwei
    BY <2>1 DEF LineInv, WaitingInLine, Waiting
  <2> QED
    BY <2>1, <2>2 DEF LineInv
<1>4. WaitingInLine'
  BY <1>3 DEF LineInv, WaitingInLine, Waiting
<1> QED
  BY <1>1, <1>2, <1>4 DEF LineInv

LEMMA LineStep ==
  NonceInv /\ NeverAhead /\ LifeInv /\ LineInv /\ LifeInv' /\ [LifeNext]_lifeVars
    => LineInv'
<1> SUFFICES ASSUME NonceInv, NeverAhead, LifeInv, LineInv, LifeInv',
                    [LifeNext]_lifeVars
             PROVE  LineInv'
  OBVIOUS
<1>1. /\ accountNonce \in Nat /\ sent \in Seq(Sends) /\ sent' \in Seq(Sends)
      /\ minedNonce \in Nat
  BY DEF NonceInv, TypeOK, ChainOK, LifeInv, LineInv
<1>2. CASE BotStep
  <2>1. RequestSent /\ Next /\ minedNonce' = minedNonce
    BY <1>2 DEF BotStep
  <2>2. accountNonce' \in {accountNonce, accountNonce + 1}
    BY <2>1, AccountStep
  <2>3. CASE attempts' = attempts
    BY <1>1, <2>1, <2>2, <2>3, LongerLine DEF RequestSent
  <2>4. CASE attempts' # attempts
    <3> DEFINE new == [request |-> Request(cand, deadline, nonce), begun |-> begun,
                       at |-> 0,
                       fate |-> IF attempts'[Len(attempts')].accepted THEN "pool"
                                ELSE "refused"]
    <3>1. sent' = Append(sent, new)
      BY <2>1, <2>4 DEF RequestSent
    <3>2. new \in Sends
      <4>1. Len(sent) + 1 \in DOMAIN sent' /\ sent'[Len(sent) + 1] = new
        BY <1>1, <3>1
      <4> QED
        BY <1>1, <4>1
    <3>3. nonce \in Nat
          /\ (new.fate = "pool" =>
                nonce = accountNonce /\ accountNonce' = accountNonce + 1)
      BY <2>1, <2>4, AccountStep
    <3>4. new.request.nonce = nonce /\ new.request.feeCap = MaxFeeGwei * WeiPerGwei
      BY RequestNonce
    <3> HIDE DEF new
    <3> QED
      BY <1>1, <2>1, <2>2, <3>1, <3>2, <3>3, <3>4, JoinsLine
  <2> QED
    BY <2>3, <2>4
<1>3. ASSUME NEW i \in DOMAIN sent, NEW fate \in {"bought", "reverted"},
             MineBuy(i, fate)
      PROVE  LineInv'
  <2> DEFINE new == [request |-> sent[i].request, begun |-> sent[i].begun,
                     fate |-> fate, at |-> IF fate = "bought" THEN now ELSE 0]
  <2>1. sent' = [sent EXCEPT ![i] = new]
    BY <1>3 DEF MineBuy
  <2>2. DOMAIN sent' = DOMAIN sent
        /\ \A j \in DOMAIN sent : sent'[j] = IF j = i THEN new ELSE sent[j]
    BY <1>1, <2>1
  <2>3. Waiting(i) /\ sent[i].request.nonce = minedNonce
    BY <1>3 DEF MineBuy, Waiting
  <2>4. minedNonce < accountNonce
    BY <1>1, <2>3 DEF LineInv, WaitingInLine
  <2>5. accountNonce' = accountNonce /\ minedNonce' = minedNonce + 1
    BY <1>3 DEF MineBuy, vars, chain
  <2>6. ASSUME NEW j \in DOMAIN sent
        PROVE  /\ sent'[j].request = sent[j].request
               /\ sent'[j].fate = "pool" => sent[j].fate = "pool"
                                            /\ sent[j].request.nonce # minedNonce
    <3>1. CASE j = i
      BY <2>2, <3>1
    <3>2. CASE j # i
      <4>1. sent'[j] = sent[j]
        BY <2>2, <3>2
      <4>2. sent[j].fate = "pool" => sent[j].request.nonce # sent[i].request.nonce
        BY <2>3, <3>2 DEF LineInv, WaitingInLine, Waiting
      <4> QED
        BY <2>3, <4>1, <4>2
    <3> QED
      BY <3>1, <3>2
  <2> QED
    BY <1>1, <2>2, <2>4, <2>5, <2>6, LineMoves
<1>4. CASE MineOther
  <2>1. /\ minedNonce < accountNonce /\ minedNonce' = minedNonce + 1
        /\ sent' = sent /\ accountNonce' = accountNonce
        /\ \A i \in DOMAIN sent : sent[i].fate = "pool"
                                   => sent[i].request.nonce # minedNonce
    BY <1>4 DEF MineOther, vars, chain
  <2> QED
    BY <1>1, <2>1, LineMoves
<1>5. CASE NewBaseFee \/ UNCHANGED lifeVars
  <2>1. UNCHANGED <<sent, minedNonce, accountNonce>>
    BY <1>5 DEF NewBaseFee, lifeVars, account, vars, chain
  <2> QED
    BY <1>1, <2>1, LongerLine
<1> QED
  BY <1>2, <1>3, <1>4, <1>5 DEF LifeNext, Mine

LEMMA LineInvariant == LifeSpec => []LineInv
<1>1. LifeInit => LineInv
  <2> SUFFICES ASSUME LifeInit PROVE LineInv
    OBVIOUS
  <2>1. accountNonce \in Nat /\ minedNonce \in 0 .. accountNonce /\ sent = <<>>
    BY BotAssumption DEF LifeInit, Init
  <2> QED
    BY <2>1 DEF LineInv, WaitingInLine
<1>2. LifeSpec => [](NonceInv /\ NeverAhead)
  BY LifeImplementsBot, NeverAheadInvariant, PTL
<1>3. LifeSpec => []LifeInv
  <2>1. LifeSpec => []TypeOK
    BY LifeImplementsBot, TypeCorrect, PTL
  <2> QED
    BY <2>1, LifeInitInv, LifeInvStep, PTL DEF LifeSpec
<1> QED
  BY <1>1, <1>2, <1>3, LineStep, PTL DEF LifeSpec

\* WaitingInLine: of the nonces between the mined one and the account's, each
\* buy in the pool has its own, and the highest fee of the configuration.
THEOREM BuysWaitInLine == LifeSpec => []WaitingInLine
<1>1. LineInv => WaitingInLine
  BY DEF LineInv
<1> QED
  BY <1>1, LineInvariant, PTL

\* What a block may take: the guards of MineBuy, with a revert, and MineOther.
NextIsBuy(i) ==
  Waiting(i) /\ sent[i].request.nonce = minedNonce /\ baseFee <= sent[i].request.feeCap
NextIsOther ==
  minedNonce < accountNonce
    /\ \A i \in DOMAIN sent : ~(Waiting(i) /\ sent[i].request.nonce = minedNonce)

\* The safe part of BuysSettle: while a buy waits, and the base fee is within
\* max_fee_gwei, there is a transaction that a block may take. No state is a
\* dead end for a buy the node took.
THEOREM ChainNeverStuck ==
  LifeSpec => [](\A i \in DOMAIN sent :
                   Waiting(i) /\ baseFee <= MaxFeeGwei * WeiPerGwei =>
                     NextIsOther \/ \E j \in DOMAIN sent : NextIsBuy(j))
<1>1. ASSUME LineInv, accountNonce \in Nat, NEW i \in DOMAIN sent, Waiting(i),
             baseFee <= MaxFeeGwei * WeiPerGwei
      PROVE  NextIsOther \/ \E j \in DOMAIN sent : NextIsBuy(j)
  <2>1. minedNonce < accountNonce
    BY <1>1 DEF LineInv, WaitingInLine
  <2>2. ASSUME NEW j \in DOMAIN sent, Waiting(j), sent[j].request.nonce = minedNonce
        PROVE  NextIsBuy(j)
    BY <1>1, <2>2 DEF LineInv, WaitingInLine, NextIsBuy
  <2> QED
    BY <2>1, <2>2 DEF NextIsOther
<1>2. LineInv /\ accountNonce \in Nat
        => \A i \in DOMAIN sent :
             Waiting(i) /\ baseFee <= MaxFeeGwei * WeiPerGwei =>
               NextIsOther \/ \E j \in DOMAIN sent : NextIsBuy(j)
  BY <1>1
<1>3. LifeSpec => []TypeOK
  BY LifeImplementsBot, TypeCorrect, PTL
<1>4. TypeOK => accountNonce \in Nat
  BY DEF TypeOK, ChainOK
<1> QED
  BY <1>2, <1>3, <1>4, LineInvariant, PTL
=============================================================================
