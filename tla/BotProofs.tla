------------------------------ MODULE BotProofs ------------------------------
(***************************************************************************)
(* Theorems about Bot, for every configuration, every set of transactions  *)
(* and every number of crashes and restarts.                               *)
(***************************************************************************)
EXTENDS BotHistory, FiniteSetTheorems, TLAPS

\* A buy is of the add it was announced by: the other token against a base
\* token the executor can hold, for the amount of base the add offers, which
\* is at least min_base_amount, through the add's own router.
Matches(c, tx) ==
  /\ tx.selector \in {"addLiquidity", "addLiquiditySolidly"}
  /\ c.router = tx.to /\ c.router \in Routers
  /\ c.base \in BaseTokens \ {Native}
  /\ \/ /\ c.base = tx.args.tokenA /\ c.token = tx.args.tokenB
        /\ c.amount = tx.args.amountADesired
     \/ /\ c.base = tx.args.tokenB /\ c.token = tx.args.tokenA
        /\ c.amount = tx.args.amountBDesired
  /\ c.amount >= MinBase
  /\ tx.selector = "addLiquidity" <=> c.curve = "v2"
  /\ c.curve # "v2" => (tx.args.stable <=> c.curve = "stable")
BuyMatchesAdd ==
  \A i \in DOMAIN attempts : Matches(attempts[i].cand, Tx[attempts[i].hash])

\* A candidate of tx, by what its arguments say: the native coin, or one of
\* the two tokens against the other.
IsOf(tx, base, token, amount) ==
  \/ base = Native
  \/ /\ tx.selector \in {"addLiquidity", "addLiquiditySolidly"}
     /\ \/ /\ base = tx.args.tokenA /\ token = tx.args.tokenB
           /\ amount = tx.args.amountADesired
        \/ /\ base = tx.args.tokenB /\ token = tx.args.tokenA
           /\ amount = tx.args.amountBDesired

\* What detection makes of a transaction it takes for an add.
LEMMA DetectedAdd ==
  ASSUME NEW tx, Encoded(tx), Detect(tx).verdict = "candidate"
  PROVE  /\ tx.to \in Routers
         /\ tx.selector # "unknown"
         /\ \E base, token, amount :
              /\ Detect(tx) = Candidate(tx, Decoded(tx), base, token, amount)
              /\ ~(amount < MinBase)
              /\ base \in BaseTokens
              /\ IsOf(tx, base, token, amount)
<1>1. NotAnAdd.verdict # "candidate" /\ Undecodable.verdict # "candidate"
  BY DEF NotAnAdd, Undecodable
<1> DEFINE call == decode_router_calldata(tx)
<1>2. /\ tx.to \in Routers /\ call.call # "none" /\ call.call # "error"
      /\ Detect(tx) = Chosen(tx, call)
  BY <1>1 DEF Detect
<1>3. tx.selector # "unknown" /\ call = Decoded(tx)
  BY <1>2 DEF decode_router_calldata, NoCall, BadCall
<1>4. ASSUME NEW base, NEW token, NEW amount,
             Detect(tx) = Offered(tx, call, base, token, amount)
      PROVE  /\ Detect(tx) = Candidate(tx, Decoded(tx), base, token, amount)
             /\ ~(amount < MinBase)
  BY <1>1, <1>3, <1>4 DEF Offered
<1>5. CASE tx.selector = "addLiquidityETH"
  <2>1. call.call = "AddLiquidityEth"
    BY <1>3, <1>5 DEF Decoded, V2AddLiquidityEth
  <2>2. /\ Native \in BaseTokens
        /\ Detect(tx) = Offered(tx, call, Native, call.token, call.amountEthMin)
    BY <1>1, <1>2, <2>1 DEF Chosen
  <2> QED
    BY <1>2, <1>3, <1>4, <2>2 DEF IsOf
<1>6. CASE tx.selector \in {"addLiquidity", "addLiquiditySolidly"}
  <2>1. /\ call.call # "AddLiquidityEth"
        /\ call.tokenA = tx.args.tokenA /\ call.tokenB = tx.args.tokenB
        /\ call.amountADesired = tx.args.amountADesired
        /\ call.amountBDesired = tx.args.amountBDesired
    BY <1>3, <1>6 DEF Decoded, V2AddLiquidity, SolidlyAddLiquidity
  <2>2. CASE call.tokenA \in BaseTokens
    <3>1. Detect(tx) = Offered(tx, call, call.tokenA, call.tokenB, call.amountADesired)
      BY <1>2, <2>1, <2>2 DEF Chosen
    <3> QED
      BY <1>2, <1>3, <1>4, <1>6, <2>1, <2>2, <3>1 DEF IsOf
  <2>3. CASE call.tokenA \notin BaseTokens
    <3>1. /\ call.tokenB \in BaseTokens
          /\ Detect(tx) = Offered(tx, call, call.tokenB, call.tokenA, call.amountBDesired)
      BY <1>1, <1>2, <2>1, <2>3 DEF Chosen
    <3> QED
      BY <1>2, <1>3, <1>4, <1>6, <2>1, <3>1 DEF IsOf
  <2> QED
    BY <2>2, <2>3
<1> QED
  BY <1>3, <1>5, <1>6 DEF Encoded

\* The fields of an add's candidate: no pair yet, and the factory its router
\* is mapped to, if it is.
LEMMA AddFields ==
  ASSUME NEW c \in Adds
  PROVE  /\ c = [verdict |-> "candidate", router |-> c.router, base |-> c.base,
                 token |-> c.token, amount |-> c.amount, curve |-> c.curve,
                 pair |-> None, factory |-> c.factory]
         /\ c.factory = IF c.router \in DOMAIN RouterFactory
                        THEN RouterFactory[c.router] ELSE None
         /\ c.factory \in AllFactories \cup {None}
<1>1. PICK h \in Hashes : c = Detect(Tx[h]) /\ c.verdict = "candidate"
  BY DEF Adds
<1>2. PICK base, token, amount :
        c = Candidate(Tx[h], Decoded(Tx[h]), base, token, amount)
  BY <1>1, DetectedAdd, BotAssumption
<1> QED
  BY <1>2 DEF Candidate, AllFactories
-----------------------------------------------------------------------------
\* Candidates: adds whose factory and pair have been filled in.
LEMMA CandidateFields ==
  ASSUME NEW c \in Candidates
  PROVE  /\ c = [verdict |-> "candidate", router |-> c.router, base |-> c.base,
                 token |-> c.token, amount |-> c.amount, curve |-> c.curve,
                 pair |-> c.pair, factory |-> c.factory]
         /\ c.factory \in AllFactories \cup {None}
         /\ c # NotAnAdd
<1>1. PICK d \in Adds, f \in AllFactories \cup {None},
           p \in {PairOf(g, e) : g \in AllFactories, e \in Adds} \cup {None} :
        c = Resolved(d, f, p)
  BY DEF Candidates
<1>2. c.verdict = "candidate" /\ NotAnAdd.verdict # "candidate"
  BY <1>1 DEF Resolved, NotAnAdd
<1> QED
  BY <1>1, <1>2 DEF Resolved

LEMMA AddIsCandidate == Adds \subseteq Candidates
<1> SUFFICES ASSUME NEW c \in Adds PROVE c \in Candidates
  OBVIOUS
<1>1. c.factory \in AllFactories \cup {None}
  BY AddFields
<1>2. c = Resolved(c, c.factory, None)
  BY AddFields DEF Resolved
<1> QED
  BY <1>1, <1>2 DEF Candidates

\* What resolve() may answer for a candidate is a candidate.
LEMMA AnswerIsCandidate ==
  ASSUME NEW c \in Candidates, NEW a \in Answers(c)
  PROVE  /\ a \in Candidates
         /\ a.router = c.router /\ a.base = c.base /\ a.token = c.token
         /\ a.amount = c.amount /\ a.curve = c.curve
         /\ \/ a = c
            \/ \E f \in FactoriesFor(c) :
                 /\ a.factory = f
                 /\ a.pair = PairOf(f, a) /\ a.pair \in pairs
<1>1. CASE a = c
  BY <1>1
<1>2. ASSUME NEW f \in FactoriesFor(c), PairOf(f, c) \in pairs,
             a = Resolved(c, f, PairOf(f, c))
      PROVE  /\ a \in Candidates
             /\ a.router = c.router /\ a.base = c.base /\ a.token = c.token
             /\ a.amount = c.amount /\ a.curve = c.curve
             /\ a.factory = f /\ a.pair = PairOf(f, a) /\ a.pair \in pairs
  <2>1. PICK d \in Adds, g \in AllFactories \cup {None},
             p \in {PairOf(h, e) : h \in AllFactories, e \in Adds} \cup {None} :
          c = Resolved(d, g, p)
    BY DEF Candidates
  <2>2. f \in AllFactories
    <3>1. c.factory \in AllFactories \cup {None}
      BY CandidateFields
    <3> QED
      BY <3>1 DEF FactoriesFor, AllFactories
  <2>3. c.base = d.base /\ c.token = d.token /\ c.curve = d.curve
    BY <2>1 DEF Resolved
  <2>4. PairOf(f, c) = PairOf(f, d)
    BY <2>3 DEF PairOf
  <2>5. a = Resolved(d, f, PairOf(f, d))
    BY <1>2, <2>1, <2>4 DEF Resolved
  <2>6. a \in Candidates
    BY <2>2, <2>5 DEF Candidates
  <2>7. /\ a.router = c.router /\ a.base = c.base /\ a.token = c.token
        /\ a.amount = c.amount /\ a.curve = c.curve
        /\ a.factory = f /\ a.pair = PairOf(f, c)
    BY <1>2 DEF Resolved
  <2>8. PairOf(f, a) = PairOf(f, c)
    BY <2>7 DEF PairOf
  <2> QED
    BY <1>2, <2>6, <2>7, <2>8
<1> QED
  BY <1>1, <1>2 DEF Answers
-----------------------------------------------------------------------------
(***************************************************************************)
(* Type correctness.                                                       *)
(***************************************************************************)

LEMMA TypeInit == Init => TypeOK
<1> SUFFICES ASSUME Init PROVE TypeOK
  OBVIOUS
<1>1. StreamsOK
  BY BotAssumption DEF Init, EmptyStreams, StreamsOK
<1>2. DedupeOK
  BY DEF Init, Dedupe!Init, Dedupe!NoAges, DedupeOK
<1>3. TaskOK
  BY BotAssumption DEF Init, TaskOK
<1>4. ChainOK
  BY BotAssumption DEF Init, ChainOK
<1>5. AttemptsOK
  BY DEF Init, AttemptsOK
<1> QED
  BY <1>1, <1>2, <1>3, <1>4, <1>5 DEF TypeOK

\* The deduper's list keeps the keys of its map, through hits and misses.
LEMMA DedupeKeepsType ==
  ASSUME DedupeOK, NEW h \in Hashes, NEW fresh, Dedupe!CheckAndUpdate(h, now, fresh)
  PROVE  DedupeOK'
<1>1. CASE Dedupe!Hit(h, now)
  BY <1>1 DEF DedupeOK, Dedupe!Hit, Dedupe!Touched
<1>2. CASE Dedupe!Miss(h, now)
  <2> DEFINE new == Dedupe!AfterPut(age, Dedupe!Slots, h)
  <2>1. age' = new /\ DOMAIN expiresAt' = DOMAIN new
    BY <1>2 DEF Dedupe!Miss, Dedupe!InsertedWith
  <2>2. DOMAIN new \subseteq DOMAIN age \cup {h}
    BY DEF Dedupe!AfterPut, Dedupe!Touched, Dedupe!Pushed
  <2> QED
    BY <2>1, <2>2 DEF DedupeOK
<1> QED
  BY <1>1, <1>2 DEF Dedupe!CheckAndUpdate

\* A handler that is over leaves no locals behind.
LEMMA DoneKeepsType ==
  ASSUME TypeOK, Done, nextNonce' \in Nat
  PROVE  StreamsOK' /\ TaskOK'
BY BotAssumption DEF TypeOK, StreamsOK, TaskOK, Done, NoLocals

LEMMA StopKeepsType ==
  ASSUME TypeOK, Stop, nextNonce' \in Nat
  PROVE  StreamsOK' /\ TaskOK'
<1>1. StreamsOK'
  BY BotAssumption DEF StreamsOK, Stop, EmptyStreams
<1>2. TaskOK'
  BY BotAssumption DEF TaskOK, Stop, NoLocals
<1> QED
  BY <1>1, <1>2

LEMMA ContinueKeepsType ==
  ASSUME TypeOK, pc \in {"fetch", "resolve"}, NEW c \in Candidates, Continue(c)
  PROVE  StreamsOK' /\ TaskOK'
<1>1. CASE Qualified(c)
  <2>1. c # NotAnAdd
    BY CandidateFields
  <2>2. StreamsOK'
    BY <1>1 DEF Continue, TypeOK, StreamsOK
  <2>3. TaskOK'
    BY <1>1, <2>1 DEF Continue, TypeOK, TaskOK
  <2> QED
    BY <2>2, <2>3
<1>2. CASE ~Qualified(c)
  <2>1. nextNonce' \in Nat
    BY <1>2 DEF Continue, TypeOK, TaskOK
  <2> QED
    BY <1>2, <2>1, DoneKeepsType DEF Continue
<1> QED
  BY <1>1, <1>2

\* The history grows by a well-formed buy.
LEMMA AttemptKeepsType ==
  ASSUME TypeOK, pc = "send", NEW accepted \in BOOLEAN, Attempt(accepted)
  PROVE  ChainOK' /\ AttemptsOK' /\ DedupeOK' /\ nextNonce' \in Nat
<1>1. hash \in Hashes /\ cand \in Candidates
  BY DEF TypeOK, TaskOK
<1>2. Buy(accepted) \in Buys
  BY <1>1 DEF TypeOK, TaskOK, AttemptsOK, Buy, Buys
<1>3. AttemptsOK'
  BY <1>2 DEF TypeOK, AttemptsOK, Attempt
<1>4. accountNonce' \in Nat
  BY DEF TypeOK, ChainOK, Attempt
<1>5. ChainOK'
  BY <1>4 DEF TypeOK, ChainOK, Attempt
<1> QED
  BY <1>3, <1>5 DEF TypeOK, DedupeOK, TaskOK, Attempt

LEMMA HandledKeepsType ==
  ASSUME TypeOK, pc = "select", NEW s \in Sources, stream[s] # <<>>, Handled(s)
  PROVE  TypeOK'
<1>1. stream[s] \in Seq(Hashes) /\ Head(stream[s]) \in Hashes
  BY DEF TypeOK, StreamsOK
<1>2. StreamsOK'
  <2>1. Tail(stream[s]) \in Seq(Hashes) /\ Len(Tail(stream[s])) <= ChannelSize
    BY <1>1, BotAssumption DEF TypeOK, StreamsOK
  <2> QED
    BY <2>1 DEF TypeOK, StreamsOK, Handled
<1>3. PICK fresh \in BOOLEAN :
        /\ Dedupe!CheckAndUpdate(Head(stream[s]), now, fresh)
        /\ IF fresh
             THEN /\ pc' = "fetch" /\ hash' = Head(stream[s]) /\ seenAt' = now
                  /\ UNCHANGED <<cand, nonce>>
             ELSE UNCHANGED task
  BY DEF Handled
<1>4. DedupeOK'
  BY <1>1, <1>3, DedupeKeepsType DEF TypeOK
<1>5. TaskOK'
  <2>1. CASE fresh
    BY <1>1, <1>3, <2>1, BotAssumption DEF Handled, TypeOK, TaskOK, ChainOK
  <2>2. CASE ~fresh
    BY <1>3, <2>2 DEF Handled, task, TypeOK, TaskOK
  <2> QED
    BY <2>1, <2>2
<1>6. ChainOK' /\ AttemptsOK'
  BY DEF Handled, chain, TypeOK, ChainOK, AttemptsOK
<1> QED
  BY <1>2, <1>4, <1>5, <1>6 DEF TypeOK

LEMMA TypeStep == TypeOK /\ [Next]_vars => TypeOK'
<1> SUFFICES ASSUME TypeOK, [Next]_vars PROVE TypeOK'
  OBVIOUS
<1> USE DEF chain, task
<1>1. ASSUME UNCHANGED <<expiresAt, age, chain, life, attempts>>
      PROVE  DedupeOK' /\ ChainOK' /\ AttemptsOK'
  BY <1>1 DEF TypeOK, DedupeOK, ChainOK, AttemptsOK
<1>2. ASSUME NEW s \in Sources, Recv(s) PROVE TypeOK'
  BY <1>2, HandledKeepsType DEF Recv
<1>3. CASE FetchMissing
  <2>1. nextNonce' \in Nat
    BY <1>3 DEF FetchMissing, TypeOK, TaskOK
  <2> QED
    BY <1>1, <1>3, <2>1, DoneKeepsType DEF FetchMissing, TypeOK
<1>4. CASE FetchFails \/ ResolveFails \/ Crash
  <2>1. nextNonce' \in Nat
    BY <1>4 DEF FetchFails, ResolveFails, Crash, TypeOK, TaskOK
  <2> QED
    BY <1>1, <1>4, <2>1, StopKeepsType DEF FetchFails, ResolveFails, Crash, TypeOK
<1>5. CASE FetchFound
  <2> DEFINE c == Detect(Tx[hash])
  <2> SUFFICES StreamsOK' /\ TaskOK'
    BY <1>1, <1>5 DEF FetchFound, TypeOK
  <2>1. hash \in Hashes /\ nextNonce \in Nat
    BY <1>5 DEF FetchFound, TypeOK, TaskOK
  <2>2. c.verdict = "candidate" => c \in Candidates
    BY <2>1, AddIsCandidate DEF Adds
  <2>3. CASE c.verdict = "none" /\ Done /\ UNCHANGED nextNonce
    BY <2>1, <2>3, DoneKeepsType
  <2>4. CASE c.verdict = "error" /\ Stop /\ UNCHANGED nextNonce
    BY <2>1, <2>4, StopKeepsType
  <2>5. CASE /\ c.verdict = "candidate" /\ pc' = "resolve" /\ cand' = c
             /\ UNCHANGED <<stream, hash, seenAt, nonce, nextNonce>>
    <3>1. c \in Candidates /\ c # NotAnAdd
      BY <2>2, <2>5, CandidateFields
    <3>2. pc = "fetch"
      BY <1>5 DEF FetchFound
    <3> HIDE DEF c
    <3> QED
      BY <2>5, <3>1, <3>2 DEF TypeOK, StreamsOK, TaskOK
  <2>6. CASE c.verdict = "candidate" /\ Continue(c)
    <3>1. pc = "fetch"
      BY <1>5 DEF FetchFound
    <3> QED
      BY <2>2, <2>6, <3>1, ContinueKeepsType
  <2> QED
    BY <1>5, <2>3, <2>4, <2>5, <2>6 DEF FetchFound
<1>6. CASE ResolveDone
  <2>1. cand \in Candidates
    BY <1>6 DEF ResolveDone, TypeOK, TaskOK
  <2>2. PICK c \in Answers(cand) : Continue(c)
    BY <1>6 DEF ResolveDone
  <2>3. StreamsOK' /\ TaskOK'
    BY <1>6, <2>1, <2>2, AnswerIsCandidate, ContinueKeepsType DEF ResolveDone
  <2> QED
    BY <1>1, <1>6, <2>3 DEF ResolveDone, TypeOK
<1>7. CASE SendOk
  <2>1. ChainOK' /\ AttemptsOK' /\ DedupeOK' /\ nextNonce' \in Nat
    BY <1>7, AttemptKeepsType DEF SendOk
  <2> QED
    BY <1>7, <2>1, DoneKeepsType DEF SendOk, TypeOK
<1>8. CASE SendFails \/ SendLost
  <2>1. ChainOK' /\ AttemptsOK' /\ DedupeOK' /\ nextNonce' \in Nat
    BY <1>8, AttemptKeepsType DEF SendFails, SendLost
  <2> QED
    BY <1>8, <2>1, StopKeepsType DEF SendFails, SendLost, TypeOK
<1>9. ASSUME NEW s \in Sources, NEW h \in Hashes, Announce(s, h) PROVE TypeOK'
  <2>1. StreamsOK'
    <3>1. stream[s] \in Seq(Hashes) /\ ChannelSize \in Nat
      BY BotAssumption DEF TypeOK, StreamsOK
    <3>2. stream'[s] \in Seq(Hashes) /\ Len(stream'[s]) <= ChannelSize
      BY <1>9, <3>1 DEF Announce, TypeOK, StreamsOK
    <3> QED
      BY <1>9, <3>2 DEF Announce, TypeOK, StreamsOK
  <2>2. TaskOK'
    BY <1>9 DEF Announce, TypeOK, TaskOK
  <2> QED
    BY <1>1, <1>9, <2>1, <2>2 DEF Announce, TypeOK
<1>10. CASE Restart
  <2>1. StreamsOK' /\ ChainOK'
    BY <1>10 DEF Restart, TypeOK, StreamsOK, ChainOK
  <2>2. DedupeOK'
    BY <1>10 DEF Restart, DedupeOK, Dedupe!NoAges
  <2>3. TaskOK'
    BY <1>10 DEF Restart, TypeOK, TaskOK
  <2>4. AttemptsOK'
    BY <1>10 DEF Restart, TypeOK, AttemptsOK
  <2> QED
    BY <2>1, <2>2, <2>3, <2>4 DEF TypeOK
<1>11. CASE Tick \/ WalletTx
  <2>1. UNCHANGED <<stream, expiresAt, age, task, nextNonce, pairs, life, attempts>>
    BY <1>11 DEF Tick, WalletTx
  <2>2. ChainOK'
    BY <1>11 DEF Tick, WalletTx, TypeOK, ChainOK
  <2> QED
    BY <2>1, <2>2 DEF TypeOK, StreamsOK, DedupeOK, TaskOK, AttemptsOK
<1>12. ASSUME NEW f \in AllFactories, NEW c \in Adds, CreatePair(f, c) PROVE TypeOK'
  <2>1. ChainOK'
    BY <1>12 DEF CreatePair, TypeOK, ChainOK
  <2> QED
    BY <1>12, <2>1 DEF CreatePair, TypeOK, StreamsOK, DedupeOK, TaskOK, AttemptsOK
<1>13. CASE UNCHANGED vars
  BY <1>13 DEF vars, TypeOK, StreamsOK, DedupeOK, TaskOK, ChainOK, AttemptsOK
<1> QED
  BY <1>2, <1>3, <1>4, <1>5, <1>6, <1>7, <1>8, <1>9, <1>10, <1>11, <1>12, <1>13
     DEF Next, BotNext, WorldNext

\* The bot's state keeps its shape, whatever the node, the chain and the
\* process around it do.
THEOREM TypeCorrect == Spec => []TypeOK
BY TypeInit, TypeStep, PTL DEF Spec
-----------------------------------------------------------------------------
(***************************************************************************)
(* Nonces. The next buy of a process carries the nonce after that of its   *)
(* last one, or 0 if it has made none; and no earlier process has drawn a  *)
(* nonce the present one depends on.                                       *)
(***************************************************************************)

Last == attempts[Len(attempts)]

\* The running process has handed a buy to the node.
HasBought == attempts # <<>> /\ Last.life = life

NextFree == IF HasBought THEN Last.nonce + 1 ELSE 0

\* What the nonce manager holds; a buy about to be sent has drawn its nonce.
NonceState ==
  /\ \A i \in DOMAIN attempts : attempts[i].life <= life
  /\ pc \in {"select", "fetch", "resolve"} => nextNonce = NextFree
  /\ pc = "send" => nonce = NextFree /\ nextNonce = nonce + 1
  /\ pc # "stopped" /\ HasBought => Last.accepted

NonceInv == TypeOK /\ NonceState /\ NoNonceGap

LEMMA NonceInit == Init => NonceState /\ NoNonceGap
BY DEF Init, NonceState, NoNonceGap, HasBought, NextFree

\* The history after a step that hands a buy to the node.
LEMMA AttemptAppends ==
  ASSUME TypeOK, pc = "send", NEW accepted \in BOOLEAN, Attempt(accepted)
  PROVE  LET n == Len(attempts) IN
         /\ n \in Nat /\ DOMAIN attempts = 1 .. n
         /\ \A i \in 1 .. n : attempts[i] \in Buys
         /\ Buy(accepted) \in Buys
         /\ Len(attempts') = n + 1 /\ DOMAIN attempts' = 1 .. n + 1
         /\ attempts'[n + 1] = Buy(accepted)
         /\ \A i \in 1 .. n : attempts'[i] = attempts[i]
<1>1. hash \in Hashes /\ cand \in Candidates
  BY DEF TypeOK, TaskOK
<1>2. Buy(accepted) \in Buys
  BY <1>1 DEF TypeOK, TaskOK, AttemptsOK, Buy, Buys
<1>3. attempts \in Seq(Buys) /\ attempts' = Append(attempts, Buy(accepted))
  BY DEF TypeOK, AttemptsOK, Attempt
<1> QED
  BY <1>2, <1>3

\* The step that hands a buy to the node.
LEMMA AttemptKeepsNonces ==
  ASSUME NonceInv, TypeOK', pc = "send", NEW accepted \in BOOLEAN, Attempt(accepted),
         \/ accepted /\ Done
         \/ Stop
  PROVE  NonceState' /\ NoNonceGap'
<1> DEFINE n == Len(attempts)
           new == Buy(accepted)
<1>1. /\ n \in Nat /\ DOMAIN attempts = 1 .. n
      /\ life \in Nat /\ nonce \in Nat
      /\ \A i \in 1 .. n : attempts[i].life \in Nat /\ attempts[i].nonce \in Nat
      /\ new.life = life /\ new.nonce = nonce /\ new.accepted = accepted
  BY AttemptAppends DEF NonceInv, TypeOK, AttemptsOK, TaskOK, Buy, Buys
<1>2. /\ Len(attempts') = n + 1 /\ DOMAIN attempts' = 1 .. n + 1
      /\ attempts' # <<>>
      /\ attempts'[n + 1] = new
      /\ \A i \in 1 .. n : attempts'[i] = attempts[i]
  BY AttemptAppends DEF NonceInv
<1> HIDE DEF new
<1>3. UNCHANGED <<life, nextNonce>>
  BY DEF Attempt
<1>4. Last' = new /\ HasBought' /\ NextFree' = nonce + 1
  BY <1>1, <1>2, <1>3 DEF Last, HasBought, NextFree
<1>5. NonceState'
  <2>1. \A i \in DOMAIN attempts' : attempts'[i].life <= life'
    BY <1>1, <1>2, <1>3 DEF NonceInv, NonceState
  <2>2. CASE accepted /\ Done
    BY <1>1, <1>3, <1>4, <2>1, <2>2 DEF NonceInv, NonceState, Done
  <2>3. CASE Stop
    BY <2>1, <2>3 DEF NonceState, Stop
  <2> QED
    BY <2>2, <2>3
<1>6. NoNonceGap'
  <2> SUFFICES ASSUME NEW i \in 1 .. n + 1
               PROVE  LET follows == i > 1 /\ attempts'[i-1].life = attempts'[i].life IN
                      /\ follows => /\ attempts'[i-1].accepted
                                    /\ attempts'[i].nonce = attempts'[i-1].nonce + 1
                      /\ ~follows => attempts'[i].nonce = 0
    BY <1>2 DEF NoNonceGap
  <2>1. CASE i \in 1 .. n
    <3>1. attempts'[i] = attempts[i] /\ (i > 1 => attempts'[i-1] = attempts[i-1])
      BY <1>1, <1>2, <2>1
    <3> QED
      BY <1>1, <2>1, <3>1 DEF NonceInv, NoNonceGap
  <2>2. CASE i = n + 1
    <3>1. nonce = NextFree /\ (HasBought => Last.accepted)
      BY DEF NonceInv, NonceState
    <3> DEFINE before == attempts[n]
    <3>4. n > 0 => attempts'[i-1] = before
      BY <1>1, <1>2, <2>2
    <3>5. HasBought <=> n > 0 /\ before.life = life
      <4>1. attempts # <<>> <=> n > 0
        BY DEF NonceInv, TypeOK, AttemptsOK
      <4> QED
        BY <4>1 DEF HasBought, Last
    <3>6. attempts'[i] = new /\ (i > 1 <=> n > 0)
      BY <1>1, <1>2, <2>2
    <3>2. CASE HasBought
      <4>1. nonce = before.nonce + 1 /\ before.accepted
        BY <3>1, <3>2 DEF NextFree, Last
      <4> QED
        BY <1>1, <3>2, <3>4, <3>5, <3>6, <4>1
    <3>3. CASE ~HasBought
      <4>1. nonce = 0
        BY <3>1, <3>3 DEF NextFree
      <4> QED
        BY <1>1, <3>3, <3>4, <3>5, <3>6, <4>1
    <3> QED
      BY <3>2, <3>3
  <2> QED
    BY <2>1, <2>2
<1> QED
  BY <1>5, <1>6

LEMMA NonceStep == NonceInv /\ TypeOK' /\ [Next]_vars => NonceState' /\ NoNonceGap'
<1> SUFFICES ASSUME NonceInv, TypeOK', [Next]_vars
             PROVE  NonceState' /\ NoNonceGap'
  OBVIOUS
<1> USE DEF chain, task
<1>1. ASSUME UNCHANGED <<life, attempts>>
      PROVE  /\ NoNonceGap'
             /\ \A i \in DOMAIN attempts' : attempts'[i].life <= life'
             /\ UNCHANGED <<Last, HasBought, NextFree>>
  BY <1>1 DEF NonceInv, NonceState, NoNonceGap, Last, HasBought, NextFree
\* Steps of a running task that draw no nonce.
<1>2. ASSUME UNCHANGED <<life, attempts, nextNonce>>,
             pc \in {"select", "fetch", "resolve"},
             pc' \in {"select", "fetch", "resolve"}
      PROVE  NonceState' /\ NoNonceGap'
  BY <1>1, <1>2 DEF NonceInv, NonceState
<1>3. ASSUME UNCHANGED <<life, attempts>>, pc' = "stopped"
      PROVE  NonceState' /\ NoNonceGap'
  BY <1>1, <1>3 DEF NonceState
<1>4. ASSUME UNCHANGED <<life, attempts, pc, nonce, nextNonce>>
      PROVE  NonceState' /\ NoNonceGap'
  BY <1>1, <1>4 DEF NonceInv, NonceState
<1>5. ASSUME UNCHANGED <<life, attempts>>, pc \in {"fetch", "resolve"}, NEW c, Continue(c)
      PROVE  NonceState' /\ NoNonceGap'
  <2>1. CASE Qualified(c)
    BY <1>1, <1>5, <2>1 DEF Continue, NonceInv, NonceState
  <2>2. CASE ~Qualified(c)
    BY <1>2, <1>5, <2>2 DEF Continue, Done
  <2> QED
    BY <2>1, <2>2
<1>6. ASSUME NEW s \in Sources, Recv(s) PROVE NonceState' /\ NoNonceGap'
  <2>1. pc = "select" /\ pc' \in {"select", "fetch"}
    BY <1>6 DEF Recv, Handled
  <2> QED
    BY <1>2, <1>6, <2>1 DEF Recv, Handled
<1>7. CASE FetchMissing
  BY <1>2, <1>7 DEF FetchMissing, Done
<1>8. CASE FetchFails \/ ResolveFails \/ Crash
  BY <1>3, <1>8 DEF FetchFails, ResolveFails, Crash, Stop
<1>9. CASE FetchFound
  <2> DEFINE c == Detect(Tx[hash])
  <2>1. pc = "fetch" /\ UNCHANGED <<life, attempts>>
    BY <1>9 DEF FetchFound
  <2>2. CASE Done /\ UNCHANGED nextNonce
    BY <1>2, <2>1, <2>2 DEF Done
  <2>3. CASE Stop
    BY <1>3, <2>1, <2>3 DEF Stop
  <2>4. CASE pc' = "resolve" /\ UNCHANGED nextNonce
    BY <1>2, <2>1, <2>4
  <2>5. CASE Continue(c)
    BY <1>5, <2>1, <2>5
  <2> QED
    BY <1>9, <2>2, <2>3, <2>4, <2>5 DEF FetchFound
<1>10. CASE ResolveDone
  <2>1. PICK c \in Answers(cand) : Continue(c)
    BY <1>10 DEF ResolveDone
  <2> QED
    BY <1>5, <1>10, <2>1 DEF ResolveDone
<1>11. CASE SendOk \/ SendFails \/ SendLost
  BY <1>11, AttemptKeepsNonces DEF SendOk, SendFails, SendLost
<1>12. CASE Restart
  <2>1. /\ life \in Nat /\ life' = life + 1 /\ UNCHANGED attempts
        /\ attempts \in Seq(Buys)
    BY <1>12 DEF Restart, NonceInv, TypeOK, AttemptsOK
  <2>2. \A i \in DOMAIN attempts : attempts[i].life <= life /\ attempts[i].life \in Nat
    <3>1. \A i \in DOMAIN attempts : attempts[i] \in Buys
      BY <2>1
    <3> QED
      BY <3>1 DEF NonceInv, NonceState, Buys
  <2>3. ~HasBought'
    <3>1. attempts # <<>> => Len(attempts) \in DOMAIN attempts
      BY <2>1
    <3> QED
      BY <2>1, <2>2, <3>1 DEF HasBought, Last
  <2>4. NoNonceGap'
    BY <2>1 DEF NonceInv, NoNonceGap
  <2> QED
    BY <1>12, <2>1, <2>2, <2>3, <2>4 DEF Restart, NonceState, NextFree
<1>13. ASSUME NEW s \in Sources, NEW h \in Hashes, Announce(s, h)
       PROVE  NonceState' /\ NoNonceGap'
  BY <1>4, <1>13 DEF Announce
<1>14. CASE Tick \/ WalletTx
  BY <1>4, <1>14 DEF Tick, WalletTx
<1>15. ASSUME NEW f \in AllFactories, NEW c \in Adds, CreatePair(f, c)
       PROVE  NonceState' /\ NoNonceGap'
  BY <1>4, <1>15 DEF CreatePair
<1>16. CASE UNCHANGED vars
  BY <1>4, <1>16 DEF vars
<1> QED
  BY <1>6, <1>7, <1>8, <1>9, <1>10, <1>11, <1>12, <1>13, <1>14, <1>15, <1>16
     DEF Next, BotNext, WorldNext

LEMMA NonceInvariant == Spec => []NonceInv
<1>1. Init => NonceInv
  BY TypeInit, NonceInit DEF NonceInv
<1>2. NonceInv /\ [Next]_vars => NonceInv'
  BY TypeStep, NonceStep DEF NonceInv
<1> QED
  BY <1>1, <1>2, PTL DEF Spec

\* One process's buys carry 0, 1, 2, ... and each but the last was accepted:
\* no error path of handle_hash draws a nonce it does not use.
THEOREM NoncesHaveNoGap == Spec => []NoNonceGap
BY NonceInvariant, PTL DEF NonceInv

\* Neither the manager nor a drawn nonce is ahead of the account.
NeverAhead ==
  /\ pc \in {"select", "fetch", "resolve"} => nextNonce <= accountNonce
  /\ pc = "send" => nonce <= accountNonce

LEMMA AheadStep ==
  NonceInv /\ NeverAhead /\ [Next]_vars => NeverAhead'
<1> SUFFICES ASSUME NonceInv, NeverAhead, [Next]_vars PROVE NeverAhead'
  OBVIOUS
<1> USE DEF chain, task
<1>1. nonce \in Nat /\ nextNonce \in Nat /\ accountNonce \in Nat
  BY DEF NonceInv, TypeOK, TaskOK, ChainOK
<1>2. ASSUME UNCHANGED <<nextNonce, accountNonce>>,
             pc \in {"select", "fetch", "resolve"},
             pc' \in {"select", "fetch", "resolve"}
      PROVE  NeverAhead'
  BY <1>2 DEF NeverAhead
<1>3. ASSUME pc' = "stopped" PROVE NeverAhead'
  BY <1>3 DEF NeverAhead
<1>4. ASSUME UNCHANGED <<pc, nonce, nextNonce, accountNonce>> PROVE NeverAhead'
  BY <1>4 DEF NeverAhead
<1>5. ASSUME pc \in {"fetch", "resolve"}, UNCHANGED accountNonce, NEW c, Continue(c)
      PROVE  NeverAhead'
  BY <1>5 DEF Continue, Done, NeverAhead
<1>6. ASSUME NEW s \in Sources, Recv(s) PROVE NeverAhead'
  <2>1. pc = "select" /\ pc' \in {"select", "fetch"}
    BY <1>6 DEF Recv, Handled
  <2> QED
    BY <1>2, <1>6, <2>1 DEF Recv, Handled
<1>7. CASE FetchMissing
  BY <1>2, <1>7 DEF FetchMissing, Done
<1>8. CASE FetchFails \/ ResolveFails \/ Crash \/ SendFails \/ SendLost
  BY <1>3, <1>8 DEF FetchFails, ResolveFails, Crash, SendFails, SendLost, Stop
<1>9. CASE FetchFound
  <2>1. pc = "fetch" /\ UNCHANGED accountNonce
    BY <1>9 DEF FetchFound
  <2>2. CASE Done /\ UNCHANGED nextNonce
    BY <1>2, <2>1, <2>2 DEF Done
  <2>3. CASE Stop
    BY <1>3, <2>3 DEF Stop
  <2>4. CASE pc' = "resolve" /\ UNCHANGED nextNonce
    BY <1>2, <2>1, <2>4
  <2>5. CASE Continue(Detect(Tx[hash]))
    BY <1>5, <2>1, <2>5
  <2> QED
    BY <1>9, <2>2, <2>3, <2>4, <2>5 DEF FetchFound
<1>10. CASE ResolveDone
  <2>1. PICK c \in Answers(cand) : Continue(c)
    BY <1>10 DEF ResolveDone
  <2> QED
    BY <1>5, <1>10, <2>1 DEF ResolveDone
\* A nonce that is taken is the account's: not behind it, by the node's rule,
\* and not ahead of it.
<1>11. CASE SendOk
  <2>1. nonce = accountNonce /\ nextNonce = nonce + 1
    BY <1>1, <1>11 DEF SendOk, Attempt, NeverAhead, NonceInv, NonceState
  <2>2. accountNonce' = nextNonce /\ nextNonce' = nextNonce /\ pc' = "select"
    BY <1>11, <2>1 DEF SendOk, Attempt, Done
  <2> QED
    BY <1>1, <2>1, <2>2 DEF NeverAhead
<1>12. CASE Restart
  BY <1>1, <1>12 DEF Restart, NeverAhead
<1>13. CASE WalletTx
  BY <1>1, <1>13 DEF WalletTx, NeverAhead
<1>14. ASSUME NEW s \in Sources, NEW h \in Hashes, Announce(s, h) PROVE NeverAhead'
  BY <1>4, <1>14 DEF Announce
<1>15. CASE Tick
  BY <1>4, <1>15 DEF Tick
<1>16. ASSUME NEW f \in AllFactories, NEW c \in Adds, CreatePair(f, c)
       PROVE  NeverAhead'
  BY <1>4, <1>16 DEF CreatePair
<1>17. CASE UNCHANGED vars
  BY <1>4, <1>17 DEF vars
<1> QED
  BY <1>6, <1>7, <1>8, <1>9, <1>10, <1>11, <1>12, <1>13, <1>14, <1>15, <1>16, <1>17
     DEF Next, BotNext, WorldNext

LEMMA NeverAheadInvariant == Spec => [](NonceInv /\ NeverAhead)
<1>1. Init => NeverAhead
  BY BotAssumption DEF Init, NeverAhead
<1> QED
  BY <1>1, NonceInvariant, AheadStep, PTL DEF Spec

\* NothingParked: through refusals, lost answers, crashes, restarts and the
\* wallet's own transactions, no buy is sent with a nonce the account has not
\* come to.
THEOREM BuysAreNotParked == Spec => []NothingParked
<1>1. NeverAhead => NothingParked
  BY DEF NeverAhead, NothingParked
<1> QED
  BY <1>1, NeverAheadInvariant, PTL
-----------------------------------------------------------------------------
(***************************************************************************)
(* Restarts. Only one process ever has a buy accepted: the first accepted  *)
(* buy of all has nonce 0 and uses it up, and every other process begins   *)
(* with nonce 0 and dies of the refusal.                                   *)
(***************************************************************************)

\* Apart from sending, no step touches the history, and none lowers the
\* account's nonce.
LEMMA OnlySendsBuy ==
  ASSUME TypeOK, [Next]_vars
  PROVE  \/ UNCHANGED attempts /\ accountNonce' >= accountNonce
         \/ pc = "send" /\ \E accepted \in BOOLEAN : Attempt(accepted)
<1>1. accountNonce \in Nat
  BY DEF TypeOK, ChainOK
<1>2. CASE SendOk \/ SendFails \/ SendLost
  BY <1>2 DEF SendOk, SendFails, SendLost
<1>3. CASE WalletTx
  BY <1>1, <1>3 DEF WalletTx
<1>4. CASE UNCHANGED <<attempts, accountNonce>>
  BY <1>1, <1>4
<1>5. CASE \E s \in Sources : Recv(s)
  BY <1>4, <1>5 DEF Recv, Handled, chain
<1>6. CASE FetchMissing \/ FetchFails \/ FetchFound \/ ResolveDone \/ ResolveFails
  BY <1>4, <1>6 DEF FetchMissing, FetchFails, FetchFound, ResolveDone, ResolveFails, chain
<1>7. CASE \/ \E s \in Sources, h \in Hashes : Announce(s, h)
           \/ Crash \/ Restart \/ Tick
           \/ \E f \in AllFactories, c \in Adds : CreatePair(f, c)
  BY <1>4, <1>7 DEF Announce, Crash, Restart, Tick, CreatePair, chain
<1>8. CASE UNCHANGED vars
  BY <1>4, <1>8 DEF vars, chain
<1> QED
  BY <1>2, <1>3, <1>5, <1>6, <1>7, <1>8 DEF Next, BotNext, WorldNext

OneBuyer ==
  \A i, j \in DOMAIN attempts :
    attempts[i].accepted /\ attempts[j].accepted => attempts[i].life = attempts[j].life

\* An accepted buy has used up the account's nonce 0.
NonceUsed == \A i \in DOMAIN attempts : attempts[i].accepted => accountNonce >= 1

BuyerInv == OneBuyer /\ NonceUsed

LEMMA BuyerStep == NonceInv /\ BuyerInv /\ [Next]_vars => BuyerInv'
<1> SUFFICES ASSUME NonceInv, BuyerInv, [Next]_vars PROVE BuyerInv'
  OBVIOUS
<1>1. CASE UNCHANGED attempts /\ accountNonce' >= accountNonce
  <2>1. accountNonce \in Nat /\ (accountNonce >= 1 => accountNonce' >= 1)
    <3>1. accountNonce' \in Nat
      BY TypeStep DEF NonceInv, TypeOK, ChainOK
    <3> QED
      BY <1>1, <3>1 DEF NonceInv, TypeOK, ChainOK
  <2> QED
    BY <1>1, <2>1 DEF BuyerInv, OneBuyer, NonceUsed
<1>2. ASSUME pc = "send", NEW accepted \in BOOLEAN, Attempt(accepted) PROVE BuyerInv'
  <2> DEFINE n == Len(attempts)
  <2>1. /\ n \in Nat /\ DOMAIN attempts = 1 .. n /\ DOMAIN attempts' = 1 .. n + 1
        /\ attempts'[n + 1].life = life /\ attempts'[n + 1].accepted = accepted
        /\ \A i \in 1 .. n : attempts'[i] = attempts[i]
    <3>1. Buy(accepted).life = life /\ Buy(accepted).accepted = accepted
      BY DEF Buy
    <3> QED
      BY <1>2, <3>1, AttemptAppends DEF NonceInv
  <2>2. CASE ~accepted
    <3>1. \A i \in DOMAIN attempts' : attempts'[i].accepted =>
            i \in DOMAIN attempts /\ attempts'[i] = attempts[i]
      BY <2>1, <2>2
    <3>2. accountNonce' = accountNonce
      BY <1>2, <2>2 DEF Attempt
    <3> QED
      BY <3>1, <3>2 DEF BuyerInv, OneBuyer, NonceUsed
  <2>3. CASE accepted
    <3>1. /\ accountNonce \in Nat /\ nonce \in Nat /\ accountNonce <= nonce
          /\ accountNonce' = IF nonce = accountNonce THEN accountNonce + 1 ELSE accountNonce
      BY <1>2, <2>3 DEF Attempt, NonceInv, TypeOK, ChainOK, TaskOK
    <3>2. nonce = NextFree /\ (HasBought => Last.accepted)
      BY <1>2 DEF NonceInv, NonceState
    <3>3. \A i \in DOMAIN attempts : attempts[i].accepted =>
            attempts[i].life = life /\ accountNonce >= 1
      <4>1. CASE HasBought
        <5>1. n \in DOMAIN attempts /\ attempts[n].life = life /\ attempts[n].accepted
          <6>1. attempts # <<>> => n > 0
            BY DEF NonceInv, TypeOK, AttemptsOK
          <6> QED
            BY <2>1, <3>2, <4>1, <6>1 DEF HasBought, Last
        <5> QED
          BY <5>1 DEF BuyerInv, OneBuyer, NonceUsed
      <4>2. CASE ~HasBought
        <5>1. accountNonce = 0
          BY <3>1, <3>2, <4>2 DEF NextFree
        <5> QED
          BY <5>1 DEF BuyerInv, NonceUsed
      <4> QED
        BY <4>1, <4>2
    <3>4. accountNonce' >= 1
      <4>1. CASE accountNonce = 0
        <5>1. nonce = 0
          <6>1. ASSUME HasBought PROVE FALSE
            <7>1. n \in DOMAIN attempts /\ attempts[n].accepted
              <8>1. attempts # <<>> => n > 0
                BY DEF NonceInv, TypeOK, AttemptsOK
              <8> QED
                BY <2>1, <3>2, <6>1, <8>1 DEF HasBought, Last
            <7> QED
              BY <3>3, <4>1, <7>1
          <6> QED
            BY <3>2, <6>1 DEF NextFree
        <5> QED
          BY <3>1, <4>1, <5>1
      <4>2. CASE accountNonce # 0
        BY <3>1, <4>2
      <4> QED
        BY <4>1, <4>2
    <3>5. OneBuyer'
      BY <2>1, <3>3 DEF BuyerInv, OneBuyer
    <3>6. NonceUsed'
      BY <3>4 DEF NonceUsed
    <3> QED
      BY <3>5, <3>6 DEF BuyerInv
  <2> QED
    BY <2>2, <2>3
<1> QED
  BY <1>1, <1>2, OnlySendsBuy DEF NonceInv

\* No add is bought by two processes, although none remembers what an earlier
\* one bought: over all its lifetimes, only one has any buy accepted.
THEOREM RestartBuysNothingTwice == Spec => []NoSecondBuyAfterRestart
<1>1. Init => BuyerInv
  BY DEF Init, BuyerInv, OneBuyer, NonceUsed
<1>2. BuyerInv => NoSecondBuyAfterRestart
  BY DEF BuyerInv, OneBuyer, NoSecondBuyAfterRestart
<1> QED
  BY <1>1, <1>2, NonceInvariant, BuyerStep, PTL DEF Spec
-----------------------------------------------------------------------------
(***************************************************************************)
(* What a buy is of. A candidate on its way to the resolver is what        *)
(* detection made of the hash's transaction; one on its way to the node is *)
(* what the properties ask of a buy, from then on.                         *)
(***************************************************************************)

\* A good buy, when the pairs `made` exist.
BuyIsGood(c, tx, made) ==
  /\ \/ c.pair = None /\ AllowWithoutPair
     \/ c.pair \in made /\ c.pair = PairOf(c.factory, c)
  /\ Pinned(c) /\ Matches(c, tx)

CandState ==
  /\ pc = "resolve" => /\ cand = Detect(Tx[hash]) /\ cand.verdict = "candidate"
                       /\ NeedsResolver(cand)
  /\ pc = "send" => BuyIsGood(cand, Tx[hash], pairs)
  /\ \A i \in DOMAIN attempts : BuyIsGood(attempts[i].cand, Tx[attempts[i].hash], pairs)

CandInv == TypeOK /\ CandState

\* Detection's candidate is one of its transaction, but for the native coin.
LEMMA DetectedMatches ==
  ASSUME NEW h \in Hashes, Detect(Tx[h]).verdict = "candidate",
         Detect(Tx[h]).base # Native
  PROVE  Matches(Detect(Tx[h]), Tx[h])
<1> DEFINE tx == Tx[h]
<1>1. PICK base, token, amount :
        /\ Detect(tx) = Candidate(tx, Decoded(tx), base, token, amount)
        /\ ~(amount < MinBase)
        /\ base \in BaseTokens
        /\ IsOf(tx, base, token, amount)
  BY DetectedAdd, BotAssumption
<1>2. tx.to \in Routers
  BY DetectedAdd, BotAssumption
<1>3. /\ Detect(tx).router = tx.to /\ Detect(tx).base = base /\ Detect(tx).token = token
      /\ Detect(tx).amount = amount /\ Detect(tx).curve = Curve(Decoded(tx))
  BY <1>1 DEF Candidate
<1>4. amount \in Nat /\ MinBase \in Nat
  BY <1>1, <1>3, BotAssumption DEF Encoded, IsOf
<1>5. /\ tx.selector \in {"addLiquidity", "addLiquiditySolidly"}
      /\ base # Native
  BY <1>1, <1>3 DEF IsOf
<1>6. CASE tx.selector = "addLiquidity"
  <2>1. Curve(Decoded(tx)) = "v2"
    BY <1>6 DEF Curve, Decoded, V2AddLiquidity
  <2> QED
    BY <1>1, <1>2, <1>3, <1>4, <1>5, <1>6, <2>1 DEF Matches, IsOf
<1>7. CASE tx.selector = "addLiquiditySolidly"
  <2>1. Curve(Decoded(tx)) = IF tx.args.stable THEN "stable" ELSE "volatile"
    BY <1>7 DEF Curve, Decoded, SolidlyAddLiquidity
  <2> QED
    BY <1>1, <1>2, <1>3, <1>4, <1>5, <1>7, <2>1 DEF Matches, IsOf
<1> QED
  BY <1>5, <1>6, <1>7

\* What execute_candidate is called with.
LEMMA ContinuedIsGood ==
  ASSUME NEW h \in Hashes, NEW d, d = Detect(Tx[h]), d.verdict = "candidate",
         NEW c, Qualified(c),
         c = d \/ (NeedsResolver(d) /\ c \in Answers(d))
  PROVE  BuyIsGood(c, Tx[h], pairs)
<1>1. d \in Adds /\ d \in Candidates /\ d.pair = None
  BY AddIsCandidate, AddFields DEF Adds
<1>2. /\ c.router = d.router /\ c.base = d.base /\ c.token = d.token
      /\ c.amount = d.amount /\ c.curve = d.curve
      /\ \/ c.pair = None
         \/ \E f \in FactoriesFor(d) :
              /\ NeedsResolver(d)
              /\ c.factory = f /\ c.pair = PairOf(f, c) /\ c.pair \in pairs
  BY <1>1, AnswerIsCandidate
<1>3. Matches(c, Tx[h])
  <2>1. d.base # Native
    BY <1>2 DEF Qualified
  <2> QED
    BY <1>2, <2>1, DetectedMatches DEF Matches
<1>4. \/ c.pair = None /\ AllowWithoutPair
      \/ c.pair \in pairs /\ c.pair = PairOf(c.factory, c)
  BY <1>2 DEF Qualified
<1>5. Pinned(c)
  <2>1. d.factory = IF d.router \in DOMAIN RouterFactory
                    THEN RouterFactory[d.router] ELSE None
    BY <1>1, AddFields
  <2> QED
    BY <1>2, <2>1 DEF Pinned, NeedsResolver, FactoriesFor
<1> QED
  BY <1>3, <1>4, <1>5 DEF BuyIsGood

LEMMA CandStep == CandInv /\ TypeOK' /\ [Next]_vars => CandState'
<1> SUFFICES ASSUME CandInv, TypeOK', [Next]_vars PROVE CandState'
  OBVIOUS
<1> USE DEF chain, task
\* Pairs are never unmade.
<1>1. ASSUME pairs \subseteq pairs', NEW c, NEW tx, BuyIsGood(c, tx, pairs)
      PROVE  BuyIsGood(c, tx, pairs')
  BY <1>1 DEF BuyIsGood
<1>2. ASSUME UNCHANGED attempts, pairs \subseteq pairs'
      PROVE  \A i \in DOMAIN attempts' :
               BuyIsGood(attempts'[i].cand, Tx[attempts'[i].hash], pairs')
  BY <1>1, <1>2 DEF CandInv, CandState
<1>3. ASSUME UNCHANGED <<attempts, pairs>>, pc' \notin {"resolve", "send"}
      PROVE  CandState'
  BY <1>2, <1>3 DEF CandState
<1>4. ASSUME UNCHANGED <<attempts, pc, cand, hash>>, pairs \subseteq pairs'
      PROVE  CandState'
  <2>1. pc' = "send" => BuyIsGood(cand', Tx[hash'], pairs')
    BY <1>1, <1>4 DEF CandInv, CandState
  <2>2. pc' = "resolve" => /\ cand' = Detect(Tx[hash']) /\ cand'.verdict = "candidate"
                          /\ NeedsResolver(cand')
    BY <1>4 DEF CandInv, CandState
  <2> QED
    BY <1>2, <1>4, <2>1, <2>2 DEF CandState
<1>5. ASSUME UNCHANGED <<attempts, pairs>>, NEW d, d = Detect(Tx[hash]),
             hash \in Hashes, d.verdict = "candidate", NEW c,
             c = d \/ (NeedsResolver(d) /\ c \in Answers(d)), Continue(c)
      PROVE  CandState'
  <2>1. CASE Qualified(c)
    <3>1. BuyIsGood(c, Tx[hash], pairs)
      BY <1>5, <2>1, ContinuedIsGood
    <3>2. BuyIsGood(c, Tx[hash], pairs')
      BY <1>1, <1>5, <3>1
    <3>3. pc' = "send" /\ cand' = c /\ hash' = hash
      BY <1>5, <2>1 DEF Continue
    <3> QED
      BY <1>2, <1>5, <3>2, <3>3 DEF CandState
  <2>2. CASE ~Qualified(c)
    BY <1>3, <1>5, <2>2 DEF Continue, Done
  <2> QED
    BY <2>1, <2>2
<1>6. ASSUME NEW s \in Sources, Recv(s) PROVE CandState'
  <2>1. pc' \in {"select", "fetch"} /\ UNCHANGED <<attempts, pairs>>
    BY <1>6 DEF Recv, Handled
  <2> QED
    BY <1>3, <2>1
<1>7. CASE FetchMissing \/ FetchFails \/ ResolveFails \/ Crash
  BY <1>3, <1>7 DEF FetchMissing, FetchFails, ResolveFails, Crash, Done, Stop
<1>8. CASE FetchFound
  <2> DEFINE d == Detect(Tx[hash])
  <2>1. hash \in Hashes /\ UNCHANGED <<attempts, pairs>>
    BY <1>8 DEF FetchFound, CandInv, TypeOK, TaskOK
  <2>2. CASE Done \/ Stop
    BY <1>3, <2>1, <2>2 DEF Done, Stop
  <2>3. CASE /\ d.verdict = "candidate" /\ NeedsResolver(d)
             /\ pc' = "resolve" /\ cand' = d /\ hash' = hash
    <3>1. cand' = Detect(Tx[hash']) /\ cand'.verdict = "candidate" /\ NeedsResolver(cand')
      BY <2>3
    <3> HIDE DEF d
    <3> QED
      BY <1>2, <2>1, <2>3, <3>1 DEF CandState
  <2>4. CASE d.verdict = "candidate" /\ Continue(d)
    <3>1. ASSUME NEW e, e = d PROVE Continue(e) => CandState'
      BY <1>5, <2>1, <2>4, <3>1
    <3> QED
      BY <2>4, <3>1
  <2> QED
    BY <1>8, <2>2, <2>3, <2>4 DEF FetchFound
<1>9. CASE ResolveDone
  <2>1. PICK c \in Answers(cand) : Continue(c)
    BY <1>9 DEF ResolveDone
  <2>2. /\ hash \in Hashes /\ cand = Detect(Tx[hash])
        /\ cand.verdict = "candidate" /\ NeedsResolver(cand)
    BY <1>9 DEF ResolveDone, CandInv, CandState, TypeOK, TaskOK
  <2> QED
    BY <1>5, <1>9, <2>1, <2>2 DEF ResolveDone
<1>10. CASE SendOk \/ SendFails \/ SendLost
  <2>1. PICK accepted \in BOOLEAN : pc = "send" /\ Attempt(accepted)
    BY <1>10 DEF SendOk, SendFails, SendLost
  <2> DEFINE n == Len(attempts)
  <2>2. Buy(accepted).cand = cand /\ Buy(accepted).hash = hash
    BY DEF Buy
  <2>3. /\ DOMAIN attempts = 1 .. n /\ n \in Nat /\ DOMAIN attempts' = 1 .. n + 1
        /\ attempts'[n + 1].cand = cand /\ attempts'[n + 1].hash = hash
        /\ \A i \in 1 .. n : attempts'[i] = attempts[i]
    BY <2>1, <2>2, AttemptAppends DEF CandInv
  <2>4. pairs' = pairs /\ pc' \in {"select", "stopped"}
    BY <1>10 DEF SendOk, SendFails, SendLost, Attempt, Done, Stop
  <2>5. ASSUME NEW i \in DOMAIN attempts'
        PROVE  BuyIsGood(attempts'[i].cand, Tx[attempts'[i].hash], pairs')
    <3>1. CASE i \in 1 .. n
      BY <1>1, <2>3, <2>4, <3>1 DEF CandInv, CandState
    <3>2. CASE i = n + 1
      BY <1>1, <2>1, <2>3, <2>4, <3>2 DEF CandInv, CandState
    <3> QED
      BY <2>3, <3>1, <3>2
  <2> QED
    BY <2>4, <2>5 DEF CandState
<1>11. CASE Restart
  BY <1>3, <1>11 DEF Restart
<1>12. CASE \/ \E s \in Sources, h \in Hashes : Announce(s, h)
            \/ Tick \/ WalletTx
            \/ \E f \in AllFactories, c \in Adds : CreatePair(f, c)
  BY <1>4, <1>12 DEF Announce, Tick, WalletTx, CreatePair
<1>13. CASE UNCHANGED vars
  BY <1>4, <1>13 DEF vars
<1> QED
  BY <1>6, <1>7, <1>8, <1>9, <1>10, <1>11, <1>12, <1>13 DEF Next, BotNext, WorldNext

LEMMA CandInvariant == Spec => []CandInv
<1>1. Init => CandInv
  BY TypeInit DEF Init, CandInv, CandState
<1>2. CandInv /\ [Next]_vars => CandInv'
  BY TypeStep, CandStep DEF CandInv
<1> QED
  BY <1>1, <1>2, PTL DEF Spec

\* A buy without the owner's consent to do without names an existing pair of
\* its own tokens, curve and factory.
THEOREM BuysAreGuarded == Spec => []GuardedBuy
<1>1. CandInv => GuardedBuy
  BY DEF CandInv, CandState, BuyIsGood, GuardedBuy, Guarded
<1> QED
  BY <1>1, CandInvariant, PTL

\* A pair is never taken from another DEX's factory.
THEOREM FactoriesArePinned == Spec => []PinnedFactory
<1>1. CandInv => PinnedFactory
  BY DEF CandInv, CandState, BuyIsGood, PinnedFactory
<1> QED
  BY <1>1, CandInvariant, PTL

\* What execute_candidate and the builder make of a good candidate asks for
\* what the add says.
LEMMA GoodRequest ==
  ASSUME NEW c, NEW d, NEW n, NEW tx, Matches(c, tx)
  PROVE  Requested(Request(c, d, n), c, tx)
<1> DEFINE pair == IF c.pair = None THEN ZeroAddress ELSE c.pair
<1>1. CASE c.curve = "v2"
  <2>1. Request(c, d, n) = apply("buyV2", BuyV2Params(c, d, pair), n)
    BY <1>1 DEF Request, build_buy_v2
  <2>2. /\ Request(c, d, n).method = "buyV2"
        /\ Request(c, d, n).params = BuyV2Params(c, d, pair)
    BY <2>1 DEF apply
  <2>3. tx.selector = "addLiquidity"
    BY <1>1 DEF Matches
  <2> QED
    BY <2>2, <2>3 DEF Requested, Matches, BuyV2Params
<1>2. CASE c.curve # "v2"
  <2>1. Request(c, d, n) = apply("buySolidly", BuySolidlyParams(c, d, pair), n)
    BY <1>2 DEF Request, build_buy_solidly
  <2>2. /\ Request(c, d, n).method = "buySolidly"
        /\ Request(c, d, n).params = BuySolidlyParams(c, d, pair)
    BY <2>1 DEF apply
  <2>3. tx.selector = "addLiquiditySolidly" /\ (tx.args.stable <=> c.curve = "stable")
    BY <1>2 DEF Matches
  <2>4. Request(c, d, n).params.stable <=> tx.args.stable
    <3>1. Request(c, d, n).params.stable = (c.curve = "stable")
      BY <2>2 DEF BuySolidlyParams
    <3> QED
      BY <2>3, <3>1, Zenon
  <2>5. LET params == Request(c, d, n).params IN
        /\ params.router = c.router /\ params.recipient = Owner
        /\ params.tokenIn = c.base /\ params.tokenOut = c.token
        /\ params.amountIn = c.amount /\ params.pair = pair
    BY <2>2 DEF BuySolidlyParams
  <2> QED
    BY <2>2, <2>3, <2>4, <2>5 DEF Requested, Matches
<1> QED
  BY <1>1, <1>2

\* A request asks for what the add says whose hash it was made for, whatever
\* happened between the sighting of the hash and the sending.
THEOREM RequestsMatchAdds == Spec => []RequestMatchesAdd
<1>1. CandInv => BuyMatchesAdd
  BY DEF CandInv, CandState, BuyIsGood, BuyMatchesAdd
<1>2. BuyMatchesAdd => RequestMatchesAdd
  BY GoodRequest DEF BuyMatchesAdd, RequestMatchesAdd
<1> QED
  BY <1>1, <1>2, CandInvariant, PTL
-----------------------------------------------------------------------------
(***************************************************************************)
(* What the deduper buys the orchestrator: no process handles an add again *)
(* that it has bought, unless the window of its hash was over or the hash  *)
(* forgotten for Slots others. The deduper's own invariant, proved in      *)
(* DedupeProofs for any sequence of calls, is that of its calls here.      *)
(***************************************************************************)

D == INSTANCE DedupeProofs
  WITH Keys <- Hashes, Capacity <- DedupCapacity, TtlMs <- DedupTtl,
       MaxMs <- MaxNow + DedupTtl, verdict <- excused

LEMMA SameCalls ==
  ASSUME NEW k, NEW time, NEW fresh, Dedupe!CheckAndUpdate(k, time, fresh)
  PROVE  D!CheckAndUpdate(k, time, fresh)
BY Zenon DEF D!CheckAndUpdate, D!Hit, D!Miss, D!Live, D!Cached, D!SaturatingAdd, D!InsertedWith,
   D!AfterPut, D!Touched, D!Pushed, D!Slots,
   Dedupe!CheckAndUpdate, Dedupe!Hit, Dedupe!Miss, Dedupe!Live, Dedupe!Cached,
   Dedupe!SaturatingAdd, Dedupe!InsertedWith, Dedupe!AfterPut, Dedupe!Touched,
   Dedupe!Pushed, Dedupe!Slots

LEMMA SameSightings ==
  ASSUME NEW k, NEW time, Window!Sighted(k, time)
  PROVE  D!Window!Sighted(k, time)
BY Zenon DEF D!Window!Sighted, Window!Sighted, D!Window!Seen, Window!Seen

\* DedupeProofs' step, for a sighting by the orchestrator: its invariant is
\* kept, and what is let through is what the window must let pass.
LEMMA SightingKeepsHistory ==
  ASSUME D!DedupeInv, NEW k \in Hashes, NEW time \in 0 .. MaxNow,
         NEW fresh \in BOOLEAN,
         Dedupe!CheckAndUpdate(k, time, fresh), Window!Sighted(k, time)
  PROVE  /\ D!DedupeInv'
         /\ fresh => Window!MustPass(k, time)
<1>1. MaxNow \in Nat /\ DedupTtl \in Nat /\ DedupCapacity \in Nat
  BY BotAssumption
<1>2. D!DedupeAssumption /\ time \in D!Times
  BY <1>1 DEF D!DedupeAssumption, D!Times
<1>3. D!Sighting(k, time, fresh)
  BY SameCalls, SameSightings DEF D!Sighting
<1>4. D!DedupeInv'
  BY <1>2, <1>3, D!SightingKeepsDedupeInv
<1>5. ASSUME fresh PROVE Window!MustPass(k, time)
  <2>1. ~D!Live(k, time)
    <3>1. D!CheckAndUpdate(k, time, fresh)
      BY SameCalls
    <3> QED
      BY <1>5, <3>1 DEF D!CheckAndUpdate, D!Miss
  <2>2. D!Window!MustPass(k, time)
    BY <1>2, <2>1, D!AnswersAsWindow
  <2> QED
    BY <2>2 DEF D!Window!MustPass, Window!MustPass, D!Window!Seen, Window!Seen,
                D!Window!Lapsed, Window!Lapsed, D!Slots, Dedupe!Slots,
                D!Window!Cardinality, Window!Cardinality
<1> QED
  BY <1>4, <1>5

\* A deduper that has been told nothing.
LEMMA NothingSeenInv ==
  ASSUME expiresAt' = [h \in {} |-> 0], age' = Dedupe!NoAges,
         lastSeen' = [h \in {} |-> 0], since' = [h \in {} |-> {}]
  PROVE  D!DedupeInv'
BY DEF D!DedupeInv, Dedupe!NoAges, D!TypeOK, D!Cached, D!Window!Seen, D!IsList,
       D!EvictedOnlyBySlotsOthers, D!ListIsRecency, D!WindowEndsAreCurrent

HistoryInv ==
  /\ D!DedupeInv
  /\ now <= MaxNow
  /\ InFlight => hash \in Window!Seen
  /\ \A i \in DOMAIN attempts :
       attempts[i].life = life => attempts[i].hash \in Window!Seen
  /\ NoDoubleBuy

LEMMA HistoryInit == HInit => HistoryInv
<1> SUFFICES ASSUME HInit PROVE HistoryInv
  OBVIOUS
<1>1. D!DedupeInv
  BY DEF HInit, Init, Dedupe!Init, D!DedupeInv, Dedupe!NoAges, D!TypeOK, D!Cached,
         D!Window!Seen, D!IsList, D!EvictedOnlyBySlotsOthers, D!ListIsRecency,
         D!WindowEndsAreCurrent
<1>2. now <= MaxNow
  BY BotAssumption DEF HInit, Init
<1> QED
  BY <1>1, <1>2 DEF HInit, Init, HistoryInv, NoDoubleBuy, InFlight

\* The history of a bot is that of Bot.
LEMMA HistoryStepsBot == [HNext]_<<vars, historyVars>> => [Next]_vars
BY DEF HNext, SightedFrom, RestartForgets, Others, Next, BotNext, WorldNext

LEMMA OthersKeepFlight ==
  ASSUME NonceInv, Others
  PROVE  /\ UNCHANGED <<expiresAt, age, life>>
         /\ InFlight' => InFlight /\ hash' = hash /\ attempts' = attempts
         /\ \/ attempts' = attempts
            \/ /\ InFlight
               /\ \A i \in DOMAIN attempts' :
                    \/ i \in DOMAIN attempts /\ attempts'[i] = attempts[i]
                    \/ attempts'[i].hash = hash
         /\ now' = now \/ now' \in 0 .. MaxNow
<1> USE DEF chain, task, InFlight
<1>1. CASE FetchMissing \/ FetchFails \/ ResolveFails \/ Crash
  BY <1>1 DEF FetchMissing, FetchFails, ResolveFails, Crash, Done, Stop
<1>2. ASSUME NEW c, Continue(c), pc \in {"fetch", "resolve"}
      PROVE  InFlight' => InFlight /\ hash' = hash
  BY <1>2 DEF Continue, Done
<1>3. CASE FetchFound
  <2>1. InFlight' => InFlight /\ hash' = hash
    BY <1>2, <1>3 DEF FetchFound, Done, Stop
  <2> QED
    BY <1>3, <2>1 DEF FetchFound
<1>4. CASE ResolveDone
  <2>1. InFlight' => InFlight /\ hash' = hash
    BY <1>2, <1>4 DEF ResolveDone
  <2> QED
    BY <1>4, <2>1 DEF ResolveDone
<1>5. ASSUME pc = "send", NEW accepted \in BOOLEAN, Attempt(accepted), Done \/ Stop
      PROVE  /\ UNCHANGED <<expiresAt, age, life, now>> /\ ~InFlight' /\ InFlight
             /\ \A i \in DOMAIN attempts' :
                  \/ i \in DOMAIN attempts /\ attempts'[i] = attempts[i]
                  \/ attempts'[i].hash = hash
  <2>1. Buy(accepted).hash = hash
    BY DEF Buy
  <2>2. \A i \in DOMAIN attempts' :
          \/ i \in DOMAIN attempts /\ attempts'[i] = attempts[i]
          \/ attempts'[i] = Buy(accepted)
    BY <1>5, AttemptAppends DEF NonceInv
  <2> QED
    BY <1>5, <2>1, <2>2 DEF Attempt, Done, Stop
<1>6. CASE SendOk \/ SendFails \/ SendLost
  BY <1>5, <1>6 DEF SendOk, SendFails, SendLost
<1>7. CASE \/ \E s \in Sources, h \in Hashes : Announce(s, h)
           \/ Tick \/ WalletTx
           \/ \E f \in AllFactories, c \in Adds : CreatePair(f, c)
  BY <1>7 DEF Announce, Tick, WalletTx, CreatePair
<1> QED
  BY <1>1, <1>3, <1>4, <1>6, <1>7 DEF Others

LEMMA HistoryStep ==
  NonceInv /\ HistoryInv /\ [HNext]_<<vars, historyVars>> => HistoryInv'
<1> SUFFICES ASSUME NonceInv, HistoryInv, [HNext]_<<vars, historyVars>>
             PROVE  HistoryInv'
  OBVIOUS
<1>1. now \in Nat /\ MaxNow \in Nat /\ now <= MaxNow
  BY BotAssumption DEF NonceInv, TypeOK, ChainOK, HistoryInv
<1>2. ASSUME NEW s \in Sources, SightedFrom(s) PROVE HistoryInv'
  <2> DEFINE k == Head(stream[s])
  <2>1. /\ k \in Hashes /\ pc = "select" /\ Window!Sighted(k, now)
        /\ UNCHANGED <<now, life, attempts>>
        /\ excused' = (InFlight' /\ Excuse(k))
    BY <1>2 DEF SightedFrom, Recv, Handled, chain, NonceInv, TypeOK, StreamsOK
  <2>2. PICK fresh \in BOOLEAN :
          /\ Dedupe!CheckAndUpdate(k, now, fresh)
          /\ fresh => pc' = "fetch" /\ hash' = k
          /\ ~fresh => UNCHANGED task
    BY <1>2 DEF SightedFrom, Recv, Handled
  <2> HIDE DEF k
  <2>3. D!DedupeInv' /\ (fresh => Window!MustPass(k, now))
    BY <1>1, <2>1, <2>2, SightingKeepsHistory DEF HistoryInv
  <2>4. Window!Seen' = Window!Seen \cup {k}
    BY <2>1 DEF Window!Sighted, Window!Seen
  <2>5. InFlight' => fresh /\ hash' = k
    BY <2>1, <2>2 DEF InFlight, task
  <2>6. \A i \in DOMAIN attempts' :
          attempts'[i].life = life' => attempts'[i].hash \in Window!Seen
    BY <2>1 DEF HistoryInv
  <2>7. NoDoubleBuy'
    <3> SUFFICES ASSUME InFlight', NEW i \in DOMAIN attempts',
                        attempts'[i].life = life', attempts'[i].hash = hash'
                 PROVE  excused'
      BY DEF NoDoubleBuy
    <3>1. k \in Window!Seen
      BY <2>5, <2>6
    <3>2. Window!MustPass(k, now)
      BY <2>3, <2>5
    <3>3. Window!Lapsed(k, now) \/ Cardinality(since[k]) >= Dedupe!Slots
      BY <3>1, <3>2 DEF Window!MustPass, Window!Cardinality, Cardinality
    <3> QED
      BY <2>1, <3>1, <3>3 DEF Excuse
  <2> QED
    BY <1>1, <2>1, <2>3, <2>4, <2>5, <2>6, <2>7 DEF HistoryInv
<1>3. CASE RestartForgets
  <2>1. D!DedupeInv'
    BY <1>3, NothingSeenInv DEF RestartForgets, Restart
  <2>2. UNCHANGED <<now, attempts>> /\ ~InFlight' /\ life' = life + 1
    BY <1>3 DEF RestartForgets, Restart, chain, InFlight
  <2>3. ASSUME NEW i \in DOMAIN attempts PROVE attempts[i].life # life'
    <3>1. attempts[i] \in Buys /\ life \in Nat
      BY DEF NonceInv, TypeOK, AttemptsOK
    <3>2. attempts[i].life \in Nat /\ attempts[i].life <= life
      BY <3>1 DEF NonceInv, NonceState, Buys
    <3> QED
      BY <2>2, <3>1, <3>2
  <2> QED
    BY <1>1, <2>1, <2>2, <2>3 DEF HistoryInv, NoDoubleBuy
<1>4. CASE /\ Others
           /\ excused' = (InFlight' /\ excused)
           /\ UNCHANGED <<lastSeen, since>>
  <2>1. /\ UNCHANGED <<expiresAt, age, life>>
        /\ InFlight' => InFlight /\ hash' = hash /\ attempts' = attempts
        /\ \/ attempts' = attempts
           \/ /\ InFlight
              /\ \A i \in DOMAIN attempts' :
                   \/ i \in DOMAIN attempts /\ attempts'[i] = attempts[i]
                   \/ attempts'[i].hash = hash
        /\ now' = now \/ now' \in 0 .. MaxNow
    BY <1>4, OthersKeepFlight
  <2>2. D!DedupeInv'
    BY <1>4, <2>1, BotAssumption, D!StutterKeepsDedupeInv
       DEF HistoryInv, D!DedupeAssumption
  <2>3. now' <= MaxNow
    BY <1>1, <2>1
  <2>4. Window!Seen' = Window!Seen
    BY <1>4 DEF Window!Seen
  <2>5. \A i \in DOMAIN attempts' :
          attempts'[i].life = life' => attempts'[i].hash \in Window!Seen'
    BY <2>1, <2>4 DEF HistoryInv
  <2>6. InFlight' => hash' \in Window!Seen'
    BY <2>1, <2>4 DEF HistoryInv
  <2>7. NoDoubleBuy'
    BY <1>4, <2>1 DEF HistoryInv, NoDoubleBuy
  <2> QED
    BY <2>2, <2>3, <2>5, <2>6, <2>7 DEF HistoryInv
<1>5. CASE UNCHANGED <<vars, historyVars>>
  <2>1. /\ UNCHANGED <<expiresAt, age, lastSeen, since, excused, now>>
        /\ UNCHANGED <<pc, hash, life, attempts>>
    BY <1>5 DEF vars, historyVars, task, chain
  <2>2. D!DedupeInv'
    BY <2>1, BotAssumption, D!StutterKeepsDedupeInv DEF HistoryInv, D!DedupeAssumption
  <2> QED
    BY <2>1, <2>2 DEF HistoryInv, NoDoubleBuy, InFlight, Window!Seen
<1> QED
  BY <1>2, <1>3, <1>4, <1>5 DEF HNext

\* NoDoubleBuy, for every number of hashes, capacity and window: an add that was
\* bought is handled again only when its hash was not seen for more than the
\* TTL, or as many others were seen since as the deduper holds, in whatever
\* order and number the streams announce them.
THEOREM NothingBoughtTwice == HSpec => []NoDoubleBuy
<1>1. HistoryInv => NoDoubleBuy
  BY DEF HistoryInv
<1>2. HSpec => Spec
  <2>1. HInit => Init
    BY DEF HInit
  <2> QED
    BY <2>1, HistoryStepsBot, PTL DEF HSpec, Spec
<1>3. HSpec => []HistoryInv
  BY <1>2, NonceInvariant, HistoryInit, HistoryStep, PTL DEF HSpec
<1> QED
  BY <1>1, <1>3, PTL
=============================================================================
