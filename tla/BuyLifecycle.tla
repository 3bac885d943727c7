----------------------------- MODULE BuyLifecycle -----------------------------
(***************************************************************************)
(* The bot together with what becomes of its buys: the request each one is *)
(* sent as (TxBuilder), the node's pool, and a chain that mines the        *)
(* account's transactions in the order of their nonces, as soon as the     *)
(* base fee is within their fee, and reverts a buy past its deadline.      *)
(* A step of the bot is a step of Bot, to which execute_candidate's        *)
(* deadline and request are added: all that holds of Bot holds here. The   *)
(* time of a block is the bot's clock: the two are taken to agree.         *)
(***************************************************************************)
EXTENDS Bot

CONSTANT BaseFees   \* what the base fee of a block can be, in wei

VARIABLES
  deadline,    \* execute_candidate's local
  begun,       \* history: the clock when it was chosen
  sent,        \* history: the requests of attempts, with what became of them
  minedNonce,  \* the account's next nonce on chain
  baseFee

account == <<sent, minedNonce, baseFee>>
lifeVars == <<vars, deadline, begun, account>>

LifeInit ==
  /\ Init
  /\ deadline = 0 /\ begun = 0
  /\ sent = <<>>
  /\ minedNonce \in 0 .. accountNonce
  /\ baseFee \in BaseFees

\* Wherever the bot gets to the send, it has just drawn the nonce and chosen
\* the deadline; when the handler is left the local is gone.
DeadlineChosen ==
  CASE pc' # "send" -> deadline' = 0 /\ begun' = 0
    [] pc' = "send" /\ pc # "send" -> deadline' = Deadline(now) /\ begun' = now
    [] OTHER -> UNCHANGED <<deadline, begun>>

RequestSent ==
  IF attempts' = attempts THEN UNCHANGED sent
  ELSE sent' = Append(sent,
         [request |-> Request(cand, deadline, nonce), begun |-> begun, at |-> 0,
          fate |-> IF attempts'[Len(attempts')].accepted THEN "pool"
                   ELSE "refused"])

BotStep ==
  /\ Next
  /\ DeadlineChosen /\ RequestSent
  /\ UNCHANGED <<minedNonce, baseFee>>
-----------------------------------------------------------------------------
\* A block has the account's next transaction. When that is a buy, the contract
\* may revert it for any reason, and must after the deadline (in seconds).
MineBuy(i, fate) ==
  /\ sent[i].fate = "pool" /\ sent[i].request.nonce = minedNonce
  /\ baseFee <= sent[i].request.feeCap
  /\ fate = "bought" => now \div MsPerSec <= sent[i].request.params.deadline
  /\ sent' = [sent EXCEPT ![i] =
       [request |-> @.request, begun |-> @.begun, fate |-> fate,
        at |-> IF fate = "bought" THEN now ELSE 0]]
  /\ minedNonce' = minedNonce + 1
  /\ UNCHANGED <<vars, deadline, begun, baseFee>>

MineOther ==
  /\ minedNonce < accountNonce
  /\ \A i \in DOMAIN sent : ~(sent[i].fate = "pool" /\ sent[i].request.nonce = minedNonce)
  /\ minedNonce' = minedNonce + 1
  /\ UNCHANGED <<vars, deadline, begun, sent, baseFee>>

Mine ==
  \/ \E i \in DOMAIN sent, fate \in {"bought", "reverted"} : MineBuy(i, fate)
  \/ MineOther

NewBaseFee ==
  /\ baseFee' \in BaseFees
  /\ UNCHANGED <<vars, deadline, begun, sent, minedNonce>>

LifeNext == BotStep \/ Mine \/ NewBaseFee

LifeSpec == LifeInit /\ [][LifeNext]_lifeVars

\* Blocks are made, and take what they may.
LifeFairSpec == LifeSpec /\ Fairness /\ WF_lifeVars(Mine)
-----------------------------------------------------------------------------
(***************************************************************************)
(* Properties.                                                             *)
(***************************************************************************)

\* However long a buy waits in the pool, for a nonce or for the base fee, it
\* does not buy later than deadline_secs (and the rest of the second) after
\* execute_candidate was called.
NoLateBuy ==
  \A i \in DOMAIN sent :
    sent[i].fate = "bought" =>
      sent[i].at < sent[i].begun + (DeadlineSecs + 1) * MsPerSec

\* A buy in the pool waits for no transaction that is not there too: its nonce
\* is one of those the account has used and no block had, no other buy's, and
\* it offers all that max_fee_gwei allows.
Waiting(i) == i \in DOMAIN sent /\ sent[i].fate = "pool"
WaitingInLine ==
  \A i \in DOMAIN sent :
    Waiting(i) =>
      /\ sent[i].request.nonce \in minedNonce .. accountNonce - 1
      /\ sent[i].request.feeCap = MaxFeeGwei * WeiPerGwei
      /\ \A j \in DOMAIN sent \ {i} :
           Waiting(j) => sent[j].request.nonce # sent[i].request.nonce

\* A buy the node took is mined, one way or the other, if only the base fee
\* stays within max_fee_gwei from some time on: it never waits for a nonce
\* nobody will use, nor for a fee it could have offered.
BuysSettle ==
  <>[](baseFee <= MaxFeeGwei * WeiPerGwei) =>
    \A i \in 1 .. MaxAttempts : Waiting(i) ~> ~Waiting(i)
=============================================================================
