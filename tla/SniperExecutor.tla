--------------------------- MODULE SniperExecutor ---------------------------
(***************************************************************************)
(* The executor contract (contracts/SonicSniperExecutor.sol). A buy is one *)
(* transaction of several calls into the base token and the router, each   *)
(* of which may fail; then the chain undoes all of it. Between two of its  *)
(* own calls the contract is at                                            *)
(*   "idle"     no transaction of it runs                                  *)
(*   "pull"     before safeTransferFrom of what it lacks                   *)
(*   "clear"    before safeApprove(router, 0)                              *)
(*   "approve"  before safeApprove(router, amountIn)                       *)
(*   "swap"     before the router's swap                                   *)
(*   "reset"    before the last safeApprove(router, 0)                     *)
(* Base is the token of path[0] (tokenIn), the bought token that of the    *)
(* path's end (tokenOut). A call is a record [kind, sender, router, hops,  *)
(* amountIn, minAmountOut, recipient, deadline, pair, minBaseReserve,      *)
(* minTokenReserve, maxBlockNumber]: kind is "v2" or "solidly", hops the   *)
(* length of path, pair whether one is named.                              *)
(***************************************************************************)
EXTENDS Integers

CONSTANTS
  Calls,         \* the buys that may be asked for, by anyone
  Routers,
  Owner,         \* who deployed the contract
  Executor,      \* the contract's own address
  Accounts,      \* who may hold bought tokens: Owner and Executor among them
  NoCall,        \* no transaction runs
  BaseIsToken0,  \* the order of the pair's tokens
  BaseSupply,    \* bound: base there is
  TokenSupply,   \* bound: tokens to buy
  MaxHeight      \* bound: the chain stops here

ASSUME ExecutorAssumption ==
  /\ {Owner, Executor} \subseteq Accounts /\ Owner # Executor
  /\ NoCall \notin Calls
  /\ BaseIsToken0 \in BOOLEAN /\ BaseSupply \in Nat
  /\ TokenSupply \in Nat /\ MaxHeight \in Nat
  /\ \A c \in Calls :
       /\ c.router \in Routers
       /\ c.amountIn \in Nat /\ c.minAmountOut \in Nat

VARIABLES
  ownerBase, ownerAllowance,  \* the owner's base, and its approval of it
  execBase, allowance,        \* the contract's base, and router -> its approval
  got,                        \* account -> bought tokens it holds
  baseReserve, tokenReserve,  \* what the pair holds
  amountOut,                  \* what the last buy returned
  useFeeOnTransfer, eth,      \* the contract's flag, and its ether
  height,                     \* block.number and block.timestamp: one counter
  pc, call, saved             \* the transaction that runs; the state before it

money == <<ownerBase, ownerAllowance, execBase, got, baseReserve, tokenReserve>>
settings == <<useFeeOnTransfer, eth, height>>
vars == <<money, allowance, amountOut, settings, pc, call, saved>>

\* What a transaction that fails is rolled back to.
Snapshot ==
  [ownerBase |-> ownerBase, ownerAllowance |-> ownerAllowance,
   execBase |-> execBase, allowance |-> allowance, got |-> got,
   baseReserve |-> baseReserve, tokenReserve |-> tokenReserve,
   amountOut |-> amountOut]

\* No transaction runs: there is nothing to go back to.
NotSaved ==
  [ownerBase |-> 0, ownerAllowance |-> 0, execBase |-> 0,
   allowance |-> [r \in Routers |-> 0], got |-> [a \in Accounts |-> 0],
   baseReserve |-> 0, tokenReserve |-> 0, amountOut |-> 0]

\* The constructor: msg.sender is the owner.
Init ==
  /\ ownerBase \in 0 .. BaseSupply /\ ownerAllowance = 0 /\ execBase = 0
  /\ got = [a \in Accounts |-> 0]
  /\ baseReserve = 0 /\ tokenReserve \in 0 .. TokenSupply
  /\ allowance = [r \in Routers |-> 0]
  /\ amountOut = 0 /\ useFeeOnTransfer = FALSE /\ eth = 0 /\ height = 0
  /\ pc = "idle" /\ call = NoCall /\ saved = NotSaved
-----------------------------------------------------------------------------
(***************************************************************************)
(* buyV2 and buySolidly.                                                   *)
(***************************************************************************)

OnlyOwner(c) == c.sender = Owner

BlockGuard(c) == c.maxBlockNumber # 0 => height <= c.maxBlockNumber

\* getReserves answers in the order of the tokens' addresses.
Reserve0 == IF BaseIsToken0 THEN baseReserve ELSE tokenReserve
Reserve1 == IF BaseIsToken0 THEN tokenReserve ELSE baseReserve

ReserveGuard(c) ==
  c.pair => Reserve0 >= c.minBaseReserve /\ Reserve1 >= c.minTokenReserve

\* What safeTransferFrom takes from the owner.
MissingAll(c) == c.amountIn
Missing(c) == c.amountIn - execBase

To(c) == IF c.recipient \in Accounts THEN c.recipient ELSE Owner

\* The contract is called. A call that a require refuses changes nothing.
SubmitPullsIfEmpty(c) ==
  /\ pc = "idle"
  /\ OnlyOwner(c)
  /\ c.kind = "v2" => c.hops >= 2
  /\ BlockGuard(c) /\ ReserveGuard(c)
  /\ pc' = IF execBase = 0 THEN "pull" ELSE "clear"
  /\ call' = c /\ saved' = Snapshot
  /\ UNCHANGED <<money, allowance, amountOut, settings>>
Submit(c) ==
  /\ pc = "idle"
  /\ OnlyOwner(c)
  /\ c.kind = "v2" => c.hops >= 2
  /\ BlockGuard(c) /\ ReserveGuard(c)
  /\ pc' = IF execBase < c.amountIn THEN "pull" ELSE "clear"
  /\ call' = c /\ saved' = Snapshot
  /\ UNCHANGED <<money, allowance, amountOut, settings>>

Pull ==
  /\ pc = "pull" /\ pc' = "clear"
  /\ LET missing == Missing(call) IN
     /\ missing <= ownerBase /\ missing <= ownerAllowance
     /\ ownerBase' = ownerBase - missing
     /\ ownerAllowance' = ownerAllowance - missing
     /\ execBase' = execBase + missing
  /\ UNCHANGED <<got, baseReserve, tokenReserve, allowance, amountOut, settings,
                 call, saved>>

Approved(n) == allowance' = [allowance EXCEPT ![call.router] = n]

Clear ==
  /\ pc = "clear" /\ pc' = "approve"
  /\ Approved(0)
  /\ UNCHANGED <<money, amountOut, settings, call, saved>>

Approve ==
  /\ pc = "approve" /\ pc' = "swap"
  /\ Approved(call.amountIn)
  /\ UNCHANGED <<money, amountOut, settings, call, saved>>

\* The router as the contract uses it: not after the deadline, it takes at
\* most what it may of the contract's base, the pair sends `claimed` tokens, of
\* which `received` arrive when the token charges a fee. The supporting-fee
\* method looks at what arrives, the others at what was sent.
Swapped(taken, claimed, received) ==
  /\ height <= call.deadline
  /\ taken <= allowance[call.router] /\ taken <= execBase
  /\ execBase' = execBase - taken /\ baseReserve' = baseReserve + taken
  /\ allowance' = [allowance EXCEPT ![call.router] = @ - taken]
  /\ claimed <= tokenReserve /\ tokenReserve' = tokenReserve - claimed
  /\ received <= claimed
  /\ got' = [got EXCEPT ![To(call)] = @ + received]

SupportsFee == call.kind = "v2" /\ useFeeOnTransfer

\* amountOut is the change of the recipient's balance, or amounts' last.
Swap ==
  /\ pc = "swap" /\ pc' = "reset"
  /\ \E taken \in 0 .. BaseSupply, claimed, received \in 0 .. TokenSupply :
       /\ Swapped(taken, claimed, received)
       /\ IF SupportsFee
            THEN received >= call.minAmountOut /\ amountOut' = received
            ELSE claimed >= call.minAmountOut /\ amountOut' = claimed
  /\ UNCHANGED <<ownerBase, ownerAllowance, settings, call, saved>>

\* The transaction ends well.
Return == pc' = "idle" /\ call' = NoCall /\ saved' = NotSaved

ResetSkipped ==
  /\ pc = "reset" /\ Return
  /\ UNCHANGED <<money, allowance, amountOut, settings>>
Reset ==
  /\ pc = "reset" /\ Return
  /\ Approved(0)
  /\ UNCHANGED <<money, amountOut, settings>>

\* A call fails, or answers false (_callOptionalReturn): all is undone.
Revert ==
  /\ pc # "idle"
  /\ ownerBase' = saved.ownerBase /\ ownerAllowance' = saved.ownerAllowance
  /\ execBase' = saved.execBase /\ allowance' = saved.allowance
  /\ got' = saved.got /\ amountOut' = saved.amountOut
  /\ baseReserve' = saved.baseReserve /\ tokenReserve' = saved.tokenReserve
  /\ Return
  /\ UNCHANGED settings
-----------------------------------------------------------------------------
(***************************************************************************)
(* The owner's other calls, and the world.                                 *)
(***************************************************************************)

Idle == pc = "idle" /\ UNCHANGED <<pc, call, saved>>

SetUseFeeOnTransfer ==
  /\ Idle
  /\ useFeeOnTransfer' = ~useFeeOnTransfer
  /\ UNCHANGED <<money, allowance, amountOut, eth, height>>

\* rescueToken of base, to the owner or to anyone else.
RescueBase(n) ==
  /\ Idle
  /\ n <= execBase /\ execBase' = execBase - n
  /\ ownerBase' \in {ownerBase, ownerBase + n}
  /\ UNCHANGED <<ownerAllowance, got, baseReserve, tokenReserve, allowance,
                 amountOut, settings>>

\* rescueToken of bought tokens that were sent to the contract itself.
RescueBought(n) ==
  /\ Idle
  /\ n <= got[Executor]
  /\ got' = [got EXCEPT ![Executor] = @ - n]
  /\ UNCHANGED <<ownerBase, ownerAllowance, execBase, baseReserve, tokenReserve,
                 allowance, amountOut, settings>>

\* receive() takes ether; rescueETH sends it on, unless the target refuses it.
Ether ==
  /\ Idle
  /\ eth' \in 0 .. 1
  /\ UNCHANGED <<money, allowance, amountOut, useFeeOnTransfer, height>>

\* Base that is not in the pair or with these two: BaseSupply is all there is.
Elsewhere == BaseSupply - ownerBase - execBase - baseReserve

\* Anyone sends base to the contract.
Deposit ==
  /\ Idle
  /\ Elsewhere > 0 /\ execBase' = execBase + 1
  /\ UNCHANGED <<ownerBase, ownerAllowance, got, baseReserve, tokenReserve,
                 allowance, amountOut, settings>>

OwnerApproves(n) ==
  /\ Idle
  /\ ownerAllowance' = n
  /\ UNCHANGED <<ownerBase, execBase, got, baseReserve, tokenReserve, allowance,
                 amountOut, settings>>

\* Others add liquidity.
AddLiquidity ==
  /\ Idle
  /\ Elsewhere > 0 /\ baseReserve' = baseReserve + 1
  /\ UNCHANGED <<ownerBase, ownerAllowance, execBase, got, tokenReserve,
                 allowance, amountOut, settings>>

NewBlock ==
  /\ Idle
  /\ height < MaxHeight /\ height' = height + 1
  /\ UNCHANGED <<money, allowance, amountOut, useFeeOnTransfer, eth>>

Next ==
  \/ \E c \in Calls : Submit(c)
  \/ Pull \/ Clear \/ Approve \/ Swap \/ Reset \/ Revert
  \/ SetUseFeeOnTransfer \/ Ether
  \/ \E n \in 1 .. BaseSupply : RescueBase(n)
  \/ \E n \in 1 .. TokenSupply : RescueBought(n)
  \/ \E n \in 0 .. BaseSupply : OwnerApproves(n)
  \/ Deposit \/ AddLiquidity \/ NewBlock

Spec == Init /\ [][Next]_vars
-----------------------------------------------------------------------------
(***************************************************************************)
(* Properties.                                                             *)
(***************************************************************************)

States ==
  [ownerBase : Nat, ownerAllowance : Nat, execBase : Nat,
   allowance : [Routers -> Nat], got : [Accounts -> Nat],
   baseReserve : Nat, tokenReserve : Nat, amountOut : Nat]

\* Balances never go below zero, a call is at hand exactly while a transaction
\* runs, and once it is past the pull the contract holds all of amountIn.
TypeOK ==
  /\ Snapshot \in States /\ saved \in States
  /\ useFeeOnTransfer \in BOOLEAN /\ eth \in Nat /\ height \in Nat
  /\ pc \in {"idle", "pull", "clear", "approve", "swap", "reset"}
  /\ call \in Calls \cup {NoCall} /\ (pc = "idle" <=> call = NoCall)
  /\ pc \in {"clear", "approve", "swap"} => execBase >= call.amountIn

\* Between transactions no router may take anything of the contract's, however
\* much of an approval the last swap used and wherever a buy failed.
NoStandingAllowance == pc = "idle" => \A r \in Routers : allowance[r] = 0

\* To everyone outside the transaction nothing of a buy has happened before
\* its end.
Seen(now, before) == IF pc = "idle" THEN now ELSE before

Atomic == INSTANCE AtomicBuy WITH
  ownerBase <- Seen(ownerBase, saved.ownerBase),
  execBase <- Seen(execBase, saved.execBase),
  ownerAllowance <- Seen(ownerAllowance, saved.ownerAllowance),
  got <- Seen(got, saved.got),
  amountOut <- Seen(amountOut, saved.amountOut)

\* A buy costs, pays and yields what AtomicBuy says, in one step or not at all.
ImplementsAtomicBuy == Atomic!Spec

\* A buy that names a pair has bought only if the pair held, when the contract
\* was called, at least minBaseReserve of base and minTokenReserve of the token
\* (contracts/README.md: "with optional reserve and block guards").
ReservesGuarded ==
  pc = "reset" /\ call.pair =>
    /\ saved.baseReserve >= call.minBaseReserve
    /\ saved.tokenReserve >= call.minTokenReserve
=============================================================================
