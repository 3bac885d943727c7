------------------------------ MODULE AtomicBuy ------------------------------
(***************************************************************************)
(* What SonicSniperExecutor promises its owner: a buy happens in one step  *)
(* or not at all, and only the owner can ask for it. It costs the owner    *)
(* what the contract lacks of amountIn, pays at most amountIn of the base  *)
(* the contract holds, and the recipient gets what was bought: amountOut   *)
(* says how much, at least minAmountOut, and exactly so when the contract  *)
(* expects tokens that charge a fee on transfers. Nothing is said of       *)
(* approvals: between two transactions there are none.                     *)
(***************************************************************************)
EXTENDS Integers

CONSTANTS
  Calls,      \* the buys that may be asked for, see SniperExecutor
  Owner,
  Accounts    \* who may hold bought tokens: the owner among them

VARIABLES
  ownerBase, execBase,   \* base held by the owner and by the contract
  ownerAllowance,        \* what the contract may take from the owner
  got,                   \* account -> bought tokens it holds
  amountOut,             \* what the last buy returned
  useFeeOnTransfer,
  height                 \* block.number, and block.timestamp

funds == <<ownerBase, ownerAllowance, execBase>>
vars == <<funds, got, amountOut, useFeeOnTransfer, height>>

Init ==
  /\ ownerBase \in Nat /\ execBase \in Nat /\ ownerAllowance \in Nat
  /\ got = [a \in Accounts |-> 0] /\ amountOut = 0
  /\ useFeeOnTransfer = FALSE
  /\ height \in Nat

\* What of amountIn the contract does not hold itself.
Missing(c) == IF execBase < c.amountIn THEN c.amountIn - execBase ELSE 0

Recipient(c) == IF c.recipient \in Accounts THEN c.recipient ELSE Owner

Buy(c) ==
  /\ c.sender = Owner
  /\ height <= c.deadline
  /\ c.maxBlockNumber # 0 => height <= c.maxBlockNumber
  /\ Missing(c) <= ownerBase /\ Missing(c) <= ownerAllowance
  /\ ownerBase' = ownerBase - Missing(c)
  /\ ownerAllowance' = ownerAllowance - Missing(c)
  /\ execBase' \in (execBase + Missing(c) - c.amountIn) .. (execBase + Missing(c))
  /\ amountOut' >= c.minAmountOut
  /\ \E received \in 0 .. amountOut' :
       /\ got' = [got EXCEPT ![Recipient(c)] = @ + received]
       /\ c.kind = "v2" /\ useFeeOnTransfer => received = amountOut'
  /\ UNCHANGED <<useFeeOnTransfer, height>>

\* Base comes to the contract, or its owner takes some out, for anyone.
Moved ==
  /\ execBase' \in Nat /\ ownerBase' \in Nat /\ ownerBase' >= ownerBase
  /\ UNCHANGED <<ownerAllowance, got>>
\* The owner says what the contract may take.
Allowed == ownerAllowance' \in Nat /\ UNCHANGED <<ownerBase, execBase, got>>
\* Bought tokens that were sent to the contract are taken out.
Rescued ==
  /\ got' \in [Accounts -> Nat]
  /\ UNCHANGED funds
Around ==
  /\ Moved \/ Allowed \/ Rescued
  /\ useFeeOnTransfer' \in BOOLEAN /\ height' \in Nat /\ height' >= height
  /\ UNCHANGED amountOut

Next == (\E c \in Calls : Buy(c)) \/ Around

Spec == Init /\ [][Next]_vars
=============================================================================
