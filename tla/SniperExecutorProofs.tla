------------------------ MODULE SniperExecutorProofs ------------------------
(***************************************************************************)
(* Theorems about SniperExecutor, for every set of calls, routers and      *)
(* accounts and however often and wherever transactions fail.              *)
(***************************************************************************)
EXTENDS SniperExecutor, TLAPS

LEMMA InitType == Init => TypeOK
<1> SUFFICES ASSUME Init PROVE TypeOK
  OBVIOUS
<1>1. Snapshot \in States
  BY ExecutorAssumption DEF Init, Snapshot, States
<1>2. saved \in States
  BY DEF Init, NotSaved, States
<1> QED
  BY <1>1, <1>2 DEF Init, TypeOK

LEMMA TypeStep == TypeOK /\ [Next]_vars => TypeOK'
<1> SUFFICES ASSUME TypeOK, [Next]_vars PROVE TypeOK'
  OBVIOUS
<1> USE ExecutorAssumption
<1>1. /\ ownerBase \in Nat /\ ownerAllowance \in Nat /\ execBase \in Nat
      /\ allowance \in [Routers -> Nat] /\ got \in [Accounts -> Nat]
      /\ baseReserve \in Nat /\ tokenReserve \in Nat /\ amountOut \in Nat
  BY DEF TypeOK, Snapshot, States
<1>2. /\ saved.ownerBase \in Nat /\ saved.ownerAllowance \in Nat
      /\ saved.execBase \in Nat
      /\ saved.allowance \in [Routers -> Nat] /\ saved.got \in [Accounts -> Nat]
      /\ saved.baseReserve \in Nat /\ saved.tokenReserve \in Nat
      /\ saved.amountOut \in Nat
  BY DEF TypeOK, States
<1>3. NotSaved \in States /\ Snapshot \in States
  BY <1>1 DEF NotSaved, Snapshot, States
<1>4. ASSUME /\ ownerBase' \in Nat /\ ownerAllowance' \in Nat /\ execBase' \in Nat
             /\ allowance' \in [Routers -> Nat] /\ got' \in [Accounts -> Nat]
             /\ baseReserve' \in Nat /\ tokenReserve' \in Nat /\ amountOut' \in Nat
      PROVE  Snapshot' \in States
  BY <1>4 DEF Snapshot, States
<1>5. ASSUME NEW c \in Calls, Submit(c) PROVE TypeOK'
  <2>1. Snapshot' \in States
    BY <1>1, <1>4, <1>5 DEF Submit, money
  <2>2. c # NoCall
    OBVIOUS
  <2>3. pc' = "clear" => execBase' >= call'.amountIn
    BY <1>1, <1>5 DEF Submit, money
  <2> QED
    BY <1>3, <1>5, <2>1, <2>2, <2>3 DEF Submit, TypeOK, settings
<1>6. CASE Pull
  <2>1. call \in Calls /\ call.amountIn \in Nat
    BY <1>6 DEF Pull, TypeOK
  <2>2. /\ ownerBase' \in Nat /\ ownerAllowance' \in Nat
        /\ execBase' \in Nat /\ execBase' >= call.amountIn
    BY <1>1, <1>6, <2>1 DEF Pull, Missing
  <2>3. Snapshot' \in States
    BY <1>1, <1>4, <1>6, <2>2 DEF Pull
  <2> QED
    BY <1>6, <2>1, <2>2, <2>3 DEF Pull, TypeOK, settings
<1>7. CASE Clear \/ Approve
  <2>1. call \in Calls /\ call.amountIn \in Nat
    BY <1>7 DEF Clear, Approve, TypeOK
  <2>2. allowance' \in [Routers -> Nat]
    BY <1>1, <1>7, <2>1 DEF Clear, Approve, Approved
  <2>3. Snapshot' \in States
    BY <1>1, <1>4, <1>7, <2>2 DEF Clear, Approve, money
  <2> QED
    BY <1>7, <2>1, <2>3 DEF Clear, Approve, TypeOK, settings, money
<1>8. CASE Swap
  <2>1. PICK taken \in 0 .. BaseSupply, claimed \in 0 .. TokenSupply,
             received \in 0 .. TokenSupply :
          /\ Swapped(taken, claimed, received)
          /\ amountOut' \in {claimed, received}
    BY <1>8 DEF Swap
  <2>2. To(call) \in Accounts /\ call \in Calls /\ call.router \in Routers
    BY <1>8 DEF To, Swap, TypeOK
  <2>3. taken \in Nat /\ claimed \in Nat /\ received \in Nat
    OBVIOUS
  <2>4. execBase' \in Nat /\ baseReserve' \in Nat /\ tokenReserve' \in Nat
    BY <1>1, <2>1, <2>3 DEF Swapped
  <2>5. allowance' \in [Routers -> Nat]
    BY <1>1, <2>1, <2>2, <2>3 DEF Swapped
  <2>6. got' \in [Accounts -> Nat]
    BY <1>1, <2>1, <2>2, <2>3 DEF Swapped
  <2>7. Snapshot' \in States
    BY <1>1, <1>4, <1>8, <2>1, <2>3, <2>4, <2>5, <2>6 DEF Swap
  <2> QED
    BY <1>8, <2>2, <2>7 DEF Swap, TypeOK, settings
<1>9. CASE Reset
  <2>1. allowance' \in [Routers -> Nat]
    BY <1>1, <1>9 DEF Reset, Approved
  <2>2. Snapshot' \in States
    BY <1>1, <1>4, <1>9, <2>1 DEF Reset, money
  <2> QED
    BY <1>3, <1>9, <2>2 DEF Reset, Return, TypeOK, settings, NotSaved
<1>10. CASE Revert
  <2>1. Snapshot' \in States
    BY <1>2, <1>4, <1>10 DEF Revert
  <2> QED
    BY <1>3, <1>10, <2>1 DEF Revert, Return, TypeOK, settings, NotSaved
<1>11. CASE SetUseFeeOnTransfer \/ Ether \/ NewBlock
  <2>1. Snapshot' = Snapshot
    BY <1>11 DEF SetUseFeeOnTransfer, Ether, NewBlock, Snapshot, money
  <2>2. useFeeOnTransfer' \in BOOLEAN
    BY <1>11, Zenon DEF SetUseFeeOnTransfer, Ether, NewBlock, TypeOK
  <2>3. eth' \in Nat /\ height' \in Nat
    BY <1>11 DEF SetUseFeeOnTransfer, Ether, NewBlock, TypeOK
  <2> QED
    BY <1>11, <2>1, <2>2, <2>3 DEF SetUseFeeOnTransfer, Ether, NewBlock, Idle, TypeOK
<1>12. ASSUME NEW n \in Nat,
              RescueBase(n) \/ RescueBought(n) \/ OwnerApproves(n)
       PROVE  TypeOK'
  <2>1. execBase' \in Nat /\ ownerBase' \in Nat /\ ownerAllowance' \in Nat
    BY <1>1, <1>12 DEF RescueBase, RescueBought, OwnerApproves
  <2>2. got' \in [Accounts -> Nat]
    BY <1>1, <1>12 DEF RescueBase, RescueBought, OwnerApproves
  <2>3. Snapshot' \in States
    BY <1>1, <1>4, <1>12, <2>1, <2>2 DEF RescueBase, RescueBought, OwnerApproves
  <2> QED
    BY <1>12, <2>3 DEF RescueBase, RescueBought, OwnerApproves, Idle, TypeOK, settings
<1>13. CASE Deposit \/ AddLiquidity
  <2>1. Snapshot' \in States
    BY <1>1, <1>4, <1>13 DEF Deposit, AddLiquidity
  <2> QED
    BY <1>13, <2>1 DEF Deposit, AddLiquidity, Idle, TypeOK, settings
<1>14. CASE UNCHANGED vars
  <2>1. Snapshot' = Snapshot
    BY <1>14 DEF vars, money, Snapshot
  <2> QED
    BY <1>14, <2>1 DEF vars, money, settings, TypeOK
<1> QED
  BY <1>5, <1>6, <1>7, <1>8, <1>9, <1>10, <1>11, <1>12, <1>13, <1>14 DEF Next

\* TypeOK, for every execution.
THEOREM TypeCorrect == Spec => []TypeOK
<1> QED
  BY InitType, TypeStep, PTL DEF Spec
-----------------------------------------------------------------------------
(***************************************************************************)
(* What a running buy has done so far, in terms of the state it started    *)
(* from: this makes the two properties below inductive.                    *)
(***************************************************************************)

\* What the contract lacked of amountIn when the buy began.
Lacked ==
  IF saved.execBase < call.amountIn THEN call.amountIn - saved.execBase ELSE 0

\* Only the router at hand ever has an approval, and the swap all of amountIn.
Approvals ==
  /\ NoStandingAllowance
  /\ pc # "idle" =>
       \A r \in Routers :
         saved.allowance[r] = 0 /\ (r # call.router => allowance[r] = 0)
  /\ pc = "swap" => allowance[call.router] = call.amountIn

Asked == pc # "idle" => OnlyOwner(call) /\ BlockGuard(call)

Untouched ==
  /\ ownerBase = saved.ownerBase /\ ownerAllowance = saved.ownerAllowance
  /\ execBase = saved.execBase /\ execBase < call.amountIn

Paid ==
  /\ Lacked <= saved.ownerBase /\ Lacked <= saved.ownerAllowance
  /\ ownerBase = saved.ownerBase - Lacked
  /\ ownerAllowance = saved.ownerAllowance - Lacked

Bought ==
  /\ height <= call.deadline
  /\ execBase \in (saved.execBase + Lacked - call.amountIn)
                     .. (saved.execBase + Lacked)
  /\ amountOut >= call.minAmountOut
  /\ \E received \in 0 .. amountOut :
       /\ got = [saved.got EXCEPT ![To(call)] = @ + received]
       /\ SupportsFee => received = amountOut

Progress ==
  /\ pc = "pull" => Untouched
  /\ pc \in {"clear", "approve", "swap", "reset"} => Paid
  /\ pc \in {"clear", "approve", "swap"} => execBase = saved.execBase + Lacked
  /\ pc \in {"pull", "clear", "approve", "swap"} =>
       got = saved.got /\ amountOut = saved.amountOut
  /\ pc = "reset" => Bought

IInv == TypeOK /\ Approvals /\ Asked /\ Progress

\* The types of what TypeOK keeps in records.
LEMMA Types ==
  ASSUME TypeOK
  PROVE  /\ ownerBase \in Nat /\ ownerAllowance \in Nat /\ execBase \in Nat
         /\ allowance \in [Routers -> Nat] /\ got \in [Accounts -> Nat]
         /\ baseReserve \in Nat /\ tokenReserve \in Nat /\ amountOut \in Nat
         /\ saved.ownerBase \in Nat /\ saved.ownerAllowance \in Nat
         /\ saved.execBase \in Nat
         /\ saved.allowance \in [Routers -> Nat] /\ saved.got \in [Accounts -> Nat]
         /\ saved.amountOut \in Nat
         /\ pc # "idle" =>
              /\ call \in Calls /\ call.router \in Routers
              /\ call.amountIn \in Nat /\ call.minAmountOut \in Nat
  BY ExecutorAssumption DEF TypeOK, Snapshot, States

LEMMA InitIInv == Init => IInv
<1> SUFFICES ASSUME Init PROVE IInv
  OBVIOUS
<1>1. TypeOK
  BY InitType
<1>2. Approvals /\ Asked /\ Progress
  BY DEF Init, Approvals, NoStandingAllowance, Asked, Progress
<1> QED
  BY <1>1, <1>2 DEF IInv

LEMMA ApprovalsStep == IInv /\ [Next]_vars => Approvals'
<1> SUFFICES ASSUME IInv, [Next]_vars PROVE Approvals'
  OBVIOUS
<1> USE DEF IInv, Approvals, NoStandingAllowance
<1>1. TypeOK
  OBVIOUS
<1>2. allowance \in [Routers -> Nat]
  BY <1>1, Types
<1>3. ASSUME NEW c \in Calls, Submit(c) PROVE Approvals'
  BY <1>3 DEF Submit, Snapshot
<1>4. CASE Pull
  BY <1>4 DEF Pull
<1>5. CASE Clear
  <2>1. call.router \in Routers
    BY <1>1, <1>5, Types DEF Clear
  <2> QED
    BY <1>2, <1>5, <2>1 DEF Clear, Approved
<1>6. CASE Approve
  <2>1. call.router \in Routers
    BY <1>1, <1>6, Types DEF Approve
  <2> QED
    BY <1>2, <1>6, <2>1 DEF Approve, Approved
<1>7. CASE Swap
  <2>1. call.router \in Routers
    BY <1>1, <1>7, Types DEF Swap
  <2>2. PICK taken \in 0 .. BaseSupply :
          allowance' = [allowance EXCEPT ![call.router] = @ - taken]
    BY <1>7 DEF Swap, Swapped
  <2>3. \A r \in Routers : r # call.router => allowance'[r] = allowance[r]
    BY <1>2, <2>2
  <2> QED
    BY <1>7, <2>3 DEF Swap
<1>8. CASE Reset
  <2>1. call.router \in Routers
    BY <1>1, <1>8, Types DEF Reset
  <2> QED
    BY <1>2, <1>8, <2>1 DEF Reset, Return, Approved
<1>9. CASE Revert
  BY <1>9 DEF Revert, Return
<1>10. ASSUME Idle, allowance' = allowance PROVE Approvals'
  BY <1>10 DEF Idle
<1>11. CASE SetUseFeeOnTransfer \/ Ether \/ Deposit \/ AddLiquidity \/ NewBlock
  BY <1>10, <1>11 DEF SetUseFeeOnTransfer, Ether, Deposit, AddLiquidity, NewBlock
<1>12. ASSUME NEW n, RescueBase(n) \/ RescueBought(n) \/ OwnerApproves(n)
       PROVE  Approvals'
  BY <1>10, <1>12 DEF RescueBase, RescueBought, OwnerApproves
<1>13. CASE UNCHANGED vars
  BY <1>13 DEF vars
<1> QED
  BY <1>3, <1>4, <1>5, <1>6, <1>7, <1>8, <1>9, <1>11, <1>12, <1>13 DEF Next

LEMMA AskedStep == IInv /\ [Next]_vars => Asked'
<1> SUFFICES ASSUME IInv, [Next]_vars PROVE Asked'
  OBVIOUS
<1>1. ASSUME NEW c \in Calls, Submit(c) PROVE Asked'
  BY <1>1 DEF Submit, Asked, OnlyOwner, BlockGuard, settings
<1>2. CASE Pull \/ Clear \/ Approve \/ Swap
  BY <1>2 DEF Pull, Clear, Approve, Swap, IInv, Asked, OnlyOwner, BlockGuard, settings
<1>3. CASE Reset \/ Revert
  BY <1>3 DEF Reset, Revert, Return, Asked
<1>4. ASSUME Idle PROVE Asked'
  BY <1>4 DEF Idle, Asked
<1>5. CASE SetUseFeeOnTransfer \/ Ether \/ Deposit \/ AddLiquidity \/ NewBlock
  BY <1>4, <1>5 DEF SetUseFeeOnTransfer, Ether, Deposit, AddLiquidity, NewBlock
<1>6. ASSUME NEW n, RescueBase(n) \/ RescueBought(n) \/ OwnerApproves(n)
      PROVE  Asked'
  BY <1>4, <1>6 DEF RescueBase, RescueBought, OwnerApproves
<1>7. CASE UNCHANGED vars
  BY <1>7 DEF vars, settings, IInv, Asked, OnlyOwner, BlockGuard
<1> QED
  BY <1>1, <1>2, <1>3, <1>5, <1>6, <1>7 DEF Next

LEMMA ProgressStep == IInv /\ [Next]_vars => Progress'
<1> SUFFICES ASSUME IInv, [Next]_vars PROVE Progress'
  OBVIOUS
<1>1. TypeOK /\ Progress /\ Approvals
  BY DEF IInv
<1>2. ASSUME NEW c \in Calls, Submit(c) PROVE Progress'
  <2>1. c.amountIn \in Nat /\ execBase \in Nat /\ ownerBase \in Nat
        /\ ownerAllowance \in Nat
    BY <1>1, Types, ExecutorAssumption
  <2>2. UNCHANGED <<ownerBase, ownerAllowance, execBase, got, amountOut>>
    BY <1>2 DEF Submit, money
  <2>3. /\ saved'.ownerBase = ownerBase /\ saved'.ownerAllowance = ownerAllowance
        /\ saved'.execBase = execBase /\ saved'.got = got
        /\ saved'.amountOut = amountOut /\ call' = c
    BY <1>2 DEF Submit, Snapshot
  <2>4. CASE execBase < c.amountIn
    BY <1>2, <2>2, <2>3, <2>4 DEF Submit, Progress, Untouched
  <2>5. CASE ~(execBase < c.amountIn)
    <3>1. Lacked' = 0
      BY <2>3, <2>5 DEF Lacked
    <3> QED
      BY <1>2, <2>1, <2>2, <2>3, <2>5, <3>1 DEF Submit, Progress, Paid
  <2> QED
    BY <2>4, <2>5
<1>3. CASE Pull
  <2>1. /\ call.amountIn \in Nat /\ saved.execBase \in Nat
        /\ saved.ownerBase \in Nat /\ saved.ownerAllowance \in Nat
    BY <1>1, <1>3, Types DEF Pull
  <2>2. Untouched /\ got = saved.got /\ amountOut = saved.amountOut
    BY <1>1, <1>3 DEF Pull, Progress
  <2>3. Lacked = Missing(call) /\ Lacked' = Lacked
    BY <1>3, <2>1, <2>2 DEF Pull, Lacked, Untouched, Missing
  <2>4. Paid' /\ execBase' = saved.execBase + Lacked
    BY <1>3, <2>1, <2>2, <2>3 DEF Pull, Paid, Untouched
  <2> QED
    BY <1>3, <2>2, <2>3, <2>4 DEF Pull, Progress
<1>4. CASE Clear \/ Approve
  <2>1. UNCHANGED <<ownerBase, ownerAllowance, execBase, got, amountOut,
                    call, saved>>
    BY <1>4 DEF Clear, Approve, money
  <2>2. Lacked' = Lacked /\ (Paid => Paid')
    BY <2>1 DEF Lacked, Paid
  <2> QED
    BY <1>1, <1>4, <2>1, <2>2 DEF Clear, Approve, Progress
<1>5. CASE Swap
  <2>1. PICK taken \in 0 .. BaseSupply, claimed \in 0 .. TokenSupply,
             received \in 0 .. TokenSupply :
          /\ Swapped(taken, claimed, received)
          /\ IF SupportsFee
               THEN received >= call.minAmountOut /\ amountOut' = received
               ELSE claimed >= call.minAmountOut /\ amountOut' = claimed
    BY <1>5 DEF Swap
  <2>2. UNCHANGED <<ownerBase, ownerAllowance, settings, call, saved>>
    BY <1>5 DEF Swap
  <2>3. Lacked' = Lacked /\ Paid'
    BY <1>1, <1>5, <2>2 DEF Swap, Progress, Lacked, Paid
  <2>4. /\ taken \in Nat /\ claimed \in Nat /\ received \in Nat
        /\ received <= claimed
    BY <2>1 DEF Swapped
  <2>5. taken <= call.amountIn /\ execBase = saved.execBase + Lacked
        /\ execBase' = execBase - taken
    BY <1>1, <1>5, <2>1 DEF Swap, Swapped, Approvals, Progress
  <2>6. call.amountIn \in Nat /\ saved.execBase \in Nat /\ Lacked \in Nat
    BY <1>1, <1>5, Types DEF Swap, Lacked
  <2>7. execBase' \in (saved.execBase + Lacked - call.amountIn)
                        .. (saved.execBase + Lacked)
    BY <2>4, <2>5, <2>6
  <2>8. got' = [saved.got EXCEPT ![To(call)] = @ + received]
    BY <1>1, <1>5, <2>1 DEF Swap, Swapped, Progress
  <2>9. To(call)' = To(call) /\ (SupportsFee' <=> SupportsFee)
    BY <2>2 DEF To, SupportsFee, settings
  <2>10. received \in 0 .. amountOut' /\ (SupportsFee => received = amountOut')
         /\ amountOut' >= call.minAmountOut
    BY <2>1, <2>4
  <2>11. height' <= call'.deadline
    BY <2>1, <2>2 DEF Swapped, settings
  <2>12. Bought'
    BY <2>2, <2>3, <2>7, <2>8, <2>9, <2>10, <2>11 DEF Bought
  <2> QED
    BY <1>5, <2>3, <2>12 DEF Swap, Progress
<1>6. CASE Reset \/ Revert
  BY <1>6 DEF Reset, Revert, Return, Progress
<1>7. ASSUME Idle PROVE Progress'
  BY <1>7 DEF Idle, Progress
<1>8. CASE SetUseFeeOnTransfer \/ Ether \/ Deposit \/ AddLiquidity \/ NewBlock
  BY <1>7, <1>8 DEF SetUseFeeOnTransfer, Ether, Deposit, AddLiquidity, NewBlock
<1>9. ASSUME NEW n, RescueBase(n) \/ RescueBought(n) \/ OwnerApproves(n)
      PROVE  Progress'
  BY <1>7, <1>9 DEF RescueBase, RescueBought, OwnerApproves
<1>10. CASE UNCHANGED vars
  <2>1. Lacked' = Lacked /\ To(call)' = To(call) /\ SupportsFee' = SupportsFee
    BY <1>10 DEF vars, settings, Lacked, To, SupportsFee
  <2>2. (Paid => Paid') /\ (Bought => Bought') /\ (Untouched => Untouched')
    BY <1>10, <2>1 DEF vars, money, settings, Paid, Bought, Untouched
  <2> QED
    BY <1>1, <1>10, <2>1, <2>2 DEF vars, money, Progress
<1> QED
  BY <1>2, <1>3, <1>4, <1>5, <1>6, <1>8, <1>9, <1>10 DEF Next

LEMMA IInvStep == IInv /\ [Next]_vars => IInv'
  BY TypeStep, ApprovalsStep, AskedStep, ProgressStep DEF IInv

LEMMA IInvHolds == Spec => []IInv
  BY InitIInv, IInvStep, PTL DEF Spec

\* NoStandingAllowance: whatever a swap used of its approval and wherever a buy
\* failed, afterwards no router may take anything of the contract's.
THEOREM NoStandingAllowanceHolds == Spec => []NoStandingAllowance
<1>1. IInv => NoStandingAllowance
  BY DEF IInv, Approvals
<1> QED
  BY <1>1, IInvHolds, PTL
-----------------------------------------------------------------------------
(***************************************************************************)
(* SniperExecutor implements AtomicBuy: a buy is its last step, and the    *)
(* steps before it, or all of a buy that fails, are stuttering.            *)
(***************************************************************************)

LEMMA InitRefines == Init => Atomic!Init
<1> SUFFICES ASSUME Init PROVE Atomic!Init
  OBVIOUS
<1>1. ownerBase \in Nat /\ height \in Nat
  BY ExecutorAssumption DEF Init
<1> QED
  BY <1>1 DEF Init, Atomic!Init, Seen

\* A step of a buy that does not end it shows nothing.
LEMMA Unseen ==
  ASSUME pc # "idle", pc' # "idle", saved' = saved,
         UNCHANGED <<useFeeOnTransfer, height>>
  PROVE  UNCHANGED Atomic!vars
  BY DEF Atomic!vars, Atomic!funds, Seen

LEMMA BuyRefines == IInv /\ Reset => Atomic!Buy(call)
<1> SUFFICES ASSUME IInv, Reset PROVE Atomic!Buy(call)
  OBVIOUS
<1>1. TypeOK /\ Paid /\ Bought /\ OnlyOwner(call) /\ BlockGuard(call)
  BY DEF IInv, Asked, Progress, Reset
<1>2. pc = "reset" /\ pc' = "idle"
  BY DEF Reset, Return
<1>3. UNCHANGED <<money, amountOut, settings>>
  BY DEF Reset
<1>4. Atomic!Missing(call) = Lacked
  BY <1>2 DEF Atomic!Missing, Lacked, Seen
<1>5. Atomic!Recipient(call) = To(call)
  BY DEF Atomic!Recipient, To
<1>6. /\ Lacked <= Seen(ownerBase, saved.ownerBase)
      /\ Lacked <= Seen(ownerAllowance, saved.ownerAllowance)
      /\ Seen(ownerBase, saved.ownerBase)'
           = Seen(ownerBase, saved.ownerBase) - Lacked
      /\ Seen(ownerAllowance, saved.ownerAllowance)'
           = Seen(ownerAllowance, saved.ownerAllowance) - Lacked
  BY <1>1, <1>2, <1>3 DEF Paid, Seen, money
<1>7. Seen(execBase, saved.execBase)'
        \in (Seen(execBase, saved.execBase) + Lacked - call.amountIn)
             .. (Seen(execBase, saved.execBase) + Lacked)
  BY <1>1, <1>2, <1>3 DEF Bought, Seen, money
<1>8. Seen(amountOut, saved.amountOut)' = amountOut
  BY <1>2, <1>3 DEF Seen
<1>9. PICK received \in 0 .. amountOut :
        /\ got = [saved.got EXCEPT ![To(call)] = @ + received]
        /\ SupportsFee => received = amountOut
  BY <1>1 DEF Bought
<1>10. Seen(got, saved.got)'
         = [Seen(got, saved.got) EXCEPT ![To(call)] = @ + received]
  BY <1>2, <1>3, <1>9 DEF Seen, money
<1>11. \E n \in 0 .. Seen(amountOut, saved.amountOut)' :
         /\ Seen(got, saved.got)'
              = [Seen(got, saved.got) EXCEPT ![Atomic!Recipient(call)] = @ + n]
         /\ call.kind = "v2" /\ useFeeOnTransfer
              => n = Seen(amountOut, saved.amountOut)'
  BY <1>5, <1>8, <1>9, <1>10 DEF SupportsFee
<1>12. height <= call.deadline /\ amountOut >= call.minAmountOut
  BY <1>1 DEF Bought
<1>13. UNCHANGED <<useFeeOnTransfer, height>>
  BY <1>3 DEF settings
<1>14. call.sender = Owner /\ (call.maxBlockNumber # 0 => height <= call.maxBlockNumber)
  BY <1>1 DEF OnlyOwner, BlockGuard
<1> QED
  BY <1>4, <1>6, <1>7, <1>8, <1>11, <1>12, <1>13, <1>14 DEF Atomic!Buy

\* What happens between two buys.
LEMMA AroundRefines ==
  ASSUME TypeOK, TypeOK', Idle, amountOut' = amountOut, height' >= height,
         \/ UNCHANGED <<ownerAllowance, got>> /\ ownerBase' >= ownerBase
         \/ UNCHANGED <<ownerBase, execBase, got>>
         \/ UNCHANGED <<ownerBase, ownerAllowance, execBase>>
  PROVE  Atomic!Around
<1>1. pc = "idle" /\ pc' = "idle"
  BY DEF Idle
<1>2. /\ ownerBase' \in Nat /\ ownerAllowance' \in Nat /\ execBase' \in Nat
      /\ got' \in [Accounts -> Nat]
  BY DEF TypeOK, Snapshot, States
<1>3. useFeeOnTransfer' \in BOOLEAN /\ height' \in Nat
  BY DEF TypeOK
<1>4. Atomic!Moved \/ Atomic!Allowed \/ Atomic!Rescued
  BY <1>1, <1>2 DEF Atomic!Moved, Atomic!Allowed, Atomic!Rescued, Atomic!funds, Seen
<1> QED
  BY <1>1, <1>3, <1>4 DEF Atomic!Around, Seen

LEMMA StepRefines ==
  IInv /\ IInv' /\ [Next]_vars => [Atomic!Next]_Atomic!vars
<1> SUFFICES ASSUME IInv, IInv', [Next]_vars
             PROVE  Atomic!Next \/ UNCHANGED Atomic!vars
  OBVIOUS
<1>1. TypeOK /\ TypeOK'
  BY DEF IInv
<1>2. /\ ownerBase \in Nat /\ ownerAllowance \in Nat /\ execBase \in Nat
      /\ got \in [Accounts -> Nat] /\ height \in Nat
  BY <1>1 DEF TypeOK, Snapshot, States
<1>3. ASSUME NEW c \in Calls, Submit(c) PROVE UNCHANGED Atomic!vars
  BY <1>3 DEF Submit, Snapshot, settings, Seen, Atomic!vars, Atomic!funds
<1>4. CASE Pull \/ Clear \/ Approve \/ Swap
  <2>1. UNCHANGED <<useFeeOnTransfer, height>>
    BY <1>4 DEF Pull, Clear, Approve, Swap, settings
  <2>2. pc # "idle" /\ pc' # "idle" /\ saved' = saved
    BY <1>4 DEF Pull, Clear, Approve, Swap
  <2> QED
    BY <2>1, <2>2, Unseen
<1>5. CASE Reset
  <2>1. call \in Calls
    BY <1>1, <1>5, Types DEF Reset
  <2> QED
    BY <1>5, <2>1, BuyRefines DEF Atomic!Next
<1>6. CASE Revert
  BY <1>6 DEF Revert, Return, settings, Seen, Atomic!vars, Atomic!funds
<1>7. CASE SetUseFeeOnTransfer \/ Ether \/ NewBlock
  <2>1. Idle /\ amountOut' = amountOut /\ UNCHANGED <<ownerBase, ownerAllowance, got>>
    BY <1>7 DEF SetUseFeeOnTransfer, Ether, NewBlock, money
  <2>2. height' >= height
    BY <1>2, <1>7 DEF SetUseFeeOnTransfer, Ether, NewBlock
  <2>3. ownerBase' >= ownerBase
    BY <1>2, <2>1
  <2> QED
    BY <1>1, <2>1, <2>2, <2>3, AroundRefines DEF Atomic!Next
<1>8. ASSUME NEW n \in Nat, RescueBase(n) \/ RescueBought(n) \/ OwnerApproves(n)
      PROVE  Atomic!Next
  <2>1. Idle /\ amountOut' = amountOut /\ height' >= height
    BY <1>2, <1>8 DEF RescueBase, RescueBought, OwnerApproves, settings
  <2>2. \/ UNCHANGED <<ownerAllowance, got>> /\ ownerBase' >= ownerBase
        \/ UNCHANGED <<ownerBase, execBase, got>>
        \/ UNCHANGED <<ownerBase, ownerAllowance, execBase>>
    BY <1>2, <1>8 DEF RescueBase, RescueBought, OwnerApproves
  <2> QED
    BY <1>1, <2>1, <2>2, AroundRefines DEF Atomic!Next
<1>9. CASE Deposit \/ AddLiquidity
  <2>1. /\ Idle /\ amountOut' = amountOut /\ height' >= height
        /\ UNCHANGED <<ownerAllowance, got>> /\ ownerBase' >= ownerBase
    BY <1>2, <1>9 DEF Deposit, AddLiquidity, settings
  <2> QED
    BY <1>1, <2>1, AroundRefines DEF Atomic!Next
<1>10. CASE UNCHANGED vars
  BY <1>10 DEF vars, money, settings, Seen, Atomic!vars, Atomic!funds
<1>11. (1 .. BaseSupply) \subseteq Nat /\ (0 .. BaseSupply) \subseteq Nat
       /\ (1 .. TokenSupply) \subseteq Nat
  OBVIOUS
<1> QED
  BY <1>3, <1>4, <1>5, <1>6, <1>7, <1>8, <1>9, <1>10, <1>11 DEF Next

\* ImplementsAtomicBuy: a buy of several calls, each of which may fail, happens
\* in one step as AtomicBuy says, or not at all.
THEOREM ImplementsAtomicBuyHolds == Spec => ImplementsAtomicBuy
<1>1. Init => Atomic!Init
  BY InitRefines
<1>2. IInv /\ IInv' /\ [Next]_vars => [Atomic!Next]_Atomic!vars
  BY StepRefines
<1> QED
  BY <1>1, <1>2, IInvHolds, PTL DEF Spec, Atomic!Spec, ImplementsAtomicBuy
-----------------------------------------------------------------------------
\* ReservesGuarded holds of the contract where base is the pair's token0; where
\* it is not, the run reserve_guard shows a buy that goes through without it. All
\* through a call, what the guards saw is known.
CallGuarded ==
  pc # "idle" /\ call.pair =>
    /\ saved.baseReserve >= call.minBaseReserve
    /\ saved.tokenReserve >= call.minTokenReserve

LEMMA GuardedStep ==
  ASSUME BaseIsToken0, TypeOK, CallGuarded, [Next]_vars
  PROVE  CallGuarded'
<1>1. ASSUME NEW c \in Calls, Submit(c) PROVE CallGuarded'
  BY <1>1 DEF Submit, ReserveGuard, Reserve0, Reserve1, Snapshot, CallGuarded
<1>2. CASE Pull \/ Clear \/ Approve \/ Swap
  BY <1>2 DEF Pull, Clear, Approve, Swap, CallGuarded
<1>3. CASE Reset \/ Revert
  BY <1>3 DEF Reset, Revert, Return, CallGuarded
<1>4. CASE Idle
  BY <1>4 DEF Idle, CallGuarded
<1>5. CASE SetUseFeeOnTransfer \/ Ether \/ Deposit \/ AddLiquidity \/ NewBlock
  BY <1>4, <1>5 DEF SetUseFeeOnTransfer, Ether, Deposit, AddLiquidity, NewBlock
<1>6. ASSUME NEW n, RescueBase(n) \/ RescueBought(n) \/ OwnerApproves(n)
      PROVE  CallGuarded'
  BY <1>4, <1>6 DEF RescueBase, RescueBought, OwnerApproves
<1>7. CASE UNCHANGED vars
  BY <1>7 DEF vars, CallGuarded
<1> QED
  BY <1>1, <1>2, <1>3, <1>5, <1>6, <1>7 DEF Next

\* The reserve guard of buyV2 and buySolidly is right for a pair whose token0 is
\* the base token.
THEOREM GuardedWhenBaseIsToken0 ==
  ASSUME BaseIsToken0 PROVE Spec => []ReservesGuarded
<1>1. Init => CallGuarded
  BY DEF Init, CallGuarded
<1>2. TypeOK /\ CallGuarded /\ [Next]_vars => CallGuarded'
  BY GuardedStep
<1>3. CallGuarded => ReservesGuarded
  BY DEF CallGuarded, ReservesGuarded
<1> QED
  BY <1>1, <1>2, <1>3, TypeCorrect, PTL DEF Spec
=============================================================================
