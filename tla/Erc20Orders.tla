----------------------------- MODULE Erc20Orders -----------------------------
(***************************************************************************)
(* Bids and purchases paid in one ERC-20 token (packages/ethereum/sdk,      *)
(* src/order).  Every such call of the SDK has two steps, "approve" and     *)
(* then "sign" or "send-tx": the first makes sure the transfer proxy may    *)
(* take the price from the owner, the second publishes a bid or sends the   *)
(* purchase.  Between the two, and at every await inside them, other calls  *)
(* of the same owner, the wallet's user, the chain and other traders act.   *)
(*                                                                         *)
(* The owner is one account and the operator one proxy: `allowance` is what *)
(* the token's allowance(owner, operator) answers.  Prices include the fee. *)
(*                                                                         *)
(* The provider is web3-ethereum, for web3 1.x: the receipt of a reverted   *)
(* transaction is rejected, so that waiting for it throws.                  *)
(***************************************************************************)
EXTENDS Integers, Sequences

CONSTANTS
    Calls,        \* places for calls of the SDK that may be in progress
    Nobody,       \* no call
    Kinds,        \* the methods used, among AllKinds
    MaxValue,     \* bound: the largest price
    MaxPending,   \* bound: unmined transactions of the owner
    Disturbances  \* what the environment may do, among AllDisturbances

\* "bid": OrderBid.bid and update; "buy": OrderFiller.buy of a RARIBLE_V2
\* order; "batch": BatchOrderFiller.buy of such orders
AllKinds == {"bid", "buy", "batch"}

\* "overlap": the application begins a call before the last one is over and
\*     the transaction it returned is mined
\* "timeout": a transaction stays unmined for the 30 minutes of PromiEvent
\* "taken": other traders take the bids
AllDisturbances == {"overlap", "timeout", "taken"}

ASSUME OrdersAssumption ==
    /\ Nobody \notin Calls
    /\ Kinds \subseteq AllKinds
    /\ MaxValue \in Nat \ {0}
    /\ MaxPending \in Nat
    /\ Disturbances \subseteq AllDisturbances

Values == 1..MaxValue
Infinite == MaxValue + 1        \* 2^256 - 1: above every price
Allowances == 0..Infinite

VARIABLES
    allowance,  \* on chain, at the latest block
    mempool,    \* the owner's unmined transactions, in the order of the nonce
    calls,      \* the calls in progress
    book,       \* the prices of the bids published (equal ones are one)
    lost        \* a purchase was mined when the allowance was too small

vars == <<allowance, mempool, calls, book, lost>>

Transactions == [by : Calls \cup {Nobody}, what : {"approve", "fill"},
                 amount : Allowances]

(***************************************************************************)
(* pc "check"    allowance() is being asked                                 *)
(*    "approve"  the wallet is asked for the approval                       *)
(*    "confirm"  waitTx() waits for it to be mined                          *)
(*    "prepared" the first step is over                                     *)
(*    "send"     the purchase passed estimateGas(), the wallet is asked     *)
(*    "sent"     its transaction was returned, unmined                      *)
(***************************************************************************)
Ready == [pc |-> "idle", kind |-> "none", value |-> 0, infinite |-> FALSE]
CallStates == {Ready} \cup
    [pc : {"check", "approve", "confirm", "prepared", "send", "sent"},
     kind : AllKinds, value : Values, infinite : BOOLEAN]

TypeOK ==
    /\ allowance \in Allowances
    /\ mempool \in Seq(Transactions)
    /\ calls \in [Calls -> CallStates]
    /\ book \subseteq Values
    /\ lost \in BOOLEAN

Pending == {mempool[i] : i \in DOMAIN mempool}
Unmined(c, what) == \E tx \in Pending : tx.by = c /\ tx.what = what
At(c, pc) == calls[c].pc = pc
Goes(c, pc) == calls' = [calls EXCEPT ![c].pc = pc]
Ends(c) == calls' = [calls EXCEPT ![c] = Ready]
Broadcast(c, what, amount) ==
    /\ Len(mempool) < MaxPending
    /\ mempool' = Append(mempool, [by |-> c, what |-> what, amount |-> amount])

-----------------------------------------------------------------------------
(***************************************************************************)
(* The first step.                                                         *)
(***************************************************************************)

\* a bid always asks for the infinite approval, a purchase when it is told to
Start(c, kind, value, infinite) ==
    /\ At(c, "idle")
    /\ "overlap" \in Disturbances \/ \A d \in Calls : At(d, "idle")
    /\ calls' = [calls EXCEPT ![c] = [pc |-> "check", kind |-> kind, value |-> value,
                                      infinite |-> infinite \/ kind = "bid"]]
    /\ UNCHANGED <<allowance, mempool, book, lost>>

\* (mutant) an approval is sent whatever the allowance is
CheckApprovesAlways(c) ==
    /\ At(c, "check")
    /\ Goes(c, "approve")
    /\ UNCHANGED <<allowance, mempool, book, lost>>

\* allowance() has answered
Check(c) ==
    /\ At(c, "check")
    /\ Goes(c, IF allowance < calls[c].value THEN "approve" ELSE "prepared")
    /\ UNCHANGED <<allowance, mempool, book, lost>>

\* (mutant) nobody waits for the approval
ApproveUnconfirmed(c) ==
    /\ At(c, "approve")
    /\ Broadcast(c, "approve", IF calls[c].infinite THEN Infinite ELSE calls[c].value)
    /\ Goes(c, "prepared")
    /\ UNCHANGED <<allowance, book, lost>>

\* approve(operator, amount) is sent; a batch does not wait for it
Approve(c) ==
    /\ At(c, "approve")
    /\ LET waits == calls[c].kind # "batch" IN
       /\ Broadcast(IF waits THEN c ELSE Nobody, "approve",
                    IF calls[c].infinite THEN Infinite ELSE calls[c].value)
       /\ Goes(c, IF waits THEN "confirm" ELSE "prepared")
    /\ UNCHANGED <<allowance, book, lost>>

\* the receipt has come
Confirm(c) ==
    /\ At(c, "confirm")
    /\ ~Unmined(c, "approve")
    /\ Goes(c, "prepared")
    /\ UNCHANGED <<allowance, mempool, book, lost>>

\* (mutant) the wait for the receipt has no limit
TimeOutNever(c) ==
    /\ FALSE
    /\ UNCHANGED vars

\* the receipt has not come in time: the call throws, the transaction stays
TimeOut(c) ==
    /\ "timeout" \in Disturbances
    /\ At(c, "confirm")
    /\ Unmined(c, "approve")
    /\ Ends(c)
    /\ mempool' = [i \in DOMAIN mempool |->
                     IF mempool[i].by = c THEN [mempool[i] EXCEPT !.by = Nobody]
                     ELSE mempool[i]]
    /\ UNCHANGED <<allowance, book, lost>>

-----------------------------------------------------------------------------
(***************************************************************************)
(* The second step.                                                        *)
(***************************************************************************)

\* the bid is signed and published
Post(c) ==
    /\ At(c, "prepared") /\ calls[c].kind = "bid"
    /\ book' = book \cup {calls[c].value}
    /\ Ends(c)
    /\ UNCHANGED <<allowance, mempool, lost>>

\* the dates are good and the purchase would succeed at the latest block
Estimate(c) ==
    /\ At(c, "prepared") /\ calls[c].kind # "bid"
    /\ allowance >= calls[c].value
    /\ Goes(c, "send")
    /\ UNCHANGED <<allowance, mempool, book, lost>>

Send(c) ==
    /\ At(c, "send")
    /\ Broadcast(c, "fill", calls[c].value)
    /\ Goes(c, "sent")
    /\ UNCHANGED <<allowance, book, lost>>

\* the call throws: the user declines in the wallet, the order is out of date,
\* the price too small, the estimation fails; or the application does not
\* begin the second step
Quit(c) ==
    /\ \E pc \in {"check", "approve", "prepared", "send"} : At(c, pc)
    /\ Ends(c)
    /\ UNCHANGED <<allowance, mempool, book, lost>>

-----------------------------------------------------------------------------
(***************************************************************************)
(* The chain.                                                              *)
(***************************************************************************)

\* the token counts down every allowance but the infinite one
Take(a, value) == IF a = Infinite THEN a ELSE a - value

\* the next transaction is an approval, which may run out of gas; the call that
\* waits for it throws then
MineApproval ==
    /\ mempool # <<>> /\ Head(mempool).what = "approve"
    /\ mempool' = Tail(mempool)
    /\ \/ /\ allowance' = Head(mempool).amount
          /\ UNCHANGED calls
       \/ /\ UNCHANGED allowance
          /\ IF Head(mempool).by \in Calls THEN Ends(Head(mempool).by)
             ELSE UNCHANGED calls
    /\ UNCHANGED <<book, lost>>

\* (mutant) the price is taken unasked
MineFillUnchecked ==
    /\ mempool # <<>> /\ Head(mempool).what = "fill"
    /\ mempool' = Tail(mempool)
    /\ Ends(Head(mempool).by)
    /\ allowance' = Take(allowance, Head(mempool).amount)
    /\ UNCHANGED <<book, lost>>

\* the next transaction is a purchase; the receipt tells its caller
MineFill ==
    /\ mempool # <<>> /\ Head(mempool).what = "fill"
    /\ mempool' = Tail(mempool)
    /\ Ends(Head(mempool).by)
    /\ IF allowance >= Head(mempool).amount
       THEN /\ allowance' = Take(allowance, Head(mempool).amount)
            /\ UNCHANGED lost
       ELSE /\ lost' = TRUE
            /\ UNCHANGED allowance
    /\ UNCHANGED book

\* another trader's transaction takes a bid
TakeBid(value) ==
    /\ "taken" \in Disturbances
    /\ value \in book /\ allowance >= value
    /\ book' = book \ {value}
    /\ allowance' = Take(allowance, value)
    /\ UNCHANGED <<mempool, calls, lost>>

Mine == MineApproval \/ MineFill

-----------------------------------------------------------------------------
Init ==
    /\ allowance = 0
    /\ mempool = <<>>
    /\ calls = [c \in Calls |-> Ready]
    /\ book = {}
    /\ lost = FALSE

Call(c) ==
    \/ \E kind \in Kinds, value \in Values, infinite \in BOOLEAN :
         Start(c, kind, value, infinite)
    \/ Check(c) \/ Approve(c) \/ Confirm(c) \/ TimeOut(c)
    \/ Post(c) \/ Estimate(c) \/ Send(c) \/ Quit(c)

Next ==
    \/ \E c \in Calls : Call(c)
    \/ Mine
    \/ \E value \in Values : TakeBid(value)

Spec == Init /\ [][Next]_vars

\* What runs by itself: the node answers allowance(), and a receipt is handed
\* over or its timer fires.  Nothing is assumed of miners and of the user.
FairSpec ==
    /\ Spec
    /\ \A c \in Calls : WF_vars(Check(c)) /\ WF_vars(Confirm(c) \/ TimeOut(c))

=============================================================================
