------------------------- MODULE EclipseTransactions -------------------------
(***************************************************************************)
(* Orders of the Eclipse marketplace (packages/sdk/src/sdk-blockchains/     *)
(* eclipse/order.ts) and the way their transactions are sent                *)
(* (packages/eclipse-sdk/src/common/transactions.ts).                       *)
(*                                                                         *)
(* A call reads the order from the chain, builds and signs one transaction, *)
(* sends it, and goes on sending the same bytes every half second until a   *)
(* websocket notification, an answer of the status poll or a timer settles  *)
(* it.  The ledger takes a signed transaction at most once, forgets it, or  *)
(* lets its blockhash expire; a fork takes back what is not yet confirmed.  *)
(***************************************************************************)
EXTENDS Integers

CONSTANTS
    Calls,      \* places for calls of the SDK
    Nobody,     \* no call
    Addresses,  \* addresses of orders
    Nowhere,    \* no address
    MaxAmount,  \* bound: the largest amount of an order
    Retries     \* bound: RETRIES_COUNT, 4 in the code

\* "open": sell() and bid(); "fill": buy() and acceptBid(); "cancel": cancel()
Kinds == {"open", "fill", "cancel"}

ASSUME EclipseAssumption ==
    /\ Nobody \notin Calls
    /\ Nowhere \notin Addresses
    /\ MaxAmount \in Nat \ {0}
    /\ Retries \in Nat

Amounts == 0..MaxAmount

VARIABLES
    calls,    \* the calls of the SDK
    ledger,   \* what has become of the transaction of each call
    final,    \* the calls whose transaction is in a confirmed block
    undone,   \* the calls whose transaction a fork has taken back
    left,     \* what is left of each order, at the latest block
    base,     \* and at the last confirmed one
    answers   \* results on their way to each call

vars == <<calls, ledger, final, undone, left, base, answers>>
chain == <<ledger, final, undone, left, base>>

(***************************************************************************)
(* pc "prepare"    the order is being read, the instructions are built      *)
(*    "send"       signed; the first sendRawTransaction() is awaited        *)
(*    "wait"       awaitTransactionSignatureConfirmation() is               *)
(*    "hung"       it is, but the subscription could not be set up          *)
(*    "ok"         submit() returned                                        *)
(*    "failed"     it threw the error of the transaction                    *)
(*    "expired"    it threw the error of the timer                          *)
(*    "lost"       it threw the error of the first sending                  *)
(*    "refused"    nothing was sent                                         *)
(*    "confirm"    wait() of the returned transaction is awaited            *)
(*    "confirmed"  it returned                                              *)
(*    "unconfirmed" it threw                                                *)
(* `intent` is the first call of those that try the same thing again.       *)
(***************************************************************************)
PCs == {"prepare", "send", "wait", "hung", "ok", "failed", "expired", "lost",
        "refused", "confirm", "confirmed", "unconfirmed"}
Unsent == {"idle", "prepare", "send", "refused"}
Ready == [pc |-> "idle", kind |-> "none", order |-> Nowhere, amount |-> 0,
          intent |-> Nobody, tries |-> 0]
CallStates == {Ready} \cup
    [pc : PCs, kind : Kinds, order : Addresses, amount : Amounts,
     intent : Calls, tries : 0..Retries]

Results == {"ok", "err"}
LedgerStates == {"none", "pool", "dead"} \cup Results

TypeOK ==
    /\ calls \in [Calls -> CallStates]
    /\ ledger \in [Calls -> LedgerStates]
    /\ final \subseteq Calls
    /\ undone \subseteq Calls
    /\ left \in [Addresses -> Amounts]
    /\ base \in [Addresses -> Amounts]
    /\ answers \in [Calls -> SUBSET Results]

At(c, pc) == calls[c].pc = pc
Goes(c, pc) == calls' = [calls EXCEPT ![c].pc = pc]
Executed(c) == ledger[c] \in Results

-----------------------------------------------------------------------------
(***************************************************************************)
(* The call, up to the first sending.                                      *)
(***************************************************************************)

\* the address of a new order comes from a generated key
Fresh(a) == left[a] = 0 /\ \A d \in Calls : calls[d].order # a

Begin(c, kind, a, amount) ==
    /\ At(c, "idle")
    /\ amount > 0
    /\ kind = "open" => Fresh(a)
    /\ calls' = [calls EXCEPT ![c] = [pc |-> "prepare", kind |-> kind, order |-> a,
                                      amount |-> amount, intent |-> c, tries |-> 0]]
    /\ UNCHANGED <<chain, answers>>

\* the user tries again what was reported to have failed; a new order gets
\* another address
Again(c, d, a) ==
    /\ At(c, "idle")
    /\ At(d, "failed") \/ At(d, "refused")
    /\ \A e \in Calls \ {d} : calls[e].intent = calls[d].intent =>
         At(e, "failed") \/ At(e, "refused")
    /\ IF calls[d].kind = "open" THEN Fresh(a) ELSE a = calls[d].order
    /\ calls' = [calls EXCEPT ![c] = [calls[d] EXCEPT !.pc = "prepare", !.order = a]]
    /\ UNCHANGED <<chain, answers>>

\* list() and bid() need nothing that may be gone
PrepareOpen(c) ==
    /\ calls[c].kind = "open"
    /\ Goes(c, "send")

\* fetchOrderByAddress(): an order that is filled or cancelled has no account
PrepareFill(c) ==
    /\ calls[c].kind = "fill"
    /\ Goes(c, IF left[calls[c].order] = 0 THEN "refused" ELSE "send")

PrepareCancel(c) ==
    /\ calls[c].kind = "cancel"
    /\ Goes(c, IF left[calls[c].order] = 0 THEN "refused" ELSE "send")

Prepare(c) ==
    /\ At(c, "prepare")
    /\ PrepareOpen(c) \/ PrepareFill(c) \/ PrepareCancel(c)
    /\ UNCHANGED <<chain, answers>>

\* the wallet or an RPC call made before the sending throws
Refuse(c) ==
    /\ At(c, "prepare")
    /\ Goes(c, "refused")
    /\ UNCHANGED <<chain, answers>>

\* the first sending reaches the ledger or not, is answered or not; then the
\* subscription is set up or not
Send(c) ==
    /\ At(c, "send")
    /\ \E reached \in BOOLEAN :
         ledger' = [ledger EXCEPT ![c] = IF reached THEN "pool" ELSE @]
    /\ \/ Goes(c, "wait")
       \/ Goes(c, "hung")
       \/ Goes(c, "lost")
    /\ UNCHANGED <<final, undone, left, base, answers>>

-----------------------------------------------------------------------------
(***************************************************************************)
(* Sending again, and awaiting the confirmation.                           *)
(***************************************************************************)

\* the same bytes until the call is done; the loop's own limit of 60000
\* compares seconds and never stops it
Resend(c) ==
    /\ At(c, "wait") \/ At(c, "hung")
    /\ ledger[c] = "none"
    /\ ledger' = [ledger EXCEPT ![c] = "pool"]
    /\ UNCHANGED <<calls, final, undone, left, base, answers>>

\* the notification is sent, or getSignatureStatuses() is answered; the answers
\* that say "not yet" change nothing
Learn(c) ==
    /\ At(c, "wait")
    /\ Executed(c)
    /\ answers' = [answers EXCEPT ![c] = @ \cup {ledger[c]}]
    /\ UNCHANGED <<calls, chain>>

\* answers that come later are ignored
Forget(c) ==
    /\ answers' = [answers EXCEPT ![c] = {}]
    /\ UNCHANGED chain

\* (mutant) the error of a transaction is not looked at
SettleAnyway(c, result) ==
    /\ At(c, "wait")
    /\ result \in answers[c]
    /\ Goes(c, "ok")
    /\ Forget(c)

\* the first answer settles the promise, and ends the sending
Settle(c, result) ==
    /\ At(c, "wait")
    /\ result \in answers[c]
    /\ Goes(c, IF result = "ok" THEN "ok" ELSE "failed")
    /\ Forget(c)

\* (mutant) the timer is reported as a failure of the transaction
TimeOutFails(c) ==
    /\ At(c, "wait")
    /\ Goes(c, "failed")
    /\ Forget(c)

\* (mutant) the wait has no limit
TimeOutNever(c) ==
    /\ FALSE
    /\ UNCHANGED vars

\* the timer fires: the transaction may still be executed
TimeOut(c) ==
    /\ At(c, "wait")
    /\ Goes(c, "expired")
    /\ Forget(c)

-----------------------------------------------------------------------------
(***************************************************************************)
(* wait() of the transaction a fill or a cancellation returns.  A sale and  *)
(* a bid return the order's id alone.                                      *)
(***************************************************************************)

StartWait(c) ==
    /\ At(c, "ok")
    /\ calls[c].kind # "open"
    /\ Goes(c, "confirm")
    /\ UNCHANGED <<chain, answers>>

\* (mutant) the commitment is "processed"
ConfirmProcessed(c) ==
    /\ At(c, "confirm")
    /\ Executed(c)
    /\ Goes(c, IF ledger[c] = "ok" THEN "confirmed" ELSE "unconfirmed")
    /\ UNCHANGED <<chain, answers>>

\* confirmTransaction(txId, "confirmed") has answered
Confirm(c) ==
    /\ At(c, "confirm")
    /\ c \in final
    /\ Goes(c, IF ledger[c] = "ok" THEN "confirmed" ELSE "unconfirmed")
    /\ UNCHANGED <<chain, answers>>

\* (mutant) once more than RETRIES_COUNT
NotConfirmedOnceMore(c) ==
    /\ At(c, "confirm")
    /\ \/ /\ calls[c].tries <= Retries
          /\ calls' = [calls EXCEPT ![c].tries = @ + 1]
       \/ /\ calls[c].tries > Retries
          /\ Goes(c, "unconfirmed")
    /\ UNCHANGED <<chain, answers>>

\* "Transaction was not confirmed in 30 seconds": tried again, RETRIES_COUNT times
NotConfirmed(c) ==
    /\ At(c, "confirm")
    /\ \/ /\ calls[c].tries < Retries
          /\ calls' = [calls EXCEPT ![c].tries = @ + 1]
       \/ /\ calls[c].tries = Retries
          /\ Goes(c, "unconfirmed")
    /\ UNCHANGED <<chain, answers>>

\* any other error of confirmTransaction() is thrown at once
ConfirmThrows(c) ==
    /\ At(c, "confirm")
    /\ Goes(c, "unconfirmed")
    /\ UNCHANGED <<chain, answers>>

-----------------------------------------------------------------------------
(***************************************************************************)
(* The chain.                                                              *)
(***************************************************************************)

Succeeds(c) ==
    LET rest == left[calls[c].order] IN
    CASE calls[c].kind = "open" -> rest = 0
      [] calls[c].kind = "fill" -> rest >= calls[c].amount
      [] OTHER -> rest > 0

Rest(c) ==
    CASE calls[c].kind = "open" -> calls[c].amount
      [] calls[c].kind = "fill" -> left[calls[c].order] - calls[c].amount
      [] OTHER -> 0

\* the transaction is executed; it may fail for want of funds at any time
Execute(c) ==
    /\ ledger[c] = "pool"
    /\ \/ /\ Succeeds(c)
          /\ ledger' = [ledger EXCEPT ![c] = "ok"]
          /\ left' = [left EXCEPT ![calls[c].order] = Rest(c)]
       \/ /\ ledger' = [ledger EXCEPT ![c] = "err"]
          /\ UNCHANGED left
    /\ UNCHANGED <<calls, final, undone, base, answers>>

\* the network forgets it, or the blockhash is too old for it
Drop(c) ==
    /\ ledger[c] = "pool"
    /\ ledger' = [ledger EXCEPT ![c] = "none"]
    /\ UNCHANGED <<calls, final, undone, left, base, answers>>

Expire(c) ==
    /\ ledger[c] \in {"none", "pool"}
    /\ calls[c].pc \notin Unsent
    /\ ledger' = [ledger EXCEPT ![c] = "dead"]
    /\ UNCHANGED <<calls, final, undone, left, base, answers>>

\* every block up to the latest is confirmed
Finalize ==
    /\ final' = {c \in Calls : Executed(c)}
    /\ base' = left
    /\ UNCHANGED <<calls, ledger, undone, left, answers>>

\* the blocks that are not confirmed are abandoned, with what they executed
Fork ==
    LET gone == {c \in Calls \ final : Executed(c)} IN
    /\ gone # {}
    /\ ledger' = [c \in Calls |-> IF c \in gone THEN "pool" ELSE ledger[c]]
    /\ undone' = undone \cup gone
    /\ left' = base
    /\ UNCHANGED <<calls, final, base, answers>>

-----------------------------------------------------------------------------
Init ==
    /\ calls = [c \in Calls |-> Ready]
    /\ ledger = [c \in Calls |-> "none"]
    /\ final = {}
    /\ undone = {}
    /\ left \in [Addresses -> {0, MaxAmount}]   \* orders of earlier sessions
    /\ base = left
    /\ answers = [c \in Calls |-> {}]

Call(c) ==
    \/ \E kind \in Kinds, a \in Addresses, amount \in Amounts : Begin(c, kind, a, amount)
    \/ \E d \in Calls, a \in Addresses : Again(c, d, a)
    \/ Prepare(c)
    \/ Refuse(c)
    \/ Send(c)
    \/ Resend(c)
    \/ Learn(c)
    \/ \E result \in Results : Settle(c, result)
    \/ TimeOut(c)
    \/ StartWait(c)
    \/ Confirm(c)
    \/ NotConfirmed(c)
    \/ ConfirmThrows(c)

Chain ==
    \/ \E c \in Calls : Execute(c) \/ Drop(c) \/ Expire(c)
    \/ Finalize
    \/ Fork

Next == (\E c \in Calls : Call(c)) \/ Chain

Spec == Init /\ [][Next]_vars

\* the timers of submit() and of confirmTransaction() fire
FairSpec ==
    /\ Spec
    /\ \A c \in Calls : WF_vars(TimeOut(c)) /\ WF_vars(NotConfirmed(c))

=============================================================================
