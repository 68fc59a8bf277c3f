----------------------- MODULE Erc20OrdersProperties -----------------------
(***************************************************************************)
(* What callers of bid(), buy() and buyBatch() rely on.                     *)
(***************************************************************************)
EXTENDS Erc20Orders

\* A call that waits for its approval never reaches its second step while the
\* approval is unmined (upsert-order.ts:114-117, rarible-v2.ts:102): what it
\* publishes or sends does not depend on a transaction that may still fail.
ConfirmedBeforeUse ==
    \A c \in Calls :
        /\ calls[c].kind # "batch"
        /\ At(c, "prepared") \/ At(c, "send") \/ At(c, "sent")
        => ~Unmined(c, "approve")

\* A purchase for which gas was estimated is not lost in the block
\* (send-transaction.ts:26-29), however approvals, abandoned purchases and
\* infinite approvals went before it.
PurchasesSucceed == ~lost

\* A bid is published only when the proxy can take its price
\* (upsert-order.ts:71-81: first "approve", then "sign").
BidsAreBacked ==
    [][\A c \in Calls : Post(c) => allowance >= calls[c].value]_vars

\* An approval never takes away what an earlier one had granted
\* (approve-erc20.ts:24-34).
ApprovalsOnlyRaise == [][MineApproval => allowance' >= allowance]_vars

\* No call is about to replace the allowance by a smaller one.
NoApprovalUnderway ==
    /\ \A c \in Calls : At(c, "approve") => calls[c].infinite
    /\ \A tx \in Pending : tx.what = "approve" => tx.amount = Infinite

\* Once the infinite approval is mined and no exact one is under way, it is
\* there for good: whatever calls overlap, no purchase can undo it with an
\* exact approval (approve-erc20.ts:26-31).
Settled == allowance = Infinite /\ NoApprovalUnderway
InfiniteIsForever == [][Settled => Settled']_vars

\* A call does not hang: allowance() answers, and a transaction that is never
\* mined is given up after 30 minutes (to-promises.ts:12).
Waits(c) == At(c, "check") \/ At(c, "confirm")
NoCallHangs == \A c \in Calls : Waits(c) ~> ~Waits(c)

=============================================================================
