-------------------- MODULE EclipseTransactionsProperties --------------------
(***************************************************************************)
(* What callers of sell(), bid(), buy(), acceptBid() and cancel() on        *)
(* Eclipse rely on.                                                        *)
(***************************************************************************)
EXTENDS EclipseTransactions

Returned(c) == calls[c].pc \in {"ok", "confirm"}

\* The verdict of submit() is the ledger's, however answers are delayed or
\* overtaken: what returned was executed and what threw the transaction's error
\* was not, for good unless a fork takes the transaction back
\* (transactions.ts:92-117, 161-204).
VerdictIsTrue ==
    \A c \in Calls \ undone :
        /\ Returned(c) => ledger[c] = "ok"
        /\ At(c, "failed") => ledger[c] = "err"

\* A user who tries again only what was reported to have failed, and never what
\* timed out, does not trade twice: sending again sends the same bytes
\* (transactions.ts:82-90), and only a fork can revive a failed transaction.
NoDoubleTrade ==
    \A c, d \in Calls :
        /\ c # d
        /\ calls[c].intent = calls[d].intent
        /\ ledger[c] = "ok"
        /\ ledger[d] = "ok"
        => c \in undone \/ d \in undone

\* What wait() returned can no longer be taken back by a fork, even though
\* submit() returns on the first, unconfirmed execution
\* (order.ts:316, solana/index.ts:33-55).
ConfirmedIsFinal ==
    \A c \in Calls : At(c, "confirmed") => c \in final /\ ledger[c] = "ok"

\* A submission whose subscription was set up ends, and so does wait(), whatever
\* the network loses (transactions.ts:154-159, solana/index.ts:34-48).
SubmissionsEnd ==
    \A c \in Calls :
        At(c, "wait") \/ At(c, "confirm") ~> ~At(c, "wait") /\ ~At(c, "confirm")

=============================================================================
