------------------------ MODULE MintAndSellProperties ------------------------
(***************************************************************************)
(* What users of mintAndSell() rely on.                                     *)
(***************************************************************************)
EXTENDS MintAndSell

\* However requests are delayed, refused, repeated or outlive their call, at
\* most one transaction is broadcast for a call: the middleware's error does not
\* go on to the wallet (middleware.ts:28-73). Only the repetition by an error's
\* wording may add another, if that error follows a broadcast, and no more than
\* one (web3-v4-ethereum/src/index.ts:462-472).
SentOnce == \A c \in Calls : calls[c].sent <= IF calls[c].misled THEN 2 ELSE 1

\* Selling implements the market: whatever transactions do, a call only offers
\* the token it was given, once it is made. With web3 1.x the call made it
\* itself, even where two calls were given the same one; with web3 4.x, whose
\* receipts of reverted transactions nobody looks at, another call that was
\* given the same one may have (sdk/src/index.ts:256-268,
\* transaction/src/ethereum/index.ts:25-34).
Market ==
    INSTANCE MintMarket WITH
        noticed <- provider = "web3",
        given <- [c \in Calls |-> calls[c].token]
ImplementsMarket == Market!Spec

\* Every call ends, sold or failed, even if the wallet, the middleware or the
\* relayer never answers: the hash and the receipt have a timer each, the search
\* has its attempts (to-promises.ts:11-45, retry.ts:1-8).
CallsEnd == \A c \in Calls : calls[c].pc \notin {"idle"} \cup Ended ~> calls[c].pc \in Ended

=============================================================================
