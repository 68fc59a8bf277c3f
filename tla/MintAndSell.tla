----------------------------- MODULE MintAndSell -----------------------------
(***************************************************************************)
(* nft.mintAndSell() of the union SDK on an EVM blockchain                  *)
(* (packages/sdk/src/index.ts): mint, wait until the item is known, sell.   *)
(* The mint goes through a web3 provider that repeats some requests         *)
(* (packages/ethereum/web3-v4-ethereum), behind a middleware that may turn  *)
(* them into meta-transactions (packages/ethereum/biconomy-middleware).     *)
(*                                                                         *)
(* Several calls run at once, for the same account, with token ids of their *)
(* own or with the same one (prepare(request.tokenId)).                     *)
(***************************************************************************)
EXTENDS Integers, FiniteSets

CONSTANTS
    Calls,          \* calls of mintAndSell()
    Tokens,         \* token ids
    Ids,            \* the ids a call may be given
    Attempts        \* how often the search for the item is repeated: 90

ASSUME MintAssumption ==
    /\ Ids \in [Calls -> SUBSET Tokens]
    /\ Attempts \in Nat

VARIABLES
    provider,   \* the package that sends transactions, for web3 1.x or 4.x
    calls,      \* the calls
    pool,       \* transactions that may still be mined
    made,       \* <<call, token>>: minted, or lazily minted, for the call
    minted,     \* the tokens of the contract
    nonce,      \* the account's meta-transaction nonce in the contract
    indexed,    \* the tokens getItemById() finds
    offers,     \* <<call, token>>: sell orders posted
    relay       \* the Biconomy client

vars == <<provider, calls, pool, made, minted, nonce, indexed, offers, relay>>

(***************************************************************************)
(* pc "idle"   not called                                                   *)
(*    "lazy"   a lazy mint is signed and posted                             *)
(*    "mint"   the gas of the mint is estimated                             *)
(*    "send"   the transaction's hash is awaited                            *)
(*    "sent"   transaction.wait()                                           *)
(*    "poll"   retry(90, 2000, getItemById)                                 *)
(*    "sell"   approval, signature and upsert of the order                  *)
(*    "sold", "failed"                                                      *)
(***************************************************************************)
PCs == {"idle", "lazy", "mint", "send", "sent", "poll", "sell", "sold", "failed"}
Ended == {"sold", "failed"}

(***************************************************************************)
(* Where eth_sendTransaction is. A request outlives a call that timed out. *)
(*    "prompt" it enters the provider                                       *)
(*    "limits" the contract is registered; biconomyState and limits         *)
(*    "nonce"  getNonce()                                                   *)
(*    "sign"   the meta-transaction is signed and relayed                   *)
(*    "wallet" the wallet sends the transaction itself                      *)
(***************************************************************************)
Requests == {"none", "prompt", "limits", "nonce", "sign", "wallet"}

\* `sent` counts the transactions broadcast for the call; `again` tells that the
\* request was repeated, `misled` that something was broadcast by then;
\* `receipt` is how the transaction of the last request was mined
CallStates ==
    [pc : PCs, request : Requests, token : Tokens, again : BOOLEAN, misled : BOOLEAN,
     nonce : Nat, receipt : {"none", "done", "reverted"}, tries : 0..Attempts,
     sent : Nat]

\* an ordinary transaction has no nonce in the contract
Transactions ==
    [call : Calls, token : Tokens, again : BOOLEAN, meta : BOOLEAN, nonce : Nat]

TypeOK ==
    /\ provider \in {"web3", "web3-v4"}
    /\ calls \in [Calls -> CallStates]
    /\ pool \subseteq Transactions
    /\ made \subseteq Calls \X Tokens
    /\ minted \subseteq Tokens
    /\ nonce \in Nat
    /\ indexed \subseteq Tokens
    /\ offers \subseteq Calls \X Tokens
    /\ relay \in {"starting", "ready", "failed"}

At(c, pc) == calls[c].pc = pc
Goes(c, pc) == calls' = [calls EXCEPT ![c].pc = pc]
Own(c) == <<c, calls[c].token>>

ledger == <<made, minted, nonce>>
backend == <<indexed, offers>>

-----------------------------------------------------------------------------
(***************************************************************************)
(* The mint.                                                               *)
(***************************************************************************)

\* createMintAndSell(), up to the token's id
Begin(c) ==
    /\ At(c, "idle")
    /\ \E pc \in {"lazy", "mint"} : Goes(c, pc)
    /\ UNCHANGED <<provider, pool, ledger, backend, relay>>

\* retry() begins
StartPolling(c) == calls' = [calls EXCEPT ![c].pc = "poll", ![c].tries = Attempts]

\* mintOffChain(); nothing is waited for
MintLazily(c) ==
    /\ At(c, "lazy")
    /\ \/ /\ StartPolling(c)
          /\ made' = made \cup {Own(c)}
       \/ /\ Goes(c, "failed")
          /\ UNCHANGED made
    /\ UNCHANGED <<provider, pool, minted, nonce, backend, relay>>

\* send(): estimateGas() fails, always so for a token that is minted; then the
\* request is made and the timer of its hash started
Estimate(c) ==
    /\ At(c, "mint")
    /\ \/ Goes(c, "failed")
       \/ /\ calls[c].token \notin minted
          /\ calls' = [calls EXCEPT ![c].pc = "send", ![c].request = "prompt"]
    /\ UNCHANGED <<provider, pool, ledger, backend, relay>>

-----------------------------------------------------------------------------
(***************************************************************************)
(* The middleware and the provider.                                        *)
(***************************************************************************)

Asks(c, request) == calls[c].request = request
GoesOn(c, request) == calls' = [calls EXCEPT ![c].request = request]

\* getMetadata(): whether the contract is registered is the registry's to say
Lookup(c) ==
    /\ Asks(c, "prompt")
    /\ \E request \in {"limits", "wallet"} : GoesOn(c, request)
    /\ UNCHANGED <<provider, pool, ledger, backend, relay>>

\* checkLimits(), once the client is ready: next() where the limit is reached
CheckLimits(c) ==
    /\ Asks(c, "limits")
    /\ relay = "ready"
    /\ \E request \in {"nonce", "wallet"} : GoesOn(c, request)
    /\ UNCHANGED <<provider, pool, ledger, backend, relay>>

ReadNonce(c) ==
    /\ Asks(c, "nonce")
    /\ calls' = [calls EXCEPT ![c].request = "sign", ![c].nonce = nonce]
    /\ UNCHANGED <<provider, pool, ledger, backend, relay>>

\* the request of call r is over, and forgets the nonce it read
Over(r, pc) == [r EXCEPT !.request = "none", !.nonce = 0, !.pc = pc]

\* it is answered; a call that timed out takes no notice
Answered(r) == Over(r, IF r.pc = "send" THEN "sent" ELSE r.pc)

\* an error ends the call; if it says "missing or invalid parameters", send()
\* calls _send() once more, whether or not a transaction is on its way
Erred(r) ==
    {Over(r, "failed")} \cup
    IF r.pc = "send" /\ ~r.again
    THEN {[Over(r, "send") EXCEPT !.request = "prompt", !.again = TRUE, !.misled = r.sent > 0]}
    ELSE {}

OneMore(c) == [calls[c] EXCEPT !.sent = @ + 1]

\* the transaction is broadcast, and the call is r
Broadcast(c, meta, r) ==
    /\ pool' = pool \cup {[call |-> c, token |-> calls[c].token, again |-> calls[c].again,
                           meta |-> meta, nonce |-> IF meta THEN calls[c].nonce ELSE 0]}
    /\ calls' = [calls EXCEPT ![c] = r]
    /\ UNCHANGED <<provider, ledger, backend, relay>>

\* executeMetaTransaction() is signed and given to the relayer
Relay(c) == Asks(c, "sign") /\ Broadcast(c, TRUE, Answered(OneMore(c)))

\* (mutant) the error is forgotten and the request goes on to the wallet
AnswerLostFallsThrough(c) ==
    \/ /\ Asks(c, "sign")
       /\ Broadcast(c, TRUE, [OneMore(c) EXCEPT !.request = "wallet"])
    \/ /\ Asks(c, "wallet")
       /\ \E r \in Erred(OneMore(c)) : Broadcast(c, FALSE, r)

\* the transaction is on its way, but the answer is an error: an error of the
\* middleware ends the request, so that it does not go on to the wallet as well
AnswerLost(c) ==
    \E r \in Erred(OneMore(c)) :
        \/ Asks(c, "sign") /\ Broadcast(c, TRUE, r)
        \/ Asks(c, "wallet") /\ Broadcast(c, FALSE, r)

SendPlain(c) == Asks(c, "wallet") /\ Broadcast(c, FALSE, Answered(OneMore(c)))

\* web3, the registry, the client, the limits, the nonce, the user or the
\* wallet refuse
Refuse(c) ==
    /\ ~Asks(c, "none")
    /\ Asks(c, "limits") => relay # "starting"
    /\ \E r \in Erred(calls[c]) : calls' = [calls EXCEPT ![c] = r]
    /\ UNCHANGED <<provider, pool, ledger, backend, relay>>

\* biconomy.READY or biconomy.ERROR, once
Settle ==
    /\ relay = "starting"
    /\ relay' \in {"ready", "failed"}
    /\ UNCHANGED <<provider, calls, pool, ledger, backend>>

-----------------------------------------------------------------------------
(***************************************************************************)
(* The blockchain and the indexer.                                         *)
(***************************************************************************)

\* a receipt is waited for if it is the last request's and the call goes on
Receives(tx, receipt) ==
    calls' = IF calls[tx.call].again = tx.again /\ calls[tx.call].pc \notin Ended
             THEN [calls EXCEPT ![tx.call].receipt = receipt]
             ELSE calls

\* a token is minted once; a meta-transaction is executed if its nonce is the
\* account's, and reverts as a whole if what it calls does
Mine(tx) ==
    LET done == tx.token \notin minted /\ (tx.meta => tx.nonce = nonce) IN
    /\ tx \in pool
    /\ pool' = pool \ {tx}
    /\ \/ /\ done
          /\ made' = made \cup {<<tx.call, tx.token>>}
          /\ minted' = minted \cup {tx.token}
          /\ nonce' = IF tx.meta THEN nonce + 1 ELSE nonce
          /\ Receives(tx, "done")
       \/ /\ ~done
          /\ Receives(tx, "reverted")
          /\ UNCHANGED ledger
    /\ UNCHANGED <<provider, backend, relay>>

\* dropped by the relayer or the mempool
Drop(tx) ==
    /\ tx \in pool
    /\ pool' = pool \ {tx}
    /\ UNCHANGED <<provider, calls, ledger, backend, relay>>

Index(token) ==
    /\ \E c \in Calls : <<c, token>> \in made
    /\ indexed' = indexed \cup {token}
    /\ UNCHANGED <<provider, calls, pool, ledger, offers, relay>>

-----------------------------------------------------------------------------
(***************************************************************************)
(* Waiting and selling.                                                    *)
(***************************************************************************)

\* (mutant) whatever became of the transaction
WaitAny(c) ==
    /\ At(c, "sent")
    /\ calls[c].receipt # "none"
    /\ StartPolling(c)
    /\ UNCHANGED <<provider, pool, ledger, backend, relay>>

\* transaction.wait(); the receipt's status is not looked at, so that a reverted
\* transaction is an error only where its receipt is: web3 1.x emits "error" in
\* its place, web3 4.x emits "receipt" first, and the promise is resolved
Wait(c) ==
    /\ At(c, "sent")
    /\ calls[c].receipt # "none"
    /\ \/ /\ calls[c].receipt = "done" \/ provider = "web3-v4"
          /\ StartPolling(c)
       \/ /\ calls[c].receipt = "reverted" /\ provider = "web3"
          /\ Goes(c, "failed")
    /\ UNCHANGED <<provider, pool, ledger, backend, relay>>

\* (mutant) only the receipt has a timer
TimeOutReceipt(c) ==
    /\ At(c, "sent")
    /\ Goes(c, "failed")
    /\ UNCHANGED <<provider, pool, ledger, backend, relay>>

\* "PromiEvent timeout" of the hash or the receipt, after half an hour; neither
\* the request nor the transaction is withdrawn
TimeOut(c) ==
    /\ At(c, "send") \/ At(c, "sent")
    /\ Goes(c, "failed")
    /\ UNCHANGED <<provider, pool, ledger, backend, relay>>

\* (mutant) one attempt too many
NotFoundOnceMore(c) ==
    /\ At(c, "poll")
    /\ \/ calls' = [calls EXCEPT ![c].tries = @ - 1]
       \/ /\ calls[c].tries < 0
          /\ Goes(c, "failed")
    /\ UNCHANGED <<provider, pool, ledger, backend, relay>>

\* an attempt that does not find the item, or fails for another reason
NotFound(c) ==
    /\ At(c, "poll")
    /\ \/ /\ calls[c].tries > 0
          /\ calls' = [calls EXCEPT ![c].tries = @ - 1]
       \/ /\ calls[c].tries = 0
          /\ Goes(c, "failed")
    /\ UNCHANGED <<provider, pool, ledger, backend, relay>>

Found(c) ==
    /\ At(c, "poll")
    /\ calls[c].token \in indexed
    /\ calls' = [calls EXCEPT ![c].pc = "sell", ![c].tries = 0]
    /\ UNCHANGED <<provider, pool, ledger, backend, relay>>

\* the order is approved, signed and posted, or one of these fails
Sell(c) ==
    /\ At(c, "sell")
    /\ \/ /\ Goes(c, "sold")
          /\ offers' = offers \cup {Own(c)}
       \/ /\ Goes(c, "failed")
          /\ UNCHANGED offers
    /\ UNCHANGED <<provider, pool, ledger, indexed, relay>>

-----------------------------------------------------------------------------

Init ==
    /\ provider \in {"web3", "web3-v4"}
    /\ \E id \in [Calls -> Tokens] :
         /\ \A c \in Calls : id[c] \in Ids[c]
         /\ calls = [c \in Calls |->
                     [pc |-> "idle", request |-> "none", token |-> id[c], again |-> FALSE,
                      misled |-> FALSE, nonce |-> 0, receipt |-> "none", tries |-> 0,
                      sent |-> 0]]
    /\ pool = {}
    /\ made = {}
    /\ minted = {}
    /\ nonce = 0
    /\ indexed = {}
    /\ offers = {}
    /\ relay = "starting"

\* a call on its way
Proceed(c) ==
    \/ MintLazily(c) \/ Estimate(c) \/ Wait(c) \/ TimeOut(c)
    \/ NotFound(c) \/ Found(c) \/ Sell(c)

\* its request on its way, even after the call has ended
Serve(c) ==
    \/ Lookup(c) \/ CheckLimits(c) \/ ReadNonce(c)
    \/ Relay(c) \/ AnswerLost(c) \/ SendPlain(c) \/ Refuse(c)

Next ==
    \/ \E c \in Calls : Begin(c) \/ Proceed(c) \/ Serve(c)
    \/ Settle
    \/ \E tx \in pool : Mine(tx) \/ Drop(tx)
    \/ \E t \in Tokens : Index(t)

Spec == Init /\ [][Next]_vars

\* the node and the API answer, the user signs the token or the order or does
\* not, and every timer fires; whether wallet, middleware and relayer answer,
\* transactions are mined and items indexed is left open
FairSpec == Spec /\ \A c \in Calls : WF_vars(Proceed(c))

=============================================================================
