-------------------------- MODULE MintAndSellProofs --------------------------
(***************************************************************************)
(* Proofs about MintAndSell, for any number of calls, tokens and attempts,  *)
(* with web3 1.x and 4.x, and whatever the wallet, the relayer, the         *)
(* blockchain and the indexer do.                                           *)
(***************************************************************************)
EXTENDS MintAndSellProperties, TLAPS

-----------------------------------------------------------------------------
(***************************************************************************)
(* The inductive invariant.                                                *)
(***************************************************************************)

\* A request that is under way has broadcast nothing yet, so that only what was
\* broadcast before it was repeated counts; and nothing precedes the first one.
Counted(r) ==
    /\ r.sent <= IF r.misled THEN 2 ELSE 1
    /\ r.request # "none" => r.sent <= IF r.misled THEN 1 ELSE 0
    /\ r.misled => r.again
    /\ r.pc \in {"idle", "lazy", "mint"} => r.request = "none" /\ r.sent = 0

\* What makes a call know that the token is its own: its receipt and, with web3
\* 1.x, the places of the code it reaches with it. In any case the item was found.
Owned(c, r) ==
    /\ r.receipt = "done" => <<c, r.token>> \in made
    /\ provider = "web3" /\ r.pc \in {"poll", "sell"} => <<c, r.token>> \in made
    /\ r.pc = "sell" => \E maker \in Calls : <<maker, r.token>> \in made

\* A transaction mints the token its call is about, so that a call makes no
\* other, and an item that is found was made.
Signed == \A tx \in pool : tx.token = calls[tx.call].token
Given == \A c \in Calls, t \in Tokens : <<c, t>> \in made => t = calls[c].token
Known == \A t \in indexed : \E maker \in Calls : <<maker, t>> \in made

MintInv ==
    /\ TypeOK
    /\ \A c \in Calls : Counted(calls[c]) /\ Owned(c, calls[c])
    /\ Signed /\ Given /\ Known

\* Call c becomes r, which is about the same token.
Moves(c, r) ==
    /\ calls' = [calls EXCEPT ![c] = r]
    /\ r \in CallStates
    /\ r.token = calls[c].token
    /\ provider' = provider

\* Nothing is made, or call c makes its token.
Makes(c) == made' = made \/ made' = made \cup {Own(c)}

LEMMA MintInit == Init => MintInv
  <1> SUFFICES ASSUME Init PROVE MintInv
    OBVIOUS
  <1>1. PICK id \in [Calls -> Tokens] :
               calls = [c \in Calls |->
                         [pc |-> "idle", request |-> "none", token |-> id[c], again |-> FALSE,
                          misled |-> FALSE, nonce |-> 0, receipt |-> "none", tries |-> 0,
                          sent |-> 0]]
    BY DEF Init
  <1>2. 0 \in 0..Attempts
    BY MintAssumption
  <1>3. TypeOK
    BY <1>1, <1>2 DEF Init, TypeOK, CallStates, PCs, Requests
  <1>4. ASSUME NEW c \in Calls PROVE Counted(calls[c]) /\ Owned(c, calls[c])
    BY <1>1 DEF Counted, Owned
  <1>5. Signed /\ Given /\ Known
    BY DEF Init, Signed, Given, Known
  <1> QED
    BY <1>3, <1>4, <1>5 DEF MintInv

\* A step of one call keeps the invariant if it does so for that call.
LEMMA MovesInv ==
    ASSUME MintInv, NEW c \in Calls, NEW r, Moves(c, r), Counted(r), Owned(c, r)', Makes(c),
           \A tx \in pool' \ pool :
               tx \in Transactions /\ tx.call = c /\ tx.token = calls[c].token,
           minted' \subseteq Tokens, nonce' \in Nat, indexed' = indexed,
           offers' = offers \/ offers' = offers \cup {Own(c)},
           relay' \in {"starting", "ready", "failed"}
    PROVE  MintInv'
  <1>1. /\ calls'[c] = r
        /\ \A d \in Calls : d # c => calls'[d] = calls[d]
        /\ \A d \in Calls : calls'[d].token = calls[d].token
        /\ calls' \in [Calls -> CallStates]
    BY DEF MintInv, TypeOK, Moves
  <1>2. Own(c) \in Calls \X Tokens
    BY DEF MintInv, TypeOK, CallStates, Own
  <1>3. made \subseteq made' /\ made' \subseteq Calls \X Tokens
    BY <1>2 DEF Makes, MintInv, TypeOK
  <1>4. TypeOK'
    BY <1>1, <1>2, <1>3 DEF Moves, MintInv, TypeOK
  <1>5. ASSUME NEW d \in Calls PROVE Counted(calls[d])' /\ Owned(d, calls[d])'
    <2>1. CASE d = c
      BY <1>1, <2>1 DEF Counted, Owned
    <2>2. CASE d # c
      BY <1>1, <1>3, <2>2 DEF Moves, MintInv, Counted, Owned
    <2> QED
      BY <2>1, <2>2
  <1>6. Signed'
    <2>1. \A tx \in pool : tx.call \in Calls
      BY DEF MintInv, TypeOK, Transactions
    <2> QED
      BY <1>1, <2>1 DEF MintInv, Signed
  <1>7. Given'
    BY <1>1 DEF MintInv, Given, Makes, Own
  <1>8. Known'
    BY <1>3 DEF MintInv, Known
  <1> QED
    BY <1>4, <1>5, <1>6, <1>7, <1>8 DEF MintInv

-----------------------------------------------------------------------------
(***************************************************************************)
(* What each step does to its call.                                        *)
(***************************************************************************)

\* The answer of a request and its errors keep a call's type, token, receipt
\* and count.
LEMMA AnsweredCounts ==
    ASSUME NEW r \in CallStates, r.sent <= IF r.misled THEN 2 ELSE 1, r.misled => r.again,
           r.pc \notin {"idle", "lazy", "mint"}
    PROVE  /\ Answered(r) \in CallStates
           /\ Counted(Answered(r))
           /\ Answered(r).token = r.token /\ Answered(r).receipt = r.receipt
           /\ Answered(r).pc \in {r.pc, "sent"}
  BY DEF Answered, Over, CallStates, PCs, Requests, Counted

LEMMA ErredCounts ==
    ASSUME NEW r \in CallStates, r.sent <= IF r.misled THEN 2 ELSE 1, r.misled => r.again,
           NEW q \in Erred(r)
    PROVE  /\ q \in CallStates
           /\ Counted(q)
           /\ q.token = r.token /\ q.receipt = r.receipt
           /\ q.pc \in {"failed", "send"}
  <1>1. CASE q = Over(r, "failed")
    BY <1>1 DEF Over, CallStates, PCs, Requests, Counted
  <1>2. CASE q # Over(r, "failed")
    <2>1. /\ r.pc = "send" /\ ~r.again
          /\ q = [Over(r, "send") EXCEPT !.request = "prompt", !.again = TRUE,
                                         !.misled = r.sent > 0]
      BY <1>2 DEF Erred
    <2>2. r.sent \in Nat /\ r.sent <= 1 /\ (r.sent > 0) \in BOOLEAN
      BY <2>1 DEF CallStates
    <2>3. q \in CallStates
      BY <2>1, <2>2 DEF Over, CallStates, PCs, Requests
    <2>4. /\ q.sent = r.sent /\ q.request = "prompt" /\ q.again = TRUE
          /\ q.misled = (r.sent > 0)
          /\ q.pc = "send" /\ q.token = r.token /\ q.receipt = r.receipt
      BY <2>1 DEF Over, CallStates
    <2>5. CASE r.sent = 0
      BY <2>3, <2>4, <2>5 DEF Counted
    <2>6. CASE r.sent = 1
      <3>1. q.misled = TRUE
        <4>1. (r.sent > 0) = TRUE
          BY <2>6
        <4> QED
          BY <2>4, <4>1, Zenon
      <3> QED
        BY <2>3, <2>4, <2>6, <3>1 DEF Counted
    <2> QED
      BY <2>2, <2>5, <2>6
  <1> QED
    BY <1>1, <1>2

\* A transaction is broadcast by a request that has broadcast none before.
LEMMA OneMoreCounts ==
    ASSUME MintInv, NEW c \in Calls, ~Asks(c, "none")
    PROVE  /\ OneMore(c) \in CallStates
           /\ OneMore(c).sent <= IF OneMore(c).misled THEN 2 ELSE 1
           /\ OneMore(c).misled => OneMore(c).again
           /\ OneMore(c).pc = calls[c].pc /\ calls[c].pc \notin {"idle", "lazy", "mint"}
           /\ OneMore(c).token = calls[c].token /\ OneMore(c).receipt = calls[c].receipt
  <1>1. calls[c] \in CallStates /\ Counted(calls[c]) /\ calls[c].request # "none"
    BY DEF MintInv, TypeOK, Asks
  <1>2. OneMore(c) = [calls[c] EXCEPT !.sent = calls[c].sent + 1]
    BY DEF OneMore
  <1>3. calls[c].sent \in Nat /\ calls[c].sent + 1 \in Nat
    BY <1>1 DEF CallStates
  <1>4. OneMore(c) \in CallStates
    BY <1>1, <1>2, <1>3 DEF CallStates
  <1>5. /\ OneMore(c).sent = calls[c].sent + 1 /\ OneMore(c).misled = calls[c].misled
        /\ OneMore(c).again = calls[c].again /\ OneMore(c).pc = calls[c].pc
        /\ OneMore(c).token = calls[c].token /\ OneMore(c).receipt = calls[c].receipt
    BY <1>1, <1>2 DEF CallStates
  <1> QED
    BY <1>1, <1>3, <1>4, <1>5 DEF Counted

\* Every step of a request on its way.
LEMMA ServeMoves ==
    ASSUME MintInv, NEW c \in Calls, Serve(c)
    PROVE  /\ \E r : Moves(c, r) /\ Counted(r) /\ Owned(c, r)'
           /\ \A tx \in pool' \ pool :
                  tx \in Transactions /\ tx.call = c /\ tx.token = calls[c].token
           /\ UNCHANGED <<provider, ledger, backend, relay>>
  <1>1. /\ calls[c] \in CallStates /\ Counted(calls[c]) /\ Owned(c, calls[c])
        /\ calls[c].sent <= IF calls[c].misled THEN 2 ELSE 1
        /\ calls[c].misled => calls[c].again
    BY DEF MintInv, TypeOK, Counted
  <1>2. ASSUME NEW r, r.token = calls[c].token, r.receipt = calls[c].receipt,
               r.pc \in {calls[c].pc, "failed", "send", "sent"},
               UNCHANGED <<provider, ledger>>
        PROVE  Owned(c, r)'
    BY <1>1, <1>2 DEF Owned, ledger
  <1>3. CASE Lookup(c) \/ CheckLimits(c)
    <2>1. PICK request \in Requests \ {"none"} : GoesOn(c, request)
      BY <1>3 DEF Lookup, CheckLimits, Requests
    <2> DEFINE r == [calls[c] EXCEPT !.request = request]
    <2>2. calls' = [calls EXCEPT ![c] = r] /\ r \in CallStates
      BY <1>1, <2>1 DEF GoesOn, CallStates
    <2>3. /\ r.token = calls[c].token /\ r.receipt = calls[c].receipt /\ r.pc = calls[c].pc
          /\ r.sent = calls[c].sent /\ r.misled = calls[c].misled /\ r.again = calls[c].again
      BY <1>1 DEF CallStates
    <2>4. calls[c].request # "none" /\ pool' = pool
          /\ UNCHANGED <<provider, ledger, backend, relay>>
      BY <1>3 DEF Lookup, CheckLimits, Asks
    <2> HIDE DEF r
    <2>5. Counted(r)
      BY <1>1, <2>3, <2>4 DEF Counted
    <2> QED
      BY <1>2, <2>2, <2>3, <2>4, <2>5 DEF Moves
  <1>4. CASE ReadNonce(c)
    <2> DEFINE r == [calls[c] EXCEPT !.request = "sign", !.nonce = nonce]
    <2>1. calls' = [calls EXCEPT ![c] = r]
      BY <1>4 DEF ReadNonce
    <2>2. r \in CallStates
      BY <1>1 DEF MintInv, TypeOK, CallStates, Requests
    <2>3. /\ r.token = calls[c].token /\ r.receipt = calls[c].receipt /\ r.pc = calls[c].pc
          /\ r.sent = calls[c].sent /\ r.misled = calls[c].misled /\ r.again = calls[c].again
      BY <1>1 DEF CallStates
    <2>4. calls[c].request # "none" /\ pool' = pool
          /\ UNCHANGED <<provider, ledger, backend, relay>>
      BY <1>4 DEF ReadNonce, Asks
    <2> HIDE DEF r
    <2>5. Counted(r)
      BY <1>1, <2>3, <2>4 DEF Counted
    <2> QED
      BY <1>2, <2>1, <2>2, <2>3, <2>4, <2>5 DEF Moves
  <1>5. CASE Relay(c) \/ AnswerLost(c) \/ SendPlain(c)
    <2>1. ~Asks(c, "none")
      BY <1>5 DEF Relay, AnswerLost, SendPlain, Asks
    <2>2. PICK meta \in BOOLEAN, r \in {Answered(OneMore(c))} \cup Erred(OneMore(c)) :
                 Broadcast(c, meta, r)
      BY <1>5 DEF Relay, AnswerLost, SendPlain
    <2>3. r \in CallStates /\ Counted(r) /\ r.token = calls[c].token
          /\ r.receipt = calls[c].receipt /\ r.pc \in {calls[c].pc, "failed", "send", "sent"}
      BY <2>1, <2>2, OneMoreCounts, AnsweredCounts, ErredCounts
    <2>4. UNCHANGED <<provider, ledger, backend, relay>> /\ calls' = [calls EXCEPT ![c] = r]
      BY <2>2 DEF Broadcast
    <2>5. Owned(c, r)'
      BY <1>2, <2>3, <2>4
    <2>6. calls[c].token \in Tokens /\ calls[c].nonce \in Nat /\ calls[c].again \in BOOLEAN
      BY <1>1 DEF CallStates
    <2>7. \A tx \in pool' \ pool :
             tx \in Transactions /\ tx.call = c /\ tx.token = calls[c].token
      BY <2>2, <2>6 DEF Broadcast, Transactions
    <2> QED
      BY <2>3, <2>4, <2>5, <2>7 DEF Moves
  <1>6. CASE Refuse(c)
    <2>1. PICK r \in Erred(calls[c]) : calls' = [calls EXCEPT ![c] = r]
      BY <1>6 DEF Refuse
    <2>2. r \in CallStates /\ Counted(r) /\ r.token = calls[c].token
          /\ r.receipt = calls[c].receipt /\ r.pc \in {"failed", "send"}
      BY <1>1, <2>1, ErredCounts
    <2>3. pool' = pool /\ UNCHANGED <<provider, ledger, backend, relay>>
      BY <1>6 DEF Refuse
    <2> QED
      BY <1>2, <2>1, <2>2, <2>3 DEF Moves
  <1> QED
    BY <1>3, <1>4, <1>5, <1>6 DEF Serve

\* A call that goes to another place of the code, and perhaps counts attempts.
LEMMA PlaceMoves ==
    ASSUME MintInv, NEW c \in Calls, NEW pc \in PCs, NEW tries \in 0..Attempts,
           calls' = [calls EXCEPT ![c].pc = pc, ![c].tries = tries],
           pc \in {"lazy", "mint"} => At(c, "idle"), pc # "idle", provider' = provider
    PROVE  \E r : /\ Moves(c, r) /\ Counted(r)
                  /\ r.token = calls[c].token /\ r.receipt = calls[c].receipt /\ r.pc = pc
  <1> DEFINE r == [calls[c] EXCEPT !.pc = pc, !.tries = tries]
  <1>1. calls[c] \in CallStates /\ Counted(calls[c])
    BY DEF MintInv, TypeOK
  <1>2. r \in CallStates
    BY <1>1 DEF CallStates
  <1>3. /\ r.token = calls[c].token /\ r.receipt = calls[c].receipt /\ r.pc = pc
        /\ r.sent = calls[c].sent /\ r.misled = calls[c].misled /\ r.again = calls[c].again
        /\ r.request = calls[c].request
    BY <1>1 DEF CallStates
  <1>4. calls' = [calls EXCEPT ![c] = r]
    OBVIOUS
  <1> HIDE DEF r
  <1>5. Counted(r)
    BY <1>1, <1>3 DEF Counted, At
  <1> QED
    BY <1>2, <1>3, <1>4, <1>5 DEF Moves

\* The same for Goes, which leaves the attempts alone.
LEMMA GoesMoves ==
    ASSUME MintInv, NEW c \in Calls, NEW pc \in PCs, Goes(c, pc),
           pc \in {"lazy", "mint"} => At(c, "idle"), pc # "idle", provider' = provider
    PROVE  \E r : /\ Moves(c, r) /\ Counted(r)
                  /\ r.token = calls[c].token /\ r.receipt = calls[c].receipt /\ r.pc = pc
  <1>1. calls[c] \in CallStates /\ calls[c].tries \in 0..Attempts
    BY DEF MintInv, TypeOK, CallStates
  <1>2. [calls[c] EXCEPT !.pc = pc] = [calls[c] EXCEPT !.pc = pc, !.tries = calls[c].tries]
    BY <1>1 DEF CallStates
  <1>3. calls' = [calls EXCEPT ![c].pc = pc, ![c].tries = calls[c].tries]
    BY <1>2 DEF Goes
  <1> QED
    BY <1>1, <1>3, PlaceMoves

LEMMA PollMoves ==
    ASSUME MintInv, NEW c \in Calls, StartPolling(c), provider' = provider
    PROVE  \E r : /\ Moves(c, r) /\ Counted(r)
                  /\ r.token = calls[c].token /\ r.receipt = calls[c].receipt /\ r.pc = "poll"
  <1>1. Attempts \in 0..Attempts
    BY MintAssumption
  <1> QED
    BY <1>1, PlaceMoves DEF StartPolling, PCs

\* Every step of a call on its way.
LEMMA ProceedMoves ==
    ASSUME MintInv, NEW c \in Calls, Begin(c) \/ Proceed(c)
    PROVE  /\ \E r : Moves(c, r) /\ Counted(r) /\ Owned(c, r)'
           /\ Makes(c)
           /\ UNCHANGED <<provider, pool, minted, nonce, indexed, relay>>
           /\ \/ UNCHANGED offers
              \/ Sell(c) /\ made' = made /\ offers' = offers \cup {Own(c)}
  <1>1. calls[c] \in CallStates /\ Counted(calls[c]) /\ Owned(c, calls[c])
    BY DEF MintInv, TypeOK
  <1>2. ASSUME NEW r, r.token = calls[c].token, r.receipt = calls[c].receipt,
               provider' = provider, made \subseteq made',
               provider = "web3" /\ r.pc \in {"poll", "sell"} => Own(c) \in made',
               r.pc = "sell" => \E maker \in Calls : <<maker, calls[c].token>> \in made
        PROVE  Owned(c, r)'
    BY <1>1, <1>2 DEF Owned, Own
  <1>3. CASE Begin(c) \/ TimeOut(c)
    <2>1. PICK pc \in {"lazy", "mint", "failed"} :
                 Goes(c, pc) /\ (pc \in {"lazy", "mint"} => At(c, "idle"))
      BY <1>3 DEF Begin, TimeOut
    <2>2. UNCHANGED <<provider, pool, ledger, backend, relay>>
      BY <1>3 DEF Begin, TimeOut
    <2>3. PICK r : /\ Moves(c, r) /\ Counted(r)
                   /\ r.token = calls[c].token /\ r.receipt = calls[c].receipt /\ r.pc = pc
      BY <2>1, <2>2, GoesMoves DEF PCs
    <2> QED
      BY <1>2, <2>1, <2>2, <2>3 DEF Makes, ledger, backend
  <1>4. CASE MintLazily(c)
    <2>1. UNCHANGED <<provider, pool, minted, nonce, backend, relay>>
      BY <1>4 DEF MintLazily
    <2>2. CASE StartPolling(c) /\ made' = made \cup {Own(c)}
      <3>1. PICK r : /\ Moves(c, r) /\ Counted(r)
                     /\ r.token = calls[c].token /\ r.receipt = calls[c].receipt
                     /\ r.pc = "poll"
        BY <2>1, <2>2, PollMoves
      <3> QED
        BY <1>2, <2>1, <2>2, <3>1 DEF Makes, backend
    <2>3. CASE Goes(c, "failed") /\ UNCHANGED made
      <3>1. PICK r : /\ Moves(c, r) /\ Counted(r)
                     /\ r.token = calls[c].token /\ r.receipt = calls[c].receipt
                     /\ r.pc = "failed"
        BY <2>1, <2>3, GoesMoves DEF PCs
      <3> QED
        BY <1>2, <2>1, <2>3, <3>1 DEF Makes, backend
    <2> QED
      BY <1>4, <2>2, <2>3 DEF MintLazily
  <1>5. CASE Estimate(c)
    <2>1. UNCHANGED <<provider, pool, ledger, backend, relay>>
      BY <1>5 DEF Estimate
    <2>2. CASE Goes(c, "failed")
      <3>1. PICK r : /\ Moves(c, r) /\ Counted(r)
                     /\ r.token = calls[c].token /\ r.receipt = calls[c].receipt
                     /\ r.pc = "failed"
        BY <2>1, <2>2, GoesMoves DEF PCs
      <3> QED
        BY <1>2, <2>1, <3>1 DEF Makes, ledger, backend
    <2>3. CASE calls' = [calls EXCEPT ![c].pc = "send", ![c].request = "prompt"]
      <3> DEFINE r == [calls[c] EXCEPT !.pc = "send", !.request = "prompt"]
      <3>1. calls' = [calls EXCEPT ![c] = r] /\ r \in CallStates
        BY <1>1, <2>3 DEF CallStates, PCs, Requests
      <3>2. /\ r.token = calls[c].token /\ r.receipt = calls[c].receipt /\ r.pc = "send"
            /\ r.sent = calls[c].sent /\ r.misled = calls[c].misled
            /\ r.again = calls[c].again
        BY <1>1 DEF CallStates
      <3>3. calls[c].sent = 0
        BY <1>1, <1>5 DEF Estimate, At, Counted
      <3> HIDE DEF r
      <3>4. Counted(r)
        BY <1>1, <3>2, <3>3 DEF Counted
      <3> QED
        BY <1>2, <2>1, <3>1, <3>2, <3>4 DEF Moves, Makes, ledger, backend
    <2> QED
      BY <1>5, <2>2, <2>3 DEF Estimate
  <1>6. CASE Wait(c)
    <2>1. UNCHANGED <<provider, pool, ledger, backend, relay>>
      BY <1>6 DEF Wait
    <2>2. CASE StartPolling(c) /\ (calls[c].receipt = "done" \/ provider = "web3-v4")
      <3>1. PICK r : /\ Moves(c, r) /\ Counted(r)
                     /\ r.token = calls[c].token /\ r.receipt = calls[c].receipt
                     /\ r.pc = "poll"
        BY <2>1, <2>2, PollMoves
      <3>2. provider = "web3" => Own(c) \in made
        BY <1>1, <2>2 DEF Owned, Own
      <3> QED
        BY <1>2, <2>1, <3>1, <3>2 DEF Makes, ledger, backend
    <2>3. CASE Goes(c, "failed")
      <3>1. PICK r : /\ Moves(c, r) /\ Counted(r)
                     /\ r.token = calls[c].token /\ r.receipt = calls[c].receipt
                     /\ r.pc = "failed"
        BY <2>1, <2>3, GoesMoves DEF PCs
      <3> QED
        BY <1>2, <2>1, <3>1 DEF Makes, ledger, backend
    <2> QED
      BY <1>6, <2>2, <2>3 DEF Wait
  <1>7. CASE NotFound(c)
    <2>1. UNCHANGED <<provider, pool, ledger, backend, relay>> /\ At(c, "poll")
      BY <1>7 DEF NotFound
    <2>2. CASE Goes(c, "failed")
      <3>1. PICK r : /\ Moves(c, r) /\ Counted(r)
                     /\ r.token = calls[c].token /\ r.receipt = calls[c].receipt
                     /\ r.pc = "failed"
        BY <2>1, <2>2, GoesMoves DEF PCs
      <3> QED
        BY <1>2, <2>1, <3>1 DEF Makes, ledger, backend
    <2>3. CASE calls[c].tries > 0 /\ calls' = [calls EXCEPT ![c].tries = @ - 1]
      <3>1. calls[c].tries \in 0..Attempts /\ calls[c].tries - 1 \in 0..Attempts
        BY <1>1, <2>3, MintAssumption DEF CallStates
      <3>2. [calls[c] EXCEPT !.tries = calls[c].tries - 1]
              = [calls[c] EXCEPT !.pc = "poll", !.tries = calls[c].tries - 1]
        BY <1>1, <2>1 DEF At, CallStates
      <3>3. calls' = [calls EXCEPT ![c].pc = "poll", ![c].tries = calls[c].tries - 1]
        BY <2>3, <3>2
      <3>4. PICK r : /\ Moves(c, r) /\ Counted(r)
                     /\ r.token = calls[c].token /\ r.receipt = calls[c].receipt
                     /\ r.pc = "poll"
        BY <2>1, <3>1, <3>3, PlaceMoves DEF PCs
      <3>5. provider = "web3" => Own(c) \in made
        BY <1>1, <2>1 DEF Owned, Own, At
      <3> QED
        BY <1>2, <2>1, <3>4, <3>5 DEF Makes, ledger, backend
    <2> QED
      BY <1>7, <2>2, <2>3 DEF NotFound
  <1>8. CASE Found(c)
    <2>1. UNCHANGED <<provider, pool, ledger, backend, relay>> /\ At(c, "poll")
      BY <1>8 DEF Found
    <2>2. 0 \in 0..Attempts
      BY MintAssumption
    <2>3. calls' = [calls EXCEPT ![c].pc = "sell", ![c].tries = 0]
      BY <1>8 DEF Found
    <2>4. PICK r : /\ Moves(c, r) /\ Counted(r)
                   /\ r.token = calls[c].token /\ r.receipt = calls[c].receipt
                   /\ r.pc = "sell"
      BY <2>1, <2>2, <2>3, PlaceMoves DEF PCs
    <2>5. provider = "web3" => Own(c) \in made
      BY <1>1, <2>1 DEF Owned, Own, At
    <2>6. \E maker \in Calls : <<maker, calls[c].token>> \in made
      BY <1>8 DEF Found, MintInv, Known
    <2> QED
      BY <1>2, <2>1, <2>4, <2>5, <2>6 DEF Makes, ledger, backend
  <1>9. CASE Sell(c)
    <2>1. PICK pc \in {"sold", "failed"} : Goes(c, pc)
      BY <1>9 DEF Sell
    <2>2. UNCHANGED <<provider, pool, ledger, indexed, relay>>
      BY <1>9 DEF Sell
    <2>3. PICK r : /\ Moves(c, r) /\ Counted(r)
                   /\ r.token = calls[c].token /\ r.receipt = calls[c].receipt /\ r.pc = pc
      BY <2>1, <2>2, GoesMoves DEF PCs
    <2>4. Owned(c, r)'
      BY <1>2, <2>1, <2>2, <2>3 DEF ledger
    <2>5. offers' = offers \/ offers' = offers \cup {Own(c)}
      BY <1>9 DEF Sell
    <2> QED
      BY <1>9, <2>2, <2>3, <2>4, <2>5 DEF Makes, ledger
  <1> QED
    BY <1>3, <1>4, <1>5, <1>6, <1>7, <1>8, <1>9 DEF Proceed

\* A transaction mined.
LEMMA MineMoves ==
    ASSUME MintInv, NEW tx \in pool, Mine(tx)
    PROVE  /\ tx.call \in Calls
           /\ \E r : Moves(tx.call, r) /\ Counted(r) /\ Owned(tx.call, r)'
           /\ Makes(tx.call)
           /\ pool' \subseteq pool /\ minted' \subseteq Tokens /\ nonce' \in Nat
           /\ UNCHANGED <<provider, backend, relay>>
  <1>0. PICK c \in Calls : c = tx.call
    BY DEF MintInv, TypeOK, Transactions
  <1>1. tx.token \in Tokens /\ <<tx.call, tx.token>> = Own(c)
    BY <1>0 DEF MintInv, TypeOK, Transactions, Signed, Own
  <1>2. calls[c] \in CallStates /\ Counted(calls[c]) /\ Owned(c, calls[c])
    BY <1>1 DEF MintInv, TypeOK
  <1>3. /\ pool' \subseteq pool /\ minted' \subseteq Tokens /\ nonce' \in Nat
        /\ UNCHANGED <<provider, backend, relay>> /\ Makes(c)
    BY <1>0, <1>1 DEF Mine, Makes, ledger, MintInv, TypeOK
  <1>4. PICK receipt \in {"done", "reverted"} :
               Receives(tx, receipt) /\ (receipt = "done" => Own(c) \in made')
    BY <1>1 DEF Mine
  <1>5. \E r : Moves(c, r) /\ Counted(r) /\ Owned(c, r)'
    <2>1. CASE calls' = calls
      <3>1. calls' = [calls EXCEPT ![c] = calls[c]]
        BY <2>1 DEF MintInv, TypeOK
      <3> QED
        BY <1>2, <1>3, <3>1 DEF Moves, Owned, Makes
    <2>2. CASE calls' = [calls EXCEPT ![c].receipt = receipt]
      <3>0. PICK r : r = [calls[c] EXCEPT !.receipt = receipt]
        OBVIOUS
      <3>1. calls' = [calls EXCEPT ![c] = r] /\ r \in CallStates
        BY <1>2, <2>2, <3>0 DEF CallStates
      <3>2. /\ r.token = calls[c].token /\ r.receipt = receipt /\ r.pc = calls[c].pc
            /\ r.sent = calls[c].sent /\ r.misled = calls[c].misled
            /\ r.again = calls[c].again /\ r.request = calls[c].request
        BY <1>2, <3>0 DEF CallStates
      <3>3. Counted(r)
        BY <1>2, <3>2 DEF Counted
      <3>4. made \subseteq made'
        BY <1>3 DEF Makes
      <3>5. Owned(c, r)'
        <4>1. receipt = "done" => <<c, r.token>> \in made'
          BY <1>4, <3>2 DEF Own
        <4>2. provider' = "web3" /\ r.pc \in {"poll", "sell"} => <<c, r.token>> \in made'
          BY <1>2, <1>3, <3>2, <3>4 DEF Owned
        <4>3. r.pc = "sell" => \E maker \in Calls : <<maker, r.token>> \in made'
          BY <1>2, <3>2, <3>4 DEF Owned
        <4> QED
          BY <3>2, <4>1, <4>2, <4>3 DEF Owned
      <3> QED
        BY <1>3, <3>1, <3>2, <3>3, <3>5 DEF Moves
    <2> QED
      BY <1>0, <1>4, <2>1, <2>2 DEF Receives
  <1> QED
    BY <1>0, <1>3, <1>5

-----------------------------------------------------------------------------
(***************************************************************************)
(* The theorems.                                                           *)
(***************************************************************************)

LEMMA MintNext == MintInv /\ [Next]_vars => MintInv'
  <1> SUFFICES ASSUME MintInv, [Next]_vars PROVE MintInv'
    OBVIOUS
  <1>1. CASE \E c \in Calls : Begin(c) \/ Proceed(c)
    <2>1. PICK c \in Calls : Begin(c) \/ Proceed(c)
      BY <1>1
    <2>2. PICK r : Moves(c, r) /\ Counted(r) /\ Owned(c, r)'
      BY <2>1, ProceedMoves
    <2>3. /\ Makes(c) /\ UNCHANGED <<provider, pool, minted, nonce, indexed, relay>>
          /\ offers' = offers \/ offers' = offers \cup {Own(c)}
      BY <2>1, ProceedMoves
    <2> QED
      BY <2>2, <2>3, MovesInv DEF MintInv, TypeOK
  <1>2. CASE \E c \in Calls : Serve(c)
    <2>1. PICK c \in Calls : Serve(c)
      BY <1>2
    <2>2. PICK r : Moves(c, r) /\ Counted(r) /\ Owned(c, r)'
      BY <2>1, ServeMoves
    <2>3. /\ \A tx \in pool' \ pool :
                tx \in Transactions /\ tx.call = c /\ tx.token = calls[c].token
          /\ UNCHANGED <<provider, ledger, backend, relay>>
      BY <2>1, ServeMoves
    <2> QED
      BY <2>2, <2>3, MovesInv DEF MintInv, TypeOK, Makes, ledger, backend
  <1>3. CASE \E tx \in pool : Mine(tx)
    <2>1. PICK tx \in pool : Mine(tx)
      BY <1>3
    <2>2. PICK r : Moves(tx.call, r) /\ Counted(r) /\ Owned(tx.call, r)'
      BY <2>1, MineMoves
    <2>3. /\ tx.call \in Calls /\ Makes(tx.call)
          /\ pool' \subseteq pool /\ minted' \subseteq Tokens /\ nonce' \in Nat
          /\ UNCHANGED <<provider, backend, relay>>
      BY <2>1, MineMoves
    <2> QED
      BY <2>2, <2>3, MovesInv DEF MintInv, TypeOK, backend
  <1>4. CASE Settle \/ (\E tx \in pool : Drop(tx)) \/ UNCHANGED vars
    <2>1. /\ UNCHANGED <<provider, calls, made, minted, nonce, indexed, offers>>
          /\ pool' \subseteq pool /\ relay' \in {"starting", "ready", "failed"}
      BY <1>4 DEF Settle, Drop, ledger, backend, vars, MintInv, TypeOK
    <2> QED
      BY <2>1 DEF MintInv, TypeOK, Owned, Signed, Given, Known
  <1>5. CASE \E t \in Tokens : Index(t)
    <2>1. PICK t \in Tokens : Index(t)
      BY <1>5
    <2>2. /\ UNCHANGED <<provider, calls, pool, made, minted, nonce, offers, relay>>
          /\ indexed' = indexed \cup {t}
          /\ \E maker \in Calls : <<maker, t>> \in made
      BY <2>1 DEF Index, ledger
    <2> QED
      BY <2>2 DEF MintInv, TypeOK, Owned, Signed, Given, Known
  <1> QED
    BY <1>1, <1>2, <1>3, <1>4, <1>5 DEF Next

LEMMA MintInvariant == Spec => []MintInv
  BY MintInit, MintNext, PTL DEF Spec

\* For any number of calls, tokens and attempts: every variable has its type.
THEOREM TypeCorrect == Spec => []TypeOK
<1>1. MintInv => TypeOK
  BY DEF MintInv
<1> QED
  BY <1>1, MintInvariant, PTL

\* For any number of calls and requests, no call has two transactions on their
\* way, but for one that was asked to repeat by the error of the first, which
\* has two at most (middleware.ts:28-73, web3-v4-ethereum/src/index.ts:462-472).
THEOREM SendsOnce == Spec => []SentOnce
<1>1. MintInv => SentOnce
  BY DEF MintInv, Counted, SentOnce
<1> QED
  BY <1>1, MintInvariant, PTL

\* A step makes a call's own token, offers the one it was given, or is not seen.
LEMMA MarketStep ==
    ASSUME MintInv, [Next]_vars
    PROVE  [Market!Next]_(Market!market)
  <1> DEFINE tokens == [c \in Calls |-> calls[c].token]
  <1>1. \A c \in Calls : \A r : Moves(c, r) => UNCHANGED <<provider, tokens>>
    BY DEF Moves, MintInv, TypeOK
  <1>2. ASSUME NEW c \in Calls, Makes(c), UNCHANGED <<provider, tokens, offers>>
        PROVE  [Market!Next]_(Market!market)
    <2>1. CASE made' = made
      BY <1>2, <2>1 DEF Market!market
    <2>2. CASE made' = made \cup {Own(c)}
      BY <1>2, <2>2 DEF Market!Next, Market!Make, Own
    <2> QED
      BY <1>2, <2>1, <2>2 DEF Makes
  <1>3. CASE \E c \in Calls : Begin(c) \/ Proceed(c)
    <2>1. PICK c \in Calls : Begin(c) \/ Proceed(c)
      BY <1>3
    <2>2. UNCHANGED <<provider, tokens>> /\ Makes(c)
      BY <1>1, <2>1, ProceedMoves
    <2>3. CASE UNCHANGED offers
      BY <1>2, <2>2, <2>3
    <2>4. CASE Sell(c) /\ made' = made /\ offers' = offers \cup {Own(c)}
      <3>1. Owned(c, calls[c]) /\ calls[c].pc = "sell" /\ calls[c].token \in Tokens
        BY <2>4 DEF MintInv, TypeOK, CallStates, Sell, At
      <3>2. PICK maker \in Calls :
                   /\ <<maker, calls[c].token>> \in made
                   /\ maker = c \/ provider # "web3"
        BY <3>1 DEF Owned
      <3>3. calls[maker].token = calls[c].token
        BY <3>1, <3>2 DEF MintInv, Given
      <3>4. Market!Offer(c)
        BY <2>2, <2>4, <3>2, <3>3 DEF Market!Offer, Own
      <3> QED
        BY <3>4 DEF Market!Next
    <2> QED
      BY <2>1, <2>3, <2>4, ProceedMoves
  <1>4. CASE \E c \in Calls : Serve(c)
    <2>1. PICK c \in Calls : Serve(c)
      BY <1>4
    <2>2. UNCHANGED <<provider, tokens, made, offers>>
      BY <1>1, <2>1, ServeMoves DEF ledger, backend
    <2> QED
      BY <2>2 DEF Market!market
  <1>5. CASE \E tx \in pool : Mine(tx)
    <2>1. PICK tx \in pool : Mine(tx)
      BY <1>5
    <2>2. tx.call \in Calls /\ Makes(tx.call) /\ UNCHANGED <<provider, tokens, offers>>
      BY <1>1, <2>1, MineMoves DEF backend
    <2> QED
      BY <1>2, <2>2
  <1>6. CASE Settle \/ (\E tx \in pool : Drop(tx)) \/ (\E t \in Tokens : Index(t)) \/ UNCHANGED vars
    <2>1. UNCHANGED <<provider, calls, made, offers>>
      BY <1>6 DEF Settle, Drop, Index, ledger, backend, vars
    <2> QED
      BY <2>1 DEF Market!market
  <1> QED
    BY <1>3, <1>4, <1>5, <1>6 DEF Next

\* For any number of calls and tokens, and either provider: selling implements
\* the market. A call offers the token it was given, made by itself or, where
\* the failure of its mint goes unnoticed, by another call that was given it
\* (sdk/src/index.ts:256-268, transaction/src/ethereum/index.ts:25-34).
THEOREM Implements == Spec => ImplementsMarket
<1>1. Init => Market!Init
  <2> SUFFICES ASSUME Init PROVE Market!Init
    OBVIOUS
  <2>1. TypeOK
    BY MintInit DEF MintInv
  <2>2. [c \in Calls |-> calls[c].token] \in [Calls -> Tokens]
    BY <2>1 DEF TypeOK, CallStates
  <2> QED
    BY <2>2 DEF Init, Market!Init
<1> QED
  BY <1>1, MarketStep, MintInvariant, PTL DEF Spec, ImplementsMarket, Market!Spec

=============================================================================
