------------------------------ MODULE OriginFees ------------------------------
(***************************************************************************)
(* Origin fees of purchases made through the exchange wrapper               *)
(* (packages/ethereum/sdk, src/order/fill-order).  The wrapper is given two *)
(* fee addresses for a whole batch and, with each order, two fees packed in *)
(* one number.  OriginFeeReducer gives every fee receiver of the batch one  *)
(* of the two places, while other functions compute, each on its own, what  *)
(* to approve and how much ether to send.                                   *)
(***************************************************************************)
EXTENDS Integers, Sequences

CONSTANTS
    Accounts,   \* fee receivers
    Zero,       \* EVM_ZERO_ADDRESS
    Fees,       \* values of the fee parts, in basis points
    BaseFee,    \* the protocol's fee on RARIBLE_V2 orders, getBaseFee()
    Prices,     \* what an order costs before fees
    MaxOrders   \* bound: orders in a batch

\* a fee to the zero address would share the first place with the next one
ASSUME FeesAssumption ==
    /\ Zero \notin Accounts
    /\ Fees \subseteq 0..10000
    /\ BaseFee \in 0..10000
    /\ Prices \subseteq Nat
    /\ MaxOrders \in Nat \ {0}

VARIABLES
    phase,      \* "prepare", "data", "sent" or "failed"
    addresses,  \* OriginFeeReducer.addresses
    orders,     \* preparedOrders
    approved,   \* the WETH to approve: RARIBLE_V2 to the transfer proxy,
                \* SEAPORT_V1 to the wrapper
    ready,      \* indices of the orders whose call data is there
    value       \* totalValue, the ether sent along

vars == <<phase, addresses, orders, approved, ready, value>>

\* LOOKSRARE stands for AMM too
Markets == {"RARIBLE_V2", "SEAPORT_V1", "X2Y2", "LOOKSRARE", "LOOKSRARE_V2"}
Part == [account : Accounts, value : Fees]
\* only these two are paid in WETH, and only these have assets to approve: the
\* price of another market's order may be in WETH, but what is sent is ether
Approving == {"RARIBLE_V2", "SEAPORT_V1"}

PartLists == UNION {[1..n -> Part] : n \in 0..3}
\* `weth` tells what the order is paid in
Requests == {r \in [market : Markets, weth : BOOLEAN, price : Prices, parts : PartLists] :
               r.weth => r.market \in Approving}

TypeOK ==
    /\ phase \in {"prepare", "data", "sent", "failed"}
    /\ addresses \in [1..2 -> Accounts \cup {Zero}]
    /\ orders \in Seq([request : {r \in Requests : Len(r.parts) <= 2}, fees : Nat, total : Nat])
    /\ approved \in [Approving -> Nat]
    /\ ready \subseteq DOMAIN orders
    /\ value \in Nat

-----------------------------------------------------------------------------
(***************************************************************************)
(* Numbers.                                                                *)
(***************************************************************************)

\* two fees of four hexadecimal digits
Base == 65536
PackFees(first, second) == first * Base + second
Packed(fees) == <<fees \div Base, fees % Base>>

CalcValueWithFees(price, bp) == (bp * price) \div 10000 + price
AddFee(price, fee) == (price * (fee + 10000)) \div 10000

\* of at most two parts
PartValue(parts, i) == IF i \in DOMAIN parts THEN parts[i].value ELSE 0

\* (mutant) one fee is forgotten
TotalFeeFirst(parts) == PartValue(parts, 1)

TotalFee(parts) == PartValue(parts, 1) + PartValue(parts, 2)

\* the protocol takes its fee when the inverted order is a V3 one
OrderFee(parts) == TotalFee(parts) + (IF TotalFee(parts) # 0 THEN BaseFee ELSE 0)

-----------------------------------------------------------------------------
(***************************************************************************)
(* OriginFeeReducer.                                                       *)
(***************************************************************************)

\* (mutant) the second place is not protected
SlotOverwrites(places, account) ==
    IF account = places[1] THEN 1
    ELSE IF account = places[2] THEN 2
    ELSE IF places[1] = Zero THEN 1 ELSE 2

\* the place of an account, an old one or a new one; 0 if there is none
Slot(places, account) ==
    IF account = places[1] THEN 1
    ELSE IF account = places[2] THEN 2
    ELSE IF places[1] = Zero THEN 1
    ELSE IF places[2] = Zero THEN 2 ELSE 0

\* acc: the places and the fees so far, and whether there was room
ReducePart(acc, part) ==
    LET s == Slot(acc.places, part.account) IN
    IF ~acc.fits \/ s = 0 THEN [acc EXCEPT !.fits = FALSE]
    ELSE [places |-> [acc.places EXCEPT ![s] = part.account],
          fees |-> [acc.fees EXCEPT ![s] = @ + part.value],
          fits |-> TRUE]

\* (mutant) more than two parts are not refused
ReduceAny(places, parts) ==
    LET start == [places |-> places, fees |-> [i \in 1..2 |-> 0], fits |-> TRUE]
        one == ReducePart(start, parts[1]) IN
    IF parts = <<>> THEN start
    ELSE IF Len(parts) = 1 THEN one
    ELSE ReducePart(one, parts[2])

\* the parts of a request, more than two of which are refused
Reduce(places, parts) ==
    LET start == [places |-> places, fees |-> [i \in 1..2 |-> 0], fits |-> Len(parts) <= 2]
        one == ReducePart(start, parts[1]) IN
    IF parts = <<>> THEN start
    ELSE IF Len(parts) = 1 THEN one
    ELSE ReducePart(one, parts[2])

-----------------------------------------------------------------------------
(***************************************************************************)
(* What an order adds to the purchase.                                     *)
(***************************************************************************)

\* the fees the wrapper is told to pay for an order
SentFees(order) ==
    IF order.request.market = "RARIBLE_V2" THEN <<0, 0>> ELSE Packed(order.fees)

\* its options.value
OrderValue(order) ==
    LET r == order.request IN
    IF r.weth THEN 0
    ELSE IF r.market = "RARIBLE_V2" THEN AddFee(r.price, OrderFee(r.parts))
    ELSE CalcValueWithFees(r.price, TotalFee(r.parts))

\* getAssetToApprove()
AssetToApprove(order) ==
    LET r == order.request IN
    IF r.market = "RARIBLE_V2" THEN AddFee(r.price, OrderFee(r.parts))
    ELSE CalcValueWithFees(r.price, order.total)

-----------------------------------------------------------------------------
(***************************************************************************)
(* A batch.  Each call has a reducer of its own.                            *)
(***************************************************************************)

\* one request of the list; Promise.all fails when one of them does.  The
\* sums by operator are taken when all are there; here they grow along.
Prepare(r) ==
    /\ phase = "prepare" /\ Len(orders) < MaxOrders
    /\ LET acc == Reduce(addresses, r.parts)
           order == [request |-> r, fees |-> PackFees(acc.fees[1], acc.fees[2]),
                     total |-> acc.fees[1] + acc.fees[2]] IN
       /\ addresses' = acc.places
       /\ IF acc.fits
          THEN /\ orders' = Append(orders, order)
               /\ approved' = IF r.weth
                              THEN [approved EXCEPT ![r.market] = @ + AssetToApprove(order)]
                              ELSE approved
               /\ UNCHANGED phase
          ELSE /\ phase' = "failed"
               /\ UNCHANGED <<orders, approved>>
    /\ UNCHANGED <<ready, value>>

\* the approvals are sent and the first step is over
Approve ==
    /\ phase = "prepare" /\ orders # <<>>
    /\ phase' = "data"
    /\ UNCHANGED <<addresses, orders, approved, ready, value>>

\* a LOOKSRARE_V2 order takes one part
Accepted(r) == r.market = "LOOKSRARE_V2" => Len(r.parts) <= 1

\* (mutant) the total is read before the await
OrderDataLost(i) ==
    /\ phase = "data" /\ i \in DOMAIN orders \ ready
    /\ Accepted(orders[i].request)
    /\ ready' = ready \cup {i}
    /\ value' = OrderValue(orders[i])
    /\ UNCHANGED <<phase, addresses, orders, approved>>

\* the data of one order has come; they come in any order
OrderData(i) ==
    /\ phase = "data" /\ i \in DOMAIN orders \ ready
    /\ Accepted(orders[i].request)
    /\ ready' = ready \cup {i}
    /\ value' = value + OrderValue(orders[i])
    /\ UNCHANGED <<phase, addresses, orders, approved>>

\* bulkPurchase() is sent with all of it
BulkPurchase ==
    /\ phase = "data" /\ ready = DOMAIN orders
    /\ phase' = "sent"
    /\ UNCHANGED <<addresses, orders, approved, ready, value>>

\* an API, the wallet or the gas estimation fails, or an order is not accepted
Throw ==
    /\ phase \in {"prepare", "data"}
    /\ phase' = "failed"
    /\ UNCHANGED <<addresses, orders, approved, ready, value>>

-----------------------------------------------------------------------------
\* A single purchase through the wrapper has no reducer: the parts take the
\* places as they come.  (RARIBLE_V2 and SEAPORT_V1 orders are bought without
\* the wrapper then.)
SinglePurchase(r) ==
    /\ phase = "prepare" /\ orders = <<>>
    /\ r.market \in {"X2Y2", "LOOKSRARE", "LOOKSRARE_V2"}
    /\ LET most == IF r.market = "LOOKSRARE" THEN 2 ELSE 1
           order == [request |-> r,
                     fees |-> PackFees(PartValue(r.parts, 1), PartValue(r.parts, 2)),
                     total |-> TotalFee(r.parts)] IN
       IF Len(r.parts) > most
       THEN /\ phase' = "failed"
            /\ UNCHANGED <<addresses, orders, ready, value>>
       ELSE /\ phase' = "sent"
            /\ addresses' = [i \in 1..2 |-> IF i \in DOMAIN r.parts
                                            THEN r.parts[i].account ELSE Zero]
            /\ orders' = <<order>>
            /\ ready' = {1}
            /\ value' = OrderValue(order)
    /\ UNCHANGED approved

-----------------------------------------------------------------------------
Init ==
    /\ phase = "prepare"
    /\ addresses = [i \in 1..2 |-> Zero]
    /\ orders = <<>>
    /\ approved = [m \in Approving |-> 0]
    /\ ready = {}
    /\ value = 0

\* the next call of buy()
Again ==
    /\ phase \in {"sent", "failed"}
    /\ phase' = "prepare"
    /\ addresses' = [i \in 1..2 |-> Zero]
    /\ orders' = <<>>
    /\ approved' = [m \in Approving |-> 0]
    /\ ready' = {}
    /\ value' = 0

Next ==
    \/ \E r \in Requests : Prepare(r) \/ SinglePurchase(r)
    \/ Approve
    \/ \E i \in DOMAIN orders : OrderData(i)
    \/ BulkPurchase \/ Throw \/ Again

Spec == Init /\ [][Next]_vars

=============================================================================
