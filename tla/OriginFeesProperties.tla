------------------------ MODULE OriginFeesProperties ------------------------
(***************************************************************************)
(* What fee receivers and buyers rely on when a purchase is sent.           *)
(***************************************************************************)
EXTENDS OriginFees, FiniteSetsExt

-----------------------------------------------------------------------------
(***************************************************************************)
(* The contracts: what they pay, and to whom, for an order they are sent.   *)
(***************************************************************************)

\* basis points account gets: from the wrapper, which knows the two addresses
\* of the batch, and from the fees in the call data of a RARIBLE_V2 order
PartFee(parts, i, account) ==
    IF i \in DOMAIN parts /\ parts[i].account = account THEN parts[i].value ELSE 0
Asked(parts, account) == PartFee(parts, 1, account) + PartFee(parts, 2, account)
Wrapper(order, account) ==
    (IF addresses[1] = account THEN SentFees(order)[1] ELSE 0)
    + (IF addresses[2] = account THEN SentFees(order)[2] ELSE 0)
Paid(order, account) ==
    Wrapper(order, account)
    + (IF order.request.market = "RARIBLE_V2" THEN Asked(order.request.parts, account) ELSE 0)

\* each fee is rounded down on its own
Share(price, bp) == (price * bp) \div 10000
Cost(order) ==
    LET r == order.request IN
    IF r.market = "RARIBLE_V2"
    THEN r.price + Share(r.price, PartValue(r.parts, 1)) + Share(r.price, PartValue(r.parts, 2))
         + Share(r.price, OrderFee(r.parts) - TotalFee(r.parts))
    ELSE r.price + Share(r.price, SentFees(order)[1]) + Share(r.price, SentFees(order)[2])

-----------------------------------------------------------------------------
\* Every fee receiver is paid what its part of each request says, neither more
\* nor less, though the places of the batch go to the accounts in the order
\* they turn up, are shared by all requests, and RARIBLE_V2 orders pay their
\* fees by another way (origin-fee-reducer.ts:65-84, rarible-v2.ts:160-171).
FeesReachTheirAccount ==
    phase = "sent" =>
        \A i \in DOMAIN orders, account \in Accounts :
            Paid(orders[i], account) = Asked(orders[i].request.parts, account)

\* The amount computed for an order covers its cost, and exceeds it by no more
\* than one unit of the currency for each rounding (calcValueWithFees, addFee).
Covers(amount, cost) == amount >= cost /\ amount <= cost + 2
EveryOrderIsCovered ==
    \A i \in DOMAIN orders :
        LET order == orders[i] IN
        Covers(IF order.request.weth THEN AssetToApprove(order) ELSE OrderValue(order),
               Cost(order))

\* The purchase is funded: the ether sent and the WETH approved to each operator
\* cover what the contracts take for all its orders, to within the roundings.
TotalCost(which) ==
    LET cost == [i \in DOMAIN orders |-> Cost(orders[i])] IN
    MapThenSumSet(LAMBDA i : cost[i], which)
Funds(amount, which) ==
    /\ amount >= TotalCost(which)
    /\ amount <= TotalCost(which) + 2 * Cardinality(which)
PurchaseIsFunded ==
    phase = "sent" =>
        /\ Funds(value, {i \in DOMAIN orders : ~orders[i].request.weth})
        /\ \A m \in Approving :
             Funds(approved[m], {i \in DOMAIN orders : orders[i].request.weth
                                                      /\ orders[i].request.market = m})

\* What x2y2.ts:45 says: "x2y2 supports max up to 2 origin fee value".
TwoFeesAreSupported ==
    [][\A r \in Requests :
         (SinglePurchase(r) /\ r.market = "X2Y2" /\ Len(r.parts) <= 2) => phase' = "sent"]_vars

=============================================================================
