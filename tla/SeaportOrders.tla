---------------------------- MODULE SeaportOrders ----------------------------
(***************************************************************************)
(* Purchases of one ERC-1155 listing on Seaport, paid in the native         *)
(* currency (packages/ethereum/sdk/src/order/fill-order/seaport.ts and      *)
(* seaport-utils).                                                          *)
(*                                                                         *)
(* A purchase reads the fill status of the order and the offerer's balance, *)
(* then computes what it asks for (a fraction of the order), what it sends  *)
(* and the origin fee it adds.  Until it is mined other purchases fill      *)
(* parts of the order, and the offerer cancels it or moves the tokens.      *)
(*                                                                         *)
(* The contract keeps how much is filled as a fraction: the first fill      *)
(* stores its own numerator and denominator, later ones rescale it and are  *)
(* cut down to what is left.                                               *)
(*                                                                         *)
(* A purchase has at most one origin fee: the parts of a list of several    *)
(* are one tip here.                                                       *)
(***************************************************************************)
EXTENDS Integers, FiniteSets

CONSTANTS
    Purchases,  \* places for purchases
    Listings,   \* the listings considered
    Fee,        \* the origin fee, in shares of Hundred
    Hundred,    \* 10000 in the code
    Duration    \* the listing's lifetime in seconds: the weight of rounding up

\* `toSeller` and `toOthers` are what a purchase of the whole costs
ListingType == [size : Nat \ {0}, toSeller : Nat \ {0}, toOthers : Nat, partial : BOOLEAN]

ASSUME SeaportAssumption ==
    /\ Listings \subseteq ListingType
    /\ Fee \in Nat
    /\ Hundred \in Nat \ {0}
    /\ Duration \in Nat \ {0}

VARIABLES
    listing,    \* the listing
    status,     \* getOrderStatus() of the contract
    stock,      \* the offerer's balance
    purchases   \* the purchases in progress

vars == <<listing, status, stock, purchases>>

(***************************************************************************)
(* pc "ask"     getTransactionData() was called                             *)
(*    "checked" the status and the balances are read and accepted           *)
(*    "built"   the call and its value are computed                         *)
(*    "sent"    gas was estimated, the transaction is sent                  *)
(*    "bought", "reverted"  how it was mined                                *)
(*    "unfunded" it reverts, or would have, for want of value               *)
(*    "refused" nothing was sent                                            *)
(* `size` is the size that was read, or computed for an order never filled; *)
(* `got` and `fee` are what the contract gave and took. What is no longer   *)
(* of use when a purchase ends is reset.                                    *)
(***************************************************************************)
Ended == {"bought", "unfunded", "reverted", "refused"}
Idle == [pc |-> "refused", via |-> "direct", units |-> 0, size |-> 0,
         tip |-> 0, value |-> 0, got |-> 0, fee |-> 0]
PurchaseStates ==
    [pc : {"ask"} \cup Ended, via : {"direct", "wrapper"}, units : Nat, size : Nat,
     tip : {0}, value : {0}, got : Nat, fee : Nat]
    \cup
    [pc : {"checked", "built", "sent"}, via : {"direct", "wrapper"}, units : Nat \ {0},
     size : Nat \ {0}, tip : Nat, value : Nat, got : {0}, fee : {0}]

TypeOK ==
    /\ listing \in Listings
    /\ status \in [filled : Nat, size : Nat, cancelled : BOOLEAN]
    /\ status.filled <= status.size
    /\ stock \in 0..listing.size
    /\ purchases \in [Purchases -> PurchaseStates]

At(p, pc) == purchases[p].pc = pc
Goes(p, pc) == purchases' = [purchases EXCEPT ![p].pc = pc]
Ends(p, pc, got, fee) ==
    purchases' = [purchases EXCEPT ![p].pc = pc, ![p].tip = 0, ![p].value = 0,
                                   ![p].got = got, ![p].fee = fee]

-----------------------------------------------------------------------------
(***************************************************************************)
(* The arithmetic.                                                         *)
(***************************************************************************)

CeilDiv(a, b) == (a + b - 1) \div b
Least(a, b) == IF a <= b THEN a ELSE b
Divides(d, n) == n % d = 0

\* gcd(): its first argument is a remainder by the one of the call before
Gcd(a, b) ==
    LET gcd[x \in 0..a] == [y \in Nat |-> IF x = 0 THEN y ELSE gcd[y % x][x]]
    IN  gcd[a][b]

Price == listing.toSeller + listing.toOthers

\* the price as the items of the order
Items == IF listing.toOthers = 0 THEN {"seller"} ELSE {"seller", "others"}
Cost(item) == IF item = "seller" THEN listing.toSeller ELSE listing.toOthers

\* getMaximumSizeForOrder(): findGcd() of every amount, one after the other (an
\* item of 0, which is left out of the order, changes nothing)
MaxUnits == Gcd(listing.toOthers, Gcd(listing.toSeller, listing.size))

\* (mutant) the fraction of the size that the contract keeps
FractionOfStatus(units) ==
    LET whole == IF status.size = 0 THEN MaxUnits ELSE status.size
        g == Gcd(units, whole) IN
    [num |-> units \div g, den |-> whole \div g]

\* getAdvancedOrderNumeratorDenominator()
Fraction(units) ==
    LET g == Gcd(units, MaxUnits) IN
    [num |-> units \div g, den |-> MaxUnits \div g]

\* (mutant) the fee of the whole order, however few units are bought, for each unit
TipPerUnit(units) == (Price * units * Fee) \div Hundred

\* convertOriginFeesToTips(): the fee of the units bought
Tip(units) == (Price * units * Fee) \div (listing.size * Hundred)

\* how many tips there are: one that rounds to 0 is an item all the same
TipItems == IF Fee = 0 THEN 0 ELSE 1

\* (mutant) the tips are not summed up with the items of the order
QuoteWithoutTips(units, size, tip, tipItems) ==
    CeilDiv(Price * units * Duration + Cardinality(Items) * (Duration - 1) * size,
            size * Duration)

\* getFulfillStandardOrderData(): what is sent along. Every item is rounded up
\* by (Duration - 1) / Duration, the sum to an integer.
Quote(units, size, tip, tipItems) ==
    LET tips == (tip * units) \div size
        items == Cardinality(Items) + tipItems IN
    CeilDiv((Price * units + tips * size) * Duration + items * (Duration - 1) * size,
            size * Duration)

\* calcValueWithFees(), and what the exchange wrapper forwards
WithFees(value) == value + (value * Fee) \div Hundred
\* (a quotient that is no finite decimal is refused too; no such part is served)
WrapperIsExact(units) == Divides(listing.size, Price * units)
WrapperAmount(units) == (Price * units) \div listing.size

-----------------------------------------------------------------------------
(***************************************************************************)
(* The contract.                                                           *)
(***************************************************************************)

\* what a request for f.num / f.den of the order fills: `num` of `den`, when
\* `before` of `den` is filled
Filling(f) ==
    LET all == f.den = 1
        whole == IF status.size = 0 THEN f.den
                 ELSE IF all \/ f.den = status.size THEN status.size
                 ELSE f.den * status.size
        before == IF status.size = 0 THEN 0
                  ELSE status.filled * (whole \div status.size) IN
    [num |-> Least(f.num * (whole \div f.den), whole - before),
     den |-> whole, before |-> before]

Open == ~status.cancelled /\ (status.size = 0 \/ status.filled < status.size)
Part(fill, amount) == (amount * fill.num) \div fill.den
Exact(fill, amount) == Divides(fill.den, amount * fill.num)
Needed(fill) == Part(fill, listing.toSeller) + Part(fill, listing.toOthers)

\* InexactFraction() otherwise
TipIsExact(p, tip) == Exact(Filling(Fraction(purchases[p].units)), tip)

\* InsufficientNativeTokensSupplied() otherwise; what is too much is given back
Funded(p) ==
    LET fill == Filling(Fraction(purchases[p].units))
        q == purchases[p] IN
    CASE q.via = "direct" -> q.value >= Needed(fill) + Part(fill, q.tip)
      [] q.via = "wrapper" -> /\ WrapperAmount(q.units) >= Needed(fill)
                              /\ q.value >= WithFees(WrapperAmount(q.units))

Accepted(p) ==
    LET f == Fraction(purchases[p].units)
        fill == Filling(f) IN
    /\ Open
    /\ f.num <= f.den
    /\ Exact(fill, listing.size)
    /\ stock >= Part(fill, listing.size)
    /\ \A item \in Items : Exact(fill, Cost(item))

-----------------------------------------------------------------------------
(***************************************************************************)
(* A purchase.                                                             *)
(***************************************************************************)

\* getUnitsToFill(): a part is asked for only of an order of a PARTIAL type
Ask(p, via, units) ==
    /\ purchases[p].pc \in Ended
    /\ units = listing.size \/ listing.partial
    /\ purchases' = [purchases EXCEPT ![p] = [Idle EXCEPT !.pc = "ask", !.via = via,
                                                          !.units = units]]
    /\ UNCHANGED <<listing, status, stock>>

\* (mutant) the size of an order never filled is 0
CheckUnset(p) ==
    LET q == purchases[p] IN
    /\ At(p, "ask")
    /\ Open
    /\ purchases' = [purchases EXCEPT ![p].pc = "checked", ![p].size = status.size]
    /\ UNCHANGED <<listing, status, stock>>

\* the status and the balances are read together: an order that is filled or
\* cancelled, or that the offerer cannot serve, is refused
Check(p) ==
    LET q == purchases[p]
        size == IF status.size = 0 THEN MaxUnits ELSE status.size
        served == Open /\ stock >= CeilDiv(listing.size * q.units, size) IN
    /\ At(p, "ask")
    /\ \/ /\ served
          /\ purchases' = [purchases EXCEPT ![p].pc = "checked", ![p].size = size]
       \/ /\ ~served
          /\ Goes(p, "refused")
    /\ UNCHANGED <<listing, status, stock>>

\* fulfillAdvancedOrder() with its value. When the estimation fails for an
\* inexact fraction, which only the tip can have, the tip is left out and the
\* value stays.
BuildDirect(p) ==
    LET q == purchases[p]
        tip == Tip(q.units)
        value == Quote(q.units, q.size, tip, TipItems)
        inexact == /\ Accepted(p)
                   /\ value >= Needed(Filling(Fraction(q.units)))
                   /\ ~TipIsExact(p, tip) IN
    /\ At(p, "checked")
    /\ q.via = "direct"
    /\ purchases' = [purchases EXCEPT ![p].pc = "built", ![p].value = value,
                                      ![p].tip = IF inexact THEN 0 ELSE tip]
    /\ UNCHANGED <<listing, status, stock>>

\* prepareSeaportExchangeData(): an amount that is no integer cannot be encoded
BuildWrapper(p) ==
    LET q == purchases[p] IN
    /\ At(p, "checked")
    /\ q.via = "wrapper"
    /\ \/ /\ WrapperIsExact(q.units)
          /\ purchases' = [purchases EXCEPT
                 ![p].pc = "built", ![p].value = WithFees(Quote(q.units, q.size, 0, 0))]
       \/ /\ ~WrapperIsExact(q.units)
          /\ Ends(p, "refused", 0, 0)
    /\ UNCHANGED <<listing, status, stock>>

Reverts(p) == ~(Accepted(p) /\ TipIsExact(p, purchases[p].tip))

\* the gas is estimated, then the wallet signs
Send(p) ==
    /\ At(p, "built")
    /\ \/ /\ Reverts(p)
          /\ Ends(p, "refused", 0, 0)
       \/ /\ ~Reverts(p) /\ ~Funded(p)
          /\ Ends(p, "unfunded", 0, 0)
       \/ /\ ~Reverts(p) /\ Funded(p)
          /\ Goes(p, "sent")
    /\ UNCHANGED <<listing, status, stock>>

\* the contract takes the fee of a direct purchase as a part of the order
Mine(p) ==
    LET q == purchases[p]
        fill == Filling(Fraction(q.units))
        got == Part(fill, listing.size)
        amount == WrapperAmount(q.units) IN
    /\ At(p, "sent")
    /\ \/ /\ ~Reverts(p) /\ Funded(p)
          /\ status' = [status EXCEPT !.filled = fill.before + fill.num, !.size = fill.den]
          /\ stock' = stock - got
          /\ Ends(p, "bought", got, IF q.via = "direct" THEN Part(fill, q.tip)
                                    ELSE WithFees(amount) - amount)
       \/ /\ ~Reverts(p) /\ ~Funded(p)
          /\ Ends(p, "unfunded", 0, 0)
          /\ UNCHANGED <<status, stock>>
       \/ /\ Reverts(p)
          /\ Ends(p, "reverted", 0, 0)
          /\ UNCHANGED <<status, stock>>
    /\ UNCHANGED listing

-----------------------------------------------------------------------------
(***************************************************************************)
(* The offerer.                                                            *)
(***************************************************************************)

Cancel ==
    /\ Open
    /\ status' = [status EXCEPT !.cancelled = TRUE]
    /\ UNCHANGED <<listing, stock, purchases>>

MoveAway ==
    /\ stock > 0
    /\ stock' = stock - 1
    /\ UNCHANGED <<listing, status, purchases>>

Init ==
    /\ listing \in Listings
    /\ status = [filled |-> 0, size |-> 0, cancelled |-> FALSE]
    /\ stock = listing.size
    /\ purchases = [p \in Purchases |-> Idle]

Purchase(p) ==
    \/ \E via \in {"direct", "wrapper"}, units \in 1..listing.size : Ask(p, via, units)
    \/ Check(p)
    \/ BuildDirect(p)
    \/ BuildWrapper(p)
    \/ Send(p)
    \/ Mine(p)

Next == (\E p \in Purchases : Purchase(p)) \/ Cancel \/ MoveAway

Spec == Init /\ [][Next]_vars

=============================================================================
