----------------------- MODULE SeaportOrdersProperties -----------------------
(***************************************************************************)
(* What buyers of a part of a Seaport listing rely on.                      *)
(***************************************************************************)
EXTENDS SeaportOrders

\* a unit is the least part the contract can fill
Divisible == MaxUnits = listing.size

\* What is still for sale, in units.
Unsold == IF status.size = 0 THEN listing.size
          ELSE (listing.size * (status.size - status.filled)) \div status.size

\* A purchase computed from a status that was not rescaled beyond the units is
\* never short of value, whatever parts others fill before it is mined, and
\* with its tip left out or kept (fulfill-standard.ts:81-88, 126-158).  The
\* wrapper, which is told the price of the units, also needs the units to be
\* the least parts (seaport-wrapper-utils.ts:125-142); an order that is sold as
\* a whole only, neither.
FreshQuoteCovers ==
    \A p \in Purchases :
        At(p, "unfunded") =>
            /\ listing.partial
            /\ \/ purchases[p].size > MaxUnits
               \/ purchases[p].via = "wrapper" /\ ~Divisible

\* Nobody receives, and pays for, more units than were asked for, however the
\* contract rescales and cuts the fraction (fulfill.ts:203-218).
NeverMoreThanAsked ==
    \A p \in Purchases : Divisible => purchases[p].got <= purchases[p].units

\* The origin fee is never more than its share of the price of the units asked
\* for, even when the purchase is cut down or is a part (seaport.ts:127-138,
\* map-tips.ts:5-24).
FeeWithinRate ==
    \A p \in Purchases :
        purchases[p].fee * listing.size * Hundred <= Price * purchases[p].units * Fee

\* "We adjust the order by the minimum of the amount to fill and the remaining
\* order left to be fulfilled" (fulfill-standard.ts:42-43): the value sent for a
\* part covers the price of what is asked for and still there.
QuoteCoversRemainder ==
    \A p \in Purchases :
        At(p, "checked") /\ Divisible =>
          Quote(purchases[p].units, purchases[p].size, 0, 0) * listing.size >=
            Price * Least(purchases[p].units, Unsold)

=============================================================================
