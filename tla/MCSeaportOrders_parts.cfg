SPECIFICATION Spec
CONSTANTS
    p1 = p1
    p2 = p2
    Purchases = {p1, p2}
    Listings <- MCListings
    Fee = 1
    Hundred = 4
    Duration = 10
SYMMETRY Symmetry
INVARIANTS TypeOK FreshQuoteCovers NeverMoreThanAsked FeeWithinRate
