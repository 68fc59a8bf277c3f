SPECIFICATION Spec
CONSTANTS
    a = a
    b = b
    c = c
    Accounts = {a, b, c}
    Zero = Zero
    Fees = {0, 250}
    BaseFee = 100
    Prices = {60}
    MaxOrders = 2
SYMMETRY Symmetry
INVARIANTS TypeOK FeesReachTheirAccount EveryOrderIsCovered PurchaseIsFunded
