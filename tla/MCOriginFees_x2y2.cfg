SPECIFICATION Spec
CONSTANTS
    a = a
    b = b
    Accounts = {a, b}
    Zero = Zero
    Fees = {250}
    BaseFee = 100
    Prices = {60}
    MaxOrders = 1
PROPERTIES TwoFeesAreSupported
