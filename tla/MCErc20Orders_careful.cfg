SPECIFICATION Spec
CONSTANTS
    c1 = c1
    Calls = {c1}
    Nobody = Nobody
    Kinds = {"bid", "buy"}
    MaxValue = 4
    MaxPending = 3
    Disturbances = {}
INVARIANTS PurchasesSucceed
PROPERTIES BidsAreBacked ApprovalsOnlyRaise
