SPECIFICATION FairSpec
CONSTANTS
    c1 = c1
    c2 = c2
    Calls = {c1, c2}
    Nobody = Nobody
    Kinds = {"bid", "buy", "batch"}
    MaxValue = 1
    MaxPending = 3
    Disturbances = {"overlap", "timeout", "taken"}
INVARIANTS TypeOK ConfirmedBeforeUse
PROPERTIES InfiniteIsForever NoCallHangs
