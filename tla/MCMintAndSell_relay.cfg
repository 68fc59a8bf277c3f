SPECIFICATION FairSpec
CONSTANTS
    c1 = c1
    c2 = c2
    t1 = t1
    t2 = t2
    Calls = {c1, c2}
    Tokens = {t1, t2}
    Ids <- MCIds
    Attempts = 1
INVARIANTS TypeOK SentOnce
PROPERTIES ImplementsMarket CallsEnd
CHECK_DEADLOCK FALSE
