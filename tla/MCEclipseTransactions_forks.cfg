SPECIFICATION FairSpec
CONSTANTS
    c1 = c1
    c2 = c2
    Calls = {c1, c2}
    Nobody = Nobody
    a1 = a1
    Addresses = {a1}
    Nowhere = Nowhere
    MaxAmount = 2
    Retries = 1
INVARIANTS TypeOK VerdictIsTrue NoDoubleTrade ConfirmedIsFinal
PROPERTIES SubmissionsEnd
