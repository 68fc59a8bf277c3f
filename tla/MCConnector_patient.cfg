SPECIFICATION FairSpec
CONSTANTS
    N = 3
    NumAccounts = 2
    s1 = s1
    c1 = c1
    s2 = s2
    Subscribers = {s1, s2}
    Callers = {c1}
    Mapped = {2}
    Patient = TRUE
    LocalStorage = TRUE
    MaxClears = 3
INVARIANTS SavedIsConnected
PROPERTIES NoSpuriousDeselect ImplementsContract InitializationEnds LostWalletIsForgotten
