SPECIFICATION Spec
CONSTANTS
    N = 2
    NumAccounts = 1
    s1 = s1
    c1 = c1
    Subscribers = {s1}
    Callers = {c1}
    Mapped = {2}
    Patient = FALSE
    LocalStorage = TRUE
    MaxClears = 2

INVARIANTS SavedIsConnected
