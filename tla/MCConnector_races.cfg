SPECIFICATION FairSpec
CONSTANTS
    N = 2
    NumAccounts = 1
    s1 = s1
    s2 = s2
    c1 = c1
    c2 = c2
    Subscribers = {s1, s2}
    Callers = {c1, c2}
    Mapped = {2}
    Patient = FALSE
    LocalStorage = FALSE
    MaxClears = 2
INVARIANTS TypeOK ViewTracksWallet NoGhostProvider
PROPERTIES UnloadKeepsSaved SelectionIsShown
