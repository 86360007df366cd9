SPECIFICATION CacheSpec
CONSTANTS
    n1 = n1
    n2 = n2
    Nonces <- MCNonces
    Times <- MCTimes
    Window <- MCWindow
    MaxSkew = 2
INVARIANTS
    AcceptedAtMostOnce
    AcceptedIsRemembered
