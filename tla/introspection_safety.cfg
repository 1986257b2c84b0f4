CONSTANTS
    Tokens = {t1}
    Expiries = {0, 2, 3}
    Tasks = {c1, c2}
    TTL = 2
    MaxLatency = 1
    MaxSkew = 1
    MaxTime = 5
SPECIFICATION Spec
SYMMETRY TaskSymmetry
PROPERTIES RevocationTakesEffect ExpiryTakesEffect RejectedForReason
