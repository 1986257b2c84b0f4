CONSTANTS
    Callers = {c1, c2, c3}
    Lifetimes = {2, 5}
    Margin = 3
    MaxLatency = 1
    MaxTime = 2
    MaxRotations = 1
SPECIFICATION FairSpec
INVARIANT NoWastedMint
PROPERTIES ReturnsLiveToken NextTokenIsFresh EveryCallEnds
CHECK_DEADLOCK FALSE
