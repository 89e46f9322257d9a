SPECIFICATION FairSpec
CONSTANTS
    Cols = 5
    MsgLen = 2
    Delays <- StartDelays
    IntMax = 511
    MaxFlips = 4
INVARIANTS FlipBound
PROPERTIES SpeedKeysKeepTheirSense Recovers
