SPECIFICATION Spec
CONSTANTS
    Cols = 5
    MsgLen = 2
    Delays <- StartDelays
    IntMax = 511
    MaxFlips = 4
INVARIANT ExitRestoresTerminal
