SPECIFICATION FairSpecAll
CONSTANTS
    Starts <- AllStarts
    MaxProcs = 5
    Capacity = 1
    MaxArgs = 3
INVARIANTS InOrder ReportsItsChild DoneMeansDone
PROPERTIES AllEnd OutputBeforeEnd NothingLost ReadsAlone EveryCommandRuns
