SPECIFICATION FairSpec
CONSTANTS
    Programs = {"async", "aio"}
    Cols = 3
    MsgLen = 1
    TypeAhead = TRUE
    MaxKeys = 2
INVARIANTS NeverBlocks FlipBound
PROPERTIES KeysInOrder DoneExits AioHandlesEveryKey
