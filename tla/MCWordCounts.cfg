SPECIFICATION MCSpec
CONSTANTS
    Counters = {"t1", "t2"}
    Asked <- TwoFiles
    Words <- SameCount
    MaxLen = 5
    MaxThreads = 3
INVARIANTS NeverNull BufferOutlivesReaders CountsInnerWords
PROPERTIES NoOverwrite AllReported ImplementsReports
