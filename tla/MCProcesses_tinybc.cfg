SPECIFICATION FairSpecAll
CONSTANTS
    Starts <- TinyBc
    MaxProcs = 2
    Capacity = 1
    MaxArgs = 3
PROPERTY DcSeesEof
\* dc and main() wait for each other in the end.
CHECK_DEADLOCK FALSE
