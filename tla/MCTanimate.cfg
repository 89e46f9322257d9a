SPECIFICATION FairSpec
CONSTANTS
    N = 2
    Room <- Rooms
    MaxKeys = 1
INVARIANTS FlipBound DrawsAlone
PROPERTIES QuitEnds ComesBack
\* The program ends.
CHECK_DEADLOCK FALSE
