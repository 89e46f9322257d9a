SPECIFICATION FairSpec
CONSTANTS
    Lo <- SmallLo
    Hi <- SmallHi
    Start <- SmallStart
    TtmInit <- SmallTtm
    Ttms <- SmallTtms
INVARIANTS InCourt OneBall DrawsInsideCurses
PROPERTY KeepsBouncing
