------------------------------- MODULE MCBall -------------------------------
(* Small courts for TLC, and the court of bounce.h.                         *)
EXTENDS Ball

\* 3 x 4 cells; ttm from -1, two keys below the last speed, to 2.
SmallLo    == [a \in Axes |-> 0]
SmallHi    == [a \in Axes |-> IF a = "x" THEN 3 ELSE 2]
SmallStart == [a \in Axes |-> IF a = "x" THEN 0 ELSE 1]
SmallTtm   == [a \in Axes |-> IF a = "x" THEN 1 ELSE 2]
SmallTtms  == -1..2

\* The court of src/191028/bounce.h is one that the theorems of BallProofs are about.
GameLo    == [x |-> 10, y |-> 5]
GameHi    == [x |-> 70, y |-> 20]
GameStart == [x |-> 10, y |-> 10]
GameTtm   == [x |-> 5, y |-> 8]

ASSUME GameCourt ==
    \A a \in Axes : GameLo[a] <= GameStart[a] /\ GameStart[a] < GameHi[a] /\ GameTtm[a] > 0
=============================================================================
