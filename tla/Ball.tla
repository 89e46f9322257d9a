-------------------------------- MODULE Ball --------------------------------
(***************************************************************************)
(* src/191028/bounce2d.c: a ball bounces in a court.  main() blocks in      *)
(* getchar() and changes the speed of the ball; SIGALRM, sent by an         *)
(* interval timer, runs ball_move() on top of main().                       *)
(*                                                                          *)
(* One flow of control: while the handler runs (hpc # "idle") main() does   *)
(* not.  The axes "x" and "y" are treated alike by the code, so each field  *)
(* of struct ppball is a function on Axes.                                  *)
(***************************************************************************)
EXTENDS Integers

CONSTANTS
    Lo, Hi,     \* LEFT_EDGE/TOP_ROW and RIGHT_EDGE/BOT_ROW, by axis
    Start,      \* X_INIT, Y_INIT
    TtmInit,    \* X_TTM, Y_TTM
    Ttms        \* bound: the values of x_ttm and y_ttm a behaviour may reach

Axes == {"x", "y"}

\* bounce.h: the ball starts inside the court, short of the far walls
\* (dir = 1 on both axes), with positive speeds.
ASSUME CourtAssumption ==
    /\ Lo \in [Axes -> Int] /\ Hi \in [Axes -> Int] /\ Start \in [Axes -> Int]
    /\ \A a \in Axes : Lo[a] <= Start[a] /\ Start[a] < Hi[a]
    /\ TtmInit \in [Axes -> Int]
    /\ \A a \in Axes : TtmInit[a] > 0
    /\ Ttms \subseteq Int
    /\ \A a \in Axes : TtmInit[a] \in Ttms

VARIABLES
    pos, dir, ttm, ttg,   \* the_ball
    screen,               \* the cells of the court that hold the symbol
    curses,               \* between initscr() and endwin()
    pc, key, reg,         \* main(): where it is, its c, the new value of a ttm
    hpc,                  \* ball_move(): "idle" when it is not running
    action,               \* the disposition of SIGALRM
    ticking, pending      \* the interval timer runs; a SIGALRM is pending

ballVars == <<pos, dir, ttm, ttg>>
mainVars == <<pc, key, reg>>
sigVars  == <<hpc, action, ticking, pending>>
vars     == <<ballVars, screen, curses, mainVars, sigVars>>

AxisOf == [k \in {"f", "s", "F", "S"} |-> IF k \in {"f", "s"} THEN "x" ELSE "y"]
Keys   == DOMAIN AxisOf \cup {"Q", "other"}

Init ==
    /\ pos = [a \in Axes |-> 0] /\ dir = pos /\ ttm = pos /\ ttg = pos
    /\ screen = {} /\ curses = FALSE
    /\ pc = "set_up" /\ key = "other" /\ reg = 0
    /\ hpc = "idle" /\ action = "default" /\ ticking = FALSE /\ pending = FALSE

-----------------------------------------------------------------------------
(* main() and the functions it calls.                                       *)

\* set_up() up to the first refresh().
SetUp ==
    /\ pc = "set_up"
    /\ pos' = Start
    /\ ttg' = TtmInit /\ ttm' = TtmInit
    /\ dir' = [a \in Axes |-> 1]
    /\ curses' = TRUE
    /\ screen' = {Start}
    /\ pc' = "arm"
    /\ UNCHANGED <<key, reg, sigVars>>

\* The end of set_up(): signal(SIGALRM, ball_move); set_ticker(...).
StartTicker ==
    /\ pc = "arm"
    /\ action' = "ball_move" /\ ticking' = TRUE
    /\ pc' = "getchar"
    /\ UNCHANGED <<ballVars, screen, curses, key, reg, hpc, pending>>

\* The ttm that key k asks for: f and F subtract one, s and S add one.
Requested(k) == ttm[AxisOf[k]] + (IF k \in {"f", "F"} THEN -1 ELSE 1)

\* Mutant: Q leaves by endwin() alone, as in bounce1d_p.c.
DispatchNoStop(k) == IF k = "Q" THEN "endwin" ELSE IF k = "other" THEN "getchar" ELSE "load"

\* Where c takes the main loop.
Dispatch(k) == IF k = "Q" THEN "wrap_up" ELSE IF k = "other" THEN "getchar" ELSE "load"

\* getchar() returns; "other" is any other key, and EOF, which the loop ignores.
\* Bound: the user asks only for speeds in Ttms.
ReadKey ==
    /\ pc = "getchar" /\ hpc = "idle"
    /\ \E k \in Keys : /\ k \in DOMAIN AxisOf => Requested(k) \in Ttms
                       /\ key' = k
    /\ pc' = Dispatch(key')
    /\ UNCHANGED <<ballVars, screen, curses, reg, sigVars>>

\* x_ttm-- and its like are a load and a store; the handler may run between.
LoadTtm ==
    /\ pc = "load" /\ hpc = "idle"
    /\ reg' = Requested(key)
    /\ pc' = "store"
    /\ UNCHANGED <<ballVars, screen, curses, key, sigVars>>

StoreTtm ==
    /\ pc = "store" /\ hpc = "idle"
    /\ ttm' = [ttm EXCEPT ![AxisOf[key]] = reg]
    /\ pc' = "getchar"
    /\ UNCHANGED <<pos, dir, ttg, screen, curses, key, reg, sigVars>>

\* wrap_up(): set_ticker(0) ...
StopTicker ==
    /\ pc = "wrap_up" /\ hpc = "idle"
    /\ ticking' = FALSE
    /\ pc' = "endwin"
    /\ UNCHANGED <<ballVars, screen, curses, key, reg, hpc, action, pending>>

\* ... then endwin().  A SIGALRM that was pending when setitimer() was called
\* is delivered before the call returns, hence the guard on pending.
EndWin ==
    /\ pc = "endwin" /\ hpc = "idle" /\ ~pending
    /\ curses' = FALSE
    /\ pc' = "return"
    /\ UNCHANGED <<ballVars, screen, key, reg, sigVars>>

\* return 0: the process and its timer are gone.
Return ==
    /\ pc = "return" /\ hpc = "idle"
    /\ ticking' = FALSE /\ pending' = FALSE
    /\ pc' = "done"
    /\ UNCHANGED <<ballVars, screen, curses, key, reg, hpc, action>>

Main ==
    \/ SetUp \/ StartTicker \/ ReadKey \/ LoadTtm \/ StoreTtm
    \/ StopTicker \/ EndWin \/ Return

-----------------------------------------------------------------------------
(* The timer and the handler.                                               *)

\* The timer expires.  Pending signals do not queue, and under SIG_IGN the
\* signal is thrown away; neither changes the state.
Tick ==
    /\ ticking /\ action = "ball_move" /\ ~pending
    /\ pending' = TRUE
    /\ UNCHANGED <<ballVars, screen, curses, mainVars, hpc, action, ticking>>

\* Delivery, and signal(SIGALRM, SIG_IGN).  SIGALRM stays blocked until the
\* handler returns.
EnterBallMove ==
    /\ pending /\ hpc = "idle" /\ pc # "done"
    /\ pending' = FALSE
    /\ action' = "ignore"
    /\ hpc' = "move"
    /\ UNCHANGED <<ballVars, screen, curses, mainVars, ticking>>

\* ttm > 0 && ttg == 1: this tick moves the ball on axis a.
Due(a) == ttm[a] > 0 /\ ttg[a] = 1

\* Mutant: one else-if chain for both axes, so only one of them turns in a corner.
BouncedElse(p) ==
    [a \in Axes |-> IF a = "x" /\ p["y"] \in {Lo["y"], Hi["y"]} THEN dir[a]
                    ELSE IF p[a] = Lo[a] THEN 1 ELSE IF p[a] = Hi[a] THEN -1 ELSE dir[a]]

\* bounce_or_lose() for a ball at p.
Bounced(p) ==
    [a \in Axes |-> IF p[a] = Lo[a] THEN 1 ELSE IF p[a] = Hi[a] THEN -1 ELSE dir[a]]

\* Mutant: the old cell is not blanked.
RedrawnOver(p) == screen \cup {p}

\* The old cell is blanked and the symbol drawn at p.
Redrawn(p) == (screen \ {pos}) \cup {p}

\* The body of ball_move(): step each axis that is due, redraw, bounce.
MoveBall ==
    /\ hpc = "move"
    /\ pos' = [a \in Axes |-> IF Due(a) THEN pos[a] + dir[a] ELSE pos[a]]
    /\ ttg' = [a \in Axes |-> IF Due(a) THEN ttm[a]
                              ELSE IF ttm[a] > 0 THEN ttg[a] - 1 ELSE ttg[a]]
    /\ IF \E a \in Axes : Due(a)
       THEN /\ screen' = Redrawn(pos')
            /\ dir' = Bounced(pos')
       ELSE UNCHANGED <<screen, dir>>
    /\ hpc' = "leave"
    /\ UNCHANGED <<ttm, curses, mainVars, action, ticking, pending>>

\* Mutant: the handler is not installed again.
RearmNot ==
    /\ hpc = "leave"
    /\ hpc' = "idle"
    /\ UNCHANGED <<ballVars, screen, curses, mainVars, action, ticking, pending>>

\* signal(SIGALRM, ball_move) ...
Rearm ==
    /\ hpc = "leave" /\ action = "ignore"
    /\ action' = "ball_move"
    /\ UNCHANGED <<ballVars, screen, curses, mainVars, hpc, ticking, pending>>

\* ... and the return, which unblocks SIGALRM.
LeaveBallMove ==
    /\ hpc = "leave" /\ action = "ball_move"
    /\ hpc' = "idle"
    /\ UNCHANGED <<ballVars, screen, curses, mainVars, action, ticking, pending>>

Handler == EnterBallMove \/ MoveBall \/ Rearm \/ LeaveBallMove

Finished == pc = "done" /\ UNCHANGED vars

Next == Main \/ Tick \/ Handler \/ Finished

Spec == Init /\ [][Next]_vars

\* The timer keeps firing while it is armed and a delivered signal runs its
\* handler to the end.  main(), when it is not blocked in getchar(), gets some
\* of the 20 ms between two ticks: strong fairness, because every tick
\* disables it for the time of one handler.  Nobody is obliged to press a key.
Fairness ==
    /\ WF_vars(Tick) /\ WF_vars(Handler)
    /\ SF_vars(SetUp \/ StartTicker \/ LoadTtm \/ StoreTtm \/ StopTicker \/ EndWin \/ Return)

FairSpec == Spec /\ Fairness
-----------------------------------------------------------------------------
(* Properties.                                                              *)

Cells == [Axes -> Int]

TypeOK ==
    /\ pos \in Cells /\ dir \in [Axes -> {-1, 0, 1}]
    /\ ttm \in [Axes -> Int] /\ ttg \in [Axes -> Int]
    /\ screen \in SUBSET Cells /\ curses \in BOOLEAN
    /\ pc \in {"set_up", "arm", "getchar", "load", "store", "wrap_up", "endwin", "return", "done"}
    /\ pc \in {"load", "store"} => key \in DOMAIN AxisOf
    /\ key \in Keys /\ reg \in Int
    /\ hpc \in {"idle", "move", "leave"}
    /\ action \in {"default", "ignore", "ball_move"}
    /\ ticking \in BOOLEAN /\ pending \in BOOLEAN

IsSetUp == pc # "set_up"

\* The ball never leaves the court, whatever keys arrive between ticks: the
\* walls are tested with == only, so one cell too far and it would never come back.
InCourt == IsSetUp => \A a \in Axes : pos[a] \in Lo[a]..Hi[a]

\* On a wall the ball always heads back inside, and it always has a direction.
HeadsInside ==
    IsSetUp => \A a \in Axes :
        /\ dir[a] \in {-1, 1}
        /\ pos[a] = Lo[a] => dir[a] = 1
        /\ pos[a] = Hi[a] => dir[a] = -1

\* A countdown never runs through zero: ttg-- == 1 would not be true again
\* for 2^32 ticks.  It is reloaded from ttm, which the keys change at any time.
CountdownLives == IsSetUp => \A a \in Axes : ttg[a] >= 1

\* The old cell is erased with the same coordinates it was drawn at: there is
\* one symbol on the screen, where the_ball says it is.
OneBall == IsSetUp => screen = {pos}

\* ball_move() draws only between initscr() and endwin(): the timer is
\* started last and stopped first.
DrawsInsideCurses == hpc # "idle" => curses /\ action # "default"

\* A component whose ttm stays positive visits both its walls for ever: no
\* sequence of speed keys wedges the ball.
KeepsBouncing ==
    \A a \in Axes :
        <>[](curses /\ ttm[a] > 0) =>
            []<>(pos[a] = Lo[a]) /\ []<>(pos[a] = Hi[a])
=============================================================================
