------------------------------ MODULE Bounce1d ------------------------------
(***************************************************************************)
(* src/191028/bounce1d_p.c and its homework variant hw5/hello5_revised.c:   *)
(* a message slides between the edges of the screen.  SIGALRM runs          *)
(* move_msg() on top of main(), which reads keys that reverse the message   *)
(* or change the tick.  main() never runs inside the handler and SIGALRM is *)
(* blocked during it, so move_msg() is one step between two of main()'s.    *)
(***************************************************************************)
EXTENDS Integers

CONSTANTS
    Cols, MsgLen, \* COLS and strlen(MESSAGE)
    Delays,       \* by program, the delays at start: 200, or atoi(av[1])
    IntMax,       \* INT_MAX: delay * 2 and delay + 50 wrap around above it
    MaxFlips      \* bound: how often the user presses the space bar

Programs == {"bounce1d", "hello5"}

ASSUME ScreenAssumption ==
    /\ Cols \in Nat /\ MsgLen \in Nat /\ MsgLen < Cols
    /\ IntMax \in Nat /\ IntMax >= 50 /\ MaxFlips \in Nat    \* C: at least 32767
    /\ Delays \in [Programs -> SUBSET (-IntMax..IntMax)]

VARIABLES
    program,         \* which of the two: they differ in the speed keys
    col, dir,        \* shared by main() and move_msg()
    delay,           \* main(): bigger is slower
    interval,        \* the interval timer: msecs between two SIGALRMs, 0 = off
    curses,          \* the terminal is in curses mode
    pc, key, reg,    \* main(): where it is, its c, the negated dir it is to store
    flips            \* auxiliary: how often the space bar reversed dir

vars == <<program, col, dir, delay, interval, curses, pc, key, reg, flips>>

Keys == {"faster", "slower", "space", "quit", "other"}

\* main() up to its loop.  setitimer() refuses a negative delay.
Init ==
    /\ program \in Programs
    /\ col = 0 /\ dir = 1
    /\ delay \in Delays[program]
    /\ interval = IF delay > 0 THEN delay ELSE 0
    /\ curses = TRUE
    /\ pc = "getchar" /\ key = "other" /\ reg = 0
    /\ flips = 0

-----------------------------------------------------------------------------
(* main()                                                                   *)

\* Mutant: the sign bit is lost, as in a narrower or an unsigned variable.
WrapUnsigned(n) == n % (IntMax + 1)

\* Two's complement: what is above INT_MAX comes out negative.
Wrap(n) == IF n > IntMax THEN n - 2 * (IntMax + 1) ELSE n

\* ndelay: 0 for "leave it".
NewDelay(k) ==
    CASE k = "slower" /\ program = "bounce1d"               -> Wrap(delay * 2)
      [] k = "slower" /\ program = "hello5"                 -> Wrap(delay + 50)
      [] k = "faster" /\ program = "bounce1d" /\ delay > 2  -> delay \div 2
      [] k = "faster" /\ program = "hello5"   /\ delay > 50 -> delay - 50
      [] OTHER                                              -> 0

\* getchar() returns.  Bound: the space bar is pressed MaxFlips times.
ReadKey ==
    /\ pc = "getchar"
    /\ \E k \in Keys : (k = "space" => flips < MaxFlips) /\ key' = k
    /\ pc' = [quit |-> "endwin", space |-> "load", faster |-> "retime",
               slower |-> "retime", other |-> "getchar"][key']
    /\ UNCHANGED <<program, col, dir, delay, interval, curses, reg, flips>>

\* dir = -dir is a load and a store: a tick in between may bounce the message.
LoadDir ==
    /\ pc = "load"
    /\ reg' = -dir
    /\ pc' = "store"
    /\ UNCHANGED <<program, col, dir, delay, interval, curses, key, flips>>

StoreDir ==
    /\ pc = "store"
    /\ dir' = reg
    /\ flips' = flips + 1
    /\ pc' = "getchar"
    /\ UNCHANGED <<program, col, delay, interval, curses, key, reg>>

\* if (ndelay > 0) set_ticker(delay = ndelay)
Retime ==
    /\ pc = "retime"
    /\ IF NewDelay(key) > 0
       THEN delay' = NewDelay(key) /\ interval' = delay'
       ELSE UNCHANGED <<delay, interval>>
    /\ pc' = "getchar"
    /\ UNCHANGED <<program, col, dir, curses, key, reg, flips>>

\* endwin(); the timer is left running.
EndWin ==
    /\ pc = "endwin"
    /\ curses' = FALSE
    /\ pc' = "return"
    /\ UNCHANGED <<program, col, dir, delay, interval, key, reg, flips>>

\* return from main(): the process and its timer are gone.
Return ==
    /\ pc = "return"
    /\ interval' = 0
    /\ pc' = "exited"
    /\ UNCHANGED <<program, col, dir, delay, curses, key, reg, flips>>

-----------------------------------------------------------------------------
(* The handler                                                              *)

\* col + strlen(MESSAGE) >= COLS compares size_t's: a negative sum is huge.
PastRight(c) == c + MsgLen >= Cols \/ c + MsgLen < 0

\* Mutant: off by one at the left edge.
TurnedLate(c) ==
    IF dir = -1 /\ c < 0 THEN 1 ELSE IF dir = 1 /\ PastRight(c) THEN -1 ELSE dir

\* Mutant: turn round at an edge, whichever way the message heads.
TurnedRound(c) == IF c <= 0 \/ PastRight(c) THEN -dir ELSE dir

\* The direction after a step to c: it turns only at the edge it heads for.
Turned(c) ==
    IF dir = -1 /\ c <= 0 THEN 1 ELSE IF dir = 1 /\ PastRight(c) THEN -1 ELSE dir

\* A tick and its move_msg().  After endwin(), its refresh() puts the terminal
\* into curses mode again.
MoveMsg ==
    /\ interval > 0
    /\ col' = col + dir
    /\ dir' = Turned(col')
    /\ curses' = TRUE
    /\ UNCHANGED <<program, delay, interval, pc, key, reg, flips>>

Exited == pc = "exited" /\ UNCHANGED vars

Next ==
    \/ ReadKey \/ LoadDir \/ StoreDir \/ Retime \/ EndWin \/ Return
    \/ MoveMsg \/ Exited

Spec == Init /\ [][Next]_vars

\* The timer keeps firing while it is on; main() gets some of the time between
\* two ticks; nobody is obliged to press a key.
Fairness ==
    /\ WF_vars(MoveMsg)
    /\ SF_vars(LoadDir \/ StoreDir \/ Retime \/ EndWin \/ Return)

FairSpec == Spec /\ Fairness
-----------------------------------------------------------------------------
(* Properties                                                               *)

TypeOK ==
    /\ program \in Programs
    /\ col \in Int /\ dir \in {-1, 1}
    /\ delay \in Int /\ interval \in Nat
    /\ curses \in BOOLEAN
    /\ pc \in {"getchar", "load", "store", "retime", "endwin", "return", "exited"}
    /\ key \in Keys /\ reg \in {-1, 0, 1}
    /\ (pc = "store" => reg # 0)
    /\ flips \in Nat

\* The message leaves the screen by at most one column per reversal: move_msg()
\* turns only at the edge dir heads for, so a space bar at the edge sends the
\* message one column further out at every tick.
FlipBound == -flips <= col /\ col + MsgLen <= Cols + flips

OnScreen == 0 <= col /\ col + MsgLen <= Cols

\* A message that the user drove out, and then leaves alone, comes back on the
\* screen and stays, if it was reversed at most strlen(MESSAGE) times.  Further
\* out on the left the unsigned edge test turns it at every tick.
Recovers == <>[](interval > 0 /\ flips <= MsgLen) => <>[]OnScreen

\* While the timer is on, a speed key that changes it does what it says: slower makes
\* the ticks rarer and faster makes them more frequent, and neither stops them.  The
\* product or sum that overflows must not come out as a small positive delay, which the
\* test ndelay > 0 would let pass, and main()'s delay must be the timer's
\* (bounce1d_p.c:52-58, hello5_revised.c:56-58).
SpeedKeysKeepTheirSense ==
    [][interval > 0 /\ interval' # interval /\ pc' # "exited" =>
           IF key = "slower" THEN interval' > interval ELSE interval' \in 1..interval - 1]_vars

\* README.md of the week on endwin(): "turn off curses and reset tty".  When the
\* process has ended the terminal is out of curses mode.
ExitRestoresTerminal == pc = "exited" => ~curses
=============================================================================
