------------------------------ MODULE Tanimate ------------------------------
(***************************************************************************)
(* tanimate_p.c: a thread for each message moves it along its row, and main() *)
(* reverses messages when their keys are typed.  The mutex mx is held while a *)
(* thread draws, and protects nothing else: dir is read and written by both.  *)
(***************************************************************************)
EXTENDS Integers, Sequences

CONSTANTS
    N,         \* num_msg
    Room,      \* by message: COLS - len
    MaxKeys    \* bound: how many keys are typed before Q

Ids == 1..N

\* rand() % (COLS - len - 3) needs a screen that is wider than the message.
RoomAssumption == N \in Nat \ {0} /\ MaxKeys \in Nat /\ Room \in [Ids -> Nat] /\ \A m \in Ids : Room[m] > 3
ASSUME RoomAssumption

Nobody == 0
Main   == N + 1

VARIABLES
    pc,        \* where main() is
    made,      \* how many threads there are
    todo,      \* the messages that the last key has still to reverse
    reg,       \* the dir that main() has read and not yet written
    keys,      \* how many keys were typed
    mx,        \* who holds the mutex
    curses,    \* the terminal is in curses mode
    at,        \* by message: where its thread is in animate()
    col,       \* by message: its column
    dir,       \* by message: 1 or -1
    flips      \* history: how often main() has stored each dir

mainVars == <<pc, made, todo, reg, keys>>
ballVars == <<col, dir, flips>>
vars     == <<mainVars, mx, curses, at, ballVars>>

Init ==
    /\ pc = "create" /\ made = 0 /\ todo = <<>> /\ reg = 0 /\ keys = 0
    /\ mx = Nobody /\ curses = TRUE
    /\ at = [m \in Ids |-> "none"]
    /\ col \in [Ids -> UNION {0..Room[m] - 4 : m \in Ids}] /\ \A m \in Ids : col[m] < Room[m] - 3
    /\ dir \in [Ids -> {-1, 1}]
    /\ flips = [m \in Ids |-> 0]

-----------------------------------------------------------------------------
(* main()                                                                   *)

Create ==
    /\ pc = "create" /\ made < N
    /\ made' = made + 1
    /\ at' = [at EXCEPT ![made + 1] = "sleep"]
    /\ UNCHANGED <<pc, todo, reg, keys, mx, curses, ballVars>>

\* main() gives up and leaves the threads running.
CreateFails ==
    /\ pc = "create" /\ made < N
    /\ pc' = "return" /\ curses' = FALSE
    /\ UNCHANGED <<made, todo, reg, keys, mx, at, ballVars>>

AllCreated ==
    /\ pc = "create" /\ made = N /\ pc' = "input"
    /\ UNCHANGED <<made, todo, reg, keys, mx, curses, at, ballVars>>

\* The space bar reverses all messages, a digit its own; other keys none.
Reversals == {[m \in Ids |-> m], <<>>} \cup {<<m>> : m \in Ids}

Key ==
    /\ pc = "input" /\ todo = <<>> /\ keys < MaxKeys
    /\ keys' = keys + 1
    /\ todo' \in Reversals
    /\ UNCHANGED <<pc, made, reg, mx, curses, at, ballVars>>

Quit ==
    /\ pc = "input" /\ todo = <<>> /\ pc' = "lock"
    /\ UNCHANGED <<made, todo, reg, keys, mx, curses, at, ballVars>>

\* props[i].dir = -props[i].dir is a read ...
LoadDir ==
    /\ pc = "input" /\ todo # <<>> /\ pc' = "store"
    /\ reg' = dir[Head(todo)]
    /\ UNCHANGED <<made, todo, keys, mx, curses, at, ballVars>>

\* ... and a write.
StoreDir ==
    /\ pc = "store" /\ pc' = "input"
    /\ dir' = [dir EXCEPT ![Head(todo)] = -reg]
    /\ flips' = [flips EXCEPT ![Head(todo)] = @ + 1]
    /\ todo' = Tail(todo)
    /\ UNCHANGED <<made, reg, keys, mx, curses, at, col>>

\* Mutant: the mutex is not taken.
LockMxNot ==
    /\ pc = "lock" /\ pc' = "cancel"
    /\ UNCHANGED <<made, todo, reg, keys, mx, curses, at, ballVars>>

LockMx ==
    /\ pc = "lock" /\ mx = Nobody
    /\ pc' = "cancel" /\ mx' = Main
    /\ UNCHANGED <<made, todo, reg, keys, curses, at, ballVars>>

\* All threads are told to end, and do when they come to usleep().
EndWin ==
    /\ pc = "cancel" /\ pc' = "return" /\ curses' = FALSE
    /\ UNCHANGED <<made, todo, reg, keys, mx, at, ballVars>>

\* The process ends, and its threads with it.
Return ==
    /\ pc = "return" /\ pc' = "exited"
    /\ UNCHANGED <<made, todo, reg, keys, mx, curses, at, ballVars>>

-----------------------------------------------------------------------------
(* animate()                                                                *)

Goes(m, from, to) == pc # "exited" /\ at[m] = from /\ at' = [at EXCEPT ![m] = to]

\* usleep() returns.
WakeUp(m) ==
    /\ Goes(m, "sleep", "lock")
    /\ UNCHANGED <<mainVars, mx, curses, ballVars>>

\* usleep() is the call where a thread that is cancelled ends.
Cancelled(m) ==
    /\ pc \in {"cancel", "return"} /\ made = N
    /\ Goes(m, "sleep", "none")
    /\ UNCHANGED <<mainVars, mx, curses, ballVars>>

Lock(m) ==
    /\ Goes(m, "lock", "draw") /\ mx = Nobody /\ mx' = m
    /\ UNCHANGED <<mainVars, curses, ballVars>>

\* Mutant: the mutex is not released.
DrawKeepsMx(m) ==
    /\ Goes(m, "draw", "move") /\ curses' = TRUE
    /\ UNCHANGED <<mainVars, mx, ballVars>>

\* The calls of curses; refresh(), the last, brings its mode back if that was ended.
Draw(m) ==
    /\ Goes(m, "draw", "move") /\ curses' = TRUE /\ mx' = Nobody
    /\ UNCHANGED <<mainVars, ballVars>>

Move(m) ==
    /\ Goes(m, "move", "left")
    /\ col' = [col EXCEPT ![m] = @ + dir[m]]
    /\ UNCHANGED <<mainVars, mx, curses, dir, flips>>

\* Mutant: the border is noticed only when it is met.
LeftOfScreenMissed(m) == col[m] = 0

LeftOfScreen(m) == col[m] <= 0

\* Each test reads dir once more, and so does what it leads to.
TestLeft(m) ==
    /\ at[m] = "left"
    /\ Goes(m, "left", IF LeftOfScreen(m) /\ dir[m] = -1 THEN "turn_right" ELSE "right")
    /\ UNCHANGED <<mainVars, mx, curses, ballVars>>

TestRight(m) ==
    /\ Goes(m, "right", IF col[m] >= Room[m] /\ dir[m] = 1 THEN "turn_left" ELSE "sleep")
    /\ UNCHANGED <<mainVars, mx, curses, ballVars>>

\* Mutant: a thread ends where it should turn its message.
TurnEnds(m) ==
    /\ at[m] \in {"turn_left", "turn_right"} /\ Goes(m, at[m], "none")
    /\ UNCHANGED <<mainVars, mx, curses, ballVars>>

Turn(m) ==
    /\ \E d \in {-1, 1} : /\ Goes(m, IF d = 1 THEN "turn_right" ELSE "turn_left", "sleep")
                         /\ dir' = [dir EXCEPT ![m] = d]
    /\ UNCHANGED <<mainVars, mx, curses, col, flips>>

MainSteps == \/ Create \/ CreateFails \/ AllCreated \/ Key \/ Quit \/ LoadDir \/ StoreDir
             \/ LockMx \/ EndWin \/ Return

Animate(m) == \/ WakeUp(m) \/ Cancelled(m) \/ Lock(m) \/ Draw(m) \/ Move(m)
              \/ TestLeft(m) \/ TestRight(m) \/ Turn(m)

Next == MainSteps \/ \E m \in Ids : Animate(m)

Spec == Init /\ [][Next]_vars

\* All threads are scheduled, and one that waits for the mutex gets it: the others
\* sleep for at least TUNIT between two drawings.  No key need ever be typed.
FairSpec ==
    /\ Spec
    /\ WF_vars(Create \/ AllCreated \/ LoadDir \/ StoreDir \/ EndWin \/ Return)
    /\ SF_vars(LockMx)
    /\ \A m \in Ids : WF_vars(Animate(m)) /\ SF_vars(Lock(m))

-----------------------------------------------------------------------------
(* Properties                                                               *)

Places == {"none", "sleep", "lock", "draw", "move", "left", "turn_right", "right", "turn_left"}

TypeOK ==
    /\ pc \in {"create", "input", "store", "lock", "cancel", "return", "exited"}
    /\ made \in 0..N /\ todo \in Seq(Ids) /\ (pc = "store" => todo # <<>>)
    /\ reg \in {-1, 0, 1} /\ (pc = "store" => reg # 0)
    /\ keys \in 0..MaxKeys /\ mx \in Ids \cup {Nobody, Main} /\ curses \in BOOLEAN
    /\ at \in [Ids -> Places]
    /\ col \in [Ids -> Int] /\ dir \in [Ids -> {-1, 1}] /\ flips \in [Ids -> Nat]

\* How far a message leaves the screen although main() and its thread write its
\* dir without a lock, each between the other's reads: one column for each
\* reversal, and one more on the left, where a message may start at column 0
\* heading left and moves before it is tested.
FlipBound ==
    \A m \in Ids : -1 - flips[m] <= col[m] /\ col[m] <= Room[m] + flips[m]

\* Only one thread at a time draws, and none after main() has left curses mode at
\* the user's request: cancelled in whatever step, no thread is between the calls of
\* curses then, and none gets there.
DrawsAlone ==
    /\ \A m, o \in Ids : at[m] = "draw" /\ at[o] = "draw" => m = o
    /\ made = N /\ pc \in {"return", "exited"} =>
         ~curses /\ \A m \in Ids : at[m] # "draw"

\* main() gets the mutex and the program ends: nobody is cancelled holding it.
QuitEnds == pc = "lock" ~> pc = "exited"

\* A message that has left the screen comes back, whatever keys drove it off and
\* whoever wrote its dir last, as long as the program runs.
ComesBack ==
    \A m \in Ids : col[m] \notin 0..Room[m] ~> col[m] \in 0..Room[m] \/ pc \notin {"create", "input", "store"}
=============================================================================
