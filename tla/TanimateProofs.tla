--------------------------- MODULE TanimateProofs ---------------------------
(***************************************************************************)
(* tanimate_p.c for every number of messages and every width of the screen: *)
(* how far a message leaves it, and that no thread draws with another or     *)
(* after endwin().                                                          *)
(***************************************************************************)
EXTENDS Tanimate, TLAPS

\* A message at c that may still go one column to the left (right) with f reversals.
LeftRoom(c, f)     == -f <= c
RightRoom(m, c, f) == c + 1 <= Room[m] + f

\* What is known of a message where its thread is.  After Move the room ahead may be
\* used up; the tests turn the message before the next move, and a reversal that
\* main() stores in between makes more room on both sides.
Bordered(m) ==
    /\ -1 - flips[m] <= col[m] /\ col[m] <= Room[m] + flips[m]
    /\ at[m] \in {"none", "sleep", "lock", "draw", "move"} =>
         /\ dir[m] = -1 => LeftRoom(col[m], flips[m])
         /\ dir[m] = 1  => RightRoom(m, col[m], flips[m])
    /\ at[m] = "left" =>
         /\ dir[m] = 1  => LeftRoom(col[m], flips[m])
         /\ dir[m] = -1 => RightRoom(m, col[m], flips[m])
    /\ at[m] = "right" =>
         /\ LeftRoom(col[m], flips[m])
         /\ dir[m] = -1 => RightRoom(m, col[m], flips[m])
    /\ at[m] = "turn_right" => col[m] <= 0
    /\ at[m] = "turn_left"  => LeftRoom(col[m], flips[m])

\* Threads that have not been created do nothing.
Unmade == pc = "create" => \A m \in Ids : m > made => at[m] = "none"

\* A thread draws only with the mutex, and main() keeps it from the cancelling on.
Locked ==
    /\ \A m \in Ids : at[m] = "draw" => mx = m
    /\ made = N /\ pc \in {"cancel", "return", "exited"} => mx = Main
    /\ made = N /\ pc \in {"return", "exited"} => ~curses

LEMMA Consts ==
    /\ N \in Nat \ {0} /\ MaxKeys \in Nat /\ Room \in [Ids -> Nat]
    /\ \A m \in Ids : Room[m] > 3
    /\ Main \notin Ids /\ Nobody \notin Ids /\ Main # Nobody
BY RoomAssumption DEF RoomAssumption, Ids, Main, Nobody

-----------------------------------------------------------------------------
LEMMA TypeInit == Init => TypeOK
<1> SUFFICES ASSUME Init PROVE TypeOK
  OBVIOUS
<1>1. col \in [Ids -> Int]
  BY Consts DEF Init, Ids
<1>2. dir \in [Ids -> {-1, 1}] /\ flips \in [Ids -> Nat] /\ at \in [Ids -> Places]
  BY DEF Init, Places
<1>3. todo \in Seq(Ids) /\ reg \in {-1, 0, 1} /\ curses \in BOOLEAN
  BY DEF Init
<1> QED BY <1>1, <1>2, <1>3, Consts DEF Init, TypeOK

\* The steps that reverse a message, and what they say of todo.
LEMMA TypeMain == TypeOK /\ MainSteps => TypeOK'
<1> SUFFICES ASSUME TypeOK, MainSteps PROVE TypeOK'
  OBVIOUS
<1> USE Consts DEF TypeOK
<1>1. CASE Create
  <2>1. made + 1 \in Ids /\ made' \in 0..N
    BY <1>1 DEF Create, Ids
  <2>2. at' \in [Ids -> Places]
    BY <1>1, <2>1 DEF Create, Places
  <2> QED BY <1>1, <2>1, <2>2 DEF Create, ballVars
<1>2. CASE CreateFails \/ AllCreated \/ Quit \/ LockMx \/ EndWin \/ Return
  BY <1>2 DEF CreateFails, AllCreated, Quit, LockMx, EndWin, Return, ballVars
<1>3. CASE Key
  <2>1. todo' \in Seq(Ids)
    <3>1. [m \in Ids |-> m] \in Seq(Ids)
      BY DEF Ids
    <3>2. \A m \in Ids : <<m>> \in Seq(Ids)
      OBVIOUS
    <3>3. <<>> \in Seq(Ids)
      OBVIOUS
    <3>4. todo' \in Reversals
      BY <1>3 DEF Key
    <3> HIDE DEF TypeOK
    <3> QED BY <3>1, <3>2, <3>3, <3>4 DEF Reversals
  <2>2. keys' \in 0..MaxKeys
    BY <1>3 DEF Key
  <2> QED BY <1>3, <2>1, <2>2 DEF Key, ballVars
<1>4. CASE LoadDir
  <2>1. Head(todo) \in Ids
    BY <1>4 DEF LoadDir
  <2> QED BY <1>4, <2>1 DEF LoadDir, ballVars
<1>5. CASE StoreDir
  <2>1. Head(todo) \in Ids /\ Tail(todo) \in Seq(Ids) /\ -reg \in {-1, 1}
    BY <1>5 DEF StoreDir
  <2>2. dir' \in [Ids -> {-1, 1}]
    <3>1. dir' = [dir EXCEPT ![Head(todo)] = -reg] /\ dir \in [Ids -> {-1, 1}]
      BY <1>5 DEF StoreDir
    <3> HIDE DEF TypeOK
    <3> QED BY <2>1, <3>1
  <2>3. flips' \in [Ids -> Nat]
    BY <1>5, <2>1 DEF StoreDir
  <2> QED BY <1>5, <2>1, <2>2, <2>3 DEF StoreDir
<1> QED BY <1>1, <1>2, <1>3, <1>4, <1>5 DEF MainSteps

LEMMA TypeThread == ASSUME NEW m \in Ids, TypeOK, Animate(m) PROVE TypeOK'
<1> USE Consts DEF TypeOK, Goes, mainVars, ballVars
<1>1. CASE WakeUp(m) \/ Cancelled(m) \/ Lock(m) \/ Draw(m)
  <2>1. at' \in [Ids -> Places]
    BY <1>1 DEF WakeUp, Cancelled, Lock, Draw, Places
  <2> QED BY <1>1, <2>1 DEF WakeUp, Cancelled, Lock, Draw
<1>2. CASE Move(m)
  <2>1. at' \in [Ids -> Places]
    BY <1>2 DEF Move, Places
  <2>2. col[m] + dir[m] \in Int
    <3>1. col[m] \in Int /\ dir[m] \in {-1, 1}
      OBVIOUS
    <3> HIDE DEF TypeOK
    <3> QED BY <3>1
  <2>3. col' \in [Ids -> Int]
    BY <1>2, <2>2 DEF Move
  <2> QED BY <1>2, <2>1, <2>3 DEF Move
<1>3. CASE TestLeft(m) \/ TestRight(m)
  <2>1. at' \in [Ids -> Places]
    BY <1>3 DEF TestLeft, TestRight, Places
  <2> QED BY <1>3, <2>1 DEF TestLeft, TestRight
<1>4. CASE Turn(m)
  <2>1. at' \in [Ids -> Places]
    BY <1>4 DEF Turn, Places
  <2>2. dir' \in [Ids -> {-1, 1}]
    BY <1>4 DEF Turn
  <2> QED BY <1>4, <2>1, <2>2 DEF Turn
<1> QED BY <1>1, <1>2, <1>3, <1>4 DEF Animate

\* Every variable keeps its type, for any number of messages and keys.
THEOREM TypeSafe == Spec => []TypeOK
<1>1. TypeOK /\ UNCHANGED vars => TypeOK'
  BY DEF TypeOK, vars, mainVars, ballVars
<1>2. TypeOK /\ [Next]_vars => TypeOK'
  BY <1>1, TypeMain, TypeThread DEF Next
<1> QED BY <1>2, TypeInit, PTL DEF Spec

-----------------------------------------------------------------------------
LEMMA LockInit == Init => Unmade /\ Locked
BY Consts DEF Init, Unmade, Locked, Ids

LEMMA LockStep == TypeOK /\ Unmade /\ Locked /\ [Next]_vars => Unmade' /\ Locked'
<1> SUFFICES ASSUME TypeOK, Unmade, Locked, [Next]_vars PROVE Unmade' /\ Locked'
  OBVIOUS
<1> USE Consts DEF TypeOK, Unmade, Locked
<1>1. CASE Create
  <2>1. made + 1 \in Ids
    BY <1>1 DEF Create, Ids
  <2> QED BY <1>1, <2>1 DEF Create, ballVars, Ids
<1>2. CASE CreateFails \/ AllCreated \/ Key \/ Quit \/ LoadDir \/ StoreDir \/ LockMx \/ EndWin \/ Return
  BY <1>2 DEF CreateFails, AllCreated, Key, Quit, LoadDir, StoreDir, LockMx, EndWin, Return
<1>3. ASSUME NEW m \in Ids, Animate(m) PROVE Unmade' /\ Locked'
  <2> USE DEF Goes, mainVars
  <2>1. CASE WakeUp(m) \/ Cancelled(m)
    BY <2>1 DEF WakeUp, Cancelled
  <2>2. CASE Lock(m)
    BY <2>2 DEF Lock
  <2>3. CASE Draw(m)
    BY <2>3 DEF Draw
  <2>4. CASE Move(m) \/ TestLeft(m) \/ TestRight(m)
    <3>1. \A o \in Ids : at'[o] = "draw" => at[o] = "draw"
      BY <2>4 DEF Move, TestLeft, TestRight
    <3>2. \A o \in Ids : at[o] = "none" => at'[o] = "none"
      BY <2>4 DEF Move, TestLeft, TestRight
    <3>3. UNCHANGED <<pc, made, mx, curses>>
      BY <2>4 DEF Move, TestLeft, TestRight
    <3> QED BY <3>1, <3>2, <3>3
  <2>5. CASE Turn(m)
    BY <2>5 DEF Turn
  <2> QED BY <1>3, <2>1, <2>2, <2>3, <2>4, <2>5 DEF Animate
<1>4. CASE UNCHANGED vars
  BY <1>4 DEF vars, mainVars
<1> QED BY <1>1, <1>2, <1>3, <1>4 DEF Next, MainSteps

LEMMA LockSafe == Spec => [](Unmade /\ Locked)
<1> QED BY TypeSafe, LockInit, LockStep, PTL DEF Spec

\* No two threads are in the calls of curses at once, and none is after endwin():
\* main() has the mutex then, and never gives it back.
THEOREM DrawsAloneSafe == Spec => []DrawsAlone
<1>1. TypeOK /\ Locked => DrawsAlone
  BY Consts DEF Locked, DrawsAlone, TypeOK
<1> QED BY <1>1, TypeSafe, LockSafe, PTL

-----------------------------------------------------------------------------
LEMMA BorderInit == Init => \A o \in Ids : Bordered(o)
<1> SUFFICES ASSUME Init, NEW o \in Ids PROVE Bordered(o)
  OBVIOUS
<1>1. col[o] \in Nat /\ col[o] < Room[o] - 3 /\ dir[o] \in {-1, 1} /\ flips[o] = 0 /\ at[o] = "none"
  BY Consts DEF Init
<1> QED BY <1>1, Consts DEF Bordered, LeftRoom, RightRoom

\* The numbers of a message.
LEMMA Numbers ==
    ASSUME TypeOK, NEW o \in Ids
    PROVE  /\ col[o] \in Int /\ flips[o] \in Nat /\ dir[o] \in {-1, 1}
           /\ Room[o] \in Nat /\ Room[o] > 3
BY Consts DEF TypeOK

\* Whatever main() does, each message keeps its room: a reversal adds to it.
LEMMA BorderMain ==
    ASSUME TypeOK, Unmade, MainSteps, NEW o \in Ids, Bordered(o) PROVE Bordered(o)'
<1>0. /\ col[o] \in Int /\ flips[o] \in Nat /\ dir[o] \in {-1, 1}
        /\ Room[o] \in Nat /\ Room[o] > 3
  BY Numbers
<1>1. CASE StoreDir
  <2>1. Head(todo) \in Ids /\ reg \in {-1, 1}
    BY <1>1 DEF StoreDir, TypeOK
  <2>2. UNCHANGED <<col, at>>
    BY <1>1 DEF StoreDir
  <2>3. CASE o = Head(todo)
    <3>1. flips'[o] = flips[o] + 1 /\ dir'[o] = -reg
      BY <1>1, <2>1, <2>3 DEF StoreDir, TypeOK
    <3>2. dir'[o] \in {-1, 1}
      BY <2>1, <3>1
    <3> QED BY <2>1, <2>2, <3>1, <3>2, <1>0 DEF Bordered, LeftRoom, RightRoom
  <2>4. CASE o # Head(todo)
    <3>1. flips'[o] = flips[o] /\ dir'[o] = dir[o]
      BY <1>1, <2>1, <2>4 DEF StoreDir, TypeOK
    <3> QED BY <2>2, <3>1 DEF Bordered, LeftRoom, RightRoom
  <2> QED BY <2>3, <2>4
<1>2. CASE Create
  <2>1. UNCHANGED <<col, dir, flips>> /\ at' = [at EXCEPT ![made + 1] = "sleep"]
    BY <1>2 DEF Create, ballVars
  <2>2. CASE o = made + 1
    <3>1. at[o] = "none"
      BY <1>2, <2>2 DEF Create, Unmade, TypeOK
    <3>2. at'[o] = "sleep"
      BY <2>1, <2>2 DEF TypeOK
    <3> QED BY <2>1, <3>1, <3>2 DEF Bordered, LeftRoom, RightRoom
  <2>3. CASE o # made + 1
    <3>1. at'[o] = at[o]
      BY <2>1, <2>3 DEF TypeOK
    <3> QED BY <2>1, <3>1 DEF Bordered, LeftRoom, RightRoom
  <2> QED BY <2>2, <2>3
<1>3. CASE CreateFails \/ AllCreated \/ Key \/ Quit \/ LoadDir \/ LockMx \/ EndWin \/ Return
  <2>1. UNCHANGED <<col, dir, flips, at>>
    BY <1>3 DEF CreateFails, AllCreated, Key, Quit, LoadDir, LockMx, EndWin, Return, ballVars
  <2> QED BY <2>1 DEF Bordered, LeftRoom, RightRoom
<1> QED BY <1>1, <1>2, <1>3 DEF MainSteps

LEMMA BorderThread ==
    ASSUME TypeOK, NEW m \in Ids, Animate(m), NEW o \in Ids, Bordered(o) PROVE Bordered(o)'
<1> USE DEF Goes, ballVars
<1>0. /\ col[o] \in Int /\ flips[o] \in Nat /\ dir[o] \in {-1, 1}
        /\ Room[o] \in Nat /\ Room[o] > 3
  BY Numbers
<1>1. CASE o # m
  <2>1. at'[o] = at[o] /\ col'[o] = col[o] /\ dir'[o] = dir[o] /\ flips' = flips
    BY <1>1 DEF Animate, WakeUp, Cancelled, Lock, Draw, Move, TestLeft, TestRight, Turn, TypeOK
  <2> QED BY <2>1 DEF Bordered, LeftRoom, RightRoom
<1>2. CASE o = m
  <2>1. CASE WakeUp(m) \/ Cancelled(m) \/ Lock(m) \/ Draw(m)
    <3>1. /\ UNCHANGED <<col, dir, flips>>
          /\ {at[m], at'[m]} \subseteq {"none", "sleep", "lock", "draw", "move"}
      BY <2>1 DEF WakeUp, Cancelled, Lock, Draw, TypeOK
    <3> QED BY <1>2, <3>1 DEF Bordered, LeftRoom, RightRoom
  <2>2. CASE Move(m)
    <3>1. /\ at[m] = "move" /\ at'[m] = "left" /\ UNCHANGED <<dir, flips>>
          /\ col'[m] = col[m] + dir[m]
      BY <2>2 DEF Move, TypeOK
    <3> QED BY <1>2, <3>1, <1>0 DEF Bordered, LeftRoom, RightRoom
  <2>3. CASE TestLeft(m)
    <3>1. /\ at[m] = "left" /\ UNCHANGED <<col, dir, flips>>
          /\ \/ col[m] <= 0 /\ dir[m] = -1 /\ at'[m] = "turn_right"
             \/ ~(col[m] <= 0 /\ dir[m] = -1) /\ at'[m] = "right"
      BY <2>3 DEF TestLeft, LeftOfScreen, TypeOK
    <3> QED BY <1>2, <3>1, <1>0 DEF Bordered, LeftRoom, RightRoom
  <2>4. CASE TestRight(m)
    <3>1. /\ at[m] = "right" /\ UNCHANGED <<col, dir, flips>>
          /\ \/ dir[m] = 1 /\ at'[m] = "turn_left"
             \/ ~(col[m] >= Room[m] /\ dir[m] = 1) /\ at'[m] = "sleep"
      BY <2>4 DEF TestRight, TypeOK
    <3> QED BY <1>2, <3>1, <1>0 DEF Bordered, LeftRoom, RightRoom
  <2>5. CASE Turn(m)
    <3>1. ASSUME NEW d \in {-1, 1}, dir' = [dir EXCEPT ![m] = d],
                 Goes(m, IF d = 1 THEN "turn_right" ELSE "turn_left", "sleep"), UNCHANGED <<col, flips>>
          PROVE  Bordered(o)'
      <4>1. at'[m] = "sleep" /\ dir'[m] = d
        BY <3>1 DEF TypeOK
      <4>2. CASE d = 1
        <5>1. at[m] = "turn_right"
          BY <3>1, <4>2
        <5> QED BY <1>2, <3>1, <4>1, <4>2, <5>1, <1>0 DEF Bordered, LeftRoom, RightRoom
      <4>3. CASE d = -1
        <5>1. at[m] = "turn_left"
          BY <3>1, <4>3
        <5> QED BY <1>2, <3>1, <4>1, <4>3, <5>1, <1>0 DEF Bordered, LeftRoom, RightRoom
      <4> QED BY <4>2, <4>3
    <3> QED BY <2>5, <3>1 DEF Turn
  <2> QED BY <2>1, <2>2, <2>3, <2>4, <2>5 DEF Animate
<1> QED BY <1>1, <1>2

\* However the reads and writes of main() and of the threads interleave, a message
\* leaves the screen by one column for each reversal, and one more on the left.
THEOREM FlipBoundSafe == Spec => []FlipBound
<1> DEFINE Inv == \A o \in Ids : Bordered(o)
<1>1. TypeOK /\ Unmade /\ Inv /\ [Next]_vars => Inv'
  <2>1. ASSUME UNCHANGED vars, NEW o \in Ids, Bordered(o) PROVE Bordered(o)'
    BY <2>1 DEF vars, ballVars, Bordered, LeftRoom, RightRoom
  <2> QED BY <2>1, BorderMain, BorderThread DEF Next
<1>2. Inv => FlipBound
  BY DEF FlipBound, Bordered
<1>3. Init => Inv
  BY BorderInit
<1> HIDE DEF Inv
<1> QED BY <1>1, <1>2, <1>3, TypeSafe, LockSafe, PTL DEF Spec
=============================================================================
