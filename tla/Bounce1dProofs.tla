--------------------------- MODULE Bounce1dProofs ---------------------------
(***************************************************************************)
(* For every screen and message, every delay and any number of keys: how    *)
(* far the space bar can drive the message of Bounce1d off the screen, and  *)
(* that no overflow turns a speed key into its opposite.                    *)
(***************************************************************************)
EXTENDS Bounce1d, TLAPS

\* FlipBound is not inductive: a message heading for an edge must still have
\* a column to go before it is flips columns past that edge.
Headway ==
    /\ dir = -1 => 1 - flips <= col
    /\ dir = 1  => col + MsgLen <= Cols + flips - 1

IInv == TypeOK /\ FlipBound /\ Headway

LEMMA TypeInit == Init => TypeOK
<1> SUFFICES ASSUME Init PROVE TypeOK
  OBVIOUS
<1>1. delay \in Int
  BY ScreenAssumption DEF Init, Programs
<1>2. interval \in Nat
  BY <1>1 DEF Init
<1> QED BY <1>1, <1>2 DEF Init, TypeOK, Keys

LEMMA TypeStep == TypeOK /\ [Next]_vars => TypeOK'
<1> SUFFICES ASSUME TypeOK, [Next]_vars PROVE TypeOK'
  OBVIOUS
<1> USE DEF TypeOK
<1>1. CASE ReadKey
  <2>1. key' \in Keys /\ pc' \in {"endwin", "load", "retime", "getchar"}
    BY <1>1 DEF ReadKey, Keys
  <2> QED BY <1>1, <2>1 DEF ReadKey
<1>2. CASE LoadDir \/ StoreDir
  BY <1>2 DEF LoadDir, StoreDir
<1>3. CASE Retime
  <2>1. NewDelay(key) \in Int
    <3>1. delay * 2 \in Int /\ delay + 50 \in Int /\ delay - 50 \in Int /\ delay \div 2 \in Int
      OBVIOUS
    <3>2. \A n \in Int : Wrap(n) \in Int
      BY ScreenAssumption DEF Wrap
    <3> QED BY <3>1, <3>2 DEF NewDelay
  <2>2. delay' \in Int /\ interval' \in Nat
    BY <1>3, <2>1 DEF Retime
  <2> QED BY <1>3, <2>2 DEF Retime
<1>4. CASE EndWin \/ Return
  <2>1. CASE EndWin
    BY <2>1 DEF EndWin
  <2>2. CASE Return
    BY <2>2 DEF Return
  <2> QED BY <1>4, <2>1, <2>2
<1>5. CASE MoveMsg
  BY <1>5 DEF MoveMsg, Turned
<1>6. CASE UNCHANGED vars
  BY <1>6 DEF vars
<1> QED BY <1>1, <1>2, <1>3, <1>4, <1>5, <1>6 DEF Next, Exited

\* move_msg(): whichever way the message goes and turns, the bound and the
\* headway are kept, with no reversal to spend.
LEMMA MoveMsgBound ==
    ASSUME IInv, MoveMsg
    PROVE  (FlipBound /\ Headway)'
<1>1. /\ col \in Int /\ flips \in Nat /\ dir \in {-1, 1} /\ Cols \in Nat /\ MsgLen \in Nat
      /\ MsgLen < Cols
  BY ScreenAssumption DEF IInv, TypeOK
<1>2. flips' = flips /\ col' = col + dir /\ dir' = Turned(col')
  BY DEF MoveMsg
<1>3. CASE dir = -1
  BY <1>1, <1>2, <1>3 DEF IInv, FlipBound, Headway, Turned
<1>4. CASE dir = 1
  BY <1>1, <1>2, <1>4 DEF IInv, FlipBound, Headway, Turned, PastRight
<1> QED BY <1>1, <1>3, <1>4

LEMMA InvStep == IInv /\ [Next]_vars => IInv'
<1> SUFFICES ASSUME IInv, [Next]_vars PROVE IInv'
  OBVIOUS
<1>1. TypeOK'
  BY TypeStep DEF IInv
<1>2. CASE MoveMsg
  BY <1>1, <1>2, MoveMsgBound DEF IInv
<1>3. CASE StoreDir
  <2>1. /\ col' = col /\ flips' = flips + 1 /\ dir' = reg /\ col \in Int /\ flips \in Nat
        /\ Cols \in Nat /\ MsgLen \in Nat
    BY <1>3, ScreenAssumption DEF StoreDir, IInv, TypeOK
  <2> QED BY <1>1, <2>1 DEF IInv, FlipBound, Headway
<1>4. CASE UNCHANGED <<col, dir, flips>>
  BY <1>1, <1>4 DEF IInv, FlipBound, Headway
<1> QED BY <1>2, <1>3, <1>4
        DEF Next, ReadKey, LoadDir, Retime, EndWin, Return, Exited, vars

\* The message is never more columns off the screen than the space bar was
\* pressed, on either side, although main()'s store of dir may undo a bounce.
THEOREM FlipBoundSafe == Spec => [](TypeOK /\ FlipBound)
<1>1. Init => IInv
  <2> SUFFICES ASSUME Init PROVE FlipBound /\ Headway
    BY TypeInit DEF IInv
  <2> QED BY ScreenAssumption DEF Init, FlipBound, Headway
<1>2. IInv /\ [Next]_vars => IInv'
  BY InvStep
<1>3. IInv => TypeOK /\ FlipBound
  BY DEF IInv
<1> QED BY <1>1, <1>2, <1>3, PTL DEF Spec

-----------------------------------------------------------------------------
\* The timer and main()'s idea of it agree until main() returns: there is no
\* delay that setitimer() would refuse after it accepted an earlier one.
TimerInv ==
    /\ delay <= IntMax
    /\ interval = IF delay > 0 /\ pc # "exited" THEN delay ELSE 0

LEMMA TimerInit == Init => TimerInv
<1> SUFFICES ASSUME Init PROVE TimerInv
  OBVIOUS
<1>1. delay \in -IntMax..IntMax /\ IntMax \in Nat
  BY ScreenAssumption DEF Init, Programs
<1> QED BY <1>1 DEF Init, TimerInv

\* Wrap: a product or sum beyond INT_MAX comes out negative and is not used.
LEMMA NewDelayBound ==
    ASSUME TypeOK, delay <= IntMax, NEW k \in Keys
    PROVE  NewDelay(k) \in Int /\ NewDelay(k) <= IntMax
<1>1. IntMax \in Nat /\ IntMax >= 50 /\ delay \in Int
  BY ScreenAssumption DEF TypeOK
<1>2. \A n \in {delay * 2, delay + 50} : Wrap(n) \in Int /\ Wrap(n) <= IntMax
  BY <1>1 DEF Wrap
<1>3. delay \div 2 \in Int /\ (delay > 2 => delay \div 2 <= delay)
  BY <1>1
<1> QED BY <1>1, <1>2, <1>3 DEF NewDelay

LEMMA TimerStep == TypeOK /\ TimerInv /\ [Next]_vars => TimerInv'
<1> SUFFICES ASSUME TypeOK, TimerInv, [Next]_vars PROVE TimerInv'
  OBVIOUS
<1>1. CASE Retime
  <2>1. NewDelay(key) <= IntMax /\ NewDelay(key) \in Int
    BY NewDelayBound DEF TypeOK, TimerInv
  <2> QED BY <1>1, <2>1 DEF Retime, TimerInv
<1>2. CASE Return
  BY <1>2 DEF Return, TimerInv
<1>3. CASE ReadKey \/ LoadDir \/ StoreDir \/ EndWin \/ MoveMsg \/ UNCHANGED vars
  <2>1. delay' = delay /\ interval' = interval /\ (pc' = "exited" <=> pc = "exited")
    BY <1>3 DEF ReadKey, LoadDir, StoreDir, EndWin, MoveMsg, vars, TypeOK, Keys
  <2> QED BY <2>1 DEF TimerInv
<1> QED BY <1>1, <1>2, <1>3 DEF Next, Exited

\* While the timer is on, its interval is main()'s delay: doubled or raised by 50 it
\* is more, or it wraps to a negative number; halved or lowered by 50, under the tests
\* of delay, it is less and not 0.
LEMMA NewDelaySense ==
    ASSUME TypeOK, delay > 0, delay <= IntMax, NewDelay(key) > 0
    PROVE  /\ NewDelay(key) \in Int
           /\ IF key = "slower" THEN NewDelay(key) > delay ELSE NewDelay(key) \in 1..delay - 1
<1>1. IntMax \in Nat /\ IntMax >= 50 /\ delay \in Int /\ program \in Programs
  BY ScreenAssumption DEF TypeOK
<1>2. \A n \in {delay * 2, delay + 50} : Wrap(n) > 0 => Wrap(n) = n
  BY <1>1 DEF Wrap
<1>3. CASE key = "slower"
  <2>1. NewDelay(key) \in {Wrap(delay * 2), Wrap(delay + 50)}
    BY <1>1, <1>3 DEF NewDelay, Programs
  <2>2. NewDelay(key) \in {delay * 2, delay + 50}
    BY <1>2, <2>1
  <2> QED BY <1>1, <1>3, <2>2
<1>4. CASE key # "slower"
  <2>1. \/ delay > 2 /\ NewDelay(key) = delay \div 2
        \/ delay > 50 /\ NewDelay(key) = delay - 50
    BY <1>4 DEF NewDelay
  <2> QED BY <1>1, <1>4, <2>1
<1> QED BY <1>3, <1>4

\* No speed key has the opposite effect or stops the timer, whatever the delay and
\* however wide the integers: until main() returns it ticks at main()'s delay, within
\* int, so that what overflows is negative and not used.
THEOREM SpeedKeysSafe == Spec => SpeedKeysKeepTheirSense
<1>1. TypeOK /\ TimerInv /\ [Next]_vars =>
        [interval > 0 /\ interval' # interval /\ pc' # "exited" =>
             IF key = "slower" THEN interval' > interval ELSE interval' \in 1..interval - 1]_vars
  <2> SUFFICES ASSUME TypeOK, TimerInv, Next, interval > 0, interval' # interval, pc' # "exited"
               PROVE  IF key = "slower" THEN interval' > interval ELSE interval' \in 1..interval - 1
    OBVIOUS
  <2>1. CASE Retime
    <3>1. delay > 0 /\ delay <= IntMax /\ interval = delay
      BY DEF TimerInv
    <3>2. NewDelay(key) > 0 /\ interval' = NewDelay(key)
      BY <2>1 DEF Retime
    <3> QED BY <3>1, <3>2, NewDelaySense
  <2>2. CASE Return
    BY <2>2 DEF Return
  <2>3. CASE ReadKey \/ LoadDir \/ StoreDir \/ EndWin \/ MoveMsg \/ Exited
    BY <2>3 DEF ReadKey, LoadDir, StoreDir, EndWin, MoveMsg, Exited, vars
  <2> QED BY <2>1, <2>2, <2>3 DEF Next
<1> QED BY <1>1, TypeInit, TypeStep, TimerInit, TimerStep, PTL DEF Spec, SpeedKeysKeepTheirSense
=============================================================================
