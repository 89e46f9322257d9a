----------------------------- MODULE EventLoop -----------------------------
(***************************************************************************)
(* src/191028/bounce_async_p.c and bounce_aio_p.c: main() only pauses; the  *)
(* SIGALRM handler slides a message, the SIGIO handler reads the keyboard.  *)
(*   "async": O_ASYNC on stdin, one getchar() per SIGIO;                    *)
(*   "aio":   an aio_read() of one byte, re-issued by the handler.          *)
(* signal() blocks only the signal being handled, so each handler may run   *)
(* in the middle of the other: stack is the handlers that have started and  *)
(* not returned, the running one last.                                      *)
(***************************************************************************)
EXTENDS Integers, Sequences, SequencesExt

CONSTANTS
    Programs,     \* which of the two to run
    Cols, MsgLen,   \* COLS and strlen(MESSAGE)
    TypeAhead,    \* whether the user types before the set-up is over
    MaxKeys       \* bound: how many keys the user types

ASSUME ScreenAssumption ==
    /\ Programs \subseteq {"async", "aio"}
    /\ Cols \in Nat /\ MsgLen \in Nat /\ MsgLen < Cols
    /\ TypeAhead \in BOOLEAN /\ MaxKeys \in Nat

Keys == {"space", "quit"}

VARIABLES
    program,           \* "async" or "aio"
    typed, handled,    \* auxiliary: the keys typed, the keys on_input() acted on
    tty, closed,       \* bytes in the kernel, in order; end of file behind them
    buf,               \* async: stdio's buffer of stdin
    req, got,          \* aio: the state of kbcbuf's request and its result
    pend,              \* pending signals
    col, dir, done,    \* shared by main() and the handlers
    pc, stack,         \* main() and the started handlers
    iPc, iReg,         \* on_input()
    aPc, aReg,         \* on_alarm()
    flips              \* auxiliary: how often on_input() reversed dir

keyVars   == <<typed, handled>>
inVars    == <<program, tty, closed, buf, req, got>>
ballVars  == <<col, dir, done, flips>>
inputVars == <<iPc, iReg>>
alarmVars == <<aPc, aReg>>
vars == <<keyVars, inVars, pend, ballVars, pc, stack, inputVars, alarmVars>>

Init ==
    /\ program \in Programs
    /\ typed = <<>> /\ handled = <<>>
    /\ tty = <<>> /\ closed = FALSE /\ buf = <<>> /\ req = "none" /\ got = <<>>
    /\ pend = {}
    /\ col = 0 /\ dir = 1 /\ done = FALSE /\ flips = 0
    /\ pc = "set_up" /\ stack = <<>>
    /\ iPc = "idle" /\ iReg = 0 /\ aPc = "idle" /\ aReg = 0

-----------------------------------------------------------------------------
(* The user and the kernel.                                                 *)

\* SIGIO is sent when input arrives on a descriptor that is already O_ASYNC.
Notify == pend' = IF program = "async" /\ pc # "set_up" THEN pend \cup {"input"} ELSE pend

\* Bound: MaxKeys keys.
Type(k) ==
    /\ ~closed /\ Len(typed) < MaxKeys /\ pc # "exited" /\ (pc = "set_up" => TypeAhead)
    /\ typed' = Append(typed, k)
    /\ tty' = Append(tty, k)
    /\ Notify
    /\ UNCHANGED <<program, handled, closed, buf, req, got, ballVars, pc, stack, inputVars, alarmVars>>

\* The other end of stdin is closed.
Close ==
    /\ ~closed /\ pc # "exited"
    /\ closed' = TRUE
    /\ Notify
    /\ UNCHANGED <<program, keyVars, tty, buf, req, got, ballVars, pc, stack, inputVars, alarmVars>>

\* The request in progress reads a byte, or nothing at the end of file, and
\* then sends its signal.
AioComplete ==
    /\ req = "waiting" /\ (tty # <<>> \/ closed) /\ pc # "exited"
    /\ req' = "complete"
    /\ got' = IF tty = <<>> THEN <<>> ELSE <<Head(tty)>>
    /\ tty' = IF tty = <<>> THEN <<>> ELSE Tail(tty)
    /\ pend' = pend \cup {"input"}
    /\ UNCHANGED <<program, keyVars, closed, buf, ballVars, pc, stack, inputVars, alarmVars>>

\* The interval timer, which set_ticker() armed.
Tick ==
    /\ pc \notin {"set_up", "exited"} /\ "alarm" \notin pend
    /\ pend' = pend \cup {"alarm"}
    /\ UNCHANGED <<keyVars, inVars, ballVars, pc, stack, inputVars, alarmVars>>

-----------------------------------------------------------------------------
(* main()                                                                   *)

\* Up to the loop: handlers, O_ASYNC or the first aio_read(), set_ticker().
SetUp ==
    /\ pc = "set_up"
    /\ req' = IF program = "aio" THEN "waiting" ELSE req
    /\ pc' = "test"
    /\ UNCHANGED <<program, keyVars, tty, closed, buf, got, pend, ballVars, stack, inputVars, alarmVars>>

\* while (!done) ...
TestDone ==
    /\ pc = "test" /\ stack = <<>>
    /\ pc' = IF done THEN "endwin" ELSE "pause"
    /\ UNCHANGED <<keyVars, inVars, pend, ballVars, stack, inputVars, alarmVars>>

\* ... pause(): a signal handled before the call does not end it.
Pause ==
    /\ pc = "pause" /\ stack = <<>>
    /\ pc' = "paused"
    /\ UNCHANGED <<keyVars, inVars, pend, ballVars, stack, inputVars, alarmVars>>

EndWin ==
    /\ pc = "endwin" /\ stack = <<>>
    /\ pc' = "exited"
    /\ UNCHANGED <<keyVars, inVars, pend, ballVars, stack, inputVars, alarmVars>>

Main == TestDone \/ Pause \/ EndWin

-----------------------------------------------------------------------------
(* Delivery and return.  A signal is blocked while its handler is started.  *)

Running(h) == stack # <<>> /\ Last(stack) = h

DeliverInput ==
    /\ "input" \in pend /\ iPc = "idle" /\ pc # "exited"
    /\ pend' = pend \ {"input"}
    /\ stack' = Append(stack, "input")
    /\ iPc' = "get"
    /\ UNCHANGED <<keyVars, inVars, ballVars, pc, iReg, alarmVars>>

DeliverAlarm ==
    /\ "alarm" \in pend /\ aPc = "idle" /\ pc # "exited"
    /\ pend' = pend \ {"alarm"}
    /\ stack' = Append(stack, "alarm")
    /\ aPc' = "step"
    /\ UNCHANGED <<keyVars, inVars, ballVars, pc, inputVars, aReg>>

\* Mutant: the call of pause() is resumed after a handler.
HandlerReturnsResume == stack' = Front(stack) /\ pc' = pc

\* The running handler returns; pause() ends with the last of them.
HandlerReturns ==
    /\ stack' = Front(stack)
    /\ pc' = IF Len(stack) = 1 /\ pc = "paused" THEN "test" ELSE pc

-----------------------------------------------------------------------------
(* on_input()                                                               *)

Reversed == -dir

\* What on_input() does with c; a reversal has loaded dir and is yet to store.
Act(c) ==
    /\ done' = (done \/ c \in {"quit", "eof"})
    /\ iReg' = IF c = "space" THEN Reversed ELSE iReg
    /\ iPc' = IF c = "space" THEN "flip" ELSE "leave"
    /\ handled' = IF c \in Keys THEN Append(handled, c) ELSE handled

\* Mutant: the first of the bytes read is used again and again.
LeftAll(avail) == avail

\* What stays in stdio's buffer after a byte is taken.
Left(avail) == Tail(avail)

\* getchar() takes a byte from stdio's buffer; when that is empty it reads all
\* that the kernel has, and blocks when that is nothing.
GetChar ==
    /\ program = "async" /\ Running("input") /\ iPc = "get"
    /\ LET avail == IF buf # <<>> THEN buf ELSE tty IN
       IF avail # <<>>
       THEN /\ buf' = Left(avail)
            /\ tty' = IF buf # <<>> THEN tty ELSE <<>>
            /\ Act(Head(avail))
       ELSE closed /\ Act("eof") /\ UNCHANGED <<buf, tty>>
    /\ UNCHANGED <<program, typed, closed, req, got, pend, col, dir, flips, pc, stack, alarmVars>>

\* if (aio_return(&kbcbuf) == 1) ...; the byte is compared with EOF, which the
\* end of file (aio_return() == 0) never reaches.
AioReturn ==
    /\ program = "aio" /\ Running("input") /\ iPc = "get" /\ req = "complete"
    /\ Act(IF got # <<>> THEN Head(got) ELSE "nothing")
    /\ got' = <<>>
    /\ UNCHANGED <<program, typed, tty, closed, buf, req, pend, col, dir, flips, pc, stack, alarmVars>>

\* Mutant: on_input() goes on to the next key instead of returning.
FlipDirLoops ==
    /\ Running("input") /\ iPc = "flip"
    /\ dir' = iReg
    /\ flips' = flips + 1
    /\ iPc' = "get"
    /\ UNCHANGED <<keyVars, inVars, pend, col, done, pc, stack, iReg, alarmVars>>

\* The store of dir = -dir.
FlipDir ==
    /\ Running("input") /\ iPc = "flip"
    /\ dir' = iReg
    /\ flips' = flips + 1
    /\ iPc' = "leave"
    /\ UNCHANGED <<keyVars, inVars, pend, col, done, pc, stack, iReg, alarmVars>>

\* Mutant: no new request is placed.
LeaveInputNoRequest ==
    /\ Running("input") /\ iPc = "leave"
    /\ iPc' = "idle"
    /\ HandlerReturns
    /\ UNCHANGED <<keyVars, inVars, pend, ballVars, iReg, alarmVars>>

\* aio: aio_read(&kbcbuf) places a new request first.
LeaveInput ==
    /\ Running("input") /\ iPc = "leave"
    /\ req' = IF program = "aio" THEN "waiting" ELSE req
    /\ iPc' = "idle"
    /\ HandlerReturns
    /\ UNCHANGED <<program, keyVars, tty, closed, buf, got, pend, ballVars, iReg, alarmVars>>

OnInput == DeliverInput \/ GetChar \/ AioReturn \/ FlipDir \/ LeaveInput

-----------------------------------------------------------------------------
(* on_alarm(): every access to col or dir that on_input() may come between. *)

LoadCol ==
    /\ Running("alarm") /\ aPc = "step"
    /\ aReg' = col + dir
    /\ aPc' = "store"
    /\ UNCHANGED <<keyVars, inVars, pend, ballVars, pc, stack, inputVars>>

StoreCol ==
    /\ Running("alarm") /\ aPc = "store"
    /\ col' = aReg
    /\ aPc' = "left"
    /\ UNCHANGED <<keyVars, inVars, pend, dir, done, flips, pc, stack, inputVars, aReg>>

\* Mutant: off by one at the right edge.
PastRightLate == col + MsgLen > Cols \/ col + MsgLen < 0

\* col + strlen(MESSAGE) >= COLS compares size_t's: a negative sum is huge.
PastRight == col + MsgLen >= Cols \/ col + MsgLen < 0

\* The two tests of the border code; aReg is the dir they decide on.
TestLeft ==
    /\ Running("alarm") /\ aPc = "left"
    /\ IF dir = -1 /\ col <= 0 THEN aReg' = 1 /\ aPc' = "turn"
                               ELSE aPc' = "right" /\ UNCHANGED aReg
    /\ UNCHANGED <<keyVars, inVars, pend, ballVars, pc, stack, inputVars>>

TestRight ==
    /\ Running("alarm") /\ aPc = "right"
    /\ IF dir = 1 /\ PastRight THEN aReg' = -1 /\ aPc' = "turn"
                               ELSE aPc' = "leave" /\ UNCHANGED aReg
    /\ UNCHANGED <<keyVars, inVars, pend, ballVars, pc, stack, inputVars>>

Turn ==
    /\ Running("alarm") /\ aPc = "turn"
    /\ dir' = aReg
    /\ aPc' = "leave"
    /\ UNCHANGED <<keyVars, inVars, pend, col, done, flips, pc, stack, inputVars, aReg>>

LeaveAlarm ==
    /\ Running("alarm") /\ aPc = "leave"
    /\ aPc' = "idle"
    /\ HandlerReturns
    /\ UNCHANGED <<keyVars, inVars, pend, ballVars, inputVars, aReg>>

OnAlarm ==
    \/ DeliverAlarm \/ LoadCol \/ StoreCol \/ TestLeft \/ TestRight \/ Turn \/ LeaveAlarm

Exited == pc = "exited" /\ UNCHANGED vars

Next ==
    \/ \E k \in Keys : Type(k)
    \/ Close \/ AioComplete \/ Tick
    \/ SetUp \/ Main \/ OnInput \/ OnAlarm \/ Exited

Spec == Init /\ [][Next]_vars

\* The timer fires, an outstanding aio request completes when there is input,
\* and the process is scheduled.  A tick every 200 ms leaves time for main()
\* and for on_input(), which it may disable again and again: strong fairness.
Fairness ==
    /\ WF_vars(Tick) /\ WF_vars(AioComplete) /\ WF_vars(SetUp)
    /\ SF_vars(OnAlarm) /\ SF_vars(OnInput) /\ SF_vars(Main)

FairSpec == Spec /\ Fairness
-----------------------------------------------------------------------------
(* Properties                                                               *)

TypeOK ==
    /\ program \in Programs
    /\ typed \in Seq(Keys) /\ handled \in Seq(Keys)
    /\ tty \in Seq(Keys) /\ closed \in BOOLEAN /\ buf \in Seq(Keys)
    /\ req \in {"none", "waiting", "complete"} /\ got \in Seq(Keys)
    /\ pend \subseteq {"input", "alarm"}
    /\ col \in Int /\ dir \in {-1, 1} /\ done \in BOOLEAN /\ flips \in Nat
    /\ pc \in {"set_up", "test", "pause", "paused", "endwin", "exited"}
    /\ stack \in Seq({"input", "alarm"})
    /\ iPc \in {"idle", "get", "flip", "leave"} /\ iReg \in {-1, 0, 1}
    /\ (iPc = "flip" => iReg # 0)
    /\ aPc \in {"idle", "step", "store", "left", "right", "turn", "leave"} /\ aReg \in Int
    /\ (aPc = "turn" => aReg \in {-1, 1})

\* on_input() never blocks inside the handler: SIGIOs merge, so there are at
\* most as many of them as there were arrivals, and each finds a key or EOF.
NeverBlocks ==
    iPc = "get" => IF program = "async" THEN buf # <<>> \/ tty # <<>> \/ closed
                                        ELSE req = "complete"

\* How far the space bar drives the message off the screen although each
\* handler reads and writes dir in the middle of the other: one column per press.
FlipBound == -flips <= col /\ col + MsgLen <= Cols + flips

\* done is seen: the signal that set it may fall between the test and pause(),
\* but the next tick ends the pause.
DoneExits == done ~> (pc = "exited")

KS == INSTANCE KeyStream

\* The program acts on keys as KeyStream allows ...
KeysInOrder == KS!Spec

\* ... and acts on every key until the quit key, if it is the aio program.
AioHandlesEveryKey == program = "aio" => KS!Prompt
=============================================================================
