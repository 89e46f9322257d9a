-------------------------- MODULE EventLoopProofs --------------------------
(***************************************************************************)
(* bounce_async_p.c and bounce_aio_p.c, for every screen, message and number*)
(* of keys, although on_input() and on_alarm() interrupt each other between *)
(* their reads and writes of dir and col: how far the message can leave the *)
(* screen, that on_input() never blocks, and that it acts on the keys in the*)
(* order they were typed (KeyStream).                                       *)
(***************************************************************************)
EXTENDS EventLoop, SequenceTheorems, TLAPS

\* The part of TypeOK that the border argument uses.
NumberType ==
    /\ col \in Int /\ dir \in {-1, 1} /\ flips \in Nat /\ aReg \in Int
    /\ iReg \in {-1, 0, 1}
    /\ iPc = "flip" => iReg # 0

\* A message at c with f reversals so far is at most f columns off the screen,
Within(c, f) == -f <= c /\ c + MsgLen <= Cols + f

\* and one that heads left (right) has a column to go to that bound.
LeftRoom(c, f)  == 1 - f <= c
RightRoom(c, f) == c + MsgLen <= Cols + f - 1

\* Where on_alarm() stands, what is known of the column.  Between StoreCol and
\* Turn the room ahead may be used up, but then there is room behind, and the
\* tests turn the message before the next step.
AlarmInv ==
    /\ aPc \in {"idle", "step", "leave", "store"} =>
           /\ dir = -1 => LeftRoom(col, flips)
           /\ dir = 1  => RightRoom(col, flips)
    /\ aPc = "store" =>
           /\ Within(aReg, flips)
           /\ dir = 1  => LeftRoom(aReg, flips)
           /\ dir = -1 => RightRoom(aReg, flips)
    /\ aPc = "left" =>
           /\ dir = 1  => LeftRoom(col, flips)
           /\ dir = -1 => RightRoom(col, flips)
    /\ aPc = "right" =>
           /\ LeftRoom(col, flips)
           /\ dir = -1 => RightRoom(col, flips)
    /\ aPc = "turn" =>
           \/ aReg = 1 /\ col <= 0
           \/ aReg = -1 /\ LeftRoom(col, flips)

APcs == {"idle", "step", "store", "left", "right", "turn", "leave"}

IInv == NumberType /\ aPc \in APcs /\ Within(col, flips) /\ AlarmInv

USE DEF Within, LeftRoom, RightRoom

LEMMA Consts == Cols \in Nat /\ MsgLen \in Nat /\ MsgLen < Cols
BY ScreenAssumption

-----------------------------------------------------------------------------
LEMMA BorderInit == Init => IInv
<1> SUFFICES ASSUME Init PROVE IInv
  OBVIOUS
<1> QED BY Consts DEF Init, IInv, NumberType, AlarmInv, APcs

\* on_alarm(), one step at a time, whatever on_input() did before it.
LEMMA AlarmStep == IInv /\ OnAlarm => IInv'
<1> SUFFICES ASSUME IInv, OnAlarm PROVE IInv'
  OBVIOUS
<1> USE Consts DEF IInv, NumberType, APcs
<1>1. CASE DeliverAlarm
  BY <1>1 DEF DeliverAlarm, ballVars, inputVars, AlarmInv
<1>2. CASE LoadCol
  BY <1>2 DEF LoadCol, ballVars, inputVars, AlarmInv
<1>3. CASE StoreCol
  BY <1>3 DEF StoreCol, inputVars, AlarmInv
<1>4. CASE TestLeft
  BY <1>4 DEF TestLeft, ballVars, inputVars, AlarmInv
<1>5. CASE TestRight
  BY <1>5 DEF TestRight, PastRight, ballVars, inputVars, AlarmInv
<1>6. CASE Turn
  BY <1>6 DEF Turn, inputVars, AlarmInv
<1>7. CASE LeaveAlarm
  BY <1>7 DEF LeaveAlarm, ballVars, inputVars, AlarmInv
<1> QED BY <1>1, <1>2, <1>3, <1>4, <1>5, <1>6, <1>7 DEF OnAlarm

\* on_input(): the reversal it stores, late or not, is one more in flips.
LEMMA InputStep == IInv /\ OnInput => IInv'
<1> SUFFICES ASSUME IInv, OnInput PROVE IInv'
  OBVIOUS
<1> USE Consts DEF IInv, NumberType, APcs
<1>1. CASE DeliverInput
  BY <1>1 DEF DeliverInput, ballVars, alarmVars, AlarmInv
<1>2. CASE GetChar \/ AioReturn
  <2>1. ASSUME NEW c, Act(c)
        PROVE  iReg' \in {-1, 0, 1} /\ (iPc' = "flip" => iReg' # 0)
    BY <2>1 DEF Act, Reversed
  <2>2. /\ iReg' \in {-1, 0, 1} /\ (iPc' = "flip" => iReg' # 0)
        /\ UNCHANGED <<col, dir, flips, aPc, aReg>>
    BY <1>2, <2>1 DEF GetChar, AioReturn, alarmVars
  <2> QED BY <2>2 DEF AlarmInv
<1>3. CASE FlipDir
  BY <1>3 DEF FlipDir, alarmVars, AlarmInv
<1>4. CASE LeaveInput
  BY <1>4 DEF LeaveInput, ballVars, alarmVars, AlarmInv
<1> QED BY <1>1, <1>2, <1>3, <1>4 DEF OnInput

LEMMA OtherStep ==
    IInv /\ UNCHANGED <<ballVars, inputVars, alarmVars>> => IInv'
BY DEF IInv, NumberType, APcs, AlarmInv, ballVars, inputVars, alarmVars

\* The message is never more columns off the screen than on_input() reversed
\* it, although SIGIO and SIGALRM handlers nest at every read and write.
THEOREM NestedFlipBound == Spec => []FlipBound
<1>1. Init => IInv
  BY BorderInit
<1>2. IInv /\ [Next]_vars => IInv'
  <2> SUFFICES ASSUME IInv, [Next]_vars PROVE IInv'
    OBVIOUS
  <2>1. CASE OnAlarm
    BY <2>1, AlarmStep
  <2>2. CASE OnInput
    BY <2>2, InputStep
  <2>3. CASE (\E k \in Keys : Type(k)) \/ Close \/ AioComplete \/ Tick \/ SetUp \/ Main
    <3>1. UNCHANGED <<ballVars, inputVars, alarmVars>>
      BY <2>3 DEF Type, Close, AioComplete, Tick, SetUp, Main, TestDone, Pause, EndWin
    <3> QED BY <3>1, OtherStep
  <2>4. CASE UNCHANGED vars
    BY <2>4, OtherStep DEF vars
  <2> QED BY <2>1, <2>2, <2>3, <2>4 DEF Next, Exited
<1>3. IInv => FlipBound
  BY DEF IInv, FlipBound
<1> QED BY <1>1, <1>2, <1>3, PTL DEF Spec

-----------------------------------------------------------------------------
(* The keys, from the keyboard to on_input().                               *)

\* What was typed and on_input() has not acted on: a byte that aio_read() has
\* fetched, then what getchar() left in stdio's buffer, then the kernel's.
Pending == (got \o buf) \o tty

InOrder == typed = handled \o Pending

\* async: each SIGIO that is pending or delivered and yet to call getchar() has
\* a key of its own to find.  SIGIOs merge, keys do not.
Claims == (IF "input" \in pend THEN 1 ELSE 0) + (IF iPc = "get" THEN 1 ELSE 0)

AsyncInv ==
    program = "async" =>
        /\ got = <<>> /\ req = "none"
        /\ closed \/ Claims <= Len(buf) + Len(tty)

\* aio: one request, which on_input() places as the last thing it does: its
\* signal never finds the handler started.
AioInv ==
    program = "aio" =>
        /\ buf = <<>> /\ Len(got) <= 1
        /\ pc = "set_up" => req = "none"
        /\ "input" \in pend => req = "complete" /\ iPc = "idle"
        /\ iPc # "idle" => req = "complete"
        /\ got # <<>> => req = "complete" /\ iPc \in {"idle", "get"}

KeyInv == TypeOK /\ InOrder /\ AsyncInv /\ AioInv

LEMMA TypeInit == Init => TypeOK
<1> SUFFICES ASSUME Init PROVE TypeOK
  OBVIOUS
<1>1. \A S : <<>> \in Seq(S)
  BY EmptySeq
<1>2. /\ typed \in Seq(Keys) /\ handled \in Seq(Keys) /\ tty \in Seq(Keys)
      /\ buf \in Seq(Keys) /\ got \in Seq(Keys) /\ stack \in Seq({"input", "alarm"})
  BY <1>1 DEF Init
<1>3. program \in Programs /\ pend \subseteq {"input", "alarm"}
  BY DEF Init
<1>4. closed \in BOOLEAN /\ done \in BOOLEAN
  BY Zenon DEF Init
<1>5. /\ req = "none" /\ col = 0 /\ dir = 1 /\ flips = 0
      /\ pc = "set_up" /\ iPc = "idle" /\ iReg = 0 /\ aPc = "idle" /\ aReg = 0
  BY DEF Init
<1> QED BY <1>2, <1>3, <1>4, <1>5 DEF TypeOK

LEMMA FrontType ==
    ASSUME NEW S, NEW s \in Seq(S), s # <<>>
    PROVE  Front(s) \in Seq(S)
<1>1. Len(s) \in Nat \ {0} /\ \A i \in 1..Len(s)-1 : s[i] \in S
  BY EmptySeq, LenProperties, ElementOfSeq
<1> QED BY <1>1, SubSeqProperties DEF Front

LEMMA TypeStep == TypeOK /\ [Next]_vars => TypeOK'
<1> SUFFICES ASSUME TypeOK, [Next]_vars PROVE TypeOK'
  OBVIOUS
<1> USE DEF TypeOK
<1>1. ASSUME NEW k \in Keys, Type(k) PROVE TypeOK'
  <2>1. typed' \in Seq(Keys) /\ tty' \in Seq(Keys)
    BY <1>1, AppendProperties DEF Type
  <2> QED BY <1>1, <2>1 DEF Type, Notify, ballVars, inputVars, alarmVars
<1>2. CASE Close
  BY <1>2 DEF Close, Notify, keyVars, ballVars, inputVars, alarmVars
<1>3. CASE AioComplete
  <2>1. tty' \in Seq(Keys) /\ got' \in Seq(Keys)
    BY <1>3, HeadTailProperties, EmptySeq DEF AioComplete
  <2> QED BY <1>3, <2>1 DEF AioComplete, keyVars, ballVars, inputVars, alarmVars
<1>4. CASE Tick
  BY <1>4 DEF Tick, keyVars, inVars, ballVars, inputVars, alarmVars
<1>5. CASE SetUp
  BY <1>5 DEF SetUp, keyVars, ballVars, inputVars, alarmVars
<1>6. CASE Main
  <2>1. /\ UNCHANGED <<keyVars, inVars, pend, ballVars, stack, inputVars, alarmVars>>
        /\ pc' \in {"endwin", "pause", "paused", "exited"}
    BY <1>6 DEF Main, TestDone, Pause, EndWin
  <2> QED BY <2>1 DEF keyVars, inVars, ballVars, inputVars, alarmVars
<1>7. CASE DeliverInput \/ DeliverAlarm
  <2>1. stack' \in Seq({"input", "alarm"})
    <3>1. \A h \in {"input", "alarm"} : Append(stack, h) \in Seq({"input", "alarm"})
      BY AppendProperties
    <3> QED BY <1>7, <3>1 DEF DeliverInput, DeliverAlarm
  <2>2. /\ UNCHANGED <<keyVars, inVars, ballVars, pc, iReg, aReg>> /\ pend' \subseteq pend
        /\ iPc' \in {iPc, "get"} /\ aPc' \in {aPc, "step"}
    BY <1>7 DEF DeliverInput, DeliverAlarm, inputVars, alarmVars
  <2> QED BY <2>1, <2>2 DEF keyVars, inVars, ballVars
<1>8. CASE GetChar \/ AioReturn
  <2>1. ASSUME NEW c, Act(c)
        PROVE  /\ done' \in BOOLEAN /\ iReg' \in {-1, 0, 1} /\ handled' \in Seq(Keys)
               /\ iPc' \in {"flip", "leave"} /\ (iPc' = "flip" => iReg' # 0)
    <3>1. handled' \in Seq(Keys)
      BY <2>1, AppendProperties DEF Act
    <3> QED BY <2>1, <3>1 DEF Act, Reversed
  <2>2. buf' \in Seq(Keys) /\ tty' \in Seq(Keys) /\ got' \in Seq(Keys)
    BY <1>8, HeadTailProperties, EmptySeq DEF GetChar, AioReturn, Left
  <2>3. PICK c : Act(c)
    BY <1>8 DEF GetChar, AioReturn
  <2> QED BY <1>8, <2>1, <2>2, <2>3 DEF GetChar, AioReturn, alarmVars
<1>9. CASE FlipDir
  BY <1>9 DEF FlipDir, keyVars, inVars, alarmVars
<1>10. CASE LeaveInput \/ LeaveAlarm
  <2>1. stack' \in Seq({"input", "alarm"}) /\ pc' \in {pc, "test"}
    BY <1>10, FrontType DEF LeaveInput, LeaveAlarm, HandlerReturns, Running
  <2>2. /\ UNCHANGED <<program, keyVars, tty, closed, buf, got, pend, ballVars, iReg, aReg>>
        /\ req' \in {req, "waiting"} /\ iPc' \in {iPc, "idle"} /\ aPc' \in {aPc, "idle"}
    BY <1>10 DEF LeaveInput, LeaveAlarm, inVars, inputVars, alarmVars
  <2> QED BY <2>1, <2>2 DEF keyVars, ballVars
<1>11. CASE LoadCol \/ StoreCol \/ TestLeft \/ TestRight \/ Turn
  <2>1. /\ UNCHANGED <<keyVars, inVars, pend, done, flips, pc, stack, inputVars>>
        /\ col' \in Int /\ dir' \in {-1, 1} /\ aReg' \in Int
        /\ aPc' \in {"store", "left", "right", "turn", "leave"}
        /\ aPc' = "turn" => aReg' \in {-1, 1}
    BY <1>11 DEF LoadCol, StoreCol, TestLeft, TestRight, Turn, ballVars
  <2> QED BY <2>1 DEF keyVars, inVars, inputVars
<1>12. CASE UNCHANGED vars
  BY <1>12 DEF vars, keyVars, inVars, ballVars, inputVars, alarmVars
<1> QED BY <1>1, <1>2, <1>3, <1>4, <1>5, <1>6, <1>7, <1>8, <1>9, <1>10, <1>11, <1>12
        DEF Next, OnInput, OnAlarm, Exited

-----------------------------------------------------------------------------
\* A key that goes to the end of a sequence, and one that leaves its front.
LEMMA ConcatAppend ==
    ASSUME NEW S, NEW s \in Seq(S), NEW t \in Seq(S), NEW e \in S
    PROVE  s \o Append(t, e) = Append(s \o t, e)
<1>1. <<e>> \in Seq(S) /\ s \o t \in Seq(S)
  BY ConcatProperties
<1>2. s \o Append(t, e) = s \o (t \o <<e>>)
  BY AppendIsConcat
<1>3. Append(s \o t, e) = (s \o t) \o <<e>>
  BY <1>1, AppendIsConcat
<1> QED BY <1>1, <1>2, <1>3, ConcatAssociative

LEMMA ConcatHeadTail ==
    ASSUME NEW S, NEW s \in Seq(S), NEW t \in Seq(S), s # <<>>
    PROVE  s \o t # <<>> /\ Head(s \o t) = Head(s) /\ Tail(s \o t) = Tail(s) \o t
<1>1. /\ s \o t \in Seq(S) /\ Len(s \o t) = Len(s) + Len(t) /\ Len(s) \in Nat \ {0}
      /\ Len(t) \in Nat
      /\ \A i \in 1..Len(s) + Len(t) : (s \o t)[i] = IF i <= Len(s) THEN s[i] ELSE t[i - Len(s)]
  BY ConcatProperties, EmptySeq, LenProperties
<1>2. s \o t # <<>> /\ Head(s \o t) = Head(s)
  BY <1>1, EmptySeq
<1>3. /\ Tail(s) \in Seq(S) /\ Len(Tail(s)) = Len(s) - 1
      /\ \A i \in 1..Len(Tail(s)) : Tail(s)[i] = s[i + 1]
  BY HeadTailProperties
<1>4. /\ Tail(s \o t) \in Seq(S) /\ Len(Tail(s \o t)) = Len(s \o t) - 1
      /\ \A i \in 1..Len(Tail(s \o t)) : Tail(s \o t)[i] = (s \o t)[i + 1]
  BY <1>1, <1>2, HeadTailProperties
<1>5. /\ Tail(s) \o t \in Seq(S) /\ Len(Tail(s) \o t) = Len(Tail(s)) + Len(t)
      /\ \A i \in 1..Len(Tail(s)) + Len(t) :
            (Tail(s) \o t)[i] = IF i <= Len(Tail(s)) THEN Tail(s)[i] ELSE t[i - Len(Tail(s))]
  BY <1>3, ConcatProperties
<1>6. ASSUME NEW i \in 1..Len(Tail(s \o t)) PROVE Tail(s \o t)[i] = (Tail(s) \o t)[i]
  BY <1>1, <1>3, <1>4, <1>5
<1>7. Tail(s \o t) = Tail(s) \o t
  BY <1>1, <1>3, <1>4, <1>5, <1>6, SeqEqual
<1> QED BY <1>2, <1>7

LEMMA ConcatShift ==
    ASSUME NEW S, NEW s \in Seq(S), NEW t \in Seq(S), t # <<>>
    PROVE  /\ (s \o t)[Len(s) + 1] = Head(t) /\ Len(s) < Len(s \o t)
           /\ Append(s, Head(t)) \o Tail(t) = s \o t
<1>1. Head(t) \in S /\ Tail(t) \in Seq(S) /\ <<Head(t)>> \in Seq(S) /\ Len(t) \in Nat \ {0}
  BY HeadTailProperties, EmptySeq
<1>2. Append(s, Head(t)) = s \o <<Head(t)>>
  BY <1>1, AppendIsConcat
<1>3. <<Head(t)>> \o Tail(t) = t
  <2>1. /\ <<Head(t)>> \o Tail(t) \in Seq(S) /\ Len(<<Head(t)>> \o Tail(t)) = 1 + Len(Tail(t))
        /\ \A i \in 1..1 + Len(Tail(t)) : (<<Head(t)>> \o Tail(t))[i] =
              IF i <= 1 THEN <<Head(t)>>[i] ELSE Tail(t)[i - 1]
    BY <1>1, ConcatProperties
  <2>2. /\ Len(Tail(t)) = Len(t) - 1
        /\ \A i \in 1..Len(Tail(t)) : Tail(t)[i] = t[i + 1]
    BY HeadTailProperties
  <2>3. \A i \in 1..Len(t) : (<<Head(t)>> \o Tail(t))[i] = t[i]
    BY <1>1, <2>1, <2>2
  <2> QED BY <1>1, <2>1, <2>2, <2>3, SeqEqual
<1>4. Append(s, Head(t)) \o Tail(t) = s \o t
  BY <1>1, <1>2, <1>3, ConcatAssociative
<1>5. (s \o t)[Len(s) + 1] = Head(t) /\ Len(s) < Len(s \o t)
  BY <1>1, ConcatProperties, LenProperties
<1> QED BY <1>4, <1>5
-----------------------------------------------------------------------------
\* What a step does to the keys under way: one comes in, the first is acted on,
\* or they only move on towards on_input().
KeyTyped(k) ==
    typed' = Append(typed, k) /\ Pending' = Append(Pending, k) /\ handled' = handled

KeyTaken ==
    /\ Pending # <<>>
    /\ handled' = Append(handled, Head(Pending)) /\ Pending' = Tail(Pending) /\ typed' = typed

KeyMoved == typed' = typed /\ handled' = handled /\ Pending' = Pending

LEMMA PendingType ==
    ASSUME TypeOK
    PROVE  got \o buf \in Seq(Keys) /\ Pending \in Seq(Keys)
BY ConcatProperties DEF TypeOK, Pending

LEMMA ProgramType == TypeOK => program \in {"async", "aio"}
BY ScreenAssumption DEF TypeOK

LEMMA QueueStep ==
    ASSUME KeyInv, [Next]_vars
    PROVE  (\E k \in Keys : KeyTyped(k)) \/ KeyTaken \/ KeyMoved
<1> USE DEF KeyInv
<1>1. ASSUME NEW k \in Keys, Type(k) PROVE KeyTyped(k)
  <2>1. Pending' = (got \o buf) \o Append(tty, k)
    BY <1>1 DEF Type, Pending
  <2>2. Pending' = Append(Pending, k)
    BY <2>1, PendingType, ConcatAppend DEF TypeOK, Pending
  <2> QED BY <1>1, <2>2 DEF Type, KeyTyped
<1>2. CASE AioComplete
  <2>1. program = "aio" /\ buf = <<>> /\ got = <<>>
    BY <1>2, ProgramType DEF AioComplete, AsyncInv, AioInv
  <2>2. CASE tty = <<>>
    BY <1>2, <2>1, <2>2 DEF AioComplete, KeyMoved, Pending, keyVars
  <2>3. CASE tty # <<>>
    <3>1. /\ <<Head(tty)>> \in Seq(Keys) /\ Head(tty) \in Keys /\ Tail(tty) \in Seq(Keys)
          /\ <<>> \in Seq(Keys) /\ tty \in Seq(Keys)
      BY <2>3, HeadTailProperties, EmptySeq DEF TypeOK
    <3>2. Pending' = (<<Head(tty)>> \o <<>>) \o Tail(tty) /\ Pending = (<<>> \o <<>>) \o tty
      BY <1>2, <2>1, <2>3 DEF AioComplete, Pending
    <3>3. <<Head(tty)>> \o <<>> = <<Head(tty)>> /\ <<>> \o <<>> = <<>> /\ <<>> \o tty = tty
      BY <3>1, ConcatEmptySeq
    <3>4. Append(<<>>, Head(tty)) \o Tail(tty) = <<>> \o tty
      BY <2>3, <3>1, ConcatShift
    <3>5. Append(<<>>, Head(tty)) = <<Head(tty)>>
      BY <3>1, <3>3, AppendIsConcat, ConcatEmptySeq
    <3> QED BY <1>2, <3>2, <3>3, <3>4, <3>5 DEF AioComplete, KeyMoved, keyVars
  <2> QED BY <2>2, <2>3
<1>3. CASE GetChar
  <2>1. program = "async" /\ got = <<>> /\ got' = <<>>
    BY <1>3 DEF GetChar, AsyncInv
  <2>2. Pending = buf \o tty /\ Pending' = buf' \o tty'
    <3>1. buf \in Seq(Keys) /\ buf' \in Seq(Keys)
      BY <1>3, TypeStep DEF TypeOK
    <3> QED BY <2>1, <3>1, ConcatEmptySeq DEF Pending
  <2>3. CASE buf # <<>>
    <3>1. buf' = Tail(buf) /\ tty' = tty /\ typed' = typed /\ Act(Head(buf))
      BY <1>3, <2>3 DEF GetChar, Left
    <3>2. Head(buf) \in Keys
      BY <2>3, HeadTailProperties DEF TypeOK
    <3>3. Pending # <<>> /\ Head(Pending) = Head(buf) /\ Pending' = Tail(Pending)
      BY <2>2, <2>3, <3>1, ConcatHeadTail DEF TypeOK
    <3> QED BY <3>1, <3>2, <3>3 DEF Act, KeyTaken
  <2>4. CASE buf = <<>> /\ tty # <<>>
    <3>1. buf' = Tail(tty) /\ tty' = <<>> /\ typed' = typed /\ Act(Head(tty))
      BY <1>3, <2>4 DEF GetChar, Left
    <3>2. Head(tty) \in Keys /\ Tail(tty) \in Seq(Keys)
      BY <2>4, HeadTailProperties DEF TypeOK
    <3>3. Pending = tty /\ Pending' = Tail(tty)
      BY <2>2, <2>4, <3>1, <3>2, ConcatEmptySeq DEF TypeOK
    <3> QED BY <2>4, <3>1, <3>2, <3>3 DEF Act, KeyTaken
  <2>5. CASE buf = <<>> /\ tty = <<>>
    <3>1. Act("eof") /\ "eof" \notin Keys /\ typed' = typed /\ buf' = buf /\ tty' = tty
      BY <1>3, <2>5 DEF GetChar, Keys
    <3> QED BY <2>2, <3>1 DEF Act, KeyMoved
  <2> QED BY <2>3, <2>4, <2>5
<1>4. CASE AioReturn
  <2>1. program = "aio" /\ buf = <<>> /\ Len(got) <= 1 /\ got' = <<>> /\ UNCHANGED <<typed, buf, tty>>
    BY <1>4 DEF AioReturn, AioInv
  <2>2. tty \in Seq(Keys) /\ got \in Seq(Keys) /\ <<>> \in Seq(Keys) /\ <<>> \o tty = tty
        /\ <<>> \o <<>> = <<>> /\ got \o <<>> = got
    BY EmptySeq, ConcatEmptySeq DEF TypeOK
  <2>3. Pending = got \o tty /\ Pending' = tty
    BY <2>1, <2>2 DEF Pending
  <2>4. CASE got = <<>>
    <3>1. Act("nothing") /\ "nothing" \notin Keys
      BY <1>4, <2>4 DEF AioReturn, Keys
    <3> QED BY <2>1, <2>2, <2>3, <2>4, <3>1 DEF Act, KeyMoved
  <2>5. CASE got # <<>>
    <3>1. Head(got) \in Keys /\ Tail(got) = <<>>
      <4>1. Tail(got) \in Seq(Keys) /\ Len(Tail(got)) = Len(got) - 1 /\ Head(got) \in Keys
        BY <2>2, <2>5, HeadTailProperties
      <4>2. Len(got) \in Nat \ {0}
        BY <2>2, <2>5, EmptySeq
      <4> QED BY <2>1, <4>1, <4>2, EmptySeq
    <3>2. Act(Head(got))
      BY <1>4, <2>5 DEF AioReturn
    <3>3. Pending # <<>> /\ Head(Pending) = Head(got) /\ Tail(Pending) = tty
      <4>1. got \o tty # <<>> /\ Head(got \o tty) = Head(got) /\ Tail(got \o tty) = Tail(got) \o tty
        BY <2>5, ConcatHeadTail DEF TypeOK
      <4> QED BY <2>2, <2>3, <3>1, <4>1
    <3> QED BY <2>1, <2>3, <3>1, <3>2, <3>3 DEF Act, KeyTaken
  <2> QED BY <2>4, <2>5
<1>5. CASE Close \/ Tick \/ SetUp \/ Main \/ OnAlarm \/ DeliverInput \/ FlipDir \/ LeaveInput
  <2>1. UNCHANGED <<typed, handled, got, buf, tty>>
    BY <1>5 DEF Close, Tick, SetUp, Main, TestDone, Pause, EndWin, OnAlarm, DeliverAlarm,
        LoadCol, StoreCol, TestLeft, TestRight, Turn, LeaveAlarm, DeliverInput, FlipDir,
        LeaveInput, keyVars, inVars
  <2> QED BY <2>1 DEF KeyMoved, Pending
<1>6. CASE UNCHANGED vars
  BY <1>6 DEF vars, keyVars, inVars, KeyMoved, Pending
<1> QED BY <1>1, <1>2, <1>3, <1>4, <1>5, <1>6 DEF Next, OnInput, Exited
\* What is typed leaves in the order it came.
LEMMA OrderStep ==
    ASSUME KeyInv, [Next]_vars
    PROVE  InOrder' /\ [KS!Next]_KS!vars
<1> USE DEF KeyInv, InOrder
<1>1. typed \in Seq(Keys) /\ handled \in Seq(Keys) /\ Pending \in Seq(Keys)
  BY PendingType DEF TypeOK
<1>2. ASSUME NEW k \in Keys, KeyTyped(k) PROVE InOrder' /\ KS!Next
  <2>1. InOrder'
    <3>1. handled \o Append(Pending, k) = Append(handled \o Pending, k)
      BY <1>1, ConcatAppend
    <3> QED BY <1>2, <3>1 DEF KeyTyped
  <2>2. KS!Type(k)
    BY <1>2 DEF KeyTyped, KS!Type
  <2> QED BY <2>1, <2>2 DEF KS!Next
<1>3. CASE KeyTaken
  <2>1. /\ typed[Len(handled) + 1] = Head(Pending) /\ Len(handled) < Len(typed)
        /\ Append(handled, Head(Pending)) \o Tail(Pending) = typed
    BY <1>1, <1>3, ConcatShift DEF KeyTaken
  <2>2. KS!Handle
    BY <1>3, <2>1 DEF KeyTaken, KS!Handle
  <2> QED BY <1>3, <2>1, <2>2 DEF KeyTaken, KS!Next
<1>4. CASE KeyMoved
  BY <1>4 DEF KeyMoved, KS!vars
<1> QED BY <1>2, <1>3, <1>4, QueueStep

LEMMA ProgramStep == [Next]_vars => program' = program
BY DEF Next, Type, Close, AioComplete, Tick, SetUp, Main, TestDone, Pause, EndWin,
       OnInput, DeliverInput, GetChar, AioReturn, FlipDir, LeaveInput, OnAlarm, DeliverAlarm,
       LoadCol, StoreCol, TestLeft, TestRight, Turn, LeaveAlarm, Exited, vars, inVars

\* getchar(): a byte less under way, and the SIGIO that asked for it is used up.
LEMMA AsyncStep == KeyInv /\ [Next]_vars => AsyncInv'
<1> SUFFICES ASSUME KeyInv, [Next]_vars, program = "async" PROVE AsyncInv'
  BY ProgramStep DEF AsyncInv
<1> USE DEF KeyInv, AsyncInv, Claims
<1>0. /\ buf \in Seq(Keys) /\ tty \in Seq(Keys) /\ Len(buf) \in Nat /\ Len(tty) \in Nat
      /\ got = <<>> /\ req = "none" /\ (closed \/ Claims <= Len(buf) + Len(tty))
  BY LenProperties DEF TypeOK
<1>1. ASSUME NEW k \in Keys, Type(k) PROVE AsyncInv'
  <2>1. Len(tty') = Len(tty) + 1
    BY <1>0, <1>1, AppendProperties DEF Type
  <2> QED BY <1>0, <1>1, <2>1 DEF Type, Notify, inputVars
<1>2. CASE Close
  BY <1>0, <1>2 DEF Close
<1>3. CASE GetChar
  <2>1. CASE buf = <<>> /\ tty = <<>>
    BY <1>0, <1>3, <2>1 DEF GetChar
  <2>2. CASE buf # <<>> \/ tty # <<>>
    <3>1. Len(buf') + Len(tty') = Len(buf) + Len(tty) - 1
      <4>1. CASE buf # <<>>
        <5>1. buf' = Tail(buf) /\ tty' = tty /\ Len(Tail(buf)) = Len(buf) - 1
          BY <1>0, <1>3, <4>1, HeadTailProperties DEF GetChar, Left
        <5>2. Len(buf') = Len(buf) - 1 /\ Len(tty') = Len(tty)
          BY <5>1
        <5> QED BY <1>0, <5>2
      <4>2. CASE buf = <<>>
        <5>1. /\ buf' = Tail(tty) /\ tty' = <<>> /\ Len(Tail(tty)) = Len(tty) - 1
              /\ Len(buf) = 0 /\ Len(tty') = 0
          BY <1>0, <1>3, <2>2, <4>2, HeadTailProperties, EmptySeq DEF GetChar, Left
        <5> QED BY <1>0, <5>1
      <4> QED BY <4>1, <4>2
    <3>2. iPc = "get" /\ iPc' # "get" /\ pend' = pend
      BY <1>3, <2>2 DEF GetChar, Act
    <3> QED BY <1>0, <1>3, <3>1, <3>2 DEF GetChar
  <2> QED BY <2>1, <2>2
<1>4. CASE DeliverInput
  BY <1>0, <1>4 DEF DeliverInput, inVars
<1>5. CASE Tick \/ DeliverAlarm
  BY <1>0, <1>5 DEF Tick, DeliverAlarm, inVars, inputVars
<1>6. CASE SetUp \/ LeaveInput \/ FlipDir
  BY <1>0, <1>6 DEF SetUp, LeaveInput, FlipDir, inVars, inputVars
<1>7. CASE AioComplete \/ AioReturn
  BY <1>0, <1>7 DEF AioComplete, AioReturn
<1>8. CASE UNCHANGED <<inVars, pend, inputVars>>
  BY <1>0, <1>8 DEF inVars, inputVars
<1> QED BY <1>1, <1>2, <1>3, <1>4, <1>5, <1>6, <1>7, <1>8
        DEF Next, Main, TestDone, Pause, EndWin, OnInput, OnAlarm, LoadCol, StoreCol,
            TestLeft, TestRight, Turn, LeaveAlarm, Exited, vars
\* aio: until on_input() returns there is no request, so there is no signal.
LEMMA AioStep == KeyInv /\ [Next]_vars => AioInv'
<1> SUFFICES ASSUME KeyInv, [Next]_vars, program = "aio" PROVE AioInv'
  BY ProgramStep DEF AioInv
<1> USE DEF KeyInv, AioInv
<1>0. /\ buf = <<>> /\ Len(got) <= 1
      /\ got \in Seq(Keys) /\ tty \in Seq(Keys) /\ iPc \in {"idle", "get", "flip", "leave"}
  BY DEF TypeOK
<1>1. CASE \E k \in Keys : Type(k)
  BY <1>0, <1>1 DEF Type, Notify, inputVars
<1>2. CASE Close
  BY <1>0, <1>2 DEF Close, Notify, inputVars
<1>3. CASE AioComplete
  <2>1. Len(got') <= 1
    BY <1>3 DEF AioComplete
  <2> QED BY <1>0, <1>3, <2>1 DEF AioComplete, inputVars
<1>4. CASE GetChar
  BY <1>4 DEF GetChar
<1>5. CASE AioReturn
  BY <1>0, <1>5 DEF AioReturn, Act
<1>6. CASE SetUp
  BY <1>0, <1>6 DEF SetUp, inputVars
<1>7. CASE DeliverInput \/ FlipDir
  BY <1>0, <1>7 DEF DeliverInput, FlipDir, inVars
<1>8. CASE LeaveInput
  BY <1>0, <1>8 DEF LeaveInput, HandlerReturns
<1>9. CASE Tick \/ OnAlarm
  <2>1. /\ UNCHANGED <<inVars, inputVars>> /\ ("input" \in pend' => "input" \in pend)
        /\ (pc' = "set_up" => pc = "set_up")
    BY <1>9 DEF Tick, OnAlarm, DeliverAlarm, LoadCol, StoreCol, TestLeft, TestRight, Turn,
        LeaveAlarm, HandlerReturns, inputVars
  <2> QED BY <1>0, <2>1 DEF inVars, inputVars
<1>10. CASE Main \/ UNCHANGED vars
  <2>1. /\ UNCHANGED <<inVars, inputVars, pend>> /\ (pc' = "set_up" => pc = "set_up")
    BY <1>10 DEF Main, TestDone, Pause, EndWin, vars
  <2> QED BY <1>0, <2>1 DEF inVars, inputVars
<1> QED BY <1>1, <1>2, <1>3, <1>4, <1>5, <1>6, <1>7, <1>8, <1>9, <1>10
        DEF Next, OnInput, Exited

LEMMA KeyInit == Init => KeyInv
<1> SUFFICES ASSUME Init PROVE KeyInv
  OBVIOUS
<1>1. /\ got = <<>> /\ buf = <<>> /\ tty = <<>> /\ typed = <<>> /\ handled = <<>> /\ req = "none"
      /\ pend = {} /\ iPc = "idle"
  BY DEF Init
<1>2. <<>> \in Seq(Keys) /\ <<>> \o <<>> = <<>> /\ Len(<<>>) = 0
  BY EmptySeq, ConcatEmptySeq
<1>3. InOrder
  BY <1>1, <1>2 DEF InOrder, Pending
<1>4. AsyncInv /\ AioInv
  BY <1>1, <1>2 DEF AsyncInv, AioInv, Claims
<1> QED BY <1>3, <1>4, TypeInit DEF KeyInv

LEMMA KeyStep == KeyInv /\ [Next]_vars => KeyInv'
BY TypeStep, OrderStep, AsyncStep, AioStep DEF KeyInv

\* on_input() never waits for a key, however its signals and the keys meet.
THEOREM NeverBlocksSafe == Spec => [](TypeOK /\ NeverBlocks)
<1>1. KeyInv => TypeOK /\ NeverBlocks
  <2> SUFFICES ASSUME KeyInv, iPc = "get"
               PROVE  IF program = "async" THEN buf # <<>> \/ tty # <<>> \/ closed
                                           ELSE req = "complete"
    BY DEF KeyInv, NeverBlocks
  <2>1. CASE program = "async"
    <3>1. Len(<<>>) = 0
      BY EmptySeq
    <3> QED BY <2>1, <3>1 DEF KeyInv, AsyncInv, Claims
  <2>2. CASE program = "aio"
    BY <2>2 DEF KeyInv, AioInv
  <2> QED BY <2>1, <2>2, ProgramType DEF KeyInv
<1> QED BY <1>1, KeyInit, KeyStep, PTL DEF Spec

\* Both programs act on the keys one by one, in the order they were typed, and
\* on none twice, although a key crosses up to three buffers on its way.
THEOREM KeysRefined == Spec => KeysInOrder
<1>1. Init => KS!Init
  BY DEF Init, KS!Init
<1>2. KeyInv /\ [Next]_vars => [KS!Next]_KS!vars
  BY OrderStep
<1> QED BY <1>1, <1>2, KeyInit, KeyStep, PTL DEF Spec, KeysInOrder, KS!Spec
=============================================================================
