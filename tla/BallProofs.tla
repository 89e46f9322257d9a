----------------------------- MODULE BallProofs -----------------------------
(***************************************************************************)
(* Theorems about Ball, for every court, every initial speed and every set  *)
(* of reachable speeds (Ttms may be Int: no bound on the keys pressed).     *)
(***************************************************************************)
EXTENDS Ball, TLAPS

\* What main()'s position says of the timer, the signal and the terminal: the
\* strengthening that DrawsInsideCurses needs.
SignalOrder ==
    /\ pc \in {"set_up", "arm"} =>
           action = "default" /\ ~ticking /\ ~pending /\ hpc = "idle"
    /\ pc \notin {"set_up", "arm"} => action # "default"
    /\ pc \notin {"set_up", "return", "done"} => curses
    /\ pc \in {"endwin", "return", "done"} => ~ticking
    /\ pc \in {"return", "done"} => hpc = "idle" /\ ~pending

\* InCourt is not inductive: a ball on a wall must also head inside.
CourtInv == TypeOK /\ InCourt /\ HeadsInside /\ CountdownLives

-----------------------------------------------------------------------------
\* bounce_or_lose() after one step of each due axis: from a ball inside the
\* court that heads inside, to another.
LEMMA StepStaysInside ==
    ASSUME NEW a \in Axes, CourtInv, IsSetUp, MoveBall
    PROVE  /\ pos'[a] \in Lo[a]..Hi[a]
           /\ dir'[a] \in {-1, 1}
           /\ pos'[a] = Lo[a] => dir'[a] = 1
           /\ pos'[a] = Hi[a] => dir'[a] = -1
<1>1. /\ Lo[a] \in Int /\ Hi[a] \in Int /\ Lo[a] < Hi[a] /\ pos[a] \in Int
      /\ pos[a] \in Lo[a]..Hi[a] /\ dir[a] \in {-1, 1}
      /\ pos[a] = Lo[a] => dir[a] = 1
      /\ pos[a] = Hi[a] => dir[a] = -1
  BY CourtAssumption DEF CourtInv, TypeOK, Cells, InCourt, HeadsInside
<1>2. pos'[a] = IF Due(a) THEN pos[a] + dir[a] ELSE pos[a]
  BY DEF MoveBall
<1>3. pos'[a] \in Lo[a]..Hi[a]
  BY <1>1, <1>2
<1>4. CASE \E b \in Axes : Due(b)
  <2>1. dir'[a] = IF pos'[a] = Lo[a] THEN 1
                  ELSE IF pos'[a] = Hi[a] THEN -1 ELSE dir[a]
    BY <1>4 DEF MoveBall, Bounced
  <2> QED BY <2>1, <1>1, <1>3
<1>5. CASE ~ \E b \in Axes : Due(b)
  <2>1. dir'[a] = dir[a] /\ pos'[a] = pos[a]
    BY <1>5, <1>2 DEF MoveBall
  <2> QED BY <2>1, <1>1
<1> QED BY <1>3, <1>4, <1>5

\* MoveBall keeps the types of the fields it writes.
LEMMA MoveBallType ==
    ASSUME TypeOK, MoveBall
    PROVE  TypeOK'
<1>1. pos' \in Cells /\ ttg' \in [Axes -> Int]
  BY DEF TypeOK, MoveBall, Cells, Due
<1>2. dir' \in [Axes -> {-1, 0, 1}]
  <2>1. \A p \in Cells : Bounced(p) \in [Axes -> {-1, 0, 1}]
    BY DEF TypeOK, Bounced
  <2> QED BY <2>1, <1>1 DEF TypeOK, MoveBall
<1>3. screen' \in SUBSET Cells
  BY <1>1 DEF TypeOK, MoveBall, Redrawn
<1> QED BY <1>1, <1>2, <1>3 DEF TypeOK, MoveBall, mainVars

LEMMA CourtInit == Init => CourtInv
<1>1. -1 # 0 /\ 0 \in Int
  OBVIOUS
<1> QED BY <1>1 DEF Init, CourtInv, TypeOK, Cells, InCourt, HeadsInside, CountdownLives,
                    IsSetUp, Keys, AxisOf

LEMMA CourtStep == CourtInv /\ [Next]_vars => CourtInv'
<1> SUFFICES ASSUME CourtInv, [Next]_vars PROVE CourtInv'
  OBVIOUS
<1> USE DEF CourtInv
<1>1. CASE SetUp
  <2>1. TypeOK'
    BY <1>1, CourtAssumption DEF SetUp, TypeOK, Cells, sigVars
  <2>2. \A a \in Axes : pos'[a] = Start[a] /\ dir'[a] = 1 /\ ttg'[a] = TtmInit[a]
    BY <1>1 DEF SetUp
  <2>3. \A a \in Axes : /\ Lo[a] \in Int /\ Hi[a] \in Int /\ Start[a] \in Int
                        /\ Lo[a] <= Start[a] /\ Start[a] < Hi[a]
                        /\ TtmInit[a] \in Int /\ TtmInit[a] > 0
    BY CourtAssumption
  <2> QED BY <2>1, <2>2, <2>3 DEF InCourt, HeadsInside, CountdownLives
<1>2. CASE StartTicker
  BY <1>2 DEF StartTicker, ballVars, TypeOK, InCourt, HeadsInside, CountdownLives, IsSetUp
<1>3. CASE ReadKey
  <2>1. PICK k \in Keys : key' = k
    BY <1>3 DEF ReadKey
  <2>2. pc' \in {"getchar", "load", "wrap_up"} /\ (pc' = "load" => key' \in DOMAIN AxisOf)
    BY <1>3, <2>1 DEF ReadKey, Dispatch, Keys
  <2> QED BY <1>3, <2>1, <2>2 DEF ReadKey, ballVars, sigVars, TypeOK, InCourt, HeadsInside,
                                  CountdownLives, IsSetUp
<1>4. CASE LoadTtm
  <2>1. AxisOf[key] \in Axes
    BY <1>4 DEF LoadTtm, TypeOK, AxisOf, Axes
  <2>2. reg' \in Int
    BY <1>4, <2>1 DEF LoadTtm, TypeOK, Requested
  <2> QED BY <1>4, <2>2 DEF LoadTtm, ballVars, sigVars, TypeOK, InCourt, HeadsInside,
                            CountdownLives, IsSetUp
<1>5. CASE StoreTtm
  BY <1>5 DEF StoreTtm, sigVars, TypeOK, InCourt, HeadsInside, CountdownLives, IsSetUp
<1>6. CASE StopTicker \/ EndWin \/ Return
  BY <1>6 DEF StopTicker, EndWin, Return, ballVars, sigVars, TypeOK, InCourt, HeadsInside,
              CountdownLives, IsSetUp
<1>7. CASE Tick \/ EnterBallMove \/ Rearm \/ LeaveBallMove
  BY <1>7 DEF Tick, EnterBallMove, Rearm, LeaveBallMove, ballVars, mainVars, TypeOK, InCourt,
              HeadsInside, CountdownLives, IsSetUp
<1>8. CASE MoveBall
  <2>1. TypeOK'
    BY <1>8, MoveBallType
  <2>2. IsSetUp' = IsSetUp
    BY <1>8 DEF MoveBall, mainVars, IsSetUp
  <2>3. InCourt' /\ HeadsInside'
    BY <1>8, <2>2, StepStaysInside DEF InCourt, HeadsInside
  <2>4. ASSUME IsSetUp, NEW a \in Axes PROVE ttg'[a] >= 1
    <3>1. ttg[a] \in Int /\ ttg[a] >= 1 /\ ttm[a] \in Int
      BY <2>4 DEF TypeOK, CountdownLives
    <3>2. ttg'[a] = IF Due(a) THEN ttm[a]
                    ELSE IF ttm[a] > 0 THEN ttg[a] - 1 ELSE ttg[a]
      BY <1>8 DEF MoveBall
    <3> QED BY <3>1, <3>2 DEF Due
  <2> QED BY <2>1, <2>2, <2>3, <2>4 DEF CountdownLives
<1>9. CASE UNCHANGED vars
  BY <1>9 DEF vars, ballVars, mainVars, sigVars, TypeOK, InCourt, HeadsInside, CountdownLives,
              IsSetUp
<1> QED BY <1>1, <1>2, <1>3, <1>4, <1>5, <1>6, <1>7, <1>8, <1>9
        DEF Next, Main, Handler, Finished

\* The ball stays inside the court and types are kept, whatever keys arrive
\* between whatever ticks (ball_move() and bounce_or_lose() against main()).
THEOREM CourtSafe == Spec => [](TypeOK /\ InCourt /\ HeadsInside /\ CountdownLives)
<1>1. Init => CourtInv
  BY CourtInit
<1>2. CourtInv /\ [Next]_vars => CourtInv'
  BY CourtStep
<1> QED BY <1>1, <1>2, PTL DEF Spec, CourtInv
-----------------------------------------------------------------------------
\* The screen shows one symbol, at the_ball's position, at every instant.
THEOREM OneBallSafe == Spec => []OneBall
<1>1. Init => CourtInv /\ OneBall
  BY CourtInit DEF Init, OneBall, IsSetUp
<1>2. CourtInv /\ OneBall /\ [Next]_vars => OneBall'
  <2> SUFFICES ASSUME CourtInv, OneBall, [Next]_vars PROVE OneBall'
    OBVIOUS
  <2>1. CASE SetUp
    BY <2>1 DEF SetUp, OneBall
  <2>2. CASE MoveBall
    <3>1. CASE \E a \in Axes : Due(a)
      BY <2>2, <3>1 DEF MoveBall, Redrawn, OneBall, IsSetUp, mainVars
    <3>2. CASE ~ \E a \in Axes : Due(a)
      <4>1. pos' = [a \in Axes |-> pos[a]] /\ screen' = screen
        BY <2>2, <3>2 DEF MoveBall
      <4>2. pos' = pos
        BY <4>1 DEF CourtInv, TypeOK, Cells
      <4> QED BY <2>2, <4>1, <4>2 DEF MoveBall, OneBall, IsSetUp, mainVars
    <3> QED BY <3>1, <3>2
  <2>3. CASE pos' = pos /\ screen' = screen /\ (IsSetUp' => IsSetUp)
    BY <2>3 DEF OneBall
  <2> QED BY <2>1, <2>2, <2>3
          DEF Next, Main, Handler, Finished, StartTicker, ReadKey, LoadTtm, StoreTtm,
              StopTicker, EndWin, Return, Tick, EnterBallMove, Rearm, LeaveBallMove, vars,
              ballVars, mainVars, sigVars, IsSetUp
<1>3. CourtInv /\ [Next]_vars => CourtInv'
  BY CourtStep
<1> QED BY <1>1, <1>2, <1>3, PTL DEF Spec

\* set_up() arms the timer last and wrap_up() stops it first, so ball_move()
\* calls the curses library only while it is initialised.
THEOREM HandlerInsideCurses == Spec => []DrawsInsideCurses
<1>1. Init => SignalOrder
  BY DEF Init, SignalOrder
<1>2. SignalOrder /\ [Next]_vars => SignalOrder'
  <2> SUFFICES ASSUME SignalOrder, [Next]_vars PROVE SignalOrder'
    OBVIOUS
  <2> USE DEF SignalOrder, ballVars, mainVars, sigVars
  <2>1. CASE SetUp
    BY <2>1 DEF SetUp
  <2>2. CASE StartTicker
    BY <2>2 DEF StartTicker
  <2>3. CASE ReadKey
    BY <2>3 DEF ReadKey, Dispatch
  <2>4. CASE LoadTtm \/ StoreTtm
    BY <2>4 DEF LoadTtm, StoreTtm
  <2>5. CASE StopTicker
    BY <2>5 DEF StopTicker
  <2>6. CASE EndWin \/ Return
    BY <2>6 DEF EndWin, Return
  <2>7. CASE Tick
    BY <2>7 DEF Tick
  <2>8. CASE EnterBallMove
    BY <2>8 DEF EnterBallMove
  <2>9. CASE MoveBall
    BY <2>9 DEF MoveBall
  <2>10. CASE Rearm \/ LeaveBallMove
    BY <2>10 DEF Rearm, LeaveBallMove
  <2>11. CASE UNCHANGED vars
    BY <2>11 DEF vars
  <2> QED BY <2>1, <2>2, <2>3, <2>4, <2>5, <2>6, <2>7, <2>8, <2>9, <2>10, <2>11
          DEF Next, Main, Handler, Finished
<1>3. SignalOrder => DrawsInsideCurses
  BY DEF SignalOrder, DrawsInsideCurses
<1> QED BY <1>1, <1>2, <1>3, PTL DEF Spec
=============================================================================
