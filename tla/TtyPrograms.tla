---------------------------- MODULE TtyPrograms ----------------------------
(***************************************************************************)
(* Programs of src/191007 and src/191028 that talk to their user, as texts. *)
(***************************************************************************)
EXTENDS TtyCalls

Char == [y |-> 121, Y |-> 89, n |-> 110, N |-> 78, i |-> 105, q |-> 113, a |-> 97, z |-> 122,
         A |-> 65, one |-> 49, two |-> 50]

Keys == {Char[c] : c \in DOMAIN Char} \cup {Newline, Esc, ALine, AQuit, Eof}

\* What the programs print about themselves.
Beep    == 7
Insert  == 2001    EchoOn  == 2003    Asleep  == 2005    Called == 2007
Command == 2002    EchoOff == 2004    Morning == 2006    Done   == 2008
Rang    == 2009    Input   == 2010    Quit == 2011    QuitDone == 2012

\* get_response(): the answer, as main() returns it.
Answer(c) == CASE c \in {Char.y, Char.Y} -> 0 [] c \in {Char.n, Char.N} -> 1
Answers == {Char.y, Char.Y, Char.n, Char.N}

-----------------------------------------------------------------------------
(* play_again0.c to play_again2.c: the question is asked until it is         *)
(* answered; the end of the file says no.                                    *)

\* Key c, or the end of the file, ends the program through the calls in end.
AnswerOrEof(end) ==
    GetChars([c \in Keys |-> IF c = Eof THEN end \o <<ExitWith(1)>>
                             ELSE IF c \in Answers THEN end \o <<ExitWith(Answer(c))>>
                             ELSE <<>>],
             Answers \cup {Eof})

PlayAgain0 == <<AnswerOrEof(<<>>)>>
PlayAgain1 == <<Save, Change({"icanon"}, {}), AnswerOrEof(<<Restore>>)>>
PlayAgain2 == <<Save, Change({"icanon", "echo"}, {}), AnswerOrEof(<<Restore>>)>>

-----------------------------------------------------------------------------
(* play_again3.c, play_again4.c                                              *)

TRIES == 3

tty_mode0 == <<Save, SaveFlags>>

\* Mutant: only the modes are restored.
TtyModeNoFlags == <<Restore, StoreResult>>

tty_mode1 == <<Restore, RestoreFlags, StoreResult>>

set_cr_noecho_mode == Change({"icanon", "echo"}, {})

\* Mutant: the flags are read, but not set.
NoDelayNotSet == Change({}, {})

set_nodelay_mode == SetFlag("ndelay")

\* Mutant: a capital is no answer.
LowerCaseOnly(answered, nothing) ==
    GetChars([c \in Keys |-> IF c \in {Char.y, Char.n} THEN answered[c]
                             ELSE IF c = Eof THEN nothing ELSE <<>>],
             {Char.y, Char.n, Eof})

\* get_ok_char() passes over what is no answer, to the end of the keys typed.
get_ok_char(answered, nothing) ==
    GetChars([c \in Keys |-> IF c \in Answers THEN answered[c]
                             ELSE IF c = Eof THEN nothing ELSE <<>>],
             Answers \cup {Eof})

\* maxtries is tested after a look, and then decreased.
get_response ==
    LET ended(r) == tty_mode1 \o <<ExitWith(r)>>
        answered == [c \in Answers |-> ended(Answer(c))]
        Ask[maxtries \in 0..TRIES] ==
            <<get_ok_char(answered, IF maxtries = 0 THEN ended(2)
                                    ELSE <<Put(Beep)>> \o Ask[maxtries - 1])>>
    IN Ask[TRIES]

PlayAgain3 == tty_mode0 \o <<set_cr_noecho_mode, set_nodelay_mode>> \o get_response

ctrl_c_handler == tty_mode1 \o <<ExitWith(1)>>

PlayAgain4 ==
    tty_mode0
    \o <<set_cr_noecho_mode, set_nodelay_mode,
         Signal("INT", Run(ctrl_c_handler)), Signal("QUIT", Ignore)>>
    \o get_response

-----------------------------------------------------------------------------
(* hw4_2018110124.c and rotate.c                                             *)

Lower == Char.a..Char.z

Rotated(c) == IF c = Char.z THEN Char.a ELSE IF c \in Lower THEN c + 1 ELSE c

Copy == <<GetChars([c \in Keys |-> IF c = Eof THEN <<ExitWith(0)>> ELSE <<Put(Rotated(c))>>], {Eof})>>

echo_on  == <<Change({}, {"echo"}), Put(EchoOn)>>
echo_off == <<Change({"echo"}, {}), Put(EchoOff)>>

command_mode ==
    <<GetChars([c \in Keys |->
          CASE c = Char.i   -> <<Put(Insert), CallOf("insert_mode")>>
            [] c = Char.one -> echo_on
            [] c = Char.two -> echo_off
            [] c = Char.q   -> tty_mode1 \o <<ExitWith(1)>>
            [] OTHER   -> <<>>], {})>>

\* Mutant: the loop is not left at Esc.
InsertModeStays ==
    <<GetChars([c \in Keys |-> <<Put(IF c = Esc THEN Command ELSE Rotated(c))>>], {})>>

\* It does not return to command_mode() but calls it again.
insert_mode ==
    <<GetChars([c \in Keys |-> IF c = Esc THEN <<>> ELSE <<Put(Rotated(c))>>], {Esc}),
      Put(Command), CallOf("command_mode")>>

LineEditor == tty_mode0 \o <<set_cr_noecho_mode, CallOf("command_mode")>>

-----------------------------------------------------------------------------
(* sleep1.c; sigactdemo.c and sigdemo.c, but for the end of their input      *)

wakeup == <<Put(Rang)>>

Sleep == <<Put(Asleep), Signal("ALRM", Run(wakeup)), Alarm, Pause, Put(Morning), ExitWith(0)>>

inthandler == <<Put(Called), Put(Done)>>

\* Mutant: SIGQUIT is not blocked.
SigActNoMask == <<Signal("INT", RunOnce(inthandler, {})),
                  GetChars([c \in Keys |-> <<Put(Input)>>], {})>>

\* The first SIGINT runs the handler, and only the first.
SigAct == <<Signal("INT", RunOnce(inthandler, {"QUIT"})),
            GetChars([c \in Keys |-> <<Put(Input)>>], {})>>

quithandler == <<Put(Quit), Put(QuitDone)>>

\* The program ends with the line quit.
SigDemo == <<Signal("INT", Run(inthandler)), Signal("QUIT", Run(quithandler)),
             GetChars([c \in Keys |-> <<Put(Input)>>], {AQuit}), ExitWith(0)>>
=============================================================================
