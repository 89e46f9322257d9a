----------------------------- MODULE Dialogues -----------------------------
(***************************************************************************)
(* The programs of TtyPrograms on the terminal of Terminal.                 *)
(***************************************************************************)
EXTENDS Terminal, TtyPrograms, SequencesExt

\* The shell leaves the terminal in line mode and reads that block; something may
\* have set O_APPEND, or switched echo off.
Usual == {"icanon", "echo"}

Started(program, prog, keys, types, signals) ==
    [program |-> program, text |-> prog, keys |-> keys, types |-> types, signals |-> signals,
     tty |-> Usual, flags |-> {},
     procs |-> IF program = "hw4"
               THEN [command_mode |-> command_mode, insert_mode |-> insert_mode] ELSE <<>>]

\* n keys are typed to the untimed programs, m to the timed ones.
QuestionStarts(n, m) ==
    LET timed == {Started("play_again3", PlayAgain3, {Char.y, Char.n, Char.A}, m, 1),
                  Started("play_again4", PlayAgain4, {Char.y, Char.N, Char.A}, m, 2)}
    IN {Started("play_again0", PlayAgain0, {Char.y, Char.n, Char.A, Newline, Eot}, n, 1),
        Started("play_again1", PlayAgain1, {Char.Y, Char.n, Char.A, Newline}, n, 1),
        Started("play_again2", PlayAgain2, {Char.y, Char.N, Char.A, Newline}, n, 1)}
       \cup timed \cup {[s EXCEPT !.flags = {"append"}] : s \in timed}

EditorStarts(n) ==
    LET hw4 == Started("hw4", LineEditor, {Char.i, Char.one, Char.two, Char.q, Char.z, Esc}, n, 0)
    IN {hw4, [hw4 EXCEPT !.tty = {"icanon"}],
        Started("rotate", Copy, {Char.i, Char.z, Newline, Eot}, n, 0)}

SignalStarts(n) ==
    {Started("sleep1", Sleep, {}, 0, n), Started("sigactdemo", SigAct, {ALine}, n - 1, n),
     Started("sigdemo", SigDemo, {ALine, AQuit}, n - 1, n)}

-----------------------------------------------------------------------------
(* Properties                                                               *)

Asks == start.program \in {"play_again0", "play_again1", "play_again2", "play_again3", "play_again4"}

Timed == start.program \in {"play_again3", "play_again4"}

\* A program that ends by itself, by its answer, by q, or in the handler of the
\* interrupt key, leaves the modes of the terminal as it found them and reads
\* that block; and the other flags too, unless the handler came into the middle of
\* the restoring and did it again.  Once play_again4 has arranged for both of its signals
\* they cannot end it in any other way.
RestoresTerminal ==
    /\ state = "exited" =>
         /\ tty = start.tty
         /\ start.program # "hw4" => flags = start.flags \/ (flags = {} /\ sent # <<>>)
    /\ state = "killed" /\ start.program = "play_again4" =>
         \E s \in {"INT", "QUIT"} : action[s] = Default

\* The answer is that of the first key that is one, whatever else was typed and
\* when; the question is given up after TRIES beeps, one look each, and only if
\* none of the keys typed before the last look was an answer.
AnswersTheQuestion ==
    Asks /\ state = "exited" /\ "INT" \notin Range(sent) =>
        IF code = 2 \/ used = 0 \/ typed[used] = Eot
        THEN /\ ~\E k \in 1..(IF Timed THEN looked ELSE used) : typed[k] \in Answers
             /\ Timed => code = 2 /\ Len(out) = TRIES
        ELSE /\ code = Answer(typed[used])
             /\ ~\E k \in 1..used - 1 : typed[k] \in Answers

\* What hw4 does, without the calls of its two functions in each other: keys change
\* its mode, its echo and its output.
Edited(s, c) ==
    CASE s.inserting /\ c # Esc -> [s EXCEPT !.out = Append(@, Rotated(c))]
      [] s.inserting            -> [s EXCEPT !.inserting = FALSE, !.out = Append(@, Command)]
      [] c = Char.i             -> [s EXCEPT !.inserting = TRUE, !.out = Append(@, Insert)]
      [] c = Char.one           -> [s EXCEPT !.echo = {"echo"}, !.out = Append(@, EchoOn)]
      [] c = Char.two           -> [s EXCEPT !.echo = {}, !.out = Append(@, EchoOff)]
      [] OTHER                  -> s

Shown == FoldLeft(Edited, [inserting |-> FALSE, echo |-> {}, out |-> <<>>], SubSeq(typed, 1, used))

\* Whatever keys are typed, and typed ahead, hw4 is in the mode that they lead to when
\* it waits for the next: after any nesting of its two functions the letters of the
\* insert modes, and only they, come out rotated, and echo is as it was last set.
\* rotate.c rotates all of them.
EditsAsTyped ==
    /\ start.program = "hw4" /\ At("getchars") =>
         out = Shown.out /\ tty = Shown.echo
    /\ start.program = "rotate" /\ At("getchars") =>
         out = SelectSeq([k \in 1..used |-> Rotated(typed[k])], LAMBDA c : c # Eot)

\* The handlers that have begun and are not done, by what they have written; <<0>> if
\* one is done before one that interrupted it, or interrupts itself.
Begun ==
    LET write(h, c) ==
            CASE h = <<0>>                 -> h
              [] c \in {Called, Quit}     -> IF c \in Range(h) THEN <<0>> ELSE Append(h, c)
              [] c \in {Done, QuitDone}   -> IF h # <<>> /\ Last(h) = c - 1 THEN Front(h) ELSE <<0>>
              [] OTHER                    -> h
    IN FoldLeft(write, <<>>, out)

\* The handlers of the signal demos are not cut short.  In sigactdemo SIGQUIT waits until
\* the handler of SIGINT is done, and a second SIGINT, which kills, does too; in sigdemo
\* either handler may interrupt the other, but not itself, and once both are arranged
\* nothing ends the program but the line quit, read with both of them done.
HandlerFinishes ==
    /\ start.program = "sigactdemo" =>
         /\ Len(Begun) <= 1 /\ Begun # <<0>>
         /\ state # "running" => Begun = <<>>
    /\ start.program = "sigdemo" =>
         /\ Begun # <<0>>
         /\ state = "exited" => Begun = <<>> /\ typed[used] = AQuit
         /\ state = "killed" => \E s \in {"INT", "QUIT"} : action[s] = Default

\* The question is over in the end although nobody answers it; and sleep1 wakes up,
\* unless the clock rang before it had gone to sleep.  Nothing but an interrupt kills.
EndsInTime ==
    /\ Timed ~> state # "running"
    /\ start.program = "sleep1" /\ At("paused") /\ alarm ~> state # "running"
=============================================================================
