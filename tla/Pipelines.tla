------------------------------ MODULE Pipelines ------------------------------
(***************************************************************************)
(* The pipe programs of src/191118 on the kernel of Unix, and what they     *)
(* promise: command1 | command2 | ..., with every process started, and every *)
(* descriptor it holds, accounted for.                                      *)
(***************************************************************************)
EXTENDS Unix, PipePrograms

\* A start: program and its text, commands, lines on the terminal, forks that
\* succeed before the process limit is reached.
Run(program, prog, words, lines, n) ==
    [program |-> program, text |-> prog, argv |-> words, lines |-> lines, forks |-> n]

\* Every command line with commands of Cmds.
PipeStarts(Cmds, Lines, Forks) ==
    {Run("pipe", PipeMain, a, l, f) : a \in [1..2 -> Cmds], l \in Lines, f \in Forks}

DoPipeStarts(Cmds, Ks, Lines, Forks) ==
    UNION {{Run("doPipe", doPipe(k), a, l, f) : a \in [1..k -> Cmds], l \in Lines, f \in Forks}
               : k \in Ks}

LoopStarts(Cmds, Ks, Lines, Forks) ==
    UNION {{Run("loop", LoopMain(k), a, l, f) : a \in [1..k -> Cmds], l \in Lines, f \in Forks}
               : k \in Ks}

PopenStarts(Forks)  == {Run("popen", PopenMain, <<"ls">>, 0, f) : f \in Forks}
TinyBcStarts(Lines) == {Run("tinybc", TinyBcMain, <<"cat">>, l, 1) : l \in Lines}

-----------------------------------------------------------------------------
(* Properties                                                               *)

Piping == start.program \in {"pipe", "doPipe", "loop", "popen"}

NoFailure == Piping /\ forks > 0 /\ \A n \in DOMAIN start.argv : start.argv[n] \in {"cat", "ls"}

\* The commands of the line, by position: what is on the screen should have passed.
Chain == [n \in 1..Len(start.argv) |-> n]

\* hw7_2017114533.c departs from it in two ways: it runs the first command twice, and
\* leaves out one in the middle that cannot be run.  The others are passed in order.
PassedInLoop(via) ==
    /\ \A i, j \in DOMAIN via : i < j => via[i] <= via[j]
    /\ Range(via) = {n \in DOMAIN start.argv : start.argv[n] # "nosuch"}

\* What is on the screen went through the commands in the order of the command
\* line, and came out in the order it was typed: no process reads or writes an
\* end of a pipe that is not its own (pipe_p.c, popen_p.c, doPipe() and the loop of hw7).
InOrder ==
    Piping => \A i \in DOMAIN screen :
        /\ IF start.program = "loop" THEN PassedInLoop(screen[i].via) ELSE screen[i].via = Chain
        /\ i > 1 => screen[i - 1].no <= screen[i].no

\* Every process ends, whichever fork or exec fails and whichever command stops
\* early: nobody holds the write end that a reader waits at, or the read end
\* that keeps a writer from its SIGPIPE.
AllEnd == Piping ~> AllEnded

\* Nothing is written to the screen after the process that the shell waits for
\* has ended.
OutputBeforeEnd == [][Piping /\ Ended(1) => screen' = screen]_vars

\* If nothing fails, every line arrives, through the pipes that hold fewer.
NothingLost ==
    Piping ~> (NoFailure => Len(screen) = IF start.program = "popen" THEN 2 ELSE start.lines)

\* The comment in be_bc(), "dc will see EOF": when it has closed its ends of the
\* pipes, and main() waits, dc comes to its end.
DcSeesEof == At(1, "wait") ~> Ended(2)
=============================================================================
