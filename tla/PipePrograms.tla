---------------------------- MODULE PipePrograms ----------------------------
(***************************************************************************)
(* The programs of src/191118 that connect processes by pipes, as texts.    *)
(* argv is numbered from 1 and has the commands only; k is how many.        *)
(***************************************************************************)
EXTENDS Syscalls, Integers

-----------------------------------------------------------------------------
(* pipe_p.c: the parent becomes the second command, the child the first.    *)

\* Mutant: the parent keeps the end it does not write to.
PipeParentKeepsEnd ==
    <<Dup2(R("thepipe", 1), In), Close(R("thepipe", 1)), Exec(2), Exit>>

PipeParent ==
    <<Close(W("thepipe", 1)), Dup2(R("thepipe", 1), In), Close(R("thepipe", 1)), Exec(2), Exit>>

PipeChild ==
    <<Close(R("thepipe", 1)), Dup2(W("thepipe", 1), Out), Close(W("thepipe", 1)), Exec(1), Exit>>

PipeMain == <<Pipe("thepipe", 1), Fork(PipeChild, <<Exit>>)>> \o PipeParent

-----------------------------------------------------------------------------
(* hw7/hw7_2018110124.c: doPipe() forks a child for each command and goes   *)
(* on, recursively, with the read end of its pipe as standard input.        *)

\* The child of doPipe(av, n, pid).  The last command keeps its stdout, and
\* both ends of the pipe that was made for it.
doPipeChild(n, k) ==
    IF n = k THEN <<Exec(n), Exit>>
    ELSE <<Close(R("thepipe", n)), Dup2(W("thepipe", n), Out), Close(W("thepipe", n)),
           Exec(n), Exit>>

doPipeParent(n) ==
    <<Close(W("thepipe", n)), Dup2(R("thepipe", n), In), Close(R("thepipe", n))>>

\* Mutant: the last child is not waited for.
doPipeEndNoWait == <<Exit>>

\* av[n] is "NULL": waitpid() of the last child; its caller then calls oops().
doPipeEnd == <<WaitPid, Exit>>

\* doPipe(av, n, pid) for every n.
doPipe(k) ==
    LET from[n \in 1..k + 1] ==
          IF n = k + 1 THEN doPipeEnd
          ELSE <<Pipe("thepipe", n), Fork(doPipeChild(n, k), <<Exit>>)>>
               \o doPipeParent(n) \o from[n + 1]
    IN from[1]

-----------------------------------------------------------------------------
(* hw7/hw7_2017114533.c: the parent becomes the last command; the child goes *)
(* on with the one before, round by round, and becomes the first command, as *)
(* its parent does.  fork() is not checked: -1 is taken for the child's 0.   *)

\* Mutant: the commands are taken from the left.
AvForward(i, k) == i + 1

\* av[ac - 2 - i], counted from 0, where ac - 2 = k.
Av(i, k) == k - i

LoopParent(i, k) ==
    <<Close(W("thepipe", i)), Dup2(R("thepipe", i), In), Close(R("thepipe", i)), Exec(Av(i, k))>>

LoopChild(i) ==
    <<Close(R("thepipe", i)), Dup2(W("thepipe", i), Out), Close(W("thepipe", i))>>

\* Before the loop a parent whose execlp() fails comes to the end of main().  In the
\* loop it falls through to the next round, as its child does.
LoopMain(k) ==
    LET round[i \in 0..k] ==
          IF i = k THEN <<Exec(Av(k - 1, k)), Exit>>
          ELSE <<Pipe("thepipe", i),
                 Fork(LoopChild(i) \o round[i + 1], LoopChild(i) \o round[i + 1])>>
               \o LoopParent(i, k) \o (IF i = 0 THEN <<Exit>> ELSE round[i + 1])
    IN round[0]

-----------------------------------------------------------------------------
(* popen_p.c: popen("ls", "r") and the loop that prints what ls writes.     *)

PopenChild ==
    <<Close(R("pfp", 1)), Dup2(W("pfp", 1), Out), Close(W("pfp", 1)), Exec(1), Exit>>

\* Mutant: if for while.
PopenMainOnce ==
    <<Pipe("pfp", 1), Fork(PopenChild, <<Exit>>), Close(W("pfp", 1)),
      Read(R("pfp", 1)), Write(Out, <<>>), Exit>>

\* The child is never waited for.  When popen() returns NULL, fgets() crashes.
PopenMain ==
    <<Pipe("pfp", 1), Fork(PopenChild, <<Exit>>), Close(W("pfp", 1)),
      Loop(<<Read(R("pfp", 1)), Write(Out, <<>>)>>), Exit>>

-----------------------------------------------------------------------------
(* tinybc_p.c: main() is the user interface of dc, its child.               *)

\* dc's stdout is not redirected, and it keeps todc[1].
be_dc ==
    <<Dup2(R("todc", 1), In), Close(W("fromdc", 1)), Close(R("fromdc", 1)), Exec(1), Exit>>

be_bc ==
    <<Close(R("todc", 1)), Close(W("fromdc", 1)),
      Loop(<<Read(In), Write(W("todc", 1), <<>>), Read(R("fromdc", 1)), Write(Out, <<>>)>>),
      Close(W("todc", 1)), Close(R("fromdc", 1))>>

TinyBcMain ==
    <<Pipe("todc", 1), Pipe("fromdc", 1), Fork(be_dc, <<Exit>>)>> \o be_bc \o <<Wait, Exit>>
=============================================================================
