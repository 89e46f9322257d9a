---------------------------- MODULE MCProcesses ----------------------------
(* The programs that fork, each alone on the kernel of Unix: command lines of
   up to three commands (three of the second hw7 only where the middle one cannot be
   run), arrays of three numbers, and what can be typed to a shell
   in five lines, of at most three words, where MAXARGS is 20; the first forks succeed
   and the next one may fail. *)
EXTENDS Pipelines, Children

AllPipes ==
    PipeStarts({"cat", "head", "nosuch"}, {0, 2}, {0, 2})
    \cup DoPipeStarts({"cat", "head", "nosuch"}, {1, 2, 3}, {2}, {1, 4})
    \cup LoopStarts({"cat", "head", "nosuch"}, {1, 2}, {2}, {1, 4})
    \cup {st \in LoopStarts({"cat", "nosuch"}, {3}, {1}, {4}) : st.argv = <<"cat", "nosuch", "cat">>}
    \cup PopenStarts({0, 2})

AllChildren ==
    SortStarts([1..3 -> 0..2], {0, 1, 3})
    \cup WaitStarts({0, 1})
    \cup ShellStarts([1..5 -> {"cat", "ls", "nosuch", ""}], {1, 4})

AllStarts == AllPipes \cup AllChildren

TinyBc == TinyBcStarts({0, 1})

\* hw6's functions sort every array of up to four numbers out of 0..3, as they do every
\* array of integers (ProcessProofs).
ASSUME SortsAssumption == \A n \in 0..4 : \A a \in [1..n -> 0..3] : Sorts(a)
=============================================================================
