------------------------------ MODULE Children ------------------------------
(***************************************************************************)
(* The programs of ForkPrograms on the kernel of Unix, with what the shells *)
(* psh1 and psh2 keep of the command line.                                  *)
(***************************************************************************)
EXTENDS Unix, ForkPrograms

CONSTANT MaxArgs    \* MAXARGS

ASSUME MaxArgsAssumption == MaxArgs \in Nat \ {0}

NoWord == ""    \* an empty line

\* argv[p] is arglist, up to numargs; log is a history of what was read and printed.
taken    == log.taken
reported == log.reported

-----------------------------------------------------------------------------
(* psh1.c, psh2.c: main() *)

\* A word is added to the arguments, and the loop ends when there are too many;
\* an empty line runs the command that they make up, if there are any.
Take(p, w) ==
    /\ log' = [log EXCEPT !.taken = Append(@, w)]
    /\ IF w # NoWord THEN /\ argv' = [argv EXCEPT ![p] = Append(@, w)]
                      /\ IF Len(argv[p]) + 1 = MaxArgs THEN GoOn(p, <<Exit>>) ELSE UNCHANGED text
                 ELSE /\ IF argv[p] # <<>> THEN GoOn(p, Call(p).execute \o text[p])
                                           ELSE UNCHANGED text
                      /\ UNCHANGED argv

ReadArg(p) ==
    /\ At(p, "arg") /\ typed < start.lines
    /\ typed' = typed + 1
    /\ Take(p, start.typing[typed + 1])
    /\ UNCHANGED <<start, parent, kid, forks, lives, fds, line, pipes, files, screen>>

\* fgets() at the end of file is an empty line.
ArgAtEof(p) ==
    /\ At(p, "arg") /\ typed = start.lines /\ argv[p] # <<>>
    /\ Take(p, NoWord)
    /\ UNCHANGED <<start, parent, kid, forks, lives, fds, line, data>>

\* Without arguments it prompts again, and for ever.
PromptAgain(p) ==
    /\ At(p, "arg") /\ typed = start.lines /\ argv[p] = <<>>
    /\ UNCHANGED vars

-----------------------------------------------------------------------------
(* psh2.c: execute(); waitdemo2.c *)

\* Mutant: == for !=.
WaitForOther(p) ==
    /\ At(p, "waitfor")
    /\ \E q \in Children(p) :
         /\ status[q] = "zombie"
         /\ status' = [status EXCEPT ![q] = "gone"]
         /\ IF q # kid[p] THEN GoOn(p, Rest(p)) ELSE UNCHANGED text
    /\ UNCHANGED <<family, code, fds, line, data>>

\* wait() is called until it returns the child of the last fork().
WaitForChild(p) ==
    /\ At(p, "waitfor")
    /\ \E q \in Children(p) :
         /\ status[q] = "zombie"
         /\ status' = [status EXCEPT ![q] = "gone"]
         /\ IF q = kid[p] THEN GoOn(p, Rest(p)) ELSE UNCHANGED text
    /\ UNCHANGED <<family, code, fds, line, data>>

\* Mutant: numargs is not reset.
ReportStatusNoReset(p) ==
    /\ At(p, "report")
    /\ log' = [log EXCEPT !.reported =
                   Append(@, [argv |-> argv[p], status |-> code[kid[p]]])]
    /\ GoOn(p, Rest(p))
    /\ UNCHANGED <<start, parent, kid, argv, forks, lives, fds, line, data>>

\* The status is printed, and a shell forgets the arguments: numargs = 0.
ReportStatus(p) ==
    /\ At(p, "report")
    /\ log' = [log EXCEPT !.reported =
                   Append(@, [argv |-> argv[p], status |-> code[kid[p]]])]
    /\ argv' = [argv EXCEPT ![p] = <<>>]
    /\ GoOn(p, Rest(p))
    /\ UNCHANGED <<start, parent, kid, forks, lives, fds, line, data>>

-----------------------------------------------------------------------------
Shell(p) == ReadArg(p) \/ ArgAtEof(p) \/ PromptAgain(p) \/ WaitForChild(p) \/ ReportStatus(p)

NextAll == (\E p \in Pids : Process(p) \/ Shell(p)) \/ Idle

\* The kernel schedules every process that can run.
FairSpecAll == Init /\ [][NextAll]_vars /\ \A p \in Pids : WF_vars(Process(p) \/ Shell(p))

-----------------------------------------------------------------------------
(* Starts                                                                   *)

Started(program, prog, words, typing, n) ==
    [program |-> program, text |-> prog, argv |-> words, typing |-> typing,
     lines |-> Len(typing), forks |-> n]

\* The array that hw6 fills with random numbers stands for its arguments.
SortStarts(Arrays, Forks) ==
    {Started("hw6 0", SortParallel(a), a, <<>>, f) : a \in Arrays, f \in Forks}
    \cup {Started("hw6 1", SortSequential(a), a, <<>>, 0) : a \in Arrays}

WaitStarts(Forks) ==
    {Started("whotofile", WhoToFile, <<c>>, <<>>, f) : c \in {"who", "nosuch"}, f \in Forks}
    \cup {Started("waitdemo", WaitDemo, <<>>, <<>>, f) : f \in Forks}

\* All that can be typed, to the end of file.
ShellStarts(Lines, Forks) ==
    {Started("psh1", <<psh1>>, <<>>, t, 0) : t \in Lines}
    \cup {Started("psh2", <<psh2>>, <<>>, t, f) : t \in Lines, f \in Forks}

-----------------------------------------------------------------------------
(* Properties                                                               *)

\* The commands in a sequence of lines: where there are words and nothing else between
\* the beginning, or an empty line, and an empty line.
Commands(lines) ==
    {c \in [from : 1..Len(lines), to : 1..Len(lines) - 1] :
        /\ c.from <= c.to /\ \A i \in c.from..c.to : lines[i] # NoWord
        /\ c.from = 1 \/ lines[c.from - 1] = NoWord
        /\ lines[c.to + 1] = NoWord}

WordsOf(lines, c) == SubSeq(lines, c.from, c.to)

\* Which of them a command is.
Number(lines, c) == Cardinality({d \in Commands(lines) : d.to <= c.to})

StatusOf(c) == IF c = "nosuch" THEN 256 ELSE 0

\* psh2 runs the commands that were typed to it, in their order and each once with
\* its own words, of which there are fewer than MAXARGS, and prints for each the status
\* it ended with; waitdemo2 prints the 17 its child exits with.
ReportsItsChild ==
    CASE start.program = "psh2" ->
           /\ Len(reported) <= Cardinality(Commands(taken))
           /\ Len(reported) >= Cardinality(Commands(taken)) - 1
           /\ \A c \in Commands(taken) :
                LET words == WordsOf(taken, c)  n == Number(taken, c) IN
                /\ Len(words) < MaxArgs
                /\ n <= Len(reported) =>
                     reported[n] = [argv |-> words, status |-> StatusOf(words[1])]
      [] start.program = "waitdemo" -> \A i \in DOMAIN reported : reported[i].status = 17 * 256
      [] OTHER -> reported = <<>>

\* A shell reads the terminal when it is alone: no command of its own competes for
\* the line, none is left unreaped, and there is no second shell.
ReadsAlone ==
    [][taken' # taken =>
         /\ Cardinality({p \in Pids : Alive(p)}) = 1
         /\ ~\E p \in Pids : status[p] = "zombie"]_vars

SortedBy(b, a, Leq(_, _)) ==
    /\ Len(b) = Len(a)
    /\ \A i, j \in DOMAIN b : i <= j => Leq(b[i], b[j])
    /\ \A i \in DOMAIN a : Cardinality({j \in DOMAIN a : a[j] = a[i]})
                          = Cardinality({j \in DOMAIN b : b[j] = a[i]})

\* The two functions of hw6 sort the array a, the second also after the first.
Sorts(a) ==
    LET up == ascending_sort(a)  down == descending_sort(a)  turned == descending_sort(up) IN
    /\ {a, up, down, turned} \subseteq Seq(Int)
    /\ SortedBy(up, a, LAMBDA x, y : x <= y)
    /\ SortedBy(down, a, LAMBDA x, y : x >= y)
    /\ SortedBy(turned, a, LAMBDA x, y : x >= y)

\* File f has been written, and holds a sorted.
Holds(f, a, Leq(_, _)) == /\ f \in DOMAIN files /\ Len(files[f]) = 1
                          /\ SortedBy(files[f][1].via, a, Leq)

Shown(word) == \E i \in DOMAIN screen : screen[i].via = <<word>>

\* What a program says after wait() has returned is so, if its forks succeed: hw6
\* has written both files, sorted, one after the other or in parallel; all that who
\* writes is in userlist; waitdemo's child has had its say.
DoneMeansDone ==
    CASE \/ start.program = "hw6 0" /\ Shown("finished") /\ forks > 0
         \/ start.program = "hw6 1" /\ Shown("Elapsed") ->
           /\ Holds("file2", start.argv, LAMBDA x, y : x <= y)
           /\ Holds("file3", start.argv, LAMBDA x, y : x >= y)
      [] start.program = "whotofile" /\ Shown("Done running") ->
           /\ Len(files["userlist"]) = IF start.argv = <<"who">> THEN 2 ELSE 0
           /\ Len(screen) = 2
      [] start.program = "waitdemo" /\ Shown("done waiting") ->
           start.forks > 0 => Shown("child done")
      [] OTHER -> TRUE

\* A command that was typed to psh2 is run and its status printed, whatever the
\* commands before it did, unless the process limit ends the shell.
EveryCommandRuns ==
    \A i \in 1..MaxProcs - 1 :
        start.program = "psh2" /\ Cardinality(Commands(taken)) >= i
            ~> Len(reported) >= i \/ (forks = 0 /\ Ended(1))
=============================================================================
