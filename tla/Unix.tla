-------------------------------- MODULE Unix --------------------------------
(***************************************************************************)
(* What the programs of this repository use of the kernel: processes,       *)
(* descriptors, pipes, files and a terminal.  One action per system call,   *)
(* taken by any process whose text comes to it: all interleavings.          *)
(***************************************************************************)
EXTENDS Syscalls, FiniteSets, SequencesExt, FiniteSetsExt

CONSTANTS
    Starts,     \* what to run: records with program, text, argv, lines, forks
    MaxProcs,   \* bound: how many processes a start may create
    Capacity    \* bound: how many lines fit into a pipe

ASSUME KernelAssumption == MaxProcs \in Nat \ {0} /\ Capacity \in Nat \ {0}

Pids  == 1..MaxProcs   \* 1 is the process that the user's shell starts and waits for
Empty == <<>>          \* no text; no open descriptor

VARIABLES
    start,      \* the member of Starts that runs, but for its text
    text,       \* by process: the calls it has still to make
    status,     \* by process: "free", "running", "zombie" or "gone"
    parent, kid,  \* by process: who forked it, and whom it forked last (0: nobody)
    code,       \* by process: the status it ended with, as wait() stores it
    argv,       \* by process: the words that exec takes a command from
    fds,        \* by process: what each open descriptor refers to
    line,       \* by process: the line it read last
    pipes,      \* by pipe: the lines in it
    files,      \* by name: the lines of a file
    typed,      \* how many lines were read from the terminal
    screen,     \* the lines written to the terminal
    forks,      \* how many more forks succeed
    log         \* history, kept by the actions of Children: lines a shell has
                \* read ("" for an empty one), and statuses printed

family == <<start, log, parent, kid, argv, forks>>
lives  == <<status, code>>
data   == <<pipes, files, typed, screen>>
vars   == <<family, lives, text, fds, line, data>>

\* What a descriptor refers to: the terminal, <<"file", name>>, or an end of pipe k,
\* <<"r", k>> or <<"w", k>>.
Tty == <<"tty", 0>>

SigPipe == 13

NoLine == [no |-> 0, via |-> <<>>]

Init ==
    /\ \E s \in Starts : /\ start = [s EXCEPT !.text = Empty]
                        /\ text = [p \in Pids |-> IF p = 1 THEN s.text ELSE Empty]
    /\ status = [p \in Pids |-> IF p = 1 THEN "running" ELSE "free"]
    /\ parent = [p \in Pids |-> 0] /\ kid = parent /\ code = parent
    /\ argv = [p \in Pids |-> IF p = 1 THEN start.argv ELSE Empty]
    /\ fds = [p \in Pids |-> IF p = 1 THEN [d \in {In, Out} |-> Tty] ELSE Empty]
    /\ line = [p \in Pids |-> NoLine]
    /\ pipes = <<>> /\ files = <<>> /\ typed = 0 /\ screen = <<>>
    /\ forks = start.forks
    /\ log = [taken |-> <<>>, reported |-> <<>>]

-----------------------------------------------------------------------------
(* The text of a process.                                                   *)

\* Process p comes to a call of this kind.
At(p, op) == status[p] = "running" /\ Head(text[p]).op = op

Call(p) == Head(text[p])
Rest(p) == Tail(text[p])

\* A loop stays behind its body for the next round.
Unrolled(t) == IF Head(t).op = "loop" THEN Head(t).body \o t ELSE t

\* The text behind the loop that is being run.
Broken(t) == LET loop == CHOOSE i \in DOMAIN t : /\ t[i].op = "loop"
                                                  /\ \A j \in 1..i - 1 : t[j].op # "loop"
             IN SubSeq(t, loop + 1, Len(t))

GoOn(p, t) == text' = [text EXCEPT ![p] = Unrolled(t)]

-----------------------------------------------------------------------------
(* Processes                                                                *)

Alive(p) == status[p] = "running"
Ended(p) == status[p] \in {"zombie", "gone"}

\* Process p ends with status s: its descriptors are closed, and it waits for its
\* parent; the children it has not waited for go to init, which does.
Terminate(p, s) ==
    /\ code' = [code EXCEPT ![p] = s]
    /\ fds' = [fds EXCEPT ![p] = Empty]
    /\ text' = [text EXCEPT ![p] = Empty]
    /\ status' = [q \in Pids |->
           IF q = p THEN IF parent[p] # 0 /\ Alive(parent[p]) THEN "zombie" ELSE "gone"
           ELSE IF parent[q] = p /\ status[q] = "zombie" THEN "gone" ELSE status[q]]

SysExit(p) ==
    /\ At(p, "exit")
    /\ Terminate(p, 256 * Call(p).code)
    /\ UNCHANGED <<family, line, data>>

\* The child gets copies of the descriptors.  It is the process table, or the
\* user's limit, that is exhausted when fork() fails.
SysFork(p) ==
    /\ At(p, "fork") /\ forks > 0
    /\ LET c == Min({q \in Pids : status[q] = "free"}) IN
       /\ status' = [status EXCEPT ![c] = "running"]
       /\ parent' = [parent EXCEPT ![c] = p]
       /\ kid' = [kid EXCEPT ![p] = c]
       /\ fds' = [fds EXCEPT ![c] = fds[p]] /\ argv' = [argv EXCEPT ![c] = argv[p]]
       /\ text' = [text EXCEPT ![c] = Unrolled(Call(p).child), ![p] = Unrolled(Rest(p))]
    /\ forks' = forks - 1
    /\ UNCHANGED <<start, log, code, line, data>>

ForkFails(p) ==
    /\ At(p, "fork") /\ forks = 0
    /\ GoOn(p, Call(p).fail)
    /\ UNCHANGED <<family, lives, fds, line, data>>

\* What a command does with its input and output.
Command(c, n) ==
    CASE c = "cat"  -> <<Loop(<<ReadOrExit(In), Write(Out, <<n>>)>>)>>
      [] c = "head" -> <<ReadOrExit(In), Write(Out, <<n>>), Exit>>
      [] c \in {"ls", "who"} -> <<Write(Out, <<n>>), Write(Out, <<n>>), Exit>>

SysExec(p) ==
    /\ At(p, "exec")
    /\ LET c == argv[p][Call(p).n] IN
       GoOn(p, IF c = "nosuch" THEN Rest(p) ELSE Command(c, Call(p).n))
    /\ UNCHANGED <<family, lives, fds, line, data>>

Children(p) == {q \in Pids : parent[q] = p /\ status[q] \in {"running", "zombie"}}

\* wait() returns -1 at once when there is nobody to wait for.
SysWait(p) ==
    /\ At(p, "wait")
    /\ IF Children(p) = {} THEN UNCHANGED status
       ELSE \E q \in Children(p) : status[q] = "zombie" /\ status' = [status EXCEPT ![q] = "gone"]
    /\ GoOn(p, Rest(p))
    /\ UNCHANGED <<family, code, fds, line, data>>

SysWaitPid(p) ==
    /\ At(p, "waitpid") /\ status[kid[p]] = "zombie"
    /\ status' = [status EXCEPT ![kid[p]] = "gone"]
    /\ GoOn(p, Rest(p))
    /\ UNCHANGED <<family, code, fds, line, data>>

-----------------------------------------------------------------------------
(* Descriptors                                                              *)

Without(p, d) == [x \in DOMAIN fds[p] \ {d} |-> fds[p][x]]
With(p, new)  == [x \in DOMAIN fds[p] \cup DOMAIN new |->
                     IF x \in DOMAIN new THEN new[x] ELSE fds[p][x]]

SysPipe(p) ==
    /\ At(p, "pipe")
    /\ pipes' = Append(pipes, <<>>)
    /\ LET c == Call(p)  k == Len(pipes) + 1 IN
       fds' = [fds EXCEPT ![p] =
                  With(p, [d \in {c.r, c.w} |-> IF d = c.r THEN <<"r", k>> ELSE <<"w", k>>])]
    /\ GoOn(p, Rest(p))
    /\ UNCHANGED <<family, lives, line, files, typed, screen>>

SysClose(p) ==
    /\ At(p, "close")
    /\ fds' = [fds EXCEPT ![p] = Without(p, Call(p).fd)]
    /\ GoOn(p, Rest(p))
    /\ UNCHANGED <<family, lives, line, data>>

\* The file is emptied if it exists.
SysCreat(p) ==
    /\ At(p, "creat")
    /\ LET f == Call(p).file IN
       /\ files' = [x \in DOMAIN files \cup {f} |-> IF x = f THEN <<>> ELSE files[x]]
       /\ fds' = [fds EXCEPT ![p] = With(p, [d \in {Call(p).fd} |-> <<"file", f>>])]
    /\ GoOn(p, Rest(p))
    /\ UNCHANGED <<family, lives, line, pipes, typed, screen>>

SysDup2(p) ==
    /\ At(p, "dup2")
    /\ fds' = [fds EXCEPT ![p] = With(p, [d \in {Call(p).to} |-> fds[p][Call(p).fd]])]
    /\ GoOn(p, Rest(p))
    /\ UNCHANGED <<family, lives, line, data>>

-----------------------------------------------------------------------------
(* Input and output                                                         *)

\* Some process has the end open.
Held(end) == \E q \in Pids : \E d \in DOMAIN fds[q] : fds[q][d] = end

Source(p) == fds[p][Call(p).fd]

\* The user types start.lines lines and then the end of file.
ReadTty(p) ==
    /\ At(p, "read") /\ Source(p) = Tty /\ typed < start.lines
    /\ typed' = typed + 1
    /\ line' = [line EXCEPT ![p] = [no |-> typed + 1, via |-> <<>>]]
    /\ GoOn(p, Rest(p))
    /\ UNCHANGED <<family, lives, fds, pipes, files, screen>>

\* read() of an empty pipe blocks as long as somebody may still write to it.
ReadPipe(p) ==
    /\ At(p, "read") /\ Source(p)[1] = "r"
    /\ LET k == Source(p)[2] IN
       /\ pipes[k] # <<>>
       /\ line' = [line EXCEPT ![p] = Head(pipes[k])]
       /\ pipes' = [pipes EXCEPT ![k] = Tail(@)]
    /\ GoOn(p, Rest(p))
    /\ UNCHANGED <<family, lives, fds, files, typed, screen>>

AtEof(p) == IF Source(p) = Tty THEN typed = start.lines
            ELSE pipes[Source(p)[2]] = <<>> /\ ~Held(<<"w", Source(p)[2]>>)

ReadEof(p) ==
    /\ At(p, "read") /\ AtEof(p)
    /\ IF Call(p).eof = "exit" THEN Terminate(p, 0)
                               ELSE GoOn(p, Broken(text[p])) /\ UNCHANGED <<lives, fds>>
    /\ UNCHANGED <<family, line, data>>

Marked(p) == [line[p] EXCEPT !.via = @ \o Call(p).mark]

WriteTty(p) ==
    /\ At(p, "write") /\ Source(p) = Tty
    /\ screen' = Append(screen, Marked(p))
    /\ GoOn(p, Rest(p))
    /\ UNCHANGED <<family, lives, fds, line, pipes, files, typed>>

\* write() to a full pipe blocks as long as somebody may still read it.
WritePipe(p) ==
    /\ At(p, "write") /\ Source(p)[1] = "w"
    /\ LET k == Source(p)[2] IN
       /\ Held(<<"r", k>>) /\ Len(pipes[k]) < Capacity
       /\ pipes' = [pipes EXCEPT ![k] = Append(@, Marked(p))]
    /\ GoOn(p, Rest(p))
    /\ UNCHANGED <<family, lives, fds, line, files, typed, screen>>

WriteFile(p) ==
    /\ At(p, "write") /\ Source(p)[1] = "file"
    /\ files' = [files EXCEPT ![Source(p)[2]] = Append(@, Marked(p))]
    /\ GoOn(p, Rest(p))
    /\ UNCHANGED <<family, lives, fds, line, pipes, typed, screen>>

\* SIGPIPE
WriteBroken(p) ==
    /\ At(p, "write") /\ Source(p)[1] = "w" /\ ~Held(<<"r", Source(p)[2]>>)
    /\ Terminate(p, SigPipe)
    /\ UNCHANGED <<family, line, data>>

-----------------------------------------------------------------------------
Process(p) ==
    \/ SysExit(p) \/ SysFork(p) \/ ForkFails(p) \/ SysExec(p) \/ SysWait(p) \/ SysWaitPid(p)
    \/ SysPipe(p) \/ SysClose(p) \/ SysCreat(p) \/ SysDup2(p)
    \/ ReadTty(p) \/ ReadPipe(p) \/ ReadEof(p)
    \/ WriteTty(p) \/ WritePipe(p) \/ WriteFile(p) \/ WriteBroken(p)

AllEnded == ~\E p \in Pids : Alive(p)

Idle == AllEnded /\ UNCHANGED vars

Next == (\E p \in Pids : Process(p)) \/ Idle

Spec == Init /\ [][Next]_vars

\* The kernel schedules every process that can run.
FairSpec == Spec /\ \A p \in Pids : WF_vars(Process(p))
=============================================================================
