------------------------------ MODULE Syscalls ------------------------------
(***************************************************************************)
(* The text of a program, as Unix runs it: a sequence of the system calls   *)
(* it makes, each a record whose op says which.  A call that a program      *)
(* branches on carries the text of the other branch.                        *)
(***************************************************************************)
EXTENDS Naturals, Sequences

\* A descriptor is known by the variable that holds it: 0 and 1, or an end of
\* the i-th pipe called name.
In  == <<"fd", 0, 0>>
Out == <<"fd", 0, 1>>
R(name, i) == <<name, i, 0>>
W(name, i) == <<name, i, 1>>

Pipe(name, i) == [op |-> "pipe", r |-> R(name, i), w |-> W(name, i)]

\* if ((pid = fork()) == -1) fail; else if (pid == 0) child; the text goes on
\* for the parent.
Fork(child, fail) == [op |-> "fork", child |-> child, fail |-> fail]

Close(fd)    == [op |-> "close", fd |-> fd]
Dup2(fd, to) == [op |-> "dup2", fd |-> fd, to |-> to]

\* creat(), or fopen() for writing, into descriptor fd.
Creat(fd, file) == [op |-> "creat", fd |-> fd, file |-> file]

\* execlp() or execvp() of the n-th word of argv; what follows it is run when it fails.
Exec(n) == [op |-> "exec", n |-> n]

\* A line is read; at the end of file the loop around it is left, or the
\* program ends.
Read(fd)       == [op |-> "read", fd |-> fd, eof |-> "break"]
ReadOrExit(fd) == [op |-> "read", fd |-> fd, eof |-> "exit"]

\* The line is written, marked with the number of the command that writes it.
Write(fd, mark) == [op |-> "write", fd |-> fd, mark |-> mark]

\* wait(NULL), and waitpid() of the process forked last.
Wait    == [op |-> "wait"]
WaitPid == [op |-> "waitpid"]

Loop(body)  == [op |-> "loop", body |-> body]
ExitWith(c) == [op |-> "exit", code |-> c]
Exit        == ExitWith(0)    \* and wherever nobody looks at the status
=============================================================================
