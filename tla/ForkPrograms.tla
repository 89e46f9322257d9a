---------------------------- MODULE ForkPrograms ----------------------------
(***************************************************************************)
(* Programs of src/191104 and src/191111 that start processes and wait for  *)
(* them, as texts.                                                          *)
(***************************************************************************)
EXTENDS Syscalls, Integers, SequencesExt

-----------------------------------------------------------------------------
(* hw6_2018110124.c: an array is sorted upwards and downwards, by one process *)
(* after the other or by two at a time.  Each works on its copy of the array.  *)

Places(a) == [k \in 1..Len(a) * Len(a) |-> <<1 + ((k - 1) \div Len(a)), 1 + ((k - 1) % Len(a))>>]
Swapped(a, i, j) == [a EXCEPT ![i] = a[j], ![j] = a[i]]

\* Every place is compared with every place.
ascending_sort(a) ==
    FoldLeft(LAMBDA s, ij : IF s[ij[1]] < s[ij[2]] THEN Swapped(s, ij[1], ij[2]) ELSE s,
             a, Places(a))

descending_sort(a) ==
    FoldLeft(LAMBDA s, ij : IF s[ij[1]] > s[ij[2]] THEN Swapped(s, ij[1], ij[2]) ELSE s,
             a, Places(a))

makeFile(a, file) == <<Creat(R("fp", 1), file), Write(R("fp", 1), a), Close(R("fp", 1))>>

Elapsed == <<Write(Out, <<"Elapsed">>), Exit>>

\* Mutant: the first child does not wait for the second.
SortChildrenNoWait(a) ==
    <<Fork(makeFile(ascending_sort(a), "file2") \o <<ExitWith(1)>>, Elapsed)>>
    \o makeFile(descending_sort(a), "file3") \o <<ExitWith(1)>>

\* When its fork() fails the child falls through, and sorts nothing.
SortChildren(a) ==
    <<Fork(makeFile(ascending_sort(a), "file2") \o <<ExitWith(1)>>, Elapsed)>>
    \o makeFile(descending_sort(a), "file3") \o <<Wait, ExitWith(1)>>

SortParallel(a) ==
    makeFile(a, "file1")
    \o <<Fork(SortChildren(a), Elapsed), Wait, Write(Out, <<"finished">>)>> \o Elapsed

SortSequential(a) ==
    makeFile(a, "file1") \o makeFile(ascending_sort(a), "file2")
    \o makeFile(descending_sort(ascending_sort(a)), "file3") \o Elapsed

-----------------------------------------------------------------------------
(* whotofile_p.c *)

WhoToFile ==
    <<Write(Out, <<"About to run">>),
      Fork(<<Close(Out), Creat(Out, "userlist"), Exec(1), ExitWith(1)>>, <<ExitWith(1)>>),
      Wait, Write(Out, <<"Done running">>), Exit>>

-----------------------------------------------------------------------------
(* waitdemo2.c; waitdemo1.c is the same without the status. *)

\* The status that the last child left is printed.
Report == [op |-> "report"]

child_code == <<Write(Out, <<"child here">>), Write(Out, <<"child done">>), ExitWith(17)>>

WaitDemo == <<Write(Out, <<"before">>), Fork(child_code, <<Exit>>), Wait,
              Write(Out, <<"done waiting">>), Report, Exit>>

-----------------------------------------------------------------------------
(* psh1.c, psh2.c: the loop of main(), and execute() *)

\* A word of the command line is read; when it is complete, execute is run.
Arg(execute) == [op |-> "arg", execute |-> execute]

\* while (wait(&exitstatus) != pid)
WaitFor == [op |-> "waitfor"]

psh1 == Arg(<<Exec(1), ExitWith(1)>>)

\* Mutant: the shell does not wait.
psh2ExecuteNoWait == <<Fork(<<Exec(1), ExitWith(1)>>, <<ExitWith(1)>>), Report>>

psh2Execute == <<Fork(<<Exec(1), ExitWith(1)>>, <<ExitWith(1)>>), WaitFor, Report>>

psh2 == Arg(psh2Execute)
=============================================================================
