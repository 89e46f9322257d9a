---------------------------- MODULE TWordCount4 ----------------------------
(***************************************************************************)
(* src/191202/twordcount4.c: two threads count the words of a file each and *)
(* report through a one-slot mailbox to main(), which adds the counts up.   *)
(* One mutex (lock) and one condition variable (flag), which means "the box *)
(* is full" to main() and "the box is empty" to a counter.                  *)
(***************************************************************************)
EXTENDS Integers, FiniteSets

CONSTANTS
    Counters,    \* t1 and t2
    Asked,       \* the file each of them is to count: usage: file1 file2
    Words        \* how many words each file named on the command line has

ASSUME CounterAssumption ==
    /\ IsFiniteSet(Counters) /\ "main" \notin Counters /\ "none" \notin Counters
    /\ Asked \in [Counters -> {"av[1]", "av[2]"}]
    /\ Words \in [{"av[1]", "av[2]"} -> Nat]

Threads == Counters \cup {"main"}

VARIABLES
    spurious,    \* whether pthread_cond_wait() may return unsignalled, as POSIX allows
    lock,        \* the holder of the mutex, or "none"
    waiting,     \* the threads blocked in pthread_cond_wait(&flag, &lock)
    mailbox,     \* whose args it points to, or "none" for NULL
    count,       \* args1.count and args2.count
    reports_in, total_words,
    pc,          \* where each thread is
    collected    \* auxiliary: the counters whose count main() has added

vars == <<spurious, lock, waiting, mailbox, count, reports_in, total_words, pc, collected>>

\* args1.fname and args2.fname: main() gives both threads av[1].
Fname(t) == "av[1]"

\* main() holds the lock when it creates the threads.
Init ==
    /\ spurious \in BOOLEAN
    /\ lock = "main" /\ waiting = {}
    /\ mailbox = "none"
    /\ count = [t \in Counters |-> 0]
    /\ reports_in = 0 /\ total_words = 0
    /\ pc = [t \in Threads |-> IF t = "main" THEN "loop" ELSE "new"]
    /\ collected = {}

Goto(t, l) == pc' = [pc EXCEPT ![t] = l]

-----------------------------------------------------------------------------
(* The condition variable.                                                  *)

\* pthread_cond_wait(): the lock is released and the thread blocks, at once.
CondWait(t) == waiting' = waiting \cup {t} /\ lock' = "none"

\* pthread_cond_signal() wakes one of the waiting threads, if there is any.
CondSignal ==
    IF waiting = {} THEN UNCHANGED waiting
                    ELSE \E w \in waiting : waiting' = waiting \ {w}

\* A spurious wakeup.
Wakeup(t) ==
    /\ spurious /\ t \in waiting
    /\ waiting' = waiting \ {t}
    /\ UNCHANGED <<spurious, lock, mailbox, count, reports_in, total_words, pc, collected>>

-----------------------------------------------------------------------------
(* main()                                                                   *)

\* pthread_create(), one thread after the other.
Create(t) ==
    /\ pc["main"] = "loop" /\ pc[t] = "new"
    /\ Goto(t, "counting")
    /\ UNCHANGED <<spurious, lock, waiting, mailbox, count, reports_in, total_words, collected>>

\* while (reports_in < 2) pthread_cond_wait(&flag, &lock): without a look at
\* the mailbox, before or after.
MainWaits ==
    /\ pc["main"] = "loop" /\ \A t \in Counters : pc[t] # "new"
    /\ reports_in < Cardinality(Counters)
    /\ CondWait("main")
    /\ Goto("main", "woken")
    /\ UNCHANGED <<spurious, mailbox, count, reports_in, total_words, collected>>

\* The wait returns, with the lock; total_words += mailbox->count.
MainReads ==
    /\ pc["main"] = "woken" /\ "main" \notin waiting /\ lock = "none"
    /\ lock' = "main"
    /\ IF mailbox = "none"
       THEN /\ Goto("main", "crashed")
            /\ UNCHANGED <<total_words, collected>>
       ELSE /\ Goto("main", "join")
            /\ total_words' = total_words + count[mailbox]
            /\ collected' = collected \cup {mailbox}
    /\ UNCHANGED <<spurious, waiting, mailbox, count, reports_in>>

\* Mutant: main() does not say that the mailbox is empty again.
MainJoinsSilently ==
    /\ pc["main"] = "join" /\ pc[mailbox] = "returned"
    /\ mailbox' = "none"
    /\ reports_in' = reports_in + 1
    /\ Goto("main", "loop")
    /\ UNCHANGED <<spurious, waiting, lock, count, total_words, collected>>

\* pthread_join() of the reporter, with the lock held; the mailbox is emptied
\* and the flag signalled.
MainJoins ==
    /\ pc["main"] = "join" /\ pc[mailbox] = "returned"
    /\ mailbox' = "none"
    /\ CondSignal
    /\ reports_in' = reports_in + 1
    /\ Goto("main", "loop")
    /\ UNCHANGED <<spurious, lock, count, total_words, collected>>

\* Mutant: the loop is left one report early.
MainPrintsEarly ==
    /\ pc["main"] = "loop" /\ reports_in = Cardinality(Counters) - 1
    /\ Goto("main", "printed")
    /\ UNCHANGED <<spurious, lock, waiting, mailbox, count, reports_in, total_words, collected>>

\* The total is printed and main() returns, which ends the process.
MainPrints ==
    /\ pc["main"] = "loop" /\ reports_in = Cardinality(Counters)
    /\ Goto("main", "printed")
    /\ UNCHANGED <<spurious, lock, waiting, mailbox, count, reports_in, total_words, collected>>

Main ==
    \/ \E t \in Counters : Create(t)
    \/ MainWaits \/ MainReads \/ MainJoins \/ MainPrints

-----------------------------------------------------------------------------
(* count_words()                                                            *)

Alive == pc["main"] \notin {"printed", "crashed"}

\* Mutant: the flag is raised for every word.
CountWordRaisesFlag(t) ==
    /\ Alive /\ pc[t] = "counting" /\ count[t] < Words[Fname(t)]
    /\ count' = [count EXCEPT ![t] = @ + 1]
    /\ CondSignal
    /\ UNCHANGED <<spurious, lock, mailbox, reports_in, total_words, pc, collected>>

\* args->count++ for a word of the file, without the lock.
CountWord(t) ==
    /\ Alive /\ pc[t] = "counting" /\ count[t] < Words[Fname(t)]
    /\ count' = [count EXCEPT ![t] = @ + 1]
    /\ UNCHANGED <<spurious, lock, waiting, mailbox, reports_in, total_words, pc, collected>>

\* Mutant: the mailbox is not looked at.
GetBoxBlindly(t) ==
    /\ Alive /\ pc[t] = "counting" /\ count[t] = Words[Fname(t)]
    /\ lock = "none"
    /\ lock' = t /\ Goto(t, "store")
    /\ UNCHANGED <<spurious, waiting, mailbox, count, reports_in, total_words, collected>>

\* End of file, pthread_mutex_lock(); if the mailbox is full, one
\* pthread_cond_wait().
GetBox(t) ==
    /\ Alive /\ pc[t] = "counting" /\ count[t] = Words[Fname(t)]
    /\ lock = "none"
    /\ IF mailbox # "none"
       THEN CondWait(t) /\ Goto(t, "woken")
       ELSE lock' = t /\ Goto(t, "store") /\ UNCHANGED waiting
    /\ UNCHANGED <<spurious, mailbox, count, reports_in, total_words, collected>>

\* The wait returns, with the lock; the mailbox is not looked at again.
GetBoxAgain(t) ==
    /\ Alive /\ pc[t] = "woken" /\ t \notin waiting /\ lock = "none"
    /\ lock' = t
    /\ Goto(t, "store")
    /\ UNCHANGED <<spurious, waiting, mailbox, count, reports_in, total_words, collected>>

\* mailbox = args; pthread_cond_signal(&flag) ...
Report(t) ==
    /\ Alive /\ pc[t] = "store"
    /\ mailbox' = t
    /\ CondSignal
    /\ Goto(t, "unlock")
    /\ UNCHANGED <<spurious, lock, count, reports_in, total_words, collected>>

\* ... and pthread_mutex_unlock(&lock).
Unlock(t) ==
    /\ Alive /\ pc[t] = "unlock"
    /\ lock' = "none"
    /\ Goto(t, "returned")
    /\ UNCHANGED <<spurious, waiting, mailbox, count, reports_in, total_words, collected>>

Counter(t) == CountWord(t) \/ GetBox(t) \/ GetBoxAgain(t) \/ Report(t) \/ Unlock(t)

Ended == ~Alive /\ UNCHANGED vars

Next == Main \/ (\E t \in Counters : Counter(t)) \/ (\E t \in Threads : Wakeup(t)) \/ Ended

Spec == Init /\ [][Next]_vars

\* Every thread that can run is scheduled.  A lock that is free again and again
\* is granted to each thread that asks for it: strong fairness.
FairSpec == Spec /\ SF_vars(Main) /\ \A t \in Counters : SF_vars(Counter(t))
-----------------------------------------------------------------------------
(* Properties                                                               *)

TypeOK ==
    /\ spurious \in BOOLEAN
    /\ lock \in Threads \cup {"none"} /\ waiting \subseteq Threads
    /\ mailbox \in Counters \cup {"none"}
    /\ count \in [Counters -> Nat]
    /\ reports_in \in Nat /\ total_words \in Nat
    /\ pc \in [Threads -> {"new", "counting", "woken", "store", "unlock", "returned",
                           "loop", "join", "printed", "crashed"}]
    /\ collected \subseteq Counters

\* main() does not look at the mailbox before or after it waits, and with two
\* counters and no spurious wakeups need not: the mailbox is full whenever its
\* wait returns, and no null pointer is followed (twordcount4.c:47).
NeverNull == ~spurious => pc["main"] # "crashed"

\* A counter looks at the mailbox once, with an if: still no report is stored
\* over another that main() has not collected.
NoOverwrite ==
    [][~spurious /\ mailbox # "none" => mailbox' \in {mailbox, "none"}]_vars

\* Nobody waits for ever: each signal reaches the one thread it is meant for,
\* although both directions share one condition variable.
AllReported == ~spurious ~> pc["main"] = "printed"

\* Each counter's final count is added once, and the total announced when all
\* are in, with and without spurious wakeups: these lose a report or crash the
\* program but do not make it miscount.  What is to be counted are the words of
\* the files asked for.  Line 38 gives both counters the first file, so this
\* holds only where both files have as many words; otherwise the total is that
\* of the first, twice, and not what the program is for.
R == INSTANCE Reports WITH Words <- [t \in Counters |-> Words[Asked[t]]],
                           total <- total_words, announced <- (pc["main"] = "printed")

ImplementsReports == R!Spec
=============================================================================
