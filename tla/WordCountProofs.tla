-------------------------- MODULE WordCountProofs ---------------------------
(***************************************************************************)
(* twordcount4.c implements Reports for every number of counters, with or   *)
(* without spurious wakeups, if its files have as many words each: whatever *)
(* main() prints, it has added each counter's final count once.  With two   *)
(* counters and no spurious wakeups, no report is missing from the mailbox  *)
(* when main() looks, or is stored over.  hw8, for every file and number of threads: the buffer is   *)
(* freed after its last reader, each thread adds to the total that it read, *)
(* and what is printed is the number of words that end inside of a block.   *)
(***************************************************************************)
EXTENDS TWordCount4, WordBlocks, FiniteSetTheorems, SequenceTheorems, TLAPS

Reported == {"unlock", "returned"}    \* behind the store into the mailbox

\* Who holds the lock.
LockInv ==
    /\ \A t \in Counters : pc[t] \in {"store", "unlock"} => lock = t
    /\ pc["main"] \in {"loop", "join"} => lock = "main"

\* A count does not change once its counter is past the end of its file.
FinalInv ==
    \A t \in Counters : pc[t] \in {"woken", "store", "unlock", "returned"} =>
        count[t] = Words[Fname(t)]

\* What main() has collected, and what it has yet to.
BoxInv ==
    /\ mailbox # "none" => pc[mailbox] \in Reported
    /\ \A t \in collected : pc[t] \in Reported
    /\ pc["main"] = "join" => mailbox \in collected
    /\ pc["main"] \in {"loop", "woken"} => mailbox \notin collected
    /\ reports_in = IF pc["main"] = "join" THEN Cardinality(collected) - 1
                                           ELSE Cardinality(collected)

PcInv ==
    /\ pc["main"] \in {"loop", "woken", "join", "printed", "crashed"}
    /\ \A t \in Counters : pc[t] \in {"new", "counting", "woken", "store", "unlock", "returned"}

IInv == TypeOK /\ PcInv /\ LockInv /\ FinalInv /\ BoxInv

LEMMA Consts ==
    /\ "main" \notin Counters /\ "none" \notin Counters /\ "none" \notin Threads
    /\ \A t \in Counters : t \in Threads /\ Words[Fname(t)] \in Nat
    /\ "main" \in Threads
BY CounterAssumption DEF Threads, Fname

LEMMA CollectedFinite == TypeOK => IsFiniteSet(collected) /\ Cardinality(collected) \in Nat
BY CounterAssumption, FS_Subset, FS_CardinalityType DEF TypeOK

LEMMA InvInit == Init => IInv
<1> SUFFICES ASSUME Init PROVE IInv
  OBVIOUS
<1>1. TypeOK /\ PcInv
  BY Consts DEF Init, TypeOK, PcInv, Threads
<1>2. LockInv /\ FinalInv
  BY Consts DEF Init, LockInv, FinalInv
<1>3. BoxInv
  BY Consts, FS_EmptySet DEF Init, BoxInv
<1> QED BY <1>1, <1>2, <1>3 DEF IInv

\* main(): what it reads is a report not yet collected; the one that it joins is.
LEMMA MainStep == IInv /\ Main => IInv'
<1> SUFFICES ASSUME IInv, Main PROVE IInv'
  OBVIOUS
<1>0. IsFiniteSet(collected) /\ Cardinality(collected) \in Nat
  BY CollectedFinite DEF IInv
<1>1. CASE \E t \in Counters : Create(t)
  <2>1. TypeOK' /\ PcInv'
    BY <1>1, Consts DEF Create, Goto, IInv, TypeOK, PcInv
  <2>2. LockInv' /\ FinalInv'
    BY <1>1, Consts DEF Create, Goto, IInv, TypeOK, PcInv, LockInv, FinalInv
  <2>3. BoxInv'
    BY <1>1, Consts DEF Create, Goto, IInv, TypeOK, PcInv, LockInv, BoxInv, Reported
  <2> QED BY <2>1, <2>2, <2>3 DEF IInv
<1>2. CASE MainWaits
  <2>1. TypeOK' /\ PcInv'
    BY <1>2, Consts DEF MainWaits, CondWait, Goto, IInv, TypeOK, PcInv
  <2>2. LockInv' /\ FinalInv'
    BY <1>2, Consts DEF MainWaits, CondWait, Goto, IInv, TypeOK, PcInv, LockInv, FinalInv
  <2>3. BoxInv'
    BY <1>2, Consts DEF MainWaits, CondWait, Goto, IInv, TypeOK, PcInv, LockInv, BoxInv, Reported
  <2> QED BY <2>1, <2>2, <2>3 DEF IInv
<1>3. CASE MainReads /\ mailbox = "none"
  <2>1. TypeOK' /\ PcInv'
    BY <1>3, Consts DEF MainReads, Goto, IInv, TypeOK, PcInv
  <2>2. LockInv' /\ FinalInv'
    BY <1>3, Consts DEF MainReads, Goto, IInv, TypeOK, PcInv, LockInv, FinalInv
  <2>3. /\ pc["main"] = "woken" /\ pc'["main"] = "crashed" /\ \A t \in Counters : pc'[t] = pc[t]
        /\ mailbox' = mailbox /\ collected' = collected /\ reports_in' = reports_in
    BY <1>3, Consts DEF MainReads, Goto, IInv, TypeOK
  <2>4. BoxInv'
    BY <1>3, <2>3 DEF IInv, TypeOK, BoxInv
  <2> QED BY <2>1, <2>2, <2>4 DEF IInv
<1>4. CASE MainReads /\ mailbox # "none"
  <2>1. mailbox \in Counters /\ mailbox \notin collected /\ pc["main"] = "woken"
    BY <1>4 DEF MainReads, IInv, TypeOK, BoxInv
  <2>2. Cardinality(collected') = Cardinality(collected) + 1
    BY <1>0, <1>4, <2>1, FS_AddElement DEF MainReads
  <2>3. TypeOK' /\ PcInv'
    <3>1. total_words + count[mailbox] \in Nat
      BY <2>1 DEF IInv, TypeOK
    <3>2. collected \cup {mailbox} \subseteq Counters
      BY <2>1 DEF IInv, TypeOK
    <3>3. TypeOK'
      BY <1>4, <3>1, <3>2, Consts DEF MainReads, Goto, IInv, TypeOK
    <3>4. PcInv'
      BY <1>4, Consts DEF MainReads, Goto, IInv, TypeOK, PcInv
    <3> QED BY <3>3, <3>4
  <2>4. /\ pc'["main"] = "join" /\ \A t \in Counters : pc'[t] = pc[t]
        /\ lock = "none" /\ lock' = "main" /\ mailbox' = mailbox /\ count' = count
        /\ collected' = collected \cup {mailbox} /\ reports_in' = reports_in
    BY <1>4, Consts DEF MainReads, Goto, IInv, TypeOK
  <2>5. LockInv' /\ FinalInv'
    BY <2>4, Consts DEF IInv, LockInv, FinalInv
  <2>6. BoxInv'
    BY <1>0, <1>4, <2>1, <2>2, <2>4 DEF IInv, TypeOK, BoxInv
  <2> QED BY <2>3, <2>5, <2>6 DEF IInv
<1>5. CASE MainJoins
  <2>1. TypeOK' /\ PcInv'
    BY <1>5, Consts, <1>0 DEF MainJoins, CondSignal, Goto, IInv, TypeOK, PcInv
  <2>2. LockInv' /\ FinalInv'
    BY <1>5, Consts DEF MainJoins, CondSignal, Goto, IInv, TypeOK, PcInv, LockInv, FinalInv
  <2>3. BoxInv'
    BY <1>5, Consts, <1>0 DEF MainJoins, CondSignal, Goto, IInv, TypeOK, PcInv, LockInv, BoxInv, Reported
  <2> QED BY <2>1, <2>2, <2>3 DEF IInv
<1>6. CASE MainPrints
  <2>1. TypeOK' /\ PcInv'
    BY <1>6, Consts DEF MainPrints, Goto, IInv, TypeOK, PcInv
  <2>2. LockInv' /\ FinalInv'
    BY <1>6, Consts DEF MainPrints, Goto, IInv, TypeOK, PcInv, LockInv, FinalInv
  <2>3. BoxInv'
    BY <1>6, Consts DEF MainPrints, Goto, IInv, TypeOK, PcInv, LockInv, BoxInv, Reported
  <2> QED BY <2>1, <2>2, <2>3 DEF IInv
<1> QED BY <1>1, <1>2, <1>3, <1>4, <1>5, <1>6 DEF Main

\* count_words(): it stores into the mailbox with the lock, so main() is not between
\* its own two looks at it.
LEMMA CounterStep == IInv /\ (\E t \in Counters : Counter(t)) => IInv'
<1> SUFFICES ASSUME IInv, NEW t \in Counters, Counter(t) PROVE IInv'
  OBVIOUS
<1>1. CASE CountWord(t)
  <2>1. TypeOK' /\ PcInv'
    BY <1>1, Consts DEF CountWord, IInv, TypeOK, PcInv
  <2>2. LockInv' /\ FinalInv'
    BY <1>1, Consts DEF CountWord, IInv, TypeOK, PcInv, LockInv, FinalInv
  <2>3. BoxInv'
    BY <1>1, Consts DEF CountWord, IInv, TypeOK, PcInv, LockInv, BoxInv, Reported
  <2> QED BY <2>1, <2>2, <2>3 DEF IInv
<1>2. CASE GetBox(t)
  <2>1. TypeOK' /\ PcInv'
    BY <1>2, Consts DEF GetBox, CondWait, Goto, IInv, TypeOK, PcInv
  <2>2. LockInv' /\ FinalInv'
    BY <1>2, Consts DEF GetBox, CondWait, Goto, IInv, TypeOK, PcInv, LockInv, FinalInv
  <2>3. BoxInv'
    BY <1>2, Consts DEF GetBox, CondWait, Goto, IInv, TypeOK, PcInv, LockInv, BoxInv, Reported
  <2> QED BY <2>1, <2>2, <2>3 DEF IInv
<1>3. CASE GetBoxAgain(t)
  <2>1. TypeOK' /\ PcInv'
    BY <1>3, Consts DEF GetBoxAgain, Goto, IInv, TypeOK, PcInv
  <2>2. LockInv' /\ FinalInv'
    BY <1>3, Consts DEF GetBoxAgain, Goto, IInv, TypeOK, PcInv, LockInv, FinalInv
  <2>3. BoxInv'
    BY <1>3, Consts DEF GetBoxAgain, Goto, IInv, TypeOK, PcInv, LockInv, BoxInv, Reported
  <2> QED BY <2>1, <2>2, <2>3 DEF IInv
<1>4. CASE Report(t)
  <2>1. TypeOK' /\ PcInv'
    BY <1>4, Consts DEF Report, CondSignal, Goto, IInv, TypeOK, PcInv
  <2>2. LockInv' /\ FinalInv'
    BY <1>4, Consts DEF Report, CondSignal, Goto, IInv, TypeOK, PcInv, LockInv, FinalInv
  <2>3. BoxInv'
    BY <1>4, Consts DEF Report, CondSignal, Goto, IInv, TypeOK, PcInv, LockInv, BoxInv, Reported
  <2> QED BY <2>1, <2>2, <2>3 DEF IInv
<1>5. CASE Unlock(t)
  <2>1. TypeOK' /\ PcInv'
    BY <1>5, Consts DEF Unlock, Goto, IInv, TypeOK, PcInv
  <2>2. LockInv' /\ FinalInv'
    BY <1>5, Consts DEF Unlock, Goto, IInv, TypeOK, PcInv, LockInv, FinalInv
  <2>3. BoxInv'
    BY <1>5, Consts DEF Unlock, Goto, IInv, TypeOK, PcInv, LockInv, BoxInv, Reported
  <2> QED BY <2>1, <2>2, <2>3 DEF IInv
<1> QED BY <1>1, <1>2, <1>3, <1>4, <1>5 DEF Counter

LEMMA InvStep == IInv /\ [Next]_vars => IInv'
<1>1. IInv /\ (\E t \in Threads : Wakeup(t)) => IInv'
  BY DEF Wakeup, IInv, TypeOK, PcInv, LockInv, FinalInv, BoxInv
<1>2. IInv /\ UNCHANGED vars => IInv'
  BY DEF vars, IInv, TypeOK, PcInv, LockInv, FinalInv, BoxInv
<1> QED BY <1>1, <1>2, MainStep, CounterStep DEF Next, Ended

-----------------------------------------------------------------------------
(* The refinement                                                           *)

LEMMA InitRefined == Init => R!Init
BY CounterAssumption DEF Init, R!Init, Threads

\* Reading the mailbox is Collect, printing is Announce, and the rest stutters.
\* What a counter has counted are the words of av[1]; what it was asked for are as
\* many only by the assumption.
LEMMA StepRefined ==
    ASSUME Words["av[1]"] = Words["av[2]"], IInv, [Next]_vars
    PROVE  R!Next \/ UNCHANGED R!vars
<1>1. CASE MainReads /\ mailbox # "none"
  <2>1. /\ mailbox \in Counters /\ mailbox \notin collected
        /\ count[mailbox] = Words[Asked[mailbox]]
    BY <1>1, CounterAssumption DEF MainReads, IInv, TypeOK, BoxInv, FinalInv, Reported, Fname
  <2>2. R!Collect(mailbox)
    BY <1>1, <2>1, Consts DEF MainReads, Goto, R!Collect, IInv, TypeOK, PcInv
  <2> QED BY <2>1, <2>2 DEF R!Next
<1>2. CASE MainPrints
  <2>1. collected = Counters
    BY <1>2, CounterAssumption, FS_Subset DEF MainPrints, IInv, TypeOK, BoxInv
  <2>2. R!Announce
    BY <1>2, <2>1, Consts DEF MainPrints, Goto, R!Announce, IInv, TypeOK
  <2> QED BY <2>2 DEF R!Next
<1>3. CASE (MainReads /\ mailbox = "none") \/ MainWaits \/ MainJoins \/ \E t \in Counters : Create(t)
  BY <1>3, Consts DEF MainReads, MainWaits, MainJoins, Create, Goto, R!vars, IInv, TypeOK, PcInv
<1>4. CASE \E t \in Counters : Counter(t)
  BY <1>4, Consts DEF Counter, CountWord, GetBox, GetBoxAgain, Report, Unlock, Goto, R!vars, IInv, TypeOK
<1>5. CASE (\E t \in Threads : Wakeup(t)) \/ UNCHANGED vars
  BY <1>5 DEF Wakeup, vars, R!vars
<1> QED BY <1>1, <1>2, <1>3, <1>4, <1>5 DEF Next, Main, Ended

\* Where both files have the same number of words, main() adds each counter's final
\* count once, and the total that it announces is that of the files asked for.
THEOREM ReportsRefined ==
    ASSUME Words["av[1]"] = Words["av[2]"]
    PROVE  Spec => ImplementsReports
<1>1. IInv /\ [Next]_vars => [R!Next]_R!vars
  BY StepRefined
<1> QED BY InitRefined, InvInit, InvStep, <1>1, PTL DEF Spec, ImplementsReports, R!Spec

-----------------------------------------------------------------------------
(* The mailbox without spurious wakeups, for the program's two counters.    *)

\* Who waits, and for what.  A counter waits only for main() to collect the other
\* counter's report, so the one signal of MainJoins() reaches it, and the one
\* signal of its own report reaches main(): nobody is woken to find the wrong box.
WaitInv ==
    /\ \A t \in waiting : pc[t] = "woken"
    /\ \A t \in Counters : pc[t] = "woken" => \A u \in Counters \ {t} : pc[u] \in Reported
    /\ \A t \in Counters :
           pc[t] = "store" \/ (pc[t] = "woken" /\ t \notin waiting) => mailbox = "none"
    /\ pc["main"] = "loop" => mailbox = "none"
    /\ pc["main"] = "woken" => (mailbox = "none" <=> "main" \in waiting)
    /\ mailbox = "none" => waiting \subseteq {"main"}
    /\ pc["main"] # "crashed"

BoxIInv == IInv /\ (~spurious => WaitInv)

LEMMA OneOther ==
    ASSUME Cardinality(Counters) = 2,
           NEW t \in Counters, NEW u \in Counters, NEW v \in Counters, t # u, v # t
    PROVE  v = u
<1>1. IsFiniteSet(Counters \ {t}) /\ Cardinality(Counters \ {t}) = 1
  BY CounterAssumption, FS_RemoveElement
<1>2. PICK x : Counters \ {t} = {x}
  BY <1>1, FS_Singleton
<1> QED BY <1>2

LEMMA WaitMainStep ==
    ASSUME Cardinality(Counters) = 2, IInv, WaitInv, Main
    PROVE  WaitInv'
<1> USE DEF WaitInv
<1>0. /\ pc \in [Threads -> {"new", "counting", "woken", "store", "unlock", "returned",
                             "loop", "join", "printed", "crashed"}]
      /\ waiting \subseteq Threads /\ mailbox \in Counters \cup {"none"}
      /\ \A t \in Threads : t \in Counters \/ t = "main"
  BY DEF IInv, TypeOK, Threads
<1>1. ASSUME NEW t \in Counters, Create(t) PROVE WaitInv'
  <2>1. /\ pc'["main"] = pc["main"] /\ pc[t] = "new" /\ pc'[t] = "counting"
        /\ \A u \in Counters \ {t} : pc'[u] = pc[u]
        /\ UNCHANGED <<waiting, mailbox>>
    BY <1>0, <1>1, Consts DEF Create, Goto
  <2> QED BY <1>0, <2>1, Consts DEF Reported
<1>2. CASE MainWaits
  <2>1. /\ pc["main"] = "loop" /\ pc'["main"] = "woken" /\ \A u \in Counters : pc'[u] = pc[u]
        /\ waiting' = waiting \cup {"main"} /\ mailbox' = mailbox
    BY <1>0, <1>2, Consts DEF MainWaits, CondWait, Goto
  <2> QED BY <1>0, <2>1, Consts
<1>3. CASE MainReads
  <2>1. mailbox # "none"
    BY <1>3 DEF MainReads
  <2>2. /\ pc'["main"] = "join" /\ "main" \notin waiting
        /\ \A u \in Counters : pc'[u] = pc[u]
        /\ UNCHANGED <<waiting, mailbox>>
    BY <1>0, <1>3, <2>1, Consts DEF MainReads, Goto
  <2>3. \A u \in waiting : u \in Counters /\ pc'[u] = "woken"
    BY <1>0, <2>2
  <2> QED BY <2>1, <2>2, <2>3
<1>4. CASE MainJoins
  <2>1. /\ pc["main"] = "join" /\ pc'["main"] = "loop" /\ \A u \in Counters : pc'[u] = pc[u]
        /\ mailbox' = "none" /\ pc[mailbox] = "returned" /\ CondSignal
    BY <1>0, <1>4, Consts DEF MainJoins, Goto
  <2>2. "main" \notin waiting
    BY <2>1
  <2>3. mailbox \in Counters
    BY <1>0, <2>1, Consts DEF IInv, BoxInv, TypeOK
  <2>4. \A t, u \in waiting : t = u
    <3> SUFFICES ASSUME NEW t \in waiting, NEW u \in waiting, t # u PROVE FALSE
      OBVIOUS
    <3>1. t \in Counters /\ u \in Counters /\ pc[t] = "woken" /\ pc[u] = "woken"
      BY <1>0, <2>2
    <3> QED BY <3>1 DEF Reported
  <2>5. waiting' = {}
    BY <2>1, <2>4 DEF CondSignal
  <2> QED BY <1>0, <2>1, <2>5, Consts
<1>5. CASE MainPrints
  <2>1. /\ pc["main"] = "loop" /\ pc'["main"] = "printed" /\ \A u \in Counters : pc'[u] = pc[u]
        /\ UNCHANGED <<waiting, mailbox>>
    BY <1>0, <1>5, Consts DEF MainPrints, Goto
  <2> QED BY <1>0, <2>1, Consts
<1> QED BY <1>1, <1>2, <1>3, <1>4, <1>5 DEF Main

\* A report goes into an empty box, while main() waits and nobody else does.
LEMMA ReportFindsMain ==
    ASSUME IInv, WaitInv, NEW t \in Counters, Report(t)
    PROVE  mailbox = "none" /\ pc["main"] = "woken" /\ waiting = {"main"}
<1>1. mailbox = "none" /\ waiting \subseteq {"main"}
  BY DEF Report, WaitInv
<1>2. pc["main"] = "woken"
  <2>1. lock = t /\ lock # "main"
    BY Consts DEF Report, IInv, LockInv
  <2> QED BY <2>1 DEF Report, Alive, IInv, LockInv, PcInv
<1> QED BY <1>1, <1>2 DEF WaitInv

LEMMA WaitCounterStep ==
    ASSUME Cardinality(Counters) = 2, IInv, WaitInv, NEW t \in Counters, Counter(t)
    PROVE  WaitInv'
<1> USE DEF WaitInv
<1>0. /\ pc \in [Threads -> {"new", "counting", "woken", "store", "unlock", "returned",
                             "loop", "join", "printed", "crashed"}]
      /\ waiting \subseteq Threads /\ mailbox \in Counters \cup {"none"}
      /\ \A u \in Threads : u \in Counters \/ u = "main"
  BY DEF IInv, TypeOK, Threads
<1>1. CASE CountWord(t)
  BY <1>1 DEF CountWord
<1>2. CASE GetBox(t) /\ mailbox # "none"
  <2>1. /\ pc'["main"] = pc["main"] /\ pc[t] = "counting" /\ pc'[t] = "woken"
        /\ \A u \in Counters \ {t} : pc'[u] = pc[u]
        /\ waiting' = waiting \cup {t} /\ mailbox' = mailbox
    BY <1>0, <1>2, Consts DEF GetBox, CondWait, Goto
  <2>2. mailbox \in Counters /\ pc[mailbox] \in Reported /\ mailbox # t
    BY <1>0, <1>2, <2>1 DEF IInv, BoxInv, Reported
  <2>3. \A u \in Counters \ {t} : u = mailbox
    BY <2>2, OneOther
  <2> QED BY <1>0, <1>2, <2>1, <2>2, <2>3, Consts DEF Reported
<1>3. CASE (GetBox(t) /\ mailbox = "none") \/ GetBoxAgain(t)
  <2>1. /\ pc'["main"] = pc["main"] /\ pc'[t] = "store" /\ \A u \in Counters \ {t} : pc'[u] = pc[u]
        /\ pc[t] \in {"counting", "woken"} /\ mailbox = "none" /\ t \notin waiting
        /\ UNCHANGED <<waiting, mailbox>>
    BY <1>0, <1>3, Consts DEF GetBox, GetBoxAgain, Goto
  <2> QED BY <1>0, <2>1, Consts DEF Reported
<1>4. CASE Report(t)
  <2>1. mailbox = "none" /\ pc["main"] = "woken" /\ waiting = {"main"}
    BY <1>4, ReportFindsMain
  <2>2. waiting' = {}
    BY <1>4, <2>1 DEF Report, CondSignal
  <2>3. /\ pc'["main"] = pc["main"] /\ pc[t] = "store" /\ pc'[t] = "unlock"
        /\ \A u \in Counters \ {t} : pc'[u] = pc[u]
        /\ mailbox' = t
    BY <1>0, <1>4, Consts DEF Report, Goto
  <2>4. \A u \in Counters \ {t} : pc[u] \notin {"store", "woken"}
    <3> SUFFICES ASSUME NEW u \in Counters \ {t}, pc[u] \in {"store", "woken"} PROVE FALSE
      OBVIOUS
    <3>1. pc[u] # "store"
      BY <2>3 DEF IInv, LockInv
    <3>2. pc[u] # "woken"
      BY <2>3 DEF Reported
    <3> QED BY <3>1, <3>2
  <2>5. \A u \in Counters : pc'[u] \notin {"store", "woken"}
    BY <1>0, <2>3, <2>4
  <2> QED BY <2>1, <2>2, <2>3, <2>5, Consts
<1>5. CASE Unlock(t)
  <2>1. /\ pc'["main"] = pc["main"] /\ pc[t] = "unlock" /\ pc'[t] = "returned"
        /\ \A u \in Counters \ {t} : pc'[u] = pc[u]
        /\ UNCHANGED <<waiting, mailbox>>
    BY <1>0, <1>5, Consts DEF Unlock, Goto
  <2> QED BY <1>0, <2>1, Consts DEF Reported
<1> QED BY <1>1, <1>2, <1>3, <1>4, <1>5 DEF Counter

LEMMA SpuriousConstant == [Next]_vars => spurious' = spurious
BY DEF Next, Main, Create, MainWaits, MainReads, MainJoins, MainPrints, Counter, CountWord,
       GetBox, GetBoxAgain, Report, Unlock, Wakeup, Ended, vars

LEMMA BoxInit == Init => BoxIInv
<1> SUFFICES ASSUME Init PROVE WaitInv
  BY InvInit DEF BoxIInv
<1>1. pc["main"] = "loop" /\ \A t \in Counters : pc[t] = "new"
  BY Consts DEF Init
<1> QED BY <1>1 DEF Init, WaitInv

LEMMA BoxStep ==
    ASSUME Cardinality(Counters) = 2
    PROVE  BoxIInv /\ [Next]_vars => BoxIInv'
<1> SUFFICES ASSUME BoxIInv, [Next]_vars, ~spurious PROVE WaitInv'
  BY InvStep, SpuriousConstant DEF BoxIInv
<1> USE DEF BoxIInv
<1>1. CASE Main
  BY <1>1, WaitMainStep
<1>2. CASE \E t \in Counters : Counter(t)
  BY <1>2, WaitCounterStep
<1>3. CASE \E t \in Threads : Wakeup(t)
  BY <1>3 DEF Wakeup
<1>4. CASE UNCHANGED vars
  BY <1>4 DEF vars, WaitInv
<1> QED BY <1>1, <1>2, <1>3, <1>4 DEF Next, Ended

\* main() follows no null pointer, although it never looks at the mailbox before
\* it uses it: for files of any length, with the program's two counters.
THEOREM NeverNullForTwo ==
    ASSUME Cardinality(Counters) = 2
    PROVE  Spec => []NeverNull
<1>1. BoxIInv => NeverNull
  BY DEF BoxIInv, WaitInv, NeverNull
<1> QED BY <1>1, BoxInit, BoxStep, PTL DEF Spec

\* No report is stored over one that main() has yet to collect, although a
\* counter that waited does not look at the mailbox again.
THEOREM NoOverwriteForTwo ==
    ASSUME Cardinality(Counters) = 2
    PROVE  Spec => NoOverwrite
<1>1. BoxIInv /\ [Next]_vars => [~spurious /\ mailbox # "none" => mailbox' \in {mailbox, "none"}]_vars
  <2> SUFFICES ASSUME BoxIInv, Next, ~spurious, mailbox # "none"
               PROVE  mailbox' \in {mailbox, "none"}
    OBVIOUS
  <2>1. ASSUME NEW t \in Counters, Report(t) PROVE FALSE
    BY <2>1, ReportFindsMain DEF BoxIInv
  <2> QED BY <2>1 DEF Next, Main, Create, MainWaits, MainReads, MainJoins, MainPrints, Counter,
          CountWord, GetBox, GetBoxAgain, Unlock, Wakeup, Ended, vars
<1> QED BY <1>1, BoxInit, BoxStep, PTL DEF Spec, NoOverwrite

-----------------------------------------------------------------------------
(* hw8: a file counted in blocks by threads                                *)

Places    == {"new", "counting", "lock", "load", "store", "unlock", "returned"}
Inside == {"load", "store", "unlock"}    \* between the two calls of the mutex

\* What main() knows of the threads by counting them.
JoinInv ==
    /\ nthreads \in Nat \ {0} /\ joined \in 0..nthreads
    /\ at \in [Ids -> Places]
    /\ main \in {"create", "join", "print", "printed"}
    /\ main = "join" => \A i \in Ids : i < joined => at[i] = "returned"
    /\ main \in {"print", "printed"} => \A i \in Ids : at[i] = "returned"
    /\ ~buff => main \in {"print", "printed"}

\* The mutex is held by the one thread that is inside.
CounterLockInv ==
    /\ counter_lock \in {"free", "held"}
    /\ DOMAIN tmp = Ids
    /\ \A i \in Ids : at[i] \in Inside => counter_lock = "held"
    /\ \A i, j \in Ids : at[i] \in Inside /\ at[j] \in Inside => i = j

\* A thread that is about to store total has seen its last value.
AddsToLatest == \A i \in Ids : at[i] = "store" => tmp[i] = total

BlocksInv == JoinInv /\ CounterLockInv /\ AddsToLatest

LEMMA BlocksInvInit == BlocksInit => BlocksInv
<1> SUFFICES ASSUME BlocksInit PROVE BlocksInv
  OBVIOUS
<1>1. JoinInv
  BY SizeAssumption DEF BlocksInit, JoinInv, Ids, Places
<1>2. CounterLockInv /\ AddsToLatest
  BY DEF BlocksInit, CounterLockInv, AddsToLatest, Inside
<1> QED BY <1>1, <1>2 DEF BlocksInv

\* main(): it changes at only of a thread that it creates.
LEMMA BlocksMainStep == BlocksInv /\ (CreateThread \/ Join \/ Free \/ PrintTotal) => BlocksInv'
<1> SUFFICES ASSUME BlocksInv, CreateThread \/ Join \/ Free \/ PrintTotal PROVE BlocksInv'
  OBVIOUS
<1>1. Ids' = Ids
  BY DEF CreateThread, Join, Free, PrintTotal, Ids
<1>2. CASE CreateThread
  <2>1. JoinInv'
    BY <1>1, <1>2 DEF CreateThread, BlocksInv, JoinInv, Places, Ids
  <2>2. \A i \in Ids : at'[i] \in Inside => at[i] \in Inside /\ at'[i] = at[i]
    BY <1>2 DEF CreateThread, BlocksInv, JoinInv, Inside
  <2>3. CounterLockInv'
    BY <1>1, <1>2, <2>2 DEF CreateThread, BlocksInv, CounterLockInv
  <2>4. AddsToLatest'
    BY <1>1, <1>2, <2>2 DEF CreateThread, BlocksInv, AddsToLatest, Inside
  <2> QED BY <2>1, <2>3, <2>4 DEF BlocksInv
<1>3. CASE Join \/ Free \/ PrintTotal
  <2>1. JoinInv'
    BY <1>1, <1>3 DEF Join, Free, PrintTotal, BlocksInv, JoinInv, Ids
  <2>2. CounterLockInv' /\ AddsToLatest'
    BY <1>1, <1>3 DEF Join, Free, PrintTotal, BlocksInv, CounterLockInv, AddsToLatest
  <2> QED BY <2>1, <2>2 DEF BlocksInv
<1> QED BY <1>2, <1>3

\* count_words(): the mutex is taken before the load and given back after the store.
LEMMA ThreadStep == BlocksInv /\ (\E i \in Ids : Thread(i)) => BlocksInv'
<1> SUFFICES ASSUME BlocksInv, NEW i \in Ids, Thread(i) PROVE BlocksInv'
  OBVIOUS
<1>1. /\ Ids' = Ids /\ nthreads' = nthreads /\ buff' = buff /\ main' = main /\ joined' = joined
      /\ at[i] # "returned"
      /\ \E l \in Places : at' = [at EXCEPT ![i] = l]
  BY DEF Thread, Count, LockTotal, LoadTotal, StoreTotal, UnlockTotal, Ids, Places
<1>2. JoinInv'
  BY <1>1 DEF BlocksInv, JoinInv, Places
<1>3. at \in [Ids -> Places]
  BY DEF BlocksInv, JoinInv
<1>4. CASE Count(i)
  <2>1. CounterLockInv' /\ AddsToLatest'
    BY <1>1, <1>3, <1>4 DEF Count, BlocksInv, CounterLockInv, AddsToLatest, Inside
  <2> QED BY <1>2, <2>1 DEF BlocksInv
<1>5. CASE LockTotal(i)
  <2>1. \A j \in Ids : at[j] \notin Inside
    BY <1>5 DEF LockTotal, BlocksInv, CounterLockInv
  <2>2. CounterLockInv' /\ AddsToLatest'
    BY <1>1, <1>3, <1>5, <2>1 DEF LockTotal, BlocksInv, CounterLockInv, AddsToLatest, Inside
  <2> QED BY <1>2, <2>2 DEF BlocksInv
<1>6. CASE LoadTotal(i)
  <2>1. CounterLockInv' /\ AddsToLatest'
    BY <1>1, <1>3, <1>6 DEF LoadTotal, BlocksInv, CounterLockInv, AddsToLatest, Inside
  <2> QED BY <1>2, <2>1 DEF BlocksInv
<1>7. CASE StoreTotal(i)
  <2>1. \A j \in Ids : at[j] \in Inside => j = i
    BY <1>7 DEF StoreTotal, BlocksInv, CounterLockInv, Inside
  <2>2. CounterLockInv' /\ AddsToLatest'
    BY <1>1, <1>3, <1>7, <2>1 DEF StoreTotal, BlocksInv, CounterLockInv, AddsToLatest, Inside
  <2> QED BY <1>2, <2>2 DEF BlocksInv
<1>8. CASE UnlockTotal(i)
  <2>1. \A j \in Ids : at[j] \in Inside => j = i
    BY <1>8 DEF UnlockTotal, BlocksInv, CounterLockInv, Inside
  <2>2. CounterLockInv' /\ AddsToLatest'
    BY <1>1, <1>3, <1>8, <2>1 DEF UnlockTotal, BlocksInv, CounterLockInv, AddsToLatest, Inside
  <2> QED BY <1>2, <2>2 DEF BlocksInv
<1> QED BY <1>4, <1>5, <1>6, <1>7, <1>8 DEF Thread

LEMMA BlocksInvStep == BlocksInv /\ [BlocksNext]_blockVars => BlocksInv'
<1> SUFFICES ASSUME BlocksInv, UNCHANGED blockVars PROVE BlocksInv'
  BY BlocksMainStep, ThreadStep DEF BlocksNext, Done
<1> QED BY DEF BlocksInv, JoinInv, CounterLockInv, AddsToLatest, blockVars, Ids

\* main()'s free(buff) comes after the last read of any thread.
THEOREM BufferSafe == BlocksSpec => []BufferOutlivesReaders
<1>1. BlocksInv => BufferOutlivesReaders
  BY DEF BlocksInv, JoinInv, BufferOutlivesReaders
<1> QED BY <1>1, BlocksInvInit, BlocksInvStep, PTL DEF BlocksSpec

\* No thread's addition is lost: what count_words() stores is the total as it is
\* then, plus its own count.
THEOREM AddsSafe == BlocksSpec => []AddsToLatest
<1>1. BlocksInv => AddsToLatest
  BY DEF BlocksInv
<1> QED BY <1>1, BlocksInvInit, BlocksInvStep, PTL DEF BlocksSpec

-----------------------------------------------------------------------------
(* The total.  It is a sum over the threads, but need not be treated as one:*)
(* it counts one set of positions, that of the words added so far, and the  *)
(* set grows by a block's words, which are in no other block.               *)

\* Where thread i counts a word.
WordsOf(i) == {p \in Block(i) : ~text[p] /\ p - 1 \in Block(i) /\ text[p - 1]}

Added   == {i \in Ids : at[i] \in {"unlock", "returned"}}
Counted == {p \in 1..Len(text) : \E i \in Added : p \in WordsOf(i)}

SumInv ==
    /\ text \in Seq(BOOLEAN)
    /\ main = "create" => \A i \in Ids : joined <= i => at[i] = "new"
    /\ DOMAIN counter = Ids
    /\ \A i \in Ids : counter[i] = IF at[i] \in {"new", "counting"} THEN 0
                                                                 ELSE Cardinality(WordsOf(i))
    /\ total = Cardinality(Counted)

LEMMA MulMonotonic ==
    ASSUME NEW q \in Nat, NEW a \in Nat, NEW b \in Nat, a <= b
    PROVE  q * a <= q * b
<1>1. PICK d \in Nat : b = a + d
  BY b - a \in Nat
<1>2. q * b = q * a + q * d /\ q * d >= 0
  BY <1>1
<1> QED BY <1>2

\* The blocks lie in the file and do not overlap.
LEMMA BlocksInside ==
    ASSUME NEW L \in Nat, NEW n \in Nat \ {0}, NEW i \in 0..n - 1
    PROVE  L \div n \in Nat /\ (L \div n) * i \in Nat /\ (L \div n) * i + (L \div n) <= L
<1> DEFINE q == L \div n
<1>1. q \in Nat /\ q * n <= L
  OBVIOUS
<1>2. q * (i + 1) <= q * n
  BY <1>1, MulMonotonic
<1>3. q * (i + 1) = q * i + q /\ q * i \in Nat
  BY <1>1
<1> QED BY <1>1, <1>2, <1>3

LEMMA BlocksApart ==
    ASSUME nthreads \in Nat \ {0}, Len(text) \in Nat,
           NEW i \in Ids, NEW j \in Ids, i # j
    PROVE  Block(i) \cap Block(j) = {}
<1>1. block_size \in Nat /\ i \in Nat /\ j \in Nat
  BY BlocksInside DEF block_size, Ids
<1>2. ASSUME NEW a \in Nat, NEW b \in Nat, a < b
      PROVE  block_size * a + block_size <= block_size * b
  <2>1. block_size * (a + 1) <= block_size * b
    BY <1>1, <1>2, MulMonotonic
  <2>2. block_size * (a + 1) = block_size * a + block_size
    BY <1>1
  <2> QED BY <2>1, <2>2
<1>3. CASE i < j
  <2>1. block_size * i + block_size <= block_size * j
    BY <1>1, <1>2, <1>3
  <2> QED BY <1>1, <2>1 DEF Block
<1>4. CASE j < i
  <2>1. block_size * j + block_size <= block_size * i
    BY <1>1, <1>2, <1>4
  <2> QED BY <1>1, <2>1 DEF Block
<1> QED BY <1>1, <1>3, <1>4

LEMMA BlockType ==
    ASSUME nthreads \in Nat \ {0}, Len(text) \in Nat, NEW i \in Ids
    PROVE  Block(i) \subseteq 1..Len(text)
<1>1. /\ block_size \in Nat /\ block_size * i \in Nat
      /\ block_size * i + block_size <= Len(text)
  BY BlocksInside DEF block_size, Ids
<1> QED BY <1>1 DEF Block

LEMMA WordsFinite ==
    ASSUME nthreads \in Nat \ {0}, Len(text) \in Nat
    PROVE  /\ \A i \in Ids : IsFiniteSet(WordsOf(i)) /\ WordsOf(i) \subseteq 1..Len(text)
           /\ \A i \in Ids : Cardinality(WordsOf(i)) \in Nat
           /\ IsFiniteSet(Counted) /\ Cardinality(Counted) \in Nat
<1>1. IsFiniteSet(1..Len(text))
  BY FS_Interval
<1>2. \A i \in Ids : WordsOf(i) \subseteq 1..Len(text)
  BY BlockType DEF WordsOf
<1>3. Counted \subseteq 1..Len(text)
  BY DEF Counted
<1> QED BY <1>1, <1>2, <1>3, FS_Subset, FS_CardinalityType
LEMMA TextLen == SumInv => Len(text) \in Nat
BY LenProperties DEF SumInv

LEMMA SumInit == BlocksInit => SumInv
<1> SUFFICES ASSUME BlocksInit PROVE SumInv
  OBVIOUS
<1>1. text \in Seq(BOOLEAN)
  <2>1. \A n \in Nat : [1..n -> BOOLEAN] \subseteq Seq(BOOLEAN)
    BY SeqDef
  <2> QED BY <2>1, SizeAssumption DEF BlocksInit, BoundedSeq, SeqOf
<1>2. Counted = {}
  BY DEF BlocksInit, Counted, Added
<1> QED BY <1>1, <1>2, FS_EmptySet DEF BlocksInit, SumInv

\* Nothing that WordsOf and Counted look at moves but what a thread has added.
LEMMA WordsConstant ==
    ASSUME text' = text, nthreads' = nthreads
    PROVE  /\ Ids' = Ids
           /\ \A i \in Ids : WordsOf(i)' = WordsOf(i)
           /\ Added' = Added => Counted' = Counted
BY DEF Ids, WordsOf, Block, block_size, Counted

LEMMA SumStep == BlocksInv /\ SumInv /\ [BlocksNext]_blockVars => SumInv'
<1> SUFFICES ASSUME BlocksInv, SumInv, [BlocksNext]_blockVars PROVE SumInv'
  OBVIOUS
<1>0. /\ at \in [Ids -> Places] /\ DOMAIN counter = Ids /\ nthreads \in Nat \ {0} /\ Len(text) \in Nat
      /\ text \in Seq(BOOLEAN) /\ total = Cardinality(Counted)
  BY TextLen DEF BlocksInv, JoinInv, SumInv
<1>1. text' = text /\ nthreads' = nthreads
  BY DEF BlocksNext, CreateThread, Join, Free, PrintTotal, Thread, Count, LockTotal, LoadTotal, StoreTotal, UnlockTotal,
         Done, blockVars
<1>2. Ids' = Ids /\ \A i \in Ids : WordsOf(i)' = WordsOf(i)
  BY <1>1, WordsConstant
<1>3. CASE CreateThread
  <2>1. counter' = counter /\ total' = total /\ at' \in [Ids -> Places]
    BY <1>0, <1>3 DEF CreateThread, Places
  <2>2. \A i \in Ids : at'[i] = at[i] \/ (at[i] = "new" /\ at'[i] = "counting")
    BY <1>0, <1>3 DEF CreateThread, SumInv, BlocksInv, JoinInv, Ids
  <2>3. Added' = Added
    BY <1>2, <2>2 DEF Added
  <2>4. main' = "create" => \A i \in Ids : joined' <= i => at'[i] = "new"
    BY <1>0, <1>3 DEF CreateThread, SumInv, BlocksInv, JoinInv, Ids
  <2> QED BY <1>0, <1>1, <1>2, <2>1, <2>2, <2>3, <2>4, WordsConstant DEF SumInv
<1>4. CASE Join \/ Free \/ PrintTotal \/ UNCHANGED blockVars
  <2>1. /\ UNCHANGED <<counter, total, at>>
        /\ main' = "create" => main = "create" /\ joined' = joined
    BY <1>4 DEF Join, Free, PrintTotal, blockVars
  <2>2. Added' = Added
    BY <1>2, <2>1 DEF Added
  <2> QED BY <1>0, <1>1, <1>2, <2>1, <2>2, WordsConstant DEF SumInv
<1>5. ASSUME NEW i \in Ids, Thread(i) PROVE SumInv'
  <2>1. /\ main' = main /\ joined' = joined /\ at[i] # "new"
        /\ \A j \in Ids \ {i} : at'[j] = at[j]
    BY <1>0, <1>5 DEF Thread, Count, LockTotal, LoadTotal, StoreTotal, UnlockTotal
  <2>2. main' = "create" => \A j \in Ids : joined' <= j => at'[j] = "new"
    BY <2>1 DEF SumInv
  <2>3. IsFiniteSet(WordsOf(i)) /\ IsFiniteSet(Counted) /\ WordsOf(i) \subseteq 1..Len(text)
    BY <1>0, WordsFinite
  <2>4. CASE Count(i)
    <3>1. /\ at[i] = "counting" /\ at'[i] = "lock" /\ total' = total
          /\ counter' = [counter EXCEPT ![i] = 0 + Cardinality(WordsOf(i))]
      BY <1>0, <2>4 DEF Count, SumInv, WordsIn, WordsOf
    <3>2. Cardinality(WordsOf(i)) \in Nat
      BY <1>0, WordsFinite
    <3>3. Added' = Added
      BY <1>2, <2>1, <3>1 DEF Added
    <3> QED BY <1>0, <1>1, <1>2, <2>1, <2>2, <3>1, <3>2, <3>3, WordsConstant DEF SumInv
  <2>5. CASE LockTotal(i) \/ LoadTotal(i) \/ UnlockTotal(i)
    <3>1. /\ at[i] \in {"lock", "load", "unlock"} /\ total' = total /\ counter' = counter
          /\ at'[i] \in {"load", "store", "returned"}
          /\ at'[i] = "returned" <=> at[i] = "unlock"
      BY <1>0, <2>5 DEF LockTotal, LoadTotal, UnlockTotal
    <3>2. Added' = Added
      BY <1>2, <2>1, <3>1 DEF Added
    <3> QED BY <1>0, <1>1, <1>2, <2>1, <2>2, <3>1, <3>2, WordsConstant DEF SumInv
  <2>6. CASE StoreTotal(i)
    <3>1. /\ at[i] = "store" /\ at'[i] = "unlock" /\ counter' = counter
          /\ total' = total + Cardinality(WordsOf(i))
      BY <1>0, <2>6 DEF StoreTotal, SumInv, BlocksInv, AddsToLatest
    <3>2. Added' = Added \cup {i} /\ i \notin Added
      BY <1>2, <2>1, <3>1 DEF Added
    <3>3. Counted' = Counted \cup WordsOf(i)
      BY <1>1, <1>2, <2>3, <3>2 DEF Counted, Added
    <3>4. Counted \cap WordsOf(i) = {}
      BY <1>0, <3>2, BlocksApart DEF Counted, WordsOf, Added
    <3>5. Cardinality(Counted') = Cardinality(Counted) + Cardinality(WordsOf(i))
      <4>1. Cardinality(Counted) \in Nat /\ Cardinality(WordsOf(i)) \in Nat
        BY <1>0, WordsFinite
      <4>2. Cardinality(Counted \cup WordsOf(i)) =
                Cardinality(Counted) + Cardinality(WordsOf(i)) - Cardinality({})
        BY <2>3, <3>4, FS_Union
      <4>3. Cardinality(Counted \cup WordsOf(i)) = Cardinality(Counted) + Cardinality(WordsOf(i))
        BY <4>1, <4>2, FS_EmptySet
      <4> QED BY <3>3, <4>3
    <3> QED BY <1>0, <1>1, <1>2, <2>1, <2>2, <3>1, <3>5 DEF SumInv
  <2> QED BY <1>5, <2>4, <2>5, <2>6 DEF Thread
<1> QED BY <1>3, <1>4, <1>5 DEF BlocksNext, Done

\* A word that a thread counts at the byte behind it ends in the same block.
LEMMA CountedWords ==
    ASSUME SumInv, nthreads \in Nat \ {0}, Added = Ids
    PROVE  Cardinality(Counted) =
               Cardinality({p \in WordEnds : \E i \in Ids : p \in Block(i) /\ p + 1 \in Block(i)})
<1> DEFINE T == {p \in WordEnds : \E i \in Ids : p \in Block(i) /\ p + 1 \in Block(i)}
           f == [p \in Counted |-> p - 1]
<1>1. Len(text) \in Nat /\ DOMAIN text = 1..Len(text)
  BY LenProperties DEF SumInv
<1>2. \A i \in Ids : Block(i) \subseteq 1..Len(text)
  BY <1>1, BlockType
<1>3. \A p \in Counted : p - 1 \in T
  <2> SUFFICES ASSUME NEW p \in Counted PROVE p - 1 \in T
    OBVIOUS
  <2>1. PICK i \in Ids : p \in WordsOf(i)
    BY DEF Counted, Added
  <2>2. p \in Int /\ p - 1 + 1 = p /\ p \in Block(i) /\ p - 1 \in Block(i) /\ p - 1 \in 1..Len(text)
    BY <1>2, <2>1 DEF WordsOf
  <2>3. text[p - 1] /\ ~text[p]
    BY <2>1 DEF WordsOf
  <2> QED BY <1>1, <2>2, <2>3 DEF WordEnds
<1>4. \A q \in T : q + 1 \in Counted /\ q \in Int
  <2> SUFFICES ASSUME NEW q \in T PROVE q + 1 \in Counted /\ q \in Int
    OBVIOUS
  <2>1. PICK i \in Ids : q \in Block(i) /\ q + 1 \in Block(i)
    OBVIOUS
  <2>2. q \in Int /\ q + 1 \in 1..Len(text) /\ q + 1 - 1 = q /\ q # Len(text)
    BY <1>1, <1>2, <2>1
  <2>3. text[q] /\ ~text[q + 1]
    BY <2>2 DEF WordEnds
  <2>4. q + 1 \in WordsOf(i)
    BY <2>1, <2>2, <2>3 DEF WordsOf
  <2> QED BY <2>2, <2>4 DEF Counted
<1>5. f \in Bijection(Counted, T)
  <2>1. f \in [Counted -> T]
    BY <1>3
  <2>2. \A p, q \in Counted : f[p] = f[q] => p = q
    BY DEF Counted
  <2>3. \A q \in T : \E p \in Counted : f[p] = q
    <3> SUFFICES ASSUME NEW q \in T PROVE f[q + 1] = q /\ q + 1 \in Counted
      OBVIOUS
    <3> QED BY <1>4
  <2> QED BY <2>1, <2>2, <2>3 DEF Bijection, Injection, Surjection, IsInjective
<1>6. IsFiniteSet(Counted)
  BY <1>1, WordsFinite
<1> HIDE DEF T, f
<1>7. ExistsBijection(Counted, T)
  BY <1>5 DEF ExistsBijection
<1>8. Cardinality(T) = Cardinality(Counted)
  BY <1>6, <1>7, FS_Bijection
<1> QED BY <1>8 DEF T

\* The printed total is the number of words that end inside of a block, for every
\* file and number of threads, in whatever order the threads add to it.
THEOREM CountSafe == BlocksSpec => []CountsInnerWords
<1>1. BlocksInv /\ SumInv => CountsInnerWords
  <2> SUFFICES ASSUME BlocksInv, SumInv, main = "printed"
               PROVE  total = Cardinality({p \in WordEnds : \E i \in Ids :
                                               p \in Block(i) /\ p + 1 \in Block(i)})
    BY DEF CountsInnerWords
  <2>1. Added = Ids /\ nthreads \in Nat \ {0}
    BY DEF BlocksInv, JoinInv, Added
  <2> QED BY <2>1, CountedWords DEF SumInv
<1> QED BY <1>1, BlocksInvInit, BlocksInvStep, SumInit, SumStep, PTL DEF BlocksSpec
=============================================================================
