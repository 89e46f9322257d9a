---------------------------- MODULE MCWordCounts ----------------------------
(* The threaded word counters, each of them alone: twordcount4 with its two *)
(* counters and two files of three words, and hw8.                          *)
EXTENDS TWordCount4, WordBlocks

VARIABLE program

allVars == <<program, vars, blockVars>>

TwoFiles  == [t \in {"t1", "t2"} |-> IF t = "t1" THEN "av[1]" ELSE "av[2]"]
SameCount == [f \in {"av[1]", "av[2]"} |-> 3]

\* The variables of the program that does not run keep one initial value.
MCInit ==
    /\ Init /\ BlocksInit
    /\ \/ program = "twordcount4" /\ text = <<>> /\ nthreads = 1
       \/ program = "hw8" /\ spurious

RunTWordCount4(A) == program = "twordcount4" /\ A /\ UNCHANGED <<program, blockVars>>

RunBlocks == program = "hw8" /\ BlocksNext /\ UNCHANGED <<program, vars>>

MCNext == RunTWordCount4(Next) \/ RunBlocks

\* The fairness of TWordCount4's FairSpec.
MCSpec ==
    /\ MCInit /\ [][MCNext]_allVars
    /\ SF_allVars(RunTWordCount4(Main))
    /\ \A t \in Counters : SF_allVars(RunTWordCount4(Counter(t)))
=============================================================================
