------------------------------ MODULE Reports ------------------------------
(***************************************************************************)
(* What a threaded word counter promises: the count of every counter thread *)
(* is added to the total once, when it is final, and the total is complete  *)
(* when it is announced.                                                    *)
(***************************************************************************)
EXTENDS Naturals

CONSTANTS Counters, Words      \* the threads; the number of words of each one's file

VARIABLES collected, total, announced

vars == <<collected, total, announced>>

Init == collected = {} /\ total = 0 /\ announced = FALSE

Collect(t) ==
    /\ t \notin collected
    /\ collected' = collected \cup {t}
    /\ total' = total + Words[t]
    /\ UNCHANGED announced

Announce ==
    /\ collected = Counters /\ ~announced
    /\ announced' = TRUE
    /\ UNCHANGED <<collected, total>>

Next == (\E t \in Counters : Collect(t)) \/ Announce

Spec == Init /\ [][Next]_vars
=============================================================================
