----------------------------- MODULE KeyStream -----------------------------
(***************************************************************************)
(* What an event-driven keyboard program promises: the keys typed are acted *)
(* on one by one, in the order they were typed, none twice, and, until the  *)
(* quit key, each of them.                                                  *)
(***************************************************************************)
EXTENDS Naturals, Sequences, SequencesExt

CONSTANT Keys

VARIABLES typed, handled

vars == <<typed, handled>>

Init == typed = <<>> /\ handled = <<>>

Type(k) == typed' = Append(typed, k) /\ UNCHANGED handled

Handle ==
    /\ Len(handled) < Len(typed)
    /\ handled' = Append(handled, typed[Len(handled) + 1])
    /\ UNCHANGED typed

Next == (\E k \in Keys : Type(k)) \/ Handle

Spec == Init /\ [][Next]_vars

Quit == "quit" \in Range(handled)

Prompt == WF_vars(Handle /\ ~Quit)

FairSpec == Spec /\ Prompt
=============================================================================
