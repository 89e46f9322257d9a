----------------------------- MODULE WordBlocks -----------------------------
(***************************************************************************)
(* src/191125/hw8/hw8_2018110124.c (and hw8_2017114553.c, the same with an  *)
(* int total): a file is split into blocks of len / nthreads bytes, a       *)
(* thread counts the words of each block and adds its count to total under  *)
(* a mutex; main() joins the threads, frees the buffer and prints total.    *)
(* A byte of the file is TRUE when it is alphanumeric.                      *)
(***************************************************************************)
EXTENDS Integers, FiniteSetsExt, SequencesExt

CONSTANTS
    MaxLen,       \* bound: the length of the file
    MaxThreads    \* MAXTHREAD, the size of data[]: more threads would overrun it

ASSUME SizeAssumption == MaxLen \in Nat /\ MaxThreads \in Nat \ {0}

VARIABLES
    text, nthreads,   \* the file in buff, and argv[1]
    buff,             \* buff is allocated
    counter,          \* data[i].counter
    total, counter_lock, \* shared by the threads
    at, tmp,          \* where each thread is; its copy of total
    main, joined      \* where main() is; the threads it created or joined

blockVars == <<text, nthreads, buff, counter, total, counter_lock, at, tmp, main, joined>>

Ids == 0..nthreads - 1

BlocksInit ==
    /\ text \in BoundedSeq(BOOLEAN, MaxLen)
    /\ nthreads \in 1..MaxThreads
    /\ buff = TRUE /\ total = 0 /\ counter_lock = "free"
    /\ counter = [i \in Ids |-> 0]
    /\ at = [i \in Ids |-> "new"] /\ tmp = [i \in Ids |-> 0]
    /\ main = "create" /\ joined = 0

block_size == Len(text) \div nthreads

\* The positions of thread i's block, counted from 1.
Block(i) == (block_size * i + 1)..(block_size * i + block_size)

\* count_words()'s loop: a word is counted at the byte after it; prevc is '\0'
\* at the first byte of the block.
WordsIn(block) ==
    Cardinality({p \in block : ~text[p] /\ p - 1 \in block /\ text[p - 1]})

-----------------------------------------------------------------------------
(* main()                                                                   *)

\* pthread_create() for i = 0, 1, ...
CreateThread ==
    /\ main = "create"
    /\ IF joined = nthreads
       THEN main' = "join" /\ joined' = 0 /\ UNCHANGED at
       ELSE at' = [at EXCEPT ![joined] = "counting"] /\ joined' = joined + 1 /\ UNCHANGED main
    /\ UNCHANGED <<text, nthreads, buff, counter, total, counter_lock, tmp>>

\* Mutant: the threads are not waited for.
JoinNot ==
    /\ main = "join" /\ joined < nthreads
    /\ joined' = joined + 1
    /\ UNCHANGED <<text, nthreads, buff, counter, total, counter_lock, at, tmp, main>>

\* pthread_join() for i = 0, 1, ...
Join ==
    /\ main = "join" /\ joined < nthreads /\ at[joined] = "returned"
    /\ joined' = joined + 1
    /\ UNCHANGED <<text, nthreads, buff, counter, total, counter_lock, at, tmp, main>>

\* fclose(), free(buff); then the total is printed.
Free ==
    /\ main = "join" /\ joined = nthreads
    /\ buff' = FALSE
    /\ main' = "print"
    /\ UNCHANGED <<text, nthreads, counter, total, counter_lock, at, tmp, joined>>

PrintTotal ==
    /\ main = "print"
    /\ main' = "printed"
    /\ UNCHANGED <<text, nthreads, buff, counter, total, counter_lock, at, tmp, joined>>

-----------------------------------------------------------------------------
(* count_words()                                                            *)

\* The loop over the block; only this thread reads counter before it is done.
Count(i) ==
    /\ at[i] = "counting"
    /\ counter' = [counter EXCEPT ![i] = @ + WordsIn(Block(i))]
    /\ at' = [at EXCEPT ![i] = "lock"]
    /\ UNCHANGED <<text, nthreads, buff, total, counter_lock, tmp, main, joined>>

\* Mutant: the mutex is not taken.
LockTotalNot(i) ==
    /\ at[i] = "lock"
    /\ at' = [at EXCEPT ![i] = "load"]
    /\ UNCHANGED <<text, nthreads, buff, counter, total, counter_lock, tmp, main, joined>>

\* pthread_mutex_lock(&lock)
LockTotal(i) ==
    /\ at[i] = "lock" /\ counter_lock = "free"
    /\ counter_lock' = "held"
    /\ at' = [at EXCEPT ![i] = "load"]
    /\ UNCHANGED <<text, nthreads, buff, counter, total, tmp, main, joined>>

\* total += args->counter is a load and a store.
LoadTotal(i) ==
    /\ at[i] = "load"
    /\ tmp' = [tmp EXCEPT ![i] = total]
    /\ at' = [at EXCEPT ![i] = "store"]
    /\ UNCHANGED <<text, nthreads, buff, counter, total, counter_lock, main, joined>>

StoreTotal(i) ==
    /\ at[i] = "store"
    /\ total' = tmp[i] + counter[i]
    /\ at' = [at EXCEPT ![i] = "unlock"]
    /\ UNCHANGED <<text, nthreads, buff, counter, counter_lock, tmp, main, joined>>

\* pthread_mutex_unlock(&lock)
UnlockTotal(i) ==
    /\ at[i] = "unlock"
    /\ counter_lock' = "free"
    /\ at' = [at EXCEPT ![i] = "returned"]
    /\ UNCHANGED <<text, nthreads, buff, counter, total, tmp, main, joined>>

Thread(i) == Count(i) \/ LockTotal(i) \/ LoadTotal(i) \/ StoreTotal(i) \/ UnlockTotal(i)

Done == main = "printed" /\ UNCHANGED blockVars

BlocksNext == CreateThread \/ Join \/ Free \/ PrintTotal \/ (\E i \in Ids : Thread(i)) \/ Done

BlocksSpec == BlocksInit /\ [][BlocksNext]_blockVars

-----------------------------------------------------------------------------
(* Properties                                                               *)

BlocksTypeOK ==
    /\ text \in Seq(BOOLEAN) /\ nthreads \in 1..MaxThreads /\ buff \in BOOLEAN
    /\ counter \in [Ids -> Nat] /\ tmp \in [Ids -> Nat]
    /\ total \in Nat /\ counter_lock \in {"free", "held"}
    /\ at \in [Ids -> {"new", "counting", "lock", "load", "store", "unlock", "returned"}]
    /\ main \in {"create", "join", "print", "printed"} /\ joined \in 0..nthreads

\* The buffer outlives its readers, and total is printed when all have added.
BufferOutlivesReaders == ~buff => \A i \in Ids : at[i] = "returned"

\* The last byte of each word of the file: what there is to count.
WordEnds == {p \in DOMAIN text : text[p] /\ (p = Len(text) \/ ~text[p + 1])}

\* A word is counted at the byte after it, by the thread that has both in its
\* block.  Each such word is in the total once, no thread's addition is lost.  The
\* words that end with a block, or in the remainder that no thread reads, are not
\* counted: CountsAllWords fails.
CountsInnerWords ==
    main = "printed" =>
        total = Cardinality({p \in WordEnds : \E i \in Ids : p \in Block(i) /\ p + 1 \in Block(i)})

\* "print the total number of words in the file" (hw8_2018110124.c:99), of a file
\* that ends with a newline, say.  It does not hold: a word is lost at each block
\* boundary that comes behind a letter.
CountsAllWords ==
    main = "printed" /\ text # <<>> /\ ~Last(text) => total = Cardinality(WordEnds)
=============================================================================
