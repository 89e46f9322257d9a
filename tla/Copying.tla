------------------------------ MODULE Copying ------------------------------
(***************************************************************************)
(* The programs that copy files and directories: cp1.c, the three           *)
(* submissions of hw2, and cp_mid_KS.c of the midterm, while somebody else  *)
(* changes the directory that is copied.  One action per call that names a  *)
(* file and per block; an entry may change, vanish or appear between any    *)
(* two of them, and again.                                                  *)
(***************************************************************************)
EXTENDS Naturals, FiniteSets, FiniteSetsExt, SequencesExt, Functions

CONSTANTS
    Starts,   \* records: program, tree, src, dst, and the bounds meddles and faults
    MaxInos   \* bound: how many files and directories there may be

ASSUME InoAssumption == MaxInos \in Nat \ {0}

Inos == 1..MaxInos
Root == 1            \* the working directory

VARIABLES
    start,    \* the member of Starts that runs
    node,     \* by inode: kind, mode (who may read it), data (blocks), names (its entries)
    frames,   \* the calls of the function that copies a directory, the latest last
    pc,       \* where the program is in it
    input, output, pos,  \* the open files, and how far input has been read
    status,   \* "running", "done" or "failed"
    touched,  \* history: how often somebody else has changed each entry of the source
    had,      \* history: which files have been where below the source, with what blocks
    faults    \* how many writes have failed

copy == <<frames, pc, input, output, pos, status, faults>>
vars == <<start, node, copy, touched, had>>

File(mode, data) == [kind |-> "file", mode |-> mode, data |-> data, names |-> <<>>]
Dir(names)       == [kind |-> "dir", mode |-> {"owner", "group"}, data |-> <<>>, names |-> names]
Free             == [kind |-> "free", mode |-> {}, data |-> <<>>, names |-> <<>>]

-----------------------------------------------------------------------------
(* Paths are sequences of names.                                            *)

\* What inode d of a disk has under a name, or 0.
Entry(disk, d, name) ==
    IF d = 0 \/ name = "." THEN d
    ELSE IF name \in DOMAIN disk[d].names THEN disk[d].names[name] ELSE 0

\* The inode at the end of a path on a disk, or 0.
LookupOn(disk, path) ==
    LET at[k \in 0..Len(path)] == IF k = 0 THEN Root ELSE Entry(disk, at[k - 1], path[k])
    IN at[Len(path)]

Lookup(path) == LookupOn(node, path)
Exists(path) == Lookup(path) # 0
IsDir(path)  == Exists(path) /\ node[Lookup(path)].kind = "dir"

\* Another file or directory can be made.
Room == \E i \in Inos : node[i].kind = "free"

NewIno == Min({i \in Inos : node[i].kind = "free"})

Added(path, new) ==
    LET d == Lookup(Front(path)) IN
    [node EXCEPT ![NewIno] = new,
                 ![d].names = [n \in DOMAIN @ \cup {Last(path)} |->
                                  IF n = Last(path) THEN NewIno ELSE node[d].names[n]]]

-----------------------------------------------------------------------------
(* The calls of the copying function                                        *)

Directory == start.program # "cp1"
KS        == start.program = "cp_mid_KS"
Tutor     == start.program = "hw2_tutor"
Hw2       == Directory /\ ~KS

NoName == "/"   \* what no entry is called

\* A directory stream takes the entries from the disk when it is first read.
Unread == {NoName}

\* What struct stat holds: nothing yet, or what a path was when it was last found.
Unset == [dir |-> FALSE, readable |-> FALSE, set |-> FALSE]
Infos == [dir : BOOLEAN, readable : BOOLEAN, set : {TRUE}]

Frame(src, dst) ==
    [src |-> src, dst |-> dst, pass |-> 1, left |-> Unread, entry |-> NoName, info |-> Unset]

Top      == Last(frames)
From     == Top.src \o (IF Directory THEN <<Top.entry>> ELSE <<>>)
To       == Top.dst \o (IF Directory THEN <<Top.entry>> ELSE <<>>)
Now(top) == Front(frames) \o <<top>>

\* Where there may be files below the source or the destination.
Names == {"a", "b", "d"}
Below == {<<n>> : n \in Names} \cup {<<m, n>> : m, n \in Names}

\* All strings (no prover knows that the literals here are strings).
AllNames == STRING \cup Names \cup {NoName, "."}
Blocks   == STRING \cup {"n", "x"}

\* What a disk is: only directories have entries, and nothing has two.
IsNode(f) ==
    /\ f = [kind |-> f.kind, mode |-> f.mode, data |-> f.data, names |-> f.names]
    /\ f.kind \in {"file", "dir", "free"} /\ f.data \in Seq(Blocks)
    /\ f.kind # "dir" => DOMAIN f.names = {}

IsEntry(disk, i, n) ==
    /\ n \in AllNames \ {NoName, "."} /\ disk[i].names[n] \in DOMAIN disk \ {Root, i}
    /\ disk[disk[i].names[n]].kind # "free"

NoLinks(disk) ==
    \A i, j \in DOMAIN disk : \A n \in DOMAIN disk[i].names, m \in DOMAIN disk[j].names :
        disk[i].names[n] = disk[j].names[m] => i = j /\ n = m

IsTree(disk) ==
    /\ \A i \in DOMAIN disk : IsNode(disk[i]) /\ \A n \in DOMAIN disk[i].names : IsEntry(disk, i, n)
    /\ NoLinks(disk)
    /\ Root \in DOMAIN disk /\ disk[Root].kind = "dir"

\* Neither the destination nor what may be below it is the source or inside of it, and
\* the source is not inside of itself.
Apart(st) ==
    LET source == LookupOn(st.tree, st.src) IN
    /\ \A k \in 0..Len(st.src) - 1 : LookupOn(st.tree, SubSeq(st.src, 1, k)) # source
    /\ \A k \in 0..Len(st.dst) : LookupOn(st.tree, SubSeq(st.dst, 1, k)) # source
    /\ \A r \in Below : LookupOn(st.tree, st.dst \o r) # source

Programs == {"cp1", "hw2_2018110124", "hw2_2017114553", "hw2_tutor", "cp_mid_KS"}

ASSUME StartsAssumption ==
    \A st \in Starts :
        /\ st.program \in Programs /\ st.src \in Seq(AllNames) /\ st.dst \in Seq(AllNames)
        /\ DOMAIN st.tree \subseteq Inos /\ IsTree(st.tree)
        /\ \A k \in DOMAIN st.dst : st.dst[k] # NoName
        /\ LookupOn(st.tree, st.src) # 0 => Apart(st)

\* What a disk has at a place below the source.
HadAt(disk, r) == {<<r, i, disk[i].data>> : i \in {LookupOn(disk, start.src \o r)} \ {0}}

Init ==
    /\ start \in Starts
    /\ node = [i \in Inos |-> IF i \in DOMAIN start.tree THEN start.tree[i] ELSE Free]
    /\ frames = <<Frame(start.src, start.dst)>>
    /\ pc = IF Directory THEN "enter" ELSE "open"
    /\ input = 0 /\ output = 0 /\ pos = 0 /\ faults = 0
    /\ status = "running" /\ touched = [n \in Names |-> 0]
    /\ had = UNION {HadAt(start.tree, r) : r \in {<<>>} \cup Below}

Ready(where) == status = "running" /\ pc = where

\* oops(), or exit(1) with a message.
Oops == /\ status' = "failed"
        /\ UNCHANGED <<start, node, frames, pc, input, output, pos, faults, touched, had>>

-----------------------------------------------------------------------------
(* Directories                                                              *)

\* enter_dir() of the midterm makes the directory it copies to, inside of one that
\* exists; mkdir() is not checked.
MakeTarget ==
    LET dst == IF Exists(Top.dst) THEN Top.dst \o Top.src ELSE Top.dst IN
    /\ frames' = Now([Top EXCEPT !.dst = dst])
    /\ node' = IF IsDir(Front(dst)) /\ ~Exists(dst) /\ Room THEN Added(dst, Dir(<<>>)) ELSE node

\* The source is opened; if it cannot be, the tutor's program ends and the others
\* return after a message.
EnterDirectory ==
    /\ Ready("enter")
    /\ IF KS THEN MakeTarget ELSE UNCHANGED <<node, frames>>
    /\ IF Tutor /\ ~IsDir(Top.src)
       THEN status' = "failed" /\ UNCHANGED pc
       ELSE pc' = (IF IsDir(Top.src) THEN "readdir" ELSE "leave") /\ UNCHANGED status
    /\ UNCHANGED <<start, input, output, pos, faults, touched, had>>

ReadDir ==
    /\ Ready("readdir")
    /\ LET left == IF Top.left # Unread THEN Top.left
                   ELSE DOMAIN node[Lookup(Top.src)].names \cup {"."} IN
       IF left = {} THEN pc' = "end" /\ UNCHANGED frames
       ELSE /\ \E e \in left : frames' = Now([Top EXCEPT !.entry = e, !.left = left \ {e}])
            /\ pc' = "stat"
    /\ UNCHANGED <<start, node, input, output, pos, status, faults, touched, had>>

\* stat() leaves the struct as it is when it fails, and is not checked; one that
\* was never written holds anything.
Info == IF Exists(From)
        THEN {[dir |-> IsDir(From), readable |-> node[Lookup(From)].mode # {}, set |-> TRUE]}
        ELSE IF Top.info.set THEN {Top.info} ELSE Infos

\* Mutant: a subdirectory is passed over.
ForbiddenNot(info) == FALSE

\* "." (and "..", which is left out) is skipped, by the tutor's program before stat();
\* in the second pass so is a file that nobody may read.
Skipped(info) == Top.entry = "." \/ (Hw2 /\ Top.pass = 2 /\ ~info.readable)

\* The first pass of hw2 ends the program at a subdirectory.
Forbidden(info) == Hw2 /\ Top.pass = 1 /\ info.dir

Stat ==
    /\ Ready("stat")
    /\ \E info \in Info :
         IF ~Skipped(info) /\ Forbidden(info) THEN Oops
         ELSE /\ frames' = Now([Top EXCEPT !.info = IF Tutor /\ Top.entry = "." THEN @ ELSE info])
              /\ pc' = CASE Skipped(info) \/ (Hw2 /\ Top.pass = 1) -> "readdir"
                         [] KS /\ info.dir -> "descend"
                         [] OTHER -> "open"
              /\ UNCHANGED <<start, node, input, output, pos, status, faults, touched, had>>

\* enter_dir() calls itself.
Descend ==
    /\ Ready("descend")
    /\ frames' = Append(frames, Frame(From, To))
    /\ pc' = "enter"
    /\ UNCHANGED <<start, node, input, output, pos, status, faults, touched, had>>

\* Mutant: the directory is not read again.
SecondPassEmpty == [Top EXCEPT !.pass = 2]

\* rewinddir(); the tutor's program closes and opens it, reads through the old
\* pointer, to the memory that opendir() gets again, and has a second struct stat.
SecondPass == [Top EXCEPT !.pass = 2, !.left = Unread, !.info = IF Tutor THEN Unset ELSE @]

EndOfDirectory ==
    /\ Ready("end")
    /\ IF Hw2 /\ Top.pass = 1
       THEN IF Tutor /\ ~IsDir(Top.dst) THEN Oops
            ELSE /\ frames' = Now(SecondPass) /\ pc' = "readdir"
                 /\ UNCHANGED <<start, node, input, output, pos, status, faults, touched, had>>
       ELSE /\ pc' = "leave"
            /\ UNCHANGED <<start, node, frames, input, output, pos, status, faults, touched, had>>

LeaveDirectory ==
    /\ Ready("leave")
    /\ IF Len(frames) > 1 THEN frames' = Front(frames) /\ pc' = "readdir" /\ UNCHANGED status
       ELSE status' = "done" /\ UNCHANGED <<frames, pc>>
    /\ UNCHANGED <<start, node, input, output, pos, faults, touched, had>>

-----------------------------------------------------------------------------
(* cpy(), do_cpy(), main() of cp1.c                                         *)

NextFile == IF Directory THEN "readdir" ELSE "leave"

OpenInput ==
    /\ Ready("open")
    /\ IF Exists(From) /\ "owner" \in node[Lookup(From)].mode
       THEN /\ input' = Lookup(From) /\ pos' = 0 /\ pc' = "creat"
            /\ UNCHANGED <<start, node, frames, output, status, faults, touched, had>>
       ELSE IF Tutor
       THEN pc' = "readdir" /\ UNCHANGED <<start, node, frames, input, output, pos, status, faults, touched, had>>
       ELSE Oops

\* Mutant: a file that exists keeps its blocks.
Kept == node

\* A file that exists is emptied.
Emptied == [node EXCEPT ![Lookup(To)].data = <<>>]

CreateOutput ==
    /\ Ready("creat")
    /\ IF IsDir(To) \/ ~IsDir(Front(To)) \/ (~Exists(To) /\ ~Room) THEN Oops
       ELSE /\ node' = IF Exists(To) THEN Emptied ELSE Added(To, File({"owner", "group"}, <<>>))
            /\ output' = IF Exists(To) THEN Lookup(To) ELSE NewIno
            /\ pc' = "copy"
            /\ UNCHANGED <<start, frames, input, pos, status, faults, touched, had>>

More == pos < Len(node[input].data)

\* read() of a directory fails: the tutor's program takes that for the end of the file.
CopyBlock ==
    /\ Ready("copy")
    /\ IF More
       THEN /\ node' = [node EXCEPT ![output].data = Append(@, node[input].data[pos + 1])]
            /\ pos' = pos + 1
            /\ UNCHANGED <<start, frames, pc, input, output, status, faults, touched, had>>
       ELSE IF node[input].kind = "dir" /\ ~Tutor THEN Oops
       ELSE pc' = NextFile /\ UNCHANGED <<start, node, frames, input, output, pos, status, faults, touched, had>>

\* The disk is full.  The tutor's program does not look at what write() returns.
WriteFails ==
    /\ Ready("copy") /\ More /\ faults < start.faults
    /\ faults' = faults + 1
    /\ IF Tutor THEN pos' = pos + 1 /\ UNCHANGED status ELSE status' = "failed" /\ UNCHANGED pos
    /\ UNCHANGED <<start, node, frames, pc, input, output, touched, had>>

Copier == \/ EnterDirectory \/ ReadDir \/ Stat \/ Descend \/ EndOfDirectory \/ LeaveDirectory
          \/ OpenInput \/ CreateOutput \/ CopyBlock \/ WriteFails

-----------------------------------------------------------------------------
(* Somebody else, in the source directory                                   *)

\* A file is made unreadable, gets another block, is emptied or is written over.
Changes(file) ==
    {[file EXCEPT !.mode = {}]} \cup
    {[file EXCEPT !.data = data] :
        data \in {Append(file.data, "x"), <<>>, [k \in DOMAIN file.data |-> "x"]}}

Meddle(n) ==
    LET path == Append(start.src, n)  i == Lookup(path) IN
    /\ status = "running" /\ Directory /\ IsDir(start.src)
    /\ FoldFunction(+, 0, touched) < start.meddles
    /\ touched' = [touched EXCEPT ![n] = @ + 1]
    /\ \/ i = 0 /\ Room /\ \E new \in {File({"owner"}, <<"n">>), Dir(<<>>)} : node' = Added(path, new)
       \/ i # 0 /\ node[i].kind = "file" /\ \E new \in Changes(node[i]) : node' = [node EXCEPT ![i] = new]
       \/ i # 0 /\ node[i].kind = "file" /\
            node' = [node EXCEPT ![Lookup(start.src)].names =
                                     [m \in DOMAIN @ \ {n} |-> node[Lookup(start.src)].names[m]]]
    /\ had' = had \cup HadAt(node', <<n>>)
    /\ UNCHANGED <<start, copy>>

\* Any other state has a step: the program never comes to a point where it cannot go on.
Ended == status # "running" /\ UNCHANGED vars

Next == Copier \/ Ended \/ \E n \in Names : Meddle(n)

Spec == Init /\ [][Next]_vars

-----------------------------------------------------------------------------
(* Properties                                                               *)

\* cp_mid_KS copies into a destination that exists, and to one that does not.
Target == IF KS /\ LookupOn(start.tree, start.dst) # 0 THEN start.dst \o start.src ELSE start.dst

Sources == IF Directory THEN Below ELSE {<<>>}

HadFile(r) == LET i == LookupOn(start.tree, start.src \o r) IN i # 0 /\ start.tree[i].kind = "file"

ModeOf(r) == start.tree[LookupOn(start.tree, start.src \o r)].mode

\* A copy that ends without an error has copied every file that was there from
\* beginning to end and that nobody touched meanwhile, with all of its blocks and
\* nothing of what was at its place; only files that nobody may read may be missing,
\* and in the tutor's program also those that could not be opened or written.
SuccessMeansCopied ==
    status = "done" /\ (Tutor => faults = 0) =>
        \A r \in Sources :
            /\ HadFile(r) /\ (Directory => touched[r[1]] = 0)
            /\ Hw2 => ModeOf(r) # {} /\ (Tutor => "owner" \in ModeOf(r))
            => /\ Exists(Target \o r)
               /\ node[Lookup(Target \o r)].data = node[Lookup(start.src \o r)].data

\* hw2 copies all of the files or none: if the directory has a subdirectory that
\* nobody touches, the destination stays as it was, however else it is meddled with.
UntouchedIfSubdirectory ==
    Hw2 /\ (\E n \in Names : touched[n] = 0 /\ IsDir(start.src \o <<n>>))
        => \A r \in Below : LET i == LookupOn(start.tree, start.dst \o r) IN
               Lookup(start.dst \o r) = i /\ (i # 0 => node[i] = start.tree[i])

\* A file that has been at a place has had each of these blocks where it is here.
BlocksOf(r, i, data) ==
    \A k \in DOMAIN data : \E h \in had :
        h[1] = r /\ h[2] = i /\ k \in DOMAIN h[3] /\ data[k] = h[3][k]

\* Wherever the program gives up, each file at the destination is the one that was
\* there before, or has blocks of one file only that has been at the same place below
\* the source, each where that file has had it: not the blocks of two files that came
\* one after the other, and nothing behind them.  A file that is written over while
\* it is copied gives old blocks and new ones: the program does not notice, and this
\* does not promise that there was ever a file with those blocks at one time.
NothingInvented ==
    faults = 0 \/ ~Tutor =>
        \A r \in Sources :
            LET i == Lookup(Target \o r)  IN
            i # 0 => \/ i \in DOMAIN start.tree /\ node[i] = start.tree[i]
                     \/ node[i].kind = "dir"
                     \/ \E j \in {h[2] : h \in {g \in had : g[1] = r}} : BlocksOf(r, j, node[i].data)
=============================================================================
