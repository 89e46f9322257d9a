------------------------------ MODULE Listing ------------------------------
(***************************************************************************)
(* The programs that find out where they are: spwd.c and the submissions of  *)
(* hw3, which list the directories on the way too.  They go up to the root,  *)
(* know the directory they came from by its inode number, and print on the   *)
(* way back, while somebody else renames what is there.                     *)
(***************************************************************************)
EXTENDS Integers, Sequences, FiniteSets, SequencesExt

CONSTANTS
    Starts,     \* records: program, cwd, up, dirs, name, ino and dino (see below)
    Names,      \* what a file or directory may be renamed to
    MaxRenames  \* bound: how often something is renamed

ASSUME RenameAssumption == MaxRenames \in Nat /\ Names \subseteq STRING

RootOf(st) == CHOOSE n \in DOMAIN st.up : st.up[n] = n

\* By node, the nodes from the root to it.
WaysIn(st) ==
    LET way[n \in DOMAIN st.up] ==
            IF n = RootOf(st) THEN <<n>> ELSE Append(way[st.up[n]], n)
    IN way

\* The nodes are a tree: from each the way up ends at the root.
ASSUME TreeAssumption ==
    \A st \in Starts :
        LET nodes == DOMAIN st.up IN
        /\ st.up \in [nodes -> nodes] /\ st.name \in [nodes -> STRING]
        /\ st.cwd \in nodes /\ st.dirs \subseteq nodes
        /\ \E n \in nodes : st.up[n] = n
        /\ WaysIn(st) \in [nodes -> Seq(nodes)]
        /\ \A n \in nodes : WaysIn(st)[n] = IF n = RootOf(st) THEN <<n>>
                                             ELSE Append(WaysIn(st)[st.up[n]], n)

VARIABLES
    start,    \* the member of Starts that runs: by node, up is the directory it is in
              \* (its own for the root), ino its number, and dino the number that its
              \* entry has, which is another where a file system is mounted; dirs are
              \* the nodes that are directories
    name,     \* by node: its name
    had,      \* history, by node: the names it has had
    here,     \* the working directory
    frames,   \* the calls of the recursive function, the latest last
    pc, status,
    des,      \* the path that is printed
    lists,    \* the listings printed: a directory and its rows
    renames   \* history: how often something was renamed

names == <<name, had, renames>>
vars  == <<start, names, here, frames, pc, status, des, lists>>

Nodes == DOMAIN start.up
Spwd  == start.program = "spwd"
Ls18  == start.program = "hw3_2018110124"
Ls17  == start.program = "hw3_2017114553"
Tutor == start.program = "hw3_tutor"

In(st, d)   == {n \in DOMAIN st.up : st.up[n] = d /\ n # d}
Children(d) == In(start, d)

\* The node that a path leads to from a directory, or 0.
Resolve(d, path) ==
    FoldLeft(LAMBDA m, w : IF w = "." \/ m = 0 THEN m
                           ELSE IF w = ".." THEN start.up[m]
                           ELSE IF \E n \in Children(m) : name[n] = w
                           THEN CHOOSE n \in Children(m) : name[n] = w ELSE 0, d, path)

\* What opendir() and chdir() need: the directory that a path leads to, or 0.
Opened(d, path) == LET m == Resolve(d, path) IN IF m \in start.dirs THEN m ELSE 0

Root == RootOf(start)

\* The path of a node, by recursion over the way up.
PathOf(node) ==
    LET path[n \in Nodes] == IF n = Root THEN <<>> ELSE Append(path[start.up[n]], name[n])
    IN path[node]

\* What readdir() shows of a directory, but for . and ..; a directory is read in any order.
Entries(d) == {[name |-> name[n], ino |-> start.dino[n]] : n \in Children(d)}
Orders(S)  == {s \in [1..Cardinality(S) -> S] : \A i, j \in DOMAIN s : i # j => s[i] # s[j]}

\* . is the directory itself, and so is .. at the root of a file system.
Dots(d) == {[name |-> ".", ino |-> start.ino[d]],
            [name |-> "..", ino |-> start.ino[IF start.ino[d] # start.dino[d] THEN d ELSE start.up[d]]]}

-----------------------------------------------------------------------------
(* Sorting                                                                  *)

Exchanged(s, i, j) == [s EXCEPT ![i] = s[j], ![j] = s[i]]
From(i, s)         == [k \in 1..Len(s) - i + 1 |-> i + k - 1]

\* sort_by_inode() of hw3_2018110124.c: every pair, in both orders.
sort_by_inode(s) ==
    LET inner(t, i) == FoldLeft(LAMBDA u, j : IF u[i].ino < u[j].ino THEN Exchanged(u, i, j) ELSE u,
                                t, From(1, s))
    IN FoldLeft(inner, s, From(1, s))

\* sort_inode() of hw3_2017114553.c.
sort_inode(s) ==
    LET inner(t, i) == FoldLeft(LAMBDA u, j : IF u[i].ino > u[j].ino THEN Exchanged(u, i, j) ELSE u,
                                t, From(i, s))
    IN FoldLeft(inner, s, From(1, s))

\* The heap of hw3_tutor.c: a row goes up as long as it is less than the one above ...
insertHeap(h, row) ==
    LET up(t, k) == IF t.i > 1 /\ row.ino < t.h[t.i \div 2].ino
                    THEN [h |-> [t.h EXCEPT ![t.i] = t.h[t.i \div 2]], i |-> t.i \div 2] ELSE t
        end == FoldLeft(up, [h |-> Append(h, row), i |-> Len(h) + 1], h)
    IN [end.h EXCEPT ![end.i] = row]

\* Mutant: the right child is never looked at.
deleteHeapLeft(h) ==
    LET last == h[Len(h)]
        rest == SubSeq(h, 1, Len(h) - 1)
        down(t, k) == IF 2 * t.i <= Len(rest) /\ last.ino > t.h[2 * t.i].ino
                      THEN [h |-> [t.h EXCEPT ![t.i] = t.h[2 * t.i]], i |-> 2 * t.i] ELSE t
        end == FoldLeft(down, [h |-> rest, i |-> 1], rest)
    IN IF rest = <<>> THEN rest ELSE [end.h EXCEPT ![end.i] = last]

\* ... and when the first is taken, the last goes down from there past the lesser child.
deleteHeap(h) ==
    LET last == h[Len(h)]
        rest == SubSeq(h, 1, Len(h) - 1)
        child(t) == IF 2 * t.i < Len(rest) /\ t.h[2 * t.i].ino >= t.h[2 * t.i + 1].ino
                    THEN 2 * t.i + 1 ELSE 2 * t.i
        down(t, k) == IF child(t) <= Len(rest) /\ last.ino > t.h[child(t)].ino
                      THEN [h |-> [t.h EXCEPT ![t.i] = t.h[child(t)]], i |-> child(t)] ELSE t
        end == FoldLeft(down, [h |-> rest, i |-> 1], rest)
    IN IF rest = <<>> THEN rest ELSE [end.h EXCEPT ![end.i] = last]

heapSort(s) ==
    LET take(t, k) == [out |-> Append(t.out, t.heap[1]), heap |-> deleteHeap(t.heap)]
    IN FoldLeft(take, [out |-> <<>>, heap |-> FoldLeft(insertHeap, <<>>, s)], s).out

\* do_ls() of the 2018 submission asks lstat() for the numbers, and does not look whether
\* it fails: an entry that was renamed since it was read gets the number of the one
\* before, or, if it is the first, 0 for what is on the stack.
Stated(st, read, lost) ==
    [i \in DOMAIN read |-> IF read[i] # lost THEN st.ino[read[i]]
                           ELSE IF i > 1 THEN st.ino[read[i - 1]] ELSE 0]

\* The rows that a listing prints, for the order its entries are read in, and the one
\* that is renamed meanwhile, or 0: a node stands for its name.
Sorted(st, read, lost) ==
    LET rows(ino) == [i \in DOMAIN read |-> [node |-> read[i], ino |-> ino[i]]]
        entered   == [i \in DOMAIN read |-> st.dino[read[i]]] IN
    CASE st.program = "hw3_2018110124" -> sort_by_inode(rows(Stated(st, read, lost)))
      [] st.program = "hw3_2017114553" -> sort_inode(rows(entered))
      [] OTHER                         -> heapSort(rows(entered))

\* By start and directory, the orders it may be read in with what is printed.
Readings == [st \in Starts |-> [d \in st.dirs |->
                {[read |-> s, lost |-> n, rows |-> Sorted(st, s, n)] :
                     s \in Orders(In(st, d)),
                     n \in {0} \cup IF st.program = "hw3_2018110124" THEN In(st, d) ELSE {}}]]

Prints(d, rows) == lists' = Append(lists, [dir |-> d, rows |-> rows])

\* Somebody else renames a file or a directory.
RenamedTo(n, w) ==
    /\ renames < MaxRenames /\ n # Root
    /\ ~\E m \in Children(start.up[n]) : name[m] = w
    /\ name' = [name EXCEPT ![n] = w] /\ had' = [had EXCEPT ![n] = @ \cup {w}]
    /\ renames' = renames + 1

Listed(d) ==
    \E r \in Readings[start][d] :
        /\ Prints(d, r.rows)
        /\ IF r.lost = 0 THEN UNCHANGED names ELSE \E w \in Names : RenamedTo(r.lost, w)

ListsNothing == UNCHANGED <<lists, names>>

\* Every entry with the number that is looked for is a part of the tutor's path.
Parts(read, find) ==
    LET hits == SelectSeq(read, LAMBDA n : start.dino[n] = find)
    IN [i \in DOMAIN hits |-> name[hits[i]]]

-----------------------------------------------------------------------------
Frame(this, find) == [this |-> this, name |-> "", real |-> <<>>, find |-> find]
Top == Last(frames)

Init ==
    /\ start \in Starts
    /\ name = start.name /\ had = [n \in Nodes |-> {name[n]}]
    /\ here = start.cwd
    /\ frames = <<Frame(start.ino[here], start.ino[here])>>
    /\ pc = "test" /\ status = "running"
    /\ des = <<>> /\ lists = <<>> /\ renames = 0

Ready(where) == status = "running" /\ pc = where

Fails == /\ status' = "failed"
         /\ UNCHANGED <<start, names, here, frames, pc, des, lists>>

\* The root is its own parent, to its inode number.
AtRoot == start.ino[start.up[here]] = Top.this

\* At the root the 2018 submission lists it; the tutor's program keeps the path of
\* the directory, as realpath() finds it, before it goes up.
Test ==
    /\ Ready("test")
    /\ frames' = IF Tutor THEN [frames EXCEPT ![Len(frames)].real = PathOf(here)] ELSE frames
    /\ IF ~AtRoot THEN pc' = "up" /\ ListsNothing
       ELSE /\ pc' = "down"
            /\ IF Ls18 THEN Listed(here) ELSE ListsNothing
    /\ UNCHANGED <<start, here, status, des>>

\* chdir("..")
Up ==
    /\ Ready("up") /\ pc' = "name"
    /\ here' = start.up[here]
    /\ UNCHANGED <<start, names, frames, status, des, lists>>

\* Mutant: its_name is static, one buffer for all calls.
NameShared ==
    /\ Ready("name") /\ ~Tutor
    /\ LET found == {e \in Entries(here) \cup Dots(here) : e.ino = Top.this} IN
       IF found = {} THEN Fails
       ELSE /\ \E e \in found :
                 frames' = Append([i \in DOMAIN frames |-> [frames[i] EXCEPT !.name = e.name]],
                                  Frame(start.ino[here], 0))
            /\ pc' = "test"
            /\ UNCHANGED <<start, names, here, status, des, lists>>

\* inum_to_name(): the first entry with the number of the directory it came from.
Name ==
    /\ Ready("name") /\ ~Tutor
    /\ LET found == {e \in Entries(here) \cup Dots(here) : e.ino = Top.this} IN
       IF found = {} THEN Fails
       ELSE /\ \E e \in found :
                 frames' = Append([frames EXCEPT ![Len(frames)].name = e.name], Frame(start.ino[here], 0))
            /\ pc' = "test"
            /\ UNCHANGED <<start, names, here, status, des, lists>>

\* get_inode(real_path)
StatRealPath ==
    /\ Ready("name") /\ Tutor
    /\ LET n == Resolve(Root, Top.real) IN
       IF n = 0 THEN Fails
       ELSE /\ frames' = Append(frames, Frame(start.ino[here], start.ino[n]))
            /\ pc' = "test"
            /\ UNCHANGED <<start, names, here, status, des, lists>>

Caller == frames[Len(frames) - 1]

\* The call returns to the one for the directory below, and then to main().
Returns ==
    /\ frames' = Front(frames)
    /\ IF Len(frames) = 1 THEN status' = "done" ELSE UNCHANGED status
    /\ UNCHANGED <<start, pc>>

Return ==
    /\ Ready("down") /\ ~Tutor /\ Len(frames) = 1
    /\ Returns /\ ListsNothing /\ UNCHANGED <<here, des>>

\* spwd prints the name.
PrintName ==
    /\ Ready("down") /\ Spwd /\ Len(frames) > 1
    /\ Returns
    /\ des' = Append(des, Caller.name)
    /\ ListsNothing /\ UNCHANGED here

\* Mutant: the name is added before the directory is listed.
ListPathLate ==
    /\ Ready("down") /\ Ls17 /\ Len(frames) > 1
    /\ Returns
    /\ des' = Append(des, Caller.name)
    /\ LET d == Opened(Root, des') IN
       IF d = 0 THEN ListsNothing ELSE Listed(d)
    /\ UNCHANGED here

\* The 2017 submission lists the directory that its path so far leads to; if there
\* is none any more it says so and goes on.
ListPath ==
    /\ Ready("down") /\ Ls17 /\ Len(frames) > 1
    /\ Returns
    /\ LET d == Opened(Root, des) IN
       IF d = 0 THEN ListsNothing ELSE Listed(d)
    /\ des' = Append(des, Caller.name)
    /\ UNCHANGED here

\* The 2018 submission goes down again, or stays if chdir() fails, and lists the
\* directory unless it has the number of the one where it began.
GoDown ==
    /\ Ready("down") /\ Ls18 /\ Len(frames) > 1
    /\ Returns
    /\ LET below == Opened(here, <<Caller.name>>)  d == IF below = 0 THEN here ELSE below IN
       /\ here' = d
       /\ IF start.ino[d] = start.ino[start.cwd] THEN ListsNothing
          ELSE Listed(d)
    /\ des' = Append(des, Caller.name)

\* printInodeAndFileName() opens the directory by the path it had on the way up.
ListRealPath ==
    /\ Ready("down") /\ Tutor
    /\ LET d == Opened(Root, Top.real) IN
       IF d = 0 THEN Fails
       ELSE /\ Returns
            /\ \E r \in Readings[start][d] :
                 Prints(d, r.rows) /\ des' = des \o Parts(r.read, Top.find)
            /\ UNCHANGED <<names, here>>

Program == \/ Test \/ Up \/ Name \/ StatRealPath \/ Return \/ PrintName
           \/ ListPath \/ GoDown \/ ListRealPath

Rename(n, w) ==
    /\ status = "running" /\ RenamedTo(n, w)
    /\ UNCHANGED <<start, here, frames, pc, status, des, lists>>

\* Any other state has a step: the recursion never comes to a point where it cannot go on.
Ended == status # "running" /\ UNCHANGED vars

Next == Program \/ Ended \/ \E n \in Nodes, w \in Names : Rename(n, w)

Spec == Init /\ [][Next]_vars

-----------------------------------------------------------------------------
(* Properties                                                               *)

\* The directories from the root to the one where the program began.
Way == WaysIn(start)[start.cwd]

\* No file system is mounted on the way, and numbers are those of one file system.
OneFileSystem ==
    /\ \A n \in Nodes : start.ino[n] = start.dino[n]
    /\ \A m, n \in Nodes : start.ino[m] = start.ino[n] => m = n

\* On the way no directory has the number of another entry of the one it is in, . and
\* .. among them: what is looked for by number there is the directory or nothing.
NumbersTellApart ==
    \A i \in 2..Len(Way) :
        /\ \A e \in Dots(Way[i - 1]) : e.ino # start.ino[Way[i]]
        /\ \A n \in Children(Way[i - 1]) \ {Way[i]} : start.dino[n] # start.ino[Way[i]]

\* PathIsTrue: where numbers tell apart, a path that is printed ("print path to here",
\* spwd.c:15) is no longer or shorter than the way from the root to the directory where the
\* program began, and each of its parts was, at some time of the run, the name of the
\* directory at that depth, whatever is renamed meanwhile.  (printpathio() goes up by
\* "..", and finds the name afterwards by the number.)  The tutor's program keeps paths
\* instead of numbers: one rename does not lead it astray, two may.
\*
\* Numbers do not tell apart where a file system is mounted on the way and its root has
\* the number of a directory near it - as it has, 2, if the one it is mounted in is a
\* root too.  Then the programs take it for /, or find another entry, and print a
\* wrong path without an error; with a number of its own they find no entry and give up,
\* and the tutor's leaves the part out.
PathIsTrue ==
    status = "done" /\ (IF Tutor THEN OneFileSystem /\ renames <= 1 ELSE NumbersTellApart) =>
        /\ Len(des) = Len(Way) - 1
        /\ \A i \in DOMAIN des : des[i] \in had[Way[i + 1]]

\* ListsTheWay: if nothing is renamed, the directories listed are those on the way, from
\* the root down - the one where the program began only by the tutor's, and by the 2018
\* submission when it is the root - and each listing has every entry once, with its number and
\* sorted by it, in whatever order the directory is read (do_ls(), sort_by_inode(),
\* sort_inode(), and the heap of hw3_tutor.c).
ListsTheWay ==
    status = "done" /\ OneFileSystem /\ renames = 0 =>
        /\ [i \in DOMAIN lists |-> lists[i].dir] =
             CASE Spwd -> <<>>
               [] Tutor \/ (Ls18 /\ Len(Way) = 1) -> Way
               [] OTHER -> Front(Way)
        /\ \A l \in Range(lists) :
             /\ {r.node : r \in Range(l.rows)} = Children(l.dir)
             /\ \A r \in Range(l.rows) : r.ino = start.ino[r.node]
             /\ \A i, j \in DOMAIN l.rows : i < j => l.rows[i].ino < l.rows[j].ino
=============================================================================
