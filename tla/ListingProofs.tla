---------------------------- MODULE ListingProofs ----------------------------
(***************************************************************************)
(* The path that spwd and the submissions of hw3 print is true, for every   *)
(* tree, every working directory and any number of renames, if on the way   *)
(* to it no directory has the number of another entry of the one it is in:  *)
(* the recursion goes up by "..", from a directory to the one it is in, and *)
(* what it keeps of a directory on the way is a number, which no rename     *)
(* changes.  Elsewhere in the tree numbers may be equal.                    *)
(***************************************************************************)
EXTENDS Listing, SequenceTheorems, TLAPS

Ways == WaysIn(start)

\* The frames of the recursion: of a directory, its number and the name it was found by.
AllNames == STRING \cup {"", ".", ".."}  \* no prover knows that these three are strings
FrameSet == [this : {start.ino[n] : n \in Nodes}, name : AllNames, real : {<<>>},
             find : {start.ino[n] : n \in Nodes} \cup {0}]

TypeInv ==
    /\ frames \in Seq(FrameSet) /\ here \in Nodes /\ des \in Seq(AllNames)
    /\ pc \in {"test", "up", "name", "down"} /\ status \in {"running", "failed", "done"}

\* A node has had the name that it has.
NameInv ==
    /\ name \in [Nodes -> AllNames] /\ DOMAIN had = Nodes
    /\ \A n \in Nodes : name[n] \in had[n]

\* How many directories of the way are above the one that the latest call is for.
Depth == Len(Way) - Len(frames)
Below == Way[Depth + 1]

\* The names found so far were those of the directories on the way.
Found == \A i \in 1..Len(frames) - 1 : frames[i].name \in had[Way[Len(Way) - i + 1]]

\* On the way up: the working directory is on the way, at the depth of the call.
UpInv ==
    /\ pc \in {"test", "up", "name"} =>
           /\ status # "done" /\ des = <<>>
           /\ Len(frames) \in 1..Len(Way)
           /\ Top.this = start.ino[Below]
           /\ Found
    /\ pc \in {"test", "up"} => Ways[here] = SubSeq(Way, 1, Depth + 1)
    /\ pc = "up" => here # Root
    /\ pc = "name" => /\ Ways[here] = SubSeq(Way, 1, Depth)
                      /\ Below # Root /\ here = start.up[Below]

\* On the way back: a part for every call that has returned.
DownInv ==
    pc = "down" =>
        /\ status = "running" => /\ Len(frames) \in 1..Len(Way) /\ Len(des) = Depth
                                 /\ Found
        /\ status = "done" => Len(des) = Len(Way) - 1
        /\ \A i \in 1..Len(des) : des[i] \in had[Way[i + 1]]

Lost == Tutor \/ ~NumbersTellApart

WayInv == TypeInv /\ NameInv /\ UpInv /\ DownInv
IInv   == start \in Starts /\ (Lost \/ WayInv)

-----------------------------------------------------------------------------
(* The tree                                                                 *)

LEMMA Tree ==
    ASSUME start \in Starts
    PROVE  /\ start.up \in [Nodes -> Nodes] /\ start.name \in [Nodes -> STRING]
           /\ start.cwd \in Nodes /\ Root \in Nodes /\ start.up[Root] = Root
           /\ Ways \in [Nodes -> Seq(Nodes)]
           /\ Ways[Root] = <<Root>>
           /\ \A n \in Nodes \ {Root} : Ways[n] = Append(Ways[start.up[n]], n)
           /\ Way = Ways[start.cwd]
<1>1. /\ start.up \in [Nodes -> Nodes] /\ start.name \in [Nodes -> STRING] /\ start.cwd \in Nodes
      /\ \E n \in Nodes : start.up[n] = n
      /\ Ways \in [Nodes -> Seq(Nodes)]
      /\ \A n \in Nodes : Ways[n] = IF n = Root THEN <<n>> ELSE Append(Ways[start.up[n]], n)
  BY TreeAssumption DEF Nodes, Root, Ways
<1>2. Root \in Nodes /\ start.up[Root] = Root
  BY <1>1 DEF Root, RootOf, Nodes
<1> QED BY <1>1, <1>2 DEF Way, Ways

\* A way has at least one node, and one more than the way to the directory above.
LEMMA WayLength ==
    ASSUME start \in Starts, NEW n \in Nodes
    PROVE  /\ Len(Ways[n]) \in Nat \ {0} /\ Ways[n] # <<>>
           /\ n # Root => Len(Ways[n]) = Len(Ways[start.up[n]]) + 1
<1>1. Ways[n] \in Seq(Nodes)
  BY Tree
<1>2. CASE n = Root
  BY <1>1, <1>2, Tree, EmptySeq, LenProperties
<1>3. CASE n # Root
  <2>1. start.up[n] \in Nodes /\ Ways[start.up[n]] \in Seq(Nodes) /\ Ways[n] = Append(Ways[start.up[n]], n)
    BY <1>3, Tree
  <2>2. Ways[n] # <<>> /\ Len(Ways[n]) = Len(Ways[start.up[n]]) + 1
    BY <2>1, AppendProperties
  <2> QED BY <2>1, <2>2, LenProperties
<1> QED BY <1>2, <1>3

\* No directory is in itself, or in one that it is in, but for the root.
LEMMA NoLoop ==
    ASSUME start \in Starts, NEW n \in Nodes, n # Root
    PROVE  start.up[n] # n /\ start.up[start.up[n]] # n
<1>1. start.up[n] \in Nodes /\ start.up[Root] = Root
  BY Tree
<1>2. Len(Ways[n]) = Len(Ways[start.up[n]]) + 1 /\ Len(Ways[n]) \in Nat /\ Len(Ways[start.up[n]]) \in Nat
  BY <1>1, WayLength
<1>3. start.up[n] # Root => Len(Ways[start.up[n]]) = Len(Ways[start.up[start.up[n]]]) + 1
  BY <1>1, WayLength
<1> QED BY <1>1, <1>2, <1>3

\* One step up from a directory at depth k of the way is one step back on it.
LEMMA StepUp ==
    ASSUME start \in Starts, NEW n \in Nodes, NEW k \in 1..Len(Way), Ways[n] = SubSeq(Way, 1, k)
    PROVE  /\ n = Way[k]
           /\ n = Root => k = 1
           /\ n # Root => k > 1 /\ Ways[start.up[n]] = SubSeq(Way, 1, k - 1)
<1>1. Way \in Seq(Nodes) /\ Len(Way) \in Nat
  BY Tree, LenProperties
<1>2. /\ SubSeq(Way, 1, k - 1) \in Seq(Nodes) /\ Way[k] \in Nodes
      /\ Len(SubSeq(Way, 1, k)) = k
      /\ Len(SubSeq(Way, 1, k - 1)) = k - 1
  <2>1. \A i \in 1..k : Way[i] \in Nodes
    BY <1>1, ElementOfSeq
  <2> QED BY <1>1, <2>1, SubSeqProperties
<1>3. SubSeq(Way, 1, k) = Append(SubSeq(Way, 1, k - 1), Way[k])
  BY <1>1, <1>2, SubSeqRecursiveSecond, AppendIsConcat
<1>4. CASE n = Root
  <2>1. Ways[n] = <<Root>>
    BY <1>4, Tree
  <2>2. k = 1
    BY <1>2, <2>1
  <2>3. Way[k] = <<Way[k]>>[1] /\ SubSeq(Way, 1, k - 1) = <<>>
    BY <2>2, <1>2, EmptySeq
  <2>4. Append(<<>>, Way[k]) = <<Way[k]>>
    OBVIOUS
  <2> QED BY <1>3, <1>4, <2>1, <2>2, <2>3, <2>4
<1>5. CASE n # Root
  <2>1. start.up[n] \in Nodes /\ Ways[start.up[n]] \in Seq(Nodes) /\ Ways[n] = Append(Ways[start.up[n]], n)
    BY <1>5, Tree
  <2>2. Ways[start.up[n]] = SubSeq(Way, 1, k - 1) /\ n = Way[k]
    <3>1. Append(Ways[start.up[n]], n) = Append(SubSeq(Way, 1, k - 1), Way[k])
      BY <1>3, <2>1
    <3>2. \A s, t \in Seq(Nodes), e, f \in Nodes : Append(s, e) = Append(t, f) => s = t /\ e = f
      BY AppendInjective
    <3> DEFINE s == Ways[start.up[n]]  t == SubSeq(Way, 1, k - 1)
    <3>3. s \in Seq(Nodes) /\ t \in Seq(Nodes) /\ Way[k] \in Nodes /\ Append(s, n) = Append(t, Way[k])
      BY <1>2, <2>1, <3>1
    <3> HIDE DEF s, t
    <3>4. s = t /\ n = Way[k]
      BY <3>2, <3>3
    <3> QED BY <3>4 DEF s, t
  <2>3. Len(Ways[start.up[n]]) \in Nat \ {0}
    BY <2>1, WayLength
  <2> QED BY <1>2, <1>5, <2>2, <2>3
<1> QED BY <1>4, <1>5
-----------------------------------------------------------------------------
(* The calls                                                                *)

LEMMA FrameType ==
    ASSUME NEW n \in Nodes, NEW find \in {start.ino[m] : m \in Nodes} \cup {0}
    PROVE  Frame(start.ino[n], find) \in FrameSet
<1>1. start.ino[n] \in {start.ino[m] : m \in Nodes}
  OBVIOUS
<1>2. "" \in AllNames
  BY DEF AllNames
<1>3. <<>> \in {<<>>}
  OBVIOUS
<1> QED BY <1>1, <1>2, <1>3 DEF Frame, FrameSet

LEMMA InvInit == Init => IInv
<1> SUFFICES ASSUME Init PROVE IInv
  OBVIOUS
<1>1. start \in Starts
  BY DEF Init
<1>2. /\ start.cwd \in Nodes /\ start.name \in [Nodes -> STRING] /\ Ways[start.cwd] = Way
      /\ Way \in Seq(Nodes) /\ Len(Way) \in Nat \ {0}
  BY <1>1, Tree, WayLength
<1>3. NameInv
  BY <1>2 DEF Init, NameInv, AllNames
<1>4. frames = <<Frame(start.ino[here], start.ino[here])>> /\ here = start.cwd /\ Len(frames) = 1
      /\ Top = Frame(start.ino[here], start.ino[here])
  BY DEF Init, Top, Last
<1>5. frames \in Seq(FrameSet)
  <2>1. Frame(start.ino[here], start.ino[here]) \in FrameSet
    BY <1>2, <1>4, FrameType
  <2> QED BY <1>4, <2>1
<1>6. TypeInv
  <2>1. des = <<>> /\ pc = "test" /\ status = "running"
    BY DEF Init
  <2> QED BY <1>2, <1>4, <1>5, <2>1, EmptySeq DEF TypeInv
<1>7. UpInv
  <2>1. Depth + 1 = Len(Way) /\ SubSeq(Way, 1, Depth + 1) = Way
    BY <1>2, <1>4, SubSeqFull DEF Depth
  <2>2. Below = start.cwd
    BY <1>1, <1>2, <2>1, StepUp DEF Below
  <2>3. Top.this = start.ino[Below]
    BY <1>4, <2>2 DEF Frame
  <2>4. Found
    BY <1>4 DEF Found
  <2> QED BY <1>2, <1>4, <2>1, <2>3, <2>4 DEF UpInv, Init
<1>8. DownInv
  BY DEF Init, DownInv
<1> QED BY <1>1, <1>3, <1>6, <1>7, <1>8 DEF IInv, WayInv

\* Nothing about the tree changes in a run.
LEMMA SameTree ==
    ASSUME start' = start
    PROVE  /\ Nodes' = Nodes /\ Root' = Root /\ Ways' = Ways /\ Way' = Way
           /\ FrameSet' = FrameSet /\ (Lost' <=> Lost)
           /\ (frames' = frames => Depth' = Depth /\ Below' = Below /\ Top' = Top)
<1>1. Nodes' = Nodes /\ Root' = Root /\ Ways' = Ways /\ Way' = Way
  BY DEF Nodes, Root, Ways, Way
<1>2. FrameSet' = FrameSet
  BY <1>1 DEF FrameSet
<1>3. Lost' <=> Lost
  BY <1>1 DEF Lost, Tutor, NumbersTellApart, Dots, Children, In, Nodes
<1>4. frames' = frames => Depth' = Depth /\ Below' = Below /\ Top' = Top
  BY <1>1 DEF Depth, Below, Top
<1> QED BY <1>1, <1>2, <1>3, <1>4

\* Where the calls are on the way while the recursion goes up.
LEMMA OnTheWay ==
    ASSUME start \in Starts, WayInv, pc \in {"test", "up", "name"}
    PROVE  /\ Way \in Seq(Nodes) /\ Len(Way) \in Nat \ {0}
           /\ Len(frames) \in 1..Len(Way) /\ Depth \in 0..Len(Way) - 1 /\ Below \in Nodes
           /\ pc \in {"test", "up"} => /\ here = Below
                                       /\ here = Root => Depth = 0
                                       /\ here # Root => /\ Depth > 0
                                                         /\ Ways[start.up[here]] = SubSeq(Way, 1, Depth)
           /\ pc = "name" => Depth > 0 /\ here = Way[Depth]
<1>1. Way \in Seq(Nodes) /\ Len(Way) \in Nat \ {0}
  BY Tree, WayLength
<1>2. Len(frames) \in 1..Len(Way) /\ here \in Nodes
  BY DEF WayInv, UpInv, TypeInv
<1>3. Depth \in 0..Len(Way) - 1
  BY <1>1, <1>2 DEF Depth
<1>4. Below \in Nodes
  BY <1>1, <1>3, ElementOfSeq DEF Below
<1>5. CASE pc \in {"test", "up"}
  <2>1. Ways[here] = SubSeq(Way, 1, Depth + 1) /\ Depth + 1 \in 1..Len(Way)
    BY <1>1, <1>3, <1>5 DEF WayInv, UpInv
  <2> DEFINE k == Depth + 1
  <2>2. k \in 1..Len(Way) /\ Ways[here] = SubSeq(Way, 1, k) /\ k - 1 = Depth
    BY <1>3, <2>1
  <2> HIDE DEF k
  <2>3. /\ here = Way[k]
        /\ here = Root => k = 1
        /\ here # Root => k > 1 /\ Ways[start.up[here]] = SubSeq(Way, 1, k - 1)
    BY <1>2, <2>2, StepUp
  <2>4. here = Below
    BY <2>3 DEF k, Below
  <2> QED BY <1>1, <1>2, <1>3, <1>4, <1>5, <2>2, <2>3, <2>4
<1>6. CASE pc = "name"
  <2>1. Ways[here] = SubSeq(Way, 1, Depth)
    BY <1>6 DEF WayInv, UpInv
  <2>2. Depth # 0
    <3> SUFFICES ASSUME Depth = 0 PROVE FALSE
      OBVIOUS
    <3>1. SubSeq(Way, 1, 0) = <<>>
      BY <1>1, SubSeqEmpty
    <3> QED BY <1>2, <2>1, <3>1, WayLength
  <2>3. here = Way[Depth]
    BY <1>1, <1>2, <1>3, <2>1, <2>2, StepUp
  <2> QED BY <1>1, <1>2, <1>3, <1>4, <1>6, <2>2, <2>3
<1> QED BY <1>1, <1>2, <1>3, <1>4, <1>5, <1>6

\* What is renamed, by itself or while a directory is listed, keeps the names it has had.
LEMMA NamesStep ==
    ASSUME NameInv, start' = start, UNCHANGED names \/ \E n, w : w \in Names /\ RenamedTo(n, w)
    PROVE  NameInv' /\ \A m \in Nodes : had[m] \subseteq had'[m]
<1>1. DOMAIN had = Nodes /\ name \in [Nodes -> AllNames] /\ Nodes' = Nodes
      /\ \A n \in Nodes : name[n] \in had[n]
  BY DEF NameInv, Nodes
<1>2. CASE UNCHANGED names
  BY <1>1, <1>2 DEF names, NameInv
<1>3. ASSUME NEW n, NEW w \in Names, RenamedTo(n, w)
      PROVE  NameInv' /\ \A m \in Nodes : had[m] \subseteq had'[m]
  <2>1. name' = [name EXCEPT ![n] = w] /\ had' = [had EXCEPT ![n] = @ \cup {w}] /\ w \in AllNames
    BY <1>3, RenameAssumption DEF RenamedTo, AllNames
  <2>2. name' \in [Nodes -> AllNames] /\ DOMAIN had' = Nodes
    BY <1>1, <2>1
  <2>3. ASSUME NEW m \in Nodes PROVE name'[m] \in had'[m] /\ had[m] \subseteq had'[m]
    BY <1>1, <2>1
  <2> QED BY <1>1, <2>2, <2>3 DEF NameInv
<1> QED BY <1>2, <1>3

LEMMA ListedNames == ASSUME NEW d, Listed(d) PROVE UNCHANGED names \/ \E n, w : w \in Names /\ RenamedTo(n, w)
BY DEF Listed

\* The names found so far stay true.
LEMMA StillFound ==
    ASSUME start \in Starts, start' = start, frames' = frames, Len(frames) \in 1..Len(Way), Found,
           \A m \in Nodes : had[m] \subseteq had'[m]
    PROVE  Found'
<1>1. Way' = Way /\ Way \in Seq(Nodes) /\ Len(Way) \in Nat
  BY SameTree, Tree, LenProperties
<1>2. ASSUME NEW i \in 1..Len(frames) - 1 PROVE frames[i].name \in had'[Way[Len(Way) - i + 1]]
  <2>1. Len(Way) - i + 1 \in 1..Len(Way)
    BY <1>1
  <2>2. Way[Len(Way) - i + 1] \in Nodes
    BY <1>1, <2>1, ElementOfSeq
  <2> QED BY <2>2 DEF Found
<1> QED BY <1>1, <1>2 DEF Found

\* The two numbers agree only where the way ends.
LEMMA TestStep == ASSUME start \in Starts, ~Lost, WayInv, Test PROVE WayInv'
<1>1. /\ start' = start /\ frames' = frames /\ here' = here
      /\ des' = des /\ status' = status /\ pc = "test" /\ status = "running"
  BY DEF Test, Lost, Ready
<1>2. /\ Nodes' = Nodes /\ Root' = Root /\ Ways' = Ways /\ Way' = Way /\ FrameSet' = FrameSet
      /\ Depth' = Depth /\ Below' = Below /\ Top' = Top
  BY <1>1, SameTree
<1>3. /\ here \in Nodes /\ here = Below /\ start.up[here] \in Nodes
      /\ Depth \in 0..Len(Way) - 1 /\ Len(Way) \in Nat
      /\ here # Root => Depth > 0 /\ Ways[start.up[here]] = SubSeq(Way, 1, Depth)
  BY <1>1, OnTheWay, Tree DEF WayInv, TypeInv
<1>4. AtRoot <=> here = Root
  <2>1. Top.this = start.ino[here]
    BY <1>1, <1>3 DEF WayInv, UpInv
  <2>2. ASSUME here # Root PROVE start.ino[start.up[here]] # start.ino[here]
    <3> DEFINE i == Depth + 1
    <3>1. i \in 2..Len(Way) /\ i - 1 = Depth /\ Depth \in 1..Len(Way)
      BY <1>3, <2>2
    <3>2. start.up[here] = Way[i - 1] /\ here = Way[i]
      BY <1>3, <2>2, <3>1, StepUp DEF Below
    <3> HIDE DEF i
    <3>3. \A e \in Dots(Way[i - 1]) : e.ino # start.ino[Way[i]]
      BY <3>1 DEF Lost, NumbersTellApart
    <3>4. [name |-> ".", ino |-> start.ino[start.up[here]]] \in Dots(start.up[here])
      BY DEF Dots
    <3> QED BY <3>2, <3>3, <3>4
  <2>3. here = Root => start.up[here] = here
    BY Tree
  <2> QED BY <2>1, <2>2, <2>3 DEF AtRoot
<1>5. TypeInv' /\ NameInv' /\ Found'
  <2>1. NameInv' /\ \A m \in Nodes : had[m] \subseteq had'[m]
    <3>1. UNCHANGED names \/ \E n, w : w \in Names /\ RenamedTo(n, w)
      BY ListedNames DEF Test, ListsNothing
    <3> QED BY <1>1, <3>1, NamesStep DEF WayInv
  <2>2. TypeInv'
    BY <1>1, <1>2 DEF WayInv, TypeInv, Test
  <2>3. Found /\ Len(frames) \in 1..Len(Way)
    BY <1>1 DEF WayInv, UpInv
  <2> QED BY <1>1, <2>1, <2>2, <2>3, StillFound
<1>6. CASE here = Root
  <2>1. pc' = "down"
    BY <1>4, <1>6 DEF Test
  <2>2. Depth = 0 /\ Len(frames) \in 1..Len(Way) /\ Found /\ des = <<>> /\ Len(des) = 0
    BY <1>1, <1>6, OnTheWay, EmptySeq DEF WayInv, UpInv
  <2> QED BY <1>1, <1>2, <1>5, <2>1, <2>2 DEF WayInv, UpInv, DownInv
<1>7. CASE here # Root
  <2>1. pc' = "up"
    BY <1>4, <1>7 DEF Test
  <2> QED BY <1>1, <1>2, <1>5, <1>7, <2>1 DEF WayInv, UpInv, DownInv
<1> QED BY <1>6, <1>7

LEMMA UpStep == ASSUME start \in Starts, ~Lost, WayInv, Up PROVE WayInv'
<1>1. /\ start' = start /\ frames' = frames /\ name' = name /\ had' = had /\ des' = des
      /\ status' = status /\ pc = "up" /\ pc' = "name" /\ here' = start.up[here]
  BY DEF Up, Ready, names
<1>2. /\ Nodes' = Nodes /\ Root' = Root /\ Ways' = Ways /\ Way' = Way /\ FrameSet' = FrameSet
      /\ Depth' = Depth /\ Below' = Below /\ Top' = Top /\ (Found' <=> Found)
  BY <1>1, SameTree DEF Found
<1>3. here \in Nodes /\ here = Below /\ here # Root /\ start.up[here] \in Nodes
      /\ Ways[start.up[here]] = SubSeq(Way, 1, Depth)
  BY <1>1, OnTheWay, Tree DEF WayInv, TypeInv, UpInv
<1>4. TypeInv' /\ NameInv'
  BY <1>1, <1>2, <1>3 DEF WayInv, TypeInv, NameInv
<1> QED BY <1>1, <1>2, <1>3, <1>4 DEF WayInv, UpInv, DownInv

\* The entry that is found is the one of the directory it came from.
LEMMA TheEntry ==
    ASSUME start \in Starts, ~Lost, WayInv, pc = "name",
           NEW e \in Entries(here) \cup Dots(here), e.ino = Top.this
    PROVE  e.name \in AllNames /\ e.name \in had[Below]
<1> DEFINE i == Depth + 1
<1>1. /\ i \in 2..Len(Way) /\ here = Way[i - 1] /\ Below = Way[i] /\ Below \in Nodes
      /\ e.ino = start.ino[Below]
  BY OnTheWay DEF WayInv, UpInv, Below
<1> HIDE DEF i
<1>2. /\ \A d \in Dots(here) : d.ino # start.ino[Below]
      /\ \A n \in Children(here) \ {Below} : start.dino[n] # start.ino[Below]
  BY <1>1 DEF Lost, NumbersTellApart
<1>4. e \notin Dots(here)
  BY <1>1, <1>2
<1>5. PICK n \in Children(here) : e = [name |-> name[n], ino |-> start.dino[n]]
  BY <1>4 DEF Entries
<1>6. n = Below /\ e.name = name[n]
  BY <1>1, <1>2, <1>5
<1> QED BY <1>1, <1>6 DEF WayInv, NameInv

LEMMA NameStep == ASSUME start \in Starts, ~Lost, WayInv, Name PROVE WayInv'
<1>1. /\ start' = start /\ here' = here /\ name' = name /\ had' = had /\ des' = des
      /\ pc = "name" /\ status = "running"
  BY DEF Name, Fails, Ready, names
<1>2. /\ Nodes' = Nodes /\ Root' = Root /\ Ways' = Ways /\ Way' = Way /\ FrameSet' = FrameSet
  BY <1>1, SameTree
<1>3. /\ Way \in Seq(Nodes) /\ Len(Way) \in Nat \ {0} /\ Len(frames) \in 1..Len(Way)
      /\ Depth \in 0..Len(Way) - 1 /\ Depth > 0 /\ here = Way[Depth]
  BY <1>1, OnTheWay
<1>4. /\ frames \in Seq(FrameSet) /\ here \in Nodes /\ des = <<>> /\ Ways[here] = SubSeq(Way, 1, Depth)
      /\ Found
  BY <1>1 DEF WayInv, UpInv, TypeInv
<1>5. NameInv'
  BY <1>1, <1>2 DEF WayInv, NameInv
<1>6. CASE Fails
  <2>1. frames' = frames /\ pc' = pc /\ status' = "failed"
    BY <1>6 DEF Fails
  <2>2. TypeInv'
    BY <1>1, <1>2, <2>1 DEF WayInv, TypeInv
  <2>3. Depth' = Depth /\ Below' = Below /\ Top' = Top /\ (Found' <=> Found)
    BY <1>1, <1>2, <2>1, SameTree DEF Found
  <2> QED BY <1>1, <1>2, <1>5, <2>1, <2>2, <2>3 DEF WayInv, UpInv, DownInv
<1>7. CASE ~Fails
  <2>1. PICK e \in Entries(here) \cup Dots(here) :
          /\ e.ino = Top.this
          /\ frames' = Append([frames EXCEPT ![Len(frames)].name = e.name], Frame(start.ino[here], 0))
          /\ pc' = "test" /\ status' = status
    BY <1>7 DEF Name
  <2>2. e.name \in AllNames /\ e.name \in had[Below]
    BY <1>1, <2>1, TheEntry
  <2> DEFINE named == [frames EXCEPT ![Len(frames)].name = e.name]
             call  == Frame(start.ino[here], 0)
  <2>3. call \in FrameSet /\ call.this = start.ino[here]
    BY <1>4, FrameType DEF Frame
  <2>4. /\ named \in Seq(FrameSet) /\ Len(named) = Len(frames)
        /\ named[Len(frames)].name = e.name
        /\ \A i \in 1..Len(frames) - 1 : named[i] = frames[i]
    <3>1. frames[Len(frames)] \in FrameSet
      BY <1>3, <1>4, ElementOfSeq
    <3>2. [frames[Len(frames)] EXCEPT !.name = e.name] \in FrameSet
      BY <2>2, <3>1 DEF FrameSet
    <3>3. named = [frames EXCEPT ![Len(frames)] = [frames[Len(frames)] EXCEPT !.name = e.name]]
      OBVIOUS
    <3>4. /\ named \in Seq(FrameSet) /\ Len(named) = Len(frames)
          /\ \A i \in 1..Len(frames) : named[i] = IF i = Len(frames)
                                                 THEN [frames[Len(frames)] EXCEPT !.name = e.name]
                                                 ELSE frames[i]
      BY <1>3, <1>4, <3>2, <3>3, ExceptSeq
    <3>5. [frames[Len(frames)] EXCEPT !.name = e.name].name = e.name
      BY <3>1 DEF FrameSet
    <3> QED BY <1>3, <3>4, <3>5
  <2>5. /\ frames' = Append(named, call) /\ frames' \in Seq(FrameSet) /\ Len(frames') = Len(frames) + 1
        /\ frames'[Len(frames')] = call
        /\ \A i \in 1..Len(frames) : frames'[i] = named[i]
    <3>1. \A s \in Seq(FrameSet), f \in FrameSet :
            /\ Append(s, f) \in Seq(FrameSet) /\ Len(Append(s, f)) = Len(s) + 1
            /\ \A i \in 1..Len(s) : Append(s, f)[i] = s[i]
            /\ Append(s, f)[Len(s) + 1] = f
      BY AppendProperties
    <3>2. named \in Seq(FrameSet) /\ call \in FrameSet /\ frames' = Append(named, call) /\ Len(named) = Len(frames)
      BY <2>1, <2>3, <2>4
    <3> HIDE DEF named, call
    <3> QED BY <3>1, <3>2
  <2> HIDE DEF named, call
  <2>6. Depth' = Depth - 1 /\ Depth' + 1 = Depth /\ Len(frames') \in 1..Len(Way)
        /\ Top'.this = start.ino[here] /\ Below' = here
    BY <1>2, <1>3, <2>3, <2>5 DEF Depth, Top, Last, Below
  <2>7. Found'
    <3>1. Len(frames') - 1 = Len(frames)
      BY <1>3, <2>5
    <3>2. ASSUME NEW i \in 1..Len(frames) PROVE frames'[i].name \in had[Way[Len(Way) - i + 1]]
      <4>1. CASE i = Len(frames)
        BY <1>3, <2>2, <2>4, <2>5, <4>1 DEF Below, Depth
      <4>2. CASE i # Len(frames)
        <5>1. i \in 1..Len(frames) - 1
          BY <1>3, <4>2
        <5> QED BY <1>4, <2>4, <2>5, <5>1 DEF Found
      <4> QED BY <4>1, <4>2
    <3> QED BY <1>1, <1>2, <3>1, <3>2 DEF Found
  <2>8. TypeInv'
    BY <1>1, <1>2, <2>1, <2>5 DEF WayInv, TypeInv
  <2>9. UpInv'
    <3>1. Ways'[here'] = SubSeq(Way', 1, Depth' + 1) /\ Top'.this = start'.ino[Below']
      BY <1>1, <1>2, <1>4, <2>6
    <3> QED BY <1>1, <1>2, <1>4, <2>1, <2>6, <2>7, <3>1 DEF UpInv
  <2>10. DownInv'
    BY <2>1 DEF DownInv
  <2> QED BY <1>5, <2>8, <2>9, <2>10 DEF WayInv
<1> QED BY <1>6, <1>7

LEMMA FrontOf ==
    ASSUME NEW S, NEW s \in Seq(S), Len(s) > 0
    PROVE  /\ Front(s) \in Seq(S) /\ Len(Front(s)) = Len(s) - 1
           /\ \A i \in 1..Len(s) - 1 : Front(s)[i] = s[i]
<1>1. Len(s) \in Nat \ {0} /\ \A i \in 1..Len(s) - 1 : s[i] \in S
  BY LenProperties, ElementOfSeq
<1> DEFINE n == Len(s) - 1
<1>2. n \in Int /\ 1 \in Int /\ n >= 0
  BY <1>1
<1>3. /\ SubSeq(s, 1, n) \in Seq(S)
      /\ Len(SubSeq(s, 1, n)) = IF 1 <= n THEN n - 1 + 1 ELSE 0
      /\ \A i \in 1..n - 1 + 1 : SubSeq(s, 1, n)[i] = s[1 + i - 1]
  <2> HIDE DEF n
  <2>1. \A i \in 1..n : s[i] \in S
    BY <1>1 DEF n
  <2> QED BY <1>2, <2>1, SubSeqProperties
<1>4. Front(s) = SubSeq(s, 1, n)
  BY DEF Front
<1> HIDE DEF n
<1>5. Len(SubSeq(s, 1, n)) = n /\ \A i \in 1..n : SubSeq(s, 1, n)[i] = s[i]
  BY <1>2, <1>3
<1> QED BY <1>3, <1>4, <1>5 DEF n

\* A call that returns has its caller's name added to the path: that of the
\* directory below the ones whose names are there.
LEMMA Back ==
    ASSUME start \in Starts, WayInv, Ready("down"), Returns, here' \in Nodes,
           UNCHANGED names \/ \E n, w : w \in Names /\ RenamedTo(n, w),
           \/ Len(frames) = 1 /\ des' = des
           \/ Len(frames) > 1 /\ des' = Append(des, Caller.name)
    PROVE  WayInv'
<1>1. /\ start' = start /\ pc' = pc /\ pc = "down" /\ status = "running"
      /\ frames' = Front(frames)
  BY DEF Returns, Ready
<1>2. /\ Nodes' = Nodes /\ Root' = Root /\ Ways' = Ways /\ Way' = Way /\ FrameSet' = FrameSet
  BY <1>1, SameTree
<1>3. /\ Way \in Seq(Nodes) /\ Len(Way) \in Nat \ {0} /\ Len(frames) \in 1..Len(Way) /\ Len(des) = Depth /\ Found
      /\ frames \in Seq(FrameSet) /\ des \in Seq(AllNames)
      /\ \A i \in 1..Len(des) : des[i] \in had[Way[i + 1]]
  <2>1. start.cwd \in Nodes /\ Way = Ways[start.cwd] /\ Ways \in [Nodes -> Seq(Nodes)]
    BY Tree
  <2>2. Way \in Seq(Nodes) /\ Len(Way) \in Nat \ {0}
    BY <2>1, WayLength
  <2>3. DownInv /\ frames \in Seq(FrameSet) /\ des \in Seq(AllNames)
    BY DEF WayInv, TypeInv
  <2> QED BY <1>1, <2>2, <2>3 DEF DownInv
<1>4. Depth = Len(Way) - Len(frames) /\ Depth \in Nat
  BY <1>3 DEF Depth
<1>5. /\ frames' \in Seq(FrameSet) /\ Len(frames') = Len(frames) - 1
      /\ \A i \in 1..Len(frames) - 1 : frames'[i] = frames[i]
  BY <1>1, <1>3, FrontOf
<1>6. NameInv' /\ UpInv' /\ \A m \in Nodes : had[m] \subseteq had'[m]
  BY <1>1, NamesStep DEF WayInv, UpInv
<1>10. \A i \in 1..Len(Way) : Way[i] \in Nodes
  BY <1>3, ElementOfSeq
<1>7. Found'
  <2> SUFFICES ASSUME NEW i \in 1..Len(frames') - 1
               PROVE  frames'[i].name \in had'[Way'[Len(Way') - i + 1]]
    BY DEF Found
  <2>1. i \in 1..Len(frames) - 1 /\ Len(Way) - i + 1 \in 1..Len(Way)
    BY <1>3, <1>5
  <2> QED BY <1>2, <1>3, <1>5, <1>6, <1>10, <2>1 DEF Found
<1>11. \A i \in 1..Len(des) : des[i] \in had'[Way[i + 1]]
  BY <1>3, <1>4, <1>6, <1>10
<1>8. CASE Len(frames) = 1 /\ des' = des
  <2>1. status' = "done" /\ des' = des
    BY <1>8 DEF Returns
  <2>2. TypeInv'
    BY <1>1, <1>2, <1>5, <2>1 DEF WayInv, TypeInv
  <2>3. DownInv'
    BY <1>1, <1>2, <1>3, <1>4, <1>8, <1>11, <2>1 DEF DownInv
  <2> QED BY <1>6, <2>2, <2>3 DEF WayInv
<1>9. CASE Len(frames) > 1 /\ des' = Append(des, Caller.name)
  <2>1. status' = status /\ des' = Append(des, Caller.name) /\ Len(frames) - 1 \in 1..Len(frames) - 1
    <3>1. status' = status /\ des' = Append(des, Caller.name)
      <4>1. ASSUME Len(frames) = 1 PROVE FALSE
        BY <1>9, <4>1
      <4> QED BY <1>9, <4>1 DEF Returns
    <3>2. Len(frames) - 1 \in 1..Len(frames) - 1
      BY <1>3, <1>9
    <3> QED BY <3>1, <3>2
  <2>2. Caller.name \in AllNames /\ Caller.name \in had[Way[Depth + 2]]
    <3>1. Caller \in FrameSet
      BY <1>3, <2>1, ElementOfSeq DEF Caller
    <3>2. Caller.name \in had[Way[Len(Way) - (Len(frames) - 1) + 1]]
      BY <1>3, <2>1 DEF Found, Caller
    <3>3. Len(Way) - (Len(frames) - 1) + 1 = Depth + 2
      BY <1>3, <1>4
    <3> QED BY <3>1, <3>2, <3>3 DEF FrameSet
  <2>3. /\ des' \in Seq(AllNames) /\ Len(des') = Depth + 1 /\ des'[Depth + 1] = Caller.name
        /\ \A i \in 1..Depth : des'[i] = des[i]
    BY <1>3, <2>1, <2>2, AppendProperties
  <2>4. TypeInv'
    BY <1>1, <1>2, <1>5, <2>1, <2>3 DEF WayInv, TypeInv
  <2>5. \A i \in 1..Len(des') : des'[i] \in had'[Way[i + 1]]
    <3> SUFFICES ASSUME NEW i \in 1..Depth + 1 PROVE des'[i] \in had'[Way[i + 1]]
      BY <2>3
    <3>1. CASE i = Depth + 1
      <4>1. Depth + 2 \in 1..Len(Way) /\ i + 1 = Depth + 2
        BY <1>3, <1>4, <1>9, <3>1
      <4> QED BY <1>6, <1>10, <2>2, <2>3, <3>1, <4>1
    <3>2. CASE i # Depth + 1
      <4>1. i \in 1..Depth
        BY <1>4, <3>2
      <4> QED BY <1>3, <1>11, <2>3, <4>1
    <3> QED BY <3>1, <3>2
  <2>6. Len(frames') \in 1..Len(Way) /\ Depth' = Depth + 1
    BY <1>2, <1>3, <1>4, <1>5, <1>9 DEF Depth
  <2>7. DownInv'
    BY <1>1, <1>2, <1>7, <2>1, <2>3, <2>5, <2>6 DEF DownInv
  <2> QED BY <1>6, <2>4, <2>7 DEF WayInv
<1> QED BY <1>8, <1>9

LEMMA BackStep ==
    ASSUME start \in Starts, WayInv, Return \/ PrintName \/ ListPath \/ GoDown
    PROVE  WayInv'
<1>1. here \in Nodes /\ start.dirs \subseteq Nodes /\ Len(frames) \in Nat
  BY TreeAssumption DEF WayInv, TypeInv, Nodes
<1>2. CASE Return
  BY <1>1, <1>2, Back DEF Return, ListsNothing
<1>3. CASE PrintName
  <2>1. Ready("down") /\ Returns /\ here' \in Nodes /\ Len(frames) > 1 /\ des' = Append(des, Caller.name)
    BY <1>1, <1>3 DEF PrintName
  <2> QED BY <1>3, <2>1, Back DEF PrintName, ListsNothing
<1>4. CASE ListPath
  <2>1. Ready("down") /\ Returns /\ here' \in Nodes /\ Len(frames) > 1 /\ des' = Append(des, Caller.name)
    BY <1>1, <1>4 DEF ListPath
  <2>2. UNCHANGED names \/ \E n, w : w \in Names /\ RenamedTo(n, w)
    BY <1>4, ListedNames DEF ListPath, ListsNothing
  <2> QED BY <2>1, <2>2, Back
<1>5. CASE GoDown
  <2>1. here' \in Nodes
    BY <1>1, <1>5 DEF GoDown, Opened
  <2>2. Ready("down") /\ Returns /\ Len(frames) > 1 /\ des' = Append(des, Caller.name)
    BY <1>1, <1>5 DEF GoDown
  <2>3. UNCHANGED names \/ \E n, w : w \in Names /\ RenamedTo(n, w)
    BY <1>5, ListedNames DEF GoDown, ListsNothing
  <2> QED BY <2>1, <2>2, <2>3, Back
<1> QED BY <1>2, <1>3, <1>4, <1>5

\* A rename changes no number, and takes no name out of those a node has had.
LEMMA RenameStep ==
    ASSUME start \in Starts, WayInv, NEW n \in Nodes, NEW w \in Names, Rename(n, w)
    PROVE  WayInv'
<1>1. /\ start' = start /\ frames' = frames /\ here' = here /\ des' = des /\ status' = status /\ pc' = pc
  BY DEF Rename
<1>2. /\ Nodes' = Nodes /\ Root' = Root /\ Ways' = Ways /\ Way' = Way /\ FrameSet' = FrameSet
      /\ Depth' = Depth /\ Below' = Below /\ Top' = Top
  BY <1>1, SameTree
<1>3. NameInv' /\ \A m \in Nodes : had[m] \subseteq had'[m]
  BY <1>1, NamesStep DEF Rename, WayInv
<1>4. TypeInv'
  BY <1>1, <1>2 DEF WayInv, TypeInv
<1>5. Len(frames) \in 1..Len(Way) /\ Found => Found'
  BY <1>1, <1>3, StillFound
<1>6. UpInv'
  BY <1>1, <1>2, <1>5 DEF WayInv, UpInv
<1>7. ASSUME pc = "down", NEW i \in 1..Len(des), des[i] \in had[Way[i + 1]] PROVE des[i] \in had'[Way[i + 1]]
  <2>1. Way \in Seq(Nodes) /\ Len(Way) \in Nat /\ Len(des) \in Nat
    BY Tree, LenProperties DEF WayInv, TypeInv
  <2>2. Len(des) <= Len(Way) - 1
    <3>1. status = "running"
      BY DEF Rename
    <3>2. Len(frames) \in 1..Len(Way) /\ Len(des) = Len(Way) - Len(frames)
      BY <1>7, <3>1 DEF WayInv, DownInv, Depth
    <3> QED BY <2>1, <3>2
  <2>3. i + 1 \in 1..Len(Way)
    BY <2>1, <2>2
  <2>4. Way[i + 1] \in Nodes
    BY <2>1, <2>3, ElementOfSeq
  <2> QED BY <1>3, <1>7, <2>4
<1>8. DownInv'
  BY <1>1, <1>2, <1>5, <1>7 DEF WayInv, DownInv
<1> QED BY <1>3, <1>4, <1>6, <1>8 DEF WayInv

LEMMA InvStep == IInv /\ [Next]_vars => IInv'
<1> SUFFICES ASSUME IInv, [Next]_vars PROVE IInv'
  OBVIOUS
<1>1. start' = start /\ start \in Starts /\ (Lost' <=> Lost)
  <2>1. start' = start
    BY DEF Next, Program, Test, Up, Name, StatRealPath, Return, PrintName, ListPath, GoDown,
           ListRealPath, Returns, Fails, Rename, Ended, vars
  <2> QED BY <2>1, SameTree DEF IInv
<1>2. CASE Lost
  BY <1>1, <1>2 DEF IInv
<1>3. CASE ~Lost
  <2>1. WayInv /\ ~Tutor
    BY <1>3 DEF IInv, Lost
  <2>2. CASE Test
    BY <1>1, <1>3, <2>1, <2>2, TestStep DEF IInv
  <2>3. CASE Up
    BY <1>1, <1>3, <2>1, <2>3, UpStep DEF IInv
  <2>4. CASE Name
    BY <1>1, <1>3, <2>1, <2>4, NameStep DEF IInv
  <2>5. CASE Return \/ PrintName \/ ListPath \/ GoDown
    BY <1>1, <2>1, <2>5, BackStep DEF IInv
  <2>6. ASSUME NEW n \in Nodes, NEW w \in Names, Rename(n, w) PROVE IInv'
    BY <1>1, <2>1, <2>6, RenameStep DEF IInv
  <2>7. CASE UNCHANGED vars
    <3>1. WayInv'
      <4>1. /\ start' = start /\ frames' = frames /\ here' = here /\ des' = des /\ status' = status
            /\ pc' = pc /\ name' = name /\ had' = had
        BY <2>7 DEF vars, names
      <4>2. /\ Nodes' = Nodes /\ Root' = Root /\ Ways' = Ways /\ Way' = Way /\ FrameSet' = FrameSet
            /\ Depth' = Depth /\ Below' = Below /\ Top' = Top
        BY <4>1, SameTree
      <4> QED BY <2>1, <4>1, <4>2 DEF WayInv, TypeInv, NameInv, UpInv, DownInv, Found
    <3> QED BY <1>1, <3>1 DEF IInv
  <2> QED BY <2>1, <2>2, <2>3, <2>4, <2>5, <2>6, <2>7
          DEF Next, Program, Ended, StatRealPath, ListRealPath
<1> QED BY <1>2, <1>3

-----------------------------------------------------------------------------
\* What spwd and the two submissions print as the path, printpathio(): for every
\* tree, every directory in it and any number of renames, it is as long as the way from
\* the root, and each part was the name of the directory at that depth - if numbers
\* tell apart on the way, from one directory to the next; the rest of the tree is free.
THEOREM PathTrue == Spec => [](~Tutor => PathIsTrue)
<1>1. IInv => (~Tutor => PathIsTrue)
  <2> SUFFICES ASSUME IInv, ~Tutor, status = "done", NumbersTellApart
               PROVE  /\ Len(des) = Len(Way) - 1
                      /\ \A i \in DOMAIN des : des[i] \in had[Way[i + 1]]
    BY DEF PathIsTrue
  <2>2. WayInv /\ pc = "down"
    BY DEF IInv, Lost, WayInv, UpInv, TypeInv
  <2>3. des \in Seq(AllNames) /\ DOMAIN des = 1..Len(des)
    BY <2>2, LenProperties DEF WayInv, TypeInv
  <2> QED BY <2>2, <2>3 DEF WayInv, DownInv
<1> QED BY <1>1, InvInit, InvStep, PTL DEF Spec
=============================================================================
