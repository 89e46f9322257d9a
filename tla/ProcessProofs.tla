---------------------------- MODULE ProcessProofs ----------------------------
(***************************************************************************)
(* The programs that fork.  The shells psh1 and psh2, for everything that   *)
(* can be typed to them, for any MAXARGS and any process limit: each        *)
(* command that is complete is run once, with its own words, and the status *)
(* printed for it is its own; and a shell is alone when it reads.  pipe_p.c *)
(* and popen_p.c, for any number of lines and any capacity of the pipe: the *)
(* lines come out in order and marked by each command.  The two sorts of    *)
(* hw6, for every array of integers.  The parents whotofile_p.c,            *)
(* waitdemo2.c and hw6, for any process limit and any such arrays: what     *)
(* they say after wait() is so.                                             *)
(***************************************************************************)
EXTENDS Children, Pipelines, FiniteSetTheorems, SequenceTheorems, WellFoundedInduction, TLAPS

Words == {NoWord, "cat", "head", "ls", "who", "nosuch"}

-----------------------------------------------------------------------------
(* The commands in the lines that were typed                                *)

\* From line b there are only words.
Open(lines, b) ==
    /\ b \in 1..Len(lines) + 1 /\ (b = 1 \/ lines[b - 1] = NoWord)
    /\ \A i \in b..Len(lines) : lines[i] # NoWord

LEMMA CommandPlaces ==
    ASSUME NEW l \in Seq(Words), NEW c \in Commands(l)
    PROVE  /\ c = [from |-> c.from, to |-> c.to] /\ Len(l) \in Nat
           /\ c.from \in 1..Len(l) /\ c.to \in 1..Len(l) - 1 /\ c.from <= c.to
           /\ l[c.to + 1] = NoWord
           /\ c.from = 1 \/ l[c.from - 1] = NoWord
           /\ \A i \in c.from..c.to : l[i] # NoWord
<1>1. Len(l) \in Nat
  BY LenProperties
<1>2. c \in [from : 1..Len(l), to : 1..Len(l) - 1]
  BY DEF Commands
<1> QED BY <1>1, <1>2 DEF Commands

\* No two commands end at the same line.
LEMMA OneEnd ==
    ASSUME NEW l \in Seq(Words), NEW c \in Commands(l), NEW d \in Commands(l), c.to = d.to
    PROVE  c = d
<1>1. /\ c = [from |-> c.from, to |-> c.to] /\ Len(l) \in Nat
      /\ c.from \in 1..Len(l) /\ c.to \in 1..Len(l) - 1 /\ c.from <= c.to
      /\ c.from = 1 \/ l[c.from - 1] = NoWord
      /\ \A i \in c.from..c.to : l[i] # NoWord
  BY CommandPlaces
<1>2. /\ d = [from |-> d.from, to |-> d.to]
      /\ d.from \in 1..Len(l) /\ d.to \in 1..Len(l) - 1 /\ d.from <= d.to
      /\ d.from = 1 \/ l[d.from - 1] = NoWord
      /\ \A i \in d.from..d.to : l[i] # NoWord
  BY CommandPlaces
<1>3. ~(c.from < d.from)
  BY <1>1, <1>2
<1>4. ~(d.from < c.from)
  BY <1>1, <1>2
<1>5. c.from = d.from
  BY <1>1, <1>2, <1>3, <1>4
<1> QED BY <1>1, <1>2, <1>5

LEMMA CommandsFinite ==
    ASSUME NEW l \in Seq(Words)
    PROVE  IsFiniteSet(Commands(l)) /\ Cardinality(Commands(l)) \in Nat
<1>1. Len(l) \in Nat /\ IsFiniteSet(1..Len(l))
  <2>1. Len(l) \in Nat
    BY LenProperties
  <2> QED BY <2>1, FS_Interval
<1> DEFINE f == [c \in Commands(l) |-> c.to]
<1>2. f \in [Commands(l) -> 1..Len(l)]
  BY CommandPlaces
<1>3. \A c, d \in Commands(l) : f[c] = f[d] => c = d
  BY OneEnd
<1> HIDE DEF f
<1>4. f \in Injection(Commands(l), 1..Len(l))
  BY <1>2, <1>3 DEF Injection, IsInjective
<1>5. IsFiniteSet(Commands(l))
  BY <1>1, <1>4, FS_Injection
<1> QED BY <1>5, FS_CardinalityType

\* A word completes no command; an empty line completes the one that is open, if it has words.
LEMMA OneMoreLine ==
    ASSUME NEW l \in Seq(Words), NEW w \in Words, NEW b, Open(l, b)
    PROVE  /\ w # NoWord => Commands(Append(l, w)) = Commands(l) /\ Open(Append(l, w), b)
           /\ w = NoWord => /\ Open(Append(l, w), Len(l) + 2)
                        /\ Commands(Append(l, w)) =
                             Commands(l) \cup (IF b <= Len(l) THEN {[from |-> b, to |-> Len(l)]} ELSE {})
<1> DEFINE n == Len(l)  m == Append(l, w)
<1>1. n \in Nat /\ b \in 1..n + 1 /\ (b = 1 \/ l[b - 1] = NoWord) /\ \A i \in b..n : l[i] # NoWord
  BY LenProperties DEF Open
<1>2. m \in Seq(Words) /\ Len(m) = n + 1 /\ m[n + 1] = w /\ \A i \in 1..n : m[i] = l[i]
  BY AppendProperties
<1> HIDE DEF n, m
<1>3. Commands(l) = {c \in [from : 1..n, to : 1..n - 1] :
                       /\ c.from <= c.to /\ \A i \in c.from..c.to : l[i] # NoWord
                       /\ c.from = 1 \/ l[c.from - 1] = NoWord
                       /\ l[c.to + 1] = NoWord}
  BY DEF Commands, n
<1>4. Commands(m) = {c \in [from : 1..Len(m), to : 1..Len(m) - 1] :
                       /\ c.from <= c.to /\ \A i \in c.from..c.to : m[i] # NoWord
                       /\ c.from = 1 \/ m[c.from - 1] = NoWord
                       /\ m[c.to + 1] = NoWord}
  BY DEF Commands
<1>5. ASSUME NEW c \in Commands(l) PROVE c \in Commands(m)
  <2>1. /\ c \in [from : 1..n, to : 1..n - 1] /\ c.from \in 1..n /\ c.to \in 1..n - 1
        /\ c.from <= c.to /\ (\A i \in c.from..c.to : l[i] # NoWord)
        /\ c.from = 1 \/ l[c.from - 1] = NoWord
        /\ l[c.to + 1] = NoWord
    BY <1>3
  <2>2. c \in [from : 1..Len(m), to : 1..Len(m) - 1]
    BY <1>1, <1>2, <2>1
  <2>3. (\A i \in c.from..c.to : m[i] # NoWord) /\ m[c.to + 1] = NoWord /\ (c.from = 1 \/ m[c.from - 1] = NoWord)
    <3>1. \A i \in c.from..c.to : i \in 1..n
      BY <1>1, <2>1
    <3>2. c.to + 1 \in 1..n /\ (c.from = 1 \/ c.from - 1 \in 1..n)
      BY <1>1, <2>1
    <3> QED BY <1>2, <2>1, <3>1, <3>2
  <2> QED BY <1>4, <2>1, <2>2, <2>3
<1>6. ASSUME NEW c \in Commands(m), c.to # n PROVE c \in Commands(l)
  <2>1. /\ c \in [from : 1..Len(m), to : 1..Len(m) - 1] /\ c.from \in 1..Len(m) /\ c.to \in 1..Len(m) - 1
        /\ c.from <= c.to /\ (\A i \in c.from..c.to : m[i] # NoWord)
        /\ c.from = 1 \/ m[c.from - 1] = NoWord
        /\ m[c.to + 1] = NoWord
    BY <1>4
  <2>2. c \in [from : 1..n, to : 1..n - 1] /\ c.from \in 1..n /\ c.to \in 1..n - 1
    BY <1>1, <1>2, <1>6, <2>1
  <2>3. (\A i \in c.from..c.to : l[i] # NoWord) /\ l[c.to + 1] = NoWord /\ (c.from = 1 \/ l[c.from - 1] = NoWord)
    BY <1>1, <1>2, <2>1, <2>2
  <2> QED BY <1>3, <2>1, <2>2, <2>3
<1>7. ASSUME NEW c \in Commands(m), c.to = n PROVE w = NoWord /\ b <= n /\ c = [from |-> b, to |-> n]
  <2>1. /\ c = [from |-> c.from, to |-> c.to] /\ c.from \in 1..Len(m)
        /\ c.from <= c.to /\ (\A i \in c.from..c.to : m[i] # NoWord)
        /\ c.from = 1 \/ m[c.from - 1] = NoWord
        /\ m[c.to + 1] = NoWord
    BY <1>4
  <2>2. ~(c.from < b)
    BY <1>1, <1>2, <1>7, <2>1
  <2>3. ~(b < c.from)
    BY <1>1, <1>2, <1>7, <2>1
  <2>4. c.from = b
    BY <1>1, <2>1, <2>2, <2>3
  <2> QED BY <1>1, <1>2, <1>7, <2>1, <2>4
<1>8. w = NoWord /\ b <= n => [from |-> b, to |-> n] \in Commands(m)
  <2> SUFFICES ASSUME w = NoWord, b <= n PROVE [from |-> b, to |-> n] \in Commands(m)
    OBVIOUS
  <2> DEFINE c == [from |-> b, to |-> n]
  <2>1. c \in [from : 1..Len(m), to : 1..Len(m) - 1] /\ c.from = b /\ c.to = n
    BY <1>1, <1>2
  <2>2. (\A i \in b..n : m[i] # NoWord) /\ (b = 1 \/ m[b - 1] = NoWord) /\ m[n + 1] = NoWord
    BY <1>1, <1>2
  <2> HIDE DEF c
  <2>3. c \in Commands(m)
    BY <1>4, <2>1, <2>2
  <2> QED BY <2>3 DEF c
<1>9. w # NoWord => Open(m, b)
  BY <1>1, <1>2 DEF Open
<1>10. w = NoWord => Open(m, n + 2)
  BY <1>1, <1>2 DEF Open
<1>11. w # NoWord => Commands(m) = Commands(l)
  BY <1>5, <1>6, <1>7
<1>12. w = NoWord => Commands(m) = Commands(l) \cup (IF b <= n THEN {[from |-> b, to |-> n]} ELSE {})
  BY <1>5, <1>6, <1>7, <1>8
<1> QED BY <1>9, <1>10, <1>11, <1>12 DEF n, m

\* A line more changes no command, and not its number.
LEMMA SameCommand ==
    ASSUME NEW l \in Seq(Words), NEW w \in Words, NEW b, Open(l, b), NEW c \in Commands(l)
    PROVE  /\ WordsOf(Append(l, w), c) = WordsOf(l, c)
           /\ Number(Append(l, w), c) = Number(l, c)
<1>1. c.from \in 1..Len(l) /\ c.to \in 1..Len(l) - 1 /\ Len(l) \in Nat
  BY CommandPlaces
<1>2. WordsOf(Append(l, w), c) = WordsOf(l, c)
  <2> DEFINE m == Append(l, w)  i == c.from  j == c.to
  <2>1. m \in Seq(Words) /\ (\A k \in 1..Len(l) : m[k] = l[k]) /\ i \in 1..Len(l) /\ j \in 1..Len(l)
    BY <1>1, AppendProperties
  <2> HIDE DEF m, i, j
  <2>2. (\A k \in i..j : l[k] \in Words) /\ (\A k \in i..j : m[k] \in Words) /\ (\A k \in i..j : m[k] = l[k])
    <3>1. \A k \in 1..Len(l) : l[k] \in Words
      BY ElementOfSeq
    <3> QED BY <1>1, <2>1, <3>1
  <2>3. /\ SubSeq(l, i, j) \in Seq(Words)
        /\ Len(SubSeq(l, i, j)) = IF i <= j THEN j - i + 1 ELSE 0
        /\ \A k \in 1..j - i + 1 : SubSeq(l, i, j)[k] = l[i + k - 1]
    BY <1>1, <2>1, <2>2, SubSeqProperties
  <2>4. /\ SubSeq(m, i, j) \in Seq(Words)
        /\ Len(SubSeq(m, i, j)) = IF i <= j THEN j - i + 1 ELSE 0
        /\ \A k \in 1..j - i + 1 : SubSeq(m, i, j)[k] = m[i + k - 1]
    BY <1>1, <2>1, <2>2, SubSeqProperties
  <2>5. Len(SubSeq(m, i, j)) = Len(SubSeq(l, i, j))
    BY <2>3, <2>4
  <2>6. \A k \in 1..Len(SubSeq(m, i, j)) : SubSeq(m, i, j)[k] = SubSeq(l, i, j)[k]
    <3>1. \A k \in 1..j - i + 1 : i + k - 1 \in i..j
      BY <1>1, <2>1
    <3>2. 1..Len(SubSeq(m, i, j)) \subseteq 1..j - i + 1
      BY <1>1, <2>1, <2>4
    <3> QED BY <2>2, <2>3, <2>4, <3>1, <3>2
  <2>7. SubSeq(m, i, j) = SubSeq(l, i, j)
    BY <2>3, <2>4, <2>5, <2>6, SeqEqual
  <2> QED BY <2>7 DEF m, i, j, WordsOf
<1>3. {d \in Commands(Append(l, w)) : d.to <= c.to} = {d \in Commands(l) : d.to <= c.to}
  <2>1. w # NoWord => Commands(Append(l, w)) = Commands(l)
    BY OneMoreLine
  <2>2. w = NoWord =>
           Commands(Append(l, w)) = Commands(l) \cup (IF b <= Len(l) THEN {[from |-> b, to |-> Len(l)]} ELSE {})
    BY OneMoreLine
  <2>3. ~(Len(l) <= c.to)
    BY <1>1
  <2> QED BY <2>1, <2>2, <2>3
<1> QED BY <1>2, <1>3 DEF Number

\* The last command has the highest number, and only it.
LEMMA LastNumber ==
    ASSUME NEW l \in Seq(Words), NEW c \in Commands(l), c.to + 1 = Len(l)
    PROVE  /\ Number(l, c) = Cardinality(Commands(l))
           /\ \A d \in Commands(l) \ {c} : Number(l, d) < Cardinality(Commands(l))
<1>1. \A d \in Commands(l) : d.to \in 1..Len(l) - 1 /\ Len(l) \in Nat
  BY CommandPlaces
<1>2. {d \in Commands(l) : d.to <= c.to} = Commands(l)
  BY <1>1
<1>3. ASSUME NEW d \in Commands(l) \ {c} PROVE Number(l, d) < Cardinality(Commands(l))
  <2> DEFINE S == {e \in Commands(l) : e.to <= d.to}
  <2>1. d.to # c.to
    BY OneEnd
  <2>2. ~(c.to <= d.to)
    BY <1>1, <2>1
  <2>3. S \subseteq Commands(l) /\ S # Commands(l)
    BY <2>2
  <2>4. IsFiniteSet(Commands(l)) /\ Cardinality(Commands(l)) \in Nat
    BY CommandsFinite
  <2> HIDE DEF S
  <2>5. Cardinality(S) \in Nat /\ Cardinality(S) < Cardinality(Commands(l))
    BY <2>3, <2>4, FS_Subset, FS_CardinalityType
  <2> QED BY <2>5 DEF Number, S
<1> QED BY <1>2, <1>3 DEF Number

\* Every command has a number, and none is higher than how many there are.
LEMMA NumberType ==
    ASSUME NEW l \in Seq(Words), NEW c \in Commands(l)
    PROVE  Number(l, c) \in 1..Cardinality(Commands(l))
<1> DEFINE S == {d \in Commands(l) : d.to <= c.to}
<1>1. IsFiniteSet(Commands(l)) /\ Cardinality(Commands(l)) \in Nat
  BY CommandsFinite
<1>2. c.to \in Nat
  BY CommandPlaces
<1>3. c \in S /\ S \subseteq Commands(l)
  BY <1>2
<1> HIDE DEF S
<1>4. IsFiniteSet(S) /\ Cardinality(S) <= Cardinality(Commands(l)) /\ Cardinality(S) \in Nat
  BY <1>1, <1>3, FS_Subset, FS_CardinalityType
<1>5. Cardinality(S) # 0
  BY <1>3, <1>4, FS_EmptySet
<1> QED BY <1>1, <1>4, <1>5 DEF Number, S

-----------------------------------------------------------------------------
(* The texts of the shells and of the commands                              *)

Doomed   == <<Exec(1), ExitWith(1)>>      \* a process that is to run the command
Failed   == <<ExitWith(1)>>               \* there is no such command
Doomed1  == <<Exec(1), ExitWith(1), psh1>>
Failed1  == <<ExitWith(1), psh1>>
Leaving  == <<Exit>>
Forking  == <<Fork(Doomed, Failed), WaitFor, Report, psh2>>
Waiting  == <<WaitFor, Report, psh2>>
Telling  == <<Report, psh2>>

\* A command with number n, as it runs.
Copies(n)   == Loop(<<ReadOrExit(In), Write(Out, <<n>>)>>)
Reads(n)    == <<ReadOrExit(In), Write(Out, <<n>>), Copies(n)>>
Writes(n)   == <<Write(Out, <<n>>), Copies(n)>>
ReadsOne(n) == <<ReadOrExit(In), Write(Out, <<n>>), Exit>>
Two(n)      == <<Write(Out, <<n>>), Write(Out, <<n>>), Exit>>
One(n)      == <<Write(Out, <<n>>), Exit>>

Running(n) == {Reads(n), Writes(n), ReadsOne(n), Two(n), One(n), Leaving}

LEMMA ConcatTwo == ASSUME NEW a, NEW b, NEW c PROVE <<a, b>> \o <<c>> = <<a, b, c>>
<1> DEFINE S == {a, b, c}  s == <<a, b>>  t == <<c>>  u == <<a, b, c>>
<1>1. s \in Seq(S) /\ t \in Seq(S) /\ u \in Seq(S) /\ Len(s) = 2 /\ Len(t) = 1 /\ Len(u) = 3
  OBVIOUS
<1>2. s[1] = a /\ s[2] = b /\ t[1] = c /\ u[1] = a /\ u[2] = b /\ u[3] = c
  OBVIOUS
<1> HIDE DEF S, s, t, u
<1>3. /\ s \o t \in Seq(S) /\ Len(s \o t) = Len(s) + Len(t)
      /\ \A i \in 1..Len(s) + Len(t) : (s \o t)[i] = IF i <= Len(s) THEN s[i] ELSE t[i - Len(s)]
  BY <1>1, ConcatProperties
<1>4. Len(s \o t) = 3 /\ (s \o t)[1] = a /\ (s \o t)[2] = b /\ (s \o t)[3] = c
  BY <1>1, <1>2, <1>3
<1>5. \A i \in 1..Len(s \o t) : (s \o t)[i] = u[i]
  BY <1>2, <1>4
<1>6. s \o t = u
  BY <1>1, <1>3, <1>4, <1>5, SeqEqual
<1> QED BY <1>6 DEF s, t, u

LEMMA ConcatThree == ASSUME NEW a, NEW b, NEW c, NEW d PROVE <<a, b, c>> \o <<d>> = <<a, b, c, d>>
<1> DEFINE S == {a, b, c, d}  s == <<a, b, c>>  t == <<d>>  u == <<a, b, c, d>>
<1>1. s \in Seq(S) /\ t \in Seq(S) /\ u \in Seq(S) /\ Len(s) = 3 /\ Len(t) = 1 /\ Len(u) = 4
  OBVIOUS
<1>2. s[1] = a /\ s[2] = b /\ s[3] = c /\ t[1] = d /\ u[1] = a /\ u[2] = b /\ u[3] = c /\ u[4] = d
  OBVIOUS
<1> HIDE DEF S, s, t, u
<1>3. /\ s \o t \in Seq(S) /\ Len(s \o t) = Len(s) + Len(t)
      /\ \A i \in 1..Len(s) + Len(t) : (s \o t)[i] = IF i <= Len(s) THEN s[i] ELSE t[i - Len(s)]
  BY <1>1, ConcatProperties
<1>4. Len(s \o t) = 4 /\ (s \o t)[1] = a /\ (s \o t)[2] = b /\ (s \o t)[3] = c /\ (s \o t)[4] = d
  BY <1>1, <1>2, <1>3
<1>5. \A i \in 1..Len(s \o t) : (s \o t)[i] = u[i]
  BY <1>2, <1>4
<1>6. s \o t = u
  BY <1>1, <1>3, <1>4, <1>5, SeqEqual
<1> QED BY <1>6 DEF s, t, u

\* What each text begins with, and what is left of it behind that call.
LEMMA ShellTexts ==
    /\ Head(Doomed) = Exec(1)       /\ Unrolled(Tail(Doomed)) = Failed
    /\ Head(Doomed1) = Exec(1)      /\ Unrolled(Tail(Doomed1)) = Failed1
    /\ Head(Failed) = ExitWith(1)   /\ Unrolled(Failed) = Failed
    /\ Head(Failed1) = ExitWith(1)
    /\ Head(Leaving) = ExitWith(0)  /\ Unrolled(Leaving) = Leaving
    /\ Head(Forking) = Fork(Doomed, Failed)
    /\ Unrolled(Tail(Forking)) = Waiting
    /\ Head(Waiting).op = "waitfor" /\ Unrolled(Tail(Waiting)) = Telling
    /\ Head(Telling).op = "report"  /\ Unrolled(Tail(Telling)) = <<psh2>>
    /\ Head(<<psh1>>).op = "arg" /\ Head(<<psh1>>).execute = Doomed
    /\ Unrolled(Doomed \o <<psh1>>) = Doomed1
    /\ Head(<<psh2>>).op = "arg" /\ Head(<<psh2>>).execute = psh2Execute
    /\ Unrolled(psh2Execute \o <<psh2>>) = Forking
    /\ Unrolled(Doomed) = Doomed
<1>1. /\ Exec(1).op = "exec" /\ ExitWith(1).op = "exit" /\ ExitWith(0).op = "exit"
      /\ WaitFor.op = "waitfor" /\ Report.op = "report" /\ Fork(Doomed, Failed).op = "fork"
      /\ psh1.op = "arg" /\ psh1.execute = Doomed /\ psh2.op = "arg" /\ psh2.execute = psh2Execute
  BY DEF Exec, ExitWith, WaitFor, Report, Fork, psh1, psh2, Arg, Doomed
<1>2. /\ Head(Doomed) = Exec(1) /\ Tail(Doomed) = Failed
      /\ Head(Doomed1) = Exec(1) /\ Tail(Doomed1) = Failed1
      /\ Head(Failed) = ExitWith(1) /\ Head(Failed1) = ExitWith(1) /\ Head(Leaving) = ExitWith(0)
  BY DEF Doomed, Failed, Doomed1, Failed1, Leaving, Exit
<1>3. /\ Head(Forking) = Fork(Doomed, Failed) /\ Tail(Forking) = Waiting
      /\ Head(Waiting) = WaitFor /\ Tail(Waiting) = Telling
      /\ Head(Telling) = Report /\ Tail(Telling) = <<psh2>>
      /\ Head(<<psh1>>) = psh1 /\ Head(<<psh2>>) = psh2
  BY DEF Forking, Waiting, Telling
<1>4. Doomed \o <<psh1>> = Doomed1
  BY ConcatTwo DEF Doomed, Doomed1
<1>5. psh2Execute \o <<psh2>> = Forking
  BY ConcatThree DEF psh2Execute, Forking, Doomed, Failed
<1>6. \A t : Head(t).op # "loop" => Unrolled(t) = t
  BY DEF Unrolled
<1> QED BY <1>1, <1>2, <1>3, <1>4, <1>5, <1>6

LEMMA CommandTexts ==
    ASSUME NEW n
    PROVE  /\ \A c \in Words \ {NoWord, "nosuch"} : Unrolled(Command(c, n)) \in Running(n)
           /\ \A t \in Running(n) :
                \/ /\ Head(t) = ReadOrExit(In) \/ Head(t) = Write(Out, <<n>>)
                   /\ Unrolled(Tail(t)) \in Running(n)
                \/ Head(t) = ExitWith(0)
<1>1. /\ ReadOrExit(In).op # "loop" /\ Write(Out, <<n>>).op # "loop" /\ ExitWith(0).op # "loop"
      /\ Copies(n).op = "loop" /\ Copies(n).body = <<ReadOrExit(In), Write(Out, <<n>>)>>
  BY DEF ReadOrExit, Write, ExitWith, Copies, Loop
<1>2. Copies(n).body \o <<Copies(n)>> = Reads(n)
  BY <1>1, ConcatTwo DEF Reads
<1>3. /\ Head(Reads(n)) = ReadOrExit(In)    /\ Tail(Reads(n)) = Writes(n)
      /\ Head(Writes(n)) = Write(Out, <<n>>)   /\ Tail(Writes(n)) = <<Copies(n)>>
      /\ Head(ReadsOne(n)) = ReadOrExit(In) /\ Tail(ReadsOne(n)) = One(n)
      /\ Head(Two(n)) = Write(Out, <<n>>)      /\ Tail(Two(n)) = One(n)
      /\ Head(One(n)) = Write(Out, <<n>>)      /\ Tail(One(n)) = Leaving
      /\ Head(Leaving) = ExitWith(0)     /\ Head(<<Copies(n)>>) = Copies(n)
  BY DEF Reads, Writes, ReadsOne, Two, One, Leaving, Exit
<1>4. /\ Unrolled(Writes(n)) = Writes(n) /\ Unrolled(<<Copies(n)>>) = Reads(n) /\ Unrolled(One(n)) = One(n)
      /\ Unrolled(Leaving) = Leaving /\ Unrolled(ReadsOne(n)) = ReadsOne(n) /\ Unrolled(Two(n)) = Two(n)
  BY <1>1, <1>2, <1>3 DEF Unrolled
<1>5. /\ Command("cat", n) = <<Copies(n)>> /\ Command("head", n) = ReadsOne(n)
      /\ Command("ls", n) = Two(n) /\ Command("who", n) = Two(n)
  BY DEF Command, Copies, ReadsOne, Two
<1>6. \A c \in Words \ {NoWord, "nosuch"} : c \in {"cat", "head", "ls", "who"}
  BY DEF Words, NoWord
<1>7. \A c \in {"cat", "head", "ls", "who"} : Unrolled(Command(c, n)) \in Running(n)
  BY <1>4, <1>5 DEF Running
<1> QED BY <1>3, <1>4, <1>6, <1>7 DEF Running

-----------------------------------------------------------------------------
(* One call of a process                                                    *)

\* A process makes the call that its text begins with.
LEMMA ByCall ==
    ASSUME NEW p \in Pids, Process(p) \/ Shell(p)
    PROVE  /\ status[p] = "running"
           /\ Call(p).op = "exit"    => SysExit(p)
           /\ Call(p).op = "fork"    => SysFork(p) \/ ForkFails(p)
           /\ Call(p).op = "exec"    => SysExec(p)
           /\ Call(p).op = "read"    => ReadTty(p) \/ ReadPipe(p) \/ ReadEof(p)
           /\ Call(p).op = "write"   => WriteTty(p) \/ WritePipe(p) \/ WriteFile(p) \/ WriteBroken(p)
           /\ Call(p).op = "arg"     => ReadArg(p) \/ ArgAtEof(p) \/ PromptAgain(p)
           /\ Call(p).op = "waitfor" => WaitForChild(p)
           /\ Call(p).op = "report"  => ReportStatus(p)
           /\ Call(p).op = "wait"    => SysWait(p)
           /\ Call(p).op = "pipe"    => SysPipe(p)
           /\ Call(p).op = "close"   => SysClose(p)
           /\ Call(p).op = "creat"   => SysCreat(p)
           /\ Call(p).op = "dup2"    => SysDup2(p)
<1>1. /\ SysExit(p) => status[p] = "running" /\ Call(p).op = "exit"
      /\ SysFork(p) \/ ForkFails(p) => status[p] = "running" /\ Call(p).op = "fork"
      /\ SysExec(p) => status[p] = "running" /\ Call(p).op = "exec"
      /\ SysWait(p) => status[p] = "running" /\ Call(p).op = "wait"
      /\ SysWaitPid(p) => status[p] = "running" /\ Call(p).op = "waitpid"
      /\ SysPipe(p) => status[p] = "running" /\ Call(p).op = "pipe"
      /\ SysClose(p) => status[p] = "running" /\ Call(p).op = "close"
      /\ SysCreat(p) => status[p] = "running" /\ Call(p).op = "creat"
      /\ SysDup2(p) => status[p] = "running" /\ Call(p).op = "dup2"
  BY DEF SysExit, SysFork, ForkFails, SysExec, SysWait, SysWaitPid, SysPipe, SysClose, SysCreat, SysDup2, At, Call
<1>2. /\ ReadTty(p) \/ ReadPipe(p) \/ ReadEof(p) => status[p] = "running" /\ Call(p).op = "read"
      /\ WriteTty(p) \/ WritePipe(p) \/ WriteFile(p) \/ WriteBroken(p)
           => status[p] = "running" /\ Call(p).op = "write"
      /\ ReadArg(p) \/ ArgAtEof(p) \/ PromptAgain(p) => status[p] = "running" /\ Call(p).op = "arg"
      /\ WaitForChild(p) => status[p] = "running" /\ Call(p).op = "waitfor"
      /\ ReportStatus(p) => status[p] = "running" /\ Call(p).op = "report"
  BY DEF ReadTty, ReadPipe, ReadEof, WriteTty, WritePipe, WriteFile, WriteBroken,
         ReadArg, ArgAtEof, PromptAgain, WaitForChild, ReportStatus, At, Call
<1>3. status[p] = "running"
  BY <1>1, <1>2 DEF Process, Shell
<1>4. Call(p).op = "exit" => SysExit(p)
  BY <1>1, <1>2 DEF Process, Shell
<1>5. Call(p).op = "fork" => SysFork(p) \/ ForkFails(p)
  BY <1>1, <1>2 DEF Process, Shell
<1>6. Call(p).op = "exec" => SysExec(p)
  BY <1>1, <1>2 DEF Process, Shell
<1>7. Call(p).op = "read" => ReadTty(p) \/ ReadPipe(p) \/ ReadEof(p)
  BY <1>1, <1>2 DEF Process, Shell
<1>8. Call(p).op = "write" => WriteTty(p) \/ WritePipe(p) \/ WriteFile(p) \/ WriteBroken(p)
  BY <1>1, <1>2 DEF Process, Shell
<1>9. Call(p).op = "arg" => ReadArg(p) \/ ArgAtEof(p) \/ PromptAgain(p)
  BY <1>1, <1>2 DEF Process, Shell
<1>10. Call(p).op = "waitfor" => WaitForChild(p)
  BY <1>1, <1>2 DEF Process, Shell
<1>11. Call(p).op = "report" => ReportStatus(p)
  BY <1>1, <1>2 DEF Process, Shell
<1>12. Call(p).op = "wait" => SysWait(p)
  BY <1>1, <1>2 DEF Process, Shell
<1>13. Call(p).op = "pipe" => SysPipe(p)
  BY <1>1, <1>2 DEF Process, Shell
<1>14. Call(p).op = "close" => SysClose(p)
  BY <1>1, <1>2 DEF Process, Shell
<1>15. Call(p).op = "creat" => SysCreat(p)
  BY <1>1, <1>2 DEF Process, Shell
<1>16. Call(p).op = "dup2" => SysDup2(p)
  BY <1>1, <1>2 DEF Process, Shell
<1> QED BY <1>3, <1>4, <1>5, <1>6, <1>7, <1>8, <1>9, <1>10, <1>11,
           <1>12, <1>13, <1>14, <1>15, <1>16

OnTerminal == [d \in {In, Out} |-> Tty]

\* A command reads and writes the terminal, and in the end exits with 0.
LEMMA CommandStep ==
    ASSUME NEW p \in Pids, text[p] \in Running(1), fds[p] = OnTerminal, Process(p) \/ Shell(p)
    PROVE  /\ UNCHANGED family
           /\ \/ /\ UNCHANGED <<lives, fds>>
                 /\ \E t \in Running(1) : text' = [text EXCEPT ![p] = t]
              \/ Terminate(p, 0)
<1>1. fds[p][In] = Tty /\ fds[p][Out] = Tty /\ Tty[1] = "tty"
  BY DEF OnTerminal, Tty
<1>2. CASE Head(text[p]) = ReadOrExit(In) /\ Unrolled(Tail(text[p])) \in Running(1)
  <2>1. Call(p).op = "read" /\ Call(p).fd = In /\ Call(p).eof = "exit"
    BY <1>2 DEF Call, ReadOrExit
  <2>2. Source(p) = Tty
    BY <1>1, <2>1 DEF Source
  <2>3. ReadTty(p) \/ ReadEof(p)
    BY <1>1, <2>1, <2>2, ByCall DEF ReadPipe
  <2>4. GoOn(p, Rest(p)) => \E t \in Running(1) : text' = [text EXCEPT ![p] = t]
    BY <1>2 DEF GoOn, Rest
  <2>5. CASE ReadTty(p)
    BY <2>4, <2>5 DEF ReadTty
  <2>6. CASE ReadEof(p)
    BY <2>1, <2>6 DEF ReadEof
  <2> QED BY <2>3, <2>5, <2>6
<1>3. CASE Head(text[p]) = Write(Out, <<1>>) /\ Unrolled(Tail(text[p])) \in Running(1)
  <2>1. Call(p).op = "write" /\ Call(p).fd = Out
    BY <1>3 DEF Call, Write
  <2>2. Source(p) = Tty
    BY <1>1, <2>1 DEF Source
  <2>3. WriteTty(p)
    BY <1>1, <2>1, <2>2, ByCall DEF WritePipe, WriteFile, WriteBroken
  <2>4. GoOn(p, Rest(p)) => \E t \in Running(1) : text' = [text EXCEPT ![p] = t]
    BY <1>3 DEF GoOn, Rest
  <2> QED BY <2>3, <2>4 DEF WriteTty
<1>4. CASE Head(text[p]) = ExitWith(0)
  <2>1. Call(p).op = "exit" /\ 256 * Call(p).code = 0
    BY <1>4 DEF Call, ExitWith
  <2>2. SysExit(p)
    BY <2>1, ByCall
  <2> QED BY <2>1, <2>2 DEF SysExit
<1> QED BY <1>2, <1>3, <1>4, CommandTexts

\* A process that is to run command c becomes it, or goes on if there is none.
LEMMA ExecStep ==
    ASSUME NEW p \in Pids, Call(p) = Exec(1), argv[p][1] \in Words \ {NoWord}, Process(p) \/ Shell(p)
    PROVE  /\ UNCHANGED <<family, lives, fds>>
           /\ argv[p][1] = "nosuch" => text' = [text EXCEPT ![p] = Unrolled(Tail(text[p]))]
           /\ argv[p][1] # "nosuch" => \E t \in Running(1) : text' = [text EXCEPT ![p] = t]
<1>1. Call(p).op = "exec" /\ Call(p).n = 1
  BY DEF Exec
<1>2. SysExec(p)
  BY <1>1, ByCall
<1>3. CASE argv[p][1] = "nosuch"
  BY <1>1, <1>2, <1>3 DEF SysExec, GoOn, Rest
<1>4. CASE argv[p][1] # "nosuch"
  <2>1. text' = [text EXCEPT ![p] = Unrolled(Command(argv[p][1], 1))]
    BY <1>1, <1>2, <1>4 DEF SysExec, GoOn
  <2> QED BY <1>2, <1>4, <2>1, CommandTexts DEF SysExec
<1> QED BY <1>2, <1>3, <1>4 DEF SysExec

-----------------------------------------------------------------------------
(* The inductive invariant                                                  *)

Psh1 == start.program = "psh1"
Psh2 == start.program = "psh2"

\* The processes are 1, the shell, to Used.
Used == 1 + start.forks - forks

StartInv ==
    /\ Psh1 \/ Psh2
    /\ start.typing \in Seq(Words) /\ start.lines = Len(start.typing)
    /\ start.forks \in 0..MaxProcs - 1

Given == Words \ {NoWord}

TypeInv ==
    /\ DOMAIN text = Pids /\ DOMAIN fds = Pids /\ DOMAIN argv = Pids /\ DOMAIN code = Pids
    /\ DOMAIN parent = Pids /\ DOMAIN kid = Pids
    /\ status \in [Pids -> {"free", "running", "zombie", "gone"}]
    /\ forks \in 0..start.forks /\ typed \in 0..start.lines
    /\ argv[1] \in Seq(Given)
    /\ log \in [taken : Seq(Words), reported : Seq([argv : Seq(Given), status : {0, 256}])]

\* A process is the shell or a child of it.
FamilyInv ==
    /\ \A q \in Pids : status[q] = "free" <=> q > Used
    /\ parent[1] = 0 /\ \A q \in 2..Used : parent[q] = 1
    /\ status[1] # "zombie"
    /\ status[1] = "running" => fds[1] = OnTerminal

\* There is no other process, but for those that nobody knows of any more.
Alone == \A q \in 2..Used : status[q] = "gone"

ChildInv(q) ==
    /\ q \in 2..Used /\ argv[q] = argv[1]
    /\ \A r \in 2..Used \ {q} : status[r] = "gone"
    /\ \/ /\ status[q] = "running" /\ fds[q] = OnTerminal
          /\ \/ text[q] = Doomed
             \/ argv[1][1] = "nosuch" /\ text[q] = Failed
             \/ argv[1][1] # "nosuch" /\ text[q] \in Running(1)
       \/ status[q] = "zombie" /\ code[q] = StatusOf(argv[1][1])

\* The words from line b on.
Since(lines, b) == SubSeq(lines, b, Len(lines))

\* At the prompt: the arguments are the words since the last empty line, and every
\* command is reported.
PromptInv ==
    /\ \E b \in Nat : Open(taken, b) /\ argv[1] = Since(taken, b)
    /\ Len(argv[1]) < MaxArgs
    /\ Len(reported) = Cardinality(Commands(taken))

\* While a command runs: it is the last one, and the one that is not reported.
CommandInv ==
    /\ \E c \in Commands(taken) : c.to + 1 = Len(taken) /\ argv[1] = WordsOf(taken, c)
    /\ argv[1] # <<>>
    /\ Len(reported) + 1 = Cardinality(Commands(taken))

ReportedInv ==
    /\ Len(reported) <= Cardinality(Commands(taken))
    /\ Len(reported) >= Cardinality(Commands(taken)) - 1
    /\ \A c \in Commands(taken) :
         /\ Len(WordsOf(taken, c)) < MaxArgs
         /\ Number(taken, c) <= Len(reported) =>
              reported[Number(taken, c)] =
                  [argv |-> WordsOf(taken, c), status |-> StatusOf(WordsOf(taken, c)[1])]

Psh2Inv ==
    /\ status[1] # "running" => Alone
    /\ status[1] = "running" =>
         /\ text[1] \in {<<psh2>>, Forking, Waiting, Telling, Failed, Leaving}
         /\ Call(1).op # "waitfor" => Alone
         /\ Call(1).op = "waitfor" => ChildInv(kid[1])
         /\ Call(1).op = "report" => code[kid[1]] = StatusOf(argv[1][1])
         /\ Call(1).op = "arg" => PromptInv
         /\ Call(1).op \in {"fork", "waitfor", "report"} => CommandInv

\* psh1 becomes the command itself.
Psh1Inv ==
    /\ forks = start.forks /\ reported = <<>>
    /\ status[1] = "running" =>
         /\ text[1] \in {<<psh1>>, Doomed1, Failed1} \cup Running(1)
         /\ Call(1).op = "exec" => argv[1] # <<>>

IInv ==
    /\ StartInv /\ TypeInv /\ FamilyInv
    /\ Psh2 => Psh2Inv /\ ReportedInv
    /\ Psh1 => Psh1Inv

-----------------------------------------------------------------------------
(* What the steps need of the words and of the texts                        *)

\* The words since the last empty line, and one line more.
LEMMA LastWords ==
    ASSUME NEW l \in Seq(Words), NEW w \in Words, NEW b, Open(l, b)
    PROVE  /\ Since(l, b) \in Seq(Given)
           /\ Since(l, b) = <<>> <=> b = Len(l) + 1
           /\ w # NoWord => /\ Append(Since(l, b), w) = Since(Append(l, w), b)
                            /\ Len(Append(Since(l, b), w)) = Len(Since(l, b)) + 1
           /\ w = NoWord => Since(Append(l, w), Len(l) + 2) = <<>>
<1> DEFINE n == Len(l)  m == Append(l, w)  s == SubSeq(l, b, n)
<1>1. n \in Nat /\ b \in 1..n + 1 /\ \A i \in b..n : l[i] # NoWord
  BY LenProperties DEF Open
<1>2. m \in Seq(Words) /\ Len(m) = n + 1 /\ m[n + 1] = w /\ \A i \in 1..n : m[i] = l[i]
  BY AppendProperties
<1>3. \A i \in 1..n : l[i] \in Words
  BY ElementOfSeq
<1> HIDE DEF n, m
<1>4. \A i \in b..n : l[i] \in Given
  BY <1>1, <1>3 DEF Given
<1>5. /\ s \in Seq(Given) /\ (Len(s) = IF b <= n THEN n - b + 1 ELSE 0)
      /\ (\A i \in 1..n - b + 1 : s[i] = l[b + i - 1])
  BY <1>1, <1>4, SubSeqProperties
<1>6. s = <<>> <=> b = n + 1
  <2> HIDE DEF s
  <2>1. Len(<<>>) = 0 /\ (s # <<>> => Len(s) \in Nat \ {0})
    BY <1>5, EmptySeq
  <2>2. s = <<>> => b = n + 1
    BY <1>1, <1>5, <2>1
  <2>3. s # <<>> => b # n + 1
    BY <1>1, <1>5, <2>1
  <2> QED BY <2>2, <2>3
<1>7. ASSUME w # NoWord
      PROVE  Append(s, w) = SubSeq(m, b, n + 1) /\ Append(s, w) \in Seq(Given) /\ Len(Append(s, w)) = Len(s) + 1
  <2> DEFINE t == Append(s, w)  u == SubSeq(m, b, n + 1)
  <2>1. w \in Given
    BY <1>7 DEF Given
  <2> HIDE DEF s
  <2>2. t \in Seq(Given) /\ Len(t) = Len(s) + 1 /\ (\A i \in 1..Len(s) : t[i] = s[i]) /\ t[Len(s) + 1] = w
    BY <1>5, <2>1, AppendProperties
  <2>3. \A i \in b..n + 1 : m[i] \in Given
    BY <1>1, <1>2, <1>4, <2>1
  <2>4. u \in Seq(Given) /\ (Len(u) = IF b <= n + 1 THEN n + 1 - b + 1 ELSE 0)
        /\ (\A i \in 1..n + 1 - b + 1 : u[i] = m[b + i - 1])
    BY <1>1, <2>3, SubSeqProperties
  <2> HIDE DEF t, u
  <2>5. Len(s) = n - b + 1 /\ Len(t) = n - b + 2 /\ Len(u) = n - b + 2
    BY <1>1, <1>5, <2>2, <2>4
  <2>6. \A i \in 1..Len(t) : t[i] = u[i]
    <3> SUFFICES ASSUME NEW i \in 1..n - b + 2 PROVE t[i] = u[i]
      BY <2>5
    <3>1. CASE i = n - b + 2
      BY <1>1, <1>2, <2>2, <2>4, <2>5, <3>1
    <3>2. CASE i # n - b + 2
      <4>1. i \in 1..n - b + 1 /\ b + i - 1 \in 1..n
        BY <1>1, <3>2
      <4>2. t[i] = s[i] /\ s[i] = l[b + i - 1]
        BY <1>5, <2>2, <2>5, <4>1
      <4>3. u[i] = m[b + i - 1] /\ m[b + i - 1] = l[b + i - 1]
        BY <1>1, <1>2, <2>4, <4>1
      <4> QED BY <4>2, <4>3
    <3> QED BY <3>1, <3>2
  <2>7. t = u
    BY <2>2, <2>4, <2>5, <2>6, SeqEqual
  <2> QED BY <2>2, <2>7 DEF t, u
<1>8. SubSeq(m, n + 2, n + 1) = <<>>
  BY <1>1, SubSeqEmpty
<1>9. Len(m) = n + 1
  BY <1>2
<1> QED BY <1>5, <1>6, <1>7, <1>8, <1>9 DEF n, m, Since

\* The command that an empty line completes: its words are those since the last one,
\* it has the highest number, and the others keep theirs.
LEMMA NewCommand ==
    ASSUME NEW l \in Seq(Words), NEW b, Open(l, b), b <= Len(l)
    PROVE  LET m == Append(l, NoWord)  c == [from |-> b, to |-> Len(l)] IN
           /\ Commands(m) = Commands(l) \cup {c} /\ c.to + 1 = Len(m)
           /\ Cardinality(Commands(m)) = Cardinality(Commands(l)) + 1
           /\ WordsOf(m, c) = Since(l, b)
           /\ Number(m, c) = Cardinality(Commands(l)) + 1
<1> DEFINE n == Len(l)  m == Append(l, NoWord)  c == [from |-> b, to |-> n]
<1>1. n \in Nat /\ b \in 1..n /\ (\A i \in b..n : l[i] # NoWord)
  BY LenProperties DEF Open
<1>2. NoWord \in Words
  BY DEF Words
<1>3. m \in Seq(Words) /\ Len(m) = n + 1 /\ \A i \in 1..n : m[i] = l[i]
  BY <1>2, AppendProperties
<1>4. Commands(m) = Commands(l) \cup {c}
  BY <1>2, OneMoreLine
<1>5. c.to = n /\ c.from = b /\ c.to + 1 = Len(m)
  BY <1>3
<1>6. c \notin Commands(l)
  <2>1. ASSUME NEW d \in Commands(l) PROVE d # c
    <3>1. d.to \in 1..n - 1
      BY CommandPlaces
    <3> QED BY <1>1, <1>5, <3>1
  <2> QED BY <2>1
<1>7. \A i \in 1..n : l[i] \in Words
  BY ElementOfSeq
<1> HIDE DEF n, m, c
<1>8. IsFiniteSet(Commands(l))
  BY CommandsFinite
<1>9. Cardinality(Commands(m)) = Cardinality(Commands(l)) + 1
  BY <1>4, <1>6, <1>8, FS_AddElement
<1>10. Number(m, c) = Cardinality(Commands(m))
  BY <1>3, <1>4, <1>5, LastNumber
<1>11. SubSeq(m, b, n) = SubSeq(l, b, n)
  <2> DEFINE s == SubSeq(l, b, n)  t == SubSeq(m, b, n)
  <2>1. (\A i \in b..n : l[i] \in Words) /\ (\A i \in b..n : m[i] \in Words) /\ (\A i \in b..n : m[i] = l[i])
    BY <1>1, <1>3, <1>7
  <2>2. /\ s \in Seq(Words) /\ (Len(s) = IF b <= n THEN n - b + 1 ELSE 0)
        /\ (\A i \in 1..n - b + 1 : s[i] = l[b + i - 1])
    BY <1>1, <2>1, SubSeqProperties
  <2>3. /\ t \in Seq(Words) /\ (Len(t) = IF b <= n THEN n - b + 1 ELSE 0)
        /\ (\A i \in 1..n - b + 1 : t[i] = m[b + i - 1])
    BY <1>1, <2>1, SubSeqProperties
  <2> HIDE DEF s, t
  <2>4. Len(s) = n - b + 1 /\ Len(t) = n - b + 1
    BY <1>1, <2>2, <2>3
  <2>5. \A i \in 1..Len(t) : t[i] = s[i]
    <3> SUFFICES ASSUME NEW i \in 1..n - b + 1 PROVE t[i] = s[i]
      BY <2>4
    <3>1. b + i - 1 \in b..n
      BY <1>1
    <3> QED BY <2>1, <2>2, <2>3, <3>1
  <2>6. t = s
    BY <2>2, <2>3, <2>4, <2>5, SeqEqual
  <2> QED BY <2>6 DEF s, t
<1>12. WordsOf(m, c) = SubSeq(l, b, n)
  BY <1>5, <1>11 DEF WordsOf
<1> QED BY <1>4, <1>5, <1>9, <1>10, <1>12 DEF n, m, c, Since

\* The calls of a shell.
LEMMA ShellCalls ==
    /\ Head(<<psh1>>).op = "arg" /\ Head(<<psh2>>).op = "arg"
    /\ Head(Forking).op = "fork" /\ Head(Waiting).op = "waitfor" /\ Head(Telling).op = "report"
    /\ Head(Doomed).op = "exec" /\ Head(Doomed1).op = "exec"
    /\ Head(Failed).op = "exit" /\ Head(Failed1).op = "exit" /\ Head(Leaving).op = "exit"
    /\ Head(Failed).code = 1 /\ Head(Failed1).code = 1 /\ Head(Leaving).code = 0
    /\ Head(Forking).child = Doomed /\ Head(Forking).fail = Failed
    /\ \A t \in Running(1) : Head(t).op \in {"read", "write", "exit"}
BY ShellTexts, CommandTexts DEF Exec, ExitWith, Fork, ReadOrExit, Write

-----------------------------------------------------------------------------
(* The steps                                                                *)

\* The shells are all that is started, with any lines, and for psh2 any number of
\* forks that succeed before the limit is reached.
ShellsOnly == Starts \subseteq ShellStarts(Seq(Words), 0..MaxProcs - 1)

LEMMA NoCommands == Commands(<<>>) = {} /\ Open(<<>>, 1) /\ Since(<<>>, 1) = <<>>
<1>1. Len(<<>>) = 0 /\ 1..0 = {}
  OBVIOUS
<1>2. Commands(<<>>) = {}
  BY <1>1 DEF Commands
<1>3. Open(<<>>, 1)
  BY <1>1 DEF Open
<1>4. Since(<<>>, 1) = <<>>
  BY <1>1, SubSeqEmpty DEF Since
<1> QED BY <1>2, <1>3, <1>4

LEMMA StartOfShell ==
    ASSUME NEW Lines, NEW Forks, NEW s \in ShellStarts(Lines, Forks)
    PROVE  \/ \E t \in Lines : s = Started("psh1", <<psh1>>, <<>>, t, 0)
           \/ \E t \in Lines, f \in Forks : s = Started("psh2", <<psh2>>, <<>>, t, f)
BY DEF ShellStarts

LEMMA InvInit == ASSUME ShellsOnly PROVE Init => IInv
<1> SUFFICES ASSUME Init PROVE IInv
  OBVIOUS
<1> USE KernelAssumption DEF Pids
<1>1. PICK s \in Starts : start = [s EXCEPT !.text = Empty]
                          /\ text = [p \in Pids |-> IF p = 1 THEN s.text ELSE Empty]
  BY DEF Init
<1>2. PICK t \in Seq(Words), f \in 0..MaxProcs - 1 :
          s = Started("psh1", <<psh1>>, <<>>, t, 0) \/ s = Started("psh2", <<psh2>>, <<>>, t, f)
  <2>1. \/ \E t \in Seq(Words) : s = Started("psh1", <<psh1>>, <<>>, t, 0)
        \/ \E t \in Seq(Words), f \in 0..MaxProcs - 1 : s = Started("psh2", <<psh2>>, <<>>, t, f)
    BY StartOfShell DEF ShellsOnly
  <2>2. 0 \in 0..MaxProcs - 1
    OBVIOUS
  <2> HIDE DEF Pids
  <2> QED BY <2>1, <2>2, Zenon
<1>3. /\ start.typing = t /\ start.lines = Len(t) /\ start.argv = <<>>
      /\ \/ start.program = "psh1" /\ start.forks = 0 /\ text[1] = <<psh1>>
         \/ start.program = "psh2" /\ start.forks = f /\ text[1] = <<psh2>>
  BY <1>1, <1>2 DEF Started
<1>4. Len(t) \in Nat
  BY LenProperties
<1>5. /\ status = [p \in Pids |-> IF p = 1 THEN "running" ELSE "free"]
      /\ parent = [p \in Pids |-> 0] /\ kid = parent /\ code = parent
      /\ argv = [p \in Pids |-> IF p = 1 THEN <<>> ELSE Empty]
      /\ fds = [p \in Pids |-> IF p = 1 THEN OnTerminal ELSE Empty]
      /\ typed = 0 /\ forks = start.forks /\ taken = <<>> /\ reported = <<>>
      /\ log = [taken |-> <<>>, reported |-> <<>>]
  BY <1>3 DEF Init, OnTerminal, taken, reported
<1>6. Used = 1 /\ 2..1 = {}
  BY <1>3, <1>5 DEF Used
<1>7. StartInv
  BY <1>2, <1>3 DEF StartInv, Psh1, Psh2
<1>8. TypeInv
  <2>1. /\ DOMAIN text = Pids /\ DOMAIN fds = Pids /\ DOMAIN argv = Pids /\ DOMAIN code = Pids
        /\ DOMAIN parent = Pids /\ DOMAIN kid = Pids
        /\ status \in [Pids -> {"free", "running", "zombie", "gone"}]
    BY <1>1, <1>5
  <2>2. forks \in 0..start.forks /\ typed \in 0..start.lines
    BY <1>2, <1>3, <1>4, <1>5
  <2>3. /\ argv[1] \in Seq(Given)
        /\ log \in [taken : Seq(Words), reported : Seq([argv : Seq(Given), status : {0, 256}])]
    BY <1>5, EmptySeq
  <2> QED BY <2>1, <2>2, <2>3 DEF TypeInv
<1>9. FamilyInv
  BY <1>5, <1>6 DEF FamilyInv
<1>10. Psh2 => Psh2Inv
  <2>1. PromptInv
    <3>1. Len(taken) = 0 /\ Len(reported) = 0 /\ argv[1] = <<>>
      BY <1>5
    <3>2. Cardinality(Commands(taken)) = 0
      BY <1>5, NoCommands, FS_EmptySet
    <3>3. Open(taken, 1) /\ argv[1] = Since(taken, 1)
      BY <1>5, <3>1, NoCommands
    <3> QED BY <3>1, <3>2, <3>3, MaxArgsAssumption DEF PromptInv
  <2>2. Alone
    BY <1>6 DEF Alone
  <2>3. Psh2 => text[1] = <<psh2>>
    BY <1>3 DEF Psh2
  <2>4. Psh2 => Call(1).op = "arg"
    BY <2>3, ShellCalls DEF Call
  <2> QED BY <2>1, <2>2, <2>3, <2>4 DEF Psh2Inv
<1>11. ReportedInv
  <2>1. Commands(taken) = {} /\ Cardinality(Commands(taken)) = 0 /\ Len(reported) = 0
    BY <1>5, NoCommands, FS_EmptySet
  <2> QED BY <2>1 DEF ReportedInv
<1>12. Psh1 => Psh1Inv
  <2>1. Psh1 => text[1] = <<psh1>>
    BY <1>3 DEF Psh1
  <2>2. Psh1 => Call(1).op = "arg"
    BY <2>1, ShellCalls DEF Call
  <2> QED BY <1>5, <2>1, <2>2 DEF Psh1Inv
<1> QED BY <1>7, <1>8, <1>9, <1>10, <1>11, <1>12 DEF IInv

\* Only the shell runs, and the child that it waits for.
LEMMA WhoRuns ==
    ASSUME IInv, NEW p \in Pids, status[p] = "running"
    PROVE  p = 1 \/ (Psh2 /\ status[1] = "running" /\ Call(1).op = "waitfor" /\ p = kid[1] /\ p # 1)
<1>1. p \in 1..Used
  <2>1. ~(p > Used)
    BY DEF IInv, FamilyInv
  <2>2. Used \in Int
    BY KernelAssumption DEF IInv, TypeInv, StartInv, Used
  <2> QED BY <2>1, <2>2 DEF Pids
<1>2. Psh1 => Used = 1
  BY DEF IInv, Psh1Inv, TypeInv, StartInv, Used
<1>3. ASSUME p # 1 PROVE Psh2 /\ status[1] = "running" /\ Call(1).op = "waitfor" /\ p = kid[1]
  <2>1. p \in 2..Used
    BY <1>1, <1>3 DEF Pids
  <2>2. Psh2 /\ Psh2Inv
    BY <1>2, <1>1, <1>3 DEF IInv, StartInv
  <2>3. ~Alone
    BY <2>1 DEF Alone
  <2>4. status[1] = "running" /\ Call(1).op = "waitfor"
    BY <2>2, <2>3 DEF Psh2Inv
  <2>5. ChildInv(kid[1])
    BY <2>2, <2>4 DEF Psh2Inv
  <2>6. p = kid[1]
    BY <2>1, <2>5 DEF ChildInv
  <2> QED BY <2>2, <2>4, <2>6
<1> QED BY <1>3

LEMMA Stutter == IInv /\ UNCHANGED vars => IInv'
<1> SUFFICES ASSUME IInv, UNCHANGED vars PROVE IInv'
  OBVIOUS
<1>1. StartInv' /\ TypeInv' /\ FamilyInv' /\ (Psh1' <=> Psh1) /\ (Psh2' <=> Psh2)
  BY DEF IInv, StartInv, TypeInv, FamilyInv, Psh1, Psh2, Used, vars, family, lives, data
<1>2. ReportedInv <=> ReportedInv'
  BY DEF ReportedInv, taken, reported, vars, family
<1>3. Psh1Inv <=> Psh1Inv'
  BY DEF Psh1Inv, reported, Call, vars, family, lives
<1>4. (PromptInv <=> PromptInv') /\ (CommandInv <=> CommandInv') /\ (Alone <=> Alone')
  BY DEF PromptInv, CommandInv, Alone, Used, taken, reported, vars, family, lives
<1>5. \A q : ChildInv(q) <=> ChildInv(q)'
  BY DEF ChildInv, Used, vars, family, lives
<1>6. ChildInv(kid[1]) <=> ChildInv(kid[1])'
  BY <1>5 DEF vars, family
<1>7. Psh2Inv <=> Psh2Inv'
  BY <1>4, <1>6 DEF Psh2Inv, Call, vars, family, lives
<1> QED BY <1>1, <1>2, <1>3, <1>7 DEF IInv

\* A line is read, by either shell.
LEMMA TakeStep == IInv /\ (ReadArg(1) \/ ArgAtEof(1)) => IInv'
<1> SUFFICES ASSUME IInv, ReadArg(1) \/ ArgAtEof(1) PROVE IInv'
  OBVIOUS
<1> USE KernelAssumption, MaxArgsAssumption DEF Pids
<1> DEFINE l == taken
<1>1. /\ status[1] = "running" /\ Call(1).op = "arg"
      /\ UNCHANGED <<start, parent, kid, forks, lives, fds>>
  BY DEF ReadArg, ArgAtEof, At, Call
<1>2. PICK w \in Words : Take(1, w) /\ typed' \in 0..start.lines
  <2>1. CASE ReadArg(1)
    <3>1. typed + 1 \in 1..Len(start.typing) /\ start.typing \in Seq(Words)
      BY <2>1 DEF ReadArg, IInv, StartInv, TypeInv
    <3>2. start.typing[typed + 1] \in Words
      BY <3>1, ElementOfSeq
    <3> QED BY <2>1, <3>1, <3>2 DEF ReadArg, IInv, StartInv, TypeInv
  <2>2. CASE ArgAtEof(1)
    <3>1. NoWord \in Words
      BY DEF Words
    <3> QED BY <2>2, <3>1 DEF ArgAtEof, data, IInv, TypeInv
  <2> QED BY <2>1, <2>2
<1>3. /\ l \in Seq(Words) /\ taken' = Append(l, w) /\ taken' \in Seq(Words)
      /\ reported \in Seq([argv : Seq(Given), status : {0, 256}]) /\ reported' = reported
      /\ Len(l) \in Nat /\ Len(taken') = Len(l) + 1
  <2>1. log \in [taken : Seq(Words), reported : Seq([argv : Seq(Given), status : {0, 256}])]
    BY DEF IInv, TypeInv
  <2>2. log' = [log EXCEPT !.taken = Append(@, w)]
    BY <1>2 DEF Take
  <2>3. l \in Seq(Words)
    BY <2>1 DEF taken
  <2>4. taken' = Append(l, w) /\ reported' = reported
    BY <2>1, <2>2 DEF taken, reported
  <2>5. reported \in Seq([argv : Seq(Given), status : {0, 256}])
    BY <2>1 DEF reported
  <2> HIDE DEF l
  <2> QED BY <2>3, <2>4, <2>5, AppendProperties, LenProperties
<1>4. argv[1] \in Seq(Given) /\ 1 \in DOMAIN argv /\ DOMAIN argv = Pids /\ 1 \in DOMAIN text
  BY DEF IInv, TypeInv
<1>5. \/ /\ w # NoWord /\ argv' = [argv EXCEPT ![1] = Append(argv[1], w)]
         /\ \/ Len(argv[1]) + 1 = MaxArgs /\ text' = [text EXCEPT ![1] = Leaving]
            \/ Len(argv[1]) + 1 # MaxArgs /\ text' = text
      \/ /\ w = NoWord /\ argv[1] # <<>> /\ argv' = argv
         /\ text' = [text EXCEPT ![1] = Unrolled(Call(1).execute \o text[1])]
      \/ w = NoWord /\ argv[1] = <<>> /\ argv' = argv /\ text' = text
  BY <1>2, ShellTexts DEF Take, GoOn, Leaving
<1> HIDE DEF l
<1>6. StartInv' /\ (Psh1' <=> Psh1) /\ (Psh2' <=> Psh2) /\ Used' = Used /\ (Alone' <=> Alone)
  BY <1>1 DEF IInv, StartInv, Psh1, Psh2, Used, Alone, lives
<1>7. TypeInv'
  <2>1. DOMAIN text' = Pids /\ DOMAIN argv' = Pids
    BY <1>5 DEF IInv, TypeInv
  <2>2. argv[1]' \in Seq(Given)
    <3>1. w # NoWord => w \in Given
      BY DEF Given
    <3>2. w # NoWord => Append(argv[1], w) \in Seq(Given)
      BY <1>4, <3>1, AppendProperties
    <3> QED BY <1>4, <1>5, <3>2
  <2>3. log' \in [taken : Seq(Words), reported : Seq([argv : Seq(Given), status : {0, 256}])]
    <3>1. log' = [taken |-> taken', reported |-> reported']
      BY <1>2 DEF Take, taken, reported, IInv, TypeInv
    <3> QED BY <1>3, <3>1
  <2>4. /\ DOMAIN fds' = Pids /\ DOMAIN code' = Pids /\ DOMAIN parent' = Pids /\ DOMAIN kid' = Pids
        /\ status' \in [Pids -> {"free", "running", "zombie", "gone"}]
        /\ forks' \in 0..start'.forks /\ typed' \in 0..start'.lines
    BY <1>1, <1>2 DEF IInv, TypeInv, lives
  <2> QED BY <2>1, <2>2, <2>3, <2>4 DEF TypeInv
<1>8. FamilyInv'
  BY <1>1, <1>6 DEF IInv, FamilyInv, lives
<1>9. ASSUME Psh1 PROVE Psh1Inv'
  <2>1. Psh1Inv
    BY <1>9 DEF IInv
  <2>2. text[1] = <<psh1>>
    <3>1. text[1] \in {<<psh1>>, Doomed1, Failed1} \cup Running(1)
      BY <1>1, <2>1 DEF Psh1Inv
    <3> QED BY <1>1, <3>1, ShellCalls DEF Call
  <2>3. Unrolled(Call(1).execute \o text[1]) = Doomed1
    BY <2>2, ShellTexts DEF Call
  <2>4. \/ text[1]' \in {<<psh1>>, Leaving}
        \/ text[1]' = Doomed1 /\ argv[1]' # <<>>
    BY <1>4, <1>5, <2>2, <2>3
  <2>5. text[1]' \in {<<psh1>>, Doomed1, Failed1} \cup Running(1) /\ (Call(1)'.op = "exec" => argv[1]' # <<>>)
    BY <2>4, ShellCalls DEF Call, Running
  <2> QED BY <1>1, <1>3, <2>1, <2>5 DEF Psh1Inv
<1>10. ASSUME Psh2 PROVE Psh2Inv' /\ ReportedInv'
  <2>1. Psh2Inv /\ ReportedInv
    BY <1>10 DEF IInv
  <2>2. text[1] = <<psh2>> /\ Alone /\ PromptInv
    BY <1>1, <2>1, ShellCalls DEF Psh2Inv, Call
  <2>3. Unrolled(Call(1).execute \o text[1]) = Forking
    BY <2>2, ShellTexts DEF Call
  <2>4. PICK b \in Nat : Open(l, b) /\ argv[1] = Since(l, b)
    BY <2>2 DEF PromptInv, l
  <2>5. Len(argv[1]) < MaxArgs /\ Len(reported) = Cardinality(Commands(l)) /\ Len(reported) \in Nat
    BY <1>3, <2>2, LenProperties DEF PromptInv, l
  <2>6. \A c \in Commands(l) : /\ WordsOf(taken', c) = WordsOf(l, c) /\ Number(taken', c) = Number(l, c)
                               /\ Number(l, c) \in 1..Len(reported)
    BY <1>3, <2>4, <2>5, SameCommand, NumberType
  <2>7. \A c \in Commands(l) :
           /\ Len(WordsOf(l, c)) < MaxArgs
           /\ reported[Number(l, c)] = [argv |-> WordsOf(l, c), status |-> StatusOf(WordsOf(l, c)[1])]
    BY <2>1, <2>6 DEF ReportedInv, l
  <2>8. /\ argv[1] = <<>> <=> b = Len(l) + 1
        /\ w # NoWord => /\ Append(argv[1], w) = Since(taken', b)
                         /\ Len(Append(argv[1], w)) = Len(argv[1]) + 1 /\ Open(taken', b)
        /\ w = NoWord => Since(taken', Len(l) + 2) = <<>> /\ Open(taken', Len(l) + 2)
    <3>1. l \in Seq(Words) /\ Open(l, b) /\ taken' = Append(l, w) /\ argv[1] = Since(l, b)
      BY <1>3, <2>4
    <3>2. /\ argv[1] = <<>> <=> b = Len(l) + 1
          /\ w # NoWord => /\ Append(argv[1], w) = Since(taken', b)
                           /\ Len(Append(argv[1], w)) = Len(argv[1]) + 1
          /\ w = NoWord => Since(taken', Len(l) + 2) = <<>>
      BY <3>1, LastWords
    <3>3. /\ w # NoWord => Open(Append(l, w), b)
          /\ w = NoWord => Open(Append(l, w), Len(l) + 2)
      BY ONLY <3>1, OneMoreLine
    <3> QED BY <3>1, <3>2, <3>3
  <2>9. (w # NoWord \/ argv[1] = <<>>) => Commands(taken') = Commands(l)
    <3>1. argv[1] = <<>> => b = Len(l) + 1
      BY <2>8
    <3>2. w # NoWord => Commands(taken') = Commands(l)
      BY <1>3, <2>4, OneMoreLine
    <3>3. w = NoWord =>
             Commands(taken') = Commands(l) \cup (IF b <= Len(l) THEN {[from |-> b, to |-> Len(l)]} ELSE {})
      BY <1>3, <2>4, OneMoreLine
    <3>4. argv[1] = <<>> => ~(b <= Len(l))
      BY <1>3, <3>1
    <3> QED BY <3>2, <3>3, <3>4
  <2>10. (w # NoWord \/ argv[1] = <<>>) => ReportedInv'
    BY <1>3, <2>5, <2>6, <2>7, <2>9 DEF ReportedInv
  <2>11. CASE w # NoWord
    <3>1. argv[1]' = Append(argv[1], w)
      BY <1>4, <1>5, <2>11
    <3>2. Open(taken', b) /\ argv[1]' = Since(taken', b) /\ Len(argv[1]') = Len(argv[1]) + 1
      BY <2>8, <2>11, <3>1
    <3>3. Len(argv[1]) \in Nat
      BY <1>4, LenProperties
    <3>4. CASE Len(argv[1]) + 1 = MaxArgs
      <4>1. text[1]' = Leaving
        BY <1>4, <1>5, <2>11, <3>4
      <4> QED BY <1>6, <2>2, <2>10, <2>11, <4>1, ShellCalls DEF Psh2Inv, Call
    <3>5. CASE Len(argv[1]) + 1 # MaxArgs
      <4>1. text[1]' = <<psh2>>
        BY <1>5, <2>2, <2>11, <3>5
      <4>2. Len(argv[1]') < MaxArgs
        BY <2>5, <3>2, <3>3, <3>5
      <4>3. PromptInv'
        BY <1>3, <2>5, <2>9, <2>11, <3>2, <4>2 DEF PromptInv
      <4> QED BY <1>1, <1>6, <2>2, <2>10, <2>11, <4>1, <4>3, ShellCalls DEF Psh2Inv, Call
    <3> QED BY <3>4, <3>5
  <2>12. CASE w = NoWord /\ argv[1] # <<>>
    <3> DEFINE c == [from |-> b, to |-> Len(l)]
    <3>1. b <= Len(l)
      <4>1. b # Len(l) + 1
        BY <2>8, <2>12
      <4> QED BY <1>3, <2>4, <4>1 DEF Open
    <3>2. /\ Commands(taken') = Commands(l) \cup {c} /\ c.to + 1 = Len(taken')
          /\ Cardinality(Commands(taken')) = Len(reported) + 1
          /\ WordsOf(taken', c) = argv[1] /\ Number(taken', c) = Len(reported) + 1
      BY <1>3, <2>4, <2>5, <2>12, <3>1, NewCommand
    <3> HIDE DEF c
    <3>3. argv' = argv /\ text[1]' = Forking
      BY <1>4, <1>5, <2>3, <2>12
    <3>4. CommandInv'
      BY <1>3, <2>5, <2>12, <3>2, <3>3 DEF CommandInv
    <3>5. \A d \in Commands(l) \cup {c} :
             /\ Len(WordsOf(taken', d)) < MaxArgs
             /\ Number(taken', d) <= Len(reported) =>
                  reported[Number(taken', d)] =
                      [argv |-> WordsOf(taken', d), status |-> StatusOf(WordsOf(taken', d)[1])]
      <4>1. ~(Number(taken', c) <= Len(reported)) /\ Len(WordsOf(taken', c)) < MaxArgs
        BY <2>5, <3>2
      <4> QED BY <2>6, <2>7, <4>1
    <3>6. ReportedInv'
      BY <1>3, <2>5, <3>2, <3>5 DEF ReportedInv
    <3> QED BY <1>1, <1>6, <2>2, <3>3, <3>4, <3>6, ShellCalls DEF Psh2Inv, Call
  <2>13. CASE w = NoWord /\ argv[1] = <<>>
    <3>1. argv' = argv /\ text[1]' = <<psh2>>
      BY <1>5, <2>2, <2>13
    <3>2. Open(taken', Len(l) + 2) /\ argv[1]' = Since(taken', Len(l) + 2)
      BY <2>8, <2>13, <3>1, Zenon
    <3>4. Len(l) + 2 \in Nat
      BY <1>3
    <3>3. PromptInv'
      BY <1>3, <2>5, <2>9, <2>13, <3>1, <3>2, <3>4 DEF PromptInv
    <3> QED BY <1>1, <1>6, <2>2, <2>10, <2>13, <3>1, <3>3, ShellCalls DEF Psh2Inv, Call
  <2> QED BY <2>11, <2>12, <2>13
<1> QED BY <1>6, <1>7, <1>8, <1>9, <1>10 DEF IInv

\* What does not change with the lines read, the statuses printed and the arguments.
LEMMA SameHistory ==
    ASSUME UNCHANGED <<start, log>>
    PROVE  /\ (Psh1' <=> Psh1) /\ (Psh2' <=> Psh2) /\ (StartInv' <=> StartInv)
           /\ (ReportedInv' <=> ReportedInv)
           /\ argv[1]' = argv[1] => (PromptInv' <=> PromptInv) /\ (CommandInv' <=> CommandInv)
<1>1. (Psh1' <=> Psh1) /\ (Psh2' <=> Psh2) /\ (StartInv' <=> StartInv)
  BY DEF Psh1, Psh2, StartInv
<1>2. ReportedInv' <=> ReportedInv
  BY DEF ReportedInv, taken, reported
<1>3. argv[1]' = argv[1] => (PromptInv' <=> PromptInv) /\ (CommandInv' <=> CommandInv)
  BY DEF PromptInv, CommandInv, taken, reported
<1> QED BY <1>1, <1>2, <1>3

\* The shell forks.
LEMMA ForkStep == IInv /\ Psh2 /\ (SysFork(1) \/ ForkFails(1)) => IInv'
<1> SUFFICES ASSUME IInv, Psh2, SysFork(1) \/ ForkFails(1) PROVE IInv'
  OBVIOUS
<1> USE KernelAssumption DEF Pids
<1>1. status[1] = "running" /\ Call(1).op = "fork" /\ UNCHANGED <<start, log, code>>
  BY DEF SysFork, ForkFails, At, Call, family, lives
<1>2. Psh2Inv /\ TypeInv /\ FamilyInv /\ StartInv /\ ReportedInv
  BY DEF IInv
<1>3. Alone /\ CommandInv /\ text[1] = Forking
  BY <1>1, <1>2, ShellCalls DEF Psh2Inv, Call
<1>4. Psh2' /\ ~Psh1' /\ StartInv' /\ ReportedInv'
  BY <1>1, <1>2, SameHistory DEF Psh1, Psh2
<1>5. CASE ForkFails(1)
  <2>1. text' = [text EXCEPT ![1] = Failed] /\ UNCHANGED <<parent, kid, argv, forks, status, code, fds, typed>>
    BY <1>3, <1>5, ShellTexts, ShellCalls DEF ForkFails, GoOn, Call, family, lives, data
  <2>2. TypeInv' /\ FamilyInv' /\ Alone'
    BY <1>1, <1>2, <1>3, <2>1 DEF TypeInv, FamilyInv, Alone, Used
  <2>3. text[1]' = Failed
    BY <1>2, <2>1 DEF TypeInv
  <2>4. Psh2Inv'
    BY <1>1, <2>1, <2>2, <2>3, ShellCalls DEF Psh2Inv, Call
  <2> QED BY <1>4, <2>2, <2>4 DEF IInv
<1>6. CASE SysFork(1)
  <2> DEFINE free == {q \in Pids : status[q] = "free"}  c == Used + 1
  <2>1. /\ forks > 0 /\ forks \in 0..start.forks /\ start.forks \in 0..MaxProcs - 1
        /\ Used \in Nat /\ Used >= 1 /\ c \in Pids /\ c # 1 /\ c \in Int
    <3>1. forks > 0
      BY <1>6 DEF SysFork
    <3>2. forks \in 0..start.forks /\ start.forks \in 0..MaxProcs - 1
      BY <1>2 DEF TypeInv, StartInv
    <3> QED BY <3>1, <3>2 DEF Used
  <2>2. \A q \in Pids : q \in free <=> q >= c
    BY <1>2, <2>1 DEF FamilyInv
  <2> HIDE DEF free
  <2>3. Min(free) = c
    <3>1. c \in free /\ (\A q \in free : q \in Pids) /\ \A q \in free : c <= q
      BY <2>1, <2>2 DEF free
    <3>2. \A x \in free : (\A y \in free : x <= y) => x = c
      BY <2>1, <3>1
    <3> QED BY <3>1, <3>2 DEF Min
  <2>4. /\ status' = [status EXCEPT ![c] = "running"] /\ parent' = [parent EXCEPT ![c] = 1]
        /\ kid' = [kid EXCEPT ![1] = c] /\ fds' = [fds EXCEPT ![c] = fds[1]]
        /\ argv' = [argv EXCEPT ![c] = argv[1]]
        /\ text' = [text EXCEPT ![c] = Doomed, ![1] = Waiting]
        /\ forks' = forks - 1 /\ typed' = typed
    <3>1. Unrolled(Call(1).child) = Doomed /\ Unrolled(Rest(1)) = Waiting
      BY <1>3, ShellTexts, ShellCalls DEF Call, Rest
    <3> HIDE DEF c
    <3> QED BY <1>6, <2>3, <3>1 DEF SysFork, free, data
  <2>5. Used' = c
    BY <1>1, <2>1, <2>4 DEF Used
  <2> HIDE DEF c
  <2>6. /\ argv[1]' = argv[1] /\ argv'[c] = argv[1] /\ text[1]' = Waiting /\ text'[c] = Doomed
        /\ kid[1]' = c /\ fds'[c] = fds[1] /\ fds[1]' = fds[1] /\ status'[c] = "running" /\ status[1]' = "running"
    BY <1>1, <1>2, <2>1, <2>4 DEF TypeInv
  <2>7. TypeInv'
    BY <1>1, <1>2, <2>1, <2>4, <2>6 DEF TypeInv
  <2>8. FamilyInv'
    <3>1. \A q \in Pids : status'[q] = "free" <=> q > c
      BY <1>2, <2>1, <2>2, <2>4 DEF TypeInv, free
    <3>2. parent'[1] = 0 /\ \A q \in 2..c : parent'[q] = 1
      <4>1. \A q \in 2..c : q \in Pids /\ (q # c => q \in 2..Used)
        BY <2>1 DEF c
      <4> QED BY <1>2, <2>1, <2>4, <4>1 DEF TypeInv, FamilyInv
    <3> QED BY <1>1, <1>2, <2>5, <2>6, <3>1, <3>2 DEF FamilyInv
  <2>9. ChildInv(kid[1])'
    <3>1. \A r \in 2..c \ {c} : r \in 2..Used /\ r \in Pids /\ r # c
      BY <2>1 DEF c
    <3>2. \A r \in 2..c \ {c} : status'[r] = "gone"
      BY <1>2, <1>3, <2>4, <3>1 DEF Alone, TypeInv
    <3>3. c \in 2..c
      BY <2>1
    <3> QED BY <1>1, <1>2, <2>5, <2>6, <3>2, <3>3 DEF ChildInv, FamilyInv
  <2>10. CommandInv'
    BY <1>1, <1>3, <2>6, SameHistory
  <2>11. Psh2Inv'
    BY <2>6, <2>9, <2>10, ShellCalls DEF Psh2Inv, Call
  <2> QED BY <1>4, <2>7, <2>8, <2>11 DEF IInv
<1> QED BY <1>5, <1>6

\* The shell has waited for the command.
LEMMA WaitStep == IInv /\ Psh2 /\ WaitForChild(1) => IInv'
<1> SUFFICES ASSUME IInv, Psh2, WaitForChild(1) PROVE IInv'
  OBVIOUS
<1> USE KernelAssumption DEF Pids
<1>1. status[1] = "running" /\ Call(1).op = "waitfor" /\ UNCHANGED <<start, log>>
  BY DEF WaitForChild, At, Call, family
<1>2. Psh2Inv /\ TypeInv /\ FamilyInv /\ StartInv /\ ReportedInv
  BY DEF IInv
<1>3. ChildInv(kid[1]) /\ CommandInv /\ text[1] = Waiting
  BY <1>1, <1>2, ShellCalls DEF Psh2Inv, Call
<1>4. Psh2' /\ ~Psh1' /\ StartInv' /\ ReportedInv'
  BY <1>1, <1>2, SameHistory DEF Psh1, Psh2
<1>5. PICK q \in Pids : /\ parent[q] = 1 /\ status[q] = "zombie" /\ status' = [status EXCEPT ![q] = "gone"]
                        /\ IF q = kid[1] THEN GoOn(1, Rest(1)) ELSE UNCHANGED text
  BY DEF WaitForChild, Children
<1>6. Used \in Int
  BY <1>2 DEF TypeInv, StartInv, Used
<1>7. q = kid[1] /\ q # 1
  <2>1. q # 1 /\ ~(q > Used)
    BY <1>2, <1>5 DEF FamilyInv
  <2>2. q \in 2..Used
    BY <1>6, <2>1
  <2> QED BY <1>3, <1>5, <2>1, <2>2 DEF ChildInv
<1>8. text' = [text EXCEPT ![1] = Telling] /\ UNCHANGED <<parent, kid, argv, forks, code, fds, typed>>
  BY <1>3, <1>5, <1>7, ShellTexts DEF WaitForChild, GoOn, Rest, family, data
<1>9. /\ text[1]' = Telling /\ status[1]' = "running" /\ argv[1]' = argv[1] /\ Used' = Used
  BY <1>1, <1>2, <1>5, <1>7, <1>8 DEF TypeInv, Used
<1>10. TypeInv'
  BY <1>1, <1>2, <1>5, <1>8 DEF TypeInv
<1>11. FamilyInv'
  <2>1. \A p \in Pids : status'[p] = "free" <=> status[p] = "free"
    BY <1>2, <1>5 DEF TypeInv
  <2> QED BY <1>1, <1>2, <1>8, <1>9, <2>1 DEF FamilyInv
<1>12. Alone'
  <2>1. \A r \in 2..Used : r \in Pids
    BY <1>2 DEF TypeInv, StartInv, Used
  <2>2. \A r \in 2..Used : status'[r] = "gone"
    BY <1>2, <1>3, <1>5, <1>7, <2>1 DEF ChildInv, TypeInv
  <2> QED BY <1>9, <2>2 DEF Alone
<1>13. code[kid[1]]' = StatusOf(argv[1][1]')
  BY <1>3, <1>5, <1>7, <1>8 DEF ChildInv
<1>14. CommandInv'
  BY <1>1, <1>3, <1>9, SameHistory
<1>15. Psh2Inv'
  BY <1>9, <1>12, <1>13, <1>14, ShellCalls DEF Psh2Inv, Call
<1> QED BY <1>4, <1>10, <1>11, <1>15 DEF IInv

\* The shell prints the status, and forgets the words.
LEMMA TellStep == IInv /\ Psh2 /\ ReportStatus(1) => IInv'
<1> SUFFICES ASSUME IInv, Psh2, ReportStatus(1) PROVE IInv'
  OBVIOUS
<1> USE KernelAssumption, MaxArgsAssumption DEF Pids
<1> DEFINE new == [argv |-> argv[1], status |-> code[kid[1]]]
<1>1. /\ status[1] = "running" /\ Call(1).op = "report"
      /\ UNCHANGED <<start, parent, kid, forks, status, code, fds, typed>>
      /\ log' = [log EXCEPT !.reported = Append(@, new)] /\ argv' = [argv EXCEPT ![1] = <<>>]
      /\ text' = [text EXCEPT ![1] = Unrolled(Tail(text[1]))]
  BY DEF ReportStatus, At, Call, GoOn, Rest, lives, data
<1>2. Psh2Inv /\ TypeInv /\ FamilyInv /\ StartInv /\ ReportedInv
  BY DEF IInv
<1>3. Alone /\ CommandInv /\ text[1] = Telling /\ code[kid[1]] = StatusOf(argv[1][1])
  BY <1>1, <1>2, ShellCalls DEF Psh2Inv, Call
<1>4. /\ taken \in Seq(Words) /\ reported \in Seq([argv : Seq(Given), status : {0, 256}])
      /\ log' = [taken |-> taken, reported |-> Append(reported, new)] /\ argv[1] \in Seq(Given)
      /\ taken' = taken /\ reported' = Append(reported, new)
  BY <1>1, <1>2 DEF TypeInv, taken, reported
<1>5. /\ new.argv = argv[1] /\ new.status = StatusOf(argv[1][1])
      /\ new = [argv |-> argv[1], status |-> StatusOf(argv[1][1])]
      /\ new \in [argv : Seq(Given), status : {0, 256}]
  BY <1>3, <1>4 DEF StatusOf
<1> HIDE DEF new
<1>6. /\ Append(reported, new) \in Seq([argv : Seq(Given), status : {0, 256}]) /\ Len(reported') = Len(reported) + 1
      /\ (\A i \in 1..Len(reported) : reported'[i] = reported[i]) /\ reported'[Len(reported) + 1] = new
      /\ Len(reported) \in Nat
  BY <1>4, <1>5, AppendProperties, LenProperties
<1>7. text[1]' = <<psh2>> /\ argv[1]' = <<>> /\ Used' = Used /\ DOMAIN text' = Pids /\ DOMAIN argv' = Pids
  BY <1>1, <1>2, <1>3, ShellTexts DEF TypeInv, Used
<1>8. Psh2' /\ ~Psh1' /\ StartInv' /\ FamilyInv' /\ Alone'
  BY <1>1, <1>2, <1>3, <1>7 DEF Psh1, Psh2, StartInv, FamilyInv, Alone
<1>9. TypeInv'
  <2>1. log' \in [taken : Seq(Words), reported : Seq([argv : Seq(Given), status : {0, 256}])]
    BY <1>4, <1>6
  <2>2. argv[1]' \in Seq(Given)
    BY <1>7, EmptySeq
  <2> QED BY <1>1, <1>2, <1>7, <2>1, <2>2 DEF TypeInv
<1>10. PICK c \in Commands(taken) : c.to + 1 = Len(taken) /\ argv[1] = WordsOf(taken, c)
  BY <1>3 DEF CommandInv
<1>11. /\ Len(reported) + 1 = Cardinality(Commands(taken)) /\ Len(taken) \in Nat
       /\ taken[Len(taken)] = NoWord /\ c.to \in 1..Len(taken) - 1
  BY <1>3, <1>4, <1>10, CommandPlaces DEF CommandInv
<1>12. PromptInv'
  <2>1. Open(taken, Len(taken) + 1) /\ Len(taken) + 1 \in Nat
    BY <1>11 DEF Open
  <2>2. Since(taken, Len(taken) + 1) = <<>>
    BY <1>11, SubSeqEmpty DEF Since
  <2>3. Len(argv[1]') < MaxArgs
    BY <1>7
  <2> QED BY <1>4, <1>6, <1>7, <1>11, <2>1, <2>2, <2>3 DEF PromptInv
<1>13. ReportedInv'
  <2>1. \A d \in Commands(taken) :
           /\ Number(taken, d) \in 1..Len(reported) + 1
           /\ d # c => Number(taken, d) < Len(reported) + 1
           /\ d = c => Number(taken, d) = Len(reported) + 1
    BY <1>4, <1>10, <1>11, NumberType, LastNumber
  <2>2. ASSUME NEW d \in Commands(taken)
        PROVE  reported'[Number(taken, d)] =
                   [argv |-> WordsOf(taken, d), status |-> StatusOf(WordsOf(taken, d)[1])]
    <3>1. CASE d = c
      BY <1>5, <1>6, <1>10, <2>1, <3>1
    <3>2. CASE d # c
      <4>1. Number(taken, d) \in 1..Len(reported)
        BY <1>6, <2>1, <3>2
      <4>2. reported'[Number(taken, d)] = reported[Number(taken, d)] /\ Number(taken, d) <= Len(reported)
        BY <1>6, <4>1
      <4>3. Number(taken, d) <= Len(reported) => reported[Number(taken, d)] =
                [argv |-> WordsOf(taken, d), status |-> StatusOf(WordsOf(taken, d)[1])]
        BY <1>2 DEF ReportedInv
      <4> QED BY <4>2, <4>3
    <3> QED BY <3>1, <3>2
  <2>3. \A d \in Commands(taken) : Len(WordsOf(taken, d)) < MaxArgs
    BY <1>2 DEF ReportedInv
  <2>4. Len(reported') <= Cardinality(Commands(taken)) /\ Len(reported') >= Cardinality(Commands(taken)) - 1
    BY <1>6, <1>11
  <2>5. taken' = taken
    BY <1>4
  <2> QED BY <2>2, <2>3, <2>4, <2>5 DEF ReportedInv
<1>14. Psh2Inv'
  BY <1>1, <1>7, <1>8, <1>12, ShellCalls DEF Psh2Inv, Call
<1> QED BY <1>8, <1>9, <1>13, <1>14 DEF IInv

\* Every step but those of a shell leaves what was typed, or reads one line of it.
LEMMA TypedStep ==
    ASSUME NEW p \in Pids, Process(p)
    PROVE  typed' = typed \/ (typed < start.lines /\ typed' = typed + 1)
<1>1. SysExit(p) \/ SysFork(p) \/ ForkFails(p) \/ SysExec(p) \/ SysWait(p) \/ SysWaitPid(p) => typed' = typed
  BY DEF SysExit, SysFork, ForkFails, SysExec, SysWait, SysWaitPid, data
<1>2. SysPipe(p) \/ SysClose(p) \/ SysCreat(p) \/ SysDup2(p) => typed' = typed
  BY DEF SysPipe, SysClose, SysCreat, SysDup2, data
<1>3. ReadPipe(p) \/ ReadEof(p) \/ WriteTty(p) \/ WritePipe(p) \/ WriteFile(p) \/ WriteBroken(p) => typed' = typed
  BY DEF ReadPipe, ReadEof, WriteTty, WritePipe, WriteFile, WriteBroken, data
<1>4. ReadTty(p) => typed < start.lines /\ typed' = typed + 1
  BY DEF ReadTty
<1> QED BY <1>1, <1>2, <1>3, <1>4 DEF Process

\* The shell ends, when it is alone.
LEMMA ShellEnds ==
    ASSUME IInv, Alone, status[1] = "running",
           NEW s, Terminate(1, s), UNCHANGED family, typed' \in 0..start.lines
    PROVE  IInv'
<1> USE KernelAssumption DEF Pids
<1>1. TypeInv /\ FamilyInv /\ StartInv
  BY DEF IInv
<1>2. UNCHANGED <<start, log, parent, kid, argv, forks>>
  BY DEF family
<1>3. /\ status' = [q \in Pids |-> IF q = 1 THEN "gone"
                       ELSE IF parent[q] = 1 /\ status[q] = "zombie" THEN "gone" ELSE status[q]]
      /\ code' = [code EXCEPT ![1] = s] /\ fds' = [fds EXCEPT ![1] = Empty] /\ text' = [text EXCEPT ![1] = Empty]
  BY <1>1 DEF Terminate, FamilyInv
<1>4. Used' = Used /\ status[1]' = "gone"
  BY <1>2, <1>3 DEF Used
<1>5. TypeInv'
  <2>1. status' \in [Pids -> {"free", "running", "zombie", "gone"}]
    BY <1>1, <1>3 DEF TypeInv
  <2> QED BY <1>1, <1>2, <1>3, <2>1 DEF TypeInv
<1>6. FamilyInv'
  <2>1. \A q \in Pids : status'[q] = "free" <=> status[q] = "free"
    BY <1>1, <1>3 DEF FamilyInv
  <2> QED BY <1>1, <1>2, <1>4, <2>1 DEF FamilyInv
<1>7. Alone'
  <2>1. \A r \in 2..Used : r \in Pids /\ r # 1
    BY <1>1 DEF TypeInv, StartInv, Used
  <2>2. \A r \in 2..Used : status'[r] = "gone"
    BY <1>3, <2>1 DEF Alone
  <2> QED BY <1>4, <2>2 DEF Alone
<1>8. StartInv' /\ (Psh1' <=> Psh1) /\ (Psh2' <=> Psh2) /\ (ReportedInv' <=> ReportedInv)
  BY <1>1, <1>2, SameHistory
<1>9. Psh2 => Psh2Inv'
  BY <1>4, <1>7 DEF Psh2Inv
<1>10. Psh1 => Psh1Inv'
  BY <1>2, <1>4 DEF IInv, Psh1Inv, reported
<1> QED BY <1>5, <1>6, <1>8, <1>9, <1>10 DEF IInv

\* The command runs, and its end is what the shell waits for.
LEMMA ChildStep ==
    ASSUME IInv, Psh2, status[1] = "running", Call(1).op = "waitfor", kid[1] # 1, kid[1] \in Pids,
           Process(kid[1]) \/ Shell(kid[1])
    PROVE  IInv'
<1> USE KernelAssumption DEF Pids
<1> DEFINE p == kid[1]
<1>1. Psh2Inv /\ TypeInv /\ FamilyInv /\ StartInv /\ ReportedInv
  BY DEF IInv
<1>2. ChildInv(p) /\ CommandInv /\ text[1] = Waiting
  BY <1>1, ShellCalls DEF Psh2Inv, Call
<1>3. status[p] = "running"
  BY ByCall
<1>4. /\ p \in 2..Used /\ argv[p] = argv[1] /\ fds[p] = OnTerminal
      /\ \A r \in 2..Used \ {p} : status[r] = "gone"
      /\ \/ text[p] = Doomed
         \/ argv[1][1] = "nosuch" /\ text[p] = Failed
         \/ argv[1][1] # "nosuch" /\ text[p] \in Running(1)
  BY <1>2, <1>3 DEF ChildInv
<1>5. argv[1][1] \in Given /\ Given = Words \ {NoWord}
  <2>1. argv[1] \in Seq(Given) /\ argv[1] # <<>>
    BY <1>1, <1>2 DEF TypeInv, CommandInv
  <2>2. Len(argv[1]) \in Nat \ {0}
    BY <2>1, EmptySeq
  <2> QED BY <2>1, <2>2, ElementOfSeq DEF Given
<1>6. typed' \in 0..start.lines
  <2>1. Shell(p) => Call(p).op \in {"arg", "waitfor", "report"}
    BY DEF Shell, ReadArg, ArgAtEof, PromptAgain, WaitForChild, ReportStatus, At, Call
  <2>2. Call(p).op \in {"exec", "exit", "read", "write"}
    BY <1>4, ShellCalls DEF Call
  <2>3. Process(p)
    BY <2>1, <2>2
  <2>4. typed' = typed \/ (typed < start.lines /\ typed' = typed + 1)
    BY <1>4, <2>3, TypedStep
  <2>5. start.typing \in Seq(Words) /\ start.lines = Len(start.typing) /\ typed \in 0..start.lines
    BY <1>1 DEF TypeInv, StartInv
  <2>6. start.lines \in Nat
    BY <2>5, LenProperties
  <2> QED BY <2>4, <2>5, <2>6
<1> DEFINE Going(t) == text' = [text EXCEPT ![p] = t] /\ UNCHANGED <<lives, fds>>
<1>7. /\ UNCHANGED family
      /\ \/ argv[1][1] = "nosuch" /\ (Going(Failed) \/ Terminate(p, 256))
         \/ argv[1][1] # "nosuch" /\ ((\E t \in Running(1) : Going(t)) \/ Terminate(p, 0))
  <2>1. CASE text[p] = Doomed
    <3>1. Call(p) = Exec(1) /\ Unrolled(Tail(text[p])) = Failed
      BY <2>1, ShellTexts DEF Call
    <3> QED BY <1>4, <1>5, <3>1, ExecStep
  <2>2. CASE argv[1][1] = "nosuch" /\ text[p] = Failed
    <3>1. Call(p).op = "exit" /\ 256 * Call(p).code = 256
      BY <2>2, ShellCalls DEF Call
    <3>2. SysExit(p)
      BY <3>1, ByCall
    <3> QED BY <2>2, <3>1, <3>2 DEF SysExit
  <2>3. CASE argv[1][1] # "nosuch" /\ text[p] \in Running(1)
    BY <1>4, <2>3, CommandStep
  <2> QED BY <1>4, <2>1, <2>2, <2>3
<1> HIDE DEF p, Going
<1>8. UNCHANGED <<start, log, parent, kid, argv, forks>> /\ Used' = Used
  BY <1>7 DEF family, Used
<1>9. p # 1 /\ p \in Pids /\ p = kid[1] /\ parent[p] = 1
  BY <1>1, <1>4 DEF p, FamilyInv
<1>10. Psh2' /\ ~Psh1' /\ StartInv' /\ ReportedInv' /\ CommandInv'
  BY <1>1, <1>2, <1>8, SameHistory DEF Psh1, Psh2
<1>11. ASSUME NEW t, Going(t), (argv[1][1] = "nosuch" /\ t = Failed) \/ (argv[1][1] # "nosuch" /\ t \in Running(1))
       PROVE  IInv'
  <2>1. text' = [text EXCEPT ![p] = t] /\ UNCHANGED <<status, code, fds>>
    BY <1>11 DEF Going, lives
  <2>2. text'[p] = t /\ text[1]' = Waiting
    BY <1>1, <1>2, <1>9, <2>1 DEF TypeInv
  <2>3. TypeInv' /\ FamilyInv'
    BY <1>1, <1>6, <1>8, <2>1 DEF TypeInv, FamilyInv
  <2>4. ChildInv(kid[1])'
    BY <1>3, <1>4, <1>8, <1>9, <1>11, <2>1, <2>2 DEF ChildInv
  <2>5. Psh2Inv'
    BY <1>10, <2>1, <2>2, <2>4, ShellCalls DEF Psh2Inv, Call
  <2> QED BY <1>10, <2>3, <2>5 DEF IInv
<1>12. ASSUME Terminate(p, StatusOf(argv[1][1])) PROVE IInv'
  <2>1. /\ status' = [q \in Pids |-> IF q = p THEN "zombie"
                         ELSE IF parent[q] = p /\ status[q] = "zombie" THEN "gone" ELSE status[q]]
        /\ code' = [code EXCEPT ![p] = StatusOf(argv[1][1])]
        /\ fds' = [fds EXCEPT ![p] = Empty] /\ text' = [text EXCEPT ![p] = Empty]
    BY <1>9, <1>12 DEF Terminate, Alive
  <2>2. /\ status'[p] = "zombie" /\ code'[p] = StatusOf(argv[1][1]) /\ text[1]' = Waiting
        /\ fds[1]' = fds[1] /\ status[1]' = "running"
    BY <1>1, <1>2, <1>9, <2>1 DEF TypeInv, FamilyInv
  <2>3. TypeInv'
    <3>1. status' \in [Pids -> {"free", "running", "zombie", "gone"}]
      BY <1>1, <2>1 DEF TypeInv
    <3> QED BY <1>1, <1>6, <1>8, <2>1, <3>1 DEF TypeInv
  <2>4. FamilyInv'
    <3>1. \A q \in Pids : status'[q] = "free" <=> status[q] = "free"
      BY <1>3, <2>1
    <3> QED BY <1>1, <1>8, <2>2, <3>1 DEF FamilyInv
  <2>5. \A r \in 2..Used \ {p} : status'[r] = "gone"
    <3>1. \A r \in 2..Used : r \in Pids
      BY <1>1 DEF TypeInv, StartInv, Used
    <3> QED BY <1>4, <2>1, <3>1
  <2>6. ChildInv(kid[1])'
    BY <1>4, <1>8, <1>9, <2>2, <2>5 DEF ChildInv
  <2>7. Psh2Inv'
    BY <1>10, <2>2, <2>6, ShellCalls DEF Psh2Inv, Call
  <2> QED BY <1>10, <2>3, <2>4, <2>7 DEF IInv
<1> QED BY <1>7, <1>11, <1>12 DEF StatusOf

\* psh1 becomes the command that was typed to it, or ends.
LEMMA BecomeStep == IInv /\ Psh1 /\ Call(1).op # "arg" /\ (Process(1) \/ Shell(1)) => IInv'
<1> SUFFICES ASSUME IInv, Psh1, Call(1).op # "arg", Process(1) \/ Shell(1) PROVE IInv'
  OBVIOUS
<1> USE KernelAssumption DEF Pids
<1>1. Psh1Inv /\ TypeInv /\ FamilyInv /\ StartInv
  BY DEF IInv
<1>2. /\ status[1] = "running" /\ forks = start.forks /\ reported = <<>> /\ fds[1] = OnTerminal /\ 1 \in Pids
      /\ Call(1).op = "exec" => argv[1] # <<>>
  BY <1>1, ByCall DEF Psh1Inv, FamilyInv
<1>3. text[1] \in {Doomed1, Failed1} \cup Running(1)
  BY <1>1, <1>2, ShellCalls DEF Psh1Inv, Call
<1>4. Used = 1 /\ Alone
  BY <1>1, <1>2 DEF StartInv, Used, Alone
<1>5. typed' \in 0..start.lines
  <2>1. Shell(1) => Call(1).op \in {"arg", "waitfor", "report"}
    BY DEF Shell, ReadArg, ArgAtEof, PromptAgain, WaitForChild, ReportStatus, At, Call
  <2>2. Call(1).op \in {"exec", "exit", "read", "write"}
    BY <1>3, ShellCalls DEF Call
  <2>3. Process(1)
    BY <2>1, <2>2
  <2>4. typed' = typed \/ (typed < start.lines /\ typed' = typed + 1)
    BY <1>2, <2>3, TypedStep
  <2> QED BY <1>1, <2>4 DEF TypeInv, StartInv
<1> DEFINE Going(t) == text' = [text EXCEPT ![1] = t] /\ UNCHANGED <<lives, fds>>
<1>6. UNCHANGED family /\ ((\E t \in {Failed1} \cup Running(1) : Going(t)) \/ \E s \in {0, 256} : Terminate(1, s))
  <2>1. CASE text[1] = Doomed1
    <3>1. Call(1) = Exec(1) /\ Call(1).op = "exec" /\ Unrolled(Tail(text[1])) = Failed1
      BY <2>1, ShellTexts, ShellCalls DEF Call
    <3>2. argv[1][1] \in Words \ {NoWord}
      <4>1. argv[1] \in Seq(Given) /\ argv[1] # <<>>
        BY <1>1, <1>2, <3>1 DEF TypeInv
      <4>2. Len(argv[1]) \in Nat \ {0}
        BY <4>1, EmptySeq
      <4> QED BY <4>1, <4>2, ElementOfSeq DEF Given
    <3> QED BY <1>2, <3>1, <3>2, ExecStep
  <2>2. CASE text[1] = Failed1
    <3>1. Call(1).op = "exit" /\ 256 * Call(1).code = 256
      BY <2>2, ShellCalls DEF Call
    <3>2. SysExit(1)
      BY <1>2, <3>1, ByCall
    <3> QED BY <3>1, <3>2 DEF SysExit
  <2>3. CASE text[1] \in Running(1)
    BY <1>2, <2>3, CommandStep
  <2> QED BY <1>3, <2>1, <2>2, <2>3
<1>7. ASSUME NEW t \in {Failed1} \cup Running(1), Going(t) PROVE IInv'
  <2>1. text' = [text EXCEPT ![1] = t] /\ UNCHANGED <<status, code, fds>> /\ text[1]' = t
    BY <1>1, <1>7 DEF lives, TypeInv
  <2>2. UNCHANGED <<start, log, parent, kid, argv, forks>>
    BY <1>6 DEF family
  <2>3. TypeInv' /\ FamilyInv'
    BY <1>1, <1>5, <2>1, <2>2 DEF TypeInv, FamilyInv, Used
  <2>4. StartInv' /\ Psh1' /\ ~Psh2'
    BY <1>1, <2>2 DEF StartInv, Psh1, Psh2
  <2>5. Psh1Inv'
    BY <1>1, <1>2, <2>1, <2>2, ShellCalls DEF Psh1Inv, Call, reported
  <2> QED BY <2>3, <2>4, <2>5 DEF IInv
<1>8. ASSUME NEW s, Terminate(1, s) PROVE IInv'
  BY <1>2, <1>4, <1>5, <1>6, <1>8, ShellEnds
<1> QED BY <1>6, <1>7, <1>8

LEMMA InvStep == IInv /\ [NextAll]_vars => IInv'
<1> SUFFICES ASSUME IInv, [NextAll]_vars PROVE IInv'
  OBVIOUS
<1>1. CASE UNCHANGED vars
  BY <1>1, Stutter
<1>2. CASE \E p \in Pids : Process(p) \/ Shell(p)
  <2>1. PICK p \in Pids : Process(p) \/ Shell(p)
    BY <1>2
  <2>2. status[p] = "running"
    BY <2>1, ByCall
  <2>3. CASE p = 1 /\ Call(1).op = "arg"
    <3>1. ReadArg(1) \/ ArgAtEof(1) \/ PromptAgain(1)
      BY <2>1, <2>3, ByCall
    <3> QED BY <3>1, TakeStep, Stutter DEF PromptAgain
  <2>4. CASE p = 1 /\ Psh1 /\ Call(1).op # "arg"
    BY <2>1, <2>4, BecomeStep
  <2>5. CASE p = 1 /\ Psh2 /\ Call(1).op # "arg"
    <3>1. text[1] \in {Forking, Waiting, Telling, Failed, Leaving}
      BY <2>2, <2>5, ShellCalls DEF IInv, Psh2Inv, Call
    <3>2. Call(1).op = "fork" => IInv'
      BY <2>1, <2>5, ByCall, ForkStep
    <3>3. Call(1).op = "waitfor" => IInv'
      BY <2>1, <2>5, ByCall, WaitStep
    <3>4. Call(1).op = "report" => IInv'
      BY <2>1, <2>5, ByCall, TellStep
    <3>5. Call(1).op = "exit" => IInv'
      <4> SUFFICES ASSUME Call(1).op = "exit" PROVE IInv'
        OBVIOUS
      <4>1. SysExit(1)
        BY <2>1, <2>5, ByCall
      <4>2. Alone
        BY <2>2, <2>5 DEF IInv, Psh2Inv
      <4>3. PICK s : Terminate(1, s)
        BY <4>1 DEF SysExit
      <4>4. UNCHANGED family /\ typed' \in 0..start.lines
        BY <4>1 DEF SysExit, data, IInv, TypeInv
      <4> QED BY <2>2, <2>5, <4>2, <4>3, <4>4, ShellEnds
    <3>6. Call(1).op \in {"fork", "waitfor", "report", "exit"}
      BY <3>1, ShellCalls DEF Call
    <3> QED BY <3>2, <3>3, <3>4, <3>5, <3>6
  <2>6. CASE p # 1
    BY <2>1, <2>2, <2>6, WhoRuns, ChildStep
  <2>7. Psh1 \/ Psh2
    BY DEF IInv, StartInv
  <2> QED BY <2>3, <2>4, <2>5, <2>6, <2>7
<1>3. CASE Idle
  BY <1>3, Stutter DEF Idle
<1> QED BY <1>1, <1>2, <1>3 DEF NextAll

-----------------------------------------------------------------------------
(* The theorems                                                             *)

\* Whatever is typed to a shell, psh2 runs the commands in it in their order, each once
\* with its own words, of which there are fewer than MAXARGS, and the status that it
\* prints is that of the command it stands for; psh1, which becomes its first command,
\* prints none (psh1.c, psh2.c).
THEOREM CommandsReported == ASSUME ShellsOnly PROVE FairSpecAll => []ReportsItsChild
<1>1. Init => IInv
  BY InvInit
<1>2. IInv /\ [NextAll]_vars => IInv'
  BY InvStep
<1>3. IInv => ReportsItsChild
  <2> SUFFICES ASSUME IInv PROVE ReportsItsChild
    OBVIOUS
  <2>1. CASE Psh1
    BY <2>1 DEF IInv, Psh1, Psh1Inv, ReportsItsChild
  <2>2. CASE Psh2
    BY <2>2 DEF IInv, Psh2, ReportedInv, ReportsItsChild
  <2> QED BY <2>1, <2>2 DEF IInv, StartInv
<1> QED BY <1>1, <1>2, <1>3, PTL DEF FairSpecAll

\* A line is taken by the shell, at its prompt.
LEMMA TakenAtPrompt ==
    ASSUME IInv, [NextAll]_vars, taken' # taken
    PROVE  status[1] = "running" /\ Call(1).op = "arg"
<1>1. log' # log
  BY DEF taken
<1>2. ~UNCHANGED vars
  BY <1>1 DEF vars, family
<1>3. PICK p \in Pids : Process(p) \/ Shell(p)
  BY <1>2 DEF NextAll, Idle
<1>4. SysExit(p) \/ SysFork(p) \/ ForkFails(p) \/ SysExec(p) \/ SysWait(p) \/ SysWaitPid(p) => log' = log
  BY DEF SysExit, SysFork, ForkFails, SysExec, SysWait, SysWaitPid, family
<1>5. SysPipe(p) \/ SysClose(p) \/ SysCreat(p) \/ SysDup2(p) => log' = log
  BY DEF SysPipe, SysClose, SysCreat, SysDup2, family
<1>6. ReadPipe(p) \/ ReadEof(p) \/ WriteTty(p) \/ WritePipe(p) \/ WriteFile(p) \/ WriteBroken(p) => log' = log
  BY DEF ReadPipe, ReadEof, WriteTty, WritePipe, WriteFile, WriteBroken, family
<1>7. ReadTty(p) \/ WaitForChild(p) => log' = log
  BY DEF ReadTty, WaitForChild, family
<1>8. ReportStatus(p) => taken' = taken
  BY DEF ReportStatus, taken, IInv, TypeInv
<1>9. ReadArg(p) \/ ArgAtEof(p) \/ PromptAgain(p)
  BY <1>1, <1>3, <1>4, <1>5, <1>6, <1>7, <1>8 DEF Process, Shell
<1>10. status[p] = "running" /\ Call(p).op = "arg"
  BY <1>9 DEF ReadArg, ArgAtEof, PromptAgain, At, Call
<1>11. p = 1
  <2> SUFFICES ASSUME p # 1 PROVE FALSE
    OBVIOUS
  <2>1. Psh2 /\ status[1] = "running" /\ Call(1).op = "waitfor" /\ p = kid[1]
    BY <1>10, WhoRuns
  <2>2. ChildInv(p)
    BY <2>1 DEF IInv, Psh2Inv
  <2>3. text[p] \in {Doomed, Failed} \cup Running(1)
    BY <1>10, <2>2 DEF ChildInv
  <2> QED BY <1>10, <2>3, ShellCalls DEF Call
<1> QED BY <1>10, <1>11

\* A shell reads a line of the terminal when no other process runs, nor is left to be
\* waited for (psh1.c; execute() in psh2.c, which waits for its child).
THEOREM AloneAtThePrompt == ASSUME ShellsOnly PROVE FairSpecAll => ReadsAlone
<1>1. Init => IInv
  BY InvInit
<1>2. IInv /\ [NextAll]_vars => IInv'
  BY InvStep
<1>3. IInv /\ [NextAll]_vars =>
          [taken' # taken => /\ Cardinality({p \in Pids : Alive(p)}) = 1
                             /\ ~\E p \in Pids : status[p] = "zombie"]_vars
  <2> SUFFICES ASSUME IInv, [NextAll]_vars, taken' # taken
               PROVE  /\ Cardinality({p \in Pids : Alive(p)}) = 1
                      /\ ~\E p \in Pids : status[p] = "zombie"
    OBVIOUS
  <2>1. status[1] = "running" /\ Call(1).op = "arg"
    BY TakenAtPrompt
  <2>2. Alone
    <3>1. Psh2 => Alone
      BY <2>1 DEF IInv, Psh2Inv
    <3>2. Psh1 => 2..Used = {}
      BY DEF IInv, Psh1Inv, TypeInv, StartInv, Used
    <3> QED BY <3>1, <3>2 DEF IInv, StartInv, Alone
  <2>3. \A p \in Pids \ {1} : status[p] \in {"gone", "free"}
    <3>1. Used \in Int
      BY KernelAssumption DEF IInv, TypeInv, StartInv, Used
    <3>2. \A p \in Pids \ {1} : p > Used \/ p \in 2..Used
      BY <3>1 DEF Pids
    <3> QED BY <2>2, <3>2 DEF IInv, FamilyInv, Alone
  <2>4. 1 \in Pids
    BY KernelAssumption DEF Pids
  <2>5. {p \in Pids : Alive(p)} = {1}
    BY <2>1, <2>3, <2>4 DEF Alive
  <2> QED BY <2>1, <2>3, <2>5, FS_Singleton
<1> QED BY <1>1, <1>2, <1>3, PTL DEF FairSpecAll, ReadsAlone

-----------------------------------------------------------------------------
(* pipe_p.c and popen_p.c: two processes and a pipe                         *)

\* They are all that is started: pipe_p.c with any first command, and a second one
\* that copies its input, any number of lines, and any number of forks that succeed.
Filters == {"cat", "head", "nosuch"}

PipesOnly ==
    Starts \subseteq {s \in PipeStarts(Given, Nat, 0..MaxProcs - 1) : s.argv[2] \in Filters}
                     \cup PopenStarts(0..MaxProcs - 1)

Popened == start.program = "popen"
thepipe == IF Popened THEN "pfp" ELSE "thepipe"
Reading == R(thepipe, 1)
Writing == W(thepipe, 1)
ReadEnd  == <<"r", 1>>
WriteEnd == <<"w", 1>>

\* The texts of process 1, which reads the pipe, and of process 2, which writes to it.
Prints     == Loop(<<Read(Reading), Write(Out, <<>>)>>)
ReadsPipe  == <<Read(Reading), Write(Out, <<>>), Prints, Exit>>
WritesLine == <<Write(Out, <<>>), Prints, Exit>>

Become(n) == <<Exec(n), Exit>>
Joined    == <<Close(Reading), Exec(2), Exit>>
Joining   == <<Dup2(Reading, In), Close(Reading), Exec(2), Exit>>
Feeding   == <<Close(Reading), Dup2(Writing, Out), Close(Writing), Exec(1), Exit>>
Feeding1  == <<Dup2(Writing, Out), Close(Writing), Exec(1), Exit>>
Feeding2  == <<Close(Writing), Exec(1), Exit>>
Behind    == IF Popened THEN <<Close(Writing), Prints, Exit>>
             ELSE <<Close(Writing), Dup2(Reading, In), Close(Reading), Exec(2), Exit>>
Dividing  ==
    IF Popened THEN <<Fork(Feeding, Leaving), Close(Writing), Prints, Exit>>
    ELSE <<Fork(Feeding, Leaving), Close(Writing), Dup2(Reading, In), Close(Reading), Exec(2), Exit>>
Opening   == IF Popened THEN PopenMain ELSE PipeMain

Filtering == {Reads(2), Writes(2), ReadsOne(2), One(2), Leaving}

Line(via) == [no : Nat, via : via]

\* What the lines on the screen have passed.
Whole == IF Popened THEN <<1>> ELSE <<1, 2>>

\* The lines in the pipe.
Between == IF pipes = <<>> THEN <<>> ELSE pipes[1]

PipeTypeInv ==
    /\ \/ /\ start.program = "pipe" /\ start.argv \in [1..2 -> Given] /\ start.argv[2] \in Filters
       \/ start.program = "popen" /\ start.argv = <<"ls">>
    /\ argv[1] = start.argv /\ start.forks \in 0..MaxProcs - 1
    /\ DOMAIN text = Pids /\ DOMAIN fds = Pids /\ DOMAIN argv = Pids
    /\ status \in [Pids -> {"free", "running", "zombie", "gone"}]
    /\ line \in [Pids -> Line({<<>>, <<1>>})] /\ typed \in Nat
    /\ 2 \in Pids => line[2].via = <<>>
    /\ pipes = <<>> \/ pipes = <<Between>>
    /\ Between \in Seq(Line({<<1>>}))
    /\ screen \in Seq(Line({Whole}))

\* Process p has d open, and it refers to x.
Wired(p, d, x) == d \in DOMAIN fds[p] /\ fds[p][d] = x

NoChild == forks = start.forks /\ \A q \in Pids \ {1} : status[q] = "free"

ReaderInv ==
    status[1] = "running" =>
        /\ Wired(1, Out, Tty)
        /\ \/ text[1] = Opening /\ Wired(1, In, Tty) /\ pipes = <<>> /\ NoChild
           \/ /\ text[1] = Dividing /\ Wired(1, In, Tty) /\ pipes # <<>> /\ NoChild
              /\ Wired(1, Reading, ReadEnd) /\ Wired(1, Writing, WriteEnd)
           \/ text[1] = Behind /\ Wired(1, Reading, ReadEnd) /\ pipes # <<>>
           \/ /\ Popened /\ pipes # <<>>
              /\ text[1] = ReadsPipe \/ (text[1] = WritesLine /\ line[1].via = <<1>>)
              /\ Wired(1, Reading, ReadEnd)
           \/ ~Popened /\ text[1] = Joining /\ Wired(1, Reading, ReadEnd) /\ pipes # <<>>
           \/ /\ ~Popened /\ pipes # <<>>
              /\ \/ text[1] \in {Joined, Become(2), Reads(2), ReadsOne(2)}
                 \/ text[1] \in {Writes(2), One(2)} /\ line[1].via = <<1>>
              /\ Wired(1, In, ReadEnd)
           \/ text[1] = Leaving

WriterInv ==
    /\ \A q \in Pids \ {1, 2} : status[q] = "free"
    /\ 2 \in Pids /\ status[2] = "running" =>
         /\ argv[2] = start.argv /\ pipes # <<>>
         /\ Wired(2, In, Tty)
         /\ \/ text[2] \in {Feeding, Feeding1} /\ Wired(2, Writing, WriteEnd)
            \/ text[2] \in {Feeding2, Become(1)} \cup Running(1) /\ Wired(2, Out, WriteEnd)

\* In the order they were typed: those on the screen, the one that process 1 has, those
\* in the pipe, the one that process 2 has.
Rising(s) == \A i, j \in DOMAIN s : i <= j => s[i].no <= s[j].no

FlowInv ==
    /\ Rising(screen) /\ Rising(Between)
    /\ \A i \in DOMAIN screen : screen[i].no <= line[1].no
    /\ \A i \in DOMAIN Between : line[1].no <= Between[i].no
    /\ 2 \in Pids => /\ line[1].no <= line[2].no /\ line[2].no <= typed
                     /\ \A i \in DOMAIN Between : Between[i].no <= line[2].no

PipeInv == PipeTypeInv /\ ReaderInv /\ WriterInv /\ FlowInv

LEMMA ConcatTwoTwo == ASSUME NEW a, NEW b, NEW c, NEW d PROVE <<a, b>> \o <<c, d>> = <<a, b, c, d>>
<1> DEFINE S == {a, b, c, d}  s == <<a, b>>  t == <<c, d>>  u == <<a, b, c, d>>
<1>1. s \in Seq(S) /\ t \in Seq(S) /\ u \in Seq(S) /\ Len(s) = 2 /\ Len(t) = 2 /\ Len(u) = 4
  OBVIOUS
<1>2. s[1] = a /\ s[2] = b /\ t[1] = c /\ t[2] = d /\ u[1] = a /\ u[2] = b /\ u[3] = c /\ u[4] = d
  OBVIOUS
<1> HIDE DEF S, s, t, u
<1>3. /\ s \o t \in Seq(S) /\ Len(s \o t) = Len(s) + Len(t)
      /\ \A i \in 1..Len(s) + Len(t) : (s \o t)[i] = IF i <= Len(s) THEN s[i] ELSE t[i - Len(s)]
  BY <1>1, ConcatProperties
<1>4. Len(s \o t) = 4 /\ (s \o t)[1] = a /\ (s \o t)[2] = b /\ (s \o t)[3] = c /\ (s \o t)[4] = d
  BY <1>1, <1>2, <1>3
<1>5. \A i \in 1..Len(s \o t) : (s \o t)[i] = u[i]
  BY <1>2, <1>4
<1>6. s \o t = u
  BY <1>1, <1>3, <1>4, <1>5, SeqEqual
<1> QED BY <1>6 DEF s, t, u

-----------------------------------------------------------------------------
(* What each text begins with, and what is left of it behind that call      *)

LEMMA ConcatFive ==
    ASSUME NEW a, NEW b, NEW c, NEW d, NEW e, NEW f, NEW g
    PROVE  <<a, b>> \o <<c, d, e, f, g>> = <<a, b, c, d, e, f, g>>
<1> DEFINE S == {a, b, c, d, e, f, g}  s == <<a, b>>  t == <<c, d, e, f, g>>  u == <<a, b, c, d, e, f, g>>
<1>1. s \in Seq(S) /\ t \in Seq(S) /\ u \in Seq(S) /\ Len(s) = 2 /\ Len(t) = 5 /\ Len(u) = 7
  OBVIOUS
<1>2. /\ s[1] = a /\ s[2] = b /\ t[1] = c /\ t[2] = d /\ t[3] = e /\ t[4] = f /\ t[5] = g
      /\ u[1] = a /\ u[2] = b /\ u[3] = c /\ u[4] = d /\ u[5] = e /\ u[6] = f /\ u[7] = g
  OBVIOUS
<1> HIDE DEF S, s, t, u
<1>3. /\ s \o t \in Seq(S) /\ Len(s \o t) = Len(s) + Len(t)
      /\ \A i \in 1..Len(s) + Len(t) : (s \o t)[i] = IF i <= Len(s) THEN s[i] ELSE t[i - Len(s)]
  BY <1>1, ConcatProperties
<1>4. /\ Len(s \o t) = 7 /\ (s \o t)[1] = a /\ (s \o t)[2] = b /\ (s \o t)[3] = c /\ (s \o t)[4] = d
      /\ (s \o t)[5] = e /\ (s \o t)[6] = f /\ (s \o t)[7] = g
  BY <1>1, <1>2, <1>3
<1>5. \A i \in 1..Len(s \o t) : (s \o t)[i] = u[i]
  <2>1. \A i \in 1..7 : i = 1 \/ i = 2 \/ i = 3 \/ i = 4 \/ i = 5 \/ i = 6 \/ i = 7
    OBVIOUS
  <2> QED BY <1>2, <1>4, <2>1
<1>6. s \o t = u
  BY <1>1, <1>3, <1>4, <1>5, SeqEqual
<1> QED BY <1>6 DEF s, t, u

LEMMA ConcatOnes == ASSUME NEW a, NEW b PROVE <<a>> \o <<b>> = <<a, b>>
<1> DEFINE S == {a, b}  s == <<a>>  t == <<b>>  u == <<a, b>>
<1>1. s \in Seq(S) /\ t \in Seq(S) /\ u \in Seq(S) /\ Len(s) = 1 /\ Len(t) = 1 /\ Len(u) = 2
  OBVIOUS
<1>2. s[1] = a /\ t[1] = b /\ u[1] = a /\ u[2] = b
  OBVIOUS
<1> HIDE DEF S, s, t, u
<1>3. /\ s \o t \in Seq(S) /\ Len(s \o t) = Len(s) + Len(t)
      /\ \A i \in 1..Len(s) + Len(t) : (s \o t)[i] = IF i <= Len(s) THEN s[i] ELSE t[i - Len(s)]
  BY <1>1, ConcatProperties
<1>4. Len(s \o t) = 2 /\ (s \o t)[1] = a /\ (s \o t)[2] = b
  BY <1>1, <1>2, <1>3
<1>5. \A i \in 1..Len(s \o t) : (s \o t)[i] = u[i]
  BY <1>2, <1>4
<1>6. s \o t = u
  BY <1>1, <1>3, <1>4, <1>5, SeqEqual
<1> QED BY <1>6 DEF s, t, u

\* The descriptors are four different ones.
LEMMA FourNames ==
    /\ In # Out /\ Reading # Writing
    /\ In # Reading /\ In # Writing /\ Out # Reading /\ Out # Writing
    /\ Tty[1] = "tty" /\ ReadEnd[1] = "r" /\ ReadEnd[2] = 1 /\ WriteEnd[1] = "w" /\ WriteEnd[2] = 1
    /\ Tty # ReadEnd /\ Tty # WriteEnd
BY DEF In, Out, Reading, Writing, R, W, thepipe, Tty, ReadEnd, WriteEnd

LEMMA SetUpTexts ==
    /\ Head(Opening) = Pipe(thepipe, 1)     /\ Unrolled(Tail(Opening)) = Dividing
    /\ Head(Dividing) = Fork(Feeding, Leaving) /\ Unrolled(Tail(Dividing)) = Behind
    /\ Head(Behind) = Close(Writing)
    /\ Unrolled(Tail(Behind)) = IF Popened THEN ReadsPipe ELSE Joining
    /\ Head(Joining) = Dup2(Reading, In)    /\ Unrolled(Tail(Joining)) = Joined
    /\ Head(Joined) = Close(Reading)        /\ Unrolled(Tail(Joined)) = Become(2)
    /\ Unrolled(Feeding) = Feeding
    /\ Head(Feeding) = Close(Reading)       /\ Unrolled(Tail(Feeding)) = Feeding1
    /\ Head(Feeding1) = Dup2(Writing, Out)  /\ Unrolled(Tail(Feeding1)) = Feeding2
    /\ Head(Feeding2) = Close(Writing)      /\ Unrolled(Tail(Feeding2)) = Become(1)
    /\ \A n : Head(Become(n)) = Exec(n)     /\ Unrolled(Tail(Become(n))) = Leaving
    /\ Head(ReadsPipe) = Read(Reading)      /\ Unrolled(Tail(ReadsPipe)) = WritesLine
    /\ Head(WritesLine) = Write(Out, <<>>)  /\ Unrolled(Tail(WritesLine)) = ReadsPipe
<1>1. \A t : Head(t).op # "loop" => Unrolled(t) = t
  BY DEF Unrolled
<1>2. /\ \A n : Exec(n).op # "loop"
      /\ \A n, m : Read(n).op # "loop" /\ Write(n, m).op # "loop" /\ Close(n).op # "loop"
                   /\ Dup2(n, m).op # "loop" /\ Fork(n, m).op # "loop"
      /\ Exit.op # "loop"
      /\ Prints.op = "loop" /\ Prints.body = <<Read(Reading), Write(Out, <<>>)>>
  BY DEF Exec, Read, Write, Close, Dup2, Fork, Exit, ExitWith, Prints, Loop
<1>3. Unrolled(<<Prints, Exit>>) = ReadsPipe
  <2>1. Head(<<Prints, Exit>>) = Prints
    OBVIOUS
  <2>2. <<Read(Reading), Write(Out, <<>>)>> \o <<Prints, Exit>> = ReadsPipe
    BY ConcatTwoTwo DEF ReadsPipe
  <2> QED BY <1>2, <2>1, <2>2 DEF Unrolled
<1>4. /\ Head(Joining) = Dup2(Reading, In)   /\ Tail(Joining) = Joined
      /\ Head(Joined) = Close(Reading)       /\ Tail(Joined) = Become(2)
      /\ Head(Feeding) = Close(Reading)      /\ Tail(Feeding) = Feeding1
      /\ Head(Feeding1) = Dup2(Writing, Out) /\ Tail(Feeding1) = Feeding2
      /\ Head(Feeding2) = Close(Writing)     /\ Tail(Feeding2) = Become(1)
      /\ Head(ReadsPipe) = Read(Reading)     /\ Tail(ReadsPipe) = WritesLine
      /\ Head(WritesLine) = Write(Out, <<>>) /\ Tail(WritesLine) = <<Prints, Exit>>
      /\ Head(Leaving) = Exit
      /\ \A n : Head(Become(n)) = Exec(n) /\ Tail(Become(n)) = Leaving
  BY DEF Joining, Joined, Become, Feeding, Feeding1, Feeding2, ReadsPipe, WritesLine, Leaving
<1>5. /\ Head(Behind) = Close(Writing)
      /\ Tail(Behind) = IF Popened THEN <<Prints, Exit>> ELSE Joining
      /\ Head(Dividing) = Fork(Feeding, Leaving) /\ Tail(Dividing) = Behind
  BY DEF Behind, Dividing, Joining
<1>6. Opening = IF Popened
                THEN <<Pipe(thepipe, 1), Fork(Feeding, Leaving), Close(Writing), Prints, Exit>>
                ELSE <<Pipe(thepipe, 1), Fork(Feeding, Leaving), Close(Writing),
                       Dup2(Reading, In), Close(Reading), Exec(2), Exit>>
  <2>1. CASE Popened
    BY <2>1 DEF Opening, PopenMain, PopenChild, thepipe, Feeding, Leaving, Writing, Reading, Prints
  <2>2. CASE ~Popened
    <3>1. PipeChild = Feeding
      BY <2>2 DEF PipeChild, Feeding, thepipe, Reading, Writing
    <3>2. PipeParent = <<Close(Writing), Dup2(Reading, In), Close(Reading), Exec(2), Exit>>
      BY <2>2 DEF PipeParent, thepipe, Reading, Writing
    <3>3. PipeMain = <<Pipe(thepipe, 1), Fork(Feeding, Leaving)>> \o PipeParent
      BY <2>2, <3>1 DEF PipeMain, thepipe, Leaving
    <3> QED BY <2>2, <3>2, <3>3, ConcatFive DEF Opening
  <2> QED BY <2>1, <2>2
<1>7. Head(Opening) = Pipe(thepipe, 1) /\ Tail(Opening) = Dividing
  BY <1>6 DEF Dividing
<1>8. /\ Unrolled(Dividing) = Dividing /\ Unrolled(Behind) = Behind /\ Unrolled(Joining) = Joining
      /\ Unrolled(Joined) = Joined /\ Unrolled(Feeding) = Feeding /\ Unrolled(Feeding1) = Feeding1
      /\ Unrolled(Feeding2) = Feeding2 /\ Unrolled(WritesLine) = WritesLine /\ Unrolled(Leaving) = Leaving
  <2>1. /\ Head(Dividing).op # "loop" /\ Head(Behind).op # "loop" /\ Head(Joining).op # "loop"
        /\ Head(Joined).op # "loop" /\ Head(Feeding).op # "loop" /\ Head(Feeding1).op # "loop"
        /\ Head(Feeding2).op # "loop" /\ Head(WritesLine).op # "loop" /\ Head(Leaving).op # "loop"
    BY <1>2, <1>4, <1>5
  <2> QED BY <1>1, <2>1
<1>9. \A n : Unrolled(Become(n)) = Become(n)
  BY <1>1, <1>2, <1>4
<1> QED BY <1>3, <1>4, <1>5, <1>7, <1>8, <1>9

\* A command that copies its input reads before it writes.
LEMMA FilterTexts ==
    /\ Unrolled(Command("cat", 2)) = Reads(2) /\ Unrolled(Command("head", 2)) = ReadsOne(2)
    /\ Head(Reads(2)) = ReadOrExit(In)      /\ Unrolled(Tail(Reads(2))) = Writes(2)
    /\ Head(Writes(2)) = Write(Out, <<2>>)  /\ Unrolled(Tail(Writes(2))) = Reads(2)
    /\ Head(ReadsOne(2)) = ReadOrExit(In)   /\ Unrolled(Tail(ReadsOne(2))) = One(2)
    /\ Head(One(2)) = Write(Out, <<2>>)     /\ Unrolled(Tail(One(2))) = Leaving
    /\ Head(Leaving) = ExitWith(0)
<1>1. /\ ReadOrExit(In).op # "loop" /\ Write(Out, <<2>>).op # "loop" /\ ExitWith(0).op # "loop"
      /\ Copies(2).op = "loop" /\ Copies(2).body = <<ReadOrExit(In), Write(Out, <<2>>)>>
  BY DEF ReadOrExit, Write, ExitWith, Copies, Loop
<1>2. Copies(2).body \o <<Copies(2)>> = Reads(2)
  BY <1>1, ConcatTwo DEF Reads
<1>3. /\ Head(Reads(2)) = ReadOrExit(In)    /\ Tail(Reads(2)) = Writes(2)
      /\ Head(Writes(2)) = Write(Out, <<2>>) /\ Tail(Writes(2)) = <<Copies(2)>>
      /\ Head(ReadsOne(2)) = ReadOrExit(In) /\ Tail(ReadsOne(2)) = One(2)
      /\ Head(One(2)) = Write(Out, <<2>>)   /\ Tail(One(2)) = Leaving
      /\ Head(Leaving) = ExitWith(0)        /\ Head(<<Copies(2)>>) = Copies(2)
  BY DEF Reads, Writes, ReadsOne, One, Leaving, Exit
<1>4. Command("cat", 2) = <<Copies(2)>> /\ Command("head", 2) = ReadsOne(2)
  BY DEF Command, Copies, ReadsOne
<1> QED BY <1>1, <1>2, <1>3, <1>4 DEF Unrolled

\* The loop of popen_p.c ends with the file.
LEMMA PrintsAll == Broken(ReadsPipe) = Leaving
<1> DEFINE t == ReadsPipe
<1>1. /\ t[1] = Read(Reading) /\ t[2] = Write(Out, <<>>) /\ t[3] = Prints /\ t[4] = Exit
      /\ Len(t) = 4 /\ DOMAIN t = 1..4
  BY DEF ReadsPipe
<1>2. t[1].op # "loop" /\ t[2].op # "loop" /\ t[3].op = "loop" /\ t[4].op # "loop"
  BY <1>1 DEF Read, Write, Prints, Loop, Exit, ExitWith
<1> DEFINE IsLoop(i) == t[i].op = "loop" /\ \A j \in 1..i - 1 : t[j].op # "loop"
<1>3. IsLoop(3) /\ \A i \in 1..4 : IsLoop(i) => i = 3
  BY <1>2
<1>4. (CHOOSE i \in DOMAIN t : IsLoop(i)) = 3
  <2> HIDE DEF IsLoop, t
  <2> QED BY <1>1, <1>3
<1>5. SubSeq(t, 4, 4) = Leaving
  <2> DEFINE S == {t[i] : i \in 1..4}  u == SubSeq(t, 4, 4)
  <2>1. \A i \in 4..4 : t[i] \in S
    OBVIOUS
  <2> HIDE DEF t, S
  <2>2. u \in Seq(S) /\ (Len(u) = IF 4 <= 4 THEN 4 - 4 + 1 ELSE 0) /\ (\A i \in 1..4 - 4 + 1 : u[i] = t[4 + i - 1])
    BY <2>1, SubSeqProperties
  <2> HIDE DEF u
  <2>3. Len(u) = 1 /\ u[1] = Exit
    BY <1>1, <2>2
  <2>4. u = <<Exit>>
    BY <2>2, <2>3
  <2> QED BY <2>4 DEF Leaving, u
<1>6. Broken(t) = SubSeq(t, (CHOOSE i \in DOMAIN t : IsLoop(i)) + 1, Len(t))
  BY DEF Broken
<1> HIDE DEF t, IsLoop
<1>7. Broken(t) = SubSeq(t, 3 + 1, 4)
  BY <1>1, <1>4, <1>6
<1>8. Broken(t) = SubSeq(t, 4, 4)
  BY <1>7
<1> QED BY <1>5, <1>8 DEF t

-----------------------------------------------------------------------------
(* Steps that leave the other process alone                                 *)

\* Process p does something to itself only.
Mine(p) ==
    /\ DOMAIN text' = Pids /\ DOMAIN fds' = Pids
    /\ \A q \in Pids \ {p} : text'[q] = text[q] /\ fds'[q] = fds[q] /\ line'[q] = line[q]

\* The program remains the same, and so do its texts.
LEMMA SameProgram ==
    start' = start =>
        /\ Popened' = Popened /\ Reading' = Reading /\ Writing' = Writing /\ Whole' = Whole
        /\ Opening' = Opening /\ Dividing' = Dividing /\ Behind' = Behind /\ Joining' = Joining
        /\ Joined' = Joined /\ ReadsPipe' = ReadsPipe /\ WritesLine' = WritesLine
        /\ Feeding' = Feeding /\ Feeding1' = Feeding1 /\ Feeding2' = Feeding2
<1> SUFFICES ASSUME start' = start
             PROVE  /\ Popened' = Popened /\ Reading' = Reading /\ Writing' = Writing /\ Whole' = Whole
                    /\ Opening' = Opening /\ Dividing' = Dividing /\ Behind' = Behind /\ Joining' = Joining
                    /\ Joined' = Joined /\ ReadsPipe' = ReadsPipe /\ WritesLine' = WritesLine
                    /\ Feeding' = Feeding /\ Feeding1' = Feeding1 /\ Feeding2' = Feeding2
  OBVIOUS
<1>1. Popened' = Popened
  BY DEF Popened
<1>2. Reading' = Reading /\ Writing' = Writing /\ Whole' = Whole /\ Opening' = Opening
  BY <1>1 DEF Reading, Writing, thepipe, Whole, Opening
<1>3. Prints' = Prints /\ Joining' = Joining /\ Joined' = Joined
  BY <1>2 DEF Prints, Joining, Joined
<1>4. Feeding' = Feeding /\ Feeding1' = Feeding1 /\ Feeding2' = Feeding2
  BY <1>2 DEF Feeding, Feeding1, Feeding2
<1>5. ReadsPipe' = ReadsPipe /\ WritesLine' = WritesLine
  BY <1>2, <1>3 DEF ReadsPipe, WritesLine
<1>6. Behind' = Behind /\ Dividing' = Dividing
  BY <1>1, <1>2, <1>3, <1>4 DEF Behind, Dividing
<1> QED BY <1>1, <1>2, <1>3, <1>4, <1>5, <1>6

LEMMA WriterKeeps ==
    ASSUME PipeTypeInv, WriterInv, UNCHANGED <<start, argv>>, Mine(1),
           \A q \in Pids \ {1} : \/ status'[q] = status[q]
                                 \/ status[q] = "zombie" /\ status'[q] = "gone",
           pipes # <<>> => pipes' # <<>>
    PROVE  WriterInv'
<1>1. \A q \in Pids \ {1, 2} : status'[q] = "free"
  BY DEF WriterInv
<1>2. ASSUME 2 \in Pids, status'[2] = "running"
      PROVE  /\ argv'[2] = start'.argv /\ pipes' # <<>>
             /\ Wired(2, In, Tty)'
             /\ \/ text'[2] \in {Feeding, Feeding1}' /\ Wired(2, Writing, WriteEnd)'
                \/ text'[2] \in ({Feeding2, Become(1)} \cup Running(1))' /\ Wired(2, Out, WriteEnd)'
  <2>1. status[2] = "running"
    BY <1>2
  <2>2. text'[2] = text[2] /\ fds'[2] = fds[2] /\ line'[2] = line[2]
    BY <1>2 DEF Mine
  <2>3. /\ argv[2] = start.argv /\ pipes # <<>>
        /\ Wired(2, In, Tty)
        /\ \/ text[2] \in {Feeding, Feeding1} /\ Wired(2, Writing, WriteEnd)
           \/ text[2] \in {Feeding2, Become(1)} \cup Running(1) /\ Wired(2, Out, WriteEnd)
    BY <1>2, <2>1 DEF WriterInv
  <2> QED BY <2>2, <2>3, SameProgram DEF Wired
<1> QED BY <1>1, <1>2 DEF WriterInv

LEMMA ReaderKeeps ==
    ASSUME PipeTypeInv, ReaderInv, UNCHANGED <<start, forks>>, Mine(2), 1 \in Pids, 2 \in Pids,
           status[2] = "running", status'[1] = "running" => status[1] = "running",
           pipes # <<>> => pipes' # <<>>
    PROVE  ReaderInv'
<1> SUFFICES ASSUME status'[1] = "running" PROVE ReaderInv'
  BY DEF ReaderInv
<1>1. status[1] = "running" /\ ~NoChild
  BY DEF NoChild
<1>2. text'[1] = text[1] /\ fds'[1] = fds[1] /\ line'[1] = line[1]
  BY DEF Mine
<1>3. \A d, x : Wired(1, d, x) => d \in DOMAIN fds'[1] /\ fds'[1][d] = x
  BY <1>2 DEF Wired
<1> QED BY <1>1, <1>2, <1>3, SameProgram DEF ReaderInv, Wired

\* A process ends.
LEMMA PipeEnds ==
    ASSUME PipeInv, NEW p \in Pids \cap {1, 2}, status[p] = "running", NEW s, Terminate(p, s),
           UNCHANGED <<family, line, data>>, 1 \in Pids
    PROVE  PipeInv'
<1>1. /\ UNCHANGED <<start, argv, forks, line, pipes, typed, screen>>
  BY DEF family, data
<1>2. /\ status'[p] \in {"zombie", "gone"}
      /\ \A q \in Pids \ {p} : status'[q] = status[q] \/ (status[q] = "zombie" /\ status'[q] = "gone")
      /\ DOMAIN status' = Pids
  BY DEF Terminate
<1>3. Mine(p)
  BY <1>1 DEF Terminate, Mine, PipeInv, PipeTypeInv
<1>4. status' \in [Pids -> {"free", "running", "zombie", "gone"}]
  <2>1. \A q \in Pids : status'[q] \in {"free", "running", "zombie", "gone"}
    BY <1>2 DEF PipeInv, PipeTypeInv
  <2>2. status' = [q \in Pids |-> status'[q]]
    BY DEF Terminate
  <2> QED BY <2>1, <2>2
<1>5. PipeTypeInv'
  BY <1>1, <1>3, <1>4, SameProgram DEF PipeInv, PipeTypeInv, Mine, Between
<1>6. FlowInv'
  BY <1>1 DEF PipeInv, FlowInv, Between, Rising
<1>7. CASE p = 1
  <2>1. ReaderInv'
    BY <1>2, <1>7 DEF ReaderInv
  <2>2. WriterInv'
    BY <1>1, <1>2, <1>3, <1>7, WriterKeeps DEF PipeInv
  <2> QED BY <1>5, <1>6, <2>1, <2>2 DEF PipeInv
<1>8. CASE p = 2
  <2>1. ReaderInv'
    BY <1>1, <1>2, <1>3, <1>8, ReaderKeeps DEF PipeInv
  <2>2. WriterInv'
    <3>1. \A q \in Pids \ {1, 2} : status'[q] = "free"
      BY <1>2, <1>8 DEF PipeInv, WriterInv
    <3> QED BY <1>2, <1>8, <3>1 DEF WriterInv
  <2> QED BY <1>5, <1>6, <2>1, <2>2 DEF PipeInv
<1> QED BY <1>7, <1>8

\* A process goes on to text t, and perhaps with other descriptors.
LEMMA ReaderMoves ==
    ASSUME PipeInv, UNCHANGED <<family, lives, line, files, typed, screen>>,
           NEW t, text' = [text EXCEPT ![1] = t],
           NEW f, fds' = fds \/ fds' = [fds EXCEPT ![1] = f],
           pipes' = pipes \/ (pipes = <<>> /\ pipes' = <<<<>>>>),
           ReaderInv'
    PROVE  PipeInv'
<1>1. UNCHANGED <<start, argv, forks, status>>
  BY DEF family, lives
<1>2. Mine(1)
  BY DEF Mine, PipeInv, PipeTypeInv
<1>3. pipes' # <<>> \/ pipes' = pipes
  OBVIOUS
<1>4. WriterInv'
  BY <1>1, <1>2, <1>3, WriterKeeps DEF PipeInv
<1>5. Between' = Between
  <2>1. CASE pipes = <<>> /\ pipes' = <<<<>>>>
    BY <2>1 DEF Between
  <2>2. CASE pipes' = pipes
    BY <2>2 DEF Between
  <2> QED BY <2>1, <2>2
<1>6. FlowInv'
  BY <1>5 DEF PipeInv, FlowInv, Rising
<1>7. (pipes' = <<>> \/ pipes' = <<Between'>>) /\ Between' \in Seq(Line({<<1>>}))
  <2>1. CASE pipes' = <<<<>>>>
    <3>1. pipes'[1] = <<>> /\ pipes' # <<>>
      BY <2>1
    <3> QED BY <1>5, <2>1, <3>1 DEF Between, PipeInv, PipeTypeInv
  <2> QED BY <1>5, <2>1 DEF PipeInv, PipeTypeInv
<1>8. PipeTypeInv'
  BY <1>1, <1>2, <1>7, SameProgram DEF PipeInv, PipeTypeInv, Mine
<1> QED BY <1>4, <1>6, <1>8 DEF PipeInv

LEMMA WriterMoves ==
    ASSUME PipeInv, UNCHANGED <<family, lives, line, data>>, 1 \in Pids, 2 \in Pids, status[2] = "running",
           NEW t, text' = [text EXCEPT ![2] = t],
           NEW f, fds' = fds \/ fds' = [fds EXCEPT ![2] = f],
           /\ Wired(2, In, Tty)'
           /\ \/ t \in {Feeding, Feeding1} /\ Wired(2, Writing, WriteEnd)'
              \/ t \in {Feeding2, Become(1)} \cup Running(1) /\ Wired(2, Out, WriteEnd)'
    PROVE  PipeInv'
<1>1. UNCHANGED <<start, argv, forks, status, pipes, typed, screen>>
  BY DEF family, lives, data
<1>2. Mine(2) /\ text'[2] = t
  BY DEF Mine, PipeInv, PipeTypeInv
<1>3. ReaderInv'
  BY <1>1, <1>2, ReaderKeeps DEF PipeInv
<1>4. FlowInv'
  BY <1>1 DEF PipeInv, FlowInv, Between, Rising
<1>5. PipeTypeInv'
  BY <1>1, <1>2, SameProgram DEF PipeInv, PipeTypeInv, Mine, Between
<1>6. WriterInv'
  BY <1>1, <1>2, SameProgram DEF PipeInv, WriterInv
<1> QED BY <1>3, <1>4, <1>5, <1>6 DEF PipeInv

-----------------------------------------------------------------------------
(* The steps of process 1                                                   *)

\* It runs, and process 2 is not affected.
Running1 == 1 \in Pids /\ status[1] = "running"

LEMMA ReaderOpens ==
    ASSUME PipeInv, Running1, text[1] = Opening, Process(1) \/ Shell(1)
    PROVE  PipeInv'
<1>1. Call(1) = Pipe(thepipe, 1) /\ Unrolled(Rest(1)) = Dividing
  BY SetUpTexts DEF Call, Rest
<1>2. SysPipe(1) /\ Call(1).r = Reading /\ Call(1).w = Writing
  BY <1>1, ByCall DEF Pipe, Running1, Reading, Writing
<1>3. /\ Wired(1, Out, Tty) /\ Wired(1, In, Tty) /\ pipes = <<>> /\ NoChild
  <2>1. Head(Opening).op = "pipe" /\ Head(Dividing).op # "pipe" /\ Head(Behind).op # "pipe"
        /\ Head(ReadsPipe).op # "pipe" /\ Head(WritesLine).op # "pipe" /\ Head(Joining).op # "pipe"
        /\ Head(Joined).op # "pipe" /\ Head(Become(2)).op # "pipe"
    BY SetUpTexts DEF Pipe, Fork, Close, Read, Write, Dup2, Exec
  <2>2. Head(Reads(2)).op # "pipe" /\ Head(ReadsOne(2)).op # "pipe" /\ Head(Writes(2)).op # "pipe"
        /\ Head(One(2)).op # "pipe" /\ Head(Leaving).op # "pipe"
    BY FilterTexts DEF ReadOrExit, Write, ExitWith
  <2> QED BY <2>1, <2>2 DEF PipeInv, ReaderInv, Running1
<1> DEFINE new == [d \in {Reading, Writing} |-> IF d = Reading THEN ReadEnd ELSE WriteEnd]
<1>4. /\ pipes' = <<<<>>>> /\ text' = [text EXCEPT ![1] = Dividing]
      /\ fds' = [fds EXCEPT ![1] = With(1, new)]
      /\ UNCHANGED <<family, lives, line, files, typed, screen>>
  <2>1. Len(pipes) + 1 = 1 /\ Append(pipes, <<>>) = <<<<>>>>
    BY <1>3
  <2> QED BY <1>1, <1>2, <2>1 DEF SysPipe, GoOn, ReadEnd, WriteEnd
<1>5. DOMAIN new = {Reading, Writing} /\ new[Reading] = ReadEnd /\ new[Writing] = WriteEnd
  BY FourNames
<1> HIDE DEF new
<1>6. UNCHANGED <<start, forks, status>> /\ text'[1] = Dividing
  BY <1>4 DEF family, lives, PipeInv, PipeTypeInv, Running1
<1>7. /\ Out \in DOMAIN fds'[1] /\ fds'[1][Out] = Tty
      /\ In \in DOMAIN fds'[1] /\ fds'[1][In] = Tty
      /\ Reading \in DOMAIN fds'[1] /\ fds'[1][Reading] = ReadEnd
      /\ Writing \in DOMAIN fds'[1] /\ fds'[1][Writing] = WriteEnd
  <2>1. 1 \in Pids /\ DOMAIN fds = Pids
    BY DEF PipeInv, PipeTypeInv, Running1
  <2> QED BY <1>3, <1>4, <1>5, <2>1, FourNames DEF With, Wired
<1>8. ReaderInv'
  <2>1. NoChild'
    BY <1>3, <1>6 DEF NoChild
  <2>2. pipes' # <<>>
    BY <1>4
  <2> QED BY <1>6, <1>7, <2>1, <2>2, SameProgram DEF ReaderInv, Wired
<1> QED BY <1>3, <1>4, <1>8, ReaderMoves

\* fork() makes the first process that there is not yet.
LEMMA NextFork ==
    ASSUME NEW p \in Pids, NEW n \in Pids, \A q \in Pids : status[q] = "free" <=> q >= n, SysFork(p)
    PROVE  /\ status' = [status EXCEPT ![n] = "running"] /\ parent' = [parent EXCEPT ![n] = p]
           /\ kid' = [kid EXCEPT ![p] = n] /\ fds' = [fds EXCEPT ![n] = fds[p]]
           /\ argv' = [argv EXCEPT ![n] = argv[p]]
           /\ text' = [text EXCEPT ![n] = Unrolled(Call(p).child), ![p] = Unrolled(Rest(p))]
           /\ forks' = forks - 1 /\ UNCHANGED <<start, log, code, line, data>>
<1> DEFINE free == {q \in Pids : status[q] = "free"}
<1>1. Min(free) = n
  <2>1. n \in free /\ \A q \in free : q \in Nat /\ n <= q
    BY DEF Pids
  <2>2. \A x \in free : (\A y \in free : x <= y) => x = n
    BY <2>1
  <2> HIDE DEF free
  <2> QED BY <2>1, <2>2 DEF Min
<1> QED BY <1>1 DEF SysFork

LEMMA ReaderDivides ==
    ASSUME PipeInv, Running1, text[1] = Dividing, Wired(1, Out, Tty), Wired(1, In, Tty), NoChild,
           Wired(1, Reading, ReadEnd), Wired(1, Writing, WriteEnd), pipes # <<>>, Process(1) \/ Shell(1)
    PROVE  PipeInv'
<1>1. Call(1) = Fork(Feeding, Leaving) /\ Unrolled(Rest(1)) = Behind
  BY SetUpTexts DEF Call, Rest
<1>2. /\ SysFork(1) \/ ForkFails(1)
      /\ Call(1).child = Feeding /\ Call(1).fail = Leaving
  BY <1>1, ByCall DEF Fork, Running1
<1>3. CASE ForkFails(1)
  <2>1. /\ text' = [text EXCEPT ![1] = Leaving] /\ UNCHANGED <<family, lives, fds, line, data>>
    BY <1>2, <1>3, ShellTexts DEF ForkFails, GoOn
  <2>2. text'[1] = Leaving /\ status'[1] = "running" /\ UNCHANGED <<fds, pipes, files, typed, screen>>
    BY <2>1 DEF lives, data, PipeInv, PipeTypeInv, Running1
  <2>3. ReaderInv'
    BY <2>2 DEF ReaderInv, Wired
  <2> QED BY <2>1, <2>2, <2>3, ReaderMoves
<1>4. CASE SysFork(1)
  <2>1. 2 \in Pids
    <3>1. forks \in 1..MaxProcs - 1
      BY <1>4 DEF SysFork, NoChild, PipeInv, PipeTypeInv
    <3> QED BY <3>1, KernelAssumption DEF Pids
  <2>2. UNCHANGED <<start, line, pipes, typed, screen>>
    BY <1>4 DEF SysFork, data
  <2>3. /\ status' = [status EXCEPT ![2] = "running"] /\ fds' = [fds EXCEPT ![2] = fds[1]]
        /\ argv' = [argv EXCEPT ![2] = argv[1]]
        /\ text' = [text EXCEPT ![2] = Feeding, ![1] = Behind]
    <3>1. \A q \in Pids : status[q] = "free" <=> q >= 2
      BY DEF NoChild, Running1, Pids
    <3> QED BY <1>1, <1>2, <1>4, <2>1, <3>1, NextFork, SetUpTexts DEF Running1
  <2>4. /\ status'[2] = "running" /\ (\A q \in Pids \ {2} : status'[q] = status[q])
        /\ fds'[2] = fds[1] /\ fds'[1] = fds[1] /\ argv'[2] = argv[1] /\ argv'[1] = argv[1]
        /\ text'[2] = Feeding /\ text'[1] = Behind
    BY <2>1, <2>3 DEF PipeInv, PipeTypeInv, Running1
  <2>5. PipeTypeInv'
    BY <2>2, <2>3, <2>4, SameProgram DEF PipeInv, PipeTypeInv, Between
  <2>6. FlowInv'
    BY <2>2 DEF PipeInv, FlowInv, Between, Rising
  <2>7. ReaderInv'
    BY <2>2, <2>3, <2>4, SameProgram DEF ReaderInv, Wired
  <2>8. WriterInv'
    <3>1. \A q \in Pids \ {1, 2} : status'[q] = "free"
      BY <2>4 DEF PipeInv, WriterInv
    <3>2. argv'[2] = start'.argv
      BY <2>2, <2>3, <2>4 DEF PipeInv, PipeTypeInv
    <3> QED BY <2>2, <2>3, <2>4, <3>1, <3>2, SameProgram DEF WriterInv, Wired
  <2> QED BY <2>5, <2>6, <2>7, <2>8 DEF PipeInv
<1> QED BY <1>2, <1>3, <1>4

\* It closes the end that it does not use, and takes the other one for its input.
LEMMA ReaderJoins ==
    ASSUME PipeInv, Running1, text[1] \in {Behind, Joining, Joined}, Wired(1, Out, Tty), pipes # <<>>,
           text[1] \in {Behind, Joining} => Wired(1, Reading, ReadEnd),
           text[1] = Joining => ~Popened,
           text[1] = Joined => ~Popened /\ Wired(1, In, ReadEnd),
           Process(1) \/ Shell(1)
    PROVE  PipeInv'
<1>1. CASE text[1] = Behind
  <2>1. Call(1) = Close(Writing) /\ Unrolled(Rest(1)) = IF Popened THEN ReadsPipe ELSE Joining
    BY <1>1, SetUpTexts DEF Call, Rest
  <2>2. SysClose(1) /\ Call(1).fd = Writing
    BY <2>1, ByCall DEF Close, Running1
  <2>3. /\ text' = [text EXCEPT ![1] = IF Popened THEN ReadsPipe ELSE Joining]
        /\ fds' = [fds EXCEPT ![1] = Without(1, Writing)]
        /\ UNCHANGED <<family, lives, line, data>>
    BY <2>1, <2>2 DEF SysClose, GoOn
  <2>4. UNCHANGED <<start, status, pipes, files, typed, screen>>
    BY <2>3 DEF family, lives, data
  <2>5. text'[1] = IF Popened THEN ReadsPipe ELSE Joining
    BY <2>3 DEF PipeInv, PipeTypeInv, Running1
  <2>6. /\ Out \in DOMAIN fds'[1] /\ fds'[1][Out] = Tty
        /\ Reading \in DOMAIN fds'[1] /\ fds'[1][Reading] = ReadEnd
    <3>1. 1 \in Pids /\ DOMAIN fds = Pids
      BY DEF PipeInv, PipeTypeInv, Running1
    <3> QED BY <1>1, <2>3, <3>1, FourNames DEF Without, Wired
  <2>7. ReaderInv'
    BY <2>4, <2>5, <2>6, SameProgram DEF ReaderInv, Wired
  <2> QED BY <2>3, <2>4, <2>7, ReaderMoves
<1>2. CASE text[1] = Joining
  <2>1. Call(1) = Dup2(Reading, In) /\ Unrolled(Rest(1)) = Joined
    BY <1>2, SetUpTexts DEF Call, Rest
  <2>2. SysDup2(1) /\ Call(1).fd = Reading /\ Call(1).to = In
    BY <2>1, ByCall DEF Dup2, Running1
  <2> DEFINE new == [d \in {In} |-> fds[1][Reading]]
  <2>3. /\ text' = [text EXCEPT ![1] = Joined]
        /\ fds' = [fds EXCEPT ![1] = With(1, new)]
        /\ UNCHANGED <<family, lives, line, data>>
    BY <2>1, <2>2 DEF SysDup2, GoOn
  <2>4. UNCHANGED <<start, status, pipes, files, typed, screen>> /\ text'[1] = Joined
    BY <2>3 DEF family, lives, data, PipeInv, PipeTypeInv, Running1
  <2>5. DOMAIN new = {In} /\ new[In] = ReadEnd
    BY <1>2 DEF Wired
  <2> HIDE DEF new
  <2>6. /\ Out \in DOMAIN fds'[1] /\ fds'[1][Out] = Tty
        /\ In \in DOMAIN fds'[1] /\ fds'[1][In] = ReadEnd
    <3>1. 1 \in Pids /\ DOMAIN fds = Pids
      BY DEF PipeInv, PipeTypeInv, Running1
    <3> QED BY <2>3, <2>5, <3>1, FourNames DEF With, Wired
  <2>7. ReaderInv'
    BY <1>2, <2>4, <2>6, SameProgram DEF ReaderInv, Wired
  <2> QED BY <2>3, <2>4, <2>7, ReaderMoves
<1>3. CASE text[1] = Joined
  <2>1. Call(1) = Close(Reading) /\ Unrolled(Rest(1)) = Become(2)
    BY <1>3, SetUpTexts DEF Call, Rest
  <2>2. SysClose(1) /\ Call(1).fd = Reading
    BY <2>1, ByCall DEF Close, Running1
  <2>3. /\ text' = [text EXCEPT ![1] = Become(2)]
        /\ fds' = [fds EXCEPT ![1] = Without(1, Reading)]
        /\ UNCHANGED <<family, lives, line, data>>
    BY <2>1, <2>2 DEF SysClose, GoOn
  <2>4. UNCHANGED <<start, status, pipes, files, typed, screen>> /\ text'[1] = Become(2)
    BY <2>3 DEF family, lives, data, PipeInv, PipeTypeInv, Running1
  <2>5. /\ Out \in DOMAIN fds'[1] /\ fds'[1][Out] = Tty
        /\ In \in DOMAIN fds'[1] /\ fds'[1][In] = ReadEnd
    <3>1. 1 \in Pids /\ DOMAIN fds = Pids
      BY DEF PipeInv, PipeTypeInv, Running1
    <3> QED BY <1>3, <2>3, <3>1, FourNames DEF Without, Wired
  <2>6. ReaderInv'
    BY <1>3, <2>4, <2>5, SameProgram DEF ReaderInv, Wired
  <2> QED BY <2>3, <2>4, <2>6, ReaderMoves
<1> QED BY <1>1, <1>2, <1>3

\* It becomes the second command, or ends if there is no such command.
LEMMA ReaderBecomes ==
    ASSUME PipeInv, Running1, text[1] = Become(2), Wired(1, Out, Tty), Wired(1, In, ReadEnd),
           pipes # <<>>, ~Popened, Process(1) \/ Shell(1)
    PROVE  PipeInv'
<1>1. Call(1) = Exec(2) /\ Unrolled(Rest(1)) = Leaving
  BY SetUpTexts DEF Call, Rest
<1>2. SysExec(1) /\ Call(1).n = 2
  BY <1>1, ByCall DEF Exec, Running1
<1>3. argv[1][2] \in Filters
  BY DEF PipeInv, PipeTypeInv, Popened
<1>4. /\ UNCHANGED <<family, lives, fds, line, data>>
      /\ \E t \in {Leaving, Reads(2), ReadsOne(2)} : text' = [text EXCEPT ![1] = t]
  <2>1. CASE argv[1][2] = "nosuch"
    BY <1>1, <1>2, <2>1 DEF SysExec, GoOn
  <2>2. CASE argv[1][2] # "nosuch"
    <3>1. text' = [text EXCEPT ![1] = Unrolled(Command(argv[1][2], 2))] /\ UNCHANGED <<family, lives, fds, line, data>>
      BY <1>2, <2>2 DEF SysExec, GoOn
    <3>2. argv[1][2] \in {"cat", "head"}
      BY <1>3, <2>2 DEF Filters
    <3> QED BY <3>1, <3>2, FilterTexts
  <2> QED BY <1>2, <2>1, <2>2 DEF SysExec
<1>5. PICK t \in {Leaving, Reads(2), ReadsOne(2)} : text' = [text EXCEPT ![1] = t]
  BY <1>4
<1>6. UNCHANGED <<start, status, pipes, files, typed, screen, fds>> /\ text'[1] = t
  BY <1>4, <1>5 DEF family, lives, data, PipeInv, PipeTypeInv, Running1
<1>7. ReaderInv'
  BY <1>5, <1>6, SameProgram DEF ReaderInv, Wired
<1> QED BY <1>4, <1>5, <1>6, <1>7, ReaderMoves

-----------------------------------------------------------------------------
(* Lines on their way                                                       *)

LEMMA FirstLine ==
    ASSUME NEW S, NEW s \in Seq(S), s # <<>>
    PROVE  /\ Head(s) = s[1] /\ Len(s) \in Nat \ {0} /\ DOMAIN s = 1..Len(s) /\ s[1] \in S
           /\ Tail(s) \in Seq(S) /\ DOMAIN Tail(s) = 1..Len(s) - 1
           /\ \A i \in DOMAIN Tail(s) : Tail(s)[i] = s[i + 1]
<1>1. /\ Len(s) \in Nat \ {0} /\ DOMAIN s = 1..Len(s) /\ Head(s) = s[1] /\ s[1] \in S
  BY EmptySeq, LenProperties, HeadTailProperties
<1>2. Tail(s) \in Seq(S) /\ Len(Tail(s)) = Len(s) - 1 /\ \A i \in 1..Len(Tail(s)) : Tail(s)[i] = s[i + 1]
  BY HeadTailProperties
<1>3. DOMAIN Tail(s) = 1..Len(Tail(s))
  BY <1>2, LenProperties
<1> QED BY <1>1, <1>2, <1>3

LEMMA OneMore ==
    ASSUME NEW S, NEW s \in Seq(S), NEW l \in S
    PROVE  /\ Append(s, l) \in Seq(S) /\ Len(s) \in Nat /\ DOMAIN s = 1..Len(s)
           /\ DOMAIN Append(s, l) = 1..Len(s) + 1 /\ Append(s, l)[Len(s) + 1] = l
           /\ \A i \in DOMAIN s : Append(s, l)[i] = s[i]
<1>1. /\ Append(s, l) \in Seq(S) /\ Len(Append(s, l)) = Len(s) + 1
      /\ \A i \in 1..Len(s) : Append(s, l)[i] = s[i]
      /\ Append(s, l)[Len(s) + 1] = l
  BY AppendProperties
<1> QED BY <1>1, LenProperties

\* A line that is not before those of a sequence can follow them.
LEMMA RisingOn ==
    ASSUME NEW V, NEW s \in Seq(Line(V)), NEW l \in Line(V), Rising(s),
           \A i \in DOMAIN s : s[i].no <= l.no
    PROVE  Rising(Append(s, l))
<1>1. /\ DOMAIN s = 1..Len(s) /\ Len(s) \in Nat
      /\ DOMAIN Append(s, l) = 1..Len(s) + 1 /\ Append(s, l)[Len(s) + 1] = l
      /\ \A i \in DOMAIN s : Append(s, l)[i] = s[i]
  BY OneMore
<1> DEFINE m == Append(s, l)  n == Len(s)
<1>2. l.no \in Nat
  BY DEF Line
<1> HIDE DEF m, n
<1>3. ASSUME NEW i \in 1..n + 1, NEW j \in 1..n + 1, i <= j PROVE m[i].no <= m[j].no
  <2>1. CASE j \in 1..n
    BY <1>1, <1>3, <2>1 DEF Rising, m, n
  <2>2. CASE j = n + 1 /\ i \in 1..n
    BY <1>1, <2>2 DEF m, n
  <2>3. CASE j = n + 1 /\ i = n + 1
    BY <1>1, <1>2, <2>3 DEF m, n
  <2>4. (j \in 1..n) \/ j = n + 1
    BY <1>1 DEF n
  <2>5. j = n + 1 => i \in 1..n \/ i = n + 1
    BY <1>1 DEF n
  <2> QED BY <2>1, <2>2, <2>3, <2>4, <2>5
<1> QED BY <1>1, <1>3 DEF Rising, m, n

LEMMA RisingFrom ==
    ASSUME NEW V, NEW s \in Seq(Line(V)), s # <<>>, Rising(s)
    PROVE  /\ Rising(Tail(s))
           /\ \A i \in DOMAIN Tail(s) : Head(s).no <= Tail(s)[i].no
<1>1. /\ Head(s) = s[1] /\ Len(s) \in Nat \ {0} /\ DOMAIN s = 1..Len(s)
      /\ DOMAIN Tail(s) = 1..Len(s) - 1
      /\ \A i \in DOMAIN Tail(s) : Tail(s)[i] = s[i + 1]
  BY FirstLine
<1> DEFINE t == Tail(s)
<1> HIDE DEF t
<1>2. \A i \in 1..Len(s) - 1 : i + 1 \in 1..Len(s) /\ 1 <= i + 1 /\ t[i] = s[i + 1]
  BY <1>1 DEF t
<1>3. \A i, j \in 1..Len(s) - 1 : i <= j => t[i].no <= t[j].no
  BY <1>1, <1>2 DEF Rising
<1>4. \A i \in 1..Len(s) - 1 : s[1].no <= t[i].no
  BY <1>1, <1>2 DEF Rising
<1> QED BY <1>1, <1>3, <1>4 DEF Rising, t

\* Process 1 takes a line from the pipe.
LEMMA TakesLine ==
    ASSUME PipeInv, Running1, ReadPipe(1), Source(1) = ReadEnd, pipes # <<>>
    PROVE  /\ UNCHANGED <<start, status, forks, fds>> /\ pipes' # <<>>
           /\ text'[1] = Unrolled(Rest(1)) /\ line'[1].via = <<1>>
           /\ PipeTypeInv' /\ FlowInv' /\ WriterInv'
<1>1. Source(1)[2] = 1 /\ pipes[1] = Between /\ pipes = <<Between>> /\ 1 \in Pids
  BY FourNames DEF Between, PipeInv, PipeTypeInv, Running1
<1>2. /\ Between # <<>> /\ line' = [line EXCEPT ![1] = Head(Between)]
      /\ pipes' = [pipes EXCEPT ![1] = Tail(@)]
      /\ text' = [text EXCEPT ![1] = Unrolled(Rest(1))]
      /\ UNCHANGED <<family, lives, fds, typed, screen>>
  BY <1>1 DEF ReadPipe, GoOn
<1>3. pipes' = <<Tail(Between)>> /\ pipes' # <<>> /\ Between' = Tail(Between)
  <2> DEFINE s == Between
  <2> HIDE DEF s
  <2>1. [<<s>> EXCEPT ![1] = Tail(@)] = <<Tail(s)>>
    OBVIOUS
  <2>2. pipes' = <<Tail(Between)>>
    BY <1>1, <1>2, <2>1 DEF s
  <2>3. pipes'[1] = Tail(Between) /\ pipes' # <<>>
    BY <2>2
  <2> QED BY <2>2, <2>3 DEF Between
<1>4. /\ Head(Between) = Between[1] /\ Len(Between) \in Nat \ {0} /\ DOMAIN Between = 1..Len(Between)
      /\ Between[1] \in Line({<<1>>})
      /\ Tail(Between) \in Seq(Line({<<1>>})) /\ DOMAIN Tail(Between) = 1..Len(Between) - 1
      /\ \A i \in DOMAIN Tail(Between) : Tail(Between)[i] = Between[i + 1]
  BY <1>2, FirstLine DEF PipeInv, PipeTypeInv
<1>5. /\ UNCHANGED <<start, status, argv, forks>> /\ text'[1] = Unrolled(Rest(1)) /\ Mine(1)
  BY <1>1, <1>2 DEF family, lives, Mine, PipeInv, PipeTypeInv
<1>6. /\ line'[1] = Between[1] /\ line'[1].via = <<1>> /\ line'[1].no \in Nat
      /\ line' \in [Pids -> Line({<<>>, <<1>>})] /\ (2 \in Pids => line'[2] = line[2])
  <2>1. Between[1].via = <<1>> /\ Between[1].no \in Nat /\ Between[1] \in Line({<<>>, <<1>>})
    BY <1>4 DEF Line
  <2> QED BY <1>1, <1>2, <1>4, <2>1 DEF PipeInv, PipeTypeInv
<1>7. PipeTypeInv'
  BY <1>2, <1>3, <1>4, <1>5, <1>6, SameProgram DEF PipeInv, PipeTypeInv, Mine
<1>8. FlowInv'
  <2>1. 1 \in DOMAIN Between
    BY <1>4
  <2>2. \A i \in DOMAIN screen : screen[i].no <= line[1].no /\ screen[i].no \in Nat
    <3>1. \A i \in DOMAIN screen : screen[i] \in Line({Whole})
      BY LenProperties, ElementOfSeq DEF PipeInv, PipeTypeInv
    <3> QED BY <3>1 DEF PipeInv, FlowInv, Line
  <2>3. line[1].no <= Between[1].no /\ line[1].no \in Nat /\ Between[1].no \in Nat
    BY <1>1, <1>4, <2>1 DEF PipeInv, PipeTypeInv, FlowInv, Line
  <2>4. \A i \in DOMAIN screen' : screen'[i].no <= line'[1].no
    BY <1>2, <1>6, <2>2, <2>3
  <2>5. Rising(Tail(Between)) /\ \A i \in DOMAIN Tail(Between) : Head(Between).no <= Tail(Between)[i].no
    BY <1>2, RisingFrom DEF PipeInv, PipeTypeInv, FlowInv
  <2>6. ASSUME 2 \in Pids
        PROVE  /\ line'[1].no <= line'[2].no /\ line'[2].no <= typed'
               /\ \A i \in DOMAIN Tail(Between) : Tail(Between)[i].no <= line'[2].no
    <3>1. line[2].no <= typed /\ \A i \in DOMAIN Between : Between[i].no <= line[2].no
      BY <2>6 DEF PipeInv, FlowInv
    <3> QED BY <1>2, <1>4, <1>6, <2>1, <2>6, <3>1
  <2>7. Rising(screen)
    BY DEF PipeInv, FlowInv
  <2> QED BY <1>2, <1>3, <1>4, <1>6, <2>4, <2>5, <2>6, <2>7 DEF FlowInv, Rising
<1>9. WriterInv'
  BY <1>3, <1>5, WriterKeeps DEF PipeInv
<1> QED BY <1>2, <1>3, <1>5, <1>6, <1>7, <1>8, <1>9

\* Process 1 writes the line that it has to the screen.
LEMMA PutsLine ==
    ASSUME PipeInv, Running1, WriteTty(1), line[1].via \o Call(1).mark = Whole
    PROVE  /\ UNCHANGED <<start, status, forks, fds, pipes, line>>
           /\ text'[1] = Unrolled(Rest(1))
           /\ PipeTypeInv' /\ FlowInv' /\ WriterInv'
<1>1. /\ text' = [text EXCEPT ![1] = Unrolled(Rest(1))] /\ screen' = Append(screen, Marked(1))
      /\ UNCHANGED <<family, lives, fds, line, pipes, typed>> /\ 1 \in Pids
  BY DEF WriteTty, GoOn, Running1
<1>2. Marked(1) \in Line({Whole}) /\ Marked(1).no = line[1].no /\ line[1].no \in Nat
  <2>1. line[1] \in Line({<<>>, <<1>>})
    BY <1>1 DEF PipeInv, PipeTypeInv
  <2> DEFINE v == line[1].via \o Call(1).mark
  <2>2. Marked(1) = [line[1] EXCEPT !.via = v]
    BY DEF Marked
  <2>3. v = Whole
    OBVIOUS
  <2> HIDE DEF v
  <2>4. Marked(1) = [line[1] EXCEPT !.via = Whole]
    BY <2>2, <2>3
  <2> DEFINE r == line[1]  w == Whole  m == Marked(1)
  <2>5. r \in Line({<<>>, <<1>>}) /\ m = [r EXCEPT !.via = w]
    BY <2>1, <2>4
  <2> HIDE DEF r, w, m
  <2>6. m \in Line({w}) /\ m.no = r.no /\ r.no \in Nat
    BY <2>5 DEF Line
  <2> QED BY <2>6 DEF r, w, m
<1>3. UNCHANGED <<start, status, argv, forks>> /\ text'[1] = Unrolled(Rest(1)) /\ Mine(1)
  BY <1>1 DEF family, lives, Mine, PipeInv, PipeTypeInv
<1> DEFINE l == Marked(1)
<1> HIDE DEF l
<1>4. screen \in Seq(Line({Whole})) /\ Rising(screen) /\ \A i \in DOMAIN screen : screen[i].no <= line[1].no
  BY DEF PipeInv, PipeTypeInv, FlowInv
<1>5. /\ Append(screen, l) \in Seq(Line({Whole})) /\ Len(screen) \in Nat /\ DOMAIN screen = 1..Len(screen)
      /\ DOMAIN Append(screen, l) = 1..Len(screen) + 1 /\ Append(screen, l)[Len(screen) + 1] = l
      /\ \A i \in DOMAIN screen : Append(screen, l)[i] = screen[i]
  BY <1>2, <1>4, OneMore DEF l
<1>6. Rising(Append(screen, l))
  BY <1>2, <1>4, RisingOn DEF l
<1>7. \A i \in DOMAIN Append(screen, l) : Append(screen, l)[i].no <= line[1].no
  <2>1. \A i \in 1..Len(screen) + 1 : i \in 1..Len(screen) \/ i = Len(screen) + 1
    BY <1>5
  <2> QED BY <1>2, <1>4, <1>5, <2>1 DEF l
<1>8. screen' = Append(screen, l)
  BY <1>1 DEF l
<1>9. FlowInv'
  BY <1>1, <1>6, <1>7, <1>8 DEF PipeInv, FlowInv, Between, Rising
<1>10. PipeTypeInv'
  BY <1>1, <1>3, <1>5, <1>8, SameProgram DEF PipeInv, PipeTypeInv, Mine, Between
<1>11. WriterInv'
  BY <1>1, <1>3, WriterKeeps DEF PipeInv
<1> QED BY <1>1, <1>3, <1>9, <1>10, <1>11

LEMMA ReaderReads ==
    ASSUME PipeInv, Running1, text[1] \in {ReadsPipe, Reads(2), ReadsOne(2)}, Wired(1, Out, Tty), pipes # <<>>,
           text[1] = ReadsPipe => Popened /\ Wired(1, Reading, ReadEnd),
           text[1] # ReadsPipe => ~Popened /\ Wired(1, In, ReadEnd),
           Process(1) \/ Shell(1)
    PROVE  PipeInv'
<1>1. /\ Call(1).op = "read" /\ Source(1) = ReadEnd
      /\ text[1] # ReadsPipe => Call(1).eof = "exit"
      /\ text[1] = ReadsPipe => Call(1).eof = "break"
  <2>1. CASE text[1] = ReadsPipe
    BY <2>1, SetUpTexts DEF Call, Source, Read, Wired
  <2>2. CASE text[1] # ReadsPipe
    BY <2>2, FilterTexts DEF Call, Source, ReadOrExit, Wired
  <2> QED BY <2>1, <2>2
<1>2. ReadPipe(1) \/ ReadEof(1)
  BY <1>1, FourNames, ByCall DEF ReadTty, Running1
<1>3. CASE ReadPipe(1)
  <2>1. /\ UNCHANGED <<start, status, forks, fds>> /\ pipes' # <<>>
        /\ text'[1] = Unrolled(Rest(1)) /\ line'[1].via = <<1>>
        /\ PipeTypeInv' /\ FlowInv' /\ WriterInv'
    BY <1>1, <1>3, TakesLine
  <2>2. \/ Popened /\ text'[1] = WritesLine /\ Wired(1, Reading, ReadEnd)
        \/ ~Popened /\ text'[1] \in {Writes(2), One(2)} /\ Wired(1, In, ReadEnd)
    <3>1. CASE text[1] = ReadsPipe
      BY <2>1, <3>1, SetUpTexts DEF Rest
    <3>2. CASE text[1] # ReadsPipe
      BY <2>1, <3>2, FilterTexts DEF Rest
    <3> QED BY <3>1, <3>2
  <2>3. ReaderInv'
    BY <2>1, <2>2, SameProgram DEF ReaderInv, Wired
  <2> QED BY <2>1, <2>3 DEF PipeInv
<1>4. CASE ReadEof(1)
  <2>1. CASE Call(1).eof = "exit"
    <3>1. Terminate(1, 0) /\ UNCHANGED <<family, line, data>>
      BY <1>4, <2>1 DEF ReadEof
    <3> QED BY <3>1, PipeEnds DEF Running1
  <2>2. CASE text[1] = ReadsPipe
    <3>1. text' = [text EXCEPT ![1] = Leaving] /\ UNCHANGED <<family, lives, fds, line, data>>
      BY <1>1, <1>4, <2>2, PrintsAll, ShellTexts DEF ReadEof, GoOn
    <3>2. text'[1] = Leaving /\ UNCHANGED <<fds, pipes, files, typed, screen>>
      BY <3>1 DEF data, PipeInv, PipeTypeInv, Running1
    <3>3. ReaderInv'
      BY <3>2 DEF ReaderInv, Wired
    <3> QED BY <3>1, <3>2, <3>3, ReaderMoves
  <2> QED BY <1>1, <2>1, <2>2
<1> QED BY <1>2, <1>3, <1>4

LEMMA ReaderWrites ==
    ASSUME PipeInv, Running1, text[1] \in {WritesLine, Writes(2), One(2)}, Wired(1, Out, Tty), pipes # <<>>,
           line[1].via = << 1 >>,
           text[1] = WritesLine => Popened /\ Wired(1, Reading, ReadEnd),
           text[1] # WritesLine => ~Popened /\ Wired(1, In, ReadEnd),
           Process(1) \/ Shell(1)
    PROVE  PipeInv'
<1>1. /\ Call(1).op = "write" /\ Source(1) = Tty
      /\ Call(1).mark = IF Popened THEN <<>> ELSE <<2>>
  <2>1. CASE text[1] = WritesLine
    BY <2>1, SetUpTexts DEF Call, Source, Write, Wired
  <2>2. CASE text[1] # WritesLine
    BY <2>2, FilterTexts DEF Call, Source, Write, Wired
  <2> QED BY <2>1, <2>2
<1>2. WriteTty(1)
  BY <1>1, FourNames, ByCall DEF WritePipe, WriteFile, WriteBroken, Running1
<1>3. line[1].via \o Call(1).mark = Whole
  <2>1. <<1>> \o <<>> = <<1>>
    <3>1. <<1>> \in Seq(Nat)
      OBVIOUS
    <3> QED BY <3>1, ConcatEmptySeq
  <2> QED BY <1>1, <2>1, ConcatOnes DEF Whole
<1>4. /\ UNCHANGED <<start, status, forks, fds, pipes, line>>
      /\ text'[1] = Unrolled(Rest(1))
      /\ PipeTypeInv' /\ FlowInv' /\ WriterInv'
  BY <1>2, <1>3, PutsLine
<1>5. \/ Popened /\ text'[1] = ReadsPipe /\ Wired(1, Reading, ReadEnd)
      \/ ~Popened /\ text'[1] = Reads(2) /\ Wired(1, In, ReadEnd)
      \/ text'[1] = Leaving
  <2>1. CASE text[1] = WritesLine
    BY <1>4, <2>1, SetUpTexts DEF Rest
  <2>2. CASE text[1] # WritesLine
    BY <1>4, <2>2, FilterTexts DEF Rest
  <2> QED BY <2>1, <2>2
<1>6. ReaderInv'
  BY <1>4, <1>5, SameProgram DEF ReaderInv, Wired
<1> QED BY <1>4, <1>6 DEF PipeInv

LEMMA ReaderStep == ASSUME PipeInv, 1 \in Pids, Process(1) \/ Shell(1) PROVE PipeInv'
<1>1. Running1
  BY ByCall DEF Running1
<1>2. CASE text[1] = Leaving
  <2>1. Call(1).op = "exit"
    BY <1>2, FilterTexts DEF Call, ExitWith
  <2>2. SysExit(1)
    BY <2>1, ByCall
  <2>3. PICK s : Terminate(1, s) /\ UNCHANGED <<family, line, data>>
    BY <2>2 DEF SysExit
  <2> QED BY <1>1, <2>3, PipeEnds DEF Running1
<1>3. CASE text[1] = Opening
  BY <1>1, <1>3, ReaderOpens
<1>4. CASE text[1] \notin {Leaving, Opening}
  <2>1. /\ Wired(1, Out, Tty)
        /\ \/ /\ text[1] = Dividing /\ Wired(1, In, Tty) /\ pipes # <<>> /\ NoChild
              /\ Wired(1, Reading, ReadEnd) /\ Wired(1, Writing, WriteEnd)
           \/ text[1] = Behind /\ Wired(1, Reading, ReadEnd) /\ pipes # <<>>
           \/ /\ Popened /\ pipes # <<>>
              /\ text[1] = ReadsPipe \/ (text[1] = WritesLine /\ line[1].via = <<1>>)
              /\ Wired(1, Reading, ReadEnd)
           \/ ~Popened /\ text[1] = Joining /\ Wired(1, Reading, ReadEnd) /\ pipes # <<>>
           \/ /\ ~Popened /\ pipes # <<>>
              /\ \/ text[1] \in {Joined, Become(2), Reads(2), ReadsOne(2)}
                 \/ text[1] \in {Writes(2), One(2)} /\ line[1].via = <<1>>
              /\ Wired(1, In, ReadEnd)
    BY <1>1, <1>4 DEF PipeInv, ReaderInv, Running1
  <2>2. CASE text[1] = Dividing /\ Wired(1, In, Tty) /\ pipes # <<>> /\ NoChild
             /\ Wired(1, Reading, ReadEnd) /\ Wired(1, Writing, WriteEnd)
    BY <1>1, <2>1, <2>2, ReaderDivides
  <2>3. /\ Joined # Behind /\ Joined # Joining /\ Joining # Behind
        /\ ReadsPipe # Reads(2) /\ ReadsPipe # ReadsOne(2)
        /\ WritesLine # Writes(2) /\ WritesLine # One(2)
    <3>1. /\ Close(Reading) # Close(Writing)
          /\ Dup2(Reading, In).op = "dup2" /\ Close(Reading).op = "close" /\ Close(Writing).op = "close"
          /\ Read(Reading) # ReadOrExit(In) /\ Write(Out, <<>>) # Write(Out, <<2>>)
      BY FourNames DEF Close, Dup2, Read, ReadOrExit, Write
    <3> QED BY <3>1, SetUpTexts, FilterTexts
  <2>4. CASE text[1] = Behind /\ Wired(1, Reading, ReadEnd) /\ pipes # <<>>
    BY <1>1, <2>1, <2>3, <2>4, ReaderJoins
  <2>5. CASE Popened /\ pipes # <<>> /\ Wired(1, Reading, ReadEnd) /\ text[1] = ReadsPipe
    BY <1>1, <2>1, <2>5, ReaderReads
  <2>6. CASE Popened /\ pipes # <<>> /\ Wired(1, Reading, ReadEnd) /\ text[1] = WritesLine /\ line[1].via = <<1>>
    BY <1>1, <2>1, <2>6, ReaderWrites
  <2>7. CASE ~Popened /\ text[1] = Joining /\ Wired(1, Reading, ReadEnd) /\ pipes # <<>>
    BY <1>1, <2>1, <2>3, <2>7, ReaderJoins
  <2>8. CASE ~Popened /\ pipes # <<>> /\ Wired(1, In, ReadEnd) /\ text[1] = Joined
    BY <1>1, <2>1, <2>3, <2>8, ReaderJoins
  <2>9. CASE ~Popened /\ pipes # <<>> /\ Wired(1, In, ReadEnd) /\ text[1] = Become(2)
    BY <1>1, <2>1, <2>9, ReaderBecomes
  <2>10. CASE ~Popened /\ pipes # <<>> /\ Wired(1, In, ReadEnd) /\ text[1] \in {Reads(2), ReadsOne(2)}
    BY <1>1, <2>1, <2>3, <2>10, ReaderReads
  <2>11. CASE ~Popened /\ pipes # <<>> /\ Wired(1, In, ReadEnd) /\ text[1] \in {Writes(2), One(2)} /\ line[1].via = <<1>>
    BY <1>1, <2>1, <2>3, <2>11, ReaderWrites
  <2> QED BY <2>1, <2>2, <2>4, <2>5, <2>6, <2>7, <2>8, <2>9, <2>10, <2>11
<1> QED BY <1>2, <1>3, <1>4

-----------------------------------------------------------------------------
(* The steps of process 2                                                   *)

Running2 == 1 \in Pids /\ 2 \in Pids /\ status[2] = "running"

\* It closes the end that it does not use, and takes the other one for its output.
LEMMA WriterJoins ==
    ASSUME PipeInv, Running2, text[2] \in {Feeding, Feeding1, Feeding2}, Wired(2, In, Tty),
           text[2] # Feeding2 => Wired(2, Writing, WriteEnd),
           text[2] = Feeding2 => Wired(2, Out, WriteEnd),
           Process(2) \/ Shell(2)
    PROVE  PipeInv'
<1>1. 2 \in Pids /\ DOMAIN fds = Pids
  BY DEF PipeInv, PipeTypeInv, Running2
<1>2. /\ Head(Feeding2).fd = Writing /\ Head(Feeding).fd = Reading
      /\ Head(Feeding2).op = "close" /\ Head(Feeding).op = "close" /\ Head(Feeding1).op = "dup2"
  BY SetUpTexts DEF Close, Dup2
<1>3. CASE text[2] = Feeding
  <2>1. SysClose(2) /\ Call(2).fd = Reading /\ Unrolled(Rest(2)) = Feeding1
    BY <1>2, <1>3, SetUpTexts, ByCall DEF Call, Rest, Running2
  <2>2. /\ text' = [text EXCEPT ![2] = Feeding1] /\ fds' = [fds EXCEPT ![2] = Without(2, Reading)]
        /\ UNCHANGED <<family, lives, line, data>>
    BY <2>1 DEF SysClose, GoOn
  <2>3. /\ In \in DOMAIN fds'[2] /\ fds'[2][In] = Tty
        /\ Writing \in DOMAIN fds'[2] /\ fds'[2][Writing] = WriteEnd
    <3>1. Feeding # Feeding2
      BY <1>2, FourNames
    <3> QED BY <1>1, <1>3, <2>2, <3>1, FourNames DEF Without, Wired
  <2>4. Wired(2, In, Tty)' /\ Wired(2, Writing, WriteEnd)'
    BY <2>2, <2>3, SameProgram DEF Wired, family
  <2> QED BY <2>2, <2>4, WriterMoves DEF Running2
<1>4. CASE text[2] = Feeding1
  <2>1. SysDup2(2) /\ Call(2).fd = Writing /\ Call(2).to = Out /\ Unrolled(Rest(2)) = Feeding2
    BY <1>2, <1>4, SetUpTexts, ByCall DEF Call, Rest, Running2, Dup2
  <2> DEFINE new == [d \in {Out} |-> fds[2][Writing]]
  <2>2. /\ text' = [text EXCEPT ![2] = Feeding2] /\ fds' = [fds EXCEPT ![2] = With(2, new)]
        /\ UNCHANGED <<family, lives, line, data>>
    BY <2>1 DEF SysDup2, GoOn
  <2>3. DOMAIN new = {Out} /\ new[Out] = WriteEnd
    BY <1>2, <1>4 DEF Wired
  <2> HIDE DEF new
  <2>4. Wired(2, In, Tty)' /\ Wired(2, Out, WriteEnd)'
    BY <1>1, <2>2, <2>3, FourNames DEF With, Wired
  <2> QED BY <2>2, <2>4, WriterMoves DEF Running2
<1>5. CASE text[2] = Feeding2
  <2>1. SysClose(2) /\ Call(2).fd = Writing /\ Unrolled(Rest(2)) = Become(1)
    BY <1>2, <1>5, SetUpTexts, ByCall DEF Call, Rest, Running2
  <2>2. /\ text' = [text EXCEPT ![2] = Become(1)] /\ fds' = [fds EXCEPT ![2] = Without(2, Writing)]
        /\ UNCHANGED <<family, lives, line, data>>
    BY <2>1 DEF SysClose, GoOn
  <2>3. Wired(2, In, Tty)' /\ Wired(2, Out, WriteEnd)'
    BY <1>1, <1>5, <2>2, FourNames DEF Without, Wired
  <2> QED BY <2>2, <2>3, WriterMoves DEF Running2
<1> QED BY <1>3, <1>4, <1>5

\* It becomes the first command, or ends if there is no such command.
LEMMA WriterBecomes ==
    ASSUME PipeInv, Running2, text[2] = Become(1), Wired(2, In, Tty), Wired(2, Out, WriteEnd),
           argv[2] = start.argv, Process(2) \/ Shell(2)
    PROVE  PipeInv'
<1>1. Call(2).op = "exec" /\ Call(2).n = 1 /\ Unrolled(Rest(2)) = Leaving
  BY SetUpTexts DEF Call, Rest, Exec
<1>2. SysExec(2)
  BY <1>1, ByCall DEF Running2
<1>3. argv[2][1] \in Words \ {NoWord}
  <2>1. CASE start.program = "pipe"
    BY <2>1 DEF PipeInv, PipeTypeInv, Given
  <2>2. CASE start.argv = <<"ls">>
    <3>1. "ls" \in Words \ {NoWord}
      BY DEF Words, NoWord
    <3> QED BY <2>2, <3>1
  <2> QED BY <2>1, <2>2 DEF PipeInv, PipeTypeInv
<1>4. UNCHANGED <<family, lives, fds, line, data>> /\ \E t \in Running(1) : text' = [text EXCEPT ![2] = t]
  <2>1. CASE argv[2][1] = "nosuch"
    <3>1. text' = [text EXCEPT ![2] = Leaving] /\ Leaving \in Running(1)
      BY <1>1, <1>2, <2>1 DEF SysExec, GoOn, Running
    <3> QED BY <1>2, <3>1 DEF SysExec
  <2>2. CASE argv[2][1] # "nosuch"
    <3>1. text' = [text EXCEPT ![2] = Unrolled(Command(argv[2][1], 1))]
      BY <1>1, <1>2, <2>2 DEF SysExec, GoOn
    <3> QED BY <1>2, <1>3, <2>2, <3>1, CommandTexts DEF SysExec
  <2> QED BY <2>1, <2>2
<1>5. PICK t \in Running(1) : text' = [text EXCEPT ![2] = t]
  BY <1>4
<1>6. Wired(2, In, Tty)' /\ Wired(2, Out, WriteEnd)'
  BY <1>4 DEF Wired
<1> QED BY <1>4, <1>5, <1>6, WriterMoves DEF Running2

\* It reads a line of the terminal.
LEMMA ReadsLine ==
    ASSUME PipeInv, Running2, ReadTty(2), Wired(2, In, Tty), Wired(2, Out, WriteEnd), pipes # <<>>,
           argv[2] = start.argv, Unrolled(Rest(2)) \in Running(1)
    PROVE  PipeInv'
<1>1. /\ text' = [text EXCEPT ![2] = Unrolled(Rest(2))] /\ typed' = typed + 1
      /\ line' = [line EXCEPT ![2] = [no |-> typed + 1, via |-> <<>>]]
      /\ UNCHANGED <<family, lives, fds, pipes, files, screen>>
  BY DEF ReadTty, GoOn
<1>2. /\ UNCHANGED <<start, status, argv, forks>> /\ text'[2] = Unrolled(Rest(2)) /\ Mine(2)
  BY <1>1 DEF family, lives, Mine, PipeInv, PipeTypeInv, Running2
<1>3. /\ line'[2].no = typed + 1 /\ line'[2].via = <<>> /\ line'[1] = line[1] /\ typed \in Nat
      /\ line' \in [Pids -> Line({<<>>, <<1>>})]
  <2>1. [no |-> typed + 1, via |-> <<>>] \in Line({<<>>, <<1>>})
    BY DEF Line, PipeInv, PipeTypeInv
  <2> QED BY <1>1, <2>1 DEF PipeInv, PipeTypeInv, Running2
<1>4. PipeTypeInv'
  BY <1>1, <1>2, <1>3, SameProgram DEF PipeInv, PipeTypeInv, Mine, Between
<1>5. FlowInv'
  <2>1. Between' = Between /\ screen' = screen
    BY <1>1 DEF Between
  <2>2. line[1].no \in Nat /\ line[2].no \in Nat /\ \A i \in DOMAIN Between : Between[i].no \in Nat
    <3>1. \A i \in DOMAIN Between : Between[i] \in Line({<<1>>})
      BY LenProperties, ElementOfSeq DEF PipeInv, PipeTypeInv
    <3> QED BY <3>1 DEF Line, PipeInv, PipeTypeInv, Running2
  <2>3. line[1].no <= line[2].no /\ line[2].no <= typed /\ \A i \in DOMAIN Between : Between[i].no <= line[2].no
    BY DEF PipeInv, FlowInv, Running2
  <2>4. line'[1].no <= line'[2].no /\ line'[2].no <= typed' /\ \A i \in DOMAIN Between : Between[i].no <= line'[2].no
    BY <1>1, <1>3, <2>2, <2>3
  <2> QED BY <1>3, <2>1, <2>4 DEF PipeInv, FlowInv, Rising
<1>6. ReaderInv'
  BY <1>1, <1>2, ReaderKeeps DEF PipeInv, Running2
<1>7. WriterInv'
  BY <1>1, <1>2, SameProgram DEF PipeInv, WriterInv, Wired
<1> QED BY <1>4, <1>5, <1>6, <1>7 DEF PipeInv

\* It writes the line that it has into the pipe.
LEMMA PassesLine ==
    ASSUME PipeInv, Running2, WritePipe(2), Source(2) = WriteEnd, Call(2).mark = << 1 >>,
           Wired(2, In, Tty), Wired(2, Out, WriteEnd), pipes # <<>>,
           argv[2] = start.argv, Unrolled(Rest(2)) \in Running(1)
    PROVE  PipeInv'
<1>1. Source(2)[2] = 1 /\ pipes[1] = Between /\ pipes = <<Between>>
  BY FourNames DEF Between, PipeInv, PipeTypeInv
<1>2. /\ text' = [text EXCEPT ![2] = Unrolled(Rest(2))]
      /\ pipes' = [pipes EXCEPT ![1] = Append(@, Marked(2))]
      /\ UNCHANGED <<family, lives, fds, line, typed, screen>>
  BY <1>1 DEF WritePipe, GoOn
<1>3. /\ UNCHANGED <<start, status, argv, forks>> /\ text'[2] = Unrolled(Rest(2)) /\ Mine(2)
  BY <1>2 DEF family, lives, Mine, PipeInv, PipeTypeInv, Running2
<1>4. Marked(2) \in Line({<<1>>}) /\ Marked(2).no = line[2].no /\ line[2].no \in Nat
  <2> DEFINE v == line[2].via \o Call(2).mark
  <2>1. v = <<1>>
    <3>1. <<1>> \in Seq(Nat)
      OBVIOUS
    <3>2. <<>> \o <<1>> = <<1>>
      BY <3>1, ConcatEmptySeq
    <3>3. line[2].via = <<>>
      BY DEF PipeInv, PipeTypeInv, Running2
    <3> QED BY <3>2, <3>3
  <2>2. Marked(2) = [line[2] EXCEPT !.via = v]
    BY DEF Marked
  <2> HIDE DEF v
  <2>3. line[2] \in Line({<<>>, <<1>>})
    BY DEF PipeInv, PipeTypeInv, Running2
  <2> DEFINE r == line[2]  m == Marked(2)
  <2>4. r \in Line({<<>>, <<1>>}) /\ m = [r EXCEPT !.via = <<1>>]
    BY <2>1, <2>2, <2>3
  <2> HIDE DEF r, m
  <2>5. m \in Line({<<1>>}) /\ m.no = r.no /\ r.no \in Nat
    BY <2>4 DEF Line
  <2> QED BY <2>5 DEF r, m
<1> DEFINE l == Marked(2)  s == Between
<1>5. l \in Line({<<1>>}) /\ l.no = line[2].no
  BY <1>4
<1>6. s \in Seq(Line({<<1>>})) /\ Rising(s) /\ \A i \in DOMAIN s : s[i].no <= line[2].no
  BY DEF PipeInv, PipeTypeInv, FlowInv, Running2
<1>7. pipes = <<s>> /\ pipes' = [pipes EXCEPT ![1] = Append(@, l)]
  BY <1>1, <1>2
<1> HIDE DEF l, s
<1>8. pipes' = <<Append(s, l)>>
  BY <1>7
<1>9. Between' = Append(s, l) /\ pipes' # <<>>
  <2>1. pipes' # <<>> /\ pipes'[1] = Append(s, l)
    BY <1>8
  <2> QED BY <2>1 DEF Between
<1>10. /\ Append(s, l) \in Seq(Line({<<1>>})) /\ Len(s) \in Nat /\ DOMAIN s = 1..Len(s)
       /\ DOMAIN Append(s, l) = 1..Len(s) + 1 /\ Append(s, l)[Len(s) + 1] = l
       /\ \A i \in DOMAIN s : Append(s, l)[i] = s[i]
  BY <1>5, <1>6, OneMore
<1>11. PipeTypeInv'
  <2>1. pipes' = <<Between'>>
    BY <1>8, <1>9
  <2> QED BY <1>2, <1>3, <1>9, <1>10, <2>1, SameProgram DEF PipeInv, PipeTypeInv, Mine
<1>12. FlowInv'
  <2>1. Rising(Append(s, l))
    BY <1>5, <1>6, RisingOn
  <2>2. \A i \in 1..Len(s) + 1 : i \in DOMAIN s \/ i = Len(s) + 1
    BY <1>10
  <2>3. line[1].no <= line[2].no /\ line[2].no <= typed /\ line[2].no \in Nat /\ Rising(screen)
        /\ (\A i \in DOMAIN s : line[1].no <= s[i].no)
        /\ \A i \in DOMAIN screen : screen[i].no <= line[1].no
    BY <1>4 DEF PipeInv, FlowInv, Running2, s
  <2>4. \A i \in DOMAIN Append(s, l) : Append(s, l)[i].no <= line[2].no
    BY <1>5, <1>6, <1>10, <2>2, <2>3
  <2>5. \A i \in DOMAIN Append(s, l) : line[1].no <= Append(s, l)[i].no
    BY <1>5, <1>10, <2>2, <2>3
  <2> QED BY <1>2, <1>9, <2>1, <2>3, <2>4, <2>5 DEF FlowInv, Rising
<1>13. ReaderInv'
  BY <1>2, <1>3, <1>9, ReaderKeeps DEF PipeInv, Running2
<1>14. WriterInv'
  BY <1>2, <1>3, <1>9, SameProgram DEF PipeInv, WriterInv, Wired
<1> QED BY <1>11, <1>12, <1>13, <1>14 DEF PipeInv

\* The first command runs, with the terminal as its input and the pipe as its output.
LEMMA WriterRuns ==
    ASSUME PipeInv, Running2, text[2] \in Running(1), Wired(2, In, Tty), Wired(2, Out, WriteEnd),
           pipes # <<>>, argv[2] = start.argv, Process(2) \/ Shell(2)
    PROVE  PipeInv'
<1>1. CASE Head(text[2]) = ReadOrExit(In) /\ Unrolled(Tail(text[2])) \in Running(1)
  <2>1. Call(2).op = "read" /\ Call(2).eof = "exit" /\ Source(2) = Tty
    BY <1>1 DEF Call, Source, ReadOrExit, Wired
  <2>2. ReadTty(2) \/ ReadEof(2)
    BY <2>1, FourNames, ByCall DEF ReadPipe, Running2
  <2>3. CASE ReadTty(2)
    BY <1>1, <2>3, ReadsLine DEF Rest
  <2>4. CASE ReadEof(2)
    <3>1. Terminate(2, 0) /\ UNCHANGED <<family, line, data>>
      BY <2>1, <2>4 DEF ReadEof
    <3> QED BY <3>1, PipeEnds DEF Running2
  <2> QED BY <2>2, <2>3, <2>4
<1>2. CASE Head(text[2]) = Write(Out, <<1>>) /\ Unrolled(Tail(text[2])) \in Running(1)
  <2>1. Call(2).op = "write" /\ Call(2).mark = <<1>> /\ Source(2) = WriteEnd
    BY <1>2 DEF Call, Source, Write, Wired
  <2>2. WritePipe(2) \/ WriteBroken(2)
    BY <2>1, FourNames, ByCall DEF WriteTty, WriteFile, Running2
  <2>3. CASE WritePipe(2)
    BY <1>2, <2>1, <2>3, PassesLine DEF Rest
  <2>4. CASE WriteBroken(2)
    <3>1. Terminate(2, SigPipe) /\ UNCHANGED <<family, line, data>>
      BY <2>4 DEF WriteBroken
    <3> QED BY <3>1, PipeEnds DEF Running2
  <2> QED BY <2>2, <2>3, <2>4
<1>3. CASE Head(text[2]) = ExitWith(0)
  <2>1. Call(2).op = "exit"
    BY <1>3 DEF Call, ExitWith
  <2>2. SysExit(2)
    BY <2>1, ByCall DEF Running2
  <2>3. PICK s : Terminate(2, s) /\ UNCHANGED <<family, line, data>>
    BY <2>2 DEF SysExit
  <2> QED BY <2>3, PipeEnds DEF Running2
<1> QED BY <1>1, <1>2, <1>3, CommandTexts

LEMMA WriterStep == ASSUME PipeInv, 1 \in Pids, 2 \in Pids, Process(2) \/ Shell(2) PROVE PipeInv'
<1>1. Running2
  BY ByCall DEF Running2
<1>2. /\ argv[2] = start.argv /\ pipes # <<>> /\ Wired(2, In, Tty)
      /\ \/ text[2] \in {Feeding, Feeding1} /\ Wired(2, Writing, WriteEnd)
         \/ text[2] \in {Feeding2, Become(1)} \cup Running(1) /\ Wired(2, Out, WriteEnd)
  BY <1>1 DEF PipeInv, WriterInv, Running2
<1>3. Feeding # Feeding2 /\ Feeding1 # Feeding2
  <2>1. Head(Feeding).fd # Head(Feeding2).fd /\ Head(Feeding1).op # Head(Feeding2).op
    BY SetUpTexts, FourNames DEF Close, Dup2
  <2> QED BY <2>1
<1>4. CASE text[2] \in {Feeding, Feeding1}
  <2>1. CASE Wired(2, Writing, WriteEnd)
    BY <1>1, <1>2, <1>3, <1>4, <2>1, WriterJoins
  <2>2. CASE text[2] \in {Feeding2, Become(1)} \cup Running(1)
    <3>1. Head(Feeding).op = "close" /\ Head(Feeding1).op = "dup2" /\ Head(Become(1)).op = "exec"
      BY SetUpTexts DEF Close, Dup2, Exec
    <3> QED BY <1>3, <1>4, <2>2, <3>1, ShellCalls
  <2> QED BY <1>2, <2>1, <2>2
<1>5. CASE text[2] = Feeding2 /\ Wired(2, Out, WriteEnd)
  BY <1>1, <1>2, <1>5, WriterJoins
<1>6. CASE text[2] = Become(1) /\ Wired(2, Out, WriteEnd)
  BY <1>1, <1>2, <1>6, WriterBecomes
<1>7. CASE text[2] \in Running(1) /\ Wired(2, Out, WriteEnd)
  BY <1>1, <1>2, <1>7, WriterRuns
<1> QED BY <1>2, <1>4, <1>5, <1>6, <1>7

-----------------------------------------------------------------------------
(* The invariant of the pipe                                                *)

LEMMA StartOfPipe ==
    ASSUME PipesOnly, NEW s \in Starts
    PROVE  \/ \E a \in [1..2 -> Given], l \in Nat, f \in 0..MaxProcs - 1 :
                s = Run("pipe", PipeMain, a, l, f) /\ a[2] \in Filters
           \/ \E f \in 0..MaxProcs - 1 : s = Run("popen", PopenMain, <<"ls">>, 0, f)
<1>1. CASE s \in PopenStarts(0..MaxProcs - 1)
  BY <1>1 DEF PopenStarts
<1>2. CASE s \in PipeStarts(Given, Nat, 0..MaxProcs - 1) /\ s.argv[2] \in Filters
  <2>1. PICK a \in [1..2 -> Given], l \in Nat, f \in 0..MaxProcs - 1 : s = Run("pipe", PipeMain, a, l, f)
    BY <1>2 DEF PipeStarts
  <2>2. s.argv = a
    BY <2>1 DEF Run
  <2> QED BY <1>2, <2>1, <2>2
<1> QED BY <1>1, <1>2 DEF PipesOnly

LEMMA PipeInit == ASSUME PipesOnly PROVE Init => PipeInv
<1> SUFFICES ASSUME Init PROVE PipeInv
  OBVIOUS
<1>1. PICK s \in Starts : start = [s EXCEPT !.text = Empty]
                          /\ text = [p \in Pids |-> IF p = 1 THEN s.text ELSE Empty]
  BY DEF Init
<1>2. 1 \in Pids
  BY KernelAssumption DEF Pids
<1>3. /\ \/ /\ start.program = "pipe" /\ start.argv \in [1..2 -> Given] /\ start.argv[2] \in Filters
            /\ text[1] = PipeMain
         \/ start.program = "popen" /\ start.argv = <<"ls">> /\ text[1] = PopenMain
      /\ start.forks \in 0..MaxProcs - 1
  <2>1. CASE \E a \in [1..2 -> Given], l \in Nat, f \in 0..MaxProcs - 1 :
                s = Run("pipe", PipeMain, a, l, f) /\ a[2] \in Filters
    <3>1. PICK a \in [1..2 -> Given], l \in Nat, f \in 0..MaxProcs - 1 :
                s = Run("pipe", PipeMain, a, l, f) /\ a[2] \in Filters
      BY <2>1
    <3>2. start.program = "pipe" /\ start.argv = a /\ start.forks = f /\ text[1] = PipeMain
      BY <1>1, <1>2, <3>1 DEF Run
    <3> QED BY <3>1, <3>2
  <2>2. CASE \E f \in 0..MaxProcs - 1 : s = Run("popen", PopenMain, <<"ls">>, 0, f)
    <3>1. PICK f \in 0..MaxProcs - 1 : s = Run("popen", PopenMain, <<"ls">>, 0, f)
      BY <2>2
    <3>2. start.program = "popen" /\ start.argv = <<"ls">> /\ start.forks = f /\ text[1] = PopenMain
      BY <1>1, <1>2, <3>1 DEF Run
    <3> QED BY <3>1, <3>2
  <2> QED BY <2>1, <2>2, StartOfPipe
<1>4. text[1] = Opening /\ DOMAIN text = Pids
  BY <1>1, <1>3 DEF Opening, Popened
<1>5. /\ status = [p \in Pids |-> IF p = 1 THEN "running" ELSE "free"]
      /\ argv = [p \in Pids |-> IF p = 1 THEN start.argv ELSE Empty]
      /\ fds = [p \in Pids |-> IF p = 1 THEN [d \in {In, Out} |-> Tty] ELSE Empty]
      /\ line = [p \in Pids |-> NoLine]
      /\ pipes = <<>> /\ typed = 0 /\ screen = <<>> /\ forks = start.forks
  BY DEF Init
<1>6. NoLine \in Line({<<>>, <<1>>}) /\ NoLine.via = <<>> /\ NoLine.no = 0
  BY DEF NoLine, Line
<1>7. Between = <<>>
  BY <1>5 DEF Between
<1>8. PipeTypeInv
  <2>1. status \in [Pids -> {"free", "running", "zombie", "gone"}]
    BY <1>5
  <2>2. line \in [Pids -> Line({<<>>, <<1>>})] /\ (2 \in Pids => line[2].via = <<>>)
    BY <1>5, <1>6
  <2>3. screen \in Seq(Line({Whole})) /\ Between \in Seq(Line({<<1>>}))
    BY <1>5, <1>7, EmptySeq
  <2> QED BY <1>2, <1>3, <1>4, <1>5, <2>1, <2>2, <2>3 DEF PipeTypeInv
<1>9. FlowInv
  BY <1>2, <1>5, <1>6, <1>7 DEF FlowInv, Rising
<1>10. NoChild
  BY <1>5 DEF NoChild
<1>11. Wired(1, In, Tty) /\ Wired(1, Out, Tty)
  BY <1>2, <1>5 DEF Wired
<1>12. ReaderInv
  BY <1>4, <1>5, <1>10, <1>11 DEF ReaderInv
<1>13. WriterInv
  BY <1>5 DEF WriterInv
<1> QED BY <1>8, <1>9, <1>12, <1>13 DEF PipeInv

LEMMA PipeStutter == PipeInv /\ UNCHANGED vars => PipeInv'
<1> SUFFICES ASSUME PipeInv, UNCHANGED vars PROVE PipeInv'
  OBVIOUS
<1>1. /\ UNCHANGED <<start, argv, forks, status, text, fds, line, pipes, typed, screen>>
  BY DEF vars, family, lives, data
<1>2. Between' = Between
  BY <1>1 DEF Between
<1>3. PipeTypeInv' /\ FlowInv'
  BY <1>1, <1>2, SameProgram DEF PipeInv, PipeTypeInv, FlowInv, Rising
<1>4. NoChild' <=> NoChild
  BY <1>1 DEF NoChild
<1>5. ReaderInv'
  BY <1>1, <1>4, SameProgram DEF PipeInv, ReaderInv, Wired
<1>6. WriterInv'
  BY <1>1, SameProgram DEF PipeInv, WriterInv, Wired
<1> QED BY <1>3, <1>5, <1>6 DEF PipeInv

LEMMA PipeStep == PipeInv /\ [NextAll]_vars => PipeInv'
<1> SUFFICES ASSUME PipeInv, [NextAll]_vars PROVE PipeInv'
  OBVIOUS
<1>1. 1 \in Pids
  BY KernelAssumption DEF Pids
<1>2. CASE UNCHANGED vars \/ Idle
  BY <1>2, PipeStutter DEF Idle
<1>3. CASE \E p \in Pids : Process(p) \/ Shell(p)
  <2>1. PICK p \in Pids : Process(p) \/ Shell(p)
    BY <1>3
  <2>2. status[p] = "running"
    BY <2>1, ByCall
  <2>3. p = 1 \/ p = 2
    BY <2>2 DEF PipeInv, WriterInv
  <2> QED BY <1>1, <2>1, <2>3, ReaderStep, WriterStep
<1> QED BY <1>2, <1>3 DEF NextAll

-----------------------------------------------------------------------------
(* The theorems about it                                                    *)

LEMMA WholeChain == ASSUME PipeInv PROVE Chain = Whole
<1>1. CASE start.program = "pipe"
  <2>1. start.argv \in [1..2 -> Given]
    BY <1>1 DEF PipeInv, PipeTypeInv
  <2>2. Len(start.argv) = 2
    <3>1. start.argv \in Seq(Given) /\ DOMAIN start.argv = 1..2
      BY <2>1, SeqDef
    <3>2. DOMAIN start.argv = 1..Len(start.argv) /\ Len(start.argv) \in Nat
      BY <3>1, LenProperties
    <3>3. \A n \in Nat : 1..n = 1..2 => n = 2
      <4> SUFFICES ASSUME NEW n \in Nat, 1..n = 1..2 PROVE n = 2
        OBVIOUS
      <4>1. 2 \in 1..n
        OBVIOUS
      <4>2. n \in 1..2
        BY <4>1
      <4> QED BY <4>1, <4>2
    <3> QED BY <3>1, <3>2, <3>3
  <2>3. [n \in 1..2 |-> n] = <<1, 2>>
    OBVIOUS
  <2> QED BY <1>1, <2>2, <2>3 DEF Chain, Whole, Popened
<1>2. CASE start.program = "popen"
  <2>1. Len(start.argv) = 1
    <3>1. start.argv = <<"ls">>
      BY <1>2 DEF PipeInv, PipeTypeInv
    <3>2. Len(<<"ls">>) = 1
      OBVIOUS
    <3> QED BY <3>1, <3>2
  <2>2. [n \in 1..1 |-> n] = <<1>>
    OBVIOUS
  <2> QED BY <1>2, <2>1, <2>2 DEF Chain, Whole, Popened
<1> QED BY <1>1, <1>2 DEF PipeInv, PipeTypeInv

\* Whatever the first command of pipe_p.c is, if the second one copies its input, and in
\* popen_p.c: every line on the screen has passed both processes, in the order of the
\* command line, and the lines are in the order in which they were typed; so no process
\* reads or writes an end of the pipe that is not its own (pipe_p.c, popen_p.c).
THEOREM LinesInOrder == ASSUME PipesOnly PROVE FairSpecAll => []InOrder
<1>1. Init => PipeInv
  BY PipeInit
<1>2. PipeInv /\ [NextAll]_vars => PipeInv'
  BY PipeStep
<1>3. PipeInv => InOrder
  <2> SUFFICES ASSUME PipeInv
               PROVE  \A i \in DOMAIN screen :
                          screen[i].via = Chain /\ (i > 1 => screen[i - 1].no <= screen[i].no)
    <3>1. PipeInv => start.program # "loop"
      BY DEF PipeInv, PipeTypeInv
    <3> QED BY <3>1 DEF InOrder
  <2> TAKE i \in DOMAIN screen
  <2>1. screen \in Seq(Line({Whole})) /\ DOMAIN screen = 1..Len(screen) /\ Len(screen) \in Nat
    BY LenProperties DEF PipeInv, PipeTypeInv
  <2>2. screen[i] \in Line({Whole})
    BY <2>1, ElementOfSeq
  <2>3. screen[i].via = Chain
    BY <2>2, WholeChain DEF Line
  <2>4. i > 1 => i - 1 \in DOMAIN screen /\ i - 1 <= i
    BY <2>1
  <2> QED BY <2>3, <2>4 DEF PipeInv, FlowInv, Rising
<1> QED BY <1>1, <1>2, <1>3, PTL DEF FairSpecAll

\* A process writes to the screen when it is running, and it is process 1.
LEMMA WhoShows ==
    ASSUME PipeInv, [NextAll]_vars, screen' # screen
    PROVE  status[1] = "running"
<1>1. ~UNCHANGED vars
  BY DEF vars, data
<1>2. PICK p \in Pids : Process(p) \/ Shell(p)
  BY <1>1 DEF NextAll, Idle
<1>3. SysExit(p) \/ SysFork(p) \/ ForkFails(p) \/ SysExec(p) \/ SysWait(p) \/ SysWaitPid(p) => screen' = screen
  BY DEF SysExit, SysFork, ForkFails, SysExec, SysWait, SysWaitPid, data
<1>4. SysPipe(p) \/ SysClose(p) \/ SysCreat(p) \/ SysDup2(p) => screen' = screen
  BY DEF SysPipe, SysClose, SysCreat, SysDup2, data
<1>5. ReadTty(p) \/ ReadPipe(p) \/ ReadEof(p) \/ WritePipe(p) \/ WriteFile(p) \/ WriteBroken(p) => screen' = screen
  BY DEF ReadTty, ReadPipe, ReadEof, WritePipe, WriteFile, WriteBroken, data
<1>6. Shell(p) => Call(p).op \in {"arg", "waitfor", "report"}
  BY DEF Shell, ReadArg, ArgAtEof, PromptAgain, WaitForChild, ReportStatus, At, Call
<1>7. status[p] = "running"
  BY <1>2, ByCall
<1>8. p = 1 \/ p = 2
  BY <1>7 DEF PipeInv, WriterInv
<1>9. ASSUME p = 2 PROVE FALSE
  <2>1. /\ \/ text[2] \in {Feeding, Feeding1}
           \/ text[2] \in {Feeding2, Become(1)} \cup Running(1) /\ Wired(2, Out, WriteEnd)
    BY <1>7, <1>9 DEF PipeInv, WriterInv
  <2>2. \/ Call(2).op \in {"close", "dup2", "exec", "read", "exit"}
        \/ Call(2).op = "write" /\ Call(2).fd = Out /\ Wired(2, Out, WriteEnd)
    <3>1. /\ Head(Feeding).op = "close" /\ Head(Feeding1).op = "dup2" /\ Head(Feeding2).op = "close"
          /\ Head(Become(1)).op = "exec"
      BY SetUpTexts DEF Close, Dup2, Exec
    <3>2. \A t \in Running(1) : \/ Head(t).op \in {"read", "exit"}
                                \/ Head(t).op = "write" /\ Head(t).fd = Out
      BY CommandTexts DEF ReadOrExit, Write, ExitWith
    <3> QED BY <2>1, <3>1, <3>2 DEF Call
  <2>3. ~Shell(2)
    BY <1>6, <1>9, <2>2
  <2>4. WriteTty(2)
    BY <1>2, <1>3, <1>4, <1>5, <1>9, <2>3 DEF Process
  <2>5. Call(2).op = "write" /\ Source(2) = Tty
    BY <2>4 DEF WriteTty, At, Call
  <2>6. Source(2) = WriteEnd
    BY <2>2, <2>5 DEF Source, Wired
  <2> QED BY <2>5, <2>6, FourNames
<1> QED BY <1>7, <1>8, <1>9

\* When the process that the user's shell waits for has ended, nothing of the pipeline is
\* written to the screen any more: the parent is the last command of pipe_p.c, and it is
\* the parent that prints what ls of popen_p.c writes.
THEOREM NothingAfterTheEnd == ASSUME PipesOnly PROVE FairSpecAll => OutputBeforeEnd
<1>1. Init => PipeInv
  BY PipeInit
<1>2. PipeInv /\ [NextAll]_vars => PipeInv'
  BY PipeStep
<1>3. PipeInv /\ [NextAll]_vars => [Piping /\ Ended(1) => screen' = screen]_vars
  <2> SUFFICES ASSUME PipeInv, [NextAll]_vars, Ended(1) PROVE screen' = screen
    OBVIOUS
  <2>1. status[1] # "running"
    BY DEF Ended
  <2> QED BY <2>1, WhoShows
<1> QED BY <1>1, <1>2, <1>3, PTL DEF FairSpecAll, OutputBeforeEnd

-----------------------------------------------------------------------------
(* The two sorts of hw6, for every array                                    *)

\* Any set of natural numbers that is not empty has a least member: < is well-founded.
LEMMA LeastNat == ASSUME NEW T, T \subseteq Nat, T # {} PROVE \E x \in T : \A y \in T : ~(y < x)
<1> DEFINE Less == OpToRel(<, Nat)
<1>1. IsWellFoundedOn(Less, Nat)
  BY NatLessThanWellFounded DEF OpToRel
<1>2. \E x \in T : \A y \in T : ~ (<<y, x>> \in Less)
  <2> HIDE DEF Less
  <2> QED BY <1>1, WFMin
<1>3. Less = {s \in Nat \X Nat : s[1] < s[2]}
  BY DEF OpToRel
<1> HIDE DEF Less
<1>4. PICK x \in T : \A y \in T : ~ (<<y, x>> \in Less)
  BY <1>2
<1>5. \A y \in T : ~(y < x)
  BY <1>3, <1>4
<1> QED BY <1>5

\* Induction over a set of numbers; the theorems of NaturalsInduction are about operators.
LEMMA SetInduction ==
  ASSUME NEW T, 0 \in T, \A n \in Nat : n \in T => n + 1 \in T
  PROVE Nat \subseteq T
<1>1. SUFFICES ASSUME Nat \ T # {} PROVE FALSE
  OBVIOUS
<1>2. PICK x \in Nat \ T : \A y \in Nat \ T : ~(y < x)
  BY <1>1, LeastNat
<1>3. x # 0 /\ x - 1 \in Nat
  BY <1>2
<1>4. x - 1 \in T
  BY <1>2, <1>3
<1>5. x \in T
  BY <1>3, <1>4
<1> QED BY <1>5, <1>2

\* The largest of some numbers.
LEMMA Largest ==
  ASSUME NEW n \in Nat, NEW s \in SUBSET (1..n), s # {}
  PROVE  Max(s) \in s /\ \A y \in s : y <= Max(s)
<1> DEFINE T == {n - x : x \in s}
<1>1. T \subseteq Nat /\ T # {}
  <2>1. \A x \in s : n - x \in Nat
    OBVIOUS
  <2>2. PICK x \in s : TRUE
    OBVIOUS
  <2>3. n - x \in T
    OBVIOUS
  <2> QED BY <2>1, <2>3
<1>2. PICK t \in T : \A y \in T : ~(y < t)
  BY <1>1, LeastNat
<1>3. PICK x \in s : t = n - x
  BY <1>2
<1>4. \A y \in s : x >= y
  BY <1>2, <1>3
<1> QED BY <1>4 DEF Max

\* g folds every set of the numbers from 1 to n, from the largest down, as MapThenFoldSet does.
IsIter(g, n, A, base, F) ==
  /\ g \in [SUBSET (1..n) -> A]
  /\ \A s \in SUBSET (1..n) : g[s] = IF s = {} THEN base ELSE F[<<g[s \ {Max(s)}], Max(s)>>]

\* There is a function that takes such steps.
LEMMA IterExists ==
  ASSUME NEW N \in Nat, NEW A, NEW base \in A, NEW F \in [A \X (1..N) -> A]
  PROVE  \E g : IsIter(g, N, A, base, F)
<1> DEFINE T == {n \in Nat : n <= N => \E g : IsIter(g, n, A, base, F)}
<1>1. 0 \in T
  <2> DEFINE g == [s \in SUBSET (1..0) |-> base]
  <2>1. IsIter(g, 0, A, base, F)
    <3>1. 1..0 = {}
      OBVIOUS
    <3> QED BY <3>1 DEF IsIter
  <2> QED BY <2>1
<1>2. \A n \in Nat : n \in T => n + 1 \in T
  <2> SUFFICES ASSUME NEW n \in Nat, n + 1 <= N, NEW g, IsIter(g, n, A, base, F)
               PROVE \E h : IsIter(h, n + 1, A, base, F)
    OBVIOUS
  <2> DEFINE h == [s \in SUBSET (1..n + 1) |->
                     IF n + 1 \in s THEN F[<<g[s \ {n + 1}], n + 1>>] ELSE g[s]]
  <2>1. ASSUME NEW s \in SUBSET (1..n + 1), n + 1 \in s
        PROVE /\ Max(s) = n + 1 /\ s \ {Max(s)} \in SUBSET (1..n)
              /\ h[s] = F[<<h[s \ {Max(s)}], Max(s)>>] /\ h[s] \in A
    <3>1. Max(s) = n + 1
      <4> HIDE DEF h
      <4>1. n + 1 \in Nat /\ s # {}
        BY <2>1
      <4>2. Max(s) \in s /\ n + 1 <= Max(s)
        BY <2>1, <4>1, Largest
      <4>3. Max(s) \in 1..n + 1
        BY <4>2
      <4> QED BY <4>2, <4>3
    <3>2. s \ {n + 1} \in SUBSET (1..n)
      OBVIOUS
    <3>3. s \ {n + 1} \in SUBSET (1..n + 1) /\ h[s \ {n + 1}] = g[s \ {n + 1}]
      OBVIOUS
    <3>4. g[s \ {n + 1}] \in A
      BY <3>2 DEF IsIter
    <3>5. F[<<g[s \ {n + 1}], n + 1>>] \in A
      BY <3>4
    <3> QED BY <2>1, <3>1, <3>2, <3>3, <3>5
  <2>2. ASSUME NEW s \in SUBSET (1..n + 1), n + 1 \notin s
        PROVE  /\ h[s] \in A
               /\ h[s] = IF s = {} THEN base ELSE F[<<h[s \ {Max(s)}], Max(s)>>]
    <3>1. s \in SUBSET (1..n) /\ s \ {Max(s)} \in SUBSET (1..n) /\ n + 1 \notin s \ {Max(s)}
      <4> HIDE DEF h
      <4>1. \A x \in 1..n + 1 : x # n + 1 => x \in 1..n
        OBVIOUS
      <4> QED BY <2>2, <4>1
    <3>2. h[s] = g[s] /\ h[s \ {Max(s)}] = g[s \ {Max(s)}]
      BY <3>1, <2>2
    <3> HIDE DEF h
    <3> QED BY <3>1, <3>2 DEF IsIter
  <2>3. h \in [SUBSET (1..n + 1) -> A]
    <3>1. \A s \in SUBSET (1..n + 1) : h[s] \in A
      BY <2>1, <2>2
    <3>2. h = [s \in SUBSET (1..n + 1) |-> h[s]]
      OBVIOUS
    <3> HIDE DEF h
    <3> QED BY <3>1, <3>2
  <2>4. IsIter(h, n + 1, A, base, F)
    <3>1. \A s \in SUBSET (1..n + 1) : n + 1 \in s => h[s] = F[<<h[s \ {Max(s)}], Max(s)>>]
      BY <2>1
    <3>2. \A s \in SUBSET (1..n + 1) : n + 1 \notin s =>
              h[s] = IF s = {} THEN base ELSE F[<<h[s \ {Max(s)}], Max(s)>>]
      BY <2>2
    <3> HIDE DEF h
    <3> QED BY <2>3, <3>1, <3>2 DEF IsIter
  <2> QED BY <2>4
<1> HIDE DEF T
<1>3. Nat \subseteq T
  BY <1>1, <1>2, SetInduction
<1>4. N \in T
  BY <1>3
<1> QED BY <1>4 DEF T

\* A fold over the numbers from 1 to N, taken from the largest down.
Follows(it, N, A, base, F) ==
    /\ N \in Nat /\ base \in A /\ F \in [A \X (1..N) -> A] /\ it[{}] = base
    /\ \A s \in SUBSET (1..N) : s # {} /\ it[s \ {Max(s)}] \in A => it[s] = F[<<it[s \ {Max(s)}], Max(s)>>]

\* It takes one step for each number, in their order.
Steps(h, N, A, base, F) ==
    /\ h \in [0..N -> A] /\ h[0] = base
    /\ \A k \in 1..N : h[k] = F[<<h[k - 1], k>>]

LEMMA FoldSteps ==
  ASSUME NEW N, NEW A, NEW base, NEW F, NEW it, Follows(it, N, A, base, F)
  PROVE  \E h : Steps(h, N, A, base, F) /\ h[N] = it[1..N]
<1>0. N \in Nat /\ base \in A /\ F \in [A \X (1..N) -> A]
  BY DEF Follows
<1> DEFINE T == {k \in Nat : k <= N => it[1..k] \in A}
<1>1. 1..0 = {}
  OBVIOUS
<1>2. ASSUME NEW k \in 1..N, it[1..k - 1] \in A
      PROVE  it[1..k] = F[<<it[1..k - 1], k>>] /\ it[1..k] \in A
  <2>1. Max(1..k) = k
    <3>1. k \in Nat /\ k \in 1..k
      BY <1>0
    <3>2. Max(1..k) \in 1..k /\ k <= Max(1..k)
      BY <3>1, Largest
    <3> QED BY <3>1, <3>2
  <2>2. 1..k \in SUBSET (1..N) /\ 1..k # {} /\ (1..k) \ {k} = 1..k - 1
    <3>1. \A x \in 1..k : x \in 1..N /\ (x # k => x \in 1..k - 1)
      BY <1>0
    <3>2. k \in 1..k /\ \A x \in 1..k - 1 : x \in 1..k /\ x # k
      BY <1>0
    <3> QED BY <3>1, <3>2
  <2>3. it[1..k] = F[<<it[1..k - 1], k>>]
    BY <1>2, <2>1, <2>2 DEF Follows
  <2> QED BY <1>0, <1>2, <2>3
<1>3. 0 \in T
  BY <1>0, <1>1 DEF Follows
<1>4. \A k \in Nat : k \in T => k + 1 \in T
  <2>0. \A k : k \in T <=> k \in Nat /\ (k <= N => it[1..k] \in A)
    OBVIOUS
  <2>1. ASSUME NEW k \in Nat, k \in T, k + 1 <= N PROVE it[1..k + 1] \in A
    <3>1. k + 1 \in 1..N /\ (k + 1) - 1 = k /\ it[1..k] \in A
      BY <1>0, <2>1
    <3> HIDE DEF T
    <3> QED BY <1>2, <3>1
  <2> HIDE DEF T
  <2>2. \A k \in Nat : k \in T => k + 1 \in Nat /\ (k + 1 <= N => it[1..k + 1] \in A)
    BY <2>1
  <2> QED BY <2>0, <2>2
<1> HIDE DEF T
<1>5. Nat \subseteq T
  BY <1>3, <1>4, SetInduction
<1>6. \A k \in 0..N : it[1..k] \in A
  BY <1>0, <1>5 DEF T
<1> DEFINE h == [k \in 0..N |-> it[1..k]]
<1>7. h \in [0..N -> A]
  BY <1>6
<1>8. h[0] = base /\ h[N] = it[1..N]
  BY <1>0, <1>1 DEF Follows
<1>9. \A k \in 1..N : h[k] = F[<<h[k - 1], k>>]
  <2> SUFFICES ASSUME NEW k \in 1..N PROVE h[k] = F[<<h[k - 1], k>>]
    OBVIOUS
  <2>1. k \in 0..N /\ k - 1 \in 0..N
    BY <1>0
  <2> QED BY <1>2, <1>6, <2>1
<1> HIDE DEF h
<1> QED BY <1>7, <1>8, <1>9 DEF Steps

\* Products and quotients: k - 1 = n * (i - 1) + (j - 1) is place k in row i and column j.
LEMMA Multiples == ASSUME NEW n \in Nat, NEW d \in Nat, d # 0 PROVE n <= n * d
OBVIOUS

LEMMA DivMod == ASSUME NEW n \in Nat \ {0}, NEW x \in Nat
  PROVE /\ x \div n \in Nat /\ x % n \in 0..n - 1 /\ x = n * (x \div n) + (x % n)
<1>1. x \div n \in Int /\ x % n \in 0..n - 1
  OBVIOUS
<1>2. x = n * (x \div n) + (x % n)
  OBVIOUS
<1>3. ~(x \div n <= -1)
  <2>1. x \div n <= -1 => n * (x \div n) <= -n
    BY <1>1
  <2> QED BY <1>1, <1>2, <2>1
<1> QED BY <1>1, <1>2, <1>3

LEMMA DivUnique ==
  ASSUME NEW n \in Nat \ {0}, NEW q \in Int, NEW r \in 0..n - 1, NEW p \in Int, NEW s \in 0..n - 1,
         n * q + r = n * p + s
  PROVE q = p /\ r = s
<1>1. n * (q - p) = s - r
  OBVIOUS
<1>2. ~(q - p >= 1)
  <2>1. q - p >= 1 => n * (q - p) >= n
    OBVIOUS
  <2> QED BY <1>1, <2>1
<1>3. ~(p - q >= 1)
  <2>1. p - q >= 1 => n * (p - q) >= n
    OBVIOUS
  <2>2. n * (p - q) = r - s
    BY <1>1
  <2> QED BY <2>2, <2>1
<1> QED BY <1>2, <1>3

LEMMA DivNext == ASSUME NEW n \in Nat \ {0}, NEW x \in Nat
  PROVE /\ x % n = n - 1 => (x + 1) \div n = (x \div n) + 1 /\ (x + 1) % n = 0
        /\ x % n # n - 1 => (x + 1) \div n = x \div n /\ (x + 1) % n = (x % n) + 1
<1> DEFINE q == x \div n  r == x % n  p == (x + 1) \div n  s == (x + 1) % n
<1>1. q \in Nat /\ r \in 0..n - 1 /\ x = n * q + r /\ p \in Nat /\ s \in 0..n - 1 /\ x + 1 = n * p + s
  <2>1. q \in Nat /\ r \in 0..n - 1 /\ x = n * q + r
    BY DivMod
  <2> DEFINE y == x + 1
  <2>2. y \in Nat
    OBVIOUS
  <2> HIDE DEF y
  <2>3. y \div n \in Nat /\ y % n \in 0..n - 1 /\ y = n * (y \div n) + (y % n)
    BY <2>2, DivMod
  <2> QED BY <2>1, <2>3 DEF y
<1> HIDE DEF q, r, p, s
<1>2. CASE r = n - 1
  <2>1. n * (q + 1) + 0 = n * p + s /\ q + 1 \in Int /\ 0 \in 0..n - 1
    BY <1>1, <1>2
  <2>2. p = q + 1 /\ s = 0
    BY <1>1, <2>1, DivUnique
  <2> QED BY <2>2, <1>2 DEF q, r, p, s
<1>3. CASE r # n - 1
  <2> DEFINE u == r + 1
  <2>1. n * q + u = n * p + s /\ u \in 0..n - 1 /\ q \in Int /\ p \in Int
    BY <1>1, <1>3
  <2>2. p = q /\ s = u
    <3> HIDE DEF u
    <3> QED BY <1>1, <2>1, DivUnique
  <2> QED BY <2>2, <1>3 DEF q, r, p, s
<1> QED BY <1>2, <1>3

LEMMA DivLess == ASSUME NEW n \in Nat \ {0}, NEW x \in Nat, x < n * n PROVE x \div n < n
<1> DEFINE q == x \div n  r == x % n
<1>1. q \in Nat /\ r \in 0..n - 1 /\ x = n * q + r 
  BY DivMod
<1> HIDE DEF q, r
<1>2. q >= n => n * q >= n * n
  BY <1>1
<1> QED BY <1>1, <1>2 DEF q, r

LEMMA DivLast == ASSUME NEW n \in Nat \ {0} PROVE (n * n - 1) \div n = n - 1 /\ (n * n - 1) % n = n - 1
<1> DEFINE q == (n * n - 1) \div n  r == (n * n - 1) % n
<1>1. n * n - 1 \in Nat
  BY Multiples
<1>2. q \in Nat /\ r \in 0..n - 1 /\ n * n - 1 = n * q + r 
  BY <1>1, DivMod
<1> HIDE DEF q, r
<1>3. n * (n - 1) + (n - 1) = n * q + r /\ n - 1 \in 0..n - 1 /\ n - 1 \in Int
  BY <1>2
<1>4. q = n - 1 /\ r = n - 1
  BY <1>2, <1>3, DivUnique
<1> QED BY <1>4 DEF q, r

\* Two elements are exchanged if they are in the wrong order.
Exchange(up, s, i, j) ==
    IF (up /\ s[i] < s[j]) \/ (~up /\ s[i] > s[j]) THEN Swapped(s, i, j) ELSE s

\* The one or the other of the two functions.
Sort(up, a) == IF up THEN ascending_sort(a) ELSE descending_sort(a)

\* Arrays of n integers.
IntArrays(n) == [1..n -> Int]

\* How many places there are; the provers need not multiply where this is not expanded.
Square(n) == n * n

\* The steps of the sort, as a function.
Exchanges(up, a) ==
    [x \in IntArrays(Len(a)) \X (1..Square(Len(a))) |->
        Exchange(up, x[1], Places(a)[x[2]][1], Places(a)[x[2]][2])]

\* How the arrays are to be sorted.
Before(up, x, y) == IF up THEN x <= y ELSE x >= y

\* While the places from 1 to j have been compared with place i: the first i - 1 elements
\* are sorted, and the last of them, or from then on place i, holds one that is first of all
\* in the reverse order.
RowInv(up, s, n, i, j) ==
    /\ \A p, q \in 1..i - 1 : p <= q => Before(up, s[p], s[q])
    /\ \A p \in 1..j : p < i => Before(up, s[p], s[i])
    /\ i > 1 /\ j < i - 1 => \A p \in 1..n : Before(up, s[p], s[i - 1])
    /\ i > 1 /\ j >= i - 1 => \A p \in 1..n : Before(up, s[p], s[i])
    /\ i = 1 => \A p \in 1..j : Before(up, s[p], s[i])

\* What an exchange does.
LEMMA ExchangeType ==
  ASSUME NEW n \in Nat, NEW up \in BOOLEAN, NEW s \in IntArrays(n), NEW i \in 1..n, NEW j \in 1..n
  PROVE  /\ Exchange(up, s, i, j) \in IntArrays(n)
         /\ \A p \in 1..n : Exchange(up, s, i, j)[p] =
              IF ~Before(up, s[j], s[i]) THEN IF p = i THEN s[j] ELSE IF p = j THEN s[i] ELSE s[p]
              ELSE s[p]
<1>1. \A p \in 1..n : s[p] \in Int
  BY DEF IntArrays
<1>2. Swapped(s, i, j) \in IntArrays(n)
  BY <1>1 DEF Swapped, IntArrays
<1>3. \A p \in 1..n : Swapped(s, i, j)[p] = IF p = j THEN s[i] ELSE IF p = i THEN s[j] ELSE s[p]
  BY DEF Swapped, IntArrays
<1> QED BY <1>1, <1>2, <1>3 DEF Exchange, Before

\* The places of row i come one after the other, and after them those of row i + 1.
LEMMA PlacesInOrder ==
  ASSUME NEW a \in Seq(Int), NEW n, n = Len(a), n # 0, NEW N, N = Square(n), NEW k \in 1..N
  PROVE  /\ Places(a)[k][1] \in 1..n /\ Places(a)[k][2] \in 1..n
         /\ k = 1 => Places(a)[k] = <<1, 1>>
         /\ k = N => Places(a)[k] = <<n, n>>
         /\ k < N => Places(a)[k + 1] =
              IF Places(a)[k][2] = n THEN <<Places(a)[k][1] + 1, 1>>
              ELSE <<Places(a)[k][1], Places(a)[k][2] + 1>>
<1>0. n \in Nat \ {0}
  OBVIOUS
<1>1. n \in Nat \ {0} /\ N \in Nat /\ N >= n
  BY <1>0, Multiples DEF Square
<1> DEFINE x == k - 1
<1>2. x \in Nat /\ x < n * n /\ k = x + 1
  BY <1>1 DEF Square
<1>3. \A m \in 1..N : Places(a)[m] = <<1 + ((m - 1) \div n), 1 + ((m - 1) % n)>>
  <2>1. DOMAIN Places(a) = 1..N
    BY DEF Places, Square
  <2> QED BY <2>1 DEF Places
<1>4. x \div n \in 0..n - 1 /\ x % n \in 0..n - 1
  <2>1. x \div n < n
    BY <1>1, <1>2, DivLess
  <2>2. x \div n \in Nat /\ x % n \in 0..n - 1
    BY <1>1, <1>2, DivMod
  <2> QED BY <1>1, <2>1, <2>2
<1>5. Places(a)[k] = <<1 + (x \div n), 1 + (x % n)>>
  BY <1>3
<1>6. k = 1 => Places(a)[k] = <<1, 1>>
  <2> SUFFICES ASSUME k = 1 PROVE x \div n = 0 /\ x % n = 0
    BY <1>5
  <2>1. x = 0
    OBVIOUS
  <2>2. n * 0 + 0 = n * (x \div n) + (x % n)
    BY <1>1, <1>2, <2>1, DivMod
  <2>3. 0 \in 0..n - 1 /\ x \div n \in Int
    BY <1>1, <1>4
  <2> QED BY <1>1, <1>4, <2>2, <2>3, DivUnique
<1>7. k = N => Places(a)[k] = <<n, n>>
  <2> SUFFICES ASSUME k = N PROVE Places(a)[k] = <<n, n>>
    OBVIOUS
  <2>1. x = n * n - 1
    BY DEF Square
  <2>2. x \div n = n - 1 /\ x % n = n - 1
    BY <1>0, <2>1, DivLast
  <2>3. 1 + (n - 1) = n
    BY <1>0
  <2> QED BY <1>5, <2>2, <2>3
<1>8. ASSUME k < N
      PROVE  Places(a)[k + 1] = IF 1 + (x % n) = n THEN <<1 + (x \div n) + 1, 1>>
                                ELSE <<1 + (x \div n), 1 + (x % n) + 1>>
  <2>1. k + 1 \in 1..N /\ (k + 1) - 1 = x + 1
    BY <1>1, <1>2, <1>8
  <2>2. Places(a)[k + 1] = <<1 + ((x + 1) \div n), 1 + ((x + 1) % n)>>
    BY <1>3, <2>1
  <2>3. /\ x % n = n - 1 => (x + 1) \div n = (x \div n) + 1 /\ (x + 1) % n = 0
        /\ x % n # n - 1 => (x + 1) \div n = x \div n /\ (x + 1) % n = (x % n) + 1
    BY <1>1, <1>2, DivNext
  <2> DEFINE q == x \div n  r == x % n  u == (x + 1) \div n  v == (x + 1) % n
  <2>4. q \in 0..n - 1 /\ r \in 0..n - 1
    BY <1>4
  <2>5. /\ r = n - 1 => u = q + 1 /\ v = 0
        /\ r # n - 1 => u = q /\ v = r + 1
        /\ Places(a)[k + 1] = <<1 + u, 1 + v>>
    BY <2>2, <2>3
  <2> HIDE DEF q, r, u, v
  <2>6. Places(a)[k + 1] = IF 1 + r = n THEN <<1 + q + 1, 1>> ELSE <<1 + q, 1 + r + 1>>
    BY <1>1, <2>4, <2>5
  <2> QED BY <2>6 DEF q, r
<1> DEFINE p == Places(a)[k]
<1>9. p[1] = 1 + (x \div n) /\ p[2] = 1 + (x % n) /\ p[1] \in 1..n /\ p[2] \in 1..n
  <2> DEFINE q == x \div n  r == x % n
  <2>1. q \in 0..n - 1 /\ r \in 0..n - 1 /\ p = <<1 + q, 1 + r>>
    BY <1>4, <1>5
  <2> HIDE DEF q, r, p
  <2>2. p[1] = 1 + q /\ p[2] = 1 + r /\ p[1] \in 1..n /\ p[2] \in 1..n
    BY <1>1, <2>1
  <2> QED BY <2>2 DEF q, r
<1>10. k < N => Places(a)[k + 1] = IF p[2] = n THEN <<p[1] + 1, 1>> ELSE <<p[1], p[2] + 1>>
  BY <1>8, <1>9
<1> QED BY <1>6, <1>7, <1>9, <1>10

\* Every place is one of the array.
LEMMA PlacesOf ==
  ASSUME NEW a \in Seq(Int), NEW N, N = Square(Len(a)), NEW k \in 1..N
  PROVE  Places(a)[k][1] \in 1..Len(a) /\ Places(a)[k][2] \in 1..Len(a)
<1>1. CASE Len(a) = 0
  <2>1. N = 0
    BY <1>1 DEF Square
  <2> QED BY <2>1
<1>2. CASE Len(a) # 0
  BY <1>2, PlacesInOrder
<1> QED BY <1>1, <1>2

\* The function that the definition of ascending_sort() chooses exists, and is a fold.
LEMMA UpIsFold ==
  ASSUME NEW a \in Seq(Int), NEW N, N = Square(Len(a)),
         \A k \in 1..N : Places(a)[k][1] \in 1..Len(a) /\ Places(a)[k][2] \in 1..Len(a)
  PROVE  \E it : Follows(it, N, IntArrays(Len(a)), a, Exchanges(TRUE, a)) /\ ascending_sort(a) = it[1..N]
<1> DEFINE A == IntArrays(Len(a))
           F == Exchanges(TRUE, a)
           B(it) == [s \in SUBSET (1..N) |->
                       IF s = {} THEN a
                       ELSE IF it[s \ {Max(s)}][Places(a)[Max(s)][1]] < it[s \ {Max(s)}][Places(a)[Max(s)][2]]
                            THEN Swapped(it[s \ {Max(s)}], Places(a)[Max(s)][1], Places(a)[Max(s)][2])
                            ELSE it[s \ {Max(s)}]]
           it == CHOOSE h : h = B(h)
<1>1. N \in Nat /\ DOMAIN Places(a) = 1..N
  BY DEF Places, Square
<1>2. ascending_sort(a) = it[1..N]
  BY <1>1 DEF ascending_sort, FoldLeft, MapThenFoldSet
<1>3. ASSUME NEW t, NEW s \in SUBSET (1..N), s # {}, t[s \ {Max(s)}] \in A
      PROVE  B(t)[s] = F[<<t[s \ {Max(s)}], Max(s)>>]
  <2> DEFINE v == t[s \ {Max(s)}]
  <2>1. Max(s) \in 1..N
    BY <1>1, <1>3, Largest
  <2>2. B(t)[s] = Exchange(TRUE, v, Places(a)[Max(s)][1], Places(a)[Max(s)][2])
    BY <1>3 DEF Exchange
  <2>3. v \in A
    BY <1>3
  <2> HIDE DEF v, B
  <2>4. F[<<v, Max(s)>>] = Exchange(TRUE, v, Places(a)[Max(s)][1], Places(a)[Max(s)][2])
    BY <2>1, <2>3 DEF Exchanges
  <2> QED BY <2>2, <2>4 DEF v
<1>4. a \in A /\ F \in [A \X (1..N) -> A]
  <2>1. a \in A
    BY DEF IntArrays
  <2>2. ASSUME NEW v \in A, NEW k \in 1..N
        PROVE  Exchange(TRUE, v, Places(a)[k][1], Places(a)[k][2]) \in A
    <3> DEFINE n == Len(a)  i == Places(a)[k][1]  j == Places(a)[k][2]
    <3>1. n \in Nat /\ v \in IntArrays(n) /\ i \in 1..n /\ j \in 1..n /\ TRUE \in BOOLEAN
      OBVIOUS
    <3> HIDE DEF n, i, j, A
    <3>2. Exchange(TRUE, v, i, j) \in IntArrays(n)
      BY <3>1, ExchangeType
    <3> QED BY <3>2 DEF n, i, j, A
  <2>3. \A x \in A \X (1..N) : F[x] \in A
    BY <2>2 DEF Exchanges
  <2> QED BY <2>1, <2>3 DEF Exchanges
<1>5. PICK g : IsIter(g, N, A, a, F)
  <2> HIDE DEF A, F
  <2> QED BY <1>1, <1>4, IterExists
<1>6. g = B(g)
  <2>1. ASSUME NEW s \in SUBSET (1..N), s # {} PROVE g[s] = B(g)[s]
    <3>1. s \ {Max(s)} \in SUBSET (1..N)
      OBVIOUS
    <3>2. g[s \ {Max(s)}] \in A /\ g[s] = F[<<g[s \ {Max(s)}], Max(s)>>]
      BY <1>5, <2>1, <3>1 DEF IsIter
    <3> HIDE DEF B, F, A
    <3> QED BY <1>3, <2>1, <3>2
  <2>2. g[{}] = B(g)[{}]
    BY <1>5 DEF IsIter
  <2>3. g = [s \in SUBSET (1..N) |-> g[s]]
    BY <1>5 DEF IsIter
  <2>4. B(g) = [s \in SUBSET (1..N) |-> B(g)[s]]
    OBVIOUS
  <2> HIDE DEF B
  <2> QED BY <2>1, <2>2, <2>3, <2>4
<1>7. it = B(it)
  <2> HIDE DEF B
  <2> QED BY <1>6
<1>8. it[{}] = a
  BY <1>7
<1> HIDE DEF B, it, A, F
<1>9. Follows(it, N, A, a, F)
  BY <1>1, <1>3, <1>4, <1>7, <1>8 DEF Follows
<1> QED BY <1>2, <1>9 DEF A, F

\* The same for descending_sort().
LEMMA DownIsFold ==
  ASSUME NEW a \in Seq(Int), NEW N, N = Square(Len(a)),
         \A k \in 1..N : Places(a)[k][1] \in 1..Len(a) /\ Places(a)[k][2] \in 1..Len(a)
  PROVE  \E it : Follows(it, N, IntArrays(Len(a)), a, Exchanges(FALSE, a)) /\ descending_sort(a) = it[1..N]
<1> DEFINE A == IntArrays(Len(a))
           F == Exchanges(FALSE, a)
           B(it) == [s \in SUBSET (1..N) |->
                       IF s = {} THEN a
                       ELSE IF it[s \ {Max(s)}][Places(a)[Max(s)][1]] > it[s \ {Max(s)}][Places(a)[Max(s)][2]]
                            THEN Swapped(it[s \ {Max(s)}], Places(a)[Max(s)][1], Places(a)[Max(s)][2])
                            ELSE it[s \ {Max(s)}]]
           it == CHOOSE h : h = B(h)
<1>1. N \in Nat /\ DOMAIN Places(a) = 1..N
  BY DEF Places, Square
<1>2. descending_sort(a) = it[1..N]
  BY <1>1 DEF descending_sort, FoldLeft, MapThenFoldSet
<1>3. ASSUME NEW t, NEW s \in SUBSET (1..N), s # {}, t[s \ {Max(s)}] \in A
      PROVE  B(t)[s] = F[<<t[s \ {Max(s)}], Max(s)>>]
  <2> DEFINE v == t[s \ {Max(s)}]
  <2>1. Max(s) \in 1..N
    BY <1>1, <1>3, Largest
  <2>2. B(t)[s] = Exchange(FALSE, v, Places(a)[Max(s)][1], Places(a)[Max(s)][2])
    BY <1>3 DEF Exchange
  <2>3. v \in A
    BY <1>3
  <2> HIDE DEF v, B
  <2>4. F[<<v, Max(s)>>] = Exchange(FALSE, v, Places(a)[Max(s)][1], Places(a)[Max(s)][2])
    BY <2>1, <2>3 DEF Exchanges
  <2> QED BY <2>2, <2>4 DEF v
<1>4. a \in A /\ F \in [A \X (1..N) -> A]
  <2>1. a \in A
    BY DEF IntArrays
  <2>2. ASSUME NEW v \in A, NEW k \in 1..N
        PROVE  Exchange(FALSE, v, Places(a)[k][1], Places(a)[k][2]) \in A
    <3> DEFINE n == Len(a)  i == Places(a)[k][1]  j == Places(a)[k][2]
    <3>1. n \in Nat /\ v \in IntArrays(n) /\ i \in 1..n /\ j \in 1..n /\ FALSE \in BOOLEAN
      OBVIOUS
    <3> HIDE DEF n, i, j, A
    <3>2. Exchange(FALSE, v, i, j) \in IntArrays(n)
      BY <3>1, ExchangeType
    <3> QED BY <3>2 DEF n, i, j, A
  <2>3. \A x \in A \X (1..N) : F[x] \in A
    BY <2>2 DEF Exchanges
  <2> QED BY <2>1, <2>3 DEF Exchanges
<1>5. PICK g : IsIter(g, N, A, a, F)
  <2> HIDE DEF A, F
  <2> QED BY <1>1, <1>4, IterExists
<1>6. g = B(g)
  <2>1. ASSUME NEW s \in SUBSET (1..N), s # {} PROVE g[s] = B(g)[s]
    <3>1. s \ {Max(s)} \in SUBSET (1..N)
      OBVIOUS
    <3>2. g[s \ {Max(s)}] \in A /\ g[s] = F[<<g[s \ {Max(s)}], Max(s)>>]
      BY <1>5, <2>1, <3>1 DEF IsIter
    <3> HIDE DEF B, F, A
    <3> QED BY <1>3, <2>1, <3>2
  <2>2. g[{}] = B(g)[{}]
    BY <1>5 DEF IsIter
  <2>3. g = [s \in SUBSET (1..N) |-> g[s]]
    BY <1>5 DEF IsIter
  <2>4. B(g) = [s \in SUBSET (1..N) |-> B(g)[s]]
    OBVIOUS
  <2> HIDE DEF B
  <2> QED BY <2>1, <2>2, <2>3, <2>4
<1>7. it = B(it)
  <2> HIDE DEF B
  <2> QED BY <1>6
<1>8. it[{}] = a
  BY <1>7
<1> HIDE DEF B, it, A, F
<1>9. Follows(it, N, A, a, F)
  BY <1>1, <1>3, <1>4, <1>7, <1>8 DEF Follows
<1> QED BY <1>2, <1>9 DEF A, F

\* Both functions compare place after place.
Sorting(h, up, a, n, N) ==
    /\ h \in [0..N -> IntArrays(n)] /\ h[0] = a
    /\ \A k \in 1..N : h[k] = Exchange(up, h[k - 1], Places(a)[k][1], Places(a)[k][2])

LEMMA SortSteps ==
  ASSUME NEW a \in Seq(Int), NEW up \in BOOLEAN, NEW n, n = Len(a), NEW N, N = Square(n)
  PROVE  \E h : Sorting(h, up, a, n, N) /\ h[N] = Sort(up, a)
<1> DEFINE A == IntArrays(n)  F == Exchanges(up, a)
<1>1. \A k \in 1..N : Places(a)[k][1] \in 1..n /\ Places(a)[k][2] \in 1..n
  BY PlacesOf
<1>2. PICK it : Follows(it, N, A, a, F) /\ Sort(up, a) = it[1..N]
  <2>1. N = Square(Len(a))
    OBVIOUS
  <2>2. CASE up = TRUE
    BY <1>1, <2>1, <2>2, UpIsFold DEF Sort
  <2>3. CASE up = FALSE
    BY <1>1, <2>1, <2>3, DownIsFold DEF Sort
  <2> QED BY <2>2, <2>3
<1>3. N \in Nat /\ a \in A /\ n \in Nat
  BY DEF IntArrays, Square
<1>4. ASSUME NEW v \in A, NEW k \in 1..N
      PROVE  Exchange(up, v, Places(a)[k][1], Places(a)[k][2]) \in A
  <2> DEFINE i == Places(a)[k][1]  j == Places(a)[k][2]
  <2>1. i \in 1..n /\ j \in 1..n /\ v \in IntArrays(n)
    BY <1>1
  <2> HIDE DEF i, j, A
  <2>2. Exchange(up, v, i, j) \in IntArrays(n)
    BY <1>3, <2>1, ExchangeType
  <2> QED BY <2>2 DEF i, j, A
<1>5. \A v \in A, k \in 1..N : F[<<v, k>>] = Exchange(up, v, Places(a)[k][1], Places(a)[k][2])
  BY DEF Exchanges
<1>6. F \in [A \X (1..N) -> A]
  <2>1. \A v \in A, k \in 1..N : F[<<v, k>>] \in A
    BY <1>4, <1>5
  <2>2. F = [x \in A \X (1..N) |-> F[x]]
    BY DEF Exchanges
  <2> HIDE DEF A, F
  <2>3. \A x \in A \X (1..N) : F[x] \in A
    BY <2>1
  <2> QED BY <2>2, <2>3
<1> HIDE DEF A, F
<1>7. PICK h : Steps(h, N, A, a, F) /\ h[N] = it[1..N]
  BY <1>2, FoldSteps
<1>8. ASSUME NEW k \in 1..N PROVE h[k] = Exchange(up, h[k - 1], Places(a)[k][1], Places(a)[k][2])
  <2>1. k - 1 \in 0..N
    BY <1>3
  <2>2. h[k - 1] \in A /\ h[k] = F[<<h[k - 1], k>>]
    BY <1>7, <2>1 DEF Steps
  <2> QED BY <1>5, <2>2
<1>9. Sorting(h, up, a, n, N)
  BY <1>7, <1>8 DEF Steps, Sorting, A
<1> QED BY <1>2, <1>7, <1>9

\* How often a value is in the array.
HowOften(s, n, v) == Cardinality({p \in 1..n : s[p] = v})

\* What is exchanged stays in the array.
LEMMA ExchangeKeeps ==
  ASSUME NEW n \in Nat, NEW up \in BOOLEAN, NEW s \in IntArrays(n), NEW i \in 1..n, NEW j \in 1..n, NEW v
  PROVE  HowOften(Exchange(up, s, i, j), n, v) = HowOften(s, n, v)
<1> DEFINE t == Exchange(up, s, i, j)
           S == {p \in 1..n : s[p] = v}
           T == {p \in 1..n : t[p] = v}
           m(p) == IF Before(up, s[j], s[i]) THEN p ELSE IF p = i THEN j ELSE IF p = j THEN i ELSE p
           M == [p \in S |-> m(p)]
<1>1. \A p \in 1..n : t[p] = IF ~Before(up, s[j], s[i]) THEN IF p = i THEN s[j] ELSE IF p = j THEN s[i] ELSE s[p]
                             ELSE s[p]
  BY ExchangeType
<1> HIDE DEF t
<1>2. \A p \in 1..n : m(p) \in 1..n /\ m(m(p)) = p /\ t[m(p)] = s[p] /\ t[p] = s[m(p)]
  BY <1>1
<1> HIDE DEF m
<1>3. M \in [S -> T]
  BY <1>2
<1>4. \A p, q \in S : M[p] = M[q] => p = q
  <2> SUFFICES ASSUME NEW p \in S, NEW q \in S, M[p] = M[q] PROVE p = q
    OBVIOUS
  <2>1. m(p) = m(q) /\ m(m(p)) = p /\ m(m(q)) = q
    BY <1>2
  <2> QED BY <2>1
<1>5. \A q \in T : \E p \in S : M[p] = q
  <2> SUFFICES ASSUME NEW q \in T PROVE \E p \in S : M[p] = q
    OBVIOUS
  <2>1. m(q) \in S /\ m(m(q)) = q
    BY <1>2
  <2> QED BY <2>1
<1>6. IsFiniteSet(S)
  <2>1. IsFiniteSet(1..n) /\ S \subseteq 1..n
    BY FS_Interval
  <2> QED BY <2>1, FS_Subset
<1>7. ExistsBijection(S, T)
  <2> HIDE DEF S, T, M
  <2>1. M \in Bijection(S, T)
    BY <1>3, <1>4, <1>5 DEF Bijection, Injection, Surjection, IsInjective
  <2> QED BY <2>1 DEF ExistsBijection
<1>8. Cardinality(T) = Cardinality(S)
  <2> HIDE DEF S, T
  <2> QED BY <1>6, <1>7, FS_Bijection
<1> QED BY <1>8 DEF HowOften, t

\* One comparison.
LEMMA RowStep ==
  ASSUME NEW n \in Nat, NEW up \in BOOLEAN, NEW s \in IntArrays(n), NEW i \in 1..n, NEW j \in 1..n,
         RowInv(up, s, n, i, j - 1)
  PROVE  RowInv(up, Exchange(up, s, i, j), n, i, j)
<1> DEFINE t == Exchange(up, s, i, j)
<1>1. t \in [1..n -> Int] /\ s \in [1..n -> Int]
  BY ExchangeType DEF IntArrays
<1>2. \A p \in 1..n : t[p] = IF ~Before(up, s[j], s[i]) THEN IF p = i THEN s[j] ELSE IF p = j THEN s[i] ELSE s[p]
                             ELSE s[p]
  BY ExchangeType
<1> HIDE DEF t
<1> DEFINE x == s[i]  y == s[j]
<1>x. x \in Int /\ y \in Int /\ (up = TRUE \/ up = FALSE) /\ \A p \in 1..n : s[p] \in Int
  BY <1>1
<1>8. CASE Before(up, y, x)
  <2>1. \A p \in 1..n : t[p] = s[p]
    BY <1>2, <1>8
  <2>2. \A p, q \in 1..i - 1 : p <= q => Before(up, s[p], s[q])
    BY DEF RowInv
  <2>3. \A p \in 1..j : p < i => Before(up, s[p], s[i])
    <3>1. \A p \in 1..j - 1 : p < i => Before(up, s[p], s[i])
      BY DEF RowInv
    <3>2. \A p \in 1..j : p = j \/ p \in 1..j - 1
      OBVIOUS
    <3> QED BY <3>1, <3>2, <1>8
  <2>4. i > 1 /\ j < i - 1 => \A p \in 1..n : Before(up, s[p], s[i - 1])
    BY DEF RowInv
  <2>5. i > 1 /\ j >= i - 1 => \A p \in 1..n : Before(up, s[p], s[i])
    <3>1. CASE i > 1 /\ j = i - 1
      <4>1. \A p \in 1..n : Before(up, s[p], y)
        BY <3>1 DEF RowInv
      <4> QED BY <4>1, <1>x, <1>8 DEF Before
    <3>2. CASE i > 1 /\ j >= i
      BY <3>2 DEF RowInv
    <3> QED BY <3>1, <3>2
  <2>6. i = 1 => \A p \in 1..j : Before(up, s[p], s[i])
    <3>1. i = 1 => \A p \in 1..j - 1 : Before(up, s[p], s[i])
      BY DEF RowInv
    <3>2. \A p \in 1..j : p = j \/ p \in 1..j - 1
      OBVIOUS
    <3> QED BY <3>1, <3>2, <1>8
  <2>7. \A p \in 1..i - 1 : p \in 1..n
    OBVIOUS
  <2>8. \A p \in 1..j : p \in 1..n
    OBVIOUS
  <2>9. i > 1 => i - 1 \in 1..n
    OBVIOUS
  <2> HIDE DEF x, y
  <2> QED BY <2>1, <2>2, <2>3, <2>4, <2>5, <2>6, <2>7, <2>8, <2>9 DEF RowInv, t
<1>9. CASE ~Before(up, y, x)
  <2>1. \A p \in 1..n : t[p] = IF p = i THEN y ELSE IF p = j THEN x ELSE s[p]
    BY <1>2, <1>9
  <2>2. ~(i > 1 /\ j >= i)
    BY <1>9, <1>1 DEF RowInv
  <2>3. i # j
    BY <1>9, <1>x DEF Before
  <2>4. \A p, q \in 1..i - 1 : p <= q => Before(up, t[p], t[q])
    <3> SUFFICES ASSUME NEW p \in 1..i - 1, NEW q \in 1..i - 1, p <= q PROVE Before(up, t[p], t[q])
      OBVIOUS
    <3>1. p \in 1..n /\ q \in 1..n /\ p # i /\ q # i /\ j < i
      BY <2>2, <2>3
    <3>2. s[p] \in Int /\ s[q] \in Int /\ Before(up, s[p], s[q])
      BY <1>x, <3>1 DEF RowInv
    <3>3. CASE p # j /\ q # j
      BY <2>1, <3>1, <3>2, <3>3
    <3>4. CASE p = j /\ q # j
      <4>1. Before(up, y, s[q]) /\ t[p] = x /\ t[q] = s[q]
        BY <2>1, <3>1, <3>2, <3>4
      <4> HIDE DEF x, y
      <4> QED BY <4>1, <3>2, <1>x, <1>9 DEF Before
    <3>5. CASE p # j /\ q = j
      <4>1. p \in 1..j - 1 /\ t[p] = s[p] /\ t[q] = x
        BY <2>1, <3>1, <3>5
      <4> QED BY <4>1, <3>1 DEF RowInv
    <3>6. CASE p = j /\ q = j
      <4>1. t[p] = x /\ t[q] = x
        BY <2>1, <3>1, <3>6
      <4> HIDE DEF x, y
      <4> QED BY <4>1, <1>x DEF Before
    <3> QED BY <3>3, <3>4, <3>5, <3>6
  <2>5. \A p \in 1..j : p < i => Before(up, t[p], t[i])
    <3> SUFFICES ASSUME NEW p \in 1..j, p < i PROVE Before(up, t[p], t[i])
      OBVIOUS
    <3>1. t[i] = y /\ p \in 1..n
      BY <2>1
    <3>2. CASE p = j
      <4>1. t[p] = x
        BY <2>1, <3>1, <3>2
      <4> HIDE DEF x, y
      <4> QED BY <4>1, <3>1, <1>x, <1>9 DEF Before
    <3>3. CASE p # j
      <4>1. p \in 1..j - 1 /\ t[p] = s[p] /\ s[p] \in Int
        BY <2>1, <3>1, <3>3, <1>x
      <4>2. Before(up, s[p], x)
        BY <4>1 DEF RowInv
      <4> HIDE DEF x, y
      <4> QED BY <4>1, <4>2, <3>1, <1>x, <1>9 DEF Before
    <3> QED BY <3>2, <3>3
  <2>6. i > 1 /\ j < i - 1 => \A p \in 1..n : Before(up, t[p], t[i - 1])
    <3> SUFFICES ASSUME i > 1, j < i - 1, NEW p \in 1..n PROVE Before(up, t[p], t[i - 1])
      OBVIOUS
    <3>1. \A m \in 1..n : Before(up, s[m], s[i - 1])
      BY DEF RowInv
    <3>2. t[i - 1] = s[i - 1] /\ t[p] \in {x, y, s[p]}
      BY <2>1
    <3> QED BY <3>1, <3>2
  <2>7. i > 1 /\ j >= i - 1 => \A p \in 1..n : Before(up, t[p], t[i])
    <3> SUFFICES ASSUME i > 1, j = i - 1, NEW p \in 1..n PROVE Before(up, t[p], t[i])
      BY <2>2
    <3>1. \A m \in 1..n : Before(up, s[m], s[j])
      BY DEF RowInv
    <3>2. t[i] = y /\ t[p] \in {x, y, s[p]}
      BY <2>1
    <3> QED BY <3>1, <3>2
  <2>8. i = 1 => \A p \in 1..j : Before(up, t[p], t[i])
    <3> SUFFICES ASSUME i = 1, NEW p \in 1..j PROVE Before(up, t[p], t[i])
      OBVIOUS
    <3>1. t[i] = y /\ p \in 1..n
      BY <2>1
    <3>2. CASE p \in {i, j}
      <4>1. t[p] \in {x, y}
        BY <2>1, <3>1, <3>2
      <4> HIDE DEF x, y
      <4> QED BY <4>1, <3>1, <1>x, <1>9 DEF Before
    <3>3. CASE p \notin {i, j}
      <4>1. p \in 1..j - 1 /\ t[p] = s[p] /\ s[p] \in Int
        BY <2>1, <3>1, <3>3, <1>x
      <4>2. Before(up, s[p], x)
        BY <4>1 DEF RowInv
      <4> HIDE DEF x, y
      <4> QED BY <4>1, <4>2, <3>1, <1>x, <1>9 DEF Before
    <3> QED BY <3>2, <3>3
  <2> QED BY <2>4, <2>5, <2>6, <2>7, <2>8 DEF RowInv, t
<1> QED BY <1>8, <1>9

\* The end of a row is the beginning of the next.
LEMMA RowEnd ==
  ASSUME NEW n \in Nat, NEW up \in BOOLEAN, NEW s \in IntArrays(n), NEW i \in 1..n,
         RowInv(up, s, n, i, n)
  PROVE  /\ \A p, q \in 1..i : p <= q => Before(up, s[p], s[q])
         /\ RowInv(up, s, n, i + 1, 0)
<1>0. s \in [1..n -> Int]
  BY DEF IntArrays
<1>1. \A p \in 1..n : Before(up, s[p], s[i])
  BY <1>0 DEF RowInv
<1>2. \A p, q \in 1..i : p <= q => Before(up, s[p], s[q])
  BY <1>0, <1>1 DEF RowInv, Before
<1> QED BY <1>0, <1>1, <1>2 DEF RowInv, Before

\* Sorted, in either direction: the algorithm of hw6 is right, though it compares each
\* element with all, also with those that are sorted already.
LEMMA SortIsRight ==
  ASSUME NEW a \in Seq(Int), NEW up \in BOOLEAN
  PROVE  /\ Sort(up, a) \in [1..Len(a) -> Int]
         /\ \A p, q \in 1..Len(a) : p <= q => Before(up, Sort(up, a)[p], Sort(up, a)[q])
         /\ \A v : HowOften(Sort(up, a), Len(a), v) = HowOften(a, Len(a), v)
<1> SUFFICES ASSUME NEW n, n = Len(a), NEW N, N = Square(n)
             PROVE  /\ Sort(up, a) \in [1..n -> Int]
                    /\ \A p, q \in 1..n : p <= q => Before(up, Sort(up, a)[p], Sort(up, a)[q])
                    /\ \A v : HowOften(Sort(up, a), n, v) = HowOften(a, n, v)
  OBVIOUS
<1> DEFINE P(k) == Places(a)[k]
<1>1. n \in Nat /\ N \in Nat
  BY DEF Square
<1>0. PICK h : Sorting(h, up, a, n, N) /\ h[N] = Sort(up, a)
  BY SortSteps
<1>2. /\ h \in [0..N -> IntArrays(n)] /\ h[0] = a /\ h[N] = Sort(up, a)
      /\ \A k \in 1..N : h[k] = Exchange(up, h[k - 1], P(k)[1], P(k)[2])
  BY <1>0 DEF Sorting
<1>3. \A k \in 1..N : P(k)[1] \in 1..n /\ P(k)[2] \in 1..n
  BY PlacesOf
<1> DEFINE Kept == {k \in Nat : k <= N => \A v : HowOften(h[k], n, v) = HowOften(a, n, v)}
<1>4. Nat \subseteq Kept
  <2>1. 0 \in Kept
    BY <1>2
  <2>2. \A k \in Nat : k \in Kept => k + 1 \in Kept
    <3> SUFFICES ASSUME NEW k \in Nat, k \in Kept, k + 1 <= N, NEW v
                 PROVE  HowOften(h[k + 1], n, v) = HowOften(a, n, v)
      OBVIOUS
    <3>1. k + 1 \in 1..N /\ k \in 0..N /\ (k + 1) - 1 = k /\ HowOften(h[k], n, v) = HowOften(a, n, v)
      BY <1>1
    <3> HIDE DEF Kept, P
    <3>2. h[k + 1] = Exchange(up, h[k], P(k + 1)[1], P(k + 1)[2]) /\ h[k] \in IntArrays(n)
      BY <1>2, <3>1
    <3>3. P(k + 1)[1] \in 1..n /\ P(k + 1)[2] \in 1..n
      BY <1>3, <3>1
    <3> QED BY <1>1, <3>1, <3>2, <3>3, ExchangeKeeps
  <2> HIDE DEF Kept
  <2> QED BY <2>1, <2>2, SetInduction
<1>5. \A v : HowOften(Sort(up, a), n, v) = HowOften(a, n, v)
  <2>1. N \in Kept
    BY <1>1, <1>4
  <2> QED BY <1>1, <1>2, <2>1
<1>6. Sort(up, a) \in IntArrays(n)
  <2>1. N \in 0..N
    BY <1>1
  <2> QED BY <1>2, <2>1
<1>7. CASE n = 0
  BY <1>5, <1>6, <1>7 DEF IntArrays
<1>8. CASE n # 0
  <2> DEFINE Row == {k \in Nat : k + 1 <= N => RowInv(up, h[k + 1], n, P(k + 1)[1], P(k + 1)[2])}
  <2>1. N >= 1 /\ 1 \in 1..N /\ N \in 1..N /\ n \in 1..n
    <3>1. n * n >= n
      BY <1>1, <1>8, Multiples
    <3> USE DEF Square
    <3> QED BY <1>1, <1>8, <3>1
  <2>2. ASSUME NEW k \in 1..N
        PROVE  /\ k = 1 => P(k) = << 1, 1 >>
               /\ k = N => P(k) = <<n, n>>
               /\ k < N => P(k + 1) = IF P(k)[2] = n THEN <<P(k)[1] + 1, 1>> ELSE <<P(k)[1], P(k)[2] + 1>>
    <3> DEFINE p == Places(a)[k]
    <3>1. /\ k = 1 => p = << 1, 1 >>
          /\ k = N => p = <<n, n>>
          /\ k < N => Places(a)[k + 1] = IF p[2] = n THEN <<p[1] + 1, 1>> ELSE <<p[1], p[2] + 1>>
      BY <1>8, PlacesInOrder
    <3> QED BY <3>1
  <2>3. ASSUME NEW k \in 1..N, RowInv(up, h[k - 1], n, P(k)[1], P(k)[2] - 1)
        PROVE  RowInv(up, h[k], n, P(k)[1], P(k)[2])
    <3> HIDE DEF P
    <3>1. k - 1 \in 0..N
      BY <1>1
    <3>2. h[k] = Exchange(up, h[k - 1], P(k)[1], P(k)[2]) /\ h[k - 1] \in IntArrays(n)
      BY <1>2, <3>1
    <3> QED BY <1>1, <1>3, <2>3, <3>2, RowStep
  <2>4. 0 \in Row
    <3>1. h[1 - 1] = a /\ 1 - 1 = 0 /\ 0 + 1 = 1
      BY <1>2
    <3>2. RowInv(up, a, n, 1, 0)
      BY DEF RowInv
    <3>3. P(1)[1] = 1 /\ P(1)[2] - 1 = 0
      <4>1. P(1) = << 1, 1 >>
        BY <2>1, <2>2
      <4> HIDE DEF P
      <4> QED BY <4>1
    <3> HIDE DEF P
    <3>4. RowInv(up, h[1], n, P(1)[1], P(1)[2])
      BY <2>1, <2>3, <3>1, <3>2, <3>3
    <3> QED BY <3>4, <3>1
  <2>5. \A k \in Nat : k \in Row => k + 1 \in Row
    <3> SUFFICES ASSUME NEW k \in Nat, k \in Row, k + 2 <= N
                 PROVE  RowInv(up, h[k + 2], n, P(k + 2)[1], P(k + 2)[2])
      BY <1>1
    <3> DEFINE l == k + 1  i == P(l)[1]  j == P(l)[2]
    <3>1. l \in 1..N /\ l < N /\ l + 1 = k + 2 /\ k + 2 \in 1..N /\ (k + 2) - 1 = l /\ l \in 0..N
      BY <1>1
    <3>2. RowInv(up, h[l], n, i, j)
      BY <1>1
    <3> HIDE DEF P, l, Row
    <3>3. i \in 1..n /\ j \in 1..n /\ h[l] \in IntArrays(n)
      BY <1>2, <1>3, <3>1
    <3>4. P(k + 2) = IF j = n THEN <<i + 1, 1>> ELSE <<i, j + 1>>
      BY <2>2, <3>1
    <3>5. RowInv(up, h[(k + 2) - 1], n, P(k + 2)[1], P(k + 2)[2] - 1)
      <4>1. CASE j = n
        <5>1. RowInv(up, h[l], n, i + 1, 0)
          BY <1>1, <3>2, <3>3, <4>1, RowEnd
        <5>2. P(k + 2)[1] = i + 1 /\ P(k + 2)[2] - 1 = 0
          BY <3>4, <4>1
        <5> QED BY <3>1, <5>1, <5>2
      <4>2. CASE j # n
        <5>1. P(k + 2)[1] = i /\ P(k + 2)[2] - 1 = j
          BY <1>1, <3>3, <3>4, <4>2
        <5> QED BY <3>1, <3>2, <5>1
      <4> QED BY <4>1, <4>2
    <3> QED BY <2>3, <3>1, <3>5
  <2>6. Nat \subseteq Row
    <3> HIDE DEF Row
    <3> QED BY <2>4, <2>5, SetInduction
  <2>7. RowInv(up, h[N], n, n, n)
    <3>1. N - 1 \in Row /\ (N - 1) + 1 = N
      BY <1>1, <2>1, <2>6
    <3>2. P(N) = <<n, n>>
      BY <2>1, <2>2
    <3> HIDE DEF P
    <3>3. RowInv(up, h[N], n, P(N)[1], P(N)[2])
      BY <3>1
    <3> QED BY <3>2, <3>3
  <2>8. \A p, q \in 1..n : p <= q => Before(up, Sort(up, a)[p], Sort(up, a)[q])
    BY <1>1, <1>2, <1>6, <2>1, <2>7, RowEnd
  <2> QED BY <1>5, <1>6, <2>8 DEF IntArrays
<1> QED BY <1>7, <1>8

\* An array that is sorted by one or the other, and has the same values.
LEMMA SortedArray ==
  ASSUME NEW a \in Seq(Int), NEW up \in BOOLEAN
  PROVE  /\ Sort(up, a) \in Seq(Int) /\ Len(Sort(up, a)) = Len(a) /\ DOMAIN Sort(up, a) = DOMAIN a
         /\ \A p, q \in DOMAIN a : p <= q => Before(up, Sort(up, a)[p], Sort(up, a)[q])
         /\ \A v : Cardinality({j \in DOMAIN a : a[j] = v})
                   = Cardinality({j \in DOMAIN a : Sort(up, a)[j] = v})
<1> DEFINE b == Sort(up, a)
<1>1. Len(a) \in Nat /\ DOMAIN a = 1..Len(a)
  OBVIOUS
<1>2. /\ b \in [1..Len(a) -> Int]
      /\ \A p, q \in 1..Len(a) : p <= q => Before(up, b[p], b[q])
      /\ \A v : HowOften(b, Len(a), v) = HowOften(a, Len(a), v)
  BY SortIsRight
<1> HIDE DEF b
<1>3. b \in Seq(Int) /\ Len(b) = Len(a) /\ DOMAIN b = DOMAIN a
  BY <1>1, <1>2
<1> QED BY <1>1, <1>2, <1>3 DEF HowOften, b

\* SortsEveryArray: ascending_sort() and descending_sort() of hw6 sort every array: the
\* result has the values of the array, each as often, in order; descending_sort() also after
\* ascending_sort(), as the sequential version calls it (hw6_2018110124.c).
THEOREM SortsEveryArray == \A a \in Seq(Int) : Sorts(a)
<1> SUFFICES ASSUME NEW a \in Seq(Int) PROVE Sorts(a)
  OBVIOUS
<1> DEFINE up == Sort(TRUE, a)  down == Sort(FALSE, a)  again == Sort(FALSE, up)
<1>1. ascending_sort(a) = up /\ descending_sort(a) = down /\ descending_sort(ascending_sort(a)) = again
  BY DEF Sort
<1>2. /\ up \in Seq(Int) /\ Len(up) = Len(a) /\ DOMAIN up = DOMAIN a
      /\ \A p, q \in DOMAIN a : p <= q => up[p] <= up[q]
      /\ \A v : Cardinality({j \in DOMAIN a : a[j] = v}) = Cardinality({j \in DOMAIN a : up[j] = v})
  BY SortedArray DEF Before
<1>3. /\ down \in Seq(Int) /\ Len(down) = Len(a) /\ DOMAIN down = DOMAIN a
      /\ \A p, q \in DOMAIN a : p <= q => down[p] >= down[q]
      /\ \A v : Cardinality({j \in DOMAIN a : a[j] = v}) = Cardinality({j \in DOMAIN a : down[j] = v})
  BY SortedArray DEF Before
<1> HIDE DEF up
<1>4. /\ again \in Seq(Int) /\ Len(again) = Len(up) /\ DOMAIN again = DOMAIN up
      /\ \A p, q \in DOMAIN up : p <= q => again[p] >= again[q]
      /\ \A v : Cardinality({j \in DOMAIN up : up[j] = v}) = Cardinality({j \in DOMAIN up : again[j] = v})
  BY <1>2, SortedArray DEF Before
<1> HIDE DEF down, again
<1>5. SortedBy(up, a, LAMBDA x, y : x <= y)
  BY <1>2 DEF SortedBy
<1>6. SortedBy(down, a, LAMBDA x, y : x >= y)
  BY <1>3 DEF SortedBy
<1>7. SortedBy(again, a, LAMBDA x, y : x >= y)
  <2>1. \A v : Cardinality({j \in DOMAIN a : a[j] = v}) = Cardinality({j \in DOMAIN a : again[j] = v})
    BY <1>2, <1>4
  <2>2. Len(again) = Len(a) /\ DOMAIN again = DOMAIN a
    BY <1>2, <1>4
  <2>3. \A p, q \in DOMAIN a : p <= q => again[p] >= again[q]
    BY <1>2, <1>4
  <2> QED BY <2>1, <2>2, <2>3 DEF SortedBy
<1> QED BY <1>1, <1>2, <1>3, <1>4, <1>5, <1>6, <1>7 DEF Sorts

-----------------------------------------------------------------------------
(* whotofile_p.c, waitdemo2.c and hw6: parents that wait for their children  *)

\* They are all that is started, with any number of forks that succeed, and hw6 with
\* any arrays of integers.
WaitsOnly(Arrays) ==
    /\ Arrays \subseteq Seq(Int)
    /\ Starts \subseteq WaitStarts(0..MaxProcs - 1) \cup SortStarts(Arrays, 0..MaxProcs - 1)

ToFile     == start.program = "whotofile"
Demo       == start.program = "waitdemo"
Parallel   == start.program = "hw6 0"
Sequential == start.program = "hw6 1"

ParentTypeInv ==
    /\ ToFile \/ Demo \/ Parallel \/ Sequential
    /\ start.forks \in 0..MaxProcs - 1 /\ forks \in 0..start.forks
    /\ DOMAIN text = Pids /\ DOMAIN fds = Pids /\ DOMAIN argv = Pids /\ DOMAIN code = Pids
    /\ DOMAIN parent = Pids /\ DOMAIN kid = Pids
    /\ status \in [Pids -> {"free", "running", "zombie", "gone"}]
    /\ \A q \in Pids \ {1, 2, 3} : status[q] = "free"
    /\ line = [q \in Pids |-> NoLine] /\ parent[1] = 0
    /\ log \in [taken : {<<>>}, reported : Seq([argv : {<<>>}, status : {17 * 256}])]
    /\ ~Demo => reported = <<>>

\* What is written, and file f when it holds what a process wrote at once.
Said(w)      == [no |-> 0, via |-> <<w>>]
File(f, s)   == f \in DOMAIN files /\ files[f] = s
Holding(f, s) == File(f, <<[no |-> 0, via |-> s]>>)

\* No child runs; there is no grandchild.
Quiet    == \A q \in Pids \ {1} : status[q] # "running"
OneChild == \A q \in Pids \ {1, 2} : status[q] = "free"

-----------------------------------------------------------------------------
(* One call of a parent or of its child                                     *)

\* Process p goes on with text t, and nothing happens to the others.
Goes(p, t) ==
    /\ UNCHANGED <<start, log, argv, parent, kid, forks, status, code, line>>
    /\ text'[p] = t
    /\ \A q \in Pids \ {p} : text'[q] = text[q] /\ fds'[q] = fds[q]

LEMMA GoesOn ==
    ASSUME ParentTypeInv, NEW p \in Pids, NEW t, text' = [text EXCEPT ![p] = t],
           UNCHANGED <<family, lives, line>>,
           NEW f, fds' = fds \/ fds' = [fds EXCEPT ![p] = f]
    PROVE  ParentTypeInv' /\ Goes(p, t)
<1>1. UNCHANGED <<start, log, argv, parent, kid, forks, status, code, line>>
  BY DEF family, lives
<1>2. DOMAIN text' = Pids /\ DOMAIN fds' = Pids
  BY DEF ParentTypeInv
<1>3. ParentTypeInv'
  BY <1>1, <1>2 DEF ParentTypeInv, ToFile, Demo, Parallel, Sequential, reported
<1>4. Goes(p, t)
  BY <1>1 DEF Goes, ParentTypeInv
<1> QED BY <1>3, <1>4

\* No process reads, and so a line has only the mark of its writer.
LEMMA OwnMark ==
    ASSUME ParentTypeInv, NEW p \in Pids, NEW S, Call(p).mark \in Seq(S)
    PROVE  Marked(p) = [no |-> 0, via |-> Call(p).mark]
<1> DEFINE w == Call(p).mark
<1> HIDE DEF w
<1>1. <<>> \o w = w
  BY ConcatEmptySeq DEF w
<1>2. line[p] = NoLine
  BY DEF ParentTypeInv
<1>3. Marked(p) = [NoLine EXCEPT !.via = @ \o w]
  BY <1>2 DEF Marked, w
<1>4. Marked(p) = [no |-> 0, via |-> <<>> \o w]
  BY <1>3 DEF NoLine
<1> QED BY <1>1, <1>4 DEF w

LEMMA Says ==
    ASSUME ParentTypeInv, NEW p \in Pids, NEW w, Call(p) = Write(Out, <<w>>), Wired(p, Out, Tty),
           Process(p) \/ Shell(p)
    PROVE  /\ screen' = Append(screen, Said(w)) /\ UNCHANGED <<fds, files>>
           /\ Goes(p, Unrolled(Rest(p))) /\ ParentTypeInv'
<1>1. Call(p).op = "write" /\ Call(p).fd = Out /\ Call(p).mark = <<w>>
  BY DEF Write
<1>2. Source(p) = Tty
  BY <1>1 DEF Source, Wired
<1>3. WriteTty(p)
  BY <1>1, <1>2, FourNames, ByCall DEF WritePipe, WriteFile, WriteBroken, Tty
<1>4. Marked(p) = Said(w)
  <2>1. <<w>> \in Seq({w})
    OBVIOUS
  <2> QED BY <1>1, <2>1, OwnMark DEF Said
<1>5. /\ screen' = Append(screen, Said(w)) /\ text' = [text EXCEPT ![p] = Unrolled(Rest(p))]
      /\ UNCHANGED <<family, lives, fds, line, files>>
  BY <1>3, <1>4 DEF WriteTty, GoOn
<1> QED BY <1>5, GoesOn

LEMMA Stores ==
    ASSUME ParentTypeInv, NEW p \in Pids, NEW d, NEW w, Call(p) = Write(d, w), NEW f,
           Wired(p, d, <<"file", f>>), Process(p) \/ Shell(p), NEW S, w \in Seq(S)
    PROVE  /\ f \in DOMAIN files => f \in DOMAIN files' /\ files'[f] = Append(files[f], [no |-> 0, via |-> w])
           /\ \A x \in DOMAIN files : x # f => x \in DOMAIN files' /\ files'[x] = files[x]
           /\ UNCHANGED <<fds, screen>>
           /\ Goes(p, Unrolled(Rest(p))) /\ ParentTypeInv'
<1>1. Call(p).op = "write" /\ Call(p).fd = d /\ Call(p).mark = w
  BY DEF Write
<1>2. Source(p)[1] = "file" /\ Source(p)[2] = f /\ Source(p) # Tty
  BY <1>1 DEF Source, Wired, Tty
<1>3. WriteFile(p)
  BY <1>1, <1>2, ByCall DEF WritePipe, WriteTty, WriteBroken
<1>4. /\ files' = [files EXCEPT ![f] = Append(@, Marked(p))] /\ text' = [text EXCEPT ![p] = Unrolled(Rest(p))]
      /\ UNCHANGED <<family, lives, fds, line, screen>>
  BY <1>2, <1>3 DEF WriteFile, GoOn
<1>5. Marked(p) = [no |-> 0, via |-> w]
  BY <1>1, OwnMark
<1> DEFINE l == Marked(p)
<1>6. files' = [files EXCEPT ![f] = Append(@, l)] /\ l = [no |-> 0, via |-> w]
  BY <1>4, <1>5
<1> HIDE DEF l
<1>7. /\ f \in DOMAIN files => f \in DOMAIN files' /\ files'[f] = Append(files[f], l)
      /\ \A x \in DOMAIN files : x # f => x \in DOMAIN files' /\ files'[x] = files[x]
  BY <1>6
<1>8. ParentTypeInv' /\ Goes(p, Unrolled(Rest(p)))
  BY <1>4, GoesOn
<1> QED BY <1>4, <1>6, <1>7, <1>8

LEMMA Creates ==
    ASSUME ParentTypeInv, NEW p \in Pids, NEW d, NEW f, Call(p) = Creat(d, f), Process(p) \/ Shell(p)
    PROVE  /\ f \in DOMAIN files' /\ files'[f] = <<>>
           /\ \A x \in DOMAIN files : x # f => x \in DOMAIN files' /\ files'[x] = files[x]
           /\ UNCHANGED screen /\ d \in DOMAIN fds'[p] /\ fds'[p][d] = <<"file", f>>
           /\ \A e \in DOMAIN fds[p] : e # d => e \in DOMAIN fds'[p] /\ fds'[p][e] = fds[p][e]
           /\ Goes(p, Unrolled(Rest(p))) /\ ParentTypeInv'
<1>1. Call(p).op = "creat" /\ Call(p).fd = d /\ Call(p).file = f
  BY DEF Creat
<1>2. SysCreat(p)
  BY <1>1, ByCall
<1> DEFINE new == [x \in {d} |-> <<"file", f>>]
<1>3. /\ files' = [x \in DOMAIN files \cup {f} |-> IF x = f THEN <<>> ELSE files[x]]
      /\ fds' = [fds EXCEPT ![p] = With(p, new)] /\ text' = [text EXCEPT ![p] = Unrolled(Rest(p))]
      /\ UNCHANGED <<family, lives, line, screen>>
  BY <1>1, <1>2 DEF SysCreat, GoOn
<1>4. DOMAIN new = {d} /\ new[d] = <<"file", f>>
  OBVIOUS
<1> HIDE DEF new
<1>5. fds'[p] = With(p, new)
  BY <1>3 DEF ParentTypeInv
<1>6. d \in DOMAIN fds'[p] /\ fds'[p][d] = <<"file", f>>
  BY <1>4, <1>5 DEF With
<1>7. ASSUME NEW e \in DOMAIN fds[p], e # d PROVE e \in DOMAIN fds'[p] /\ fds'[p][e] = fds[p][e]
  BY <1>4, <1>5, <1>7 DEF With
<1>8. ParentTypeInv' /\ Goes(p, Unrolled(Rest(p)))
  BY <1>3, GoesOn
<1>9. /\ f \in DOMAIN files' /\ files'[f] = <<>>
      /\ \A x \in DOMAIN files : x # f => x \in DOMAIN files' /\ files'[x] = files[x]
  BY <1>3
<1> QED BY <1>3, <1>6, <1>7, <1>8, <1>9

LEMMA Closes ==
    ASSUME ParentTypeInv, NEW p \in Pids, NEW d, Call(p) = Close(d), Process(p) \/ Shell(p)
    PROVE  /\ UNCHANGED <<files, screen>>
           /\ \A e \in DOMAIN fds[p] : e # d => e \in DOMAIN fds'[p] /\ fds'[p][e] = fds[p][e]
           /\ Goes(p, Unrolled(Rest(p))) /\ ParentTypeInv'
<1>1. Call(p).op = "close" /\ Call(p).fd = d
  BY DEF Close
<1>2. SysClose(p)
  BY <1>1, ByCall
<1>3. /\ fds' = [fds EXCEPT ![p] = Without(p, d)] /\ text' = [text EXCEPT ![p] = Unrolled(Rest(p))]
      /\ UNCHANGED <<family, lives, line, files, screen>>
  BY <1>1, <1>2 DEF SysClose, GoOn, data
<1>4. fds'[p] = Without(p, d)
  BY <1>3 DEF ParentTypeInv
<1>5. ASSUME NEW e \in DOMAIN fds[p], e # d PROVE e \in DOMAIN fds'[p] /\ fds'[p][e] = fds[p][e]
  BY <1>4, <1>5 DEF Without
<1>6. ParentTypeInv' /\ Goes(p, Unrolled(Rest(p)))
  BY <1>3, GoesOn
<1> QED BY <1>3, <1>5, <1>6

\* Process p waits for its only child c.
LEMMA WaitsFor ==
    ASSUME ParentTypeInv, NEW p \in Pids, Call(p) = Wait, NEW c \in Pids \ {p}, parent[c] = p,
           status[c] \in {"running", "zombie"},
           \A q \in Pids \ {c} : parent[q] = p => status[q] \notin {"running", "zombie"},
           Process(p) \/ Shell(p)
    PROVE  /\ status[c] = "zombie" /\ status' = [status EXCEPT ![c] = "gone"]
           /\ UNCHANGED <<start, log, argv, parent, kid, forks, code, line, fds, files, screen>>
           /\ text'[p] = Unrolled(Rest(p)) /\ \A q \in Pids \ {p} : text'[q] = text[q]
           /\ c \in {2, 3} => ParentTypeInv'
<1>1. SysWait(p)
  BY ByCall DEF Wait
<1>2. Children(p) = {c}
  BY DEF Children
<1>3. /\ status[c] = "zombie" /\ status' = [status EXCEPT ![c] = "gone"]
      /\ text' = [text EXCEPT ![p] = Unrolled(Rest(p))] /\ UNCHANGED <<family, code, fds, line, data>>
  BY <1>1, <1>2 DEF SysWait, GoOn
<1>4. UNCHANGED <<start, log, argv, parent, kid, forks, code, line, fds, files, screen>>
  BY <1>3 DEF family, data
<1>5. c \in {2, 3} => ParentTypeInv'
  BY <1>3, <1>4 DEF ParentTypeInv, ToFile, Demo, Parallel, Sequential, reported
<1>6. text'[p] = Unrolled(Rest(p)) /\ \A q \in Pids \ {p} : text'[q] = text[q]
  BY <1>3 DEF ParentTypeInv
<1> QED BY <1>3, <1>4, <1>5, <1>6

\* Process p ends, and its parent, if it has one, is told.
LEMMA Leaves ==
    ASSUME ParentTypeInv, NEW p \in Pids \cap {1, 2, 3}, NEW c, Call(p) = ExitWith(c), Process(p) \/ Shell(p),
           NEW z, z = IF parent[p] # 0 /\ Alive(parent[p]) THEN "zombie" ELSE "gone"
    PROVE  /\ status'[p] = z /\ code'[p] = 256 * c
           /\ \A q \in Pids \ {p} :
                /\ text'[q] = text[q] /\ fds'[q] = fds[q] /\ code'[q] = code[q]
                /\ parent[q] # p \/ status[q] # "zombie" => status'[q] = status[q]
                /\ status'[q] \in {status[q], "gone"}
           /\ UNCHANGED <<start, log, argv, parent, kid, forks, line, files, screen>>
           /\ ParentTypeInv'
<1>1. SysExit(p) /\ Call(p).code = c
  BY ByCall DEF ExitWith
<1>2. Terminate(p, 256 * c) /\ UNCHANGED <<family, line, data>>
  BY <1>1 DEF SysExit
<1>3. /\ status' = [q \in Pids |-> IF q = p THEN z
                       ELSE IF parent[q] = p /\ status[q] = "zombie" THEN "gone" ELSE status[q]]
      /\ code' = [code EXCEPT ![p] = 256 * c] /\ fds' = [fds EXCEPT ![p] = Empty]
      /\ text' = [text EXCEPT ![p] = Empty]
      /\ UNCHANGED <<start, log, argv, parent, kid, forks, line, files, screen>>
  BY <1>2 DEF Terminate, family, data
<1>4. status' \in [Pids -> {"free", "running", "zombie", "gone"}]
  BY <1>3 DEF ParentTypeInv
<1>5. ParentTypeInv'
  BY <1>3, <1>4 DEF ParentTypeInv, ToFile, Demo, Parallel, Sequential, reported
<1> QED BY <1>3, <1>5 DEF ParentTypeInv

\* Process p makes process n, the next one.
LEMMA Divides ==
    ASSUME ParentTypeInv, NEW p \in Pids, NEW t, NEW u, Call(p) = Fork(t, u), Process(p) \/ Shell(p),
           NEW n \in {2, 3}, p < n, \A q \in Pids : status[q] = "free" <=> q >= n,
           start.forks - forks = n - 2
    PROVE  \/ Goes(p, Unrolled(u)) /\ forks = 0 /\ UNCHANGED <<fds, files, screen>> /\ ParentTypeInv'
           \/ /\ n \in Pids /\ status'[n] = "running" /\ parent'[n] = p /\ kid'[p] = n
              /\ fds'[n] = fds[p] /\ argv'[n] = argv[p] /\ text'[n] = Unrolled(t) /\ text'[p] = Unrolled(Rest(p))
              /\ \A q \in Pids \ {n} : /\ status'[q] = status[q] /\ parent'[q] = parent[q]
                                       /\ fds'[q] = fds[q] /\ argv'[q] = argv[q]
              /\ \A q \in Pids \ {n, p} : text'[q] = text[q]
              /\ forks' = forks - 1
              /\ UNCHANGED <<start, log, code, line, files, screen>>
              /\ ParentTypeInv'
<1>1. (SysFork(p) \/ ForkFails(p)) /\ Call(p).child = t /\ Call(p).fail = u
  BY ByCall DEF Fork
<1>2. CASE ForkFails(p)
  <2>1. text' = [text EXCEPT ![p] = Unrolled(u)] /\ UNCHANGED <<family, lives, fds, line, files, screen>> /\ forks = 0
    BY <1>1, <1>2 DEF ForkFails, GoOn, data
  <2> QED BY <2>1, GoesOn
<1>3. CASE SysFork(p)
  <2>1. forks \in 1..start.forks
    BY <1>3 DEF SysFork, ParentTypeInv
  <2>2. n \in Pids
    BY <2>1, KernelAssumption DEF ParentTypeInv, Pids
  <2>3. /\ status' = [status EXCEPT ![n] = "running"] /\ parent' = [parent EXCEPT ![n] = p]
        /\ kid' = [kid EXCEPT ![p] = n] /\ fds' = [fds EXCEPT ![n] = fds[p]]
        /\ argv' = [argv EXCEPT ![n] = argv[p]]
        /\ text' = [text EXCEPT ![n] = Unrolled(t), ![p] = Unrolled(Rest(p))]
        /\ forks' = forks - 1 /\ UNCHANGED <<start, log, code, line, data>>
    BY <1>1, <1>3, <2>2, NextFork
  <2>4. n # p /\ n # 1
    OBVIOUS
  <2>5. ParentTypeInv'
    <3>1. /\ status' \in [Pids -> {"free", "running", "zombie", "gone"}]
          /\ \A q \in Pids \ {1, 2, 3} : status'[q] = "free"
      BY <2>2, <2>3 DEF ParentTypeInv
    <3>2. forks' \in 0..start'.forks
      BY <2>1, <2>3 DEF ParentTypeInv
    <3>3. parent'[1] = 0 /\ DOMAIN parent' = Pids /\ DOMAIN kid' = Pids /\ DOMAIN argv' = Pids
      BY <2>2, <2>3, <2>4 DEF ParentTypeInv
    <3>4. DOMAIN text' = Pids /\ DOMAIN fds' = Pids /\ UNCHANGED <<start, log, code, line>>
      BY <2>3 DEF ParentTypeInv
    <3> QED BY <3>1, <3>2, <3>3, <3>4 DEF ParentTypeInv, ToFile, Demo, Parallel, Sequential, reported
  <2>6. forks' = forks - 1 /\ UNCHANGED <<start, log, code, line, files, screen>>
    BY <2>3 DEF data
  <2> QED BY <2>2, <2>3, <2>4, <2>5, <2>6 DEF ParentTypeInv
<1> QED BY <1>1, <1>2, <1>3

-----------------------------------------------------------------------------
(* The texts of the parents and of their children                           *)

InFile  == <<Close(Out), Creat(Out, "userlist"), Exec(1), ExitWith(1)>>
InFile1 == <<Creat(Out, "userlist"), Exec(1), ExitWith(1)>>
ToFile1 == <<Fork(InFile, Failed), Wait, Write(Out, <<"Done running">>), Exit>>
ToFile2 == <<Wait, Write(Out, <<"Done running">>), Exit>>
ToFile3 == <<Write(Out, <<"Done running">>), Exit>>

Demo1 == <<Fork(child_code, Leaving), Wait, Write(Out, <<"done waiting">>), Report, Exit>>
Demo2 == <<Wait, Write(Out, <<"done waiting">>), Report, Exit>>
Demo3 == <<Write(Out, <<"done waiting">>), Report, Exit>>
Demo4 == <<Report, Exit>>
child_code1 == <<Write(Out, <<"child done">>), ExitWith(17)>>
child_code2 == <<ExitWith(17)>>

\* The first call is not a loop.
LEMMA NoLoop == ASSUME NEW t, Head(t).op # "loop" PROVE Unrolled(t) = t
BY DEF Unrolled

LEMMA ToFileTexts ==
    /\ Head(WhoToFile) = Write(Out, <<"About to run">>) /\ Unrolled(Tail(WhoToFile)) = ToFile1
    /\ Head(ToFile1) = Fork(InFile, Failed)         /\ Unrolled(Tail(ToFile1)) = ToFile2
    /\ Head(ToFile2) = Wait                         /\ Unrolled(Tail(ToFile2)) = ToFile3
    /\ Head(ToFile3) = Write(Out, <<"Done running">>) /\ Unrolled(Tail(ToFile3)) = Leaving
    /\ Unrolled(InFile) = InFile
    /\ Head(InFile) = Close(Out)                    /\ Unrolled(Tail(InFile)) = InFile1
    /\ Head(InFile1) = Creat(Out, "userlist")       /\ Unrolled(Tail(InFile1)) = Doomed
    /\ Unrolled(Command("who", 1)) = Two(1)
    /\ Head(Two(1)) = Write(Out, <<1>>)             /\ Unrolled(Tail(Two(1))) = One(1)
    /\ Head(One(1)) = Write(Out, <<1>>)             /\ Unrolled(Tail(One(1))) = Leaving
<1>1. /\ Head(WhoToFile) = Write(Out, <<"About to run">>) /\ Tail(WhoToFile) = ToFile1
      /\ Head(ToFile1) = Fork(InFile, Failed)             /\ Tail(ToFile1) = ToFile2
      /\ Head(ToFile2) = Wait                             /\ Tail(ToFile2) = ToFile3
      /\ Head(ToFile3) = Write(Out, <<"Done running">>)   /\ Tail(ToFile3) = Leaving
      /\ Head(InFile) = Close(Out)                        /\ Tail(InFile) = InFile1
      /\ Head(InFile1) = Creat(Out, "userlist")           /\ Tail(InFile1) = Doomed
      /\ Head(Two(1)) = Write(Out, <<1>>)                 /\ Tail(Two(1)) = One(1)
      /\ Head(One(1)) = Write(Out, <<1>>)                 /\ Tail(One(1)) = Leaving
  <2> DEFINE about == Write(Out, <<"About to run">>)  done == Write(Out, <<"Done running">>)
             fork == Fork(InFile, Failed)
  <2>1. /\ WhoToFile = <<about, fork, Wait, done, Exit>> /\ ToFile1 = <<fork, Wait, done, Exit>>
        /\ ToFile2 = <<Wait, done, Exit>> /\ ToFile3 = <<done, Exit>>
    BY DEF WhoToFile, InFile, Failed, ToFile1, ToFile2, ToFile3
  <2> HIDE DEF about, done, fork
  <2>2. /\ Head(WhoToFile) = about /\ Tail(WhoToFile) = ToFile1
        /\ Head(ToFile1) = fork    /\ Tail(ToFile1) = ToFile2
        /\ Head(ToFile2) = Wait    /\ Tail(ToFile2) = ToFile3
        /\ Head(ToFile3) = done    /\ Tail(ToFile3) = Leaving
    BY <2>1 DEF Leaving
  <2>3. /\ Head(InFile) = Close(Out) /\ Tail(InFile) = InFile1
        /\ Head(InFile1) = Creat(Out, "userlist") /\ Tail(InFile1) = Doomed
    BY DEF InFile, InFile1, Doomed
  <2>4. /\ Head(Two(1)) = Write(Out, <<1>>) /\ Tail(Two(1)) = One(1)
        /\ Head(One(1)) = Write(Out, <<1>>) /\ Tail(One(1)) = Leaving
    BY DEF Two, One, Leaving
  <2> QED BY <2>2, <2>3, <2>4 DEF about, done, fork
<1>2. Head(Leaving) = Exit /\ Exit = ExitWith(0) /\ Head(Doomed) = Exec(1) /\ Command("who", 1) = Two(1)
  BY DEF Leaving, Exit, Doomed, Command, Two
<1>3. /\ \A d, w : Write(d, w).op # "loop" /\ Fork(d, w).op # "loop" /\ Creat(d, w).op # "loop"
      /\ \A d : Close(d).op # "loop" /\ ExitWith(d).op # "loop" /\ Exec(d).op # "loop"
      /\ Wait.op # "loop"
  BY DEF Write, Fork, Creat, Close, ExitWith, Exec, Wait
<1>4. /\ Head(ToFile1).op # "loop" /\ Head(ToFile2).op # "loop" /\ Head(ToFile3).op # "loop"
      /\ Head(InFile).op # "loop" /\ Head(InFile1).op # "loop" /\ Head(Doomed).op # "loop"
      /\ Head(Two(1)).op # "loop" /\ Head(One(1)).op # "loop" /\ Head(Leaving).op # "loop"
  BY <1>1, <1>3, <1>2
<1> QED BY <1>1, <1>4, <1>2, NoLoop

LEMMA DemoTexts ==
    /\ Head(WaitDemo) = Write(Out, <<"before">>)       /\ Unrolled(Tail(WaitDemo)) = Demo1
    /\ Head(Demo1) = Fork(child_code, Leaving)         /\ Unrolled(Tail(Demo1)) = Demo2
    /\ Head(Demo2) = Wait                              /\ Unrolled(Tail(Demo2)) = Demo3
    /\ Head(Demo3) = Write(Out, <<"done waiting">>)    /\ Unrolled(Tail(Demo3)) = Demo4
    /\ Head(Demo4) = Report                            /\ Unrolled(Tail(Demo4)) = Leaving
    /\ Unrolled(child_code) = child_code
    /\ Head(child_code) = Write(Out, <<"child here">>) /\ Unrolled(Tail(child_code)) = child_code1
    /\ Head(child_code1) = Write(Out, <<"child done">>) /\ Unrolled(Tail(child_code1)) = child_code2
    /\ Head(child_code2) = ExitWith(17)
<1>1. /\ Head(WaitDemo) = Write(Out, <<"before">>)       /\ Tail(WaitDemo) = Demo1
      /\ Head(Demo1) = Fork(child_code, Leaving)         /\ Tail(Demo1) = Demo2
      /\ Head(Demo2) = Wait                              /\ Tail(Demo2) = Demo3
      /\ Head(Demo3) = Write(Out, <<"done waiting">>)    /\ Tail(Demo3) = Demo4
      /\ Head(Demo4) = Report                            /\ Tail(Demo4) = Leaving
      /\ Head(child_code) = Write(Out, <<"child here">>) /\ Tail(child_code) = child_code1
      /\ Head(child_code1) = Write(Out, <<"child done">>) /\ Tail(child_code1) = child_code2
      /\ Head(child_code2) = ExitWith(17)
  <2> DEFINE before == Write(Out, <<"before">>)  done == Write(Out, <<"done waiting">>)
             fork == Fork(child_code, Leaving)
             here == Write(Out, <<"child here">>)  said == Write(Out, <<"child done">>)
  <2>1. /\ WaitDemo = <<before, fork, Wait, done, Report, Exit>> /\ Demo1 = <<fork, Wait, done, Report, Exit>>
        /\ Demo2 = <<Wait, done, Report, Exit>> /\ Demo3 = <<done, Report, Exit>>
    BY DEF WaitDemo, Leaving, Demo1, Demo2, Demo3
  <2>2. child_code = <<here, said, ExitWith(17)>> /\ child_code1 = <<said, ExitWith(17)>>
    BY DEF child_code, child_code1
  <2> HIDE DEF before, done, fork, here, said
  <2>3. /\ Head(WaitDemo) = before /\ Tail(WaitDemo) = Demo1
        /\ Head(Demo1) = fork      /\ Tail(Demo1) = Demo2
        /\ Head(Demo2) = Wait      /\ Tail(Demo2) = Demo3
        /\ Head(Demo3) = done      /\ Tail(Demo3) = Demo4
        /\ Head(Demo4) = Report    /\ Tail(Demo4) = Leaving
    BY <2>1 DEF Demo4, Leaving
  <2>4. /\ Head(child_code) = here  /\ Tail(child_code) = child_code1
        /\ Head(child_code1) = said /\ Tail(child_code1) = child_code2
        /\ Head(child_code2) = ExitWith(17)
    BY <2>2 DEF child_code2
  <2> QED BY <2>3, <2>4 DEF before, done, fork, here, said
<1>2. Head(Leaving) = Exit /\ Exit = ExitWith(0)
  BY DEF Leaving, Exit
<1>3. /\ \A d, w : Write(d, w).op # "loop" /\ Fork(d, w).op # "loop"
      /\ \A d : ExitWith(d).op # "loop"
      /\ Wait.op # "loop" /\ Report.op # "loop"
  BY DEF Write, Fork, ExitWith, Wait, Report
<1>4. /\ Head(Demo1).op # "loop" /\ Head(Demo2).op # "loop" /\ Head(Demo3).op # "loop"
      /\ Head(Demo4).op # "loop" /\ Head(Leaving).op # "loop"
      /\ Head(child_code).op # "loop" /\ Head(child_code1).op # "loop" /\ Head(child_code2).op # "loop"
  BY <1>1, <1>3, <1>2
<1> QED BY <1>1, <1>4, NoLoop

\* hw6: the program that forks, with its child and grandchild, and the one that does not.
fp == R("fp", 1)

Ascend0(a) == <<Creat(fp, "file2"), Write(fp, ascending_sort(a)), Close(fp), ExitWith(1)>>
Ascend1(a) == <<Write(fp, ascending_sort(a)), Close(fp), ExitWith(1)>>
Ascend2    == <<Close(fp), ExitWith(1)>>

Descend0(a) == <<Fork(Ascend0(a), Elapsed), Creat(fp, "file3"), Write(fp, descending_sort(a)), Close(fp),
                 Wait, ExitWith(1)>>
Descend1(a) == <<Creat(fp, "file3"), Write(fp, descending_sort(a)), Close(fp), Wait, ExitWith(1)>>
Descend2(a) == <<Write(fp, descending_sort(a)), Close(fp), Wait, ExitWith(1)>>
Descend3    == <<Close(fp), Wait, ExitWith(1)>>
Descend4    == <<Wait, ExitWith(1)>>

Finish      == <<Write(Out, <<"finished">>), Write(Out, <<"Elapsed">>), Exit>>
Parallel4   == <<Wait, Write(Out, <<"finished">>), Write(Out, <<"Elapsed">>), Exit>>
Parallel3(a) == <<Fork(Descend0(a), Elapsed), Wait, Write(Out, <<"finished">>), Write(Out, <<"Elapsed">>), Exit>>
Parallel2(a) == <<Close(fp), Fork(Descend0(a), Elapsed), Wait, Write(Out, <<"finished">>),
                  Write(Out, <<"Elapsed">>), Exit>>
Parallel1(a) == <<Write(fp, a), Close(fp), Fork(Descend0(a), Elapsed), Wait, Write(Out, <<"finished">>),
                  Write(Out, <<"Elapsed">>), Exit>>
Parallel0(a) == <<Creat(fp, "file1"), Write(fp, a), Close(fp), Fork(Descend0(a), Elapsed), Wait,
                  Write(Out, <<"finished">>), Write(Out, <<"Elapsed">>), Exit>>

turned(a) == descending_sort(ascending_sort(a))

Sequential8    == <<Close(fp), Write(Out, <<"Elapsed">>), Exit>>
Sequential7(a) == <<Write(fp, turned(a)), Close(fp), Write(Out, <<"Elapsed">>), Exit>>
Sequential6(a) == <<Creat(fp, "file3"), Write(fp, turned(a)), Close(fp), Write(Out, <<"Elapsed">>), Exit>>
Sequential5(a) == <<Close(fp), Creat(fp, "file3"), Write(fp, turned(a)), Close(fp),
                    Write(Out, <<"Elapsed">>), Exit>>
Sequential4(a) == <<Write(fp, ascending_sort(a)), Close(fp), Creat(fp, "file3"), Write(fp, turned(a)), Close(fp),
                    Write(Out, <<"Elapsed">>), Exit>>
Sequential3(a) == <<Creat(fp, "file2"), Write(fp, ascending_sort(a)), Close(fp), Creat(fp, "file3"),
                    Write(fp, turned(a)), Close(fp), Write(Out, <<"Elapsed">>), Exit>>
Sequential2(a) == <<Close(fp), Creat(fp, "file2"), Write(fp, ascending_sort(a)), Close(fp), Creat(fp, "file3"),
                    Write(fp, turned(a)), Close(fp), Write(Out, <<"Elapsed">>), Exit>>
Sequential1(a) == <<Write(fp, a), Close(fp), Creat(fp, "file2"), Write(fp, ascending_sort(a)), Close(fp),
                    Creat(fp, "file3"), Write(fp, turned(a)), Close(fp), Write(Out, <<"Elapsed">>), Exit>>
Sequential0(a) == <<Creat(fp, "file1"), Write(fp, a), Close(fp), Creat(fp, "file2"), Write(fp, ascending_sort(a)),
                    Close(fp), Creat(fp, "file3"), Write(fp, turned(a)), Close(fp),
                    Write(Out, <<"Elapsed">>), Exit>>

LEMMA ConcatIs ==
    ASSUME NEW S, NEW s \in Seq(S), NEW t \in Seq(S), NEW u \in Seq(S), Len(u) = Len(s) + Len(t),
           \A i \in 1..Len(s) : u[i] = s[i], \A i \in 1..Len(t) : u[Len(s) + i] = t[i]
    PROVE  s \o t = u
<1>1. /\ s \o t \in Seq(S) /\ Len(s \o t) = Len(s) + Len(t) /\ Len(s) \in Nat /\ Len(t) \in Nat
      /\ \A i \in 1..Len(s) + Len(t) : (s \o t)[i] = IF i <= Len(s) THEN s[i] ELSE t[i - Len(s)]
  BY ConcatProperties, LenProperties
<1>2. \A i \in 1..Len(s) + Len(t) : (s \o t)[i] = u[i]
  <2> TAKE i \in 1..Len(s) + Len(t)
  <2>1. CASE i <= Len(s)
    BY <1>1, <2>1
  <2>2. CASE ~(i <= Len(s))
    <3>1. i - Len(s) \in 1..Len(t) /\ Len(s) + (i - Len(s)) = i
      BY <1>1, <2>2
    <3> QED BY <1>1, <2>2, <3>1
  <2> QED BY <2>1, <2>2
<1> DEFINE v == s \o t
<1> HIDE DEF v
<1>3. v \in Seq(S) /\ Len(v) = Len(u) /\ \A i \in 1..Len(v) : v[i] = u[i]
  BY <1>1, <1>2 DEF v
<1>4. v = u
  BY <1>3, SeqEqual
<1> QED BY <1>4 DEF v

LEMMA ConcatThreeThree ==
    ASSUME NEW a, NEW b, NEW c, NEW d, NEW e, NEW f
    PROVE  <<a, b, c>> \o <<d, e, f>> = <<a, b, c, d, e, f>>
<1> DEFINE S == {a, b, c, d, e, f}  s == <<a, b, c>>  t == <<d, e, f>>  u == <<a, b, c, d, e, f>>
<1>1. s \in Seq(S) /\ t \in Seq(S) /\ u \in Seq(S) /\ Len(s) = 3 /\ Len(t) = 3 /\ Len(u) = 6
  OBVIOUS
<1>2. /\ s[1] = a /\ s[2] = b /\ s[3] = c /\ t[1] = d /\ t[2] = e /\ t[3] = f
      /\ u[1] = a /\ u[2] = b /\ u[3] = c /\ u[4] = d /\ u[5] = e /\ u[6] = f
  OBVIOUS
<1> HIDE DEF S, s, t, u
<1>3. \A i \in 1..3 : i = 1 \/ i = 2 \/ i = 3
  OBVIOUS
<1>4. (\A i \in 1..3 : u[i] = s[i]) /\ \A i \in 1..3 : u[3 + i] = t[i]
  BY <1>2, <1>3
<1>5. /\ Len(u) = Len(s) + Len(t) /\ (\A i \in 1..Len(s) : u[i] = s[i])
      /\ \A i \in 1..Len(t) : u[Len(s) + i] = t[i]
  BY <1>1, <1>4
<1>6. s \o t = u
  BY <1>1, <1>5, ConcatIs
<1> QED BY <1>6 DEF s, t, u

LEMMA ConcatSixTwo ==
    ASSUME NEW a, NEW b, NEW c, NEW d, NEW e, NEW f, NEW g, NEW h
    PROVE  <<a, b, c, d, e, f>> \o <<g, h>> = <<a, b, c, d, e, f, g, h>>
<1> DEFINE S == {a, b, c, d, e, f, g, h}  s == <<a, b, c, d, e, f>>  t == <<g, h>>
           u == <<a, b, c, d, e, f, g, h>>
<1>1. s \in Seq(S) /\ t \in Seq(S) /\ u \in Seq(S) /\ Len(s) = 6 /\ Len(t) = 2 /\ Len(u) = 8
  OBVIOUS
<1>2. /\ s[1] = a /\ s[2] = b /\ s[3] = c /\ s[4] = d /\ s[5] = e /\ s[6] = f /\ t[1] = g /\ t[2] = h
      /\ u[1] = a /\ u[2] = b /\ u[3] = c /\ u[4] = d /\ u[5] = e /\ u[6] = f /\ u[7] = g /\ u[8] = h
  OBVIOUS
<1> HIDE DEF S, s, t, u
<1>3. /\ \A i \in 1..6 : i = 1 \/ i = 2 \/ i = 3 \/ i = 4 \/ i = 5 \/ i = 6
      /\ \A i \in 1..2 : i = 1 \/ i = 2
  OBVIOUS
<1>4. (\A i \in 1..6 : u[i] = s[i]) /\ \A i \in 1..2 : u[6 + i] = t[i]
  BY <1>2, <1>3
<1>5. /\ Len(u) = Len(s) + Len(t) /\ (\A i \in 1..Len(s) : u[i] = s[i])
      /\ \A i \in 1..Len(t) : u[Len(s) + i] = t[i]
  BY <1>1, <1>4
<1>6. s \o t = u
  BY <1>1, <1>5, ConcatIs
<1> QED BY <1>6 DEF s, t, u

LEMMA ConcatSixThreeTwo ==
    ASSUME NEW a, NEW b, NEW c, NEW d, NEW e, NEW f, NEW g, NEW h, NEW i1, NEW j1, NEW k1
    PROVE  (<<a, b, c, d, e, f>> \o <<g, h, i1>>) \o <<j1, k1>> = <<a, b, c, d, e, f, g, h, i1, j1, k1>>
<1> DEFINE S == {a, b, c, d, e, f, g, h, i1, j1, k1}
           s == <<a, b, c, d, e, f>>  t == <<g, h, i1>>  u == <<a, b, c, d, e, f, g, h, i1>>
           v == <<j1, k1>>  w == <<a, b, c, d, e, f, g, h, i1, j1, k1>>
<1>1. /\ s \in Seq(S) /\ t \in Seq(S) /\ u \in Seq(S) /\ v \in Seq(S) /\ w \in Seq(S)
      /\ Len(s) = 6 /\ Len(t) = 3 /\ Len(u) = 9 /\ Len(v) = 2 /\ Len(w) = 11
  OBVIOUS
<1>2. /\ s[1] = a /\ s[2] = b /\ s[3] = c /\ s[4] = d /\ s[5] = e /\ s[6] = f
      /\ t[1] = g /\ t[2] = h /\ t[3] = i1 /\ v[1] = j1 /\ v[2] = k1
  OBVIOUS
<1>3. /\ u[1] = a /\ u[2] = b /\ u[3] = c /\ u[4] = d /\ u[5] = e /\ u[6] = f /\ u[7] = g /\ u[8] = h /\ u[9] = i1
      /\ w[1] = a /\ w[2] = b /\ w[3] = c /\ w[4] = d /\ w[5] = e /\ w[6] = f /\ w[7] = g /\ w[8] = h
      /\ w[9] = i1 /\ w[10] = j1 /\ w[11] = k1
  OBVIOUS
<1> HIDE DEF S, s, t, u, v, w
<1>4. /\ \A i \in 1..9 : i = 1 \/ i = 2 \/ i = 3 \/ i = 4 \/ i = 5 \/ i = 6 \/ i = 7 \/ i = 8 \/ i = 9
      /\ \A i \in 1..6 : i = 1 \/ i = 2 \/ i = 3 \/ i = 4 \/ i = 5 \/ i = 6
      /\ \A i \in 1..3 : i = 1 \/ i = 2 \/ i = 3
      /\ \A i \in 1..2 : i = 1 \/ i = 2
  OBVIOUS
<1>5. /\ (\A i \in 1..6 : u[i] = s[i]) /\ (\A i \in 1..3 : u[6 + i] = t[i])
      /\ (\A i \in 1..9 : w[i] = u[i]) /\ (\A i \in 1..2 : w[9 + i] = v[i])
  BY <1>2, <1>3, <1>4
<1>6. /\ Len(u) = Len(s) + Len(t) /\ (\A i \in 1..Len(s) : u[i] = s[i])
      /\ \A i \in 1..Len(t) : u[Len(s) + i] = t[i]
  BY <1>1, <1>5
<1>7. /\ Len(w) = Len(u) + Len(v) /\ (\A i \in 1..Len(u) : w[i] = u[i])
      /\ \A i \in 1..Len(v) : w[Len(u) + i] = v[i]
  BY <1>1, <1>5
<1>8. s \o t = u
  BY <1>1, <1>6, ConcatIs
<1>9. u \o v = w
  BY <1>1, <1>7, ConcatIs
<1> QED BY <1>8, <1>9 DEF s, t, u, v, w

LEMMA ConcatOneThreeTwo ==
    ASSUME NEW a, NEW b, NEW c, NEW d, NEW e, NEW f
    PROVE  (<<a>> \o <<b, c, d>>) \o <<e, f>> = <<a, b, c, d, e, f>>
<1> DEFINE S == {a, b, c, d, e, f}
           s == <<a>>  t == <<b, c, d>>  u == <<a, b, c, d>>  v == <<e, f>>  w == <<a, b, c, d, e, f>>
<1>1. /\ s \in Seq(S) /\ t \in Seq(S) /\ u \in Seq(S) /\ v \in Seq(S) /\ w \in Seq(S)
      /\ Len(s) = 1 /\ Len(t) = 3 /\ Len(u) = 4 /\ Len(v) = 2 /\ Len(w) = 6
  OBVIOUS
<1>2. /\ s[1] = a /\ t[1] = b /\ t[2] = c /\ t[3] = d /\ v[1] = e /\ v[2] = f
      /\ u[1] = a /\ u[2] = b /\ u[3] = c /\ u[4] = d
      /\ w[1] = a /\ w[2] = b /\ w[3] = c /\ w[4] = d /\ w[5] = e /\ w[6] = f
  OBVIOUS
<1> HIDE DEF S, s, t, u, v, w
<1>3. /\ \A i \in 1..4 : i = 1 \/ i = 2 \/ i = 3 \/ i = 4
      /\ \A i \in 1..3 : i = 1 \/ i = 2 \/ i = 3
      /\ (\A i \in 1..2 : i = 1 \/ i = 2) /\ \A i \in 1..1 : i = 1
  OBVIOUS
<1>4. /\ (\A i \in 1..1 : u[i] = s[i]) /\ (\A i \in 1..3 : u[1 + i] = t[i])
      /\ (\A i \in 1..4 : w[i] = u[i]) /\ (\A i \in 1..2 : w[4 + i] = v[i])
  BY <1>2, <1>3
<1>5. /\ Len(u) = Len(s) + Len(t) /\ (\A i \in 1..Len(s) : u[i] = s[i])
      /\ \A i \in 1..Len(t) : u[Len(s) + i] = t[i]
  BY <1>1, <1>4
<1>6. /\ Len(w) = Len(u) + Len(v) /\ (\A i \in 1..Len(u) : w[i] = u[i])
      /\ \A i \in 1..Len(v) : w[Len(u) + i] = v[i]
  BY <1>1, <1>4
<1>7. s \o t = u
  BY <1>1, <1>5, ConcatIs
<1>8. u \o v = w
  BY <1>1, <1>6, ConcatIs
<1> QED BY <1>7, <1>8 DEF s, t, u, v, w

\* The texts of ForkPrograms are these.
LEMMA SortPrograms ==
    ASSUME NEW a
    PROVE  SortParallel(a) = Parallel0(a) /\ SortSequential(a) = Sequential0(a)
<1>1. \A b, f : makeFile(b, f) = <<Creat(fp, f), Write(fp, b), Close(fp)>>
  BY DEF makeFile, fp
<1>2. \A b, f, c : makeFile(b, f) \o <<c>> = <<Creat(fp, f), Write(fp, b), Close(fp), c>>
  BY <1>1, ConcatThree
<1>3. SortChildren(a) = Descend0(a)
  <2>1. makeFile(ascending_sort(a), "file2") \o <<ExitWith(1)>> = Ascend0(a)
    BY <1>2 DEF Ascend0
  <2> DEFINE c == Fork(Ascend0(a), Elapsed)  d == descending_sort(a)
  <2>2. SortChildren(a) = (<<c>> \o makeFile(d, "file3")) \o <<Wait, ExitWith(1)>>
    BY <2>1 DEF SortChildren
  <2>3. Descend0(a) = <<c, Creat(fp, "file3"), Write(fp, d), Close(fp), Wait, ExitWith(1)>>
    BY DEF Descend0
  <2> HIDE DEF c, d
  <2> DEFINE x == Creat(fp, "file3")  y == Write(fp, d)  z == Close(fp)  v == ExitWith(1)
  <2>4. makeFile(d, "file3") = <<x, y, z>>
    BY <1>1
  <2> HIDE DEF x, y, z, v
  <2>5. (<<c>> \o <<x, y, z>>) \o <<Wait, v>> = <<c, x, y, z, Wait, v>>
    BY ConcatOneThreeTwo
  <2> QED BY <2>2, <2>3, <2>4, <2>5 DEF x, y, z, v
<1>4. SortParallel(a) = Parallel0(a)
  <2> DEFINE c == Fork(Descend0(a), Elapsed)  m == Write(Out, <<"finished">>)  e == Write(Out, <<"Elapsed">>)
  <2>1. SortParallel(a) = (makeFile(a, "file1") \o <<c, Wait, m>>) \o <<e, Exit>>
    BY <1>3 DEF SortParallel, Elapsed
  <2> DEFINE x == Creat(fp, "file1")  y == Write(fp, a)  z == Close(fp)
  <2>2. Parallel0(a) = <<x, y, z, c, Wait, m, e, Exit>>
    BY DEF Parallel0
  <2>3. makeFile(a, "file1") = <<x, y, z>>
    BY <1>1
  <2> HIDE DEF c, m, e, x, y, z
  <2>4. <<x, y, z>> \o <<c, Wait, m>> = <<x, y, z, c, Wait, m>>
    BY ConcatThreeThree
  <2>5. <<x, y, z, c, Wait, m>> \o <<e, Exit>> = <<x, y, z, c, Wait, m, e, Exit>>
    BY ConcatSixTwo
  <2> QED BY <2>1, <2>2, <2>3, <2>4, <2>5
<1>5. SortSequential(a) = Sequential0(a)
  <2> DEFINE e == Write(Out, <<"Elapsed">>)  u == ascending_sort(a)  w == turned(a)
  <2>1. SortSequential(a) = ((makeFile(a, "file1") \o makeFile(u, "file2")) \o makeFile(w, "file3")) \o <<e, Exit>>
    BY DEF SortSequential, Elapsed, turned
  <2> HIDE DEF u, w
  <2> DEFINE x1 == Creat(fp, "file1")  y1 == Write(fp, a)  z == Close(fp)
             x2 == Creat(fp, "file2")  y2 == Write(fp, u)
             x3 == Creat(fp, "file3")  y3 == Write(fp, w)
  <2>2. Sequential0(a) = <<x1, y1, z, x2, y2, z, x3, y3, z, e, Exit>>
    BY DEF Sequential0, u, w
  <2>3. makeFile(a, "file1") = <<x1, y1, z>> /\ makeFile(u, "file2") = <<x2, y2, z>> /\ makeFile(w, "file3") = <<x3, y3, z>>
    BY <1>1
  <2> HIDE DEF e, x1, y1, z, x2, y2, x3, y3
  <2>4. <<x1, y1, z>> \o <<x2, y2, z>> = <<x1, y1, z, x2, y2, z>>
    BY ConcatThreeThree
  <2>5. (<<x1, y1, z, x2, y2, z>> \o <<x3, y3, z>>) \o <<e, Exit>> = <<x1, y1, z, x2, y2, z, x3, y3, z, e, Exit>>
    BY ConcatSixThreeTwo
  <2> QED BY <2>1, <2>2, <2>3, <2>4, <2>5
<1> QED BY <1>4, <1>5

-----------------------------------------------------------------------------
(* The inductive invariant of the parents                                   *)

\* The screen has only what such a program says.
Sentences == {"About to run", "Done running", "before", "child here", "child done", "done waiting",
              "finished", "Elapsed"}

Spoken == screen \in Seq({Said(w) : w \in Sentences})

DoneRunning == Shown("Done running")
DoneWaiting == Shown("done waiting")
ChildDone   == Shown("child done")
Finished    == Shown("finished")
Measured    == Shown("Elapsed")

\* The child of whotofile_p.c: userlist holds n lines.
Listed(n) == "userlist" \in DOMAIN files /\ files["userlist"] \in Seq({Said(1)}) /\ Len(files["userlist"]) = n

Whole1 == IF start.argv = <<"who">> THEN 2 ELSE 0

UsersInv ==
    /\ 2 \in Pids /\ parent[2] = 1
    /\ \/ /\ status[2] = "running" /\ argv[2] = start.argv
          /\ \/ text[2] \in {InFile, InFile1}
             \/ /\ Wired(2, Out, <<"file", "userlist">>)
                /\ \/ text[2] = Doomed /\ Listed(0)
                   \/ start.argv = <<"nosuch">> /\ text[2] = Failed /\ Listed(0)
                   \/ /\ start.argv = <<"who">>
                      /\ \/ text[2] = Two(1) /\ Listed(0)
                         \/ text[2] = One(1) /\ Listed(1)
                         \/ text[2] = Leaving /\ Listed(2)
       \/ status[2] = "zombie" /\ Listed(Whole1)

ToFileInv ==
    /\ start.argv \in {<<"who">>, <<"nosuch">>} /\ argv[1] = start.argv
    /\ \/ /\ status[1] = "running" /\ Wired(1, Out, Tty) /\ ~DoneRunning
          /\ \/ NoChild /\ text[1] = WhoToFile /\ Len(screen) = 0
             \/ /\ Len(screen) = 1
                /\ \/ NoChild /\ text[1] = ToFile1
                   \/ text[1] = ToFile2 /\ OneChild /\ UsersInv
                   \/ text[1] = ToFile3 /\ Quiet /\ Listed(Whole1)
       \/ /\ status[1] = "gone" \/ (status[1] = "running" /\ text[1] \in {Failed, Leaving})
          /\ Quiet
          /\ DoneRunning => Len(screen) = 2 /\ Listed(Whole1)

\* The child of waitdemo2.c, and what its parent has of it afterwards.
TalkInv ==
    /\ 2 \in Pids /\ parent[2] = 1 /\ kid[1] = 2
    /\ \/ /\ status[2] = "running" /\ Wired(2, Out, Tty)
          /\ \/ text[2] \in {child_code, child_code1}
             \/ text[2] = child_code2 /\ ChildDone
       \/ status[2] = "zombie" /\ code[2] = 17 * 256 /\ ChildDone

Told == kid[1] = 2 /\ code[2] = 17 * 256 /\ ChildDone

DemoInv ==
    /\ argv[1] = <<>>
    /\ \/ /\ status[1] = "running" /\ Wired(1, Out, Tty) /\ ~DoneWaiting
          /\ \/ NoChild /\ text[1] \in {WaitDemo, Demo1}
             \/ text[1] = Demo2 /\ OneChild /\ TalkInv
             \/ text[1] = Demo3 /\ Quiet /\ Told
       \/ status[1] = "running" /\ text[1] = Demo4 /\ Quiet /\ Told
       \/ /\ status[1] = "gone" \/ (status[1] = "running" /\ text[1] = Leaving)
          /\ Quiet /\ (DoneWaiting => ChildDone)

\* The files of hw6, when they have been opened and when they have been written.
Emptied2 == File("file2", <<>>)
Emptied3 == File("file3", <<>>)
Sorted2 == Holding("file2", ascending_sort(start.argv))
Sorted3 == Holding("file3", descending_sort(start.argv))
Turned3 == Holding("file3", turned(start.argv))
Both    == Sorted2 /\ Sorted3

\* The child's child sorts upwards, the child downwards.
AscendInv ==
    /\ 3 \in Pids /\ parent[3] = 2
    /\ \/ /\ status[3] = "running"
          /\ \/ text[3] = Ascend0(start.argv)
             \/ text[3] = Ascend1(start.argv) /\ Wired(3, fp, <<"file", "file2">>) /\ Emptied2
             \/ text[3] \in {Ascend2, Failed} /\ Sorted2
       \/ status[3] = "zombie" /\ Sorted2

NoGrandchild == \A q \in Pids \ {1, 2} : status[q] \in {"free", "gone"}

DescendInv ==
    /\ 2 \in Pids /\ parent[2] = 1
    /\ \/ /\ status[2] = "running"
          /\ \/ /\ OneChild /\ Wired(2, Out, Tty)
                /\ \/ text[2] = Descend0(start.argv) /\ start.forks - forks = 1
                   \/ text[2] \in {Elapsed, Leaving} /\ forks = 0
             \/ /\ AscendInv
                /\ \/ text[2] = Descend1(start.argv)
                   \/ text[2] = Descend2(start.argv) /\ Wired(2, fp, <<"file", "file3">>) /\ Emptied3
                   \/ text[2] \in {Descend3, Descend4} /\ Sorted3
             \/ text[2] = Failed /\ Both /\ NoGrandchild
       \/ /\ status[2] = "zombie" /\ (forks > 0 => Both)
          /\ NoGrandchild

ParallelInv ==
    /\ Sorts(start.argv)
    /\ \/ /\ status[1] = "running" /\ Wired(1, Out, Tty) /\ ~Finished
          /\ \/ /\ NoChild
                /\ \/ text[1] \in {Parallel0(start.argv), Parallel2(start.argv), Parallel3(start.argv)}
                   \/ text[1] = Parallel1(start.argv) /\ Wired(1, fp, <<"file", "file1">>)
             \/ text[1] = Parallel4 /\ DescendInv
             \/ text[1] = Finish /\ Quiet /\ (forks > 0 => Both)
       \/ /\ \/ status[1] = "gone"
             \/ status[1] = "running" /\ Wired(1, Out, Tty) /\ text[1] \in {Elapsed, Leaving}
          /\ Quiet /\ (Finished /\ forks > 0 => Both)

\* Or one process sorts upwards and then downwards.
SequentialInv ==
    /\ Sorts(start.argv) /\ NoChild
    /\ \/ /\ status[1] = "running" /\ Wired(1, Out, Tty) /\ ~Measured
          /\ \/ text[1] \in {Sequential0(start.argv), Sequential2(start.argv), Sequential3(start.argv)}
             \/ text[1] = Sequential1(start.argv) /\ Wired(1, fp, <<"file", "file1">>)
             \/ text[1] = Sequential4(start.argv) /\ Wired(1, fp, <<"file", "file2">>) /\ Emptied2
             \/ text[1] \in {Sequential5(start.argv), Sequential6(start.argv)} /\ Sorted2
             \/ /\ text[1] = Sequential7(start.argv) /\ Wired(1, fp, <<"file", "file3">>)
                /\ Sorted2 /\ Emptied3
             \/ text[1] \in {Sequential8, Elapsed} /\ Sorted2 /\ Turned3
       \/ /\ status[1] = "gone" \/ (status[1] = "running" /\ text[1] = Leaving)
          /\ Sorted2 /\ Turned3

ParentInv ==
    /\ ParentTypeInv /\ Spoken
    /\ ToFile => ToFileInv
    /\ Demo => DemoInv
    /\ Parallel => ParallelInv
    /\ Sequential => SequentialInv

-----------------------------------------------------------------------------
(* What a call does to the screen and to the files                          *)

LEMMA SayShown ==
    ASSUME Spoken, NEW w \in Sentences, screen' = Append(screen, Said(w))
    PROVE  /\ Spoken' /\ Len(screen) \in Nat /\ Len(screen') = Len(screen) + 1
           /\ DoneRunning' <=> DoneRunning \/ w = "Done running"
           /\ DoneWaiting' <=> DoneWaiting \/ w = "done waiting"
           /\ ChildDone' <=> ChildDone \/ w = "child done"
           /\ Finished' <=> Finished \/ w = "finished"
           /\ Measured' <=> Measured \/ w = "Elapsed"
<1> DEFINE S == {Said(v) : v \in Sentences}  l == Said(w)
<1>1. l \in S /\ l.via = <<w>>
  BY DEF Said
<1>2. screen \in Seq(S)
  BY DEF Spoken
<1> HIDE DEF S, l
<1>3. /\ screen' \in Seq(S) /\ Len(screen) \in Nat /\ Len(screen') = Len(screen) + 1
      /\ screen'[Len(screen) + 1] = l /\ \A i \in 1..Len(screen) : screen'[i] = screen[i]
      /\ DOMAIN screen = 1..Len(screen) /\ DOMAIN screen' = 1..Len(screen) + 1
  BY <1>1, <1>2, AppendProperties, LenProperties DEF l
<1>4. \A v : (\E i \in DOMAIN screen' : screen'[i].via = v) <=> (\E i \in DOMAIN screen : screen[i].via = v) \/ v = <<w>>
  <2> TAKE v
  <2>1. ASSUME NEW i \in DOMAIN screen', screen'[i].via = v
        PROVE  (\E j \in DOMAIN screen : screen[j].via = v) \/ v = <<w>>
    <3>1. i \in DOMAIN screen \/ i = Len(screen) + 1
      BY <1>3
    <3> QED BY <1>1, <1>3, <2>1, <3>1
  <2>2. ASSUME NEW i \in DOMAIN screen, screen[i].via = v
        PROVE  \E j \in DOMAIN screen' : screen'[j].via = v
    BY <1>3, <2>2
  <2>3. v = <<w>> => \E j \in DOMAIN screen' : screen'[j].via = v
    BY <1>1, <1>3
  <2> QED BY <2>1, <2>2, <2>3
<1>5. \A v : <<v>> = <<w>> <=> v = w
  OBVIOUS
<1>6. /\ DoneRunning' <=> DoneRunning \/ w = "Done running"
      /\ DoneWaiting' <=> DoneWaiting \/ w = "done waiting"
      /\ ChildDone' <=> ChildDone \/ w = "child done"
      /\ Finished' <=> Finished \/ w = "finished"
      /\ Measured' <=> Measured \/ w = "Elapsed"
  BY <1>4, <1>5 DEF DoneRunning, DoneWaiting, ChildDone, Finished, Measured, Shown
<1> QED BY <1>3, <1>6 DEF Spoken, S

LEMMA SameScreen ==
    ASSUME Spoken, UNCHANGED screen
    PROVE  /\ Spoken'
           /\ DoneRunning' = DoneRunning /\ DoneWaiting' = DoneWaiting /\ ChildDone' = ChildDone
           /\ Finished' = Finished /\ Measured' = Measured
BY DEF Spoken, DoneRunning, DoneWaiting, ChildDone, Finished, Measured, Shown

LEMMA SameFiles ==
    ASSUME UNCHANGED <<files, start>>
    PROVE  /\ Sorted2' = Sorted2 /\ Sorted3' = Sorted3 /\ Turned3' = Turned3
           /\ Emptied2' = Emptied2 /\ Emptied3' = Emptied3
BY DEF Emptied2, Emptied3, Sorted2, Sorted3, Turned3, Holding, File

LEMMA Executes ==
    ASSUME ParentTypeInv, NEW p \in Pids, Call(p) = Exec(1), Process(p) \/ Shell(p),
           NEW t, t = Unrolled(IF argv[p][1] = "nosuch" THEN Rest(p) ELSE Command(argv[p][1], 1))
    PROVE  UNCHANGED <<fds, files, screen>> /\ Goes(p, t) /\ ParentTypeInv'
<1>1. Call(p).op = "exec" /\ Call(p).n = 1
  BY DEF Exec
<1>2. SysExec(p)
  BY <1>1, ByCall
<1>3. text' = [text EXCEPT ![p] = t] /\ UNCHANGED <<family, lives, fds, line, files, screen>>
  BY <1>1, <1>2 DEF SysExec, GoOn, data
<1> QED BY <1>3, GoesOn

LEMMA FailedTexts ==
    /\ Unrolled(Failed) = Failed /\ Head(Failed) = ExitWith(1)
    /\ Unrolled(Leaving) = Leaving /\ Head(Leaving) = ExitWith(0)
    /\ Head(Doomed) = Exec(1) /\ Unrolled(Tail(Doomed)) = Failed
<1>1. /\ Head(Failed) = ExitWith(1) /\ Head(Leaving) = ExitWith(0)
      /\ Head(Doomed) = Exec(1) /\ Tail(Doomed) = Failed
  BY DEF Failed, Leaving, Doomed, Exit
<1>2. ExitWith(1).op # "loop" /\ ExitWith(0).op # "loop"
  BY DEF ExitWith
<1> QED BY <1>1, <1>2, NoLoop

-----------------------------------------------------------------------------
(* The steps of whotofile_p.c                                               *)

LEMMA ToFileParent ==
    ASSUME ParentTypeInv, Spoken, ToFile, ToFileInv, 1 \in Pids, Process(1) \/ Shell(1)
    PROVE  ParentTypeInv' /\ Spoken' /\ start' = start /\ ToFileInv'
<1>1. status[1] = "running"
  BY ByCall
<1> DEFINE Talks == Wired(1, Out, Tty) /\ ~DoneRunning
<1>2. CASE Talks /\ NoChild /\ text[1] = WhoToFile /\ Len(screen) = 0
  <2>1. Call(1) = Write(Out, <<"About to run">>) /\ Unrolled(Rest(1)) = ToFile1
    BY <1>2, ToFileTexts DEF Call, Rest
  <2>2. /\ screen' = Append(screen, Said("About to run")) /\ UNCHANGED <<fds, files>>
        /\ Goes(1, ToFile1) /\ ParentTypeInv'
    BY <1>2, <2>1, Says
  <2>3. Spoken' /\ Len(screen') = Len(screen) + 1 /\ (DoneRunning' <=> DoneRunning \/ "About to run" = "Done running")
    <3>1. "About to run" \in Sentences
      BY DEF Sentences
    <3> QED BY <2>2, <3>1, SayShown
  <2>4. Len(screen') = 1 /\ ~DoneRunning'
    BY <1>2, <2>3
  <2>5. NoChild' /\ Wired(1, Out, Tty)' /\ status'[1] = "running" /\ text'[1] = ToFile1
    BY <1>1, <1>2, <2>2 DEF NoChild, Wired, Goes
  <2>6. start' = start /\ argv' = argv /\ ParentTypeInv'
    BY <2>2 DEF Goes
  <2>7. ToFileInv'
    BY <2>4, <2>5, <2>6 DEF ToFileInv
  <2> QED BY <2>3, <2>6, <2>7
<1>3. CASE Talks /\ NoChild /\ text[1] = ToFile1 /\ Len(screen) = 1
  <2>1. Call(1) = Fork(InFile, Failed) /\ Unrolled(Rest(1)) = ToFile2 /\ Unrolled(InFile) = InFile
        /\ Unrolled(Failed) = Failed
    BY <1>3, ToFileTexts, FailedTexts DEF Call, Rest
  <2>2. (\A q \in Pids : status[q] = "free" <=> q >= 2) /\ start.forks - forks = 2 - 2
    BY <1>1, <1>3 DEF NoChild, Pids, ParentTypeInv
  <2>3. CASE Goes(1, Failed) /\ forks = 0 /\ UNCHANGED <<fds, files, screen>> /\ ParentTypeInv'
    <3>1. Spoken' /\ ~DoneRunning'
      BY <1>3, <2>3, SameScreen
    <3>2. Quiet'
      BY <1>3, <2>3 DEF Quiet, NoChild, Goes
    <3> QED BY <1>1, <2>3, <3>1, <3>2 DEF ToFileInv, Goes
  <2>4. CASE /\ 2 \in Pids /\ status'[2] = "running" /\ parent'[2] = 1
             /\ argv'[2] = argv[1] /\ text'[2] = InFile /\ text'[1] = ToFile2
             /\ \A q \in Pids \ {2} : status'[q] = status[q] /\ fds'[q] = fds[q] /\ argv'[q] = argv[q]
             /\ UNCHANGED <<start, files, screen>> /\ ParentTypeInv'
    <3>1. Spoken' /\ ~DoneRunning'
      BY <1>3, <2>4, SameScreen
    <3>2. UsersInv' /\ OneChild'
      BY <1>3, <2>4 DEF UsersInv, OneChild, NoChild, ToFileInv
    <3> QED BY <1>1, <1>3, <2>4, <3>1, <3>2 DEF ToFileInv, Wired
  <2> QED BY <2>1, <2>2, <2>3, <2>4, Divides
<1>4. CASE Talks /\ text[1] = ToFile2 /\ OneChild /\ UsersInv /\ Len(screen) = 1
  <2>1. Call(1) = Wait /\ Unrolled(Rest(1)) = ToFile3
    BY <1>4, ToFileTexts DEF Call, Rest
  <2>2. /\ 2 \in Pids \ {1} /\ parent[2] = 1 /\ status[2] \in {"running", "zombie"}
        /\ \A q \in Pids \ {2} : parent[q] = 1 => status[q] \notin {"running", "zombie"}
    BY <1>1, <1>4 DEF UsersInv, OneChild, ParentTypeInv
  <2>3. /\ status[2] = "zombie" /\ status' = [status EXCEPT ![2] = "gone"]
        /\ UNCHANGED <<start, argv, fds, files, screen>> /\ text'[1] = ToFile3 /\ ParentTypeInv'
    BY <2>1, <2>2, WaitsFor
  <2>4. Spoken' /\ ~DoneRunning'
    BY <1>4, <2>3, SameScreen
  <2>5. Quiet' /\ status'[1] = "running"
    BY <1>1, <1>4, <2>3 DEF Quiet, OneChild, ParentTypeInv
  <2>6. Listed(Whole1)'
    BY <1>4, <2>3 DEF UsersInv, Listed, Whole1
  <2> QED BY <1>4, <2>3, <2>4, <2>5, <2>6 DEF ToFileInv, Wired
<1>5. CASE Talks /\ text[1] = ToFile3 /\ Quiet /\ Listed(Whole1) /\ Len(screen) = 1
  <2>1. Call(1) = Write(Out, <<"Done running">>) /\ Unrolled(Rest(1)) = Leaving
    BY <1>5, ToFileTexts DEF Call, Rest
  <2>2. /\ screen' = Append(screen, Said("Done running")) /\ UNCHANGED <<fds, files>>
        /\ Goes(1, Leaving) /\ ParentTypeInv'
    BY <1>5, <2>1, Says
  <2>3. Spoken' /\ Len(screen') = Len(screen) + 1
    <3>1. "Done running" \in Sentences
      BY DEF Sentences
    <3> QED BY <2>2, <3>1, SayShown
  <2>4. Quiet' /\ Listed(Whole1)'
    BY <1>5, <2>2 DEF Quiet, Listed, Whole1, Goes
  <2>5. Len(screen') = 2
    BY <1>5, <2>3
  <2> QED BY <1>1, <2>2, <2>3, <2>4, <2>5 DEF ToFileInv, Goes
<1>6. CASE text[1] \in {Failed, Leaving} /\ Quiet /\ (DoneRunning => Len(screen) = 2 /\ Listed(Whole1))
  <2>1. \E c : Call(1) = ExitWith(c)
    BY <1>6, FailedTexts DEF Call
  <2>2. PICK c : Call(1) = ExitWith(c)
    BY <2>1
  <2>3. /\ status'[1] = "gone" /\ \A q \in Pids \ {1} : status'[q] \in {status[q], "gone"}
        /\ UNCHANGED <<start, argv, files, screen>> /\ ParentTypeInv'
    <3>1. parent[1] = 0 /\ 1 \in Pids \cap {1, 2, 3}
      BY DEF ParentTypeInv
    <3>2. "gone" = IF parent[1] # 0 /\ Alive(parent[1]) THEN "zombie" ELSE "gone"
      BY <3>1
    <3> QED BY <2>2, <3>1, <3>2, Leaves
  <2>4. Spoken' /\ DoneRunning' = DoneRunning
    BY <2>3, SameScreen
  <2>5. Quiet' /\ Listed(Whole1)' = Listed(Whole1)
    BY <1>6, <2>3 DEF Quiet, Listed, Whole1
  <2> QED BY <1>6, <2>3, <2>4, <2>5 DEF ToFileInv
<1> QED BY <1>1, <1>2, <1>3, <1>4, <1>5, <1>6 DEF ToFileInv

LEMMA ToFileChild ==
    ASSUME ParentTypeInv, Spoken, ToFile, ToFileInv, 2 \in Pids, Process(2) \/ Shell(2)
    PROVE  ParentTypeInv' /\ Spoken' /\ start' = start /\ ToFileInv'
<1>1. status[2] = "running" /\ 1 \in Pids
  BY ByCall, KernelAssumption DEF Pids
<1>2. /\ status[1] = "running" /\ Wired(1, Out, Tty) /\ ~DoneRunning /\ Len(screen) = 1
      /\ text[1] = ToFile2 /\ OneChild /\ UsersInv
  BY <1>1 DEF ToFileInv, NoChild, Quiet
<1>3. ASSUME UNCHANGED <<start, argv, screen>>, text'[1] = text[1], fds'[1] = fds[1], status'[1] = status[1],
             \A q \in Pids \ {1, 2} : status'[q] = "free", UsersInv'
      PROVE  Spoken' /\ ToFileInv'
  <2>1. Spoken' /\ ~DoneRunning'
    BY <1>2, <1>3, SameScreen
  <2>2. OneChild'
    BY <1>3 DEF OneChild
  <2> QED BY <1>2, <1>3, <2>1, <2>2 DEF ToFileInv, Wired
<1>4. \A t : Goes(2, t) => /\ UNCHANGED <<start, argv, parent>> /\ text'[1] = text[1] /\ fds'[1] = fds[1] /\ status' = status
                           /\ text'[2] = t /\ \A q \in Pids \ {1, 2} : status'[q] = "free"
  BY <1>1, <1>2 DEF Goes, OneChild
<1>5. CASE text[2] = InFile
  <2>1. Call(2) = Close(Out) /\ Unrolled(Rest(2)) = InFile1
    BY <1>5, ToFileTexts DEF Call, Rest
  <2>2. UNCHANGED <<files, screen>> /\ Goes(2, InFile1) /\ ParentTypeInv'
    BY <2>1, Closes
  <2>3. UsersInv'
    BY <1>1, <1>2, <1>4, <2>2 DEF UsersInv
  <2> QED BY <1>3, <1>4, <2>2, <2>3
<1>6. CASE text[2] = InFile1
  <2>1. Call(2) = Creat(Out, "userlist") /\ Unrolled(Rest(2)) = Doomed
    BY <1>6, ToFileTexts DEF Call, Rest
  <2>2. /\ "userlist" \in DOMAIN files' /\ files'["userlist"] = <<>>
        /\ UNCHANGED screen /\ Out \in DOMAIN fds'[2] /\ fds'[2][Out] = <<"file", "userlist">>
        /\ Goes(2, Doomed) /\ ParentTypeInv'
    BY <2>1, Creates
  <2>4. Listed(0)'
    BY <2>2 DEF Listed
  <2>5. UsersInv'
    BY <1>1, <1>2, <1>4, <2>2, <2>4 DEF UsersInv, Wired
  <2> QED BY <1>3, <1>4, <2>2, <2>5
<1>7. CASE text[2] = Doomed /\ Wired(2, Out, <<"file", "userlist">>) /\ Listed(0)
  <2>1. Call(2) = Exec(1) /\ Unrolled(Rest(2)) = Failed /\ Unrolled(Command("who", 1)) = Two(1)
    BY <1>7, ToFileTexts, FailedTexts DEF Call, Rest
  <2>2. argv[2] = start.argv /\ start.argv \in {<<"who">>, <<"nosuch">>}
    BY <1>1, <1>2 DEF UsersInv, ToFileInv
  <2> DEFINE t == IF start.argv = <<"who">> THEN Two(1) ELSE Failed
  <2>3. t = Unrolled(IF argv[2][1] = "nosuch" THEN Rest(2) ELSE Command(argv[2][1], 1))
    BY <2>1, <2>2
  <2> HIDE DEF t
  <2>4. UNCHANGED <<fds, files, screen>> /\ Goes(2, t) /\ ParentTypeInv'
    BY <2>1, <2>3, Executes
  <2>5. Listed(0)' /\ Wired(2, Out, <<"file", "userlist">>)'
    BY <1>7, <2>4 DEF Listed, Wired
  <2>6. UsersInv'
    BY <1>1, <1>2, <1>4, <2>2, <2>4, <2>5 DEF UsersInv, t
  <2> QED BY <1>3, <1>4, <2>4, <2>6
<1>8. ASSUME NEW n \in Nat, NEW u, NEW t, text[2] = u, Head(u) = Write(Out, << 1 >>), Unrolled(Tail(u)) = t,
             Wired(2, Out, <<"file", "userlist">>), Listed(n)
      PROVE  /\ Listed(n + 1)' /\ UNCHANGED screen /\ Wired(2, Out, <<"file", "userlist">>)' /\ Goes(2, t)
             /\ ParentTypeInv'
  <2>1. Call(2) = Write(Out, <<1>>) /\ Unrolled(Rest(2)) = t
    BY <1>8 DEF Call, Rest
  <2>2. "userlist" \in DOMAIN files /\ <<1>> \in Seq({1})
    BY <1>8 DEF Listed
  <2>3. /\ "userlist" \in DOMAIN files' /\ files'["userlist"] = Append(files["userlist"], [no |-> 0, via |-> <<1>>])
        /\ UNCHANGED <<fds, screen>> /\ Goes(2, t) /\ ParentTypeInv'
    <3>1. /\ "userlist" \in DOMAIN files =>
                /\ "userlist" \in DOMAIN files'
                /\ files'["userlist"] = Append(files["userlist"], [no |-> 0, via |-> <<1>>])
          /\ UNCHANGED <<fds, screen>> /\ Goes(2, Unrolled(Rest(2))) /\ ParentTypeInv'
      <4> DEFINE w == <<1>>
      <4>1. Wired(2, Out, <<"file", "userlist">>) /\ Call(2) = Write(Out, w) /\ w \in Seq({1})
        BY <1>8, <2>1, <2>2
      <4> HIDE DEF w
      <4>2. /\ "userlist" \in DOMAIN files =>
                   /\ "userlist" \in DOMAIN files'
                   /\ files'["userlist"] = Append(files["userlist"], [no |-> 0, via |-> w])
            /\ UNCHANGED <<fds, screen>> /\ Goes(2, Unrolled(Rest(2))) /\ ParentTypeInv'
        BY <4>1, Stores
      <4> QED BY <4>2 DEF w
    <3> QED BY <2>1, <2>2, <3>1
  <2>4. files'["userlist"] = Append(files["userlist"], Said(1))
    BY <2>3 DEF Said
  <2> DEFINE s == files["userlist"]  l == Said(1)
  <2>5. s \in Seq({l}) /\ Len(s) = n
    BY <1>8 DEF Listed
  <2> HIDE DEF s, l
  <2>6. Append(s, l) \in Seq({l}) /\ Len(Append(s, l)) = n + 1
    BY <2>5, AppendProperties
  <2>7. Listed(n + 1)'
    BY <2>3, <2>4, <2>6 DEF Listed, s, l
  <2> QED BY <1>8, <2>3, <2>7 DEF Wired
<1>9. CASE text[2] = Two(1) /\ start.argv = <<"who">> /\ Wired(2, Out, <<"file", "userlist">>) /\ Listed(0)
  <2>1. /\ Listed(0 + 1)' /\ UNCHANGED screen /\ Wired(2, Out, <<"file", "userlist">>)' /\ Goes(2, One(1))
        /\ ParentTypeInv'
    BY <1>8, <1>9, ToFileTexts
  <2>2. UsersInv'
    BY <1>1, <1>2, <1>4, <1>9, <2>1 DEF UsersInv
  <2> QED BY <1>3, <1>4, <2>1, <2>2
<1>10. CASE text[2] = One(1) /\ start.argv = <<"who">> /\ Wired(2, Out, <<"file", "userlist">>) /\ Listed(1)
  <2>1. /\ Listed(1 + 1)' /\ UNCHANGED screen /\ Wired(2, Out, <<"file", "userlist">>)' /\ Goes(2, Leaving)
        /\ ParentTypeInv'
    BY <1>8, <1>10, ToFileTexts
  <2>2. UsersInv'
    BY <1>1, <1>2, <1>4, <1>10, <2>1 DEF UsersInv
  <2> QED BY <1>3, <1>4, <2>1, <2>2
<1>11. CASE text[2] \in {Failed, Leaving} /\ Listed(Whole1)
  <2>1. PICK c : Call(2) = ExitWith(c)
    <3>1. \E c : Call(2) = ExitWith(c)
      BY <1>11, FailedTexts DEF Call
    <3> QED BY <3>1
  <2>2. "zombie" = IF parent[2] # 0 /\ Alive(parent[2]) THEN "zombie" ELSE "gone"
    BY <1>2 DEF UsersInv, Alive
  <2>3. /\ status'[2] = "zombie"
        /\ \A q \in Pids \ {2} : /\ text'[q] = text[q] /\ fds'[q] = fds[q]
                                 /\ parent[q] # 2 \/ status[q] # "zombie" => status'[q] = status[q]
        /\ UNCHANGED <<start, argv, parent, files, screen>> /\ ParentTypeInv'
    BY <2>1, <2>2, Leaves
  <2>4. UsersInv'
    BY <1>2, <1>11, <2>3 DEF UsersInv, Listed, Whole1
  <2>5. status'[1] = status[1] /\ \A q \in Pids \ {1, 2} : status'[q] = "free"
    BY <1>1, <1>2, <2>3 DEF OneChild
  <2> QED BY <1>1, <1>3, <2>3, <2>4, <2>5
<1>12. (start.argv = <<"who">> /\ Listed(2) => Listed(Whole1)) /\ (start.argv = <<"nosuch">> /\ Listed(0) => Listed(Whole1))
  <2>1. <<"who">> # <<"nosuch">>
    OBVIOUS
  <2>2. (start.argv = <<"who">> => Whole1 = 2) /\ (start.argv = <<"nosuch">> => Whole1 = 0)
    BY <2>1 DEF Whole1
  <2> QED BY <2>2
<1>13. \/ text[2] \in {InFile, InFile1}
       \/ /\ Wired(2, Out, <<"file", "userlist">>)
          /\ \/ text[2] = Doomed /\ Listed(0)
             \/ start.argv = <<"nosuch">> /\ text[2] = Failed /\ Listed(0)
             \/ /\ start.argv = <<"who">>
                /\ \/ text[2] = Two(1) /\ Listed(0)
                   \/ text[2] = One(1) /\ Listed(1)
                   \/ text[2] = Leaving /\ Listed(2)
  BY <1>1, <1>2 DEF UsersInv
<1> QED BY <1>5, <1>6, <1>7, <1>9, <1>10, <1>11, <1>12, <1>13

-----------------------------------------------------------------------------
(* The steps of waitdemo2.c                                                 *)

LEMMA TellsStatus ==
    ASSUME ParentTypeInv, Demo, argv[1] = <<>>, Told, 1 \in Pids, Call(1) = Report, Process(1) \/ Shell(1)
    PROVE  /\ UNCHANGED <<start, kid, status, code, fds, screen>> /\ argv'[1] = <<>>
           /\ text'[1] = Unrolled(Rest(1)) /\ ParentTypeInv'
<1>1. ReportStatus(1)
  BY ByCall DEF Report
<1> DEFINE Printed == [argv : {<<>>}, status : {17 * 256}]  e == [argv |-> argv[1], status |-> code[kid[1]]]
<1>2. e \in Printed
  BY DEF Told
<1>3. log \in [taken : {<<>>}, reported : Seq(Printed)]
  BY DEF ParentTypeInv
<1>4. /\ log' = [log EXCEPT !.reported = Append(@, e)] /\ argv' = [argv EXCEPT ![1] = <<>>]
      /\ text' = [text EXCEPT ![1] = Unrolled(Rest(1))]
      /\ UNCHANGED <<start, parent, kid, forks, status, code, fds, line, data>>
  BY <1>1 DEF ReportStatus, GoOn, lives
<1> HIDE DEF Printed, e
<1>5. log' \in [taken : {<<>>}, reported : Seq(Printed)]
  <2>1. log.reported \in Seq(Printed)
    BY <1>3
  <2>2. Append(log.reported, e) \in Seq(Printed)
    BY <1>2, <2>1, AppendProperties
  <2> QED BY <1>3, <1>4, <2>2
<1>6. ParentTypeInv'
  BY <1>4, <1>5 DEF ParentTypeInv, ToFile, Demo, Parallel, Sequential, reported, Printed
<1> QED BY <1>4, <1>6 DEF ParentTypeInv, data

LEMMA DemoParent ==
    ASSUME ParentTypeInv, Spoken, Demo, DemoInv, 1 \in Pids, Process(1) \/ Shell(1)
    PROVE  ParentTypeInv' /\ Spoken' /\ start' = start /\ DemoInv'
<1>1. status[1] = "running" /\ argv[1] = <<>>
  BY ByCall DEF DemoInv
<1> DEFINE Talks == Wired(1, Out, Tty) /\ ~DoneWaiting
<1>2. CASE Talks /\ NoChild /\ text[1] = WaitDemo
  <2>1. Call(1) = Write(Out, <<"before">>) /\ Unrolled(Rest(1)) = Demo1
    BY <1>2, DemoTexts DEF Call, Rest
  <2>2. /\ screen' = Append(screen, Said("before")) /\ UNCHANGED <<fds, files>>
        /\ Goes(1, Demo1) /\ ParentTypeInv'
    BY <1>2, <2>1, Says
  <2>3. Spoken' /\ (DoneWaiting' <=> DoneWaiting \/ "before" = "done waiting")
    <3>1. "before" \in Sentences
      BY DEF Sentences
    <3> QED BY <2>2, <3>1, SayShown
  <2>4. ~DoneWaiting'
    BY <1>2, <2>3
  <2>5. NoChild' /\ Wired(1, Out, Tty)' /\ status'[1] = "running" /\ text'[1] = Demo1
    BY <1>1, <1>2, <2>2 DEF NoChild, Wired, Goes
  <2>6. start' = start /\ argv' = argv
    BY <2>2 DEF Goes
  <2> QED BY <1>1, <2>2, <2>3, <2>4, <2>5, <2>6 DEF DemoInv
<1>3. CASE Talks /\ NoChild /\ text[1] = Demo1
  <2>1. /\ Call(1) = Fork(child_code, Leaving) /\ Unrolled(Rest(1)) = Demo2 /\ Unrolled(child_code) = child_code
        /\ Unrolled(Leaving) = Leaving
    BY <1>3, DemoTexts, FailedTexts DEF Call, Rest
  <2>2. (\A q \in Pids : status[q] = "free" <=> q >= 2) /\ start.forks - forks = 2 - 2
    BY <1>1, <1>3 DEF NoChild, Pids, ParentTypeInv
  <2>3. CASE Goes(1, Leaving) /\ forks = 0 /\ UNCHANGED <<fds, files, screen>> /\ ParentTypeInv'
    <3>1. Spoken' /\ ~DoneWaiting'
      BY <1>3, <2>3, SameScreen
    <3>2. Quiet' /\ status'[1] = "running" /\ text'[1] = Leaving
      BY <1>1, <1>3, <2>3 DEF Quiet, NoChild, Goes
    <3>3. start' = start /\ argv' = argv
      BY <2>3 DEF Goes
    <3> QED BY <1>1, <2>3, <3>1, <3>2, <3>3 DEF DemoInv
  <2>4. CASE /\ 2 \in Pids /\ status'[2] = "running" /\ parent'[2] = 1 /\ kid'[1] = 2
             /\ fds'[2] = fds[1] /\ text'[2] = child_code /\ text'[1] = Demo2
             /\ \A q \in Pids \ {2} : status'[q] = status[q] /\ fds'[q] = fds[q] /\ argv'[q] = argv[q]
             /\ UNCHANGED <<start, files, screen>> /\ ParentTypeInv'
    <3>1. Spoken' /\ ~DoneWaiting'
      BY <1>3, <2>4, SameScreen
    <3>2. TalkInv' /\ OneChild'
      BY <1>3, <2>4 DEF TalkInv, OneChild, NoChild, Wired
    <3>3. status'[1] = "running" /\ argv'[1] = <<>> /\ Wired(1, Out, Tty)'
      BY <1>1, <1>3, <2>4 DEF Wired
    <3> QED BY <2>4, <3>1, <3>2, <3>3 DEF DemoInv
  <2> QED BY <2>1, <2>2, <2>3, <2>4, Divides
<1>4. CASE Talks /\ text[1] = Demo2 /\ OneChild /\ TalkInv
  <2>1. Call(1) = Wait /\ Unrolled(Rest(1)) = Demo3
    BY <1>4, DemoTexts DEF Call, Rest
  <2>2. /\ 2 \in Pids \ {1} /\ parent[2] = 1 /\ status[2] \in {"running", "zombie"}
        /\ \A q \in Pids \ {2} : parent[q] = 1 => status[q] \notin {"running", "zombie"}
    BY <1>1, <1>4 DEF TalkInv, OneChild, ParentTypeInv
  <2>3. /\ status[2] = "zombie" /\ status' = [status EXCEPT ![2] = "gone"]
        /\ UNCHANGED <<start, argv, kid, code, fds, files, screen>> /\ text'[1] = Demo3 /\ ParentTypeInv'
    BY <2>1, <2>2, WaitsFor
  <2>4. Spoken' /\ ~DoneWaiting' /\ ChildDone' = ChildDone
    BY <1>4, <2>3, SameScreen
  <2>5. Quiet' /\ status'[1] = "running"
    BY <1>1, <1>4, <2>3 DEF Quiet, OneChild, ParentTypeInv
  <2>6. Told'
    BY <1>4, <2>3, <2>4 DEF TalkInv, Told
  <2> QED BY <1>1, <1>4, <2>3, <2>4, <2>5, <2>6 DEF DemoInv, Wired
<1>5. CASE Talks /\ text[1] = Demo3 /\ Quiet /\ Told
  <2>1. Call(1) = Write(Out, <<"done waiting">>) /\ Unrolled(Rest(1)) = Demo4
    BY <1>5, DemoTexts DEF Call, Rest
  <2>2. /\ screen' = Append(screen, Said("done waiting")) /\ UNCHANGED <<fds, files>>
        /\ Goes(1, Demo4) /\ ParentTypeInv'
    BY <1>5, <2>1, Says
  <2>3. Spoken' /\ (ChildDone' <=> ChildDone \/ "done waiting" = "child done")
    <3>1. "done waiting" \in Sentences
      BY DEF Sentences
    <3> QED BY <2>2, <3>1, SayShown
  <2>4. ChildDone'
    BY <1>5, <2>3 DEF Told
  <2>5. Quiet' /\ Told' /\ status'[1] = "running" /\ text'[1] = Demo4
    BY <1>1, <1>5, <2>2, <2>4 DEF Quiet, Told, Goes
  <2>6. start' = start /\ argv' = argv
    BY <2>2 DEF Goes
  <2> QED BY <1>1, <2>2, <2>3, <2>5, <2>6 DEF DemoInv
<1>6. CASE text[1] = Demo4 /\ Quiet /\ Told
  <2>1. Call(1) = Report /\ Unrolled(Rest(1)) = Leaving
    BY <1>6, DemoTexts DEF Call, Rest
  <2>2. /\ UNCHANGED <<start, kid, status, code, fds, screen>> /\ argv'[1] = <<>>
        /\ text'[1] = Leaving /\ ParentTypeInv'
    BY <1>1, <1>6, <2>1, TellsStatus
  <2>3. Spoken' /\ ChildDone' = ChildDone
    BY <2>2, SameScreen
  <2>4. Quiet' /\ ChildDone' /\ status'[1] = "running"
    BY <1>1, <1>6, <2>2, <2>3 DEF Quiet, Told
  <2> QED BY <2>2, <2>3, <2>4 DEF DemoInv
<1>7. CASE text[1] = Leaving /\ Quiet /\ (DoneWaiting => ChildDone)
  <2>1. Call(1) = ExitWith(0)
    BY <1>7, FailedTexts DEF Call
  <2>2. /\ status'[1] = "gone" /\ \A q \in Pids \ {1} : status'[q] \in {status[q], "gone"}
        /\ UNCHANGED <<start, argv, files, screen>> /\ ParentTypeInv'
    <3>1. parent[1] = 0 /\ 1 \in Pids \cap {1, 2, 3}
      BY DEF ParentTypeInv
    <3>2. "gone" = IF parent[1] # 0 /\ Alive(parent[1]) THEN "zombie" ELSE "gone"
      BY <3>1
    <3> QED BY <2>1, <3>1, <3>2, Leaves
  <2>3. Spoken' /\ DoneWaiting' = DoneWaiting /\ ChildDone' = ChildDone
    BY <2>2, SameScreen
  <2>4. Quiet'
    BY <1>7, <2>2 DEF Quiet
  <2> QED BY <1>1, <1>7, <2>2, <2>3, <2>4 DEF DemoInv
<1> QED BY <1>1, <1>2, <1>3, <1>4, <1>5, <1>6, <1>7 DEF DemoInv

LEMMA DemoChild ==
    ASSUME ParentTypeInv, Spoken, Demo, DemoInv, 2 \in Pids, Process(2) \/ Shell(2)
    PROVE  ParentTypeInv' /\ Spoken' /\ start' = start /\ DemoInv'
<1>1. status[2] = "running" /\ 1 \in Pids
  BY ByCall, KernelAssumption DEF Pids
<1>2. /\ status[1] = "running" /\ Wired(1, Out, Tty) /\ ~DoneWaiting
      /\ text[1] = Demo2 /\ OneChild /\ TalkInv /\ argv[1] = <<>>
  BY <1>1 DEF DemoInv, NoChild, Quiet
<1>3. parent[2] = 1 /\ kid[1] = 2 /\ Wired(2, Out, Tty)
  BY <1>1, <1>2 DEF TalkInv
<1>4. ASSUME UNCHANGED <<start, argv>>, ~DoneWaiting', text'[1] = text[1], fds'[1] = fds[1], status'[1] = status[1],
             \A q \in Pids \ {1, 2} : status'[q] = "free", TalkInv'
      PROVE  DemoInv'
  <2>1. OneChild'
    BY <1>4 DEF OneChild
  <2> QED BY <1>2, <1>4, <2>1 DEF DemoInv, Wired
<1>5. ASSUME NEW u, NEW t, NEW w \in Sentences, text[2] = u, Head(u) = Write(Out, <<w>>), Unrolled(Tail(u)) = t,
             w # "done waiting", t \in {child_code1, child_code2}, t = child_code2 => w = "child done"
      PROVE  ParentTypeInv' /\ Spoken' /\ start' = start /\ DemoInv'
  <2>1. Call(2) = Write(Out, <<w>>) /\ Unrolled(Rest(2)) = t
    BY <1>5 DEF Call, Rest
  <2>2. screen' = Append(screen, Said(w)) /\ UNCHANGED fds /\ Goes(2, t) /\ ParentTypeInv'
    BY <1>3, <2>1, Says
  <2>3. Spoken' /\ (DoneWaiting' <=> DoneWaiting \/ w = "done waiting") /\ (ChildDone' <=> ChildDone \/ w = "child done")
    BY <2>2, SayShown
  <2>4. ~DoneWaiting' /\ (w = "child done" => ChildDone')
    BY <1>2, <1>5, <2>3
  <2>5. /\ UNCHANGED <<start, argv, parent, kid>> /\ text'[1] = text[1] /\ fds'[1] = fds[1] /\ status' = status
        /\ text'[2] = t /\ \A q \in Pids \ {1, 2} : status'[q] = "free"
    BY <1>1, <1>2, <2>2 DEF Goes, OneChild
  <2>6. TalkInv'
    BY <1>1, <1>3, <1>5, <2>2, <2>4, <2>5 DEF TalkInv, Wired
  <2> QED BY <1>4, <2>2, <2>3, <2>4, <2>5, <2>6
<1>6. CASE text[2] = child_code
  <2>1. "child here" \in Sentences /\ "child here" # "done waiting"
    BY DEF Sentences
  <2>2. child_code1 # child_code2
    <3>1. Len(child_code1) = 2 /\ Len(child_code2) = 1
      BY DEF child_code1, child_code2
    <3> QED BY <3>1
  <2> QED BY <1>5, <1>6, <2>1, <2>2, DemoTexts
<1>7. CASE text[2] = child_code1
  <2>1. "child done" \in Sentences /\ "child done" # "done waiting"
    BY DEF Sentences
  <2> QED BY <1>5, <1>7, <2>1, DemoTexts
<1>8. CASE text[2] = child_code2 /\ ChildDone
  <2>1. Call(2) = ExitWith(17)
    BY <1>8, DemoTexts DEF Call
  <2>2. "zombie" = IF parent[2] # 0 /\ Alive(parent[2]) THEN "zombie" ELSE "gone"
    BY <1>2, <1>3 DEF Alive
  <2>3. /\ status'[2] = "zombie" /\ code'[2] = 256 * 17
        /\ \A q \in Pids \ {2} : /\ text'[q] = text[q] /\ fds'[q] = fds[q]
                                 /\ parent[q] # 2 \/ status[q] # "zombie" => status'[q] = status[q]
        /\ UNCHANGED <<start, argv, parent, kid, screen>> /\ ParentTypeInv'
    BY <2>1, <2>2, Leaves
  <2>4. Spoken' /\ ~DoneWaiting' /\ ChildDone'
    BY <1>2, <1>8, <2>3, SameScreen
  <2>5. TalkInv'
    BY <1>3, <2>3, <2>4 DEF TalkInv
  <2>6. status'[1] = status[1] /\ \A q \in Pids \ {1, 2} : status'[q] = "free"
    BY <1>1, <1>2, <2>3 DEF OneChild
  <2> QED BY <1>1, <1>4, <2>3, <2>4, <2>5, <2>6
<1> QED BY <1>1, <1>2, <1>6, <1>7, <1>8 DEF TalkInv

-----------------------------------------------------------------------------
(* The texts of hw6, from one call to the next                              *)

LEMMA SortTexts ==
    ASSUME NEW a
    PROVE
    /\ Head(Ascend0(a)) = Creat(fp, "file2")                 /\ Unrolled(Tail(Ascend0(a))) = Ascend1(a)
    /\ Head(Ascend1(a)) = Write(fp, ascending_sort(a))       /\ Unrolled(Tail(Ascend1(a))) = Ascend2
    /\ Head(Ascend2) = Close(fp)                             /\ Unrolled(Tail(Ascend2)) = Failed
    /\ Head(Descend0(a)) = Fork(Ascend0(a), Elapsed)         /\ Unrolled(Tail(Descend0(a))) = Descend1(a)
    /\ Head(Descend1(a)) = Creat(fp, "file3")                /\ Unrolled(Tail(Descend1(a))) = Descend2(a)
    /\ Head(Descend2(a)) = Write(fp, descending_sort(a))     /\ Unrolled(Tail(Descend2(a))) = Descend3
    /\ Head(Descend3) = Close(fp)                            /\ Unrolled(Tail(Descend3)) = Descend4
    /\ Head(Descend4) = Wait                                 /\ Unrolled(Tail(Descend4)) = Failed
    /\ Head(Parallel0(a)) = Creat(fp, "file1")               /\ Unrolled(Tail(Parallel0(a))) = Parallel1(a)
    /\ Head(Parallel1(a)) = Write(fp, a)                     /\ Unrolled(Tail(Parallel1(a))) = Parallel2(a)
    /\ Head(Parallel2(a)) = Close(fp)                        /\ Unrolled(Tail(Parallel2(a))) = Parallel3(a)
    /\ Head(Parallel3(a)) = Fork(Descend0(a), Elapsed)       /\ Unrolled(Tail(Parallel3(a))) = Parallel4
    /\ Head(Parallel4) = Wait                                /\ Unrolled(Tail(Parallel4)) = Finish
    /\ Head(Finish) = Write(Out, <<"finished">>)             /\ Unrolled(Tail(Finish)) = Elapsed
    /\ Head(Elapsed) = Write(Out, <<"Elapsed">>)             /\ Unrolled(Tail(Elapsed)) = Leaving
    /\ Head(Sequential0(a)) = Creat(fp, "file1")             /\ Unrolled(Tail(Sequential0(a))) = Sequential1(a)
    /\ Head(Sequential1(a)) = Write(fp, a)                   /\ Unrolled(Tail(Sequential1(a))) = Sequential2(a)
    /\ Head(Sequential2(a)) = Close(fp)                      /\ Unrolled(Tail(Sequential2(a))) = Sequential3(a)
    /\ Head(Sequential3(a)) = Creat(fp, "file2")             /\ Unrolled(Tail(Sequential3(a))) = Sequential4(a)
    /\ Head(Sequential4(a)) = Write(fp, ascending_sort(a))   /\ Unrolled(Tail(Sequential4(a))) = Sequential5(a)
    /\ Head(Sequential5(a)) = Close(fp)                      /\ Unrolled(Tail(Sequential5(a))) = Sequential6(a)
    /\ Head(Sequential6(a)) = Creat(fp, "file3")             /\ Unrolled(Tail(Sequential6(a))) = Sequential7(a)
    /\ Head(Sequential7(a)) = Write(fp, turned(a))           /\ Unrolled(Tail(Sequential7(a))) = Sequential8
    /\ Head(Sequential8) = Close(fp)                         /\ Unrolled(Tail(Sequential8)) = Elapsed
    /\ Unrolled(Ascend0(a)) = Ascend0(a) /\ Unrolled(Descend0(a)) = Descend0(a) /\ Unrolled(Elapsed) = Elapsed
<1> DEFINE make1 == Creat(fp, "file1")  make2 == Creat(fp, "file2")  make3 == Creat(fp, "file3")
           all == Write(fp, a)  up == Write(fp, ascending_sort(a))
           down == Write(fp, descending_sort(a))  turn == Write(fp, turned(a))
           shut == Close(fp)  child == Fork(Ascend0(a), Elapsed)  fork == Fork(Descend0(a), Elapsed)
           end == Write(Out, <<"finished">>)  time == Write(Out, <<"Elapsed">>)
<1>1. Failed = <<ExitWith(1)>> /\ Leaving = <<Exit>>
  BY DEF Failed, Leaving
<1>2. /\ Ascend0(a) = <<make2, up, shut, ExitWith(1)>>
      /\ Ascend1(a) = <<up, shut, ExitWith(1)>>
      /\ Ascend2 = <<shut, ExitWith(1)>>
  BY DEF Ascend0, Ascend1, Ascend2
<1>3. /\ Descend0(a) = <<child, make3, down, shut, Wait, ExitWith(1)>>
      /\ Descend1(a) = <<make3, down, shut, Wait, ExitWith(1)>>
      /\ Descend2(a) = <<down, shut, Wait, ExitWith(1)>>
      /\ Descend3 = <<shut, Wait, ExitWith(1)>>
      /\ Descend4 = <<Wait, ExitWith(1)>>
  BY DEF Descend0, Descend1, Descend2, Descend3, Descend4
<1>4. /\ Parallel0(a) = <<make1, all, shut, fork, Wait, end, time, Exit>>
      /\ Parallel1(a) = <<all, shut, fork, Wait, end, time, Exit>>
      /\ Parallel2(a) = <<shut, fork, Wait, end, time, Exit>>
      /\ Parallel3(a) = <<fork, Wait, end, time, Exit>>
      /\ Parallel4 = <<Wait, end, time, Exit>>
      /\ Finish = <<end, time, Exit>>
      /\ Elapsed = <<time, Exit>>
  BY DEF Parallel0, Parallel1, Parallel2, Parallel3, Parallel4, Finish, Elapsed
<1>5. /\ Sequential0(a) = <<make1, all, shut, make2, up, shut, make3, turn, shut, time, Exit>>
      /\ Sequential1(a) = <<all, shut, make2, up, shut, make3, turn, shut, time, Exit>>
      /\ Sequential2(a) = <<shut, make2, up, shut, make3, turn, shut, time, Exit>>
      /\ Sequential3(a) = <<make2, up, shut, make3, turn, shut, time, Exit>>
      /\ Sequential4(a) = <<up, shut, make3, turn, shut, time, Exit>>
      /\ Sequential5(a) = <<shut, make3, turn, shut, time, Exit>>
      /\ Sequential6(a) = <<make3, turn, shut, time, Exit>>
      /\ Sequential7(a) = <<turn, shut, time, Exit>>
      /\ Sequential8 = <<shut, time, Exit>>
  BY DEF Sequential0, Sequential1, Sequential2, Sequential3, Sequential4, Sequential5, Sequential6, Sequential7, Sequential8
<1>6. /\ \A d, w : Write(d, w).op # "loop" /\ Creat(d, w).op # "loop" /\ Fork(d, w).op # "loop"
      /\ \A d : Close(d).op # "loop"
      /\ Wait.op # "loop"
  BY DEF Write, Creat, Fork, Close, Wait
<1>7. /\ make1.op # "loop" /\ make2.op # "loop" /\ make3.op # "loop" /\ all.op # "loop" /\ up.op # "loop"
      /\ down.op # "loop" /\ turn.op # "loop" /\ shut.op # "loop" /\ child.op # "loop" /\ fork.op # "loop"
      /\ end.op # "loop" /\ time.op # "loop" /\ Wait.op # "loop"
  BY <1>6
<1> HIDE DEF make1, make2, make3, all, up, down, turn, shut, child, fork, end, time
<1>8. /\ Head(Ascend0(a)) = make2        /\ Tail(Ascend0(a)) = Ascend1(a)
      /\ Head(Ascend1(a)) = up           /\ Tail(Ascend1(a)) = Ascend2
      /\ Head(Ascend2) = shut            /\ Tail(Ascend2) = Failed
  BY <1>1, <1>2
<1>9. /\ Head(Descend0(a)) = child       /\ Tail(Descend0(a)) = Descend1(a)
      /\ Head(Descend1(a)) = make3       /\ Tail(Descend1(a)) = Descend2(a)
      /\ Head(Descend2(a)) = down        /\ Tail(Descend2(a)) = Descend3
      /\ Head(Descend3) = shut           /\ Tail(Descend3) = Descend4
      /\ Head(Descend4) = Wait           /\ Tail(Descend4) = Failed
  BY <1>1, <1>3
<1>10. /\ Head(Parallel0(a)) = make1      /\ Tail(Parallel0(a)) = Parallel1(a)
      /\ Head(Parallel1(a)) = all        /\ Tail(Parallel1(a)) = Parallel2(a)
      /\ Head(Parallel2(a)) = shut       /\ Tail(Parallel2(a)) = Parallel3(a)
      /\ Head(Parallel3(a)) = fork       /\ Tail(Parallel3(a)) = Parallel4
      /\ Head(Parallel4) = Wait          /\ Tail(Parallel4) = Finish
  BY <1>1, <1>4
<1>11. /\ Head(Finish) = end              /\ Tail(Finish) = Elapsed
      /\ Head(Elapsed) = time            /\ Tail(Elapsed) = Leaving
  BY <1>1, <1>4
<1>12. /\ Head(Sequential0(a)) = make1    /\ Tail(Sequential0(a)) = Sequential1(a)
      /\ Head(Sequential1(a)) = all      /\ Tail(Sequential1(a)) = Sequential2(a)
      /\ Head(Sequential2(a)) = shut     /\ Tail(Sequential2(a)) = Sequential3(a)
      /\ Head(Sequential3(a)) = make2    /\ Tail(Sequential3(a)) = Sequential4(a)
      /\ Head(Sequential4(a)) = up       /\ Tail(Sequential4(a)) = Sequential5(a)
  BY <1>1, <1>5, <1>4
<1>13. /\ Head(Sequential5(a)) = shut     /\ Tail(Sequential5(a)) = Sequential6(a)
      /\ Head(Sequential6(a)) = make3    /\ Tail(Sequential6(a)) = Sequential7(a)
      /\ Head(Sequential7(a)) = turn     /\ Tail(Sequential7(a)) = Sequential8
      /\ Head(Sequential8) = shut        /\ Tail(Sequential8) = Elapsed
  BY <1>1, <1>5, <1>4
<1>14. /\ Unrolled(Ascend0(a)) = Ascend0(a)
      /\ Unrolled(Ascend1(a)) = Ascend1(a)
      /\ Unrolled(Ascend2) = Ascend2
      /\ Unrolled(Descend0(a)) = Descend0(a)
      /\ Unrolled(Descend1(a)) = Descend1(a)
      /\ Unrolled(Descend2(a)) = Descend2(a)
      /\ Unrolled(Descend3) = Descend3
      /\ Unrolled(Descend4) = Descend4
  BY <1>8, <1>9, <1>7, NoLoop
<1>15. /\ Unrolled(Parallel0(a)) = Parallel0(a)
      /\ Unrolled(Parallel1(a)) = Parallel1(a)
      /\ Unrolled(Parallel2(a)) = Parallel2(a)
      /\ Unrolled(Parallel3(a)) = Parallel3(a)
      /\ Unrolled(Parallel4) = Parallel4
      /\ Unrolled(Finish) = Finish
      /\ Unrolled(Elapsed) = Elapsed
  BY <1>10, <1>11, <1>7, NoLoop
<1>16. /\ Unrolled(Sequential0(a)) = Sequential0(a)
      /\ Unrolled(Sequential1(a)) = Sequential1(a)
      /\ Unrolled(Sequential2(a)) = Sequential2(a)
      /\ Unrolled(Sequential3(a)) = Sequential3(a)
      /\ Unrolled(Sequential4(a)) = Sequential4(a)
      /\ Unrolled(Sequential5(a)) = Sequential5(a)
      /\ Unrolled(Sequential6(a)) = Sequential6(a)
      /\ Unrolled(Sequential7(a)) = Sequential7(a)
      /\ Unrolled(Sequential8) = Sequential8
  BY <1>12, <1>13, <1>7, NoLoop
<1> QED BY <1>8, <1>9, <1>10, <1>11, <1>12, <1>13, <1>14, <1>15, <1>16, FailedTexts DEF make1, make2, make3, all, up, down, turn, shut, child, fork, end, time

-----------------------------------------------------------------------------
(* The steps of hw6                                                         *)

\* The files other than f are as they were.
Keeps(f) ==
    /\ f # "file2" => (Emptied2 => Emptied2') /\ (Sorted2 => Sorted2')
    /\ f # "file3" => (Emptied3 => Emptied3') /\ (Sorted3 => Sorted3') /\ (Turned3 => Turned3')

LEMMA KeepsThem ==
    ASSUME NEW f, start' = start, \A x \in DOMAIN files : x # f => x \in DOMAIN files' /\ files'[x] = files[x]
    PROVE  Keeps(f)
<1>1. ASSUME f # "file2" PROVE (Emptied2 => Emptied2') /\ (Sorted2 => Sorted2')
  BY <1>1 DEF Emptied2, Sorted2, Holding, File
<1>2. ASSUME f # "file3" PROVE (Emptied3 => Emptied3') /\ (Sorted3 => Sorted3') /\ (Turned3 => Turned3')
  BY <1>2 DEF Emptied3, Sorted3, Turned3, Holding, File
<1> QED BY <1>1, <1>2 DEF Keeps

LEMMA TwoNames == fp # Out
BY DEF fp, R, Out

LEMMA MakesFile ==
    ASSUME ParentTypeInv, Spoken, NEW p \in Pids, NEW t, NEW f, Call(p) = Creat(fp, f), Unrolled(Rest(p)) = t,
           Process(p) \/ Shell(p)
    PROVE  /\ Goes(p, t) /\ ParentTypeInv' /\ Spoken' /\ Finished' = Finished /\ Measured' = Measured
           /\ fp \in DOMAIN fds'[p] /\ fds'[p][fp] = <<"file", f>>
           /\ Out \in DOMAIN fds[p] => Out \in DOMAIN fds'[p] /\ fds'[p][Out] = fds[p][Out]
           /\ f \in DOMAIN files' /\ files'[f] = <<>> /\ Keeps(f)
<1>1. /\ f \in DOMAIN files' /\ files'[f] = <<>>
      /\ \A x \in DOMAIN files : x # f => x \in DOMAIN files' /\ files'[x] = files[x]
      /\ UNCHANGED screen /\ fp \in DOMAIN fds'[p] /\ fds'[p][fp] = <<"file", f>>
      /\ \A e \in DOMAIN fds[p] : e # fp => e \in DOMAIN fds'[p] /\ fds'[p][e] = fds[p][e]
      /\ Goes(p, t) /\ ParentTypeInv'
  BY Creates
<1>2. Spoken' /\ Finished' = Finished /\ Measured' = Measured
  BY <1>1, SameScreen
<1>3. start' = start
  BY <1>1 DEF Goes
<1>4. Keeps(f)
  BY <1>1, <1>3, KeepsThem
<1>5. Out \in DOMAIN fds[p] => Out \in DOMAIN fds'[p] /\ fds'[p][Out] = fds[p][Out]
  BY <1>1, TwoNames
<1> QED BY <1>1, <1>2, <1>4, <1>5

LEMMA FillsFile ==
    ASSUME ParentTypeInv, Spoken, NEW p \in Pids, NEW t, NEW f, NEW S, NEW w \in Seq(S), Call(p) = Write(fp, w),
           Unrolled(Rest(p)) = t, Wired(p, fp, <<"file", f>>), Process(p) \/ Shell(p)
    PROVE  /\ Goes(p, t) /\ ParentTypeInv' /\ Spoken' /\ Finished' = Finished /\ Measured' = Measured
           /\ fds' = fds /\ Keeps(f)
           /\ f = "file2" /\ Emptied2 /\ w = ascending_sort(start.argv) => Sorted2'
           /\ f = "file3" /\ Emptied3 /\ w = descending_sort(start.argv) => Sorted3'
           /\ f = "file3" /\ Emptied3 /\ w = turned(start.argv) => Turned3'
<1>1. /\ f \in DOMAIN files => f \in DOMAIN files' /\ files'[f] = Append(files[f], [no |-> 0, via |-> w])
      /\ \A x \in DOMAIN files : x # f => x \in DOMAIN files' /\ files'[x] = files[x]
      /\ UNCHANGED <<fds, screen>> /\ Goes(p, t) /\ ParentTypeInv'
  BY Stores
<1>2. Spoken' /\ Finished' = Finished /\ Measured' = Measured
  BY <1>1, SameScreen
<1>3. start' = start
  BY <1>1 DEF Goes
<1>4. Keeps(f)
  BY <1>1, <1>3, KeepsThem
<1> DEFINE l == [no |-> 0, via |-> w]
<1> HIDE DEF l
<1>5. Append(<<>>, l) = <<l>>
  OBVIOUS
<1>6. f \in DOMAIN files /\ files[f] = <<>> => f \in DOMAIN files' /\ files'[f] = <<l>>
  BY <1>1, <1>5 DEF l
<1>7. f = "file2" /\ Emptied2 /\ w = ascending_sort(start.argv) => Sorted2'
  BY <1>3, <1>6 DEF Emptied2, Sorted2, Holding, File, l
<1>8. f = "file3" /\ Emptied3 /\ w = descending_sort(start.argv) => Sorted3'
  BY <1>3, <1>6 DEF Emptied3, Sorted3, Holding, File, l
<1>9. f = "file3" /\ Emptied3 /\ w = turned(start.argv) => Turned3'
  BY <1>3, <1>6 DEF Emptied3, Turned3, Holding, File, l
<1> QED BY <1>1, <1>2, <1>4, <1>7, <1>8, <1>9

LEMMA ShutsFile ==
    ASSUME ParentTypeInv, Spoken, NEW p \in Pids, NEW t, Call(p) = Close(fp), Unrolled(Rest(p)) = t,
           Process(p) \/ Shell(p)
    PROVE  /\ Goes(p, t) /\ ParentTypeInv' /\ Spoken' /\ Finished' = Finished /\ Measured' = Measured
           /\ Out \in DOMAIN fds[p] => Out \in DOMAIN fds'[p] /\ fds'[p][Out] = fds[p][Out]
           /\ files' = files
<1>1. /\ UNCHANGED <<files, screen>> /\ Goes(p, t) /\ ParentTypeInv'
      /\ \A e \in DOMAIN fds[p] : e # fp => e \in DOMAIN fds'[p] /\ fds'[p][e] = fds[p][e]
  BY Closes
<1>2. Spoken' /\ Finished' = Finished /\ Measured' = Measured
  BY <1>1, SameScreen
<1> QED BY <1>1, <1>2, TwoNames

LEMMA SequentialStep ==
    ASSUME ParentTypeInv, Spoken, Sequential, SequentialInv, NEW p \in Pids, Process(p) \/ Shell(p)
    PROVE  ParentTypeInv' /\ Spoken' /\ start' = start /\ SequentialInv'
<1>1. status[p] = "running" /\ p = 1 /\ 1 \in Pids
  BY ByCall DEF SequentialInv, NoChild
<1> DEFINE a == start.argv
           Talks == Wired(1, Out, Tty) /\ ~Measured
<1>2. NoChild /\ Sorts(a) /\ (Process(1) \/ Shell(1))
  BY <1>1 DEF SequentialInv
<1>3. \A t : Goes(1, t) => start' = start /\ status'[1] = "running" /\ text'[1] = t /\ NoChild'
  BY <1>1, <1>2 DEF Goes, NoChild
<1>4. a \in Seq(Int) /\ ascending_sort(a) \in Seq(Int) /\ turned(a) \in Seq(Int)
  BY <1>2 DEF Sorts, turned
<1>5. ASSUME NEW t, Goes(1, t), ParentTypeInv', Spoken', Talks, Measured' = Measured,
             Out \in DOMAIN fds'[1] /\ fds'[1][Out] = fds[1][Out],
             \/ t \in {Sequential2(a), Sequential3(a)}
             \/ t = Sequential1(a) /\ fp \in DOMAIN fds'[1] /\ fds'[1][fp] = <<"file", "file1">>
             \/ t = Sequential4(a) /\ fp \in DOMAIN fds'[1] /\ fds'[1][fp] = <<"file", "file2">> /\ Emptied2'
             \/ t \in {Sequential5(a), Sequential6(a)} /\ Sorted2'
             \/ /\ t = Sequential7(a) /\ fp \in DOMAIN fds'[1] /\ fds'[1][fp] = <<"file", "file3">>
                /\ Sorted2' /\ Emptied3'
             \/ t \in {Sequential8, Elapsed} /\ Sorted2' /\ Turned3'
      PROVE  ParentTypeInv' /\ Spoken' /\ start' = start /\ SequentialInv'
  <2>1. start' = start /\ status'[1] = "running" /\ text'[1] = t /\ NoChild'
    BY <1>3, <1>5
  <2>2. Wired(1, Out, Tty)' /\ ~Measured'
    BY <1>5 DEF Wired
  <2> QED BY <1>2, <1>5, <2>1, <2>2 DEF SequentialInv, Wired
<1>6. CASE Talks /\ text[1] = Sequential0(a)
  <2>1. Call(1) = Creat(fp, "file1") /\ Unrolled(Rest(1)) = Sequential1(a)
    BY <1>6, SortTexts DEF Call, Rest
  <2>2. /\ Goes(1, Sequential1(a)) /\ ParentTypeInv' /\ Spoken' /\ Measured' = Measured
        /\ fp \in DOMAIN fds'[1] /\ fds'[1][fp] = <<"file", "file1">>
        /\ Out \in DOMAIN fds[1] => Out \in DOMAIN fds'[1] /\ fds'[1][Out] = fds[1][Out]
    BY <1>1, <1>2, <2>1, MakesFile
  <2> QED BY <1>5, <1>6, <2>2 DEF Wired
<1>7. CASE Talks /\ text[1] = Sequential1(a) /\ Wired(1, fp, <<"file", "file1">>)
  <2>1. Call(1) = Write(fp, a) /\ Unrolled(Rest(1)) = Sequential2(a)
    BY <1>7, SortTexts DEF Call, Rest
  <2>2. /\ Goes(1, Sequential2(a)) /\ ParentTypeInv' /\ Spoken' /\ Measured' = Measured /\ fds' = fds
    BY <1>1, <1>2, <1>4, <1>7, <2>1, FillsFile
  <2> QED BY <1>5, <1>7, <2>2 DEF Wired
<1>8. CASE Talks /\ text[1] = Sequential2(a)
  <2>1. Call(1) = Close(fp) /\ Unrolled(Rest(1)) = Sequential3(a)
    BY <1>8, SortTexts DEF Call, Rest
  <2>2. /\ Goes(1, Sequential3(a)) /\ ParentTypeInv' /\ Spoken' /\ Measured' = Measured
        /\ Out \in DOMAIN fds[1] => Out \in DOMAIN fds'[1] /\ fds'[1][Out] = fds[1][Out]
    BY <1>1, <1>2, <2>1, ShutsFile
  <2> QED BY <1>5, <1>8, <2>2 DEF Wired
<1>9. CASE Talks /\ text[1] = Sequential3(a)
  <2>1. Call(1) = Creat(fp, "file2") /\ Unrolled(Rest(1)) = Sequential4(a)
    BY <1>9, SortTexts DEF Call, Rest
  <2>2. /\ Goes(1, Sequential4(a)) /\ ParentTypeInv' /\ Spoken' /\ Measured' = Measured
        /\ fp \in DOMAIN fds'[1] /\ fds'[1][fp] = <<"file", "file2">>
        /\ Out \in DOMAIN fds[1] => Out \in DOMAIN fds'[1] /\ fds'[1][Out] = fds[1][Out]
        /\ "file2" \in DOMAIN files' /\ files'["file2"] = <<>>
    BY <1>1, <1>2, <2>1, MakesFile
  <2>3. Emptied2'
    BY <2>2 DEF Emptied2, File
  <2> QED BY <1>5, <1>9, <2>2, <2>3 DEF Wired
<1>10. CASE Talks /\ text[1] = Sequential4(a) /\ Wired(1, fp, <<"file", "file2">>) /\ Emptied2
  <2>1. Call(1) = Write(fp, ascending_sort(a)) /\ Unrolled(Rest(1)) = Sequential5(a)
    BY <1>10, SortTexts DEF Call, Rest
  <2> DEFINE w == ascending_sort(a)
  <2>2. w \in Seq(Int) /\ Call(1) = Write(fp, w)
    BY <1>4, <2>1
  <2>3. w = ascending_sort(start.argv)
    OBVIOUS
  <2> HIDE DEF w
  <2>4. /\ Goes(1, Sequential5(a)) /\ ParentTypeInv' /\ Spoken' /\ Measured' = Measured /\ fds' = fds
        /\ "file2" = "file2" /\ Emptied2 /\ w = ascending_sort(start.argv) => Sorted2'
    BY <1>1, <1>2, <1>10, <2>1, <2>2, FillsFile
  <2>5. Sorted2'
    BY <1>10, <2>3, <2>4
  <2> QED BY <1>5, <1>10, <2>4, <2>5 DEF Wired
<1>11. CASE Talks /\ text[1] = Sequential5(a) /\ Sorted2
  <2>1. Call(1) = Close(fp) /\ Unrolled(Rest(1)) = Sequential6(a)
    BY <1>11, SortTexts DEF Call, Rest
  <2>2. /\ Goes(1, Sequential6(a)) /\ ParentTypeInv' /\ Spoken' /\ Measured' = Measured
        /\ Out \in DOMAIN fds[1] => Out \in DOMAIN fds'[1] /\ fds'[1][Out] = fds[1][Out]
        /\ files' = files
    BY <1>1, <1>2, <2>1, ShutsFile
  <2>3. Sorted2'
    BY <1>3, <1>11, <2>2, SameFiles
  <2> QED BY <1>5, <1>11, <2>2, <2>3 DEF Wired
<1>12. CASE Talks /\ text[1] = Sequential6(a) /\ Sorted2
  <2>1. Call(1) = Creat(fp, "file3") /\ Unrolled(Rest(1)) = Sequential7(a)
    BY <1>12, SortTexts DEF Call, Rest
  <2>2. /\ Goes(1, Sequential7(a)) /\ ParentTypeInv' /\ Spoken' /\ Measured' = Measured
        /\ fp \in DOMAIN fds'[1] /\ fds'[1][fp] = <<"file", "file3">>
        /\ Out \in DOMAIN fds[1] => Out \in DOMAIN fds'[1] /\ fds'[1][Out] = fds[1][Out]
        /\ "file3" \in DOMAIN files' /\ files'["file3"] = <<>> /\ Keeps("file3")
    BY <1>1, <1>2, <2>1, MakesFile
  <2>3. Emptied3' /\ Sorted2'
    BY <1>12, <2>2 DEF Emptied3, File, Keeps
  <2> QED BY <1>5, <1>12, <2>2, <2>3 DEF Wired
<1>13. CASE Talks /\ text[1] = Sequential7(a) /\ Wired(1, fp, <<"file", "file3">>) /\ Sorted2 /\ Emptied3
  <2>1. Call(1) = Write(fp, turned(a)) /\ Unrolled(Rest(1)) = Sequential8
    BY <1>13, SortTexts DEF Call, Rest
  <2> DEFINE w == turned(a)
  <2>2. w \in Seq(Int) /\ Call(1) = Write(fp, w)
    BY <1>4, <2>1
  <2>3. w = turned(start.argv)
    OBVIOUS
  <2> HIDE DEF w
  <2>4. /\ Goes(1, Sequential8) /\ ParentTypeInv' /\ Spoken' /\ Measured' = Measured /\ fds' = fds
        /\ "file3" = "file3" /\ Emptied3 /\ w = turned(start.argv) => Turned3'
        /\ Keeps("file3")
    BY <1>1, <1>2, <1>13, <2>1, <2>2, FillsFile
  <2>5. Turned3' /\ Sorted2'
    BY <1>13, <2>3, <2>4 DEF Keeps
  <2> QED BY <1>5, <1>13, <2>4, <2>5 DEF Wired
<1>14. CASE Talks /\ text[1] = Sequential8 /\ Sorted2 /\ Turned3
  <2>1. Call(1) = Close(fp) /\ Unrolled(Rest(1)) = Elapsed
    BY <1>14, SortTexts DEF Call, Rest
  <2>2. /\ Goes(1, Elapsed) /\ ParentTypeInv' /\ Spoken' /\ Measured' = Measured
        /\ Out \in DOMAIN fds[1] => Out \in DOMAIN fds'[1] /\ fds'[1][Out] = fds[1][Out]
        /\ files' = files
    BY <1>1, <1>2, <2>1, ShutsFile
  <2>3. Sorted2' /\ Turned3'
    BY <1>3, <1>14, <2>2, SameFiles
  <2> QED BY <1>5, <1>14, <2>2, <2>3 DEF Wired
<1>15. CASE Talks /\ text[1] = Elapsed /\ Sorted2 /\ Turned3
  <2>1. Call(1) = Write(Out, <<"Elapsed">>) /\ Unrolled(Rest(1)) = Leaving
    BY <1>15, SortTexts DEF Call, Rest
  <2>2. /\ screen' = Append(screen, Said("Elapsed")) /\ UNCHANGED <<fds, files>>
        /\ Goes(1, Leaving) /\ ParentTypeInv'
    BY <1>1, <1>2, <1>15, <2>1, Says
  <2>3. Spoken'
    <3>1. "Elapsed" \in Sentences
      BY DEF Sentences
    <3> QED BY <2>2, <3>1, SayShown
  <2>4. Sorted2' /\ Turned3'
    BY <1>3, <1>15, <2>2, SameFiles
  <2> QED BY <1>2, <1>3, <2>2, <2>3, <2>4 DEF SequentialInv
<1>16. CASE text[1] = Leaving /\ Sorted2 /\ Turned3
  <2>1. Call(1) = ExitWith(0)
    BY <1>16, FailedTexts DEF Call
  <2>2. /\ status'[1] = "gone"
        /\ \A q \in Pids \ {1} : parent[q] # 1 \/ status[q] # "zombie" => status'[q] = status[q]
        /\ UNCHANGED <<start, forks, files, screen>> /\ ParentTypeInv'
    <3>1. parent[1] = 0 /\ 1 \in Pids \cap {1, 2, 3}
      BY <1>1 DEF ParentTypeInv
    <3>2. "gone" = IF parent[1] # 0 /\ Alive(parent[1]) THEN "zombie" ELSE "gone"
      BY <3>1
    <3> QED BY <1>2, <2>1, <3>1, <3>2, Leaves
  <2>3. Spoken'
    BY <2>2, SameScreen
  <2>4. Sorted2' /\ Turned3'
    BY <1>16, <2>2, SameFiles
  <2>5. NoChild'
    BY <1>2, <2>2 DEF NoChild
  <2> QED BY <1>2, <2>2, <2>3, <2>4, <2>5 DEF SequentialInv
<1> QED BY <1>1, <1>6, <1>7, <1>8, <1>9, <1>10, <1>11, <1>12, <1>13, <1>14, <1>15, <1>16 DEF SequentialInv

LEMMA ParallelParent ==
    ASSUME ParentTypeInv, Spoken, Parallel, ParallelInv, 1 \in Pids, Process(1) \/ Shell(1)
    PROVE  ParentTypeInv' /\ Spoken' /\ start' = start /\ ParallelInv'
<1>1. status[1] = "running"
  BY ByCall
<1> DEFINE a == start.argv
           Talks == Wired(1, Out, Tty) /\ ~Finished
<1>2. Sorts(a) /\ a \in Seq(Int)
  BY DEF ParallelInv, Sorts
<1>3. ASSUME NEW t, Goes(1, t), ParentTypeInv', Spoken', Talks, NoChild, Finished' = Finished,
             Out \in DOMAIN fds'[1] /\ fds'[1][Out] = fds[1][Out],
             \/ t \in {Parallel2(a), Parallel3(a)}
             \/ t = Parallel1(a) /\ fp \in DOMAIN fds'[1] /\ fds'[1][fp] = <<"file", "file1">>
      PROVE  ParentTypeInv' /\ Spoken' /\ start' = start /\ ParallelInv'
  <2>1. start' = start /\ status'[1] = "running" /\ text'[1] = t /\ NoChild'
    BY <1>1, <1>3 DEF Goes, NoChild
  <2>2. Wired(1, Out, Tty)' /\ ~Finished'
    BY <1>3 DEF Wired
  <2> QED BY <1>2, <1>3, <2>1, <2>2 DEF ParallelInv, Wired
<1>4. CASE Talks /\ NoChild /\ text[1] = Parallel0(a)
  <2>1. Call(1) = Creat(fp, "file1") /\ Unrolled(Rest(1)) = Parallel1(a)
    BY <1>4, SortTexts DEF Call, Rest
  <2>2. /\ Goes(1, Parallel1(a)) /\ ParentTypeInv' /\ Spoken' /\ Finished' = Finished
        /\ fp \in DOMAIN fds'[1] /\ fds'[1][fp] = <<"file", "file1">>
        /\ Out \in DOMAIN fds[1] => Out \in DOMAIN fds'[1] /\ fds'[1][Out] = fds[1][Out]
    BY <2>1, MakesFile
  <2> QED BY <1>3, <1>4, <2>2 DEF Wired
<1>5. CASE Talks /\ NoChild /\ text[1] = Parallel1(a) /\ Wired(1, fp, <<"file", "file1">>)
  <2>1. Call(1) = Write(fp, a) /\ Unrolled(Rest(1)) = Parallel2(a)
    BY <1>5, SortTexts DEF Call, Rest
  <2>2. Goes(1, Parallel2(a)) /\ ParentTypeInv' /\ Spoken' /\ Finished' = Finished /\ fds' = fds
    BY <1>2, <1>5, <2>1, FillsFile
  <2> QED BY <1>3, <1>5, <2>2 DEF Wired
<1>6. CASE Talks /\ NoChild /\ text[1] = Parallel2(a)
  <2>1. Call(1) = Close(fp) /\ Unrolled(Rest(1)) = Parallel3(a)
    BY <1>6, SortTexts DEF Call, Rest
  <2>2. /\ Goes(1, Parallel3(a)) /\ ParentTypeInv' /\ Spoken' /\ Finished' = Finished
        /\ Out \in DOMAIN fds[1] => Out \in DOMAIN fds'[1] /\ fds'[1][Out] = fds[1][Out]
    BY <2>1, ShutsFile
  <2> QED BY <1>3, <1>6, <2>2 DEF Wired
<1>7. CASE Talks /\ NoChild /\ text[1] = Parallel3(a)
  <2>1. /\ Call(1) = Fork(Descend0(a), Elapsed) /\ Unrolled(Rest(1)) = Parallel4
        /\ Unrolled(Descend0(a)) = Descend0(a) /\ Unrolled(Elapsed) = Elapsed
    BY <1>7, SortTexts DEF Call, Rest
  <2>2. (\A q \in Pids : status[q] = "free" <=> q >= 2) /\ start.forks - forks = 2 - 2
    BY <1>1, <1>7 DEF NoChild, Pids, ParentTypeInv
  <2>3. CASE Goes(1, Elapsed) /\ forks = 0 /\ UNCHANGED <<fds, files, screen>> /\ ParentTypeInv'
    <3>1. Spoken' /\ Finished' = Finished
      BY <2>3, SameScreen
    <3>2. Quiet' /\ status'[1] = "running" /\ text'[1] = Elapsed /\ start' = start
      BY <1>1, <1>7, <2>3 DEF Quiet, NoChild, Goes
    <3>3. Wired(1, Out, Tty)' /\ ~Finished'
      BY <1>7, <2>3, <3>1 DEF Wired
    <3> QED BY <1>2, <2>3, <3>1, <3>2, <3>3 DEF ParallelInv
  <2>4. CASE /\ 2 \in Pids /\ status'[2] = "running" /\ parent'[2] = 1
             /\ fds'[2] = fds[1] /\ text'[2] = Descend0(a) /\ text'[1] = Parallel4
             /\ \A q \in Pids \ {2} : status'[q] = status[q] /\ fds'[q] = fds[q]
             /\ forks' = forks - 1
             /\ UNCHANGED <<start, files, screen>> /\ ParentTypeInv'
    <3>1. Spoken' /\ Finished' = Finished
      BY <2>4, SameScreen
    <3>2. start'.forks - forks' = 1
      BY <1>7, <2>4 DEF NoChild, ParentTypeInv
    <3>3. OneChild' /\ Wired(2, Out, Tty)' /\ Wired(1, Out, Tty)' /\ ~Finished' /\ status'[1] = "running"
      BY <1>1, <1>7, <2>4, <3>1 DEF OneChild, NoChild, Wired
    <3>4. DescendInv'
      BY <2>4, <3>2, <3>3 DEF DescendInv
    <3> QED BY <1>2, <2>4, <3>1, <3>3, <3>4 DEF ParallelInv
  <2> QED BY <2>1, <2>2, <2>3, <2>4, Divides
<1>8. CASE Talks /\ text[1] = Parallel4 /\ DescendInv
  <2>1. Call(1) = Wait /\ Unrolled(Rest(1)) = Finish
    BY <1>8, SortTexts DEF Call, Rest
  <2>2. /\ 2 \in Pids \ {1} /\ parent[2] = 1 /\ status[2] \in {"running", "zombie"}
        /\ \A q \in Pids \ {2} : parent[q] = 1 => status[q] \notin {"running", "zombie"}
    <3>1. 2 \in Pids \ {1} /\ parent[2] = 1 /\ status[2] \in {"running", "zombie"}
      BY <1>8 DEF DescendInv
    <3>2. parent[1] # 1
      BY DEF ParentTypeInv
    <3>3. \A q \in Pids \ {1, 2} : status[q] \in {"running", "zombie"} => parent[q] # 1
      <4>1. \A q \in Pids \ {1, 2, 3} : status[q] \notin {"running", "zombie"}
        BY DEF ParentTypeInv
      <4>2. \/ OneChild
            \/ AscendInv
            \/ NoGrandchild
        BY <1>8 DEF DescendInv
      <4> QED BY <4>1, <4>2 DEF OneChild, AscendInv, NoGrandchild
    <3> QED BY <3>1, <3>2, <3>3
  <2>3. /\ status[2] = "zombie" /\ status' = [status EXCEPT ![2] = "gone"]
        /\ UNCHANGED <<start, forks, fds, files, screen>> /\ text'[1] = Finish /\ ParentTypeInv'
    BY <2>1, <2>2, WaitsFor
  <2>4. Spoken' /\ Finished' = Finished
    BY <2>3, SameScreen
  <2>5. Quiet' /\ status'[1] = "running"
    BY <1>1, <1>8, <2>3 DEF Quiet, DescendInv, NoGrandchild, ParentTypeInv
  <2>6. forks > 0 => Both
    BY <1>8, <2>3 DEF DescendInv
  <2>7. forks' > 0 => Both'
    BY <2>3, <2>6, SameFiles DEF Both
  <2> QED BY <1>2, <1>8, <2>3, <2>4, <2>5, <2>7 DEF ParallelInv, Wired
<1>9. CASE Talks /\ text[1] = Finish /\ Quiet /\ (forks > 0 => Both)
  <2>1. Call(1) = Write(Out, <<"finished">>) /\ Unrolled(Rest(1)) = Elapsed
    BY <1>9, SortTexts DEF Call, Rest
  <2>2. /\ screen' = Append(screen, Said("finished")) /\ UNCHANGED <<fds, files>>
        /\ Goes(1, Elapsed) /\ ParentTypeInv'
    BY <1>9, <2>1, Says
  <2>3. Spoken'
    <3>1. "finished" \in Sentences
      BY DEF Sentences
    <3> QED BY <2>2, <3>1, SayShown
  <2>4. Quiet' /\ status'[1] = "running" /\ text'[1] = Elapsed /\ UNCHANGED <<start, forks>> /\ Wired(1, Out, Tty)'
    BY <1>1, <1>9, <2>2 DEF Quiet, Goes, Wired
  <2>5. forks' > 0 => Both'
    BY <1>9, <2>2, <2>4, SameFiles DEF Both
  <2> QED BY <1>2, <2>2, <2>3, <2>4, <2>5 DEF ParallelInv
<1>10. CASE text[1] = Elapsed /\ Wired(1, Out, Tty) /\ Quiet /\ (Finished /\ forks > 0 => Both)
  <2>1. Call(1) = Write(Out, <<"Elapsed">>) /\ Unrolled(Rest(1)) = Leaving
    BY <1>10, SortTexts DEF Call, Rest
  <2>2. /\ screen' = Append(screen, Said("Elapsed")) /\ UNCHANGED <<fds, files>>
        /\ Goes(1, Leaving) /\ ParentTypeInv'
    BY <1>10, <2>1, Says
  <2>3. Spoken' /\ (Finished' <=> Finished \/ "Elapsed" = "finished")
    <3>1. "Elapsed" \in Sentences
      BY DEF Sentences
    <3> QED BY <2>2, <3>1, SayShown
  <2>4. Quiet' /\ status'[1] = "running" /\ text'[1] = Leaving /\ UNCHANGED <<start, forks>> /\ Wired(1, Out, Tty)'
    BY <1>1, <1>10, <2>2 DEF Quiet, Goes, Wired
  <2>5. "Elapsed" # "finished"
    OBVIOUS
  <2>6. Finished' => Finished
    BY <2>3, <2>5
  <2>7. Finished' /\ forks' > 0 => Both'
    BY <1>10, <2>2, <2>4, <2>6, SameFiles DEF Both
  <2> QED BY <1>2, <2>2, <2>3, <2>4, <2>7 DEF ParallelInv
<1>11. CASE text[1] = Leaving /\ Quiet /\ (Finished /\ forks > 0 => Both)
  <2>1. Call(1) = ExitWith(0)
    BY <1>11, FailedTexts DEF Call
  <2>2. /\ status'[1] = "gone" /\ \A q \in Pids \ {1} : status'[q] \in {status[q], "gone"}
        /\ UNCHANGED <<start, forks, files, screen>> /\ ParentTypeInv'
    <3>1. parent[1] = 0 /\ 1 \in Pids \cap {1, 2, 3}
      BY DEF ParentTypeInv
    <3>2. "gone" = IF parent[1] # 0 /\ Alive(parent[1]) THEN "zombie" ELSE "gone"
      BY <3>1
    <3> QED BY <2>1, <3>1, <3>2, Leaves
  <2>3. Spoken' /\ Finished' = Finished
    BY <2>2, SameScreen
  <2>4. Finished' /\ forks' > 0 => Both'
    BY <1>11, <2>2, <2>3, SameFiles DEF Both
  <2>5. Quiet'
    BY <1>11, <2>2 DEF Quiet
  <2> QED BY <1>2, <2>2, <2>3, <2>4, <2>5 DEF ParallelInv
<1> QED BY <1>1, <1>4, <1>5, <1>6, <1>7, <1>8, <1>9, <1>10, <1>11 DEF ParallelInv

\* The steps of the child, and of its child, keep what the parent needs.
LEMMA ParentWaits ==
    ASSUME ParentTypeInv, Parallel, ParallelInv, 1 \in Pids, 2 \in Pids,
           status[2] = "running" \/ (3 \in Pids /\ status[3] = "running")
    PROVE  /\ status[1] = "running" /\ Wired(1, Out, Tty) /\ ~Finished /\ text[1] = Parallel4 /\ DescendInv
           /\ Sorts(start.argv) /\ descending_sort(start.argv) \in Seq(Int) /\ ascending_sort(start.argv) \in Seq(Int)
           /\ parent[2] = 1 /\ status[2] = "running"
<1>1. Sorts(start.argv) /\ descending_sort(start.argv) \in Seq(Int) /\ ascending_sort(start.argv) \in Seq(Int)
  BY DEF ParallelInv, Sorts
<1>2. ~NoChild /\ ~Quiet
  BY DEF NoChild, Quiet
<1>3. status[1] = "running" /\ Wired(1, Out, Tty) /\ ~Finished /\ text[1] = Parallel4 /\ DescendInv
  BY <1>2 DEF ParallelInv
<1>4. status[2] # "running" => NoGrandchild
  BY <1>3 DEF DescendInv
<1>5. status[2] = "running"
  BY <1>4 DEF NoGrandchild
<1> QED BY <1>1, <1>3, <1>5 DEF DescendInv

LEMMA ParentStays ==
    ASSUME ParentTypeInv, Parallel, ParallelInv, DescendInv, status[1] = "running", Wired(1, Out, Tty), ~Finished,
           text[1] = Parallel4, start' = start, Finished' = Finished,
           text'[1] = text[1], fds'[1] = fds[1], status'[1] = status[1], DescendInv'
    PROVE  ParallelInv'
<1>1. Wired(1, Out, Tty)' /\ ~Finished'
  BY DEF Wired
<1>2. Sorts(start.argv)
  BY DEF ParallelInv
<1> QED BY <1>1, <1>2 DEF ParallelInv

LEMMA GrandchildStays ==
    ASSUME AscendInv, UNCHANGED <<start, parent>>, Keeps("file3"),
           text'[3] = text[3], fds'[3] = fds[3], status'[3] = status[3]
    PROVE  AscendInv'
BY DEF AscendInv, Wired, Keeps

LEMMA ParallelChild ==
    ASSUME ParentTypeInv, Spoken, Parallel, ParallelInv, 1 \in Pids, 2 \in Pids, Process(2) \/ Shell(2)
    PROVE  ParentTypeInv' /\ Spoken' /\ start' = start /\ ParallelInv'
<1>1. status[2] = "running"
  BY ByCall
<1>2. /\ status[1] = "running" /\ Wired(1, Out, Tty) /\ ~Finished /\ text[1] = Parallel4 /\ DescendInv
      /\ Sorts(start.argv) /\ descending_sort(start.argv) \in Seq(Int)
      /\ parent[2] = 1
  BY <1>1, ParentWaits
<1> DEFINE a == start.argv
<1>3. ASSUME NEW t, Goes(2, t), Finished' = Finished, DescendInv'
      PROVE  start' = start /\ ParallelInv'
  <2>1. start' = start /\ text'[1] = text[1] /\ fds'[1] = fds[1] /\ status'[1] = status[1]
    BY <1>3 DEF Goes
  <2> QED BY <1>2, <1>3, <2>1, ParentStays
<1>4. ASSUME NEW t, Goes(2, t), AscendInv, Keeps("file3"),
             \/ t = Descend2(a) /\ fp \in DOMAIN fds'[2] /\ fds'[2][fp] = <<"file", "file3">> /\ Emptied3'
             \/ t \in {Descend3, Descend4} /\ Sorted3'
      PROVE  DescendInv'
  <2>1. /\ UNCHANGED <<start, parent, status>> /\ text'[2] = t
        /\ 3 \in Pids \ {2} /\ text'[3] = text[3] /\ fds'[3] = fds[3]
    BY <1>4 DEF Goes, AscendInv
  <2>2. AscendInv'
    BY <1>4, <2>1, GrandchildStays
  <2> QED BY <1>1, <1>2, <1>4, <2>1, <2>2 DEF DescendInv, Wired
<1>5. CASE OneChild /\ Wired(2, Out, Tty) /\ text[2] = Descend0(a) /\ start.forks - forks = 1
  <2>1. /\ Call(2) = Fork(Ascend0(a), Elapsed) /\ Unrolled(Rest(2)) = Descend1(a)
        /\ Unrolled(Ascend0(a)) = Ascend0(a) /\ Unrolled(Elapsed) = Elapsed
    BY <1>5, SortTexts DEF Call, Rest
  <2>2. (\A q \in Pids : status[q] = "free" <=> q >= 3) /\ start.forks - forks = 3 - 2
    BY <1>1, <1>2, <1>5 DEF OneChild, Pids, ParentTypeInv
  <2>3. CASE Goes(2, Elapsed) /\ forks = 0 /\ UNCHANGED <<fds, files, screen>> /\ ParentTypeInv'
    <3>1. Spoken' /\ Finished' = Finished
      BY <2>3, SameScreen
    <3>2. UNCHANGED <<status, parent, forks>> /\ text'[2] = Elapsed
      BY <2>3 DEF Goes
    <3>3. OneChild' /\ Wired(2, Out, Tty)'
      BY <1>5, <2>3, <3>2 DEF OneChild, Wired
    <3>4. DescendInv'
      BY <1>1, <1>2, <2>3, <3>2, <3>3 DEF DescendInv
    <3> QED BY <1>3, <2>3, <3>1, <3>4
  <2>4. CASE /\ 3 \in Pids /\ status'[3] = "running" /\ parent'[3] = 2
             /\ text'[3] = Ascend0(a) /\ text'[2] = Descend1(a)
             /\ \A q \in Pids \ {3} : status'[q] = status[q] /\ parent'[q] = parent[q] /\ fds'[q] = fds[q]
             /\ \A q \in Pids \ {3, 2} : text'[q] = text[q]
             /\ UNCHANGED <<start, files, screen>> /\ ParentTypeInv'
    <3>1. Spoken' /\ Finished' = Finished
      BY <2>4, SameScreen
    <3>2. AscendInv'
      BY <2>4 DEF AscendInv
    <3>3. DescendInv'
      BY <1>1, <1>2, <2>4, <3>2 DEF DescendInv
    <3>4. text'[1] = text[1] /\ fds'[1] = fds[1] /\ status'[1] = status[1]
      BY <2>4
    <3> QED BY <1>2, <2>4, <3>1, <3>3, <3>4, ParentStays
  <2> QED BY <2>1, <2>2, <2>3, <2>4, Divides
<1>6. CASE OneChild /\ Wired(2, Out, Tty) /\ text[2] = Elapsed /\ forks = 0
  <2>1. Call(2) = Write(Out, <<"Elapsed">>) /\ Unrolled(Rest(2)) = Leaving
    BY <1>6, SortTexts DEF Call, Rest
  <2>2. /\ screen' = Append(screen, Said("Elapsed")) /\ UNCHANGED <<fds, files>>
        /\ Goes(2, Leaving) /\ ParentTypeInv'
    BY <1>6, <2>1, Says
  <2>3. Spoken' /\ (Finished' <=> Finished \/ "Elapsed" = "finished")
    <3>1. "Elapsed" \in Sentences
      BY DEF Sentences
    <3> QED BY <2>2, <3>1, SayShown
  <2>4. ~Finished'
    BY <1>2, <2>3
  <2>5. UNCHANGED <<start, status, parent, forks>> /\ text'[2] = Leaving /\ text'[1] = text[1]
    BY <2>2 DEF Goes
  <2>6. OneChild' /\ Wired(2, Out, Tty)' /\ Wired(1, Out, Tty)'
    BY <1>2, <1>6, <2>2, <2>5 DEF OneChild, Wired
  <2>7. DescendInv'
    BY <1>1, <1>2, <1>6, <2>5, <2>6 DEF DescendInv
  <2> QED BY <1>2, <2>2, <2>3, <2>4, <2>5, <2>6, <2>7 DEF ParallelInv
<1>7. CASE AscendInv /\ text[2] = Descend1(a)
  <2>1. Call(2) = Creat(fp, "file3") /\ Unrolled(Rest(2)) = Descend2(a)
    BY <1>7, SortTexts DEF Call, Rest
  <2>2. /\ Goes(2, Descend2(a)) /\ ParentTypeInv' /\ Spoken' /\ Finished' = Finished
        /\ fp \in DOMAIN fds'[2] /\ fds'[2][fp] = <<"file", "file3">>
        /\ "file3" \in DOMAIN files' /\ files'["file3"] = <<>> /\ Keeps("file3")
    BY <2>1, MakesFile
  <2>3. Emptied3'
    BY <2>2 DEF Emptied3, File
  <2>4. DescendInv'
    BY <1>4, <1>7, <2>2, <2>3
  <2> QED BY <1>3, <2>2, <2>4
<1>8. CASE AscendInv /\ text[2] = Descend2(a) /\ Wired(2, fp, <<"file", "file3">>) /\ Emptied3
  <2>1. Call(2) = Write(fp, descending_sort(a)) /\ Unrolled(Rest(2)) = Descend3
    BY <1>8, SortTexts DEF Call, Rest
  <2> DEFINE w == descending_sort(a)
  <2>2. w \in Seq(Int) /\ Call(2) = Write(fp, w) /\ w = descending_sort(start.argv)
    BY <1>2, <2>1
  <2> HIDE DEF w
  <2>3. /\ Goes(2, Descend3) /\ ParentTypeInv' /\ Spoken' /\ Finished' = Finished
        /\ "file3" = "file3" /\ Emptied3 /\ w = descending_sort(start.argv) => Sorted3'
        /\ Keeps("file3")
    BY <1>8, <2>1, <2>2, FillsFile
  <2>4. Sorted3'
    BY <1>8, <2>2, <2>3
  <2>5. DescendInv'
    BY <1>4, <1>8, <2>3, <2>4
  <2> QED BY <1>3, <2>3, <2>5
<1>9. CASE AscendInv /\ text[2] = Descend3 /\ Sorted3
  <2>1. Call(2) = Close(fp) /\ Unrolled(Rest(2)) = Descend4
    BY <1>9, SortTexts DEF Call, Rest
  <2>2. /\ Goes(2, Descend4) /\ ParentTypeInv' /\ Spoken' /\ Finished' = Finished /\ files' = files
    BY <2>1, ShutsFile
  <2>3. start' = start
    BY <2>2 DEF Goes
  <2>4. Sorted3' /\ Keeps("file3")
    BY <1>9, <2>2, <2>3, SameFiles DEF Keeps
  <2>5. DescendInv'
    BY <1>4, <1>9, <2>2, <2>4
  <2> QED BY <1>3, <2>2, <2>5
<1>10. CASE AscendInv /\ text[2] = Descend4 /\ Sorted3
  <2>1. Call(2) = Wait /\ Unrolled(Rest(2)) = Failed
    BY <1>10, SortTexts DEF Call, Rest
  <2>2. /\ 3 \in Pids \ {2} /\ parent[3] = 2 /\ status[3] \in {"running", "zombie"}
        /\ \A q \in Pids \ {3} : parent[q] = 2 => status[q] \notin {"running", "zombie"}
    <3>1. 3 \in Pids \ {2} /\ parent[3] = 2 /\ status[3] \in {"running", "zombie"}
      BY <1>10 DEF AscendInv
    <3>2. parent[1] # 2 /\ parent[2] # 2
      BY <1>2 DEF ParentTypeInv
    <3>3. \A q \in Pids \ {1, 2, 3} : status[q] \notin {"running", "zombie"}
      BY DEF ParentTypeInv
    <3> QED BY <3>1, <3>2, <3>3
  <2>3. /\ status[3] = "zombie" /\ status' = [status EXCEPT ![3] = "gone"]
        /\ UNCHANGED <<start, parent, forks, fds, files, screen>> /\ text'[2] = Failed
        /\ \A q \in Pids \ {2} : text'[q] = text[q]
        /\ ParentTypeInv'
    BY <2>1, <2>2, WaitsFor
  <2>4. Spoken' /\ Finished' = Finished
    BY <2>3, SameScreen
  <2>5. Sorted2 /\ NoGrandchild'
    BY <1>10, <2>3 DEF AscendInv, NoGrandchild, ParentTypeInv
  <2>6. Both'
    BY <1>10, <2>3, <2>5, SameFiles DEF Both
  <2>7. status'[1] = status[1] /\ status'[2] = "running" /\ fds'[1] = fds[1] /\ text'[1] = text[1]
    BY <1>1, <2>3
  <2>8. DescendInv'
    BY <1>2, <2>3, <2>5, <2>6, <2>7 DEF DescendInv
  <2> QED BY <1>2, <2>3, <2>4, <2>7, <2>8, ParentStays
<1>11. CASE \/ OneChild /\ text[2] = Leaving /\ forks = 0
            \/ text[2] = Failed /\ Both /\ NoGrandchild
  <2>1. PICK c : Call(2) = ExitWith(c)
    <3>1. \E c : Call(2) = ExitWith(c)
      BY <1>11, FailedTexts DEF Call
    <3> QED BY <3>1
  <2>2. "zombie" = IF parent[2] # 0 /\ Alive(parent[2]) THEN "zombie" ELSE "gone"
    BY <1>2 DEF Alive
  <2>3. /\ status'[2] = "zombie"
        /\ \A q \in Pids \ {2} : /\ text'[q] = text[q] /\ fds'[q] = fds[q]
                                 /\ parent[q] # 2 \/ status[q] # "zombie" => status'[q] = status[q]
                                 /\ status'[q] \in {status[q], "gone"}
        /\ UNCHANGED <<start, parent, forks, files, screen>> /\ ParentTypeInv'
    BY <2>1, <2>2, Leaves
  <2>4. Spoken' /\ Finished' = Finished
    BY <2>3, SameScreen
  <2>5. NoGrandchild /\ (forks > 0 => Both)
    BY <1>11 DEF OneChild, NoGrandchild
  <2>6. NoGrandchild' /\ (forks' > 0 => Both')
    BY <2>3, <2>5, SameFiles DEF Both, NoGrandchild
  <2>7. status'[1] = status[1] /\ fds'[1] = fds[1] /\ text'[1] = text[1]
    BY <1>2, <2>3
  <2>8. DescendInv'
    BY <1>2, <2>3, <2>6 DEF DescendInv
  <2> QED BY <1>2, <2>3, <2>4, <2>7, <2>8, ParentStays
<1> QED BY <1>1, <1>2, <1>5, <1>6, <1>7, <1>8, <1>9, <1>10, <1>11 DEF DescendInv

LEMMA ParallelGrandchild ==
    ASSUME ParentTypeInv, Spoken, Parallel, ParallelInv, 1 \in Pids, 2 \in Pids, 3 \in Pids, Process(3) \/ Shell(3)
    PROVE  ParentTypeInv' /\ Spoken' /\ start' = start /\ ParallelInv'
<1>1. status[3] = "running"
  BY ByCall
<1>2. /\ status[1] = "running" /\ Wired(1, Out, Tty) /\ ~Finished /\ text[1] = Parallel4 /\ DescendInv
      /\ Sorts(start.argv) /\ ascending_sort(start.argv) \in Seq(Int)
      /\ parent[2] = 1 /\ status[2] = "running"
  BY <1>1, ParentWaits
<1> DEFINE a == start.argv
<1>3. /\ AscendInv
      /\ \/ text[2] = Descend1(start.argv)
         \/ text[2] = Descend2(start.argv) /\ Wired(2, fp, <<"file", "file3">>) /\ Emptied3
         \/ text[2] \in {Descend3, Descend4} /\ Sorted3
  BY <1>1, <1>2 DEF DescendInv, OneChild, NoGrandchild
<1>4. ASSUME UNCHANGED <<start, parent>>, Finished' = Finished, Keeps("file2"), AscendInv',
             \A q \in {1, 2} : text'[q] = text[q] /\ fds'[q] = fds[q] /\ status'[q] = status[q]
      PROVE  ParallelInv'
  <2>1. DescendInv'
    BY <1>2, <1>3, <1>4 DEF DescendInv, Wired, Keeps
  <2> QED BY <1>2, <1>4, <2>1, ParentStays
<1>5. \A t : Goes(3, t) => /\ UNCHANGED <<start, parent, status>> /\ text'[3] = t
                           /\ \A q \in {1, 2} : text'[q] = text[q] /\ fds'[q] = fds[q] /\ status'[q] = status[q]
  BY DEF Goes
<1>6. parent[3] = 2
  BY <1>3 DEF AscendInv
<1>7. CASE text[3] = Ascend0(a)
  <2>1. Call(3) = Creat(fp, "file2") /\ Unrolled(Rest(3)) = Ascend1(a)
    BY <1>7, SortTexts DEF Call, Rest
  <2>2. /\ Goes(3, Ascend1(a)) /\ ParentTypeInv' /\ Spoken' /\ Finished' = Finished
        /\ fp \in DOMAIN fds'[3] /\ fds'[3][fp] = <<"file", "file2">>
        /\ "file2" \in DOMAIN files' /\ files'["file2"] = <<>> /\ Keeps("file2")
    BY <2>1, MakesFile
  <2>3. Emptied2'
    BY <2>2 DEF Emptied2, File
  <2>4. AscendInv'
    BY <1>1, <1>5, <1>6, <2>2, <2>3 DEF AscendInv, Wired
  <2> QED BY <1>4, <1>5, <2>2, <2>4
<1>8. CASE text[3] = Ascend1(a) /\ Wired(3, fp, <<"file", "file2">>) /\ Emptied2
  <2>1. Call(3) = Write(fp, ascending_sort(a)) /\ Unrolled(Rest(3)) = Ascend2
    BY <1>8, SortTexts DEF Call, Rest
  <2> DEFINE w == ascending_sort(a)
  <2>2. w \in Seq(Int) /\ Call(3) = Write(fp, w) /\ w = ascending_sort(start.argv)
    BY <1>2, <2>1
  <2> HIDE DEF w
  <2>3. /\ Goes(3, Ascend2) /\ ParentTypeInv' /\ Spoken' /\ Finished' = Finished
        /\ "file2" = "file2" /\ Emptied2 /\ w = ascending_sort(start.argv) => Sorted2'
        /\ Keeps("file2")
    BY <1>8, <2>1, <2>2, FillsFile
  <2>4. Sorted2'
    BY <1>8, <2>2, <2>3
  <2>5. AscendInv'
    BY <1>1, <1>5, <1>6, <2>3, <2>4 DEF AscendInv
  <2> QED BY <1>4, <1>5, <2>3, <2>5
<1>9. CASE text[3] = Ascend2 /\ Sorted2
  <2>1. Call(3) = Close(fp) /\ Unrolled(Rest(3)) = Failed
    BY <1>9, SortTexts DEF Call, Rest
  <2>2. /\ Goes(3, Failed) /\ ParentTypeInv' /\ Spoken' /\ Finished' = Finished /\ files' = files
    BY <2>1, ShutsFile
  <2>3. start' = start
    BY <1>5, <2>2
  <2>4. Sorted2' /\ Keeps("file2")
    BY <1>9, <2>2, <2>3, SameFiles DEF Keeps
  <2>5. AscendInv'
    BY <1>1, <1>5, <1>6, <2>2, <2>4 DEF AscendInv
  <2> QED BY <1>4, <1>5, <2>2, <2>4, <2>5
<1>10. CASE text[3] = Failed /\ Sorted2
  <2>1. Call(3) = ExitWith(1)
    BY <1>10, FailedTexts DEF Call
  <2>2. "zombie" = IF parent[3] # 0 /\ Alive(parent[3]) THEN "zombie" ELSE "gone"
    BY <1>2, <1>6 DEF Alive
  <2>3. /\ status'[3] = "zombie"
        /\ \A q \in Pids \ {3} : /\ text'[q] = text[q] /\ fds'[q] = fds[q]
                                 /\ parent[q] # 3 \/ status[q] # "zombie" => status'[q] = status[q]
        /\ UNCHANGED <<start, parent, files, screen>> /\ ParentTypeInv'
    BY <2>1, <2>2, Leaves
  <2>4. Spoken' /\ Finished' = Finished
    BY <2>3, SameScreen
  <2>5. Sorted2' /\ Keeps("file2")
    BY <1>10, <2>3, SameFiles DEF Keeps
  <2>6. AscendInv'
    BY <1>6, <2>3, <2>5 DEF AscendInv
  <2>7. \A q \in {1, 2} : text'[q] = text[q] /\ fds'[q] = fds[q] /\ status'[q] = status[q]
    BY <1>2, <2>3
  <2> QED BY <1>4, <2>3, <2>4, <2>5, <2>6, <2>7
<1> QED BY <1>1, <1>3, <1>7, <1>8, <1>9, <1>10 DEF AscendInv

-----------------------------------------------------------------------------
(* They start in the invariant, and every step keeps it                     *)

LEMMA StartOfParent ==
    ASSUME NEW Arrays, WaitsOnly(Arrays), NEW s \in Starts
    PROVE  \/ \E c \in {"who", "nosuch"}, f \in 0..MaxProcs - 1 : s = Started("whotofile", WhoToFile, <<c>>, <<>>, f)
           \/ \E f \in 0..MaxProcs - 1 : s = Started("waitdemo", WaitDemo, <<>>, <<>>, f)
           \/ \E a \in Arrays, f \in 0..MaxProcs - 1 : s = Started("hw6 0", Parallel0(a), a, <<>>, f)
           \/ \E a \in Arrays : s = Started("hw6 1", Sequential0(a), a, <<>>, 0)
<1> DEFINE F == 0..MaxProcs - 1
           Users        == {Started("whotofile", WhoToFile, <<c>>, <<>>, f) : c \in {"who", "nosuch"}, f \in F}
           Talkers      == {Started("waitdemo", WaitDemo, <<>>, <<>>, f) : f \in F}
           Parted(a, f) == Started("hw6 0", SortParallel(a), a, <<>>, f)
           Single(a)    == Started("hw6 1", SortSequential(a), a, <<>>, 0)
           InTwo        == {Parted(a, f) : a \in Arrays, f \in F}
           InOne        == {Single(a) : a \in Arrays}
<1>1. WaitStarts(F) = Users \cup Talkers /\ SortStarts(Arrays, F) = InTwo \cup InOne
  BY DEF WaitStarts, SortStarts
<1>2. s \in Users \/ s \in Talkers \/ s \in InTwo \/ s \in InOne
  <2> HIDE DEF Users, Talkers, InTwo, InOne
  <2>1. s \in WaitStarts(F) \/ s \in SortStarts(Arrays, F)
    BY DEF WaitsOnly
  <2> QED BY <1>1, <2>1
<1>3. s \in Users => \E c \in {"who", "nosuch"}, f \in F : s = Started("whotofile", WhoToFile, <<c>>, <<>>, f)
  OBVIOUS
<1>4. s \in Talkers => \E f \in F : s = Started("waitdemo", WaitDemo, <<>>, <<>>, f)
  BY ZenonT(20)
<1>5. s \in InTwo => \E a \in Arrays, f \in F : s = Started("hw6 0", Parallel0(a), a, <<>>, f)
  <2>1. \A a, f : Parted(a, f) = Started("hw6 0", Parallel0(a), a, <<>>, f)
    BY SortPrograms
  <2>2. ASSUME s \in InTwo PROVE \E a \in Arrays, f \in F : s = Parted(a, f)
    <3> HIDE DEF Parted, F
    <3> QED BY <2>2
  <2> HIDE DEF Parted, InTwo, F
  <2> QED BY <2>1, <2>2
<1>6. s \in InOne => \E a \in Arrays : s = Started("hw6 1", Sequential0(a), a, <<>>, 0)
  <2>1. \A a : Single(a) = Started("hw6 1", Sequential0(a), a, <<>>, 0)
    BY SortPrograms
  <2>2. ASSUME s \in InOne PROVE \E a \in Arrays : s = Single(a)
    <3> HIDE DEF Single
    <3> QED BY <2>2
  <2> QED BY <2>1, <2>2
<1> HIDE DEF Users, Talkers, InTwo, InOne
<1> QED BY <1>2, <1>3, <1>4, <1>5, <1>6

LEMMA ParentInit == ASSUME NEW Arrays, WaitsOnly(Arrays) PROVE Init => ParentInv
<1> SUFFICES ASSUME Init PROVE ParentInv
  OBVIOUS
<1>1. PICK s \in Starts : start = [s EXCEPT !.text = Empty]
                          /\ text = [p \in Pids |-> IF p = 1 THEN s.text ELSE Empty]
  BY DEF Init
<1>2. 1 \in Pids
  BY KernelAssumption DEF Pids
<1>3. \A program, prog, words, f : s = Started(program, prog, words, <<>>, f)
        => start.program = program /\ start.argv = words /\ start.forks = f /\ text[1] = prog
  BY <1>1, <1>2 DEF Started
<1>4. /\ status = [p \in Pids |-> IF p = 1 THEN "running" ELSE "free"]
      /\ parent = [p \in Pids |-> 0] /\ kid = parent /\ code = parent
      /\ argv = [p \in Pids |-> IF p = 1 THEN start.argv ELSE Empty]
      /\ fds = [p \in Pids |-> IF p = 1 THEN [d \in {In, Out} |-> Tty] ELSE Empty]
      /\ line = [p \in Pids |-> NoLine]
      /\ screen = <<>> /\ forks = start.forks
      /\ log = [taken |-> <<>>, reported |-> <<>>]
  BY DEF Init
<1>5. ASSUME start.forks \in 0..MaxProcs - 1, ToFile \/ Demo \/ Parallel \/ Sequential
      PROVE  ParentTypeInv
  <2>1. status \in [Pids -> {"free", "running", "zombie", "gone"}] /\ \A q \in Pids \ {1, 2, 3} : status[q] = "free"
    BY <1>4
  <2>2. reported = <<>> /\ log \in [taken : {<<>>}, reported : Seq([argv : {<<>>}, status : {17 * 256}])]
    BY <1>4, EmptySeq DEF reported
  <2>3. DOMAIN text = Pids /\ DOMAIN fds = Pids /\ DOMAIN argv = Pids /\ DOMAIN code = Pids
        /\ DOMAIN parent = Pids /\ DOMAIN kid = Pids /\ parent[1] = 0
    BY <1>1, <1>2, <1>4
  <2>4. forks \in 0..start.forks
    BY <1>4, <1>5
  <2> QED BY <1>4, <1>5, <2>1, <2>2, <2>3, <2>4 DEF ParentTypeInv
<1>6. Spoken /\ Len(screen) = 0 /\ ~DoneRunning /\ ~DoneWaiting /\ ~Finished /\ ~Measured
  BY <1>4, EmptySeq DEF Spoken, DoneRunning, DoneWaiting, Finished, Measured, Shown
<1>7. status[1] = "running" /\ NoChild /\ Wired(1, Out, Tty) /\ argv[1] = start.argv
  BY <1>2, <1>4 DEF NoChild, Wired
<1>8. 0 \in 0..MaxProcs - 1
  BY KernelAssumption
<1>9. CASE \E c \in {"who", "nosuch"}, f \in 0..MaxProcs - 1 : s = Started("whotofile", WhoToFile, <<c>>, <<>>, f)
  <2>1. PICK c \in {"who", "nosuch"}, f \in 0..MaxProcs - 1 : s = Started("whotofile", WhoToFile, <<c>>, <<>>, f)
    BY <1>9
  <2>2. start.program = "whotofile" /\ start.argv = <<c>> /\ start.forks = f /\ text[1] = WhoToFile
    BY <1>3, <2>1
  <2>3. ToFileInv
    BY <1>6, <1>7, <2>2 DEF ToFileInv
  <2> QED BY <1>5, <1>6, <2>2, <2>3 DEF ParentInv, ToFile, Demo, Parallel, Sequential
<1>10. CASE \E f \in 0..MaxProcs - 1 : s = Started("waitdemo", WaitDemo, <<>>, <<>>, f)
  <2>1. PICK f \in 0..MaxProcs - 1 : s = Started("waitdemo", WaitDemo, <<>>, <<>>, f)
    BY <1>10
  <2>2. start.program = "waitdemo" /\ start.argv = <<>> /\ start.forks = f /\ text[1] = WaitDemo
    BY <1>3, <2>1
  <2>3. DemoInv
    BY <1>6, <1>7, <2>2 DEF DemoInv
  <2> QED BY <1>5, <1>6, <2>2, <2>3 DEF ParentInv, ToFile, Demo, Parallel, Sequential
<1>11. CASE \E a \in Arrays, f \in 0..MaxProcs - 1 : s = Started("hw6 0", Parallel0(a), a, <<>>, f)
  <2>1. PICK a \in Arrays, f \in 0..MaxProcs - 1 : s = Started("hw6 0", Parallel0(a), a, <<>>, f)
    BY <1>11
  <2>2. start.program = "hw6 0" /\ start.argv = a /\ start.forks = f /\ text[1] = Parallel0(a) /\ Sorts(a)
    BY <1>3, <2>1, SortsEveryArray DEF WaitsOnly
  <2>3. ParallelInv
    BY <1>6, <1>7, <2>2 DEF ParallelInv
  <2> QED BY <1>5, <1>6, <2>2, <2>3 DEF ParentInv, ToFile, Demo, Parallel, Sequential
<1>12. CASE \E a \in Arrays : s = Started("hw6 1", Sequential0(a), a, <<>>, 0)
  <2>1. PICK a \in Arrays : s = Started("hw6 1", Sequential0(a), a, <<>>, 0)
    BY <1>12
  <2>2. start.program = "hw6 1" /\ start.argv = a /\ start.forks = 0 /\ text[1] = Sequential0(a) /\ Sorts(a)
    BY <1>3, <2>1, SortsEveryArray DEF WaitsOnly
  <2>3. SequentialInv
    BY <1>6, <1>7, <2>2 DEF SequentialInv
  <2> QED BY <1>5, <1>6, <1>8, <2>2, <2>3 DEF ParentInv, ToFile, Demo, Parallel, Sequential
<1> QED BY <1>9, <1>10, <1>11, <1>12, StartOfParent

LEMMA ParentStutter == ParentInv /\ UNCHANGED vars => ParentInv'
<1> SUFFICES ASSUME ParentInv, UNCHANGED vars PROVE ParentInv'
  OBVIOUS
<1>1. UNCHANGED <<start, log, parent, kid, argv, forks, status, code, text, fds, line, files, screen>>
  BY DEF vars, family, lives, data
<1>2. ParentTypeInv'
  BY <1>1 DEF ParentInv, ParentTypeInv, ToFile, Demo, Parallel, Sequential, reported
<1>3. /\ Spoken' /\ DoneRunning' = DoneRunning /\ DoneWaiting' = DoneWaiting /\ ChildDone' = ChildDone
      /\ Finished' = Finished /\ Measured' = Measured
  BY <1>1, SameScreen DEF ParentInv
<1>4. /\ Sorted2' = Sorted2 /\ Sorted3' = Sorted3 /\ Turned3' = Turned3
      /\ Emptied2' = Emptied2 /\ Emptied3' = Emptied3
  BY <1>1, SameFiles
<1>5. NoChild' = NoChild /\ OneChild' = OneChild /\ Quiet' = Quiet /\ NoGrandchild' = NoGrandchild
  BY <1>1 DEF NoChild, OneChild, Quiet, NoGrandchild
<1>6. UsersInv' = UsersInv
  BY <1>1 DEF UsersInv, Listed, Wired, Whole1
<1>7. ToFileInv' = ToFileInv
  BY <1>1, <1>3, <1>5, <1>6 DEF ToFileInv, Listed, Wired, Whole1
<1>8. TalkInv' = TalkInv /\ Told' = Told
  BY <1>1, <1>3 DEF TalkInv, Told, Wired
<1>9. DemoInv' = DemoInv
  BY <1>1, <1>3, <1>5, <1>8 DEF DemoInv, Wired
<1>10. AscendInv' = AscendInv
  BY <1>1, <1>4 DEF AscendInv, Wired
<1>11. DescendInv' = DescendInv
  BY <1>1, <1>4, <1>5, <1>10 DEF DescendInv, Wired, Both
<1>12. ParallelInv' = ParallelInv
  BY <1>1, <1>3, <1>4, <1>5, <1>11 DEF ParallelInv, Wired, Both
<1>13. SequentialInv' = SequentialInv
  BY <1>1, <1>3, <1>4, <1>5 DEF SequentialInv, Wired
<1> QED BY <1>1, <1>2, <1>3, <1>7, <1>9, <1>12, <1>13 DEF ParentInv, ToFile, Demo, Parallel, Sequential

LEMMA ParentStep == ParentInv /\ [NextAll]_vars => ParentInv'
<1> SUFFICES ASSUME ParentInv, [NextAll]_vars PROVE ParentInv'
  OBVIOUS
<1>1. 1 \in Pids
  BY KernelAssumption DEF Pids
<1>2. CASE UNCHANGED vars \/ Idle
  BY <1>2, ParentStutter DEF Idle
<1>3. CASE \E p \in Pids : Process(p) \/ Shell(p)
  <2>1. PICK p \in Pids : Process(p) \/ Shell(p)
    BY <1>3
  <2>2. status[p] = "running" /\ p \in {1, 2, 3} /\ ParentTypeInv /\ Spoken
    BY <2>1, ByCall DEF ParentInv, ParentTypeInv
  <2>3. 2 \in Pids \/ p = 1
    BY <2>2, KernelAssumption DEF Pids
  <2>4. CASE ToFile
    <3>1. ToFileInv
      BY <2>4 DEF ParentInv
    <3>2. p # 3
      BY <2>1, <2>2, <3>1 DEF ToFileInv, NoChild, Quiet, OneChild
    <3>3. ParentTypeInv' /\ Spoken' /\ start' = start /\ ToFileInv'
      BY <1>1, <2>1, <2>2, <2>4, <3>1, <3>2, ToFileParent, ToFileChild
    <3> QED BY <2>4, <3>3 DEF ParentInv, ToFile, Demo, Parallel, Sequential
  <2>5. CASE Demo
    <3>1. DemoInv
      BY <2>5 DEF ParentInv
    <3>2. p # 3
      BY <2>1, <2>2, <3>1 DEF DemoInv, NoChild, Quiet, OneChild
    <3>3. ParentTypeInv' /\ Spoken' /\ start' = start /\ DemoInv'
      BY <1>1, <2>1, <2>2, <2>5, <3>1, <3>2, DemoParent, DemoChild
    <3> QED BY <2>5, <3>3 DEF ParentInv, ToFile, Demo, Parallel, Sequential
  <2>6. CASE Parallel
    <3>1. ParallelInv
      BY <2>6 DEF ParentInv
    <3>2. ParentTypeInv' /\ Spoken' /\ start' = start /\ ParallelInv'
      BY <1>1, <2>1, <2>2, <2>3, <2>6, <3>1, ParallelParent, ParallelChild, ParallelGrandchild
    <3> QED BY <2>6, <3>2 DEF ParentInv, ToFile, Demo, Parallel, Sequential
  <2>7. CASE Sequential
    <3>1. SequentialInv
      BY <2>7 DEF ParentInv
    <3>2. ParentTypeInv' /\ Spoken' /\ start' = start /\ SequentialInv'
      BY <2>1, <2>2, <2>7, <3>1, SequentialStep
    <3> QED BY <2>7, <3>2 DEF ParentInv, ToFile, Demo, Parallel, Sequential
  <2> QED BY <2>2, <2>4, <2>5, <2>6, <2>7 DEF ParentTypeInv
<1> QED BY <1>2, <1>3 DEF NextAll

-----------------------------------------------------------------------------
(* The theorems about them                                                  *)

\* A file that holds what the function wrote at once is a file that holds the array sorted.
LEMMA SortedFiles ==
    ASSUME Sorts(start.argv), Sorted2, Sorted3 \/ Turned3
    PROVE  /\ Holds("file2", start.argv, LAMBDA x, y : x <= y)
           /\ Holds("file3", start.argv, LAMBDA x, y : x >= y)
<1> DEFINE a == start.argv
<1>1. /\ SortedBy(ascending_sort(a), a, LAMBDA x, y : x <= y)
      /\ SortedBy(descending_sort(a), a, LAMBDA x, y : x >= y)
      /\ SortedBy(turned(a), a, LAMBDA x, y : x >= y)
  BY DEF Sorts, turned
<1>2. ASSUME NEW f, NEW s, Holding(f, s)
      PROVE  f \in DOMAIN files /\ Len(files[f]) = 1 /\ files[f][1].via = s
  BY <1>2 DEF Holding, File
<1>3. "file2" \in DOMAIN files /\ Len(files["file2"]) = 1 /\ files["file2"][1].via = ascending_sort(a)
  BY <1>2 DEF Sorted2
<1>4. /\ "file3" \in DOMAIN files /\ Len(files["file3"]) = 1
      /\ files["file3"][1].via = descending_sort(a) \/ files["file3"][1].via = turned(a)
  BY <1>2 DEF Sorted3, Turned3
<1>5. Holds("file2", a, LAMBDA x, y : x <= y)
  BY <1>1, <1>3 DEF Holds
<1>6. Holds("file3", a, LAMBDA x, y : x >= y)
  BY <1>1, <1>4 DEF Holds
<1> QED BY <1>5, <1>6

\* What a parent says after wait() is so, whatever the interleaving: unless the process
\* limit was met, hw6 has finished when both files are written, whole and sorted; all that
\* who writes is in userlist; the child of waitdemo2 has had its say (whotofile_p.c,
\* waitdemo2.c, hw6).
THEOREM WaitedFor == ASSUME NEW CONSTANT Arrays, WaitsOnly(Arrays) PROVE FairSpecAll => []DoneMeansDone
<1>1. Init => ParentInv
  BY ParentInit
<1>2. ParentInv /\ [NextAll]_vars => ParentInv'
  BY ParentStep
<1>3. ParentInv => DoneMeansDone
  <2> SUFFICES ASSUME ParentInv PROVE DoneMeansDone
    OBVIOUS
  <2>1. CASE ToFile
    <3>1. DoneRunning => Listed(Whole1) /\ Len(screen) = 2
      BY <2>1 DEF ParentInv, ToFileInv
    <3> QED BY <2>1, <3>1 DEF DoneMeansDone, ToFile, DoneRunning, Listed, Whole1
  <2>2. CASE Demo
    <3>1. DoneWaiting => ChildDone
      BY <2>2 DEF ParentInv, DemoInv, Told
    <3> QED BY <2>2, <3>1 DEF DoneMeansDone, Demo, DoneWaiting, ChildDone
  <2>3. CASE Parallel
    <3>1. Finished /\ forks > 0 => Sorts(start.argv) /\ Both
      BY <2>3 DEF ParentInv, ParallelInv
    <3>2. Finished /\ forks > 0 => /\ Holds("file2", start.argv, LAMBDA x, y : x <= y)
                                   /\ Holds("file3", start.argv, LAMBDA x, y : x >= y)
      BY <3>1, SortedFiles DEF Both
    <3> QED BY <2>3, <3>2 DEF DoneMeansDone, Parallel, Finished
  <2>4. CASE Sequential
    <3>1. Measured => Sorts(start.argv) /\ Sorted2 /\ Turned3
      BY <2>4 DEF ParentInv, SequentialInv
    <3>2. Measured => /\ Holds("file2", start.argv, LAMBDA x, y : x <= y)
                      /\ Holds("file3", start.argv, LAMBDA x, y : x >= y)
      BY <3>1, SortedFiles
    <3> QED BY <2>4, <3>2 DEF DoneMeansDone, Sequential, Measured
  <2> QED BY <2>1, <2>2, <2>3, <2>4 DEF ParentInv, ParentTypeInv
<1> QED BY <1>1, <1>2, <1>3, PTL DEF FairSpecAll

\* waitdemo2 prints the 17 that its child exits with, and no status of a child is
\* printed by the other parents (waitdemo2.c, whotofile_p.c, hw6).
THEOREM ChildReported == ASSUME NEW CONSTANT Arrays, WaitsOnly(Arrays) PROVE FairSpecAll => []ReportsItsChild
<1>1. Init => ParentInv
  BY ParentInit
<1>2. ParentInv /\ [NextAll]_vars => ParentInv'
  BY ParentStep
<1>3. ParentInv => ReportsItsChild
  <2> SUFFICES ASSUME ParentInv PROVE ReportsItsChild
    OBVIOUS
  <2>1. log \in [taken : {<<>>}, reported : Seq([argv : {<<>>}, status : {17 * 256}])]
    BY DEF ParentInv, ParentTypeInv
  <2>2. \A i \in DOMAIN reported : reported[i].status = 17 * 256
    <3> DEFINE Printed == [argv : {<<>>}, status : {17 * 256}]
    <3>1. \A r \in Printed : r.status = 17 * 256
      OBVIOUS
    <3>2. reported \in Seq(Printed)
      BY <2>1 DEF reported
    <3> HIDE DEF Printed
    <3>3. \A i \in DOMAIN reported : reported[i] \in Printed
      BY <3>2, ElementOfSeq, LenProperties
    <3> QED BY <3>1, <3>3
  <2>3. CASE Demo
    BY <2>2, <2>3 DEF ReportsItsChild, Demo
  <2>4. CASE ~Demo
    BY <2>4 DEF ReportsItsChild, ParentInv, ParentTypeInv, ToFile, Demo, Parallel, Sequential
  <2> QED BY <2>3, <2>4
<1> QED BY <1>1, <1>2, <1>3, PTL DEF FairSpecAll

=============================================================================
