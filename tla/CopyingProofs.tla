--------------------------- MODULE CopyingProofs ---------------------------
(***************************************************************************)
(* The three versions of hw2, and cp1, for every disk on which the source   *)
(* and the destination are apart, any number of changes by somebody else    *)
(* (who creates, removes, extends, empties and writes over files of the     *)
(* source), and any number of writes that fail: what ends without an error  *)
(* has copied each file that nobody touched, but for what the tutor's       *)
(* program does not look at (a file it cannot open, a write that fails); a  *)
(* subdirectory leaves the destination as it was; and no file has blocks    *)
(* that its original never had there.                                       *)
(***************************************************************************)
EXTENDS Copying, SequenceTheorems, WellFoundedInduction, TLAPS

-----------------------------------------------------------------------------
(* Paths                                                                    *)

\* Any set of natural numbers that is not empty has a least member: < is well-founded.
LEMMA LeastNat == ASSUME NEW T, T \subseteq Nat, T # {} PROVE \E x \in T : \A y \in T : ~(y < x)
<1> DEFINE Less == OpToRel(<, Nat)
<1>1. IsWellFoundedOn(Less, Nat)
  BY NatLessThanWellFounded DEF OpToRel
<1>2. \E x \in T : \A y \in T : ~ (<<y, x>> \in Less)
  <2> HIDE DEF Less
  <2> QED BY <1>1, WFMin
<1>3. Less = {s \in Nat \X Nat : s[1] < s[2]}
  BY DEF OpToRel
<1> HIDE DEF Less
<1>4. PICK x \in T : \A y \in T : ~ (<<y, x>> \in Less)
  BY <1>2
<1>5. \A y \in T : ~(y < x)
  BY <1>3, <1>4
<1> QED BY <1>5

\* Induction over a set of numbers; the theorems of NaturalsInduction are about operators.
LEMMA SetInduction ==
  ASSUME NEW T, 0 \in T, \A n \in Nat : n \in T => n + 1 \in T
  PROVE Nat \subseteq T
<1>1. SUFFICES ASSUME Nat \ T # {} PROVE FALSE
  OBVIOUS
<1>2. PICK x \in Nat \ T : \A y \in Nat \ T : ~(y < x)
  BY <1>1, LeastNat
<1>3. x # 0 /\ x - 1 \in Nat
  BY <1>2
<1>4. x - 1 \in T
  BY <1>2, <1>3
<1>5. x \in T
  BY <1>3, <1>4
<1> QED BY <1>5, <1>2

Paths == Seq(AllNames)

\* The inodes on the way along a path, one for each name of it.
IsWalk(h, disk, p) ==
    h = [k \in 0..Len(p) |-> IF k = 0 THEN Root ELSE Entry(disk, h[k - 1], p[k])]

LEMMA WalkExists == ASSUME NEW disk, NEW p \in Paths PROVE \E h : IsWalk(h, disk, p)
<1> DEFINE IsPart(h, n) == h = [k \in 0..n |-> IF k = 0 THEN Root ELSE Entry(disk, h[k - 1], p[k])]
           T == {n \in Nat : \E h : IsPart(h, n)}
<1>1. 0 \in T
  <2> DEFINE h == [k \in 0..0 |-> Root]
  <2>1. h = [k \in 0..0 |-> IF k = 0 THEN Root ELSE Entry(disk, h[k - 1], p[k])]
    <3>1. \A k \in 0..0 : k = 0
      OBVIOUS
    <3> QED BY <3>1
  <2>2. IsPart(h, 0)
    BY <2>1
  <2> QED BY <2>2
<1>2. \A n \in Nat : n \in T => n + 1 \in T
  <2> SUFFICES ASSUME NEW n \in Nat, NEW g, IsPart(g, n) PROVE \E h : IsPart(h, n + 1)
    OBVIOUS
  <2> DEFINE h == [k \in 0..n + 1 |-> IF k = n + 1 THEN Entry(disk, g[n], p[n + 1]) ELSE g[k]]
  <2>1. ASSUME NEW k \in 0..n + 1 PROVE h[k] = IF k = 0 THEN Root ELSE Entry(disk, h[k - 1], p[k])
    <3>1. k \in 0..n => g[k] = IF k = 0 THEN Root ELSE Entry(disk, g[k - 1], p[k])
      OBVIOUS
    <3>2. k # 0 => k - 1 \in 0..n /\ k - 1 # n + 1
      OBVIOUS
    <3>3. k = n + 1 \/ k \in 0..n
      OBVIOUS
    <3>4. k = n + 1 => k # 0 /\ k - 1 = n
      OBVIOUS
    <3>5. \A j \in 0..n : j # n + 1 /\ j \in 0..n + 1
      OBVIOUS
    <3> QED BY <3>1, <3>2, <3>3, <3>4, <3>5
  <2>2. h = [k \in 0..n + 1 |-> h[k]]
    OBVIOUS
  <2> HIDE DEF h
  <2>3. IsPart(h, n + 1)
    BY <2>1, <2>2
  <2> QED BY <2>3
<1> HIDE DEF T
<1>3. Len(p) \in T
  BY <1>1, <1>2, SetInduction, LenProperties DEF Paths
<1> QED BY <1>3 DEF T, IsWalk

LEMMA LookWalk ==
    ASSUME NEW disk, NEW p \in Paths
    PROVE  \E h : IsWalk(h, disk, p) /\ LookupOn(disk, p) = h[Len(p)]
<1> DEFINE at == CHOOSE h : h = [k \in 0..Len(p) |-> IF k = 0 THEN Root ELSE Entry(disk, h[k - 1], p[k])]
<1>1. LookupOn(disk, p) = at[Len(p)]
  BY DEF LookupOn
<1>2. IsWalk(at, disk, p)
  BY WalkExists DEF IsWalk
<1> QED BY <1>1, <1>2

LEMMA LookEmpty == ASSUME NEW disk PROVE LookupOn(disk, <<>>) = Root
<1>1. <<>> \in Paths /\ Len(<<>>) = 0
  BY DEF Paths
<1>2. PICK h : IsWalk(h, disk, <<>>) /\ LookupOn(disk, <<>>) = h[0]
  BY <1>1, LookWalk
<1>3. 0 \in 0..0
  OBVIOUS
<1> QED BY <1>1, <1>2, <1>3 DEF IsWalk

LEMMA Appended ==
    ASSUME NEW S, NEW s \in Seq(S), NEW e \in S
    PROVE  /\ Append(s, e) \in Seq(S) /\ Len(s) \in Nat
           /\ Len(Append(s, e)) = Len(s) + 1 /\ Append(s, e)[Len(s) + 1] = e
           /\ \A i \in 1..Len(s) : Append(s, e)[i] = s[i]
           /\ s \o <<e>> = Append(s, e) /\ Front(Append(s, e)) = s /\ Last(Append(s, e)) = e
<1>1. /\ Append(s, e) \in Seq(S) /\ Len(s) \in Nat
      /\ Len(Append(s, e)) = Len(s) + 1 /\ Append(s, e)[Len(s) + 1] = e
      /\ \A i \in 1..Len(s) : Append(s, e)[i] = s[i]
  BY AppendProperties, LenProperties
<1>2. s \o <<e>> = Append(s, e)
  <2>1. <<e>> \in Seq(S) /\ Len(<<e>>) = 1 /\ <<e>>[1] = e
    OBVIOUS
  <2>2. s \o <<e>> \in Seq(S) /\ Len(s \o <<e>>) = Len(s) + 1
        /\ \A i \in 1..Len(s) + 1 : (s \o <<e>>)[i] = IF i <= Len(s) THEN s[i] ELSE <<e>>[i - Len(s)]
    BY <2>1, ConcatProperties
  <2>3. \A i \in 1..Len(s) + 1 : (s \o <<e>>)[i] = Append(s, e)[i]
    BY <1>1, <2>1, <2>2
  <2> QED BY <1>1, <2>2, <2>3, SeqEqual
<1>3. Last(Append(s, e)) = e
  BY <1>1 DEF Last
<1>4. Front(Append(s, e)) = s
  <2> DEFINE t == Append(s, e)
  <2>1. t \in Seq(S) /\ Len(t) = Len(s) + 1 /\ Len(t) - 1 = Len(s) /\ \A i \in 1..Len(s) : t[i] = s[i]
    BY <1>1
  <2> HIDE DEF t
  <2>2. \A i \in 1..Len(s) : t[i] \in S
    BY <2>1
  <2>3. /\ SubSeq(t, 1, Len(s)) \in Seq(S)
        /\ Len(SubSeq(t, 1, Len(s))) = IF 1 <= Len(s) THEN Len(s) - 1 + 1 ELSE 0
        /\ \A i \in 1..Len(s) - 1 + 1 : SubSeq(t, 1, Len(s))[i] = t[1 + i - 1]
    BY <1>1, <2>2, SubSeqProperties
  <2>4. Len(SubSeq(t, 1, Len(s))) = Len(s)
    BY <1>1, <2>3
  <2>5. \A i \in 1..Len(s) : SubSeq(t, 1, Len(s))[i] = s[i]
    BY <1>1, <2>1, <2>3
  <2>6. SubSeq(t, 1, Len(s)) = s
    BY <2>3, <2>4, <2>5, SeqEqual
  <2> QED BY <2>1, <2>6 DEF Front, t
<1> QED BY <1>1, <1>2, <1>3, <1>4

LEMMA LookStep ==
    ASSUME NEW disk, NEW p \in Paths, NEW n \in AllNames
    PROVE  LookupOn(disk, Append(p, n)) = Entry(disk, LookupOn(disk, p), n)
<1> DEFINE q == Append(p, n)  N == Len(p)
<1>1. q \in Paths /\ N \in Nat /\ Len(q) = N + 1 /\ q[N + 1] = n /\ \A i \in 1..N : q[i] = p[i]
  <2>1. p \in Seq(AllNames)
    BY DEF Paths
  <2>2. q \in Seq(AllNames) /\ Len(q) = Len(p) + 1 /\ q[Len(p) + 1] = n /\ \A i \in 1..Len(p) : q[i] = p[i]
    BY <2>1, Appended
  <2> QED BY <2>1, <2>2, LenProperties DEF Paths
<1>2. PICK g : IsWalk(g, disk, p) /\ LookupOn(disk, p) = g[N]
  BY LookWalk
<1>3. PICK h : IsWalk(h, disk, q) /\ LookupOn(disk, q) = h[N + 1]
  BY <1>1, LookWalk
<1> HIDE DEF q, N
<1>4. \A k \in 0..N : g[k] = IF k = 0 THEN Root ELSE Entry(disk, g[k - 1], p[k])
  BY <1>2 DEF IsWalk, N
<1>5. \A k \in 0..N + 1 : h[k] = IF k = 0 THEN Root ELSE Entry(disk, h[k - 1], q[k])
  BY <1>1, <1>3 DEF IsWalk
<1> DEFINE T == {k \in Nat : k <= N => g[k] = h[k]}
<1>6. 0 \in T
  BY <1>1, <1>4, <1>5
<1>7. \A k \in Nat : k \in T => k + 1 \in T
  <2> SUFFICES ASSUME NEW k \in Nat, k + 1 <= N, g[k] = h[k] PROVE g[k + 1] = h[k + 1]
    BY <1>1
  <2>1. k + 1 \in 1..N /\ k + 1 \in 0..N /\ k + 1 \in 0..N + 1 /\ k + 1 # 0 /\ (k + 1) - 1 = k
    BY <1>1
  <2>2. q[k + 1] = p[k + 1]
    BY <1>1, <2>1
  <2>3. g[k + 1] = Entry(disk, g[k], p[k + 1])
    BY <1>4, <2>1
  <2>4. h[k + 1] = Entry(disk, h[k], q[k + 1])
    BY <1>5, <2>1
  <2> QED BY <2>2, <2>3, <2>4
<1> HIDE DEF T
<1>8. Nat \subseteq T
  BY <1>6, <1>7, SetInduction
<1>9. g[N] = h[N]
  BY <1>1, <1>8 DEF T
<1>10. h[N + 1] = Entry(disk, h[N], n)
  <2>1. N + 1 \in 0..N + 1 /\ N + 1 # 0 /\ (N + 1) - 1 = N
    BY <1>1
  <2> QED BY <1>1, <1>5, <2>1
<1> QED BY <1>2, <1>3, <1>9, <1>10 DEF q

\* Where the first k names of a path lead.
At(disk, p, k) == LookupOn(disk, SubSeq(p, 1, k))

LEMMA PartsOf ==
    ASSUME NEW disk, NEW p \in Paths
    PROVE  /\ Len(p) \in Nat /\ At(disk, p, 0) = Root /\ At(disk, p, Len(p)) = LookupOn(disk, p)
           /\ \A k \in 0..Len(p) - 1 : /\ p[k + 1] \in AllNames
                                       /\ At(disk, p, k + 1) = Entry(disk, At(disk, p, k), p[k + 1])
           /\ \A k \in 0..Len(p) : SubSeq(p, 1, k) \in Paths
<1> DEFINE N == Len(p)
<1>1. N \in Nat /\ p \in Seq(AllNames) /\ \A i \in 1..N : p[i] \in AllNames
  BY LenProperties, ElementOfSeq DEF Paths
<1>2. ASSUME NEW k \in 0..N
      PROVE  /\ SubSeq(p, 1, k) \in Seq(AllNames) /\ Len(SubSeq(p, 1, k)) = k
             /\ \A i \in 1..k : SubSeq(p, 1, k)[i] = p[i]
  <2>1. \A i \in 1..k : p[i] \in AllNames
    BY <1>1
  <2>2. /\ SubSeq(p, 1, k) \in Seq(AllNames)
        /\ Len(SubSeq(p, 1, k)) = IF 1 <= k THEN k - 1 + 1 ELSE 0
        /\ \A i \in 1..k - 1 + 1 : SubSeq(p, 1, k)[i] = p[1 + i - 1]
    BY <1>1, <2>1, SubSeqProperties
  <2>3. Len(SubSeq(p, 1, k)) = k
    BY <1>1, <2>2
  <2>4. \A i \in 1..k : SubSeq(p, 1, k)[i] = p[i]
    BY <1>1, <2>2
  <2> QED BY <2>2, <2>3, <2>4
<1> HIDE DEF N
<1>3. SubSeq(p, 1, N) = p
  <2>1. N \in 0..N
    BY <1>1
  <2>2. SubSeq(p, 1, N) \in Seq(AllNames) /\ Len(SubSeq(p, 1, N)) = N /\ \A i \in 1..N : SubSeq(p, 1, N)[i] = p[i]
    BY <1>2, <2>1
  <2> QED BY <1>1, <2>2, SeqEqual DEF N
<1>4. SubSeq(p, 1, 0) = <<>>
  <2>1. 0 \in 0..N
    BY <1>1
  <2>2. SubSeq(p, 1, 0) \in Seq(AllNames) /\ Len(SubSeq(p, 1, 0)) = 0
    BY <1>2, <2>1
  <2> QED BY <2>2, EmptySeq
<1>5. ASSUME NEW k \in 0..N - 1
      PROVE  p[k + 1] \in AllNames /\ SubSeq(p, 1, k + 1) = Append(SubSeq(p, 1, k), p[k + 1])
  <2> DEFINE s == SubSeq(p, 1, k)  e == p[k + 1]  t == SubSeq(p, 1, k + 1)
  <2>1. k \in 0..N /\ k + 1 \in 0..N /\ k + 1 \in 1..N
    BY <1>1
  <2>2. e \in AllNames /\ s \in Seq(AllNames) /\ Len(s) = k /\ \A i \in 1..k : s[i] = p[i]
    BY <1>1, <1>2, <2>1
  <2>3. t \in Seq(AllNames) /\ Len(t) = k + 1 /\ \A i \in 1..k + 1 : t[i] = p[i]
    BY <1>2, <2>1
  <2> HIDE DEF s, t
  <2>4. Append(s, e) \in Seq(AllNames) /\ Len(Append(s, e)) = k + 1 /\ Append(s, e)[k + 1] = e
        /\ \A i \in 1..k : Append(s, e)[i] = s[i]
    BY <2>2, Appended
  <2>5. \A i \in 1..Len(t) : t[i] = Append(s, e)[i]
    <3>1. \A i \in 1..k + 1 : i \in 1..k \/ i = k + 1
      BY <2>1
    <3> QED BY <2>2, <2>3, <2>4, <3>1
  <2>6. t = Append(s, e)
    BY <2>3, <2>4, <2>5, SeqEqual
  <2> QED BY <2>2, <2>6 DEF s, t
<1>6. ASSUME NEW k \in 0..N - 1 PROVE At(disk, p, k + 1) = Entry(disk, At(disk, p, k), p[k + 1])
  <2>1. SubSeq(p, 1, k) \in Paths
    BY <1>1, <1>2 DEF Paths
  <2> QED BY <1>5, <2>1, LookStep DEF At
<1>7. \A k \in 0..N : SubSeq(p, 1, k) \in Paths
  BY <1>2 DEF Paths
<1>8. At(disk, p, 0) = Root /\ At(disk, p, N) = LookupOn(disk, p)
  BY <1>3, <1>4, LookEmpty DEF At
<1> QED BY <1>1, <1>5, <1>6, <1>7, <1>8 DEF N

\* A path leads to the same place if each step on the way does.
LEMMA SameWay ==
    ASSUME NEW p \in Paths, NEW old, NEW new,
           \A k \in 0..Len(p) - 1 : Entry(new, At(old, p, k), p[k + 1]) = At(old, p, k + 1)
    PROVE  /\ \A k \in 0..Len(p) : At(new, p, k) = At(old, p, k)
           /\ LookupOn(new, p) = LookupOn(old, p)
<1> DEFINE T == {k \in Nat : k <= Len(p) => At(new, p, k) = At(old, p, k)}
<1>1. Len(p) \in Nat
  BY PartsOf
<1>2. 0 \in T
  BY PartsOf
<1>3. \A k \in Nat : k \in T => k + 1 \in T
  <2> SUFFICES ASSUME NEW k \in Nat, k + 1 <= Len(p), At(new, p, k) = At(old, p, k)
               PROVE  At(new, p, k + 1) = At(old, p, k + 1)
    BY <1>1
  <2>1. k \in 0..Len(p) - 1
    BY <1>1
  <2>2. At(new, p, k + 1) = Entry(new, At(new, p, k), p[k + 1])
    BY <2>1, PartsOf
  <2> QED BY <2>1, <2>2
<1> HIDE DEF T
<1>4. Nat \subseteq T
  BY <1>2, <1>3, SetInduction
<1>5. \A k \in 0..Len(p) : At(new, p, k) = At(old, p, k)
  BY <1>1, <1>4 DEF T
<1>6. At(new, p, Len(p)) = LookupOn(new, p) /\ At(old, p, Len(p)) = LookupOn(old, p)
  BY PartsOf
<1>7. Len(p) \in 0..Len(p)
  BY <1>1
<1> QED BY <1>5, <1>6, <1>7

\* If a path leads somewhere, so does each part of it.
LEMMA NoGap ==
    ASSUME NEW disk, NEW p \in Paths, LookupOn(disk, p) # 0
    PROVE  \A k \in 0..Len(p) : At(disk, p, k) # 0
<1> DEFINE N == Len(p)
           T == {m \in Nat : m <= N => At(disk, p, N - m) # 0}
<1>1. N \in Nat /\ At(disk, p, N) # 0
  BY PartsOf
<1>2. 0 \in T
  <2>1. N - 0 = N
    BY <1>1
  <2> QED BY <1>1, <2>1
<1>3. \A m \in Nat : m \in T => m + 1 \in T
  <2> SUFFICES ASSUME NEW m \in Nat, m + 1 <= N, At(disk, p, N - m) # 0
               PROVE  At(disk, p, N - (m + 1)) # 0
    BY <1>1
  <2> DEFINE k == N - (m + 1)
  <2>1. k \in 0..N - 1 /\ k + 1 = N - m
    BY <1>1
  <2>2. At(disk, p, k + 1) = Entry(disk, At(disk, p, k), p[k + 1])
    BY <2>1, PartsOf
  <2>3. Entry(disk, At(disk, p, k), p[k + 1]) # 0
    BY <2>1, <2>2
  <2> QED BY <2>3 DEF Entry
<1> HIDE DEF T
<1>4. Nat \subseteq T
  BY <1>2, <1>3, SetInduction
<1>5. \A k \in 0..N : At(disk, p, k) # 0
  <2> SUFFICES ASSUME NEW k \in 0..N PROVE At(disk, p, k) # 0
    OBVIOUS
  <2>1. N - k \in Nat /\ N - k <= N /\ N - (N - k) = k
    BY <1>1
  <2>2. N - k \in T
    BY <1>4, <2>1
  <2>3. N - k <= N => At(disk, p, N - (N - k)) # 0
    BY <2>2 DEF T
  <2> QED BY <2>1, <2>3
<1> QED BY <1>5

\* A path leads to something that is on the disk.
LEMMA LookType ==
    ASSUME NEW disk, IsTree(disk), 0 \notin DOMAIN disk, NEW p \in Paths
    PROVE  \A k \in 0..Len(p) : At(disk, p, k) # 0 =>
               At(disk, p, k) \in DOMAIN disk /\ disk[At(disk, p, k)].kind # "free"
<1> DEFINE Good(x) == x # 0 => x \in DOMAIN disk /\ disk[x].kind # "free"
           T == {k \in Nat : k <= Len(p) => Good(At(disk, p, k))}
<1>1. Len(p) \in Nat
  BY PartsOf
<1>2. Good(Root)
  BY DEF IsTree
<1>3. ASSUME NEW x, Good(x), NEW n PROVE Good(Entry(disk, x, n))
  <2>1. x # 0 /\ n # "." /\ n \in DOMAIN disk[x].names => IsEntry(disk, x, n)
    BY <1>3 DEF IsTree
  <2> QED BY <1>3, <2>1 DEF Entry, IsEntry
<1> HIDE DEF Good
<1>4. 0 \in T
  BY <1>2, PartsOf
<1>5. \A k \in Nat : k \in T => k + 1 \in T
  <2> SUFFICES ASSUME NEW k \in Nat, k + 1 <= Len(p), Good(At(disk, p, k))
               PROVE  Good(At(disk, p, k + 1))
    BY <1>1
  <2>1. k \in 0..Len(p) - 1
    BY <1>1
  <2> QED BY <1>3, <2>1, PartsOf
<1> HIDE DEF T
<1>6. Nat \subseteq T
  BY <1>4, <1>5, SetInduction
<1> QED BY <1>1, <1>6 DEF T, Good

-----------------------------------------------------------------------------
(* What can happen to a disk                                                *)

\* Directory d gets the entry n, a file or directory i that has none.
Grows(old, new, d, n, i) ==
    /\ DOMAIN new = DOMAIN old /\ d \in DOMAIN old /\ i \in DOMAIN old
    /\ old[d].kind = "dir" /\ old[i].kind = "free"
    /\ n \in AllNames \ {NoName, "."} /\ n \notin DOMAIN old[d].names
    /\ IsNode(new[i]) /\ new[i].kind \in {"file", "dir"} /\ DOMAIN new[i].names = {}
    /\ IsNode(new[d]) /\ new[d].kind = "dir" /\ new[d].data = old[d].data
    /\ DOMAIN new[d].names = DOMAIN old[d].names \cup {n} /\ new[d].names[n] = i
    /\ \A m \in DOMAIN old[d].names : new[d].names[m] = old[d].names[m]
    /\ \A x \in DOMAIN old \ {d, i} : new[x] = old[x]

\* File i changes.
Rewrites(old, new, i) ==
    /\ DOMAIN new = DOMAIN old /\ i \in DOMAIN old /\ old[i].kind = "file"
    /\ IsNode(new[i]) /\ new[i].kind = "file"
    /\ new[i].names = old[i].names
    /\ \A x \in DOMAIN old \ {i} : new[x] = old[x]

\* Directory d loses the entry n.
Shrinks(old, new, d, n) ==
    /\ DOMAIN new = DOMAIN old /\ d \in DOMAIN old /\ old[d].kind = "dir"
    /\ IsNode(new[d]) /\ new[d].kind = "dir" /\ new[d].data = old[d].data
    /\ DOMAIN new[d].names = DOMAIN old[d].names \ {n}
    /\ \A m \in DOMAIN new[d].names : new[d].names[m] = old[d].names[m]
    /\ \A x \in DOMAIN old \ {d} : new[x] = old[x]

LEMMA GrowsTree ==
    ASSUME NEW old, NEW new, NEW d, NEW n, NEW i, IsTree(old), Grows(old, new, d, n, i)
    PROVE  IsTree(new)
<1>0. /\ d \in DOMAIN old /\ i \in DOMAIN old /\ DOMAIN new = DOMAIN old /\ i # d
      /\ n \in AllNames \ {NoName, "."} /\ n \notin DOMAIN old[d].names
      /\ new[d].names[n] = i /\ new[i].kind # "free" /\ new[d].kind = old[d].kind
  BY DEF Grows
<1>1. \A x \in DOMAIN old : DOMAIN new[x].names = DOMAIN old[x].names \cup (IF x = d THEN {n} ELSE {})
  <2>1. DOMAIN old[i].names = {}
    BY DEF Grows, IsTree, IsNode
  <2> QED BY <2>1 DEF Grows
<1>2. \A x \in DOMAIN old : \A m \in DOMAIN old[x].names : new[x].names[m] = old[x].names[m]
  <2>1. DOMAIN old[i].names = {}
    BY DEF Grows, IsTree, IsNode
  <2> QED BY <2>1 DEF Grows
<1>3. \A x \in DOMAIN old : new[x].kind = IF x = i THEN new[i].kind ELSE old[x].kind
  BY DEF Grows
<1>4. \A x \in DOMAIN new : IsNode(new[x])
  BY DEF Grows, IsTree
<1>5. i # Root /\ \A x \in DOMAIN old : \A m \in DOMAIN old[x].names : old[x].names[m] # i
  <2>1. \A x \in DOMAIN old : \A m \in DOMAIN old[x].names : IsEntry(old, x, m)
    BY DEF IsTree
  <2>2. old[i].kind = "free" /\ old[Root].kind = "dir"
    BY DEF Grows, IsTree
  <2> QED BY <2>1, <2>2 DEF IsEntry
<1>6. ASSUME NEW x \in DOMAIN new, NEW m \in DOMAIN new[x].names
      PROVE  IsEntry(new, x, m)
  <2>1. CASE m \in DOMAIN old[x].names
    <3>1. IsEntry(old, x, m) /\ new[x].names[m] = old[x].names[m]
      BY <1>0, <1>2, <1>6, <2>1 DEF IsTree
    <3> QED BY <1>0, <1>3, <3>1 DEF IsEntry
  <2>2. CASE x = d /\ m = n
    BY <1>0, <1>5, <2>2 DEF IsEntry
  <2> QED BY <1>0, <1>1, <1>6, <2>1, <2>2
<1>7. ASSUME NEW x \in DOMAIN new, NEW y \in DOMAIN new, NEW m \in DOMAIN new[x].names, NEW k \in DOMAIN new[y].names,
             new[x].names[m] = new[y].names[k]
      PROVE  x = y /\ m = k
  <2>1. m \in DOMAIN old[x].names \/ (x = d /\ m = n /\ new[x].names[m] = i)
    BY <1>0, <1>1, <1>7
  <2>2. k \in DOMAIN old[y].names \/ (y = d /\ k = n /\ new[y].names[k] = i)
    BY <1>0, <1>1, <1>7
  <2>3. CASE m \in DOMAIN old[x].names /\ k \in DOMAIN old[y].names
    <3>1. old[x].names[m] = old[y].names[k]
      BY <1>0, <1>2, <1>7, <2>3
    <3>2. NoLinks(old)
      BY DEF IsTree
    <3> QED BY <1>0, <2>3, <3>1, <3>2 DEF NoLinks
  <2>4. CASE m \notin DOMAIN old[x].names \/ k \notin DOMAIN old[y].names
    <3>1. m \in DOMAIN old[x].names => new[x].names[m] # i
      BY <1>0, <1>2, <1>5
    <3>2. k \in DOMAIN old[y].names => new[y].names[k] # i
      BY <1>0, <1>2, <1>5
    <3> QED BY <1>7, <2>1, <2>2, <2>4, <3>1, <3>2
  <2> QED BY <2>3, <2>4
<1>8. Root \in DOMAIN new /\ new[Root].kind = "dir"
  BY <1>0, <1>3, <1>5 DEF IsTree
<1> QED BY <1>4, <1>6, <1>7, <1>8 DEF IsTree, NoLinks

LEMMA RewritesTree ==
    ASSUME NEW old, NEW new, NEW i, IsTree(old), Rewrites(old, new, i)
    PROVE  IsTree(new)
<1>1. \A x \in DOMAIN new : new[x].names = old[x].names /\ new[x].kind = old[x].kind
  BY DEF Rewrites
<1>2. \A x \in DOMAIN new : IsNode(new[x])
  BY DEF Rewrites, IsTree
<1>3. DOMAIN new = DOMAIN old
  BY DEF Rewrites
<1>4. \A x \in DOMAIN new : \A n \in DOMAIN new[x].names : IsEntry(new, x, n)
  <2>1. \A x \in DOMAIN old : \A n \in DOMAIN old[x].names : IsEntry(old, x, n)
    BY DEF IsTree
  <2> QED BY <1>1, <1>3, <2>1 DEF IsEntry
<1>5. NoLinks(new)
  BY <1>1, <1>3 DEF IsTree, NoLinks
<1> QED BY <1>1, <1>2, <1>3, <1>4, <1>5 DEF IsTree

LEMMA ShrinksTree ==
    ASSUME NEW old, NEW new, NEW d, NEW n, IsTree(old), Shrinks(old, new, d, n)
    PROVE  IsTree(new)
<1>1. \A x \in DOMAIN new : /\ DOMAIN new[x].names \subseteq DOMAIN old[x].names /\ new[x].kind = old[x].kind
                            /\ \A m \in DOMAIN new[x].names : new[x].names[m] = old[x].names[m]
  BY DEF Shrinks
<1>2. \A x \in DOMAIN new : IsNode(new[x])
  BY DEF Shrinks, IsTree
<1>3. DOMAIN new = DOMAIN old
  BY DEF Shrinks
<1>4. \A x \in DOMAIN new : \A m \in DOMAIN new[x].names : IsEntry(new, x, m)
  <2>1. \A x \in DOMAIN old : \A m \in DOMAIN old[x].names : IsEntry(old, x, m)
    BY DEF IsTree
  <2> QED BY <1>1, <1>3, <2>1 DEF IsEntry
<1>5. NoLinks(new)
  <2> SUFFICES ASSUME NEW x \in DOMAIN new, NEW y \in DOMAIN new,
                      NEW m \in DOMAIN new[x].names, NEW k \in DOMAIN new[y].names,
                      new[x].names[m] = new[y].names[k]
               PROVE  x = y /\ m = k
    BY DEF NoLinks
  <2>1. m \in DOMAIN old[x].names /\ k \in DOMAIN old[y].names /\ old[x].names[m] = old[y].names[k]
    BY <1>1
  <2> QED BY <1>3, <2>1 DEF IsTree, NoLinks
<1>6. Root \in DOMAIN new /\ new[Root].kind = "dir"
  BY <1>1, <1>3 DEF IsTree
<1> QED BY <1>2, <1>4, <1>5, <1>6 DEF IsTree

\* What it means for looking up a name.
LEMMA GrowsEntry ==
    ASSUME NEW old, NEW new, NEW d, NEW n, NEW i, IsTree(old), Grows(old, new, d, n, i)
    PROVE  \A x \in DOMAIN old \cup {0}, m \in AllNames :
             Entry(new, x, m) = IF x = d /\ x # 0 /\ m = n THEN i ELSE Entry(old, x, m)
<1>1. \A x \in DOMAIN old : DOMAIN new[x].names = DOMAIN old[x].names \cup (IF x = d THEN {n} ELSE {})
  BY DEF Grows, IsTree, IsNode
<1>2. \A x \in DOMAIN old : \A m \in DOMAIN old[x].names : new[x].names[m] = old[x].names[m]
  BY DEF Grows, IsTree, IsNode
<1>3. new[d].names[n] = i /\ n # "." /\ d \in DOMAIN old
  BY DEF Grows
<1> QED BY <1>1, <1>2, <1>3 DEF Entry

LEMMA RewritesEntry ==
    ASSUME NEW old, NEW new, NEW i, IsTree(old), Rewrites(old, new, i)
    PROVE  \A x \in DOMAIN old \cup {0}, m \in AllNames : Entry(new, x, m) = Entry(old, x, m)
BY DEF Entry, Rewrites

LEMMA ShrinksEntry ==
    ASSUME NEW old, NEW new, NEW d, NEW n, IsTree(old), Shrinks(old, new, d, n), n # "."
    PROVE  \A x \in DOMAIN old \cup {0}, m \in AllNames :
             Entry(new, x, m) = IF x = d /\ x # 0 /\ m = n THEN 0 ELSE Entry(old, x, m)
<1>1. \A x \in DOMAIN old : DOMAIN new[x].names = DOMAIN old[x].names \ (IF x = d THEN {n} ELSE {})
  BY DEF Shrinks
<1>2. \A x \in DOMAIN old : \A m \in DOMAIN new[x].names : new[x].names[m] = old[x].names[m]
  BY DEF Shrinks
<1> QED BY <1>1, <1>2 DEF Entry, Shrinks

\* What an entry can be.
LEMMA EntryType ==
    ASSUME NEW disk, IsTree(disk), 0 \notin DOMAIN disk, NEW x \in DOMAIN disk, NEW n, n # ".", Entry(disk, x, n) # 0
    PROVE  /\ n \in DOMAIN disk[x].names /\ disk[x].kind = "dir" /\ n \in AllNames \ {NoName, "."}
           /\ Entry(disk, x, n) \in DOMAIN disk \ {Root, x} /\ disk[Entry(disk, x, n)].kind # "free"
BY DEF Entry, IsTree, IsNode, IsEntry

LEMMA OneEntry ==
    ASSUME NEW disk, IsTree(disk), 0 \notin DOMAIN disk, NEW x \in DOMAIN disk, NEW y \in DOMAIN disk,
           NEW m, NEW n, m # ".", n # ".", Entry(disk, x, m) # 0, Entry(disk, x, m) = Entry(disk, y, n)
    PROVE  x = y /\ m = n
BY DEF Entry, IsTree, NoLinks

\* The call that makes something.
LEMMA AddedGrows ==
    ASSUME NEW p \in Paths, NEW n \in AllNames \ {NoName, "."}, NEW new,
           DOMAIN node = Inos, IsTree(node), Room, IsDir(p), Lookup(Append(p, n)) = 0,
           IsNode(new), new.kind \in {"file", "dir"}, DOMAIN new.names = {}
    PROVE  Grows(node, Added(Append(p, n), new), Lookup(p), n, NewIno) /\ Added(Append(p, n), new)[NewIno] = new
<1> DEFINE d == Lookup(p)  i == NewIno  disk == Added(Append(p, n), new)
<1>1. Front(Append(p, n)) = p /\ Last(Append(p, n)) = n
  <2>1. p \in Seq(AllNames) /\ n \in AllNames
    BY DEF Paths
  <2> QED BY <2>1, Appended
<1>2. i \in Inos /\ node[i].kind = "free"
  <2> DEFINE S == {x \in Inos : node[x].kind = "free"}
  <2>1. S \subseteq Nat /\ S # {}
    <3>1. S \subseteq 1..MaxInos /\ MaxInos \in Nat
      BY InoAssumption DEF Inos
    <3>2. S # {}
      BY DEF Room
    <3> QED BY <3>1, <3>2
  <2> HIDE DEF S
  <2>2. PICK x \in S : \A y \in S : ~(y < x)
    BY <2>1, LeastNat
  <2>3. \A y \in S : x <= y
    <3> QED BY <2>1, <2>2
  <2>4. Min(S) \in S
    BY <2>3 DEF Min
  <2> QED BY <2>4 DEF S, NewIno
<1>3. d \in Inos /\ node[d].kind = "dir"
  <2>1. 0 \notin DOMAIN node /\ d # 0 /\ node[d].kind = "dir"
    <3>1. 0 \notin Inos
      BY InoAssumption DEF Inos
    <3> QED BY <3>1 DEF IsDir, Exists
  <2>2. At(node, p, Len(p)) = d /\ Len(p) \in 0..Len(p)
    BY PartsOf DEF Lookup
  <2> QED BY <2>1, <2>2, LookType DEF IsDir, Exists
<1>4. d # i /\ d # 0
  BY <1>2, <1>3 DEF Inos
<1>5. n \notin DOMAIN node[d].names
  <2>1. Entry(node, d, n) = 0
    BY LookStep DEF Lookup
  <2>2. \A m \in DOMAIN node[d].names : node[d].names[m] # 0
    <3>1. \A m \in DOMAIN node[d].names : IsEntry(node, d, m)
      BY <1>3 DEF IsTree
    <3> QED BY <3>1 DEF Inos, IsEntry
  <2> QED BY <1>4, <2>1, <2>2 DEF Entry
<1>6. IsNode(node[d])
  BY <1>3 DEF IsTree
<1> DEFINE names == [m \in DOMAIN node[d].names \cup {n} |-> IF m = n THEN i ELSE node[d].names[m]]
<1>7. disk = [node EXCEPT ![i] = new, ![d].names = names]
  BY <1>1 DEF Added
<1> HIDE DEF disk, i, d
<1>8. /\ DOMAIN disk = Inos /\ disk[i] = new /\ disk[d] = [node[d] EXCEPT !.names = names]
      /\ \A x \in Inos \ {d, i} : disk[x] = node[x]
  BY <1>2, <1>3, <1>4, <1>7
<1>9. /\ disk[d].kind = "dir" /\ disk[d].data = node[d].data /\ disk[d].names = names
      /\ IsNode(disk[d])
  BY <1>3, <1>6, <1>8 DEF IsNode
<1>10. /\ DOMAIN disk[d].names = DOMAIN node[d].names \cup {n} /\ disk[d].names[n] = i
       /\ \A m \in DOMAIN node[d].names : disk[d].names[m] = node[d].names[m]
  BY <1>5, <1>9
<1> QED BY <1>2, <1>3, <1>5, <1>8, <1>9, <1>10 DEF Grows, disk, i, d

-----------------------------------------------------------------------------
(* hw2, while somebody else is in the source directory                      *)

\* The source and the destination, and what they have under a name.
Source == LookupOn(start.tree, start.src)
Dest == LookupOn(start.tree, start.dst)
Src(n) == Entry(node, Source, n)
Dst(n) == Entry(node, Dest, n)

\* What was there at the beginning.
OldSrc(n) == Entry(start.tree, Source, n)
OldDst(n) == Entry(start.tree, Dest, n)
OldBelow(m, n) == Entry(start.tree, OldDst(m), n)

Alone(n) == touched[n] = 0

\* The tutor's program does not notice that a write fails.
Noticed == faults = 0 \/ ~Tutor

\* What has been under name n in the source.
Hads(n) == {h[2] : h \in {g \in had : g[1] = <<n>>}}

\* All of these are blocks that file j has had, each at its place, under name n.
MadeOf(hist, n, j, s) ==
    \A k \in DOMAIN s : \E h \in hist :
        h[1] = <<n>> /\ h[2] = j /\ k \in DOMAIN h[3] /\ s[k] = h[3][k]

Begins(s, t) == Len(s) <= Len(t) /\ \A k \in 1..Len(s) : s[k] = t[k]

TreeInv ==
    /\ start \in Starts /\ Hw2 /\ DOMAIN node = Inos /\ IsTree(node)
    /\ \A i \in DOMAIN start.tree : start.tree[i].kind # "free" => node[i].kind = start.tree[i].kind

\* Both paths lead where they led at the beginning.
WayInv ==
    /\ \A k \in 0..Len(start.src) : At(node, start.src, k) = At(start.tree, start.src, k)
    /\ \A k \in 0..Len(start.dst) : At(node, start.dst, k) = At(start.tree, start.dst, k)

\* What nobody has touched is as it was.
SrcInv ==
    \A n \in Names : Alone(n) => /\ Src(n) = OldSrc(n)
                                 /\ Src(n) # 0 /\ node[Src(n)].kind = "file" => node[Src(n)] = start.tree[Src(n)]

\* Nothing that has been in the source is in the destination.
HadInv ==
    \A n \in Names :
        /\ Src(n) \in Hads(n) \cup {0}
        /\ \A j \in Hads(n) : /\ j \in Inos /\ node[j].kind # "free"
                              /\ \A m \in AllNames \ {"."} : Dst(m) # j

\* The history knows each of these files under one name, and with the blocks that it has now.
HistInv ==
    /\ touched \in [Names -> Nat]
    /\ \A m, n \in Names : \A j \in Hads(m) : j \in Hads(n) => m = n
    /\ \A n \in Names : \A j \in Hads(n) : << <<n>>, j, node[j].data >> \in had

DestInv ==
    \A n \in Names :
        /\ OldDst(n) # 0 => Dst(n) = OldDst(n)
        /\ Dst(n) # 0 =>
              \/ Dst(n) = OldDst(n) /\ node[Dst(n)] = start.tree[Dst(n)]
              \/ /\ node[Dst(n)].kind = "file"
                 /\ Noticed => \E j \in Hads(n) : MadeOf(had, n, j, node[Dst(n)].data)

DeepInv ==
    \A m, n \in Names : OldBelow(m, n) # 0 =>
        /\ node[OldDst(m)] = start.tree[OldDst(m)]
        /\ OldBelow(m, n) = Dest \/ node[OldBelow(m, n)] = start.tree[OldBelow(m, n)]

DiskInv == TreeInv /\ WayInv /\ SrcInv /\ HadInv /\ HistInv /\ DestInv /\ DeepInv

FrameInv ==
    /\ frames = <<Top>>
    /\ Top = [src |-> start.src, dst |-> start.dst, pass |-> Top.pass, left |-> Top.left,
              entry |-> Top.entry, info |-> Top.info]
    /\ Top.pass \in {1, 2} /\ Top.left \subseteq AllNames /\ Top.entry \in AllNames
    /\ Top.info \in [dir : BOOLEAN, readable : BOOLEAN, set : BOOLEAN]
    /\ Top.left = Unread \/ NoName \notin Top.left
    /\ pc \in {"enter", "readdir", "stat", "end", "leave", "open", "creat", "copy"}
    /\ status \in {"running", "done", "failed"} /\ faults \in Nat
    /\ pc \notin {"enter", "leave"} => Source # 0 /\ node[Source].kind = "dir"
    /\ pc = "enter" => Top.pass = 1 /\ Top.left = Unread
    /\ pc = "leave" => (Top.pass = 2 \/ Source = 0 \/ node[Source].kind # "dir")
    /\ pc \in {"stat", "open", "creat", "copy"} => Top.entry # NoName
    /\ pc \in {"open", "creat", "copy"} => Top.pass = 2 /\ Top.entry # "."
    /\ pc = "end" \/ (pc = "leave" /\ Top.pass = 2) => Top.left = {}
    /\ status = "done" => pc = "leave"

\* There is a directory in the source that nobody has touched.
Sub(n) == Alone(n) /\ Src(n) # 0 /\ node[Src(n)].kind = "dir"

\* The first pass does not miss it.
SubInv ==
    \A n \in Names : Sub(n) =>
        /\ Top.pass = 1
        /\ pc \in {"readdir", "stat", "end"} => Top.left = Unread \/ n \in Top.left \/ (pc = "stat" /\ Top.entry = n)

\* The first pass leaves the destination as it was.
PassOneInv ==
    Top.pass = 1 => \A m \in Names :
        /\ Dst(m) = OldDst(m) /\ (OldDst(m) # 0 => node[OldDst(m)] = start.tree[OldDst(m)])
        /\ \A n \in Names : OldBelow(m, n) # 0 => node[OldBelow(m, n)] = start.tree[OldBelow(m, n)]

\* What has been copied: blocks that the file has had, and, if nobody has touched it,
\* those that it begins with.
Taken(n) ==
    /\ MadeOf(had, n, input, node[output].data)
    /\ Alone(n) => Begins(node[output].data, node[input].data)

\* The file that is being copied, and how far.
CopyInv ==
    /\ pc \in {"creat", "copy"} =>
          /\ input \in Inos /\ node[input].kind # "free" /\ \A m \in AllNames \ {"."} : Dst(m) # input
          /\ \A n \in Names : Top.entry = n => input \in Hads(n) /\ (Alone(n) => input = Src(n))
          /\ pos \in Nat
    /\ pc = "creat" => pos = 0
    /\ pc = "copy" =>
          /\ (\A n \in AllNames : Top.entry = n => output = Dst(n))
          /\ output # 0 /\ node[output].kind = "file"
          /\ Noticed => pos = Len(node[output].data) /\ \A n \in Names : Top.entry = n => Taken(n)

\* A file that the program is to copy.
Wanted(n) ==
    /\ Alone(n) /\ OldSrc(n) # 0 /\ start.tree[OldSrc(n)].kind = "file"
    /\ start.tree[OldSrc(n)].mode # {}
    /\ Tutor => faults = 0 /\ "owner" \in start.tree[OldSrc(n)].mode

Copied(n) == Dst(n) # 0 /\ node[Dst(n)].data = node[Src(n)].data

\* The second pass does not miss it.
DoneInv ==
    Top.pass = 2 => \A n \in Names : Wanted(n) =>
        \/ Top.left = Unread \/ n \in Top.left
        \/ Top.entry = n /\ pc \in {"stat", "open", "creat", "copy"}
        \/ Copied(n)

HwInv == DiskInv /\ FrameInv /\ SubInv /\ PassOneInv /\ CopyInv /\ DoneInv

LEMMA AppendedTwo ==
    ASSUME NEW S, NEW p \in Seq(S), NEW m \in S, NEW n \in S
    PROVE  p \o <<m, n>> = Append(Append(p, m), n)
<1> DEFINE s == <<m, n>>  a == Append(p, m)  b == Append(a, n)
<1>1. p \in Seq(S) /\ Len(p) \in Nat
  BY LenProperties
<1>2. s \in Seq(S) /\ Len(s) = 2 /\ s[1] = m /\ s[2] = n
  OBVIOUS
<1>3. a \in Seq(S) /\ Len(a) = Len(p) + 1 /\ a[Len(p) + 1] = m /\ \A i \in 1..Len(p) : a[i] = p[i]
  BY <1>1, Appended
<1> HIDE DEF a, s
<1>4. b \in Seq(S) /\ Len(b) = Len(a) + 1 /\ b[Len(a) + 1] = n /\ \A i \in 1..Len(a) : b[i] = a[i]
  BY <1>3, Appended
<1> HIDE DEF b
<1>5. p \o s \in Seq(S) /\ Len(p \o s) = Len(p) + 2
      /\ \A i \in 1..Len(p) + 2 : (p \o s)[i] = IF i <= Len(p) THEN p[i] ELSE s[i - Len(p)]
  <2>1. /\ p \o s \in Seq(S) /\ Len(p \o s) = Len(p) + Len(s)
        /\ \A i \in 1..Len(p) + Len(s) : (p \o s)[i] = IF i <= Len(p) THEN p[i] ELSE s[i - Len(p)]
    <3>1. p \in Seq(S) /\ s \in Seq(S)
      BY <1>1, <1>2
    <3> QED BY ONLY <3>1, ConcatProperties
  <2>2. Len(s) = 2
    BY <1>2
  <2> QED BY <2>1, <2>2
<1>6. \A i \in 1..Len(p \o s) : (p \o s)[i] = b[i]
  <2> SUFFICES ASSUME NEW i \in 1..Len(p) + 2 PROVE (p \o s)[i] = b[i]
    BY <1>5
  <2>1. i \in 1..Len(p) \/ i = Len(p) + 1 \/ i = Len(p) + 2
    BY <1>1
  <2>2. i = Len(p) + 1 => ~(i <= Len(p)) /\ i - Len(p) = 1
    BY <1>1
  <2>3. i = Len(p) + 2 => ~(i <= Len(p)) /\ i - Len(p) = 2
    BY <1>1
  <2>4. i \in 1..Len(p) => (p \o s)[i] = b[i]
    BY <1>1, <1>3, <1>4, <1>5
  <2>5. i = Len(p) + 1 => (p \o s)[i] = b[i]
    BY <1>1, <1>2, <1>3, <1>4, <1>5, <2>2
  <2>6. i = Len(p) + 2 => (p \o s)[i] = b[i]
    BY <1>1, <1>2, <1>3, <1>4, <1>5, <2>3
  <2> QED BY <2>1, <2>4, <2>5, <2>6
<1>7. p \o s = b
  <2>1. Len(p \o s) = Len(b)
    BY <1>1, <1>3, <1>4, <1>5
  <2> QED BY <1>4, <1>5, <1>6, <2>1, SeqEqual
<1> QED BY <1>3, <1>7 DEF a, b, s

LEMMA ConcatPair ==
    ASSUME NEW p \in Paths, NEW m \in AllNames, NEW n \in AllNames
    PROVE  p \o <<m, n>> = Append(Append(p, m), n) /\ Append(p, m) \in Paths
<1>1. p \in Seq(AllNames)
  BY DEF Paths
<1>2. p \o <<m, n>> = Append(Append(p, m), n)
  BY <1>1, AppendedTwo
<1>3. Append(p, m) \in Seq(AllNames)
  BY <1>1, Appended
<1> QED BY <1>1, <1>2, <1>3 DEF Paths

LEMMA NamesType == Names \subseteq AllNames \ {NoName, "."} /\ 0 \notin Inos
<1>1. 0 \notin Inos
  BY InoAssumption DEF Inos
<1>2. Names \subseteq AllNames /\ NoName \notin Names /\ "." \notin Names
  <2>1. Names \subseteq AllNames
    BY DEF AllNames
  <2>2. NoName \notin Names
    BY DEF Names, NoName
  <2>3. "." \notin Names
    BY DEF Names
  <2> QED BY <2>1, <2>2, <2>3
<1> QED BY <1>1, <1>2

\* What is assumed of the two paths.
LEMMA AtTheStart ==
    ASSUME start \in Starts
    PROVE  /\ start.src \in Paths /\ start.dst \in Paths /\ start.program \in Programs
           /\ DOMAIN start.tree \subseteq Inos /\ IsTree(start.tree)
           /\ Source # 0 => Source \in DOMAIN start.tree /\ start.tree[Source].kind # "free"
           /\ Dest # 0 => Dest \in DOMAIN start.tree /\ start.tree[Dest].kind # "free"
           /\ Source # 0 =>
                 /\ \A k \in 0..Len(start.src) - 1 : At(start.tree, start.src, k) # Source
                 /\ \A k \in 0..Len(start.dst) : At(start.tree, start.dst, k) # Source
                 /\ Dest # Source
                 /\ \A m \in Names : OldDst(m) # Source /\ \A n \in Names : OldBelow(m, n) # Source
<1>1. /\ start.src \in Paths /\ start.dst \in Paths /\ start.program \in Programs
      /\ DOMAIN start.tree \subseteq Inos /\ IsTree(start.tree)
      /\ Source # 0 => Apart(start)
  BY StartsAssumption DEF Paths, Source
<1>2. 0 \notin DOMAIN start.tree
  BY <1>1, NamesType
<1>3. ASSUME NEW p \in Paths, LookupOn(start.tree, p) # 0
      PROVE  LookupOn(start.tree, p) \in DOMAIN start.tree /\ start.tree[LookupOn(start.tree, p)].kind # "free"
  <2>1. Len(p) \in 0..Len(p) /\ At(start.tree, p, Len(p)) = LookupOn(start.tree, p)
    BY PartsOf
  <2> QED BY <1>1, <1>2, <1>3, <2>1, LookType
<1>4. ASSUME Source # 0
      PROVE  /\ \A k \in 0..Len(start.src) - 1 : At(start.tree, start.src, k) # Source
             /\ \A k \in 0..Len(start.dst) : At(start.tree, start.dst, k) # Source
             /\ \A r \in Below : LookupOn(start.tree, start.dst \o r) # Source
  BY <1>1, <1>4 DEF Apart, Source, At
<1>5. ASSUME Source # 0 PROVE Dest # Source
  <2>1. Len(start.dst) \in 0..Len(start.dst) /\ At(start.tree, start.dst, Len(start.dst)) = Dest
    BY <1>1, PartsOf DEF Dest
  <2> QED BY <1>4, <1>5, <2>1
<1>6. ASSUME NEW m \in Names, NEW n \in Names
      PROVE  /\ <<m>> \in Below /\ <<m, n>> \in Below
             /\ LookupOn(start.tree, start.dst \o <<m>>) = OldDst(m)
             /\ LookupOn(start.tree, start.dst \o <<m, n>>) = OldBelow(m, n)
  <2>1. m \in AllNames /\ n \in AllNames
    BY NamesType
  <2>2. <<m>> \in Below /\ <<m, n>> \in Below
    BY DEF Below
  <2>3. start.dst \o <<m>> = Append(start.dst, m)
    BY <1>1, <2>1, Appended DEF Paths
  <2>4. start.dst \o <<m, n>> = Append(Append(start.dst, m), n) /\ Append(start.dst, m) \in Paths
    BY <1>1, <2>1, ConcatPair
  <2>5. LookupOn(start.tree, Append(start.dst, m)) = OldDst(m)
    BY <1>1, <2>1, LookStep DEF OldDst, Dest
  <2>6. LookupOn(start.tree, Append(Append(start.dst, m), n)) = OldBelow(m, n)
    BY <2>1, <2>4, <2>5, LookStep DEF OldBelow
  <2> QED BY <2>2, <2>3, <2>4, <2>5, <2>6
<1>7. ASSUME Source # 0, NEW m \in Names PROVE OldDst(m) # Source /\ \A n \in Names : OldBelow(m, n) # Source
  BY <1>4, <1>6, <1>7
<1> QED BY <1>1, <1>3, <1>4, <1>5, <1>7 DEF Source, Dest

\* Where the paths lead now.
LEMMA Places ==
    ASSUME TreeInv, WayInv
    PROVE  /\ Lookup(start.src) = Source /\ Lookup(start.dst) = Dest
           /\ \A n \in AllNames : /\ Lookup(Append(start.src, n)) = Src(n) /\ start.src \o <<n>> = Append(start.src, n)
                                /\ Lookup(Append(start.dst, n)) = Dst(n) /\ start.dst \o <<n>> = Append(start.dst, n)
           /\ \A m, n \in AllNames : /\ Lookup(start.src \o <<m, n>>) = Entry(node, Src(m), n)
                                   /\ Lookup(start.dst \o <<m, n>>) = Entry(node, Dst(m), n)
           /\ Source # 0 => Source \in Inos /\ node[Source].kind = start.tree[Source].kind
           /\ Dest # 0 => Dest \in Inos /\ node[Dest].kind = start.tree[Dest].kind
<1>1. start.src \in Paths /\ start.dst \in Paths /\ DOMAIN start.tree \subseteq Inos
  BY AtTheStart DEF TreeInv
<1>2. Lookup(start.src) = Source
  <2>1. Len(start.src) \in 0..Len(start.src)
    BY <1>1, PartsOf
  <2>2. At(node, start.src, Len(start.src)) = Lookup(start.src) /\ At(start.tree, start.src, Len(start.src)) = Source
    BY <1>1, PartsOf DEF Lookup, Source
  <2> QED BY <2>1, <2>2 DEF WayInv
<1>3. Lookup(start.dst) = Dest
  <2>1. Len(start.dst) \in 0..Len(start.dst)
    BY <1>1, PartsOf
  <2>2. At(node, start.dst, Len(start.dst)) = Lookup(start.dst) /\ At(start.tree, start.dst, Len(start.dst)) = Dest
    BY <1>1, PartsOf DEF Lookup, Dest
  <2> QED BY <2>1, <2>2 DEF WayInv
<1>4. ASSUME NEW n \in AllNames
      PROVE  /\ Lookup(Append(start.src, n)) = Src(n) /\ start.src \o <<n>> = Append(start.src, n)
             /\ Lookup(Append(start.dst, n)) = Dst(n) /\ start.dst \o <<n>> = Append(start.dst, n)
  <2>1. LookupOn(node, Append(start.src, n)) = Src(n) /\ LookupOn(node, Append(start.dst, n)) = Dst(n)
    BY <1>1, <1>2, <1>3, LookStep DEF Lookup, Src, Dst
  <2>2. start.src \o <<n>> = Append(start.src, n) /\ start.dst \o <<n>> = Append(start.dst, n)
    BY <1>1, Appended DEF Paths
  <2> QED BY <2>1, <2>2 DEF Lookup
<1>5. ASSUME NEW m \in AllNames, NEW n \in AllNames
      PROVE  /\ Lookup(start.src \o <<m, n>>) = Entry(node, Src(m), n)
             /\ Lookup(start.dst \o <<m, n>>) = Entry(node, Dst(m), n)
  <2>1. start.src \o <<m, n>> = Append(Append(start.src, m), n) /\ Append(start.src, m) \in Paths
        /\ start.dst \o <<m, n>> = Append(Append(start.dst, m), n) /\ Append(start.dst, m) \in Paths
    BY <1>1, ConcatPair
  <2>2. LookupOn(node, Append(start.src, m)) = Src(m) /\ LookupOn(node, Append(start.dst, m)) = Dst(m)
    BY <1>4 DEF Lookup
  <2>3. LookupOn(node, Append(Append(start.src, m), n)) = Entry(node, Src(m), n)
    BY <2>1, <2>2, LookStep
  <2>4. LookupOn(node, Append(Append(start.dst, m), n)) = Entry(node, Dst(m), n)
    BY <2>1, <2>2, LookStep
  <2> QED BY <2>1, <2>3, <2>4 DEF Lookup
<1>6. (Source # 0 => Source \in Inos /\ node[Source].kind = start.tree[Source].kind)
      /\ (Dest # 0 => Dest \in Inos /\ node[Dest].kind = start.tree[Dest].kind)
  BY <1>1, AtTheStart DEF TreeInv
<1> QED BY <1>2, <1>3, <1>4, <1>5, <1>6

-----------------------------------------------------------------------------
(* What a step changes                                                      *)

\* A step that leaves every entry on the two ways as it is.
LEMMA WayKept ==
    ASSUME TreeInv, WayInv, start' = start,
           \A k \in 0..Len(start.src) - 1 :
               Entry(node', At(node, start.src, k), start.src[k + 1]) = At(node, start.src, k + 1),
           \A k \in 0..Len(start.dst) - 1 :
               Entry(node', At(node, start.dst, k), start.dst[k + 1]) = At(node, start.dst, k + 1)
    PROVE  WayInv'
<1>1. start.src \in Paths /\ start.dst \in Paths
  BY AtTheStart DEF TreeInv
<1>2. \A k \in 0..Len(start.src) : At(node', start.src, k) = At(node, start.src, k)
  BY <1>1, SameWay
<1>3. \A k \in 0..Len(start.dst) : At(node', start.dst, k) = At(node, start.dst, k)
  BY <1>1, SameWay
<1> QED BY <1>2, <1>3 DEF WayInv

LEMMA OnTheWay ==
    ASSUME TreeInv, NEW p \in Paths
    PROVE  /\ \A k \in 0..Len(p) : At(node, p, k) \in Inos \cup {0}
           /\ \A k \in 0..Len(p) - 1 : /\ k \in 0..Len(p) /\ k + 1 \in 0..Len(p) /\ p[k + 1] \in AllNames
                                       /\ At(node, p, k + 1) = Entry(node, At(node, p, k), p[k + 1])
<1>1. IsTree(node) /\ 0 \notin DOMAIN node /\ DOMAIN node = Inos
  BY NamesType DEF TreeInv
<1>2. \A k \in 0..Len(p) : At(node, p, k) \in Inos \cup {0}
  BY <1>1, LookType
<1>3. \A k \in 0..Len(p) - 1 : k \in 0..Len(p) /\ k + 1 \in 0..Len(p)
  <2>1. Len(p) \in Nat
    BY PartsOf
  <2> QED BY <2>1
<1>4. \A k \in 0..Len(p) - 1 : /\ p[k + 1] \in AllNames
                              /\ At(node, p, k + 1) = Entry(node, At(node, p, k), p[k + 1])
  BY PartsOf
<1> QED BY <1>2, <1>3, <1>4

\* What somebody else does under name n of the source.
SourceStep(n) ==
    /\ start' = start /\ Source # 0 /\ node[Source].kind = "dir"
    /\ TreeInv' /\ WayInv'
    /\ \A m \in AllNames : Dst(m)' = Dst(m) /\ (m # n => Src(m)' = Src(m))
    /\ \/ Src(n)' \in {0, Src(n)}
       \/ Src(n)' \in Inos /\ node[Src(n)'].kind = "free" /\ node'[Src(n)'].kind # "free"
    /\ \A x \in Inos : node[x].kind # "free" =>
          /\ node'[x].kind = node[x].kind
          /\ x # Src(n)' => node'[x].data = node[x].data
          /\ x \notin {Source, Src(n)} => node'[x] = node[x]

\* What the program does under name n of the destination.
DestStep(n) ==
    /\ start' = start /\ Dest # 0
    /\ TreeInv' /\ WayInv'
    /\ \A m \in AllNames : Src(m)' = Src(m) /\ (m # n => Dst(m)' = Dst(m))
    /\ Dst(n)' # 0 /\ Dst(n)' \in Inos /\ node'[Dst(n)'].kind = "file"
    /\ \/ Dst(n)' = Dst(n) /\ node[Dst(n)].kind = "file"
       \/ Dst(n) = 0 /\ node[Dst(n)'].kind = "free"
    /\ \A x \in Inos : node[x].kind # "free" =>
          /\ node'[x].kind = node[x].kind
          /\ x # Dst(n) => node'[x].data = node[x].data
          /\ x \notin {Dest, Dst(n)} => node'[x] = node[x]

LEMMA TreeKept ==
    ASSUME TreeInv, start' = start, DOMAIN node' = Inos, IsTree(node'),
           \A x \in Inos : node[x].kind # "free" => node'[x].kind = node[x].kind
    PROVE  TreeInv'
<1>1. DOMAIN start.tree \subseteq Inos
  BY AtTheStart DEF TreeInv
<1>2. Hw2'
  BY DEF TreeInv, Hw2, Directory, KS
<1>3. \A i \in DOMAIN start.tree : start.tree[i].kind # "free" => node'[i].kind = start.tree[i].kind
  BY <1>1 DEF TreeInv
<1> QED BY <1>2, <1>3 DEF TreeInv

LEMMA SourceWays ==
    ASSUME TreeInv, WayInv, start' = start, Source # 0, NEW n,
           \A x \in Inos \cup {0}, m \in AllNames :
               x # Source \/ m # n => Entry(node', x, m) = Entry(node, x, m)
    PROVE  /\ WayInv'
           /\ \A m \in AllNames : Dst(m)' = Dst(m) /\ (m # n => Src(m)' = Src(m))
<1>1. /\ start.src \in Paths /\ start.dst \in Paths /\ Dest # Source
      /\ \A k \in 0..Len(start.src) - 1 : At(start.tree, start.src, k) # Source
      /\ \A k \in 0..Len(start.dst) : At(start.tree, start.dst, k) # Source
  BY AtTheStart DEF TreeInv
<1>2. /\ \A k \in 0..Len(start.src) - 1 : At(node, start.src, k) # Source
      /\ \A k \in 0..Len(start.dst) - 1 : At(node, start.dst, k) # Source
  BY <1>1, OnTheWay DEF WayInv
<1>3. WayInv'
  BY <1>1, <1>2, OnTheWay, WayKept
<1>4. Source \in Inos /\ Dest \in Inos \cup {0} /\ Source' = Source /\ Dest' = Dest
  BY Places DEF Source, Dest
<1>5. \A m \in AllNames : Dst(m)' = Dst(m) /\ (m # n => Src(m)' = Src(m))
  BY <1>1, <1>4 DEF Dst, Src
<1> QED BY <1>3, <1>5

LEMMA DestWays ==
    ASSUME TreeInv, WayInv, start' = start, Source # 0, Dest # 0, NEW n \in AllNames,
           \A x \in Inos \cup {0}, m \in AllNames :
               x # Dest \/ m # n => Entry(node', x, m) = Entry(node, x, m),
           Dst(n) # 0 => Entry(node', Dest, n) = Dst(n)
    PROVE  /\ WayInv'
           /\ \A m \in AllNames : Src(m)' = Src(m) /\ (m # n => Dst(m)' = Dst(m))
<1>1. start.src \in Paths /\ start.dst \in Paths /\ Dest # Source
  BY AtTheStart DEF TreeInv
<1>2. LookupOn(node, start.src) # 0 /\ LookupOn(node, start.dst) # 0
  BY Places DEF Lookup
<1>3. ASSUME NEW p \in {start.src, start.dst}, NEW k \in 0..Len(p) - 1
      PROVE  Entry(node', At(node, p, k), p[k + 1]) = At(node, p, k + 1)
  <2>1. /\ At(node, p, k) \in Inos \cup {0} /\ p[k + 1] \in AllNames
        /\ At(node, p, k + 1) = Entry(node, At(node, p, k), p[k + 1])
    BY <1>1, OnTheWay
  <2>2. At(node, p, k + 1) # 0
    BY <1>1, <1>2, OnTheWay, NoGap
  <2> QED BY <2>1, <2>2 DEF Dst
<1>4. WayInv'
  BY <1>3, WayKept
<1>5. Source \in Inos /\ Dest \in Inos /\ Source' = Source /\ Dest' = Dest
  BY Places DEF Source, Dest
<1>6. \A m \in AllNames : Src(m)' = Src(m) /\ (m # n => Dst(m)' = Dst(m))
  BY <1>1, <1>5 DEF Dst, Src
<1> QED BY <1>4, <1>6

-----------------------------------------------------------------------------
(* Somebody else                                                            *)

\* Somebody else leaves a file that is one.
LEMMA ChangedFile ==
    ASSUME NEW f, IsNode(f), f.kind = "file", NEW new \in Changes(f)
    PROVE  IsNode(new) /\ new.kind = "file" /\ new.names = f.names
<1>1. /\ f = [kind |-> f.kind, mode |-> f.mode, data |-> f.data, names |-> f.names]
      /\ f.data \in Seq(Blocks) /\ DOMAIN f.names = {}
  BY DEF IsNode
<1> DEFINE over == [k \in DOMAIN f.data |-> "x"]
<1>2. Append(f.data, "x") \in Seq(Blocks) /\ <<>> \in Seq(Blocks) /\ over \in Seq(Blocks)
  <2>1. "x" \in Blocks
    BY DEF Blocks
  <2>2. Append(f.data, "x") \in Seq(Blocks)
    BY <1>1, <2>1, Appended
  <2>3. Len(f.data) \in Nat /\ DOMAIN f.data = 1..Len(f.data)
    BY <1>1, LenProperties
  <2>4. over \in [1..Len(f.data) -> Blocks]
    BY <2>1, <2>3
  <2>5. over \in Seq(Blocks)
    BY <2>3, <2>4, SeqDef
  <2> QED BY <2>2, <2>5
<1>3. CASE new = [f EXCEPT !.mode = {}]
  <2>1. new = [kind |-> f.kind, mode |-> {}, data |-> f.data, names |-> f.names]
    BY <1>1, <1>3
  <2> QED BY <1>1, <2>1 DEF IsNode
<1>4. ASSUME NEW data \in {Append(f.data, "x"), <<>>, over}, new = [f EXCEPT !.data = data]
      PROVE  IsNode(new) /\ new.kind = "file" /\ new.names = f.names
  <2>1. data \in Seq(Blocks)
    BY <1>2, <1>4
  <2>2. new = [kind |-> f.kind, mode |-> f.mode, data |-> data, names |-> f.names]
    BY <1>1, <1>4
  <2> QED BY <1>1, <2>1, <2>2 DEF IsNode
<1> QED BY <1>3, <1>4 DEF Changes

LEMMA MeddleCases ==
    ASSUME TreeInv, WayInv, NEW n \in Names, Meddle(n)
    PROVE  /\ UNCHANGED <<start, copy>> /\ status = "running"
           /\ Source # 0 /\ node[Source].kind = "dir"
           /\ touched' = [touched EXCEPT ![n] = @ + 1]
           /\ had' = had \cup HadAt(node', <<n>>)
           /\ \/ \E i : Grows(node, node', Source, n, i)
              \/ Src(n) # 0 /\ Rewrites(node, node', Src(n))
              \/ Src(n) # 0 /\ Shrinks(node, node', Source, n)
<1> DEFINE path == Append(start.src, n)  i == Lookup(path)
<1>1. /\ n \in AllNames \ {NoName, "."} /\ start.src \in Paths
      /\ IsTree(node) /\ DOMAIN node = Inos /\ 0 \notin Inos
  BY NamesType, AtTheStart DEF TreeInv
<1>2. Lookup(start.src) = Source /\ i = Src(n)
  BY <1>1, Places
<1>3. /\ UNCHANGED <<start, copy>> /\ status = "running" /\ IsDir(start.src)
      /\ touched' = [touched EXCEPT ![n] = @ + 1]
      /\ had' = had \cup HadAt(node', <<n>>)
  BY DEF Meddle
<1>4. Source # 0 /\ node[Source].kind = "dir" /\ Source \in Inos
  BY <1>2, <1>3, Places DEF IsDir, Exists
<1>5. i # 0 => i \in Inos /\ i # Source
  BY <1>1, <1>2, <1>4, EntryType DEF Src
<1>6. CASE i = 0 /\ Room /\ \E new \in {File({"owner"}, <<"n">>), Dir(<<>>)} : node' = Added(path, new)
  <2>1. PICK new \in {File({"owner"}, <<"n">>), Dir(<<>>)} : node' = Added(path, new)
    BY <1>6
  <2>2. IsNode(new) /\ new.kind \in {"file", "dir"} /\ DOMAIN new.names = {}
    <3>1. <<"n">> \in Seq(Blocks) /\ <<>> \in Seq(Blocks)
      BY DEF Blocks
    <3>2. DOMAIN <<>> = {}
      OBVIOUS
    <3>3. CASE new = File({"owner"}, <<"n">>)
      <4>1. new = [kind |-> "file", mode |-> {"owner"}, data |-> <<"n">>, names |-> <<>>]
        BY <3>3 DEF File
      <4> QED BY <3>1, <3>2, <4>1 DEF IsNode
    <3>4. CASE new = Dir(<<>>)
      <4>1. new = [kind |-> "dir", mode |-> {"owner", "group"}, data |-> <<>>, names |-> <<>>]
        BY <3>4 DEF Dir
      <4> QED BY <3>1, <3>2, <4>1 DEF IsNode
    <3> QED BY <2>1, <3>3, <3>4
  <2>3. Grows(node, node', Source, n, NewIno)
    BY <1>1, <1>2, <1>3, <1>6, <2>1, <2>2, AddedGrows
  <2> QED BY <1>3, <1>4, <2>3
<1>7. CASE i # 0 /\ node[i].kind = "file" /\ \E new \in Changes(node[i]) : node' = [node EXCEPT ![i] = new]
  <2>1. PICK new \in Changes(node[i]) : node' = [node EXCEPT ![i] = new]
    BY <1>7
  <2>2. i \in Inos /\ IsNode(node[i])
    BY <1>1, <1>5, <1>7 DEF IsTree
  <2> HIDE DEF i
  <2>3. IsNode(new) /\ new.kind = "file" /\ new.names = node[i].names
    BY <1>7, <2>1, <2>2, ChangedFile
  <2>4. DOMAIN node' = Inos /\ (\A x \in Inos \ {i} : node'[x] = node[x]) /\ node'[i] = new
    BY <1>1, <2>1, <2>2
  <2>5. Rewrites(node, node', i)
    BY <1>1, <1>7, <2>2, <2>3, <2>4 DEF Rewrites
  <2> QED BY <1>2, <1>3, <1>4, <1>7, <2>5
<1>8. CASE i # 0 /\ node[i].kind = "file" /\
           node' = [node EXCEPT ![Lookup(start.src)].names =
                                     [m \in DOMAIN @ \ {n} |-> node[Lookup(start.src)].names[m]]]
  <2>1. IsNode(node[Source])
    BY <1>1, <1>4 DEF IsTree
  <2> DEFINE names == [m \in DOMAIN node[Source].names \ {n} |-> node[Source].names[m]]
  <2>2. node' = [node EXCEPT ![Source].names = names]
    BY <1>1, <1>2, <1>4, <1>8
  <2>3. DOMAIN node' = Inos /\ (\A x \in Inos \ {Source} : node'[x] = node[x])
        /\ node'[Source] = [kind |-> "dir", mode |-> node[Source].mode, data |-> node[Source].data, names |-> names]
    BY <1>1, <1>4, <2>1, <2>2 DEF IsNode
  <2>4. DOMAIN names = DOMAIN node[Source].names \ {n} /\ \A m \in DOMAIN names : names[m] = node[Source].names[m]
    OBVIOUS
  <2> HIDE DEF names
  <2>5. IsNode(node'[Source])
    BY <1>4, <2>1, <2>3 DEF IsNode
  <2>6. Shrinks(node, node', Source, n)
    BY <1>1, <1>4, <2>3, <2>4, <2>5 DEF Shrinks
  <2> QED BY <1>2, <1>3, <1>4, <1>8, <2>6
<1> QED BY <1>6, <1>7, <1>8 DEF Meddle

LEMMA MeddleStep ==
    ASSUME TreeInv, WayInv, NEW n \in Names, Meddle(n)
    PROVE  SourceStep(n)
<1>1. /\ n \in AllNames \ {NoName, "."} /\ start.src \in Paths
      /\ IsTree(node) /\ DOMAIN node = Inos /\ 0 \notin Inos
  BY NamesType, AtTheStart DEF TreeInv
<1>2. start' = start /\ Source # 0 /\ node[Source].kind = "dir" /\ Source \in Inos /\ Source' = Source
  BY MeddleCases, Places DEF Source
<1>3. Src(n) # 0 => Src(n) \in Inos /\ Src(n) # Source
  BY <1>1, <1>2, EntryType DEF Src
<1>5. ASSUME IsTree(node'), DOMAIN node' = Inos,
             \A x \in Inos \cup {0}, m \in AllNames :
                 x # Source \/ m # n => Entry(node', x, m) = Entry(node, x, m),
             \A x \in Inos : node[x].kind # "free" => node'[x].kind = node[x].kind
      PROVE  /\ TreeInv' /\ WayInv'
             /\ \A m \in AllNames : Dst(m)' = Dst(m) /\ (m # n => Src(m)' = Src(m))
  <2>1. TreeInv'
    BY <1>2, <1>5, TreeKept
  <2> QED BY <1>2, <1>5, <2>1, SourceWays
<1>6. Src(n)' = Entry(node', Source, n)
  BY <1>2 DEF Src
<1>7. ASSUME NEW i, Grows(node, node', Source, n, i)
      PROVE  SourceStep(n)
  <2>1. /\ IsTree(node') /\ DOMAIN node' = Inos
        /\ \A x \in Inos \cup {0}, m \in AllNames :
               Entry(node', x, m) = IF x = Source /\ x # 0 /\ m = n THEN i ELSE Entry(node, x, m)
    BY <1>1, <1>7, GrowsTree, GrowsEntry DEF Grows
  <2>2. \A x \in Inos : node[x].kind # "free" =>
            /\ node'[x].kind = node[x].kind /\ node'[x].data = node[x].data
            /\ x # Source => node'[x] = node[x]
    BY <1>1, <1>7 DEF Grows
  <2>3. Src(n)' = i /\ i \in Inos /\ node[i].kind = "free" /\ node'[i].kind # "free"
    BY <1>1, <1>2, <1>6, <1>7, <2>1 DEF Grows
  <2> QED BY <1>2, <1>5, <2>1, <2>2, <2>3 DEF SourceStep
<1>8. ASSUME Src(n) # 0, Rewrites(node, node', Src(n))
      PROVE  SourceStep(n)
  <2>1. /\ IsTree(node') /\ DOMAIN node' = Inos
        /\ \A x \in Inos \cup {0}, m \in AllNames : Entry(node', x, m) = Entry(node, x, m)
    BY <1>1, <1>8, RewritesTree, RewritesEntry DEF Rewrites
  <2>2. \A x \in Inos : node'[x].kind = node[x].kind /\ (x # Src(n) => node'[x] = node[x])
    BY <1>1, <1>8 DEF Rewrites
  <2>3. Src(n)' = Src(n)
    BY <1>1, <1>2, <1>6, <2>1 DEF Src
  <2> QED BY <1>2, <1>5, <2>1, <2>2, <2>3 DEF SourceStep
<1>9. ASSUME Src(n) # 0, Shrinks(node, node', Source, n)
      PROVE  SourceStep(n)
  <2>1. /\ IsTree(node') /\ DOMAIN node' = Inos
        /\ \A x \in Inos \cup {0}, m \in AllNames :
               Entry(node', x, m) = IF x = Source /\ x # 0 /\ m = n THEN 0 ELSE Entry(node, x, m)
    BY <1>1, <1>9, ShrinksTree, ShrinksEntry DEF Shrinks
  <2>2. \A x \in Inos : /\ node'[x].kind = node[x].kind /\ node'[x].data = node[x].data
                        /\ x # Source => node'[x] = node[x]
    BY <1>1, <1>9 DEF Shrinks
  <2>3. Src(n)' = 0
    BY <1>1, <1>2, <1>6, <2>1
  <2> QED BY <1>2, <1>5, <2>1, <2>2, <2>3 DEF SourceStep
<1> QED BY <1>7, <1>8, <1>9, MeddleCases

\* What can be at a name of the source and of the destination.
LEMMA AtNames ==
    ASSUME DiskInv
    PROVE  /\ IsTree(node) /\ DOMAIN node = Inos /\ 0 \notin Inos /\ Names \subseteq AllNames \ {NoName, "."}
           /\ \A n \in AllNames \ {"."} :
                 /\ Src(n) # 0 => /\ Src(n) \in Inos /\ node[Src(n)].kind # "free" /\ Src(n) # Source
                                  /\ Source \in Inos /\ node[Source].kind = "dir"
                 /\ Dst(n) # 0 => /\ Dst(n) \in Inos /\ node[Dst(n)].kind # "free" /\ Dst(n) # Dest
                                  /\ Dest \in Inos /\ node[Dest].kind = "dir"
           /\ \A n \in Names :
                 /\ OldDst(n) # 0 => /\ OldDst(n) \in Inos /\ node[OldDst(n)].kind = start.tree[OldDst(n)].kind
                                     /\ node[OldDst(n)].kind # "free" /\ OldDst(n) # Dest /\ Dst(n) = OldDst(n)
                 /\ OldSrc(n) # 0 => start.tree[OldSrc(n)].kind = node[OldSrc(n)].kind
                 /\ Source # 0 /\ node[Source].kind = "dir" => Dst(n) # Source
<1>1. /\ IsTree(node) /\ DOMAIN node = Inos /\ 0 \notin Inos /\ Names \subseteq AllNames \ {NoName, "."}
      /\ IsTree(start.tree) /\ DOMAIN start.tree \subseteq Inos
      /\ \A i \in DOMAIN start.tree : start.tree[i].kind # "free" => node[i].kind = start.tree[i].kind
  BY NamesType, AtTheStart DEF DiskInv, TreeInv
<1>2. Source \in Inos \cup {0} /\ Dest \in Inos \cup {0}
  BY Places DEF DiskInv
<1>3. ASSUME NEW x \in Inos \cup {0}, NEW n \in AllNames \ {"."}, Entry(node, x, n) # 0
      PROVE  /\ Entry(node, x, n) \in Inos /\ node[Entry(node, x, n)].kind # "free"
             /\ Entry(node, x, n) # x /\ x \in Inos /\ node[x].kind = "dir"
  <2>1. x # 0
    BY <1>3 DEF Entry
  <2> QED BY <1>1, <1>3, <2>1, EntryType
<1>4. \A n \in AllNames \ {"."} :
         /\ Src(n) # 0 => /\ Src(n) \in Inos /\ node[Src(n)].kind # "free" /\ Src(n) # Source
                          /\ Source \in Inos /\ node[Source].kind = "dir"
         /\ Dst(n) # 0 => /\ Dst(n) \in Inos /\ node[Dst(n)].kind # "free" /\ Dst(n) # Dest
                          /\ Dest \in Inos /\ node[Dest].kind = "dir"
  BY <1>2, <1>3 DEF Src, Dst
<1>5. ASSUME NEW n \in Names, NEW x, x = 0 \/ x \in DOMAIN start.tree, Entry(start.tree, x, n) # 0
      PROVE  /\ Entry(start.tree, x, n) \in DOMAIN start.tree /\ Entry(start.tree, x, n) # x
             /\ start.tree[Entry(start.tree, x, n)].kind # "free"
  <2>1. x # 0
    BY <1>5 DEF Entry
  <2> QED BY <1>1, <1>5, <2>1, EntryType
<1>6. (Source = 0 \/ Source \in DOMAIN start.tree) /\ (Dest = 0 \/ Dest \in DOMAIN start.tree)
  BY AtTheStart DEF DiskInv, TreeInv
<1>7. ASSUME NEW n \in Names
      PROVE  /\ OldDst(n) # 0 => /\ OldDst(n) \in DOMAIN start.tree /\ OldDst(n) # Dest
                                 /\ start.tree[OldDst(n)].kind # "free"
             /\ OldSrc(n) # 0 => OldSrc(n) \in DOMAIN start.tree /\ start.tree[OldSrc(n)].kind # "free"
  BY <1>5, <1>6 DEF OldDst, OldSrc
<1>8. ASSUME NEW n \in Names, Source # 0, node[Source].kind = "dir" PROVE Dst(n) # Source
  <2>1. OldDst(n) # Source
    BY <1>8, AtTheStart DEF DiskInv, TreeInv
  <2> QED BY <1>8, <2>1 DEF DiskInv, DestInv
<1>9. ASSUME NEW n \in Names, OldDst(n) # 0 PROVE Dst(n) = OldDst(n)
  BY <1>9 DEF DiskInv, DestInv
<1> QED BY <1>1, <1>4, <1>7, <1>8, <1>9

\* What was below the destination at the beginning.
LEMMA AtBelow ==
    ASSUME DiskInv, NEW m \in Names, NEW n \in Names, OldBelow(m, n) # 0
    PROVE  /\ OldDst(m) # 0 /\ OldDst(m) \in Inos /\ node[OldDst(m)].kind = "dir"
           /\ OldBelow(m, n) \in Inos /\ node[OldBelow(m, n)].kind # "free"
           /\ OldBelow(m, n) = Entry(node, OldDst(m), n)
<1>1. OldDst(m) # 0
  BY DEF OldBelow, Entry
<1>2. /\ IsTree(start.tree) /\ 0 \notin DOMAIN start.tree /\ DOMAIN start.tree \subseteq Inos
      /\ m # "." /\ n # "." /\ 0 \notin Inos
  BY AtTheStart, NamesType DEF DiskInv, TreeInv
<1>3. OldDst(m) \in DOMAIN start.tree
  <2>1. Dest = 0 \/ Dest \in DOMAIN start.tree
    BY AtTheStart DEF DiskInv, TreeInv
  <2>2. Dest # 0
    BY <1>1 DEF OldDst, Entry
  <2> QED BY <1>1, <1>2, <2>1, <2>2, EntryType DEF OldDst
<1>4. /\ start.tree[OldDst(m)].kind = "dir"
      /\ OldBelow(m, n) \in DOMAIN start.tree /\ start.tree[OldBelow(m, n)].kind # "free"
  BY <1>2, <1>3, EntryType DEF OldBelow
<1>5. node[OldDst(m)] = start.tree[OldDst(m)]
  BY DEF DiskInv, DeepInv
<1>6. OldBelow(m, n) = Entry(node, OldDst(m), n)
  BY <1>5 DEF OldBelow, Entry
<1> QED BY <1>1, <1>2, <1>3, <1>4, <1>5, <1>6 DEF DiskInv, TreeInv

\* Under two names, or in two directories, there are two.
LEMMA TwoNames ==
    ASSUME DiskInv, NEW x \in Inos, NEW y \in Inos, NEW m \in AllNames \ {"."}, NEW n \in AllNames \ {"."},
           Entry(node, x, m) # 0, x # y \/ m # n
    PROVE  Entry(node, x, m) # Entry(node, y, n)
BY NamesType, OneEntry DEF DiskInv, TreeInv

\* The history that goes with it.
LEMMA MeddleHistory ==
    ASSUME TreeInv, WayInv, touched \in [Names -> Nat], NEW n \in Names, Meddle(n)
    PROVE  /\ touched' \in [Names -> Nat]
           /\ \A k \in Names : Alone(k)' => Alone(k) /\ k # n
           /\ \A k \in Names : Hads(k)' = Hads(k) \cup (IF k = n THEN {Src(n)'} \ {0} ELSE {})
           /\ had \subseteq had'
           /\ Src(n)' # 0 => << <<n>>, Src(n)', node'[Src(n)'].data >> \in had'
           /\ Noticed' = Noticed
<1>1. /\ start.src \in Paths /\ n \in AllNames
      /\ UNCHANGED <<start, copy>>
      /\ touched' = [touched EXCEPT ![n] = @ + 1]
      /\ had' = had \cup HadAt(node', <<n>>)
  BY NamesType, AtTheStart, MeddleCases DEF TreeInv
<1>2. LookupOn(node', Append(start.src, n)) = Src(n)'
  <2>1. Len(start.src) \in 0..Len(start.src) /\ Source' = Source
        /\ At(node', start.src, Len(start.src)) = LookupOn(node', start.src)
        /\ At(start.tree, start.src, Len(start.src)) = Source
    BY <1>1, PartsOf DEF Source
  <2>2. \A k \in 0..Len(start.src) : At(node', start.src, k) = At(start.tree, start.src, k)
    BY <1>1, MeddleStep DEF SourceStep, WayInv
  <2>3. LookupOn(node', start.src) = Source'
    BY <2>1, <2>2
  <2>4. LookupOn(node', Append(start.src, n)) = Entry(node', LookupOn(node', start.src), n)
    BY <1>1, LookStep
  <2> QED BY <2>3, <2>4 DEF Src
<1>3. touched' \in [Names -> Nat] /\ \A k \in Names : Alone(k)' => Alone(k) /\ k # n
  BY <1>1 DEF Alone
<1> DEFINE v == Src(n)'  new == << <<n>>, v, node'[v].data >>
<1>4. had' = had \cup (IF v = 0 THEN {} ELSE {new})
  <2>1. start.src \o <<n>> = Append(start.src, n)
    BY <1>1, Appended DEF Paths
  <2>2. HadAt(node', <<n>>) = {<< <<n>>, i, node'[i].data >> : i \in {v} \ {0}}
    BY <1>2, <2>1 DEF HadAt
  <2> HIDE DEF v
  <2>3. {<< <<n>>, i, node'[i].data >> : i \in {v} \ {0}} = IF v = 0 THEN {} ELSE {new}
    OBVIOUS
  <2> QED BY <1>1, <2>2, <2>3
<1>5. ASSUME NEW k \in Names
      PROVE  Hads(k)' = Hads(k) \cup (IF k = n THEN {Src(n)'} \ {0} ELSE {})
  <2>1. new[1] = <<n>> /\ new[2] = v /\ (<<n>> = <<k>> <=> k = n)
    OBVIOUS
  <2> HIDE DEF v, new
  <2>2. {g \in had' : g[1] = << k >>} = {g \in had : g[1] = << k >>} \cup (IF k = n /\ v # 0 THEN {new} ELSE {})
    BY <1>4, <2>1
  <2>3. Hads(k)' = {h[2] : h \in {g \in had' : g[1] = << k >>}}
    BY DEF Hads
  <2>4. Hads(k)' = Hads(k) \cup (IF k = n THEN {v} \ {0} ELSE {})
    BY <2>1, <2>2, <2>3 DEF Hads
  <2> QED BY <2>4 DEF v
<1>6. had \subseteq had' /\ (Src(n)' # 0 => << <<n>>, Src(n)', node'[Src(n)'].data >> \in had')
  BY <1>4
<1>7. Noticed' = Noticed
  BY <1>1 DEF Noticed, copy, Tutor
<1> QED BY <1>3, <1>5, <1>6, <1>7

\* Nothing that is in the destination changes with it.
LEMMA DestApart ==
    ASSUME DiskInv, NEW n \in Names, SourceStep(n)
    PROVE  /\ \A m \in Names : Dst(m) # 0 => node'[Dst(m)] = node[Dst(m)]
           /\ \A m \in AllNames \ {"."} : Dst(m) # 0 => Dst(m) # Src(n)
           /\ \A m, k \in Names : OldBelow(m, k) # 0 => node'[OldBelow(m, k)] = node[OldBelow(m, k)]
           /\ \A m, k \in Names : OldBelow(m, k) # 0 => node'[OldDst(m)] = node[OldDst(m)]
<1>1. /\ Source # 0 /\ node[Source].kind = "dir" /\ Source \in Inos
      /\ \A x \in Inos : node[x].kind # "free" /\ x \notin {Source, Src(n)} => node'[x] = node[x]
  BY Places DEF SourceStep, DiskInv
<1>2. ASSUME NEW m \in AllNames \ {"."}, Dst(m) # 0 PROVE Dst(m) # Src(n)
  <2>1. Src(n) \in Hads(n) \cup {0} /\ \A j \in Hads(n) : Dst(m) # j
    BY DEF DiskInv, HadInv
  <2> QED BY <1>2, <2>1
<1>3. ASSUME NEW m \in Names, Dst(m) # 0 PROVE node'[Dst(m)] = node[Dst(m)]
  BY <1>1, <1>2, <1>3, AtNames
<1>4. ASSUME NEW m \in Names, NEW k \in Names, OldBelow(m, k) # 0
      PROVE  node'[OldBelow(m, k)] = node[OldBelow(m, k)] /\ node'[OldDst(m)] = node[OldDst(m)]
  <2>1. /\ OldDst(m) # 0 /\ OldDst(m) \in Inos /\ OldBelow(m, k) \in Inos /\ node[OldBelow(m, k)].kind # "free"
        /\ OldBelow(m, k) = Entry(node, OldDst(m), k) /\ node[OldDst(m)].kind = "dir"
    BY <1>4, AtBelow
  <2>2. OldBelow(m, k) # Source /\ OldDst(m) # Source
    BY <1>1, AtTheStart DEF DiskInv, TreeInv
  <2>3. OldBelow(m, k) # Src(n)
    BY <1>1, <1>4, <2>1, <2>2, TwoNames, AtNames DEF Src
  <2>4. OldDst(m) = Dst(m)
    BY <2>1, AtNames
  <2> QED BY <1>1, <1>3, <2>1, <2>2, <2>3, <2>4
<1> QED BY <1>2, <1>3, <1>4

\* The history only grows.
LEMMA StillMade ==
    ASSUME NEW old, NEW new, old \subseteq new, NEW n, NEW j, NEW s, MadeOf(old, n, j, s)
    PROVE  MadeOf(new, n, j, s)
BY DEF MadeOf

LEMMA DataType == \A i \in Inos : TreeInv => node[i].data \in Seq(Blocks) /\ Len(node[i].data) \in Nat
<1> SUFFICES ASSUME NEW i \in Inos, TreeInv PROVE node[i].data \in Seq(Blocks) /\ Len(node[i].data) \in Nat
  OBVIOUS
<1>1. node[i].data \in Seq(Blocks)
  BY DEF TreeInv, IsTree, IsNode
<1> QED BY <1>1, LenProperties

LEMMA MeddleDisk ==
    ASSUME DiskInv, NEW n \in Names, Meddle(n)
    PROVE  DiskInv'
<1>1. TreeInv /\ WayInv /\ SourceStep(n)
  BY MeddleStep DEF DiskInv
<1>2. /\ start' = start /\ TreeInv' /\ WayInv'
      /\ \A m \in AllNames : Dst(m)' = Dst(m) /\ (m # n => Src(m)' = Src(m))
      /\ Src(n)' \in {0, Src(n)} \/ (Src(n)' \in Inos /\ node[Src(n)'].kind = "free" /\ node'[Src(n)'].kind # "free")
      /\ \A x \in Inos : node[x].kind # "free" =>
            /\ node'[x].kind = node[x].kind
            /\ x # Src(n)' => node'[x].data = node[x].data
            /\ x \notin {Source, Src(n)} => node'[x] = node[x]
  BY <1>1 DEF SourceStep
<1>3. /\ touched' \in [Names -> Nat]
      /\ \A k \in Names : Alone(k)' => Alone(k) /\ k # n
      /\ \A k \in Names : Hads(k)' = Hads(k) \cup (IF k = n THEN {Src(n)'} \ {0} ELSE {})
      /\ had \subseteq had'
      /\ Src(n)' # 0 => << <<n>>, Src(n)', node'[Src(n)'].data >> \in had'
      /\ Noticed' = Noticed
  BY <1>1, MeddleHistory DEF DiskInv, HistInv
<1>4. /\ Source' = Source /\ Dest' = Dest
      /\ \A k \in AllNames : OldSrc(k)' = OldSrc(k) /\ OldDst(k)' = OldDst(k)
      /\ \A k, m \in AllNames : OldBelow(k, m)' = OldBelow(k, m)
  BY <1>2 DEF Source, Dest, OldSrc, OldDst, OldBelow
<1>5. Names \subseteq AllNames \ {NoName, "."} /\ 0 \notin Inos
  BY NamesType
<1>6. SrcInv'
  <2> SUFFICES ASSUME NEW k \in Names, Alone(k)'
               PROVE  /\ Src(k)' = OldSrc(k)'
                      /\ Src(k)' # 0 /\ node'[Src(k)'].kind = "file" => node'[Src(k)'] = start'.tree[Src(k)']
    BY DEF SrcInv
  <2>1. Alone(k) /\ k # n /\ Src(k)' = Src(k) /\ OldSrc(k)' = OldSrc(k)
    BY <1>2, <1>3, <1>4, <1>5
  <2>2. /\ Src(k) = OldSrc(k)
        /\ Src(k) # 0 /\ node[Src(k)].kind = "file" => node[Src(k)] = start.tree[Src(k)]
    BY <2>1 DEF DiskInv, SrcInv
  <2>3. Src(k) # 0 => /\ Src(k) \in Inos /\ node[Src(k)].kind # "free" /\ Src(k) # Source /\ Source \in Inos
    BY <1>5, AtNames
  <2>4. Src(k) # 0 => Src(k) # Src(n)
    BY <1>5, <2>1, <2>3, TwoNames DEF Src
  <2> QED BY <1>2, <2>1, <2>2, <2>3, <2>4
<1>7. HadInv'
  <2> SUFFICES ASSUME NEW k \in Names
               PROVE  /\ Src(k)' \in Hads(k)' \cup {0}
                      /\ \A j \in Hads(k)' : /\ j \in Inos /\ node'[j].kind # "free"
                                             /\ \A m \in AllNames \ {"."} : Dst(m)' # j
    BY DEF HadInv
  <2>1. Src(k) \in Hads(k) \cup {0} /\ Src(n) \in Hads(n) \cup {0}
    BY DEF DiskInv, HadInv
  <2>2. Src(k)' \in Hads(k)' \cup {0}
    BY <1>2, <1>3, <1>5, <2>1
  <2>3. ASSUME NEW q \in Names, NEW j \in Hads(q)
        PROVE  j \in Inos /\ node'[j].kind # "free" /\ \A m \in AllNames \ {"."} : Dst(m)' # j
    BY <1>2, <2>3 DEF DiskInv, HadInv
  <2>4. ASSUME k = n, Src(n)' # 0
        PROVE  Src(n)' \in Inos /\ node'[Src(n)'].kind # "free" /\ \A m \in AllNames \ {"."} : Dst(m)' # Src(n)'
    <3>1. CASE Src(n)' = Src(n)
      BY <2>1, <2>3, <2>4, <3>1
    <3>2. CASE Src(n)' \in Inos /\ node[Src(n)'].kind = "free" /\ node'[Src(n)'].kind # "free"
      <4>1. \A m \in AllNames \ {"."} : Dst(m) # 0 => node[Dst(m)].kind # "free"
        BY AtNames
      <4> QED BY <1>2, <2>4, <3>2, <4>1
    <3> QED BY <1>2, <2>4, <3>1, <3>2
  <2> QED BY <1>3, <2>2, <2>3, <2>4
<1>8. DestInv'
  <2> SUFFICES ASSUME NEW k \in Names
               PROVE  /\ OldDst(k)' # 0 => Dst(k)' = OldDst(k)'
                      /\ Dst(k)' # 0 =>
                            \/ Dst(k)' = OldDst(k)' /\ node'[Dst(k)'] = start'.tree[Dst(k)']
                            \/ /\ node'[Dst(k)'].kind = "file"
                               /\ Noticed' => \E j \in Hads(k)' : MadeOf(had', k, j, node'[Dst(k)'].data)
    BY DEF DestInv
  <2>1. Dst(k)' = Dst(k) /\ OldDst(k)' = OldDst(k) /\ (Dst(k) # 0 => node'[Dst(k)] = node[Dst(k)])
    BY <1>1, <1>2, <1>4, <1>5, DestApart
  <2>2. /\ OldDst(k) # 0 => Dst(k) = OldDst(k)
        /\ Dst(k) # 0 =>
              \/ Dst(k) = OldDst(k) /\ node[Dst(k)] = start.tree[Dst(k)]
              \/ /\ node[Dst(k)].kind = "file"
                 /\ Noticed => \E j \in Hads(k) : MadeOf(had, k, j, node[Dst(k)].data)
    BY DEF DiskInv, DestInv
  <2>3. ASSUME NEW j \in Hads(k), MadeOf(had, k, j, node[Dst(k)].data)
        PROVE  j \in Hads(k)' /\ MadeOf(had', k, j, node[Dst(k)].data)
    BY <1>3, <2>3, StillMade
  <2> QED BY <1>2, <1>3, <2>1, <2>2, <2>3
<1>9. DeepInv'
  <2> SUFFICES ASSUME NEW k \in Names, NEW m \in Names, OldBelow(k, m) # 0
               PROVE  /\ node'[OldDst(k)] = start.tree[OldDst(k)]
                      /\ OldBelow(k, m) = Dest \/ node'[OldBelow(k, m)] = start.tree[OldBelow(k, m)]
    BY <1>2, <1>4, <1>5 DEF DeepInv
  <2>1. node'[OldBelow(k, m)] = node[OldBelow(k, m)] /\ node'[OldDst(k)] = node[OldDst(k)]
    BY <1>1, DestApart
  <2> QED BY <2>1 DEF DiskInv, DeepInv
<1>10. HistInv'
  <2>1. \A k \in Names : \A j \in Hads(k) : /\ j \in Inos /\ node[j].kind # "free"
                                           /\ << <<k>>, j, node[j].data >> \in had
    BY DEF DiskInv, HadInv, HistInv
  <2>2. Src(n) \in Hads(n) \cup {0}
    BY DEF DiskInv, HadInv
  <2>3. \A k, m \in Names : \A j \in Hads(k) : j \in Hads(m) => k = m
    BY DEF DiskInv, HistInv
  <2>4. ASSUME Src(n)' # 0, NEW k \in Names, Src(n)' \in Hads(k) PROVE k = n
    <3> DEFINE v == Src(n)'
    <3>1. v # Src(n) => node[v].kind = "free"
      BY <1>2, <2>4
    <3>2. node[v].kind # "free"
      BY <2>1, <2>4
    <3> QED BY <2>2, <2>3, <2>4, <3>1, <3>2
  <2>5. ASSUME NEW k \in Names, NEW m \in Names, NEW j \in Hads(k)', j \in Hads(m)' PROVE k = m
    BY <1>3, <2>3, <2>4, <2>5
  <2>6. ASSUME NEW k \in Names, NEW j \in Hads(k)' PROVE << <<k>>, j, node'[j].data >> \in had'
    <3>1. CASE k = n /\ j = Src(n)' /\ j # 0
      BY <1>3, <3>1
    <3>2. CASE j \in Hads(k) /\ j # Src(n)'
      <4>1. node'[j].data = node[j].data
        BY <1>2, <2>1, <3>2
      <4> QED BY <1>3, <2>1, <3>2, <4>1
    <3>3. j \in Hads(k) /\ j = Src(n)' => k = n /\ j # 0
      BY <2>1, <2>4, AtNames
    <3> QED BY <1>3, <2>6, <3>1, <3>2, <3>3
  <2> QED BY <1>3, <2>5, <2>6 DEF HistInv
<1> QED BY <1>2, <1>6, <1>7, <1>8, <1>9, <1>10 DEF DiskInv

\* Where the program is, and what its frame holds, with nothing of the disk but the source's kind.
LEMMA FrameKept ==
    ASSUME TreeInv, WayInv, FrameInv, UNCHANGED <<start, frames, pc, status, faults>>,
           Source # 0 => node'[Source].kind = node[Source].kind
    PROVE  FrameInv'
<1>1. Top' = Top /\ Source' = Source
  BY DEF Top, Source
<1> QED BY <1>1 DEF FrameInv

LEMMA MeddleRest ==
    ASSUME HwInv, NEW n \in Names, Meddle(n)
    PROVE  HwInv'
<1>1. DiskInv /\ TreeInv /\ WayInv /\ SourceStep(n)
  BY MeddleStep DEF HwInv, DiskInv
<1>2. /\ start' = start /\ TreeInv' /\ WayInv' /\ Source # 0
      /\ \A m \in AllNames : Dst(m)' = Dst(m) /\ (m # n => Src(m)' = Src(m))
      /\ \A x \in Inos : node[x].kind # "free" =>
            /\ node'[x].kind = node[x].kind
            /\ x # Src(n)' => node'[x].data = node[x].data
            /\ x \notin {Source, Src(n)} => node'[x] = node[x]
  BY <1>1 DEF SourceStep
<1>3. /\ \A k \in Names : Alone(k)' => Alone(k) /\ k # n
      /\ \A k \in Names : Hads(k) \subseteq Hads(k)'
      /\ had \subseteq had' /\ Noticed' = Noticed
  BY <1>1, MeddleHistory DEF DiskInv, HistInv
<1>4. /\ Source' = Source /\ Dest' = Dest
      /\ \A k \in AllNames : OldSrc(k)' = OldSrc(k) /\ OldDst(k)' = OldDst(k)
      /\ \A k, m \in AllNames : OldBelow(k, m)' = OldBelow(k, m)
  BY <1>2 DEF Source, Dest, OldSrc, OldDst, OldBelow
<1>5. Names \subseteq AllNames \ {NoName, "."} /\ 0 \notin Inos
  BY NamesType
<1>6. UNCHANGED <<frames, pc, input, output, pos, status, faults>> /\ Top' = Top /\ Tutor' = Tutor
  BY <1>1, <1>2, MeddleCases DEF copy, Top, Tutor
<1>7. Source \in Inos /\ node[Source].kind # "free" /\ node'[Source].kind = node[Source].kind
  BY <1>1, <1>2, Places DEF SourceStep
<1>8. FrameInv'
  BY <1>1, <1>2, <1>6, <1>7, FrameKept DEF HwInv
<1>9. ASSUME NEW k \in Names, Alone(k)', Src(k) # 0
      PROVE  /\ k # n /\ Alone(k) /\ Src(k)' = Src(k) /\ Src(k) \in Inos /\ node[Src(k)].kind # "free"
             /\ node'[Src(k)] = node[Src(k)]
  <2>1. k # n /\ Alone(k) /\ Src(k)' = Src(k)
    BY <1>2, <1>3, <1>5, <1>9
  <2>2. Src(k) \in Inos /\ node[Src(k)].kind # "free" /\ Src(k) # Source /\ Source \in Inos
    BY <1>1, <1>5, <1>9, AtNames
  <2>3. Src(k) # Src(n)
    BY <1>1, <1>5, <1>9, <2>1, <2>2, TwoNames DEF Src
  <2> QED BY <1>2, <2>1, <2>2, <2>3
<1>10. SubInv'
  <2> SUFFICES ASSUME NEW k \in Names, Sub(k)'
               PROVE  /\ Top.pass = 1
                      /\ pc \in {"readdir", "stat", "end"} =>
                             Top.left = Unread \/ k \in Top.left \/ (pc = "stat" /\ Top.entry = k)
    BY <1>6 DEF SubInv
  <2>1. Alone(k)' /\ Src(k)' # 0 /\ node'[Src(k)'].kind = "dir"
    BY DEF Sub
  <2>2. Src(k)' = Src(k)
    BY <1>2, <1>3, <1>5, <2>1
  <2>3. Sub(k)
    BY <1>9, <2>1, <2>2 DEF Sub
  <2> QED BY <2>3 DEF HwInv, SubInv
<1>11. PassOneInv'
  <2> SUFFICES ASSUME Top.pass = 1, NEW m \in Names
               PROVE  /\ Dst(m) = OldDst(m) /\ (OldDst(m) # 0 => node'[OldDst(m)] = start.tree[OldDst(m)])
                      /\ \A k \in Names : OldBelow(m, k) # 0 => node'[OldBelow(m, k)] = start.tree[OldBelow(m, k)]
    BY <1>2, <1>4, <1>5, <1>6 DEF PassOneInv
  <2>1. /\ Dst(m) = OldDst(m) /\ (OldDst(m) # 0 => node[OldDst(m)] = start.tree[OldDst(m)])
        /\ \A k \in Names : OldBelow(m, k) # 0 => node[OldBelow(m, k)] = start.tree[OldBelow(m, k)]
    BY DEF HwInv, PassOneInv
  <2> QED BY <1>1, <2>1, DestApart
<1>12. CopyInv'
  <2>1. ASSUME pc \in {"creat", "copy"}
        PROVE  /\ input \in Inos /\ node'[input].kind # "free" /\ \A m \in AllNames \ {"."} : Dst(m)' # input
               /\ \A k \in Names : Top.entry = k => input \in Hads(k)' /\ (Alone(k)' => input = Src(k)')
    <3>1. /\ input \in Inos /\ node[input].kind # "free" /\ \A m \in AllNames \ {"."} : Dst(m) # input
          /\ \A k \in Names : Top.entry = k => input \in Hads(k) /\ (Alone(k) => input = Src(k))
      BY <2>1 DEF HwInv, CopyInv
    <3> QED BY <1>2, <1>3, <1>5, <3>1
  <2>2. ASSUME pc = "copy"
        PROVE  /\ \A m \in AllNames : Top.entry = m => output = Dst(m)'
               /\ output # 0 /\ node'[output].kind = "file"
               /\ Noticed => pos = Len(node'[output].data) /\ \A k \in Names : Top.entry = k => Taken(k)'
    <3>1. /\ \A m \in AllNames : Top.entry = m => output = Dst(m)
          /\ output # 0 /\ node[output].kind = "file"
          /\ Noticed => pos = Len(node[output].data) /\ \A k \in Names : Top.entry = k => Taken(k)
      BY <2>2 DEF HwInv, CopyInv
    <3>2. Top.entry \in AllNames \ {"."}
      BY <2>2 DEF HwInv, FrameInv
    <3>3. output \in Inos /\ output # Source /\ output # Src(n)
      BY <1>1, <3>1, <3>2, AtNames, DestApart DEF SourceStep
    <3>4. node'[output] = node[output]
      BY <1>2, <3>1, <3>3
    <3>5. ASSUME NEW k \in Names, Top.entry = k, Taken(k) PROVE Taken(k)'
      <4>1. MadeOf(had', k, input, node[output].data)
        BY <1>3, <3>5, StillMade DEF Taken
      <4>2. ASSUME Alone(k)' PROVE Begins(node[output].data, node'[input].data)
        <5>1. Alone(k) /\ input = Src(k) /\ input \in Inos
          BY <1>3, <2>2, <3>5, <4>2 DEF HwInv, CopyInv
        <5>2. node'[input] = node[input]
          BY <1>5, <1>9, <4>2, <5>1
        <5> QED BY <3>5, <5>1, <5>2 DEF Taken
      <4> QED BY <1>6, <3>4, <4>1, <4>2 DEF Taken
    <3> QED BY <1>2, <3>1, <3>2, <3>4, <3>5
  <2>3. pc \in {"creat", "copy"} => pos \in Nat
    BY DEF HwInv, CopyInv
  <2>4. pc = "creat" => pos = 0
    BY DEF HwInv, CopyInv
  <2> QED BY <1>3, <1>6, <2>1, <2>2, <2>3, <2>4 DEF CopyInv
<1>13. DoneInv'
  <2> SUFFICES ASSUME Top.pass = 2, NEW k \in Names, Wanted(k)'
               PROVE  \/ Top.left = Unread \/ k \in Top.left
                      \/ Top.entry = k /\ pc \in {"stat", "open", "creat", "copy"}
                      \/ Copied(k)'
    BY <1>6 DEF DoneInv
  <2>1. Alone(k)' /\ OldSrc(k) # 0 /\ Wanted(k)
    BY <1>2, <1>3, <1>4, <1>5, <1>6 DEF Wanted
  <2>2. Src(k) = OldSrc(k)
    BY <1>3, <2>1 DEF HwInv, DiskInv, SrcInv
  <2>3. Src(k)' = Src(k) /\ node'[Src(k)] = node[Src(k)]
    BY <1>9, <2>1, <2>2
  <2>4. Dst(k)' = Dst(k) /\ (Dst(k) # 0 => node'[Dst(k)] = node[Dst(k)])
    BY <1>1, <1>2, <1>5, DestApart
  <2>5. Copied(k) => Copied(k)'
    BY <2>3, <2>4 DEF Copied
  <2> QED BY <2>1, <2>5 DEF HwInv, DoneInv
<1> QED BY <1>1, <1>8, <1>10, <1>11, <1>12, <1>13, MeddleDisk DEF HwInv

-----------------------------------------------------------------------------
(* The file that is made                                                    *)

LEMMA ToAndFrom ==
    ASSUME TreeInv, WayInv, FrameInv
    PROVE  /\ Top.entry \in AllNames /\ Top.src = start.src /\ Top.dst = start.dst
           /\ Lookup(From) = Src(Top.entry)
           /\ To = Append(start.dst, Top.entry) /\ Front(To) = start.dst /\ Lookup(To) = Dst(Top.entry)
           /\ Lookup(start.dst) = Dest /\ Lookup(start.src) = Source
<1>1. Top.entry \in AllNames /\ Top.src = start.src /\ Top.dst = start.dst /\ Directory
  BY DEF FrameInv, TreeInv, Hw2
<1>2. start.dst \in Seq(AllNames)
  BY AtTheStart DEF TreeInv, Paths
<1>3. From = start.src \o <<Top.entry>> /\ To = start.dst \o <<Top.entry>>
  BY <1>1 DEF From, To
<1>4. start.src \o <<Top.entry>> = Append(start.src, Top.entry) /\ start.dst \o <<Top.entry>> = Append(start.dst, Top.entry)
  BY <1>1, Places
<1>5. Front(Append(start.dst, Top.entry)) = start.dst
  BY <1>1, <1>2, Appended
<1> QED BY <1>1, <1>3, <1>4, <1>5, Places

\* A file at a name of the destination is rewritten.
LEMMA RewriteStep ==
    ASSUME DiskInv, start' = start, Source # 0, NEW n \in AllNames \ {NoName, "."}, Dst(n) # 0,
           Rewrites(node, node', Dst(n))
    PROVE  DestStep(n) /\ Dst(n)' = Dst(n)
<1>1. TreeInv /\ WayInv /\ IsTree(node) /\ DOMAIN node = Inos /\ Dst(n) \in Inos /\ Dest \in Inos /\ 0 \notin Inos
  BY AtNames DEF DiskInv
<1>2. Dest # 0 /\ Dest' = Dest
  BY <1>1 DEF Dest
<1>3. /\ IsTree(node') /\ DOMAIN node' = Inos
      /\ \A x \in Inos \cup {0}, m \in AllNames : Entry(node', x, m) = Entry(node, x, m)
  BY <1>1, RewritesTree, RewritesEntry DEF Rewrites
<1>4. \A x \in Inos : node'[x].kind = node[x].kind /\ (x # Dst(n) => node'[x] = node[x])
  BY <1>1 DEF Rewrites
<1>5. TreeInv'
  BY <1>1, <1>3, <1>4, TreeKept
<1>6. Dst(n)' = Dst(n)
  BY <1>1, <1>2, <1>3 DEF Dst
<1>7. Dst(n) # 0 => Entry(node', Dest, n) = Dst(n)
  BY <1>2, <1>6 DEF Dst
<1>8. WayInv' /\ \A m \in AllNames : Src(m)' = Src(m) /\ (m # n => Dst(m)' = Dst(m))
  BY <1>1, <1>2, <1>3, <1>7, DestWays
<1>9. node[Dst(n)].kind = "file" /\ node'[Dst(n)].kind = "file"
  BY DEF Rewrites
<1> QED BY <1>1, <1>2, <1>4, <1>5, <1>6, <1>8, <1>9 DEF DestStep

\* A file is made there.
LEMMA GrowStep ==
    ASSUME DiskInv, start' = start, Source # 0, NEW n \in AllNames \ {NoName, "."}, Dst(n) = 0,
           NEW i, Grows(node, node', Dest, n, i), node'[i].kind = "file"
    PROVE  DestStep(n) /\ Dst(n)' = i
<1>1. TreeInv /\ WayInv /\ IsTree(node) /\ DOMAIN node = Inos /\ Dest \in Inos /\ 0 \notin Inos
  BY AtNames DEF DiskInv, Grows
<1>2. Dest # 0 /\ Dest' = Dest
  BY <1>1 DEF Dest
<1>3. /\ IsTree(node') /\ DOMAIN node' = Inos
      /\ \A x \in Inos \cup {0}, m \in AllNames :
             Entry(node', x, m) = IF x = Dest /\ x # 0 /\ m = n THEN i ELSE Entry(node, x, m)
  BY <1>1, GrowsTree, GrowsEntry DEF Grows
<1>4. \A x \in Inos : node[x].kind # "free" =>
          /\ node'[x].kind = node[x].kind /\ node'[x].data = node[x].data
          /\ x # Dest => node'[x] = node[x]
  BY <1>1 DEF Grows
<1>5. TreeInv'
  BY <1>1, <1>3, <1>4, TreeKept
<1>6. Dst(n)' = i /\ i \in Inos /\ node[i].kind = "free"
  BY <1>1, <1>2, <1>3 DEF Dst, Grows
<1>7. WayInv' /\ \A m \in AllNames : Src(m)' = Src(m) /\ (m # n => Dst(m)' = Dst(m))
  BY <1>1, <1>2, <1>3, DestWays
<1> QED BY <1>1, <1>2, <1>4, <1>5, <1>6, <1>7 DEF DestStep

LEMMA CreateStep ==
    ASSUME HwInv, CreateOutput, pc' = "copy"
    PROVE  /\ UNCHANGED <<start, frames, input, pos, status, faults, touched, had>>
           /\ pc = "creat" /\ status = "running"
           /\ \A n \in AllNames : Top.entry = n =>
                 DestStep(n) /\ output' = Dst(n)' /\ node'[output'].data = <<>>
<1>1. DiskInv /\ TreeInv /\ WayInv /\ FrameInv
  BY DEF HwInv, DiskInv
<1>2. /\ pc = "creat" /\ status = "running"
      /\ ~(IsDir(To) \/ ~IsDir(Front(To)) \/ (~Exists(To) /\ ~Room))
      /\ node' = IF Exists(To) THEN Emptied ELSE Added(To, File({"owner", "group"}, <<>>))
      /\ output' = IF Exists(To) THEN Lookup(To) ELSE NewIno
      /\ UNCHANGED <<start, frames, input, pos, status, faults, touched, had>>
  BY DEF CreateOutput, Ready, Oops
<1>3. Top.entry \in AllNames \ {NoName, "."} /\ Source # 0
  BY <1>1, <1>2 DEF FrameInv
<1> SUFFICES ASSUME NEW n \in AllNames \ {NoName, "."}, Top.entry = n
             PROVE  DestStep(n) /\ output' = Dst(n)' /\ node'[output'].data = <<>>
  BY <1>2, <1>3
<1>4. /\ To = Append(start.dst, n) /\ Front(To) = start.dst /\ Lookup(To) = Dst(n) /\ Lookup(start.dst) = Dest
      /\ start.dst \in Paths
  BY <1>1, ToAndFrom, AtTheStart DEF TreeInv
<1>5. CASE Exists(To)
  <2>1. Dst(n) # 0 /\ node[Dst(n)].kind # "dir" /\ output' = Dst(n)
    BY <1>2, <1>4, <1>5 DEF Exists, IsDir
  <2>2. Dst(n) \in Inos /\ node[Dst(n)].kind # "free" /\ DOMAIN node = Inos /\ IsTree(node)
    BY <1>1, <2>1, AtNames
  <2>3. IsNode(node[Dst(n)]) /\ node[Dst(n)].kind = "file"
    BY <2>1, <2>2 DEF IsTree, IsNode
  <2>4. node' = [node EXCEPT ![Dst(n)].data = <<>>]
    BY <1>2, <1>4, <1>5 DEF Emptied
  <2> DEFINE i == Dst(n)
  <2> HIDE DEF i
  <2>5. i \in Inos /\ IsNode(node[i]) /\ node[i].kind = "file" /\ node' = [node EXCEPT ![i].data = <<>>]
    BY <2>2, <2>3, <2>4 DEF i
  <2>6. DOMAIN node' = Inos /\ (\A x \in Inos \ {i} : node'[x] = node[x])
        /\ node'[i] = [kind |-> "file", mode |-> node[i].mode, data |-> <<>>, names |-> node[i].names]
    BY <2>2, <2>5 DEF IsNode
  <2>7. <<>> \in Seq(Blocks) /\ DOMAIN node[i].names = {}
    BY <2>5 DEF IsNode
  <2>8. IsNode(node'[i])
    BY <2>6, <2>7 DEF IsNode
  <2>9. Rewrites(node, node', i) /\ node'[i].data = <<>>
    BY <2>2, <2>5, <2>6, <2>8 DEF Rewrites
  <2>10. DestStep(n) /\ Dst(n)' = Dst(n)
    BY <1>1, <1>2, <1>3, <2>1, <2>9, RewriteStep DEF i
  <2> QED BY <2>1, <2>9, <2>10 DEF i
<1>6. CASE ~Exists(To)
  <2> DEFINE new == File({"owner", "group"}, <<>>)
  <2>1. new = [kind |-> "file", mode |-> {"owner", "group"}, data |-> <<>>, names |-> <<>>]
    BY DEF File
  <2>2. IsNode(new) /\ new.kind = "file" /\ DOMAIN new.names = {} /\ new.data = <<>>
    <3>1. <<>> \in Seq(Blocks)
      OBVIOUS
    <3>2. DOMAIN <<>> = {}
      OBVIOUS
    <3>3. new.kind = "file" /\ new.names = <<>> /\ new.data = <<>>
      BY <2>1
    <3> HIDE DEF new
    <3> QED BY <2>1, <3>1, <3>2, <3>3 DEF IsNode
  <2>3. Dst(n) = 0 /\ Lookup(Append(start.dst, n)) = 0 /\ Room /\ IsDir(start.dst)
        /\ node' = Added(Append(start.dst, n), new) /\ output' = NewIno
    BY <1>2, <1>4, <1>6 DEF Exists
  <2> HIDE DEF new
  <2>4. Grows(node, node', Dest, n, NewIno) /\ node'[NewIno] = new
    BY <1>1, <1>4, <2>2, <2>3, AddedGrows DEF TreeInv
  <2>5. DestStep(n) /\ Dst(n)' = NewIno
    BY <1>1, <1>2, <1>3, <2>2, <2>3, <2>4, GrowStep
  <2> QED BY <2>2, <2>3, <2>4, <2>5
<1> QED BY <1>5, <1>6

\* A block is written.
LEMMA BlockStep ==
    ASSUME HwInv, CopyBlock, More
    PROVE  /\ UNCHANGED <<start, frames, pc, input, output, status, faults, touched, had>>
           /\ pc = "copy" /\ status = "running" /\ pos' = pos + 1
           /\ \A n \in AllNames : Top.entry = n =>
                 /\ DestStep(n) /\ output = Dst(n) /\ Dst(n)' = Dst(n)
                 /\ node'[output].data = Append(node[output].data, node[input].data[pos + 1])
<1>1. DiskInv /\ TreeInv /\ WayInv /\ FrameInv
  BY DEF HwInv, DiskInv
<1>2. /\ pc = "copy" /\ status = "running" /\ pos' = pos + 1
      /\ node' = [node EXCEPT ![output].data = Append(@, node[input].data[pos + 1])]
      /\ UNCHANGED <<start, frames, pc, input, output, status, faults, touched, had>>
  BY DEF CopyBlock, Ready, Oops
<1>3. Top.entry \in AllNames \ {NoName, "."} /\ Source # 0
  BY <1>1, <1>2 DEF FrameInv
<1> SUFFICES ASSUME NEW n \in AllNames \ {NoName, "."}, Top.entry = n
             PROVE  /\ DestStep(n) /\ output = Dst(n) /\ Dst(n)' = Dst(n)
                    /\ node'[output].data = Append(node[output].data, node[input].data[pos + 1])
  BY <1>2, <1>3
<1>4. output = Dst(n) /\ output # 0 /\ node[output].kind = "file" /\ input \in Inos /\ pos \in Nat
  BY <1>2 DEF HwInv, CopyInv
<1>5. output \in Inos /\ DOMAIN node = Inos /\ IsTree(node)
  BY <1>1, <1>4, AtNames
<1> DEFINE s == node[output].data  b == node[input].data[pos + 1]  t == Append(s, b)
<1>6. s \in Seq(Blocks) /\ b \in Blocks
  <2>1. node[input].data \in Seq(Blocks) /\ Len(node[input].data) \in Nat /\ pos + 1 \in 1..Len(node[input].data)
    BY <1>1, <1>4, DataType DEF More
  <2>2. b \in Blocks
    BY <2>1, ElementOfSeq
  <2> QED BY <1>1, <1>5, <2>2, DataType
<1>7. t \in Seq(Blocks)
  BY <1>6, Appended
<1>8. IsNode(node[output])
  BY <1>5 DEF IsTree
<1>9. DOMAIN node' = Inos /\ (\A x \in Inos \ {output} : node'[x] = node[x])
      /\ node'[output] = [kind |-> "file", mode |-> node[output].mode, data |-> t, names |-> node[output].names]
  BY <1>2, <1>4, <1>5, <1>8 DEF IsNode
<1> HIDE DEF t
<1>10. DOMAIN node[output].names = {}
  BY <1>4, <1>8 DEF IsNode
<1>11. IsNode(node'[output])
  BY <1>7, <1>9, <1>10 DEF IsNode
<1>12. Rewrites(node, node', output) /\ node'[output].data = t
  BY <1>4, <1>5, <1>9, <1>11 DEF Rewrites
<1>13. DestStep(n) /\ Dst(n)' = Dst(n)
  BY <1>1, <1>2, <1>3, <1>4, <1>12, RewriteStep
<1> QED BY <1>4, <1>12, <1>13 DEF t

LEMMA DestDisk ==
    ASSUME DiskInv, NEW n \in AllNames \ {NoName, "."}, DestStep(n), Source # 0, node[Source].kind = "dir",
           UNCHANGED <<start, touched, had, faults>>,
           n \in Names /\ Noticed => \E j \in Hads(n) : MadeOf(had, n, j, node'[Dst(n)'].data)
    PROVE  DiskInv'
<1>1. /\ TreeInv' /\ WayInv' /\ Dest # 0
      /\ \A m \in AllNames : Src(m)' = Src(m) /\ (m # n => Dst(m)' = Dst(m))
      /\ Dst(n)' # 0 /\ Dst(n)' \in Inos /\ node'[Dst(n)'].kind = "file"
      /\ \/ Dst(n)' = Dst(n) /\ node[Dst(n)].kind = "file"
         \/ Dst(n) = 0 /\ node[Dst(n)'].kind = "free"
      /\ \A x \in Inos : node[x].kind # "free" =>
            /\ node'[x].kind = node[x].kind
            /\ x # Dst(n) => node'[x].data = node[x].data
            /\ x \notin {Dest, Dst(n)} => node'[x] = node[x]
  BY DEF DestStep
<1>2. /\ Source' = Source /\ Dest' = Dest /\ Noticed' = Noticed
      /\ \A k \in Names : Alone(k)' = Alone(k) /\ Hads(k)' = Hads(k)
      /\ \A k \in AllNames : OldSrc(k)' = OldSrc(k) /\ OldDst(k)' = OldDst(k)
      /\ \A k, m \in AllNames : OldBelow(k, m)' = OldBelow(k, m)
  BY DEF Source, Dest, OldSrc, OldDst, OldBelow, Alone, Hads, Noticed, Tutor
<1>3. Names \subseteq AllNames \ {NoName, "."} /\ 0 \notin Inos
  BY NamesType
<1>4. \A k \in Names : \A j \in Hads(k) : /\ j \in Inos /\ node[j].kind # "free" /\ j # Dst(n)
                                         /\ node'[j].kind = node[j].kind /\ node'[j].data = node[j].data
  BY <1>1 DEF DiskInv, HadInv
<1>5. SrcInv'
  <2> SUFFICES ASSUME NEW k \in Names, Alone(k)'
               PROVE  /\ Src(k)' = OldSrc(k)'
                      /\ Src(k)' # 0 /\ node'[Src(k)'].kind = "file" => node'[Src(k)'] = start'.tree[Src(k)']
    BY DEF SrcInv
  <2>1. /\ Alone(k) /\ Src(k)' = Src(k) /\ OldSrc(k)' = OldSrc(k) /\ Src(k) = OldSrc(k)
        /\ Src(k) # 0 /\ node[Src(k)].kind = "file" => node[Src(k)] = start.tree[Src(k)]
    BY <1>1, <1>2, <1>3 DEF DiskInv, SrcInv
  <2>2. Src(k) # 0 => Src(k) \in Hads(k)
    BY DEF DiskInv, HadInv
  <2>3. CASE Src(k) # 0 /\ node'[Src(k)].kind = "file"
    <3>1. node[Src(k)].kind = "file" /\ Src(k) \in Inos /\ Src(k) # Dst(n)
      BY <1>4, <2>2, <2>3
    <3>2. node[Dest].kind = "dir"
      <4>1. Dst(n)' = Entry(node', Dest, n)
        BY <1>2 DEF Dst
      <4>2. IsTree(node') /\ DOMAIN node' = Inos /\ Dest \in Inos
        BY <1>1, Places DEF TreeInv, DiskInv
      <4>3. node'[Dest].kind = "dir"
        BY <1>1, <1>3, <4>1, <4>2, EntryType
      <4>4. node[Dest].kind = start.tree[Dest].kind /\ start.tree[Dest].kind # "free"
        BY <1>1, Places, AtTheStart DEF DiskInv, TreeInv
      <4> QED BY <1>1, <4>2, <4>3, <4>4
    <3> QED BY <1>1, <2>1, <3>1, <3>2
  <2> QED BY <2>1, <2>3
<1>6. HadInv'
  <2> SUFFICES ASSUME NEW k \in Names
               PROVE  /\ Src(k)' \in Hads(k)' \cup {0}
                      /\ \A j \in Hads(k)' : /\ j \in Inos /\ node'[j].kind # "free"
                                             /\ \A m \in AllNames \ {"."} : Dst(m)' # j
    BY DEF HadInv
  <2>1. Src(k)' \in Hads(k)' \cup {0}
    BY <1>1, <1>2, <1>3 DEF DiskInv, HadInv
  <2>2. ASSUME NEW j \in Hads(k), NEW m \in AllNames \ {"."} PROVE Dst(m)' # j
    <3>1. Dst(m) # j
      BY DEF DiskInv, HadInv
    <3> QED BY <1>1, <1>4, <3>1
  <2> QED BY <1>2, <1>4, <2>1, <2>2
<1>7. DestInv'
  <2> SUFFICES ASSUME NEW k \in Names
               PROVE  /\ OldDst(k) # 0 => Dst(k)' = OldDst(k)
                      /\ Dst(k)' # 0 =>
                            \/ Dst(k)' = OldDst(k) /\ node'[Dst(k)'] = start.tree[Dst(k)']
                            \/ /\ node'[Dst(k)'].kind = "file"
                               /\ Noticed => \E j \in Hads(k) : MadeOf(had, k, j, node'[Dst(k)'].data)
    BY <1>2, <1>3 DEF DestInv
  <2>1. /\ OldDst(k) # 0 => Dst(k) = OldDst(k)
        /\ Dst(k) # 0 =>
              \/ Dst(k) = OldDst(k) /\ node[Dst(k)] = start.tree[Dst(k)]
              \/ /\ node[Dst(k)].kind = "file"
                 /\ Noticed => \E j \in Hads(k) : MadeOf(had, k, j, node[Dst(k)].data)
    BY DEF DiskInv, DestInv
  <2>2. CASE k = n
    BY <1>1, <1>4, <2>1, <2>2
  <2>3. CASE k # n
    <3>1. Dst(k)' = Dst(k)
      BY <1>1, <1>3, <2>3
    <3>2. Dst(k) # 0 => /\ Dst(k) \in Inos /\ node[Dst(k)].kind # "free" /\ Dst(k) # Dest /\ Dest \in Inos
      BY <1>3, AtNames
    <3>3. Dst(k) # 0 => Dst(k) # Dst(n)
      BY <1>3, <2>3, <3>2, TwoNames DEF Dst
    <3>4. Dst(k) # 0 => node'[Dst(k)] = node[Dst(k)]
      BY <1>1, <3>2, <3>3
    <3> QED BY <1>4, <2>1, <3>1, <3>4
  <2> QED BY <2>2, <2>3
<1>8. DeepInv'
  <2> SUFFICES ASSUME NEW k \in Names, NEW m \in Names, OldBelow(k, m) # 0
               PROVE  /\ node'[OldDst(k)] = start.tree[OldDst(k)]
                      /\ OldBelow(k, m) = Dest \/ node'[OldBelow(k, m)] = start.tree[OldBelow(k, m)]
    BY <1>2, <1>3 DEF DeepInv
  <2>1. /\ OldDst(k) # 0 /\ OldDst(k) \in Inos /\ node[OldDst(k)].kind = "dir"
        /\ OldBelow(k, m) \in Inos /\ node[OldBelow(k, m)].kind # "free"
        /\ OldBelow(k, m) = Entry(node, OldDst(k), m)
    BY AtBelow
  <2>2. OldDst(k) # Dest /\ Dst(k) = OldDst(k)
    BY <2>1, AtNames
  <2>3. OldDst(k) # Dst(n)
    <3>1. CASE k = n
      BY <1>1, <2>1, <2>2, <3>1
    <3>2. CASE k # n
      <4>1. Dest \in Inos
        BY <1>3, <2>1, <2>2, AtNames
      <4> QED BY <1>3, <2>1, <2>2, <3>2, <4>1, TwoNames DEF Dst
    <3> QED BY <3>1, <3>2
  <2>4. OldBelow(k, m) # Dst(n)
    <3>1. Dest \in Inos
      BY <1>3, <2>1, <2>2, AtNames
    <3> QED BY <1>3, <2>1, <2>2, <3>1, TwoNames DEF Dst
  <2>5. node[OldDst(k)] = start.tree[OldDst(k)] /\ (OldBelow(k, m) = Dest \/ node[OldBelow(k, m)] = start.tree[OldBelow(k, m)])
    BY DEF DiskInv, DeepInv
  <2> QED BY <1>1, <2>1, <2>2, <2>3, <2>4, <2>5
<1>9. HistInv'
  BY <1>2, <1>4 DEF DiskInv, HistInv
<1> QED BY <1>1, <1>5, <1>6, <1>7, <1>8, <1>9 DEF DiskInv

LEMMA DestRest ==
    ASSUME HwInv, NEW n \in AllNames, Top.entry = n, DestStep(n), status = "running",
           pc \in {"creat", "copy"}, pc' = "copy",
           UNCHANGED <<start, frames, input, status, faults, touched, had>>,
           output' = Dst(n)', pos' \in Nat,
           Noticed => pos' = Len(node'[output'].data),
           n \in Names /\ Noticed => MadeOf(had, n, input, node'[output'].data),
           n \in Names /\ Noticed /\ Alone(n) => Begins(node'[output'].data, node[input].data)
    PROVE  HwInv'
<1>1. DiskInv /\ TreeInv /\ WayInv /\ FrameInv
  BY DEF HwInv, DiskInv
<1>2. /\ TreeInv' /\ WayInv'
      /\ \A m \in AllNames : Src(m)' = Src(m) /\ (m # n => Dst(m)' = Dst(m))
      /\ Dst(n)' # 0 /\ Dst(n)' \in Inos /\ node'[Dst(n)'].kind = "file"
      /\ \/ Dst(n)' = Dst(n) /\ node[Dst(n)].kind = "file"
         \/ Dst(n) = 0 /\ node[Dst(n)'].kind = "free"
      /\ \A x \in Inos : node[x].kind # "free" =>
            /\ node'[x].kind = node[x].kind
            /\ x # Dst(n) => node'[x].data = node[x].data
            /\ x \notin {Dest, Dst(n)} => node'[x] = node[x]
  BY DEF DestStep
<1>3. /\ Source' = Source /\ Dest' = Dest /\ Noticed' = Noticed /\ Top' = Top /\ Tutor' = Tutor
      /\ \A k \in Names : Alone(k)' = Alone(k) /\ Hads(k)' = Hads(k)
      /\ \A k \in AllNames : OldSrc(k)' = OldSrc(k) /\ OldDst(k)' = OldDst(k)
  BY DEF Source, Dest, OldSrc, OldDst, Alone, Hads, Noticed, Tutor, Top
<1>4. Names \subseteq AllNames \ {NoName, "."} /\ 0 \notin Inos /\ n \in AllNames \ {NoName, "."}
  BY <1>1, NamesType DEF FrameInv
<1>5. Source # 0 /\ node[Source].kind = "dir" /\ Top.pass = 2
  BY <1>1 DEF FrameInv
<1>6. /\ input \in Inos /\ node[input].kind # "free" /\ (\A m \in AllNames \ {"."} : Dst(m) # input)
      /\ \A k \in Names : n = k => input \in Hads(k) /\ (Alone(k) => input = Src(k))
  BY DEF HwInv, CopyInv
<1>7. DiskInv'
  <2>1. ASSUME n \in Names, Noticed PROVE \E j \in Hads(n) : MadeOf(had, n, j, node'[Dst(n)'].data)
    <3>1. input \in Hads(n) /\ output' = Dst(n)'
      BY <1>6, <2>1
    <3>2. MadeOf(had, n, input, node'[output'].data)
      BY <2>1
    <3> QED BY <3>1, <3>2
  <2> QED BY <1>1, <1>4, <1>5, <2>1, DestDisk
<1>8. FrameInv'
  <2>1. Source \in Inos /\ node[Source].kind # "free"
    BY <1>1, <1>5, Places
  <2>2. node'[Source].kind = node[Source].kind
    BY <1>2, <2>1
  <2> QED BY <1>1, <1>3, <1>4, <1>5, <2>2 DEF FrameInv
<1>9. SubInv'
  <2>1. ASSUME NEW k \in Names, Sub(k)' PROVE Sub(k)
    <3>1. Alone(k) /\ Src(k)' = Src(k) /\ Src(k) # 0 /\ node'[Src(k)].kind = "dir"
      BY <1>2, <1>3, <1>4, <2>1 DEF Sub
    <3>2. Src(k) \in Inos /\ node[Src(k)].kind # "free"
      BY <1>1, <1>4, <3>1, AtNames
    <3> QED BY <1>2, <3>1, <3>2 DEF Sub
  <2> QED BY <1>5, <2>1 DEF HwInv, SubInv
<1>10. PassOneInv'
  BY <1>3, <1>5 DEF PassOneInv
<1>11. CopyInv'
  <2>1. /\ input \in Inos /\ node'[input].kind # "free" /\ node'[input].data = node[input].data
        /\ \A m \in AllNames \ {"."} : Dst(m)' # input
    BY <1>2, <1>4, <1>6
  <2>2. \A k \in Names : Top.entry = k => input \in Hads(k)' /\ (Alone(k)' => input = Src(k)')
    BY <1>2, <1>3, <1>4, <1>6
  <2>3. ASSUME n \in Names, Noticed PROVE Taken(n)'
    <3>1. MadeOf(had, n, input, node'[output'].data)
      BY <2>3
    <3>2. Alone(n)' => Begins(node'[output'].data, node'[input'].data)
      BY <1>3, <2>1, <2>3
    <3> QED BY <3>1, <3>2 DEF Taken
  <2> QED BY <1>2, <1>3, <2>1, <2>2, <2>3 DEF CopyInv
<1>12. DoneInv'
  <2> SUFFICES ASSUME NEW k \in Names, Wanted(k)', k # n
               PROVE  Top.left = Unread \/ k \in Top.left \/ Copied(k)'
    BY <1>3 DEF DoneInv
  <2>1. Wanted(k)
    BY <1>2, <1>3, <1>4 DEF Wanted
  <2>2. Top.left = Unread \/ k \in Top.left \/ Copied(k)
    BY <1>5, <2>1 DEF HwInv, DoneInv
  <2>3. Src(k) = OldSrc(k) /\ Src(k) # 0
    BY <2>1 DEF Wanted, HwInv, DiskInv, SrcInv
  <2>4. Src(k) \in Inos /\ node[Src(k)].kind # "free" /\ Src(k) # Dst(n) /\ Src(k)' = Src(k)
    BY <1>1, <1>2, <1>4, <2>3, AtNames DEF DiskInv, HadInv
  <2>5. ASSUME Copied(k) PROVE Copied(k)'
    <3>1. Dst(k)' = Dst(k) /\ Dst(k) # 0 /\ node[Dst(k)].data = node[Src(k)].data
      BY <1>2, <1>4, <2>5 DEF Copied
    <3>2. Dst(k) \in Inos /\ node[Dst(k)].kind # "free" /\ Dest \in Inos
      BY <1>1, <1>4, <3>1, AtNames
    <3>3. Dst(k) # Dst(n)
      BY <1>1, <1>4, <3>1, <3>2, TwoNames DEF Dst
    <3> QED BY <1>2, <2>4, <3>1, <3>2, <3>3 DEF Copied
  <2> QED BY <2>2, <2>5
<1> QED BY <1>7, <1>8, <1>9, <1>10, <1>11, <1>12 DEF HwInv

LEMMA CreateRest == ASSUME HwInv, CreateOutput, pc' = "copy" PROVE HwInv'
<1>1. /\ UNCHANGED <<start, frames, input, pos, status, faults, touched, had>>
      /\ pc = "creat" /\ status = "running"
      /\ \A n \in AllNames : Top.entry = n =>
            DestStep(n) /\ output' = Dst(n)' /\ node'[output'].data = <<>>
  BY CreateStep
<1>2. PICK n \in AllNames : Top.entry = n
  BY DEF HwInv, FrameInv
<1>3. pos = 0
  BY <1>1 DEF HwInv, CopyInv
<1>4. input \in Inos /\ TreeInv
  BY <1>1 DEF HwInv, CopyInv, DiskInv
<1>5. Len(<<>>) = 0 /\ Begins(<<>>, node[input].data)
  <2>1. Len(node[input].data) \in Nat
    BY <1>4, DataType
  <2> QED BY <2>1 DEF Begins
<1>6. \A k : MadeOf(had, k, input, <<>>)
  BY DEF MadeOf
<1> QED BY <1>1, <1>2, <1>3, <1>5, <1>6, DestRest

LEMMA BlockRest == ASSUME HwInv, CopyBlock, More PROVE HwInv'
<1>1. /\ UNCHANGED <<start, frames, pc, input, output, status, faults, touched, had>>
      /\ pc = "copy" /\ status = "running" /\ pos' = pos + 1
      /\ \A n \in AllNames : Top.entry = n =>
            /\ DestStep(n) /\ output = Dst(n) /\ Dst(n)' = Dst(n)
            /\ node'[output].data = Append(node[output].data, node[input].data[pos + 1])
  BY BlockStep
<1>2. PICK n \in AllNames : Top.entry = n
  BY DEF HwInv, FrameInv
<1>3. /\ pos \in Nat /\ input \in Inos /\ TreeInv /\ output # 0
      /\ n \in Names => input \in Hads(n)
      /\ Noticed => pos = Len(node[output].data) /\ (n \in Names => Taken(n))
  BY <1>1, <1>2 DEF HwInv, CopyInv, DiskInv
<1>4. output \in Inos
  <2>1. n # "." /\ DiskInv
    BY <1>1, <1>2 DEF HwInv, FrameInv
  <2> QED BY <1>1, <1>2, <1>3, <2>1, AtNames
<1> DEFINE s == node[output].data  u == node[input].data  t == Append(s, u[pos + 1])
<1>5. s \in Seq(Blocks) /\ u \in Seq(Blocks) /\ Len(s) \in Nat /\ Len(u) \in Nat /\ pos + 1 <= Len(u)
  BY <1>3, <1>4, DataType DEF More
<1> HIDE DEF s, u
<1>6. u[pos + 1] \in Blocks
  BY <1>3, <1>5, ElementOfSeq
<1>7. /\ Len(t) = Len(s) + 1 /\ t[Len(s) + 1] = u[pos + 1] /\ (\A i \in 1..Len(s) : t[i] = s[i])
      /\ DOMAIN t = 1..Len(s) + 1 /\ DOMAIN s = 1..Len(s) /\ DOMAIN u = 1..Len(u)
  <2>1. t \in Seq(Blocks) /\ Len(t) = Len(s) + 1 /\ t[Len(s) + 1] = u[pos + 1] /\ \A i \in 1..Len(s) : t[i] = s[i]
    BY <1>5, <1>6, Appended
  <2> HIDE DEF t
  <2> QED BY <1>5, <2>1, LenProperties
<1> HIDE DEF t
<1>8. ASSUME pos = Len(s), Begins(s, u) PROVE Begins(t, u)
  BY <1>3, <1>5, <1>7, <1>8 DEF Begins
<1>9. ASSUME pos = Len(s), n \in Names, MadeOf(had, n, input, s) PROVE MadeOf(had, n, input, t)
  <2>1. << <<n>>, input, u >> \in had
    BY <1>3, <1>9 DEF u, HwInv, DiskInv, HistInv
  <2>2. SUFFICES ASSUME NEW k \in DOMAIN t
                 PROVE  \E h \in had : h[1] = <<n>> /\ h[2] = input /\ k \in DOMAIN h[3] /\ t[k] = h[3][k]
    BY DEF MadeOf
  <2>3. CASE k \in DOMAIN s
    BY <1>7, <1>9, <2>3 DEF MadeOf
  <2>4. CASE k = pos + 1
    <3>1. k \in DOMAIN u /\ t[k] = u[k]
      BY <1>3, <1>5, <1>7, <1>9, <2>4
    <3> QED BY <2>1, <3>1
  <2> QED BY <1>5, <1>7, <1>9, <2>2, <2>3, <2>4
<1>11. Noticed => pos = Len(s) /\ (n \in Names => MadeOf(had, n, input, s) /\ (Alone(n) => Begins(s, u)))
  BY <1>3 DEF Taken, s, u
<1>12. /\ Noticed => pos' = Len(t)
       /\ n \in Names /\ Noticed => MadeOf(had, n, input, t) /\ (Alone(n) => Begins(t, u))
  BY <1>1, <1>7, <1>8, <1>9, <1>11
<1>13. node'[output].data = t
  BY <1>1, <1>2 DEF s, t, u
<1>10. pos' \in Nat /\ output' = Dst(n)' /\ output' = output /\ DestStep(n)
  BY <1>1, <1>2, <1>3
<1> QED BY <1>1, <1>2, <1>10, <1>12, <1>13, DestRest DEF u

-----------------------------------------------------------------------------
(* The steps that change nothing on the disk                                *)

LEMMA SamePlaces ==
    ASSUME UNCHANGED <<start, node, touched, had>>
    PROVE  /\ Source' = Source /\ Dest' = Dest /\ Tutor' = Tutor /\ Hw2' = Hw2
           /\ \A n \in AllNames : /\ Src(n)' = Src(n) /\ Dst(n)' = Dst(n)
                                  /\ OldSrc(n)' = OldSrc(n) /\ OldDst(n)' = OldDst(n)
                                  /\ Alone(n)' = Alone(n) /\ Hads(n)' = Hads(n)
                                  /\ Sub(n)' = Sub(n) /\ Copied(n)' = Copied(n)
                                  /\ input' = input /\ output' = output => Taken(n)' = Taken(n)
           /\ \A m, n \in AllNames : OldBelow(m, n)' = OldBelow(m, n)
<1>1. Source' = Source /\ Dest' = Dest /\ Tutor' = Tutor /\ Hw2' = Hw2
  BY DEF Source, Dest, Tutor, Hw2, Directory, KS
<1>2. \A n \in AllNames : Src(n)' = Src(n) /\ Dst(n)' = Dst(n) /\ OldSrc(n)' = OldSrc(n) /\ OldDst(n)' = OldDst(n)
  BY <1>1 DEF Src, Dst, OldSrc, OldDst
<1>3. \A n \in AllNames : Alone(n)' = Alone(n) /\ Hads(n)' = Hads(n)
  BY DEF Alone, Hads
<1>4. \A n \in AllNames : Sub(n)' = Sub(n) /\ Copied(n)' = Copied(n)
  BY <1>2, <1>3 DEF Sub, Copied
<1>5. \A m, n \in AllNames : OldBelow(m, n)' = OldBelow(m, n)
  BY <1>2 DEF OldBelow
<1>6. \A n \in AllNames : input' = input /\ output' = output => Taken(n)' = Taken(n)
  BY <1>3 DEF Taken
<1> QED BY <1>1, <1>2, <1>3, <1>4, <1>5, <1>6

LEMMA DiskKept ==
    ASSUME DiskInv, UNCHANGED <<start, node, touched, had>>, Noticed' => Noticed
    PROVE  DiskInv'
<1>1. TreeInv'
  BY SamePlaces DEF DiskInv, TreeInv
<1>2. WayInv'
  BY DEF DiskInv, WayInv
<1>3. Names \subseteq AllNames
  BY NamesType
<1>4. SrcInv' /\ HadInv'
  BY <1>3, SamePlaces DEF DiskInv, SrcInv, HadInv
<1>5. DestInv' /\ DeepInv' /\ HistInv'
  BY <1>3, SamePlaces DEF DiskInv, DestInv, DeepInv, HistInv
<1> QED BY <1>1, <1>2, <1>4, <1>5 DEF DiskInv

\* The program gives up, or its last call returns.
LEMMA StatusStep ==
    ASSUME HwInv, UNCHANGED <<start, node, frames, pc, input, output, pos, faults, touched, had>>,
           status' = "failed" \/ (status' = "done" /\ pc = "leave")
    PROVE  HwInv'
<1>1. Names \subseteq AllNames
  BY NamesType
<1>2. Top' = Top /\ (Noticed' = Noticed) /\ \A n \in Names : Wanted(n)' = Wanted(n)
  BY <1>1, SamePlaces DEF Top, Noticed, Wanted
<1>3. DiskInv'
  BY <1>2, DiskKept DEF HwInv
<1>4. FrameInv' /\ SubInv' /\ PassOneInv'
  BY <1>1, <1>2, SamePlaces DEF HwInv, FrameInv, SubInv, PassOneInv
<1>5. CopyInv' /\ DoneInv'
  BY <1>1, <1>2, SamePlaces DEF HwInv, CopyInv, DoneInv
<1> QED BY <1>3, <1>4, <1>5 DEF HwInv

LEMMA OneFrame ==
    ASSUME FrameInv, NEW t
    PROVE  Now(t) = <<t>> /\ Len(frames) = 1 /\ (frames' = <<t>> => Top' = t)
<1>1. frames = <<Top>>
  BY DEF FrameInv
<1> DEFINE u == Top
<1> HIDE DEF u
<1>2. frames = <<u>>
  BY <1>1 DEF u
<1>3. Front(<<u>>) = <<>>
  BY DEF Front
<1>4. Now(t) = <<t>>
  BY <1>2, <1>3 DEF Now
<1>5. Last(<<t>>) = t
  BY DEF Last
<1> QED BY <1>2, <1>4, <1>5 DEF Top

\* The rest of the invariant, when the program goes on with the same file.
LEMMA ControlStep ==
    ASSUME HwInv, UNCHANGED <<start, node, touched, had, faults>>, FrameInv',
           Top'.pass = Top.pass, pc' \notin {"creat", "copy"},
           SubInv', DoneInv'
    PROVE  HwInv'
<1>1. Names \subseteq AllNames
  BY NamesType
<1>2. Noticed' = Noticed
  BY SamePlaces DEF Noticed
<1>3. DiskInv'
  BY <1>2, DiskKept DEF HwInv
<1>4. PassOneInv'
  BY <1>1, SamePlaces DEF HwInv, PassOneInv
<1>5. CopyInv'
  BY DEF CopyInv
<1> QED BY <1>3, <1>4, <1>5 DEF HwInv

LEMMA SameWanted ==
    ASSUME UNCHANGED <<start, node, touched, had, faults>>
    PROVE  \A n \in Names : Wanted(n)' = Wanted(n)
<1>1. Names \subseteq AllNames
  BY NamesType
<1> QED BY <1>1, SamePlaces DEF Wanted

LEMMA SourceDir ==
    ASSUME TreeInv, WayInv, FrameInv
    PROVE  IsDir(Top.src) <=> Source # 0 /\ node[Source].kind = "dir"
BY ToAndFrom DEF IsDir, Exists

LEMMA EnterStep == ASSUME HwInv, EnterDirectory PROVE HwInv'
<1>1. DiskInv /\ TreeInv /\ WayInv /\ FrameInv /\ ~KS
  BY DEF HwInv, DiskInv, TreeInv, Hw2
<1>2. /\ pc = "enter" /\ status = "running"
      /\ UNCHANGED <<start, node, frames, input, output, pos, faults, touched, had>>
  BY <1>1 DEF EnterDirectory, Ready
<1>3. CASE Tutor /\ ~IsDir(Top.src)
  <2>1. status' = "failed" /\ pc' = pc
    BY <1>1, <1>3 DEF EnterDirectory
  <2> QED BY <1>2, <2>1, StatusStep
<1>4. CASE ~(Tutor /\ ~IsDir(Top.src))
  <2>1. pc' = (IF IsDir(Top.src) THEN "readdir" ELSE "leave") /\ status' = status
    BY <1>1, <1>4 DEF EnterDirectory
  <2>2. Top' = Top /\ Top.pass = 1 /\ Top.left = Unread
    BY <1>1, <1>2 DEF Top, FrameInv
  <2>3. FrameInv'
    BY <1>1, <1>2, <2>1, <2>2, SamePlaces, SourceDir DEF FrameInv
  <2>4. SubInv'
    BY <2>2 DEF SubInv
  <2>5. DoneInv'
    BY <2>2 DEF DoneInv
  <2> QED BY <1>2, <2>1, <2>2, <2>3, <2>4, <2>5, ControlStep
<1> QED BY <1>3, <1>4

\* A frame of which a part changes.
LEMMA Changed ==
    ASSUME NEW t, t = [src |-> t.src, dst |-> t.dst, pass |-> t.pass, left |-> t.left, entry |-> t.entry, info |-> t.info]
    PROVE  /\ \A e, m : [t EXCEPT !.entry = e, !.left = m] =
                [src |-> t.src, dst |-> t.dst, pass |-> t.pass, left |-> m, entry |-> e, info |-> t.info]
           /\ \A j : [t EXCEPT !.info = j] =
                [src |-> t.src, dst |-> t.dst, pass |-> t.pass, left |-> t.left, entry |-> t.entry, info |-> j]
           /\ \A q, m, j : [t EXCEPT !.pass = q, !.left = m, !.info = j] =
                [src |-> t.src, dst |-> t.dst, pass |-> q, left |-> m, entry |-> t.entry, info |-> j]
<1> DEFINE a == t.src  b == t.dst  p == t.pass  l == t.left  f == t.entry  i == t.info
<1>1. t = [src |-> a, dst |-> b, pass |-> p, left |-> l, entry |-> f, info |-> i]
  OBVIOUS
<1> HIDE DEF a, b, p, l, f, i
<1>2. ASSUME NEW e, NEW m
      PROVE  [t EXCEPT !.entry = e, !.left = m] = [src |-> a, dst |-> b, pass |-> p, left |-> m, entry |-> e, info |-> i]
  <2>1. PICK u : u = [t EXCEPT !.entry = e]
    OBVIOUS
  <2>2. u = [src |-> a, dst |-> b, pass |-> p, left |-> l, entry |-> e, info |-> i]
    BY <1>1, <2>1
  <2>3. [u EXCEPT !.left = m] = [src |-> a, dst |-> b, pass |-> p, left |-> m, entry |-> e, info |-> i]
    BY <2>2
  <2>4. [t EXCEPT !.entry = e, !.left = m] = [[t EXCEPT !.entry = e] EXCEPT !.left = m]
    BY <1>1
  <2> QED BY <2>1, <2>3, <2>4
<1>3. \A j : [t EXCEPT !.info = j] = [src |-> a, dst |-> b, pass |-> p, left |-> l, entry |-> f, info |-> j]
  BY <1>1
<1>4. ASSUME NEW q, NEW m, NEW j
      PROVE  [t EXCEPT !.pass = q, !.left = m, !.info = j] =
         [src |-> a, dst |-> b, pass |-> q, left |-> m, entry |-> f, info |-> j]
  <2>1. PICK u : u = [t EXCEPT !.pass = q]
    OBVIOUS
  <2>2. u = [src |-> a, dst |-> b, pass |-> q, left |-> l, entry |-> f, info |-> i]
    BY <1>1, <2>1
  <2>3. PICK v : v = [u EXCEPT !.left = m]
    OBVIOUS
  <2>4. v = [src |-> a, dst |-> b, pass |-> q, left |-> m, entry |-> f, info |-> i]
    BY <2>2, <2>3
  <2>5. [v EXCEPT !.info = j] = [src |-> a, dst |-> b, pass |-> q, left |-> m, entry |-> f, info |-> j]
    BY <2>4
  <2>6. [t EXCEPT !.pass = q, !.left = m, !.info = j] = [[[t EXCEPT !.pass = q] EXCEPT !.left = m] EXCEPT !.info = j]
    BY <1>1
  <2> QED BY <2>1, <2>3, <2>5, <2>6
<1> QED BY <1>2, <1>3, <1>4 DEF a, b, p, l, f, i

LEMMA TopParts ==
    ASSUME FrameInv
    PROVE  /\ Top = [src |-> Top.src, dst |-> Top.dst, pass |-> Top.pass, left |-> Top.left,
                     entry |-> Top.entry, info |-> Top.info]
           /\ Top.src = start.src /\ Top.dst = start.dst
BY DEF FrameInv

LEMMA ReadStep == ASSUME HwInv, ReadDir PROVE HwInv'
<1>1. DiskInv /\ TreeInv /\ WayInv /\ FrameInv
  BY DEF HwInv, DiskInv
<1>2. /\ pc = "readdir" /\ status = "running"
      /\ UNCHANGED <<start, node, input, output, pos, status, faults, touched, had>>
  BY DEF ReadDir, Ready
<1>3. Names \subseteq AllNames \ {NoName, "."} /\ Source # 0 /\ node[Source].kind = "dir" /\ Source \in Inos
  BY <1>1, <1>2, NamesType, Places DEF FrameInv
<1> DEFINE left == IF Top.left # Unread THEN Top.left ELSE DOMAIN node[Lookup(Top.src)].names \cup {"."}
<1>4. Lookup(Top.src) = Source
  BY <1>1, ToAndFrom
<1>5. left \subseteq AllNames /\ NoName \notin left
  <2>1. CASE Top.left # Unread
    BY <1>1, <2>1 DEF FrameInv
  <2>2. CASE Top.left = Unread
    <3>1. \A m \in DOMAIN node[Source].names : IsEntry(node, Source, m)
      BY <1>1, <1>3 DEF TreeInv, IsTree
    <3>2. DOMAIN node[Source].names \subseteq AllNames \ {NoName, "."}
      BY <3>1 DEF IsEntry
    <3>3. "." \in AllNames /\ "." # NoName
      BY DEF AllNames, NoName
    <3> QED BY <1>4, <2>2, <3>2, <3>3
  <2> QED BY <2>1, <2>2
<1>6. ASSUME NEW n \in Names, Src(n) # 0, Top.left = Unread \/ n \in Top.left
      PROVE  n \in left
  <2>1. CASE Top.left # Unread
    BY <1>6, <2>1
  <2>2. CASE Top.left = Unread
    <3>1. n \in DOMAIN node[Source].names
      BY <1>1, <1>3, <1>6, EntryType, NamesType DEF Src, TreeInv
    <3> QED BY <1>4, <2>2, <3>1
  <2> QED BY <2>1, <2>2
<1>7. left = {} => Top.left = {} /\ Top.left # Unread
  <2>1. Unread # {}
    BY DEF Unread
  <2> QED BY <2>1
<1>8. IF left = {} THEN pc' = "end" /\ UNCHANGED frames
      ELSE /\ \E e \in left : frames' = Now([Top EXCEPT !.entry = e, !.left = left \ {e}])
           /\ pc' = "stat"
  BY DEF ReadDir
<1> HIDE DEF left
<1>9. ASSUME NEW n \in Names, Sub(n)
      PROVE  Top.pass = 1 /\ n \in left
  <2>1. Src(n) # 0 /\ Top.pass = 1 /\ (Top.left = Unread \/ n \in Top.left)
    BY <1>2, <1>9 DEF HwInv, SubInv, Sub
  <2> QED BY <1>6, <2>1
<1>10. ASSUME NEW n \in Names, Wanted(n), Top.pass = 2
       PROVE  n \in left \/ Copied(n)
  <2>1. Top.left = Unread \/ n \in Top.left \/ Copied(n)
    BY <1>2, <1>10 DEF HwInv, DoneInv
  <2>2. Src(n) # 0
    BY <1>10 DEF Wanted, HwInv, DiskInv, SrcInv
  <2> QED BY <1>6, <2>1, <2>2
<1>11. CASE left = {}
  <2>1. pc' = "end" /\ Top' = Top /\ frames' = frames /\ Top.left = {}
    BY <1>7, <1>8, <1>11 DEF Top
  <2>2. FrameInv'
    BY <1>1, <1>2, <1>3, <2>1, SamePlaces DEF FrameInv
  <2>3. SubInv'
    BY <1>2, <1>3, <1>9, <1>11, SamePlaces DEF SubInv
  <2>4. DoneInv'
    BY <1>2, <1>3, <1>10, <1>11, <2>1, SamePlaces, SameWanted DEF DoneInv
  <2> QED BY <1>2, <2>1, <2>2, <2>3, <2>4, ControlStep
<1>12. CASE left # {}
  <2>1. PICK e \in left : frames' = Now([Top EXCEPT !.entry = e, !.left = left \ {e}])
    BY <1>8, <1>12
  <2> DEFINE t == [Top EXCEPT !.entry = e, !.left = left \ {e}]
  <2>2. frames' = <<t>> /\ Top' = t /\ pc' = "stat"
    BY <1>1, <1>8, <1>12, <2>1, OneFrame
  <2>3. t = [src |-> start.src, dst |-> start.dst, pass |-> Top.pass, left |-> left \ {e},
             entry |-> e, info |-> Top.info]
    <3>1. PICK u, w : u = Top /\ w = left \ {e}
      OBVIOUS
    <3>2. [u EXCEPT !.entry = e, !.left = w] =
             [src |-> u.src, dst |-> u.dst, pass |-> u.pass, left |-> w, entry |-> e, info |-> u.info]
      <4>1. u = [src |-> u.src, dst |-> u.dst, pass |-> u.pass, left |-> u.left, entry |-> u.entry, info |-> u.info]
        BY <1>1, <3>1, TopParts
      <4>2. \A x, m : [u EXCEPT !.entry = x, !.left = m] =
                [src |-> u.src, dst |-> u.dst, pass |-> u.pass, left |-> m, entry |-> x, info |-> u.info]
        BY <4>1, Changed
      <4> QED BY <4>2, Zenon
    <3>3. t = [u EXCEPT !.entry = e, !.left = w]
      BY <3>1
    <3> QED BY <1>1, <3>1, <3>2, <3>3, TopParts
  <2> HIDE DEF t
  <2>4. FrameInv'
    BY <1>1, <1>2, <1>3, <1>5, <2>2, <2>3, SamePlaces DEF FrameInv
  <2>5. SubInv'
    BY <1>2, <1>3, <1>9, <2>2, <2>3, SamePlaces DEF SubInv
  <2>6. DoneInv'
    BY <1>2, <1>3, <1>10, <2>2, <2>3, SamePlaces, SameWanted DEF DoneInv
  <2>7. Top'.pass = Top.pass
    BY <2>2, <2>3
  <2> QED BY <1>2, <2>2, <2>4, <2>5, <2>6, <2>7, ControlStep
<1> QED BY <1>11, <1>12

LEMMA InfoType ==
    ASSUME TreeInv, WayInv, FrameInv, NEW info \in Info
    PROVE  /\ info \in [dir : BOOLEAN, readable : BOOLEAN, set : BOOLEAN]
           /\ Src(Top.entry) # 0 => /\ info.dir <=> node[Src(Top.entry)].kind = "dir"
                                    /\ info.readable <=> node[Src(Top.entry)].mode # {}
<1>1. Lookup(From) = Src(Top.entry)
  BY ToAndFrom
<1>2. CASE Exists(From)
  <2>1. info = [dir |-> IsDir(From), readable |-> node[Lookup(From)].mode # {}, set |-> TRUE]
    BY <1>2 DEF Info
  <2>2. IsDir(From) \in BOOLEAN /\ (IsDir(From) <=> node[Lookup(From)].kind = "dir")
    BY <1>2 DEF IsDir
  <2> QED BY <1>1, <2>1, <2>2
<1>3. CASE ~Exists(From)
  <2>1. info = Top.info \/ info \in Infos
    BY <1>3 DEF Info
  <2>2. info \in [dir : BOOLEAN, readable : BOOLEAN, set : BOOLEAN]
    BY <2>1 DEF FrameInv, Infos
  <2> QED BY <1>1, <1>3, <2>2 DEF Exists
<1> QED BY <1>2, <1>3

LEMMA StatStep == ASSUME HwInv, Stat PROVE HwInv'
<1>1. DiskInv /\ TreeInv /\ WayInv /\ FrameInv /\ ~KS /\ Hw2
  BY DEF HwInv, DiskInv, TreeInv, Hw2
<1>2. pc = "stat" /\ status = "running" /\ UNCHANGED <<start, node, input, output, pos, faults, touched, had>>
  BY DEF Stat, Ready, Oops
<1>3. Names \subseteq AllNames \ {NoName, "."}
  BY NamesType
<1>4. PICK info \in Info :
         IF ~Skipped(info) /\ Forbidden(info) THEN Oops
         ELSE /\ frames' = Now([Top EXCEPT !.info = IF Tutor /\ Top.entry = "." THEN @ ELSE info])
              /\ pc' = CASE Skipped(info) \/ (Hw2 /\ Top.pass = 1) -> "readdir"
                         [] KS /\ info.dir -> "descend"
                         [] OTHER -> "open"
              /\ UNCHANGED <<start, node, input, output, pos, status, faults, touched, had>>
  BY DEF Stat
<1>5. /\ info \in [dir : BOOLEAN, readable : BOOLEAN, set : BOOLEAN]
      /\ Src(Top.entry) # 0 => /\ info.dir <=> node[Src(Top.entry)].kind = "dir"
                               /\ info.readable <=> node[Src(Top.entry)].mode # {}
  BY <1>1, InfoType
<1>6. CASE ~Skipped(info) /\ Forbidden(info)
  <2>1. status' = "failed" /\ UNCHANGED <<frames, pc>>
    BY <1>4, <1>6 DEF Oops
  <2> QED BY <1>2, <2>1, StatusStep
<1>7. CASE ~(~Skipped(info) /\ Forbidden(info))
  <2> DEFINE t == [Top EXCEPT !.info = IF Tutor /\ Top.entry = "." THEN @ ELSE info]
  <2>1. frames' = <<t>> /\ Top' = t /\ status' = status
        /\ pc' = IF Skipped(info) \/ Top.pass = 1 THEN "readdir" ELSE "open"
    BY <1>1, <1>4, <1>7, OneFrame
  <2> DEFINE j == IF Tutor /\ Top.entry = "." THEN Top.info ELSE info
  <2>2. t = [src |-> start.src, dst |-> start.dst, pass |-> Top.pass, left |-> Top.left,
             entry |-> Top.entry, info |-> j]
    <3>1. t = [Top EXCEPT !.info = j]
      OBVIOUS
    <3> HIDE DEF t, j
    <3> QED BY <1>1, <3>1, Changed, TopParts
  <2>3. j \in [dir : BOOLEAN, readable : BOOLEAN, set : BOOLEAN]
    BY <1>1, <1>5 DEF FrameInv
  <2> HIDE DEF t, j
  <2>4. pc' = "open" => Top.pass = 2 /\ Top.entry # "."
    BY <1>1, <2>1 DEF FrameInv, Skipped
  <2>5. FrameInv'
    BY <1>1, <1>2, <2>1, <2>2, <2>3, <2>4, SamePlaces DEF FrameInv
  <2>6. ASSUME NEW n \in Names, Sub(n)
        PROVE  Top.pass = 1 /\ (Top.left = Unread \/ n \in Top.left)
    <3>1. Top.pass = 1 /\ (Top.left = Unread \/ n \in Top.left \/ Top.entry = n)
      BY <1>2, <2>6 DEF HwInv, SubInv
    <3>2. ASSUME Top.entry = n PROVE FALSE
      <4>1. info.dir
        BY <1>5, <2>6, <3>2 DEF Sub
      <4>2. ~Skipped(info) /\ Forbidden(info)
        BY <1>1, <1>3, <3>1, <3>2, <4>1 DEF Skipped, Forbidden
      <4> QED BY <1>7, <4>2
    <3> QED BY <3>1, <3>2
  <2>7. SubInv'
    BY <1>2, <1>3, <2>1, <2>2, <2>6, SamePlaces DEF SubInv
  <2>8. ASSUME NEW n \in Names, Wanted(n), Top.pass = 2
        PROVE  Top.left = Unread \/ n \in Top.left \/ (Top.entry = n /\ pc' = "open") \/ Copied(n)
    <3>1. Top.left = Unread \/ n \in Top.left \/ Top.entry = n \/ Copied(n)
      BY <2>8 DEF HwInv, DoneInv
    <3>2. ASSUME Top.entry = n PROVE pc' = "open"
      <4>1. Src(n) = OldSrc(n) /\ Src(n) # 0 /\ start.tree[OldSrc(n)].kind = "file" /\ start.tree[OldSrc(n)].mode # {}
            /\ (node[Src(n)].kind = "file" => node[Src(n)] = start.tree[Src(n)])
        BY <2>8 DEF Wanted, HwInv, DiskInv, SrcInv
      <4>2. node[Src(n)].kind = "file"
        BY <1>1, <4>1, AtNames
      <4>3. info.readable
        BY <1>5, <3>2, <4>1, <4>2
      <4>4. ~Skipped(info)
        BY <1>3, <3>2, <4>3 DEF Skipped
      <4> QED BY <2>1, <2>8, <4>4
    <3> QED BY <3>1, <3>2
  <2>9. DoneInv'
    BY <1>2, <1>3, <2>1, <2>2, <2>8, SamePlaces, SameWanted DEF DoneInv
  <2>10. Top'.pass = Top.pass /\ pc' \notin {"creat", "copy"}
    BY <2>1, <2>2
  <2> QED BY <1>2, <2>5, <2>7, <2>9, <2>10, ControlStep
<1> QED BY <1>6, <1>7

LEMMA EndStep == ASSUME HwInv, EndOfDirectory PROVE HwInv'
<1>1. DiskInv /\ TreeInv /\ WayInv /\ FrameInv /\ Hw2
  BY DEF HwInv, DiskInv, TreeInv
<1>2. /\ pc = "end" /\ status = "running" /\ UNCHANGED <<start, node, input, output, pos, faults, touched, had>>
  BY DEF EndOfDirectory, Ready, Oops
<1>3. Names \subseteq AllNames \ {NoName, "."} /\ Top.left = {} /\ Top.left # Unread
  <2>1. {} # Unread
    BY DEF Unread
  <2> QED BY <1>1, <1>2, <2>1, NamesType DEF FrameInv
<1>4. ASSUME NEW n \in Names PROVE ~Sub(n)
  BY <1>2, <1>3 DEF HwInv, SubInv
<1>5. CASE Top.pass = 1 /\ Tutor /\ ~IsDir(Top.dst)
  <2>1. status' = "failed" /\ UNCHANGED <<frames, pc>>
    BY <1>1, <1>5 DEF EndOfDirectory, Oops
  <2> QED BY <1>2, <2>1, StatusStep
<1>6. CASE Top.pass = 1 /\ ~(Tutor /\ ~IsDir(Top.dst))
  <2> DEFINE j == IF Tutor THEN Unset ELSE Top.info
             t == [src |-> start.src, dst |-> start.dst, pass |-> 2, left |-> Unread, entry |-> Top.entry, info |-> j]
  <2>1. SecondPass = t
    <3>1. SecondPass = [Top EXCEPT !.pass = 2, !.left = Unread, !.info = j]
      BY DEF SecondPass
    <3> HIDE DEF j
    <3> QED BY <1>1, <3>1, Changed, TopParts
  <2>2. frames' = <<t>> /\ Top' = t /\ pc' = "readdir" /\ status' = status
    BY <1>1, <1>6, <2>1, OneFrame DEF EndOfDirectory
  <2>3. j \in [dir : BOOLEAN, readable : BOOLEAN, set : BOOLEAN]
    BY <1>1 DEF FrameInv, Unset
  <2>4. Unread \subseteq AllNames
    BY DEF Unread, AllNames
  <2> HIDE DEF j
  <2>5. /\ Top'.pass = 2 /\ Top'.left = Unread /\ Top'.entry = Top.entry /\ Top'.info = j
        /\ Top' = [src |-> start.src, dst |-> start.dst, pass |-> 2, left |-> Unread, entry |-> Top.entry, info |-> j]
    BY <2>2
  <2>6. FrameInv'
    BY <1>1, <1>2, <2>2, <2>3, <2>4, <2>5, SamePlaces DEF FrameInv
  <2>7. DiskInv'
    BY <1>1, <1>2, SamePlaces, DiskKept DEF Noticed
  <2>8. SubInv' /\ PassOneInv' /\ CopyInv' /\ DoneInv'
    BY <1>2, <1>3, <1>4, <2>2, <2>5, SamePlaces DEF SubInv, PassOneInv, CopyInv, DoneInv
  <2> QED BY <2>6, <2>7, <2>8 DEF HwInv
<1>7. CASE Top.pass # 1
  <2>1. pc' = "leave" /\ UNCHANGED <<frames, status>> /\ Top' = Top /\ Top.pass = 2
    BY <1>1, <1>7 DEF EndOfDirectory, Top, FrameInv
  <2>2. FrameInv'
    BY <1>1, <1>2, <1>3, <2>1, SamePlaces DEF FrameInv
  <2>3. SubInv'
    BY <1>2, <1>3, <1>4, SamePlaces DEF SubInv
  <2>4. DoneInv'
    BY <1>2, <1>3, <2>1, SamePlaces, SameWanted DEF HwInv, DoneInv
  <2> QED BY <1>2, <2>1, <2>2, <2>3, <2>4, ControlStep
<1> QED BY <1>5, <1>6, <1>7

LEMMA LeaveStep == ASSUME HwInv, LeaveDirectory PROVE HwInv'
<1>1. Len(frames) = 1
  BY OneFrame DEF HwInv
<1>2. /\ pc = "leave" /\ status' = "done"
      /\ UNCHANGED <<start, node, frames, pc, input, output, pos, faults, touched, had>>
  BY <1>1 DEF LeaveDirectory, Ready
<1> QED BY <1>2, StatusStep

LEMMA OpenStep == ASSUME HwInv, OpenInput PROVE HwInv'
<1>1. DiskInv /\ TreeInv /\ WayInv /\ FrameInv
  BY DEF HwInv, DiskInv
<1>2. pc = "open" /\ status = "running" /\ UNCHANGED <<start, node, frames, output, faults, touched, had>> /\ Top' = Top
  BY DEF OpenInput, Ready, Oops, Top
<1>3. /\ Names \subseteq AllNames \ {NoName, "."} /\ Top.pass = 2 /\ Top.entry \in AllNames \ {NoName, "."}
      /\ Source # 0 /\ node[Source].kind = "dir"
  BY <1>1, <1>2, NamesType DEF FrameInv
<1>4. Lookup(From) = Src(Top.entry)
  BY <1>1, ToAndFrom
<1>5. SubInv'
  <2>1. \A n \in Names : ~Sub(n)
    BY <1>3 DEF HwInv, SubInv
  <2> QED BY <1>2, <1>3, <2>1, SamePlaces DEF SubInv
<1>6. CASE Exists(From) /\ "owner" \in node[Lookup(From)].mode
  <2>1. input' = Lookup(From) /\ pos' = 0 /\ pc' = "creat" /\ status' = status
    BY <1>6 DEF OpenInput
  <2>2. FrameInv'
    BY <1>1, <1>2, <1>3, <2>1, SamePlaces DEF FrameInv
  <2>3. DiskInv'
    BY <1>1, <1>2, SamePlaces, DiskKept DEF Noticed
  <2>4. PassOneInv'
    BY <1>2, <1>3 DEF PassOneInv
  <2>5. PICK e \in AllNames \ {NoName, "."} : Top.entry = e
    BY <1>3
  <2>6. input' = Src(e) /\ Src(e) # 0
    BY <1>4, <1>6, <2>1, <2>5 DEF Exists
  <2>7. Src(e) \in Inos /\ node[Src(e)].kind # "free" /\ Source \in Inos
    BY <1>1, <2>6, AtNames
  <2>8. \A m \in AllNames \ {"."} : Dst(m) # Src(e)
    <3>1. Dest # Source
      BY <1>1, <1>3, AtTheStart DEF TreeInv
    <3>2. ASSUME NEW m \in AllNames \ {"."}, Dst(m) = Src(e) PROVE FALSE
      <4>1. Dest \in Inos
        BY <1>1, <2>6, <3>2, AtNames
      <4> QED BY <1>1, <2>6, <2>7, <3>1, <3>2, <4>1, TwoNames DEF Src, Dst
    <3> QED BY <3>2
  <2>9. e \in Names => Src(e) \in Hads(e)
    BY <1>1, <2>6 DEF DiskInv, HadInv
  <2>10. CopyInv'
    BY <1>2, <1>3, <2>1, <2>5, <2>6, <2>7, <2>8, <2>9, SamePlaces DEF CopyInv
  <2>11. DoneInv'
    <3> SUFFICES ASSUME NEW n \in Names, Wanted(n)'
                 PROVE  Top.left = Unread \/ n \in Top.left \/ Top.entry = n \/ Copied(n)'
      BY <1>2, <2>1 DEF DoneInv
    <3>1. Wanted(n) /\ Copied(n)' = Copied(n)
      BY <1>2, <1>3, SameWanted, SamePlaces
    <3> QED BY <1>3, <3>1 DEF HwInv, DoneInv
  <2> QED BY <1>5, <2>2, <2>3, <2>4, <2>10, <2>11 DEF HwInv
<1>7. CASE ~(Exists(From) /\ "owner" \in node[Lookup(From)].mode) /\ Tutor
  <2>1. pc' = "readdir" /\ UNCHANGED <<input, pos, status>>
    BY <1>7 DEF OpenInput
  <2>2. FrameInv'
    BY <1>1, <1>2, <1>3, <2>1, SamePlaces DEF FrameInv
  <2>3. DoneInv'
    <3> SUFFICES ASSUME NEW n \in Names, Wanted(n)'
                 PROVE  Top.left = Unread \/ n \in Top.left \/ Copied(n)'
      BY <1>2, <2>1 DEF DoneInv
    <3>1. Wanted(n) /\ Copied(n)' = Copied(n)
      BY <1>2, <1>3, SameWanted, SamePlaces
    <3>2. Top.left = Unread \/ n \in Top.left \/ Top.entry = n \/ Copied(n)
      BY <1>3, <3>1 DEF HwInv, DoneInv
    <3>3. /\ Src(n) = OldSrc(n) /\ Src(n) # 0 /\ start.tree[OldSrc(n)].kind = "file" /\ "owner" \in start.tree[OldSrc(n)].mode
          /\ (node[Src(n)].kind = "file" => node[Src(n)] = start.tree[Src(n)])
      BY <1>7, <3>1 DEF Wanted, HwInv, DiskInv, SrcInv
    <3>4. node[Src(n)].kind = "file"
      BY <1>1, <3>3, AtNames
    <3>5. Top.entry # n
      BY <1>4, <1>7, <3>3, <3>4 DEF Exists
    <3> QED BY <3>1, <3>2, <3>5
  <2> QED BY <1>2, <1>5, <2>1, <2>2, <2>3, ControlStep
<1>8. CASE ~(Exists(From) /\ "owner" \in node[Lookup(From)].mode) /\ ~Tutor
  <2>1. status' = "failed" /\ UNCHANGED <<pc, input, pos>>
    BY <1>8 DEF OpenInput, Oops
  <2> QED BY <1>2, <2>1, StatusStep
<1> QED BY <1>6, <1>7, <1>8

LEMMA CreateAll == ASSUME HwInv, CreateOutput PROVE HwInv'
<1>1. CASE IsDir(To) \/ ~IsDir(Front(To)) \/ (~Exists(To) /\ ~Room)
  <2>1. status' = "failed" /\ UNCHANGED <<start, node, frames, pc, input, output, pos, faults, touched, had>>
    BY <1>1 DEF CreateOutput, Oops
  <2> QED BY <2>1, StatusStep
<1>2. CASE ~(IsDir(To) \/ ~IsDir(Front(To)) \/ (~Exists(To) /\ ~Room))
  <2>1. pc' = "copy"
    BY <1>2 DEF CreateOutput
  <2> QED BY <2>1, CreateRest
<1> QED BY <1>1, <1>2

\* When all has been read, the file is a copy.
LEMMA CopyAll == ASSUME HwInv, CopyBlock PROVE HwInv'
<1>1. DiskInv /\ TreeInv /\ WayInv /\ FrameInv /\ Directory
  BY DEF HwInv, DiskInv, TreeInv, Hw2
<1>2. pc = "copy" /\ status = "running"
  BY DEF CopyBlock, Ready
<1>3. CASE More
  BY <1>3, BlockRest
<1>4. CASE ~More /\ node[input].kind = "dir" /\ ~Tutor
  <2>1. status' = "failed" /\ UNCHANGED <<start, node, frames, pc, input, output, pos, faults, touched, had>>
    BY <1>4 DEF CopyBlock, Oops
  <2> QED BY <2>1, StatusStep
<1>5. CASE ~More /\ ~(node[input].kind = "dir" /\ ~Tutor)
  <2>1. pc' = "readdir" /\ UNCHANGED <<start, node, frames, input, output, pos, status, faults, touched, had>> /\ Top' = Top
    BY <1>1, <1>5 DEF CopyBlock, NextFile, Top
  <2>2. Names \subseteq AllNames \ {NoName, "."} /\ Top.pass = 2 /\ Top.entry \in AllNames \ {NoName, "."}
        /\ Source # 0 /\ node[Source].kind = "dir"
    BY <1>1, <1>2, NamesType DEF FrameInv
  <2>3. FrameInv'
    BY <1>1, <1>2, <2>1, <2>2, SamePlaces DEF FrameInv
  <2>4. SubInv'
    <3>1. \A n \in Names : ~Sub(n)
      BY <2>2 DEF HwInv, SubInv
    <3> QED BY <2>1, <2>2, <3>1, SamePlaces DEF SubInv
  <2>5. ASSUME NEW n \in Names, Wanted(n), Top.entry = n PROVE Copied(n)
    <3>1. /\ output = Dst(n) /\ output # 0 /\ pos \in Nat /\ input \in Inos
          /\ Noticed => pos = Len(node[output].data) /\ Taken(n)
      BY <1>2, <2>2, <2>5 DEF HwInv, CopyInv
    <3>2. Noticed /\ Alone(n)
      BY <2>5 DEF Wanted, Noticed
    <3>3. input = Src(n)
      BY <1>2, <2>5, <3>2 DEF HwInv, CopyInv
    <3>4. output \in Inos
      BY <1>1, <2>2, <3>1, AtNames
    <3> DEFINE s == node[output].data  u == node[input].data
    <3>5. s \in Seq(Blocks) /\ u \in Seq(Blocks) /\ Len(s) \in Nat /\ Len(u) \in Nat
      BY <1>1, <3>1, <3>4, DataType
    <3>6. Len(s) = Len(u) /\ \A i \in 1..Len(s) : s[i] = u[i]
      BY <1>5, <3>1, <3>2, <3>5 DEF More, Begins, Taken
    <3> HIDE DEF s, u
    <3>7. s = u
      BY <3>5, <3>6, SeqEqual
    <3> QED BY <3>1, <3>3, <3>7 DEF Copied, s, u
  <2>6. DoneInv'
    <3> SUFFICES ASSUME NEW n \in Names, Wanted(n)'
                 PROVE  Top.left = Unread \/ n \in Top.left \/ Copied(n)'
      BY <2>1 DEF DoneInv
    <3>1. Wanted(n) /\ Copied(n)' = Copied(n)
      BY <2>1, <2>2, SameWanted, SamePlaces
    <3> QED BY <2>2, <2>5, <3>1 DEF HwInv, DoneInv
  <2> QED BY <2>1, <2>3, <2>4, <2>6, ControlStep
<1> QED BY <1>3, <1>4, <1>5

LEMMA FailStep == ASSUME HwInv, WriteFails PROVE HwInv'
<1>1. DiskInv /\ TreeInv /\ WayInv /\ FrameInv
  BY DEF HwInv, DiskInv
<1>2. /\ pc = "copy" /\ status = "running" /\ faults' = faults + 1 /\ faults \in Nat /\ Top' = Top
      /\ UNCHANGED <<start, node, frames, pc, input, output, touched, had>>
  BY <1>1 DEF WriteFails, Ready, Top, FrameInv
<1>3. IF Tutor THEN pos' = pos + 1 /\ UNCHANGED status ELSE status' = "failed" /\ UNCHANGED pos
  BY DEF WriteFails
<1>4. Names \subseteq AllNames /\ Tutor' = Tutor
  BY <1>2, NamesType, SamePlaces
<1>5. (Noticed' => Noticed /\ ~Tutor) /\ \A n \in Names : Wanted(n)' => Wanted(n)
  BY <1>2, <1>4, SamePlaces DEF Noticed, Wanted
<1>6. DiskInv'
  BY <1>1, <1>2, <1>5, DiskKept
<1>7. FrameInv' /\ SubInv' /\ PassOneInv'
  BY <1>2, <1>3, <1>4, SamePlaces DEF HwInv, FrameInv, SubInv, PassOneInv
<1>8. CopyInv'
  <2>1. /\ input \in Inos /\ node[input].kind # "free" /\ \A m \in AllNames \ {"."} : Dst(m) # input
        /\ \A n \in Names : Top.entry = n => input \in Hads(n) /\ (Alone(n) => input = Src(n))
        /\ pos \in Nat
        /\ (\A n \in AllNames : Top.entry = n => output = Dst(n))
        /\ output # 0 /\ node[output].kind = "file"
        /\ Noticed => pos = Len(node[output].data) /\ \A n \in Names : Top.entry = n => Taken(n)
    BY <1>2 DEF HwInv, CopyInv
  <2>2. pos' \in Nat
    BY <1>3, <2>1
  <2>3. /\ \A m \in AllNames \ {"."} : Dst(m)' # input
        /\ \A n \in Names : Top.entry = n => input \in Hads(n)' /\ (Alone(n)' => input = Src(n)')
        /\ \A n \in AllNames : Top.entry = n => output = Dst(n)'
    BY <1>2, <1>4, <2>1, SamePlaces
  <2>4. Noticed' => pos' = Len(node[output].data) /\ \A n \in Names : Top.entry = n => Taken(n)'
    BY <1>2, <1>3, <1>4, <1>5, <2>1, SamePlaces
  <2> QED BY <1>2, <2>1, <2>2, <2>3, <2>4 DEF CopyInv
<1>9. DoneInv'
  <2> SUFFICES ASSUME Top.pass = 2, NEW n \in Names, Wanted(n)'
               PROVE  \/ Top.left = Unread \/ n \in Top.left
                      \/ Top.entry = n /\ pc \in {"stat", "open", "creat", "copy"}
                      \/ Copied(n)'
    BY <1>2 DEF DoneInv
  <2>1. Wanted(n) /\ Copied(n)' = Copied(n)
    BY <1>2, <1>4, <1>5, SamePlaces
  <2> QED BY <2>1 DEF HwInv, DoneInv
<1> QED BY <1>6, <1>7, <1>8, <1>9 DEF HwInv

LEMMA StutterStep == ASSUME HwInv, UNCHANGED vars PROVE HwInv'
<1>1. UNCHANGED <<start, node, frames, pc, input, output, pos, status, touched, had, faults>> /\ Top' = Top
  BY DEF vars, copy, Top
<1>2. Names \subseteq AllNames /\ (Noticed' = Noticed) /\ \A n \in Names : Wanted(n)' = Wanted(n)
  BY <1>1, NamesType, SamePlaces, SameWanted DEF Noticed
<1>3. DiskInv'
  BY <1>1, <1>2, DiskKept DEF HwInv
<1>4. FrameInv' /\ SubInv' /\ PassOneInv'
  BY <1>1, <1>2, SamePlaces DEF HwInv, FrameInv, SubInv, PassOneInv
<1>5. CopyInv' /\ DoneInv'
  BY <1>1, <1>2, SamePlaces DEF HwInv, CopyInv, DoneInv
<1> QED BY <1>3, <1>4, <1>5 DEF HwInv

LEMMA HwStep == HwInv /\ [Next]_vars => HwInv'
<1> SUFFICES ASSUME HwInv, [Next]_vars PROVE HwInv'
  OBVIOUS
<1>1. ASSUME NEW n \in Names, Meddle(n) PROVE HwInv'
  BY <1>1, MeddleRest
<1>2. CASE Descend
  <2>1. pc # "descend"
    BY DEF HwInv, FrameInv
  <2> QED BY <1>2, <2>1 DEF Descend, Ready
<1>3. CASE Copier
  BY <1>2, <1>3, EnterStep, ReadStep, StatStep, EndStep, LeaveStep, OpenStep, CreateAll, CopyAll, FailStep DEF Copier
<1>4. CASE Ended
  BY <1>4, StutterStep DEF Ended
<1> QED BY <1>1, <1>3, <1>4, StutterStep DEF Next

-----------------------------------------------------------------------------
(* The beginning                                                            *)

LEMMA DiskInit ==
    ASSUME Init
    PROVE  /\ start \in Starts /\ DOMAIN node = Inos /\ IsTree(node)
           /\ \A i \in DOMAIN start.tree : node[i] = start.tree[i]
           /\ \A x \in DOMAIN start.tree \cup {0}, n \in AllNames : Entry(node, x, n) = Entry(start.tree, x, n)
           /\ \A p \in Paths : /\ \A k \in 0..Len(p) : At(node, p, k) = At(start.tree, p, k)
                               /\ LookupOn(node, p) = LookupOn(start.tree, p)
                               /\ LookupOn(start.tree, p) \in DOMAIN start.tree \cup {0}
<1>1. /\ start \in Starts /\ DOMAIN start.tree \subseteq Inos /\ IsTree(start.tree) /\ 0 \notin DOMAIN start.tree
      /\ node = [i \in Inos |-> IF i \in DOMAIN start.tree THEN start.tree[i] ELSE Free]
  BY AtTheStart, NamesType DEF Init
<1>2. DOMAIN node = Inos /\ \A i \in Inos : node[i] = IF i \in DOMAIN start.tree THEN start.tree[i] ELSE Free
  BY <1>1
<1>3. IsNode(Free) /\ DOMAIN Free.names = {} /\ Free.kind = "free"
  <2>1. <<>> \in Seq(Blocks)
    OBVIOUS
  <2>2. DOMAIN <<>> = {}
    OBVIOUS
  <2>3. Free.names = <<>> /\ Free.data = <<>> /\ Free.kind = "free" /\ Free.mode = {}
        /\ Free = [kind |-> "free", mode |-> {}, data |-> <<>>, names |-> <<>>]
    BY DEF Free
  <2> HIDE DEF Free
  <2> QED BY <2>1, <2>2, <2>3 DEF IsNode
<1>4. IsTree(node)
  <2>1. \A i \in Inos : IsNode(node[i])
    BY <1>1, <1>2, <1>3 DEF IsTree
  <2>2. ASSUME NEW i \in Inos, NEW n \in DOMAIN node[i].names
        PROVE  i \in DOMAIN start.tree /\ n \in DOMAIN start.tree[i].names /\ node[i].names[n] = start.tree[i].names[n]
    BY <1>2, <1>3, <2>2
  <2>3. ASSUME NEW i \in Inos, NEW n \in DOMAIN node[i].names
        PROVE  IsEntry(node, i, n)
    <3>1. i \in DOMAIN start.tree /\ n \in DOMAIN start.tree[i].names /\ node[i].names[n] = start.tree[i].names[n]
      BY <2>2, <2>3
    <3>2. IsEntry(start.tree, i, n)
      BY <1>1, <3>1 DEF IsTree
    <3> QED BY <1>1, <1>2, <3>1, <3>2 DEF IsEntry
  <2>4. NoLinks(node)
    <3> SUFFICES ASSUME NEW i \in Inos, NEW j \in Inos, NEW n \in DOMAIN node[i].names, NEW m \in DOMAIN node[j].names,
                        node[i].names[n] = node[j].names[m]
                 PROVE  i = j /\ n = m
      BY <1>2 DEF NoLinks
    <3> QED BY <1>1, <2>2 DEF IsTree, NoLinks
  <2>5. Root \in Inos /\ node[Root].kind = "dir"
    BY <1>1, <1>2 DEF IsTree
  <2> QED BY <1>2, <2>1, <2>3, <2>4, <2>5 DEF IsTree
<1>5. \A i \in DOMAIN start.tree : node[i] = start.tree[i]
  BY <1>1, <1>2
<1>6. \A x \in DOMAIN start.tree \cup {0}, n \in AllNames : Entry(node, x, n) = Entry(start.tree, x, n)
  BY <1>5 DEF Entry
<1>7. ASSUME NEW p \in Paths
      PROVE  /\ \A k \in 0..Len(p) : At(node, p, k) = At(start.tree, p, k)
             /\ LookupOn(node, p) = LookupOn(start.tree, p)
             /\ LookupOn(start.tree, p) \in DOMAIN start.tree \cup {0}
  <2>1. \A k \in 0..Len(p) : At(start.tree, p, k) \in DOMAIN start.tree \cup {0}
    BY <1>1, LookType
  <2>2. Len(p) \in Nat /\ Len(p) \in 0..Len(p) /\ At(start.tree, p, Len(p)) = LookupOn(start.tree, p)
    BY PartsOf
  <2>3. \A k \in 0..Len(p) - 1 : Entry(node, At(start.tree, p, k), p[k + 1]) = At(start.tree, p, k + 1)
    <3>1. \A k \in 0..Len(p) - 1 : k \in 0..Len(p)
      BY <2>2
    <3>2. \A k \in 0..Len(p) - 1 : /\ p[k + 1] \in AllNames
                                   /\ At(start.tree, p, k + 1) = Entry(start.tree, At(start.tree, p, k), p[k + 1])
      BY PartsOf
    <3> QED BY <1>6, <2>1, <3>1, <3>2
  <2>4. /\ \A k \in 0..Len(p) : At(node, p, k) = At(start.tree, p, k)
        /\ LookupOn(node, p) = LookupOn(start.tree, p)
    BY <2>3, SameWay
  <2> QED BY <2>1, <2>2, <2>4
<1> QED BY <1>1, <1>2, <1>4, <1>5, <1>6, <1>7

LEMMA HadInit ==
    ASSUME Init, NEW n \in Names
    PROVE  /\ Hads(n) = {OldSrc(n)} \ {0}
           /\ OldSrc(n) # 0 => << <<n>>, OldSrc(n), start.tree[OldSrc(n)].data >> \in had
<1> DEFINE look(r) == LookupOn(start.tree, start.src \o r)
           of(r) == {<<r, i, start.tree[i].data>> : i \in {look(r)} \ {0}}
<1>1. had = UNION {of(r) : r \in {<<>>} \cup Below}
  BY DEF Init, HadAt
<1>2. look(<<n>>) = OldSrc(n) /\ <<n>> \in Below
  <2>1. start.src \in Paths /\ n \in AllNames
    BY AtTheStart, NamesType DEF Init
  <2>2. start.src \o <<n>> = Append(start.src, n)
    BY <2>1, Appended DEF Paths
  <2>3. LookupOn(start.tree, Append(start.src, n)) = OldSrc(n)
    BY <2>1, LookStep DEF OldSrc, Source
  <2>4. <<n>> \in Below
    BY DEF Below
  <2> QED BY <2>2, <2>3, <2>4
<1> HIDE DEF look
<1>3. \A r : \A g \in of(r) : g[1] = r /\ g[2] = look(r) /\ g[2] # 0
  OBVIOUS
<1>4. OldSrc(n) # 0 => << <<n>>, OldSrc(n), start.tree[OldSrc(n)].data >> \in of(<<n>>)
  BY <1>2
<1> HIDE DEF of
<1>5. OldSrc(n) # 0 => << <<n>>, OldSrc(n), start.tree[OldSrc(n)].data >> \in had
  BY <1>1, <1>2, <1>4
<1>6. \A g \in had : g[1] = <<n>> => g[2] = OldSrc(n) /\ g[2] # 0
  BY <1>1, <1>2, <1>3
<1>7. ASSUME NEW j \in Hads(n) PROVE j = OldSrc(n) /\ j # 0
  BY <1>6 DEF Hads
<1>8. ASSUME OldSrc(n) # 0 PROVE OldSrc(n) \in Hads(n)
  <2> DEFINE h == << <<n>>, OldSrc(n), start.tree[OldSrc(n)].data >>
  <2>1. h \in had /\ h[1] = <<n>> /\ h[2] = OldSrc(n)
    BY <1>5, <1>8
  <2> HIDE DEF h
  <2> QED BY <2>1 DEF Hads
<1> QED BY <1>5, <1>7, <1>8

LEMMA HwInit == ASSUME Init, Hw2 PROVE HwInv
<1>1. /\ start \in Starts /\ DOMAIN node = Inos /\ IsTree(node)
      /\ \A i \in DOMAIN start.tree : node[i] = start.tree[i]
      /\ \A x \in DOMAIN start.tree \cup {0}, n \in AllNames : Entry(node, x, n) = Entry(start.tree, x, n)
      /\ \A p \in Paths : /\ \A k \in 0..Len(p) : At(node, p, k) = At(start.tree, p, k)
                          /\ LookupOn(node, p) = LookupOn(start.tree, p)
                          /\ LookupOn(start.tree, p) \in DOMAIN start.tree \cup {0}
  BY DiskInit
<1>2. /\ start.src \in Paths /\ start.dst \in Paths /\ IsTree(start.tree) /\ DOMAIN start.tree \subseteq Inos
      /\ Source # 0 => Dest # Source
      /\ 0 \notin Inos /\ Names \subseteq AllNames \ {NoName, "."}
  BY <1>1, AtTheStart, NamesType
<1>3. TreeInv
  BY <1>1 DEF TreeInv
<1>4. WayInv
  BY <1>1, <1>2 DEF WayInv
<1>5. Source \in DOMAIN start.tree \cup {0} /\ Dest \in DOMAIN start.tree \cup {0}
  BY <1>1, <1>2 DEF Source, Dest
<1>6. \A n \in AllNames : Src(n) = OldSrc(n) /\ Dst(n) = OldDst(n)
  BY <1>1, <1>5 DEF Src, OldSrc, Dst, OldDst
<1>7. ASSUME NEW n \in AllNames \ {"."}, NEW x \in DOMAIN start.tree \cup {0}, Entry(start.tree, x, n) # 0
      PROVE  /\ Entry(start.tree, x, n) \in DOMAIN start.tree /\ x \in DOMAIN start.tree
             /\ start.tree[Entry(start.tree, x, n)].kind # "free"
  <2>1. x # 0
    BY <1>7 DEF Entry
  <2> QED BY <1>2, <1>7, <2>1, EntryType
<1>8. SrcInv
  BY <1>1, <1>2, <1>5, <1>6, <1>7 DEF SrcInv, OldSrc
<1>9. HadInv
  <2> SUFFICES ASSUME NEW n \in Names
               PROVE  /\ Src(n) \in Hads(n) \cup {0}
                      /\ \A j \in Hads(n) : /\ j \in Inos /\ node[j].kind # "free"
                                            /\ \A m \in AllNames \ {"."} : Dst(m) # j
    BY DEF HadInv
  <2>1. Hads(n) = {OldSrc(n)} \ {0}
    BY HadInit
  <2>2. ASSUME OldSrc(n) # 0, NEW m \in AllNames \ {"."}, OldDst(m) = OldSrc(n) PROVE FALSE
    <3>1. Source \in DOMAIN start.tree /\ Dest \in DOMAIN start.tree /\ Source # 0
      BY <1>2, <1>5, <1>7, <2>2 DEF OldSrc, OldDst
    <3>2. Dest = Source
      BY <1>2, <2>2, <3>1, OneEntry DEF OldSrc, OldDst
    <3> QED BY <1>2, <3>1, <3>2
  <2>3. OldSrc(n) # 0 => OldSrc(n) \in Inos /\ node[OldSrc(n)].kind # "free"
    BY <1>1, <1>2, <1>5, <1>7 DEF OldSrc
  <2> QED BY <1>2, <1>6, <2>1, <2>2, <2>3
<1>10. \A n \in Names : OldDst(n) # 0 => node[OldDst(n)] = start.tree[OldDst(n)] /\ OldDst(n) \in DOMAIN start.tree
  BY <1>1, <1>2, <1>5, <1>7 DEF OldDst
<1>11. \A m, n \in Names : OldBelow(m, n) # 0 => /\ node[OldBelow(m, n)] = start.tree[OldBelow(m, n)] /\ OldDst(m) # 0
  <2> SUFFICES ASSUME NEW m \in Names, NEW n \in Names, OldBelow(m, n) # 0
               PROVE  /\ node[OldBelow(m, n)] = start.tree[OldBelow(m, n)] /\ OldDst(m) # 0
    OBVIOUS
  <2>1. OldDst(m) # 0
    BY DEF OldBelow, Entry
  <2>2. OldDst(m) \in DOMAIN start.tree
    BY <1>10, <2>1
  <2> QED BY <1>1, <1>2, <1>7, <2>1, <2>2 DEF OldBelow
<1>12. DestInv /\ DeepInv
  BY <1>2, <1>6, <1>10, <1>11 DEF DestInv, DeepInv
<1>13. HistInv
  <2>1. touched \in [Names -> Nat]
    BY DEF Init
  <2>2. ASSUME NEW n \in Names, OldSrc(n) # 0
        PROVE  /\ Source \in DOMAIN start.tree /\ OldSrc(n) \in DOMAIN start.tree
    BY <1>2, <1>5, <1>7, <2>2 DEF OldSrc
  <2>3. ASSUME NEW n \in Names, OldSrc(n) # 0
        PROVE  << <<n>>, OldSrc(n), node[OldSrc(n)].data >> \in had
    BY <1>1, <2>2, <2>3, HadInit
  <2>4. ASSUME NEW m \in Names, NEW n \in Names, OldSrc(m) # 0, OldSrc(m) = OldSrc(n) PROVE m = n
    BY <1>2, <2>2, <2>4, OneEntry DEF OldSrc
  <2> QED BY <2>1, <2>3, <2>4, HadInit DEF HistInv
<1>19. DiskInv
  BY <1>3, <1>4, <1>8, <1>9, <1>12, <1>13 DEF DiskInv
<1>14. /\ frames = <<Frame(start.src, start.dst)>> /\ pc = "enter" /\ status = "running" /\ faults = 0
  BY DEF Init, Hw2
<1>15. /\ Top = [src |-> start.src, dst |-> start.dst, pass |-> 1, left |-> Unread, entry |-> NoName, info |-> Unset]
       /\ frames = <<Top>>
  <2> DEFINE f == Frame(start.src, start.dst)
  <2>1. frames = <<f>>
    BY <1>14
  <2> HIDE DEF f
  <2>2. Top = f
    BY <2>1 DEF Top, Last
  <2> QED BY <2>1, <2>2 DEF f, Frame
<1>16. FrameInv
  <2>1. Unset \in [dir : BOOLEAN, readable : BOOLEAN, set : BOOLEAN]
    BY DEF Unset
  <2>2. NoName \in AllNames /\ Unread \subseteq AllNames
    BY DEF AllNames, Unread
  <2> HIDE DEF Unset
  <2>3. /\ Top.src = start.src /\ Top.dst = start.dst /\ Top.pass = 1 /\ Top.left = Unread
        /\ Top.entry = NoName /\ Top.info = Unset
    BY <1>15
  <2>4. Top = [src |-> start.src, dst |-> start.dst, pass |-> Top.pass, left |-> Top.left,
               entry |-> Top.entry, info |-> Top.info]
    BY <1>15, <2>3
  <2> QED BY <1>14, <1>15, <2>1, <2>2, <2>3, <2>4 DEF FrameInv
<1>17. Top.pass = 1
  BY <1>15
<1>18. SubInv /\ PassOneInv /\ CopyInv /\ DoneInv
  BY <1>2, <1>6, <1>10, <1>11, <1>14, <1>17 DEF SubInv, PassOneInv, CopyInv, DoneInv
<1> QED BY <1>16, <1>18, <1>19 DEF HwInv

-----------------------------------------------------------------------------
(* What the invariant says                                                  *)

\* Where the paths led.
LEMMA OldPlaces ==
    ASSUME start \in Starts
    PROVE  /\ \A n \in AllNames : /\ LookupOn(start.tree, start.src \o <<n>>) = OldSrc(n)
                                  /\ LookupOn(start.tree, start.dst \o <<n>>) = OldDst(n)
           /\ \A m, n \in AllNames : /\ LookupOn(start.tree, start.src \o <<m, n>>) = Entry(start.tree, OldSrc(m), n)
                                     /\ LookupOn(start.tree, start.dst \o <<m, n>>) = OldBelow(m, n)
<1>1. start.src \in Paths /\ start.dst \in Paths
  BY AtTheStart
<1>2. ASSUME NEW n \in AllNames
      PROVE  /\ LookupOn(start.tree, Append(start.src, n)) = OldSrc(n) /\ start.src \o <<n>> = Append(start.src, n)
             /\ LookupOn(start.tree, Append(start.dst, n)) = OldDst(n) /\ start.dst \o <<n>> = Append(start.dst, n)
  <2>1. start.src \o <<n>> = Append(start.src, n) /\ start.dst \o <<n>> = Append(start.dst, n)
    BY <1>1, Appended DEF Paths
  <2>2. LookupOn(start.tree, Append(start.src, n)) = OldSrc(n) /\ LookupOn(start.tree, Append(start.dst, n)) = OldDst(n)
    BY <1>1, LookStep DEF OldSrc, OldDst, Source, Dest
  <2> QED BY <2>1, <2>2
<1>3. ASSUME NEW m \in AllNames, NEW n \in AllNames
      PROVE  /\ LookupOn(start.tree, start.src \o <<m, n>>) = Entry(start.tree, OldSrc(m), n)
             /\ LookupOn(start.tree, start.dst \o <<m, n>>) = OldBelow(m, n)
  <2>1. start.src \o <<m, n>> = Append(Append(start.src, m), n) /\ Append(start.src, m) \in Paths
        /\ start.dst \o <<m, n>> = Append(Append(start.dst, m), n) /\ Append(start.dst, m) \in Paths
    BY <1>1, ConcatPair
  <2>2. LookupOn(start.tree, Append(Append(start.src, m), n))
            = Entry(start.tree, LookupOn(start.tree, Append(start.src, m)), n)
    BY <2>1, LookStep
  <2>3. LookupOn(start.tree, Append(Append(start.dst, m), n))
            = Entry(start.tree, LookupOn(start.tree, Append(start.dst, m)), n)
    BY <2>1, LookStep
  <2> QED BY <1>2, <2>1, <2>2, <2>3 DEF OldBelow
<1> QED BY <1>2, <1>3

LEMMA BelowCases ==
    ASSUME NEW r \in Below
    PROVE  \E m \in Names : r = <<m>> \/ \E n \in Names : r = <<m, n>>
BY DEF Below

\* What has entries is a directory that was there.
LEMMA OldEntry ==
    ASSUME start \in Starts, NEW x \in DOMAIN start.tree \cup {0}, NEW n \in Names, Entry(start.tree, x, n) # 0
    PROVE  /\ x \in DOMAIN start.tree /\ start.tree[x].kind = "dir"
           /\ Entry(start.tree, x, n) \in DOMAIN start.tree /\ start.tree[Entry(start.tree, x, n)].kind # "free"
<1>1. IsTree(start.tree) /\ 0 \notin DOMAIN start.tree /\ n # "."
  BY AtTheStart, NamesType
<1>2. x \in DOMAIN start.tree
  BY DEF Entry
<1> QED BY <1>1, <1>2, EntryType

LEMMA OldRange ==
    ASSUME start \in Starts
    PROVE  /\ Source \in DOMAIN start.tree \cup {0} /\ Dest \in DOMAIN start.tree \cup {0}
           /\ \A n \in Names : OldSrc(n) \in DOMAIN start.tree \cup {0} /\ OldDst(n) \in DOMAIN start.tree \cup {0}
<1>1. Source \in DOMAIN start.tree \cup {0} /\ Dest \in DOMAIN start.tree \cup {0}
  BY AtTheStart
<1>2. \A n \in Names : OldSrc(n) # 0 => OldSrc(n) \in DOMAIN start.tree
  BY <1>1, OldEntry DEF OldSrc
<1>3. \A n \in Names : OldDst(n) # 0 => OldDst(n) \in DOMAIN start.tree
  BY <1>1, OldEntry DEF OldDst
<1> QED BY <1>1, <1>2, <1>3

LEMMA HwUntouched == HwInv => UntouchedIfSubdirectory
<1> SUFFICES ASSUME HwInv, NEW n \in Names, touched[n] = 0, IsDir(start.src \o <<n>>),
                    NEW r \in Below
             PROVE  /\ Lookup(start.dst \o r) = LookupOn(start.tree, start.dst \o r)
                    /\ LookupOn(start.tree, start.dst \o r) # 0 =>
                          node[LookupOn(start.tree, start.dst \o r)] = start.tree[LookupOn(start.tree, start.dst \o r)]
  BY DEF UntouchedIfSubdirectory
<1>1. TreeInv /\ WayInv /\ start \in Starts /\ n \in AllNames /\ Names \subseteq AllNames
  BY NamesType DEF HwInv, DiskInv, TreeInv
<1>2. Sub(n)
  BY <1>1, Places DEF Sub, Alone, IsDir, Exists
<1>3. \A m \in Names :
        /\ Dst(m) = OldDst(m) /\ (OldDst(m) # 0 => node[OldDst(m)] = start.tree[OldDst(m)])
        /\ \A k \in Names : OldBelow(m, k) # 0 => node[OldBelow(m, k)] = start.tree[OldBelow(m, k)]
  BY <1>2 DEF HwInv, SubInv, PassOneInv
<1>4. ASSUME NEW m \in Names, r = <<m>>
      PROVE  /\ Lookup(start.dst \o r) = LookupOn(start.tree, start.dst \o r)
             /\ LookupOn(start.tree, start.dst \o r) # 0 =>
                   node[LookupOn(start.tree, start.dst \o r)] = start.tree[LookupOn(start.tree, start.dst \o r)]
  <2>1. Lookup(start.dst \o r) = Dst(m) /\ LookupOn(start.tree, start.dst \o r) = OldDst(m)
    BY <1>1, <1>4, Places, OldPlaces
  <2> QED BY <1>3, <2>1
<1>5. ASSUME NEW m \in Names, NEW k \in Names, r = <<m, k>>
      PROVE  /\ Lookup(start.dst \o r) = LookupOn(start.tree, start.dst \o r)
             /\ LookupOn(start.tree, start.dst \o r) # 0 =>
                   node[LookupOn(start.tree, start.dst \o r)] = start.tree[LookupOn(start.tree, start.dst \o r)]
  <2>1. Lookup(start.dst \o r) = Entry(node, Dst(m), k) /\ LookupOn(start.tree, start.dst \o r) = OldBelow(m, k)
    BY <1>1, <1>5, Places, OldPlaces
  <2>2. Entry(node, Dst(m), k) = OldBelow(m, k)
    BY <1>3 DEF OldBelow, Entry
  <2> QED BY <1>3, <2>1, <2>2
<1> QED BY <1>4, <1>5, BelowCases

LEMMA HwCopied == HwInv => SuccessMeansCopied
<1> SUFFICES ASSUME HwInv, status = "done", Tutor => faults = 0, NEW r \in Sources,
                    HadFile(r), Directory => touched[r[1]] = 0,
                    Hw2 => ModeOf(r) # {} /\ (Tutor => "owner" \in ModeOf(r))
             PROVE  /\ Exists(Target \o r)
                    /\ node[Lookup(Target \o r)].data = node[Lookup(start.src \o r)].data
  BY DEF SuccessMeansCopied
<1>1. /\ TreeInv /\ WayInv /\ FrameInv /\ SrcInv /\ start \in Starts /\ Names \subseteq AllNames
      /\ Hw2 /\ Directory /\ ~KS
  BY NamesType DEF HwInv, DiskInv, TreeInv, Hw2
<1>2. r \in Below /\ Target = start.dst
  BY <1>1 DEF Sources, Target
<1>3. pc = "leave" /\ (Source # 0 /\ node[Source].kind = "dir" => Top.pass = 2 /\ Top.left = {})
  BY <1>1 DEF FrameInv
<1>4. ASSUME NEW m \in Names, OldSrc(m) # 0 PROVE Top.pass = 2 /\ Top.left = {}
  <2>1. Source \in DOMAIN start.tree /\ start.tree[Source].kind = "dir"
    BY <1>1, <1>4, OldRange, OldEntry DEF OldSrc
  <2>2. Source # 0
    BY <1>1, <2>1, AtTheStart, NamesType
  <2> QED BY <1>1, <1>3, <2>1, <2>2, Places
<1>5. ASSUME NEW m \in Names, r = <<m>>
      PROVE  /\ Exists(Target \o r)
             /\ node[Lookup(Target \o r)].data = node[Lookup(start.src \o r)].data
  <2>1. LookupOn(start.tree, start.src \o r) = OldSrc(m) /\ Lookup(Target \o r) = Dst(m) /\ Lookup(start.src \o r) = Src(m)
        /\ start.src \o <<m>> = Append(start.src, m)
    BY <1>1, <1>2, <1>5, Places, OldPlaces
  <2>2. Wanted(m)
    <3>1. r[1] = m
      BY <1>5
    <3> QED BY <1>1, <2>1, <3>1 DEF Wanted, HadFile, ModeOf, Alone
  <2>3. Copied(m)
    <3>1. Top.pass = 2 /\ Top.left = {}
      BY <1>4, <2>2 DEF Wanted
    <3> QED BY <1>3, <2>2, <3>1 DEF HwInv, DoneInv, Unread
  <2> QED BY <2>1, <2>3 DEF Copied, Exists
<1>6. ASSUME NEW m \in Names, NEW k \in Names, r = <<m, k>> PROVE FALSE
  <2>1. Entry(start.tree, OldSrc(m), k) # 0
    BY <1>1, <1>6, OldPlaces DEF HadFile
  <2>2. OldSrc(m) \in DOMAIN start.tree /\ start.tree[OldSrc(m)].kind = "dir" /\ OldSrc(m) # 0
    BY <1>1, <2>1, OldRange, OldEntry, AtTheStart, NamesType
  <2>3. Alone(m)
    <3>1. r[1] = m
      BY <1>6
    <3> QED BY <1>1, <3>1 DEF Alone
  <2>4. Sub(m)
    BY <1>1, <2>2, <2>3 DEF Sub, SrcInv, TreeInv
  <2>5. Top.pass = 1 /\ Top.pass = 2
    BY <1>4, <2>2, <2>4 DEF HwInv, SubInv
  <2> QED BY <2>5
<1> QED BY <1>2, <1>5, <1>6, BelowCases

LEMMA HwNotInvented == HwInv => NothingInvented
<1> SUFFICES ASSUME HwInv, Noticed, NEW r \in Sources, Lookup(Target \o r) # 0
             PROVE  LET i == Lookup(Target \o r) IN
                    \/ i \in DOMAIN start.tree /\ node[i] = start.tree[i]
                    \/ node[i].kind = "dir"
                    \/ \E j \in {h[2] : h \in {g \in had : g[1] = r}} : BlocksOf(r, j, node[i].data)
  BY DEF NothingInvented, Noticed
<1> DEFINE i == Lookup(Target \o r)
<1>1. /\ TreeInv /\ WayInv /\ HadInv /\ DestInv /\ DeepInv /\ start \in Starts
      /\ Names \subseteq AllNames \ {NoName, "."} /\ Hw2 /\ Directory /\ ~KS
  BY NamesType DEF HwInv, DiskInv, TreeInv, Hw2
<1>2. r \in Below /\ Target = start.dst
  BY <1>1 DEF Sources, Target
<1>3. ASSUME NEW m \in Names, r = <<m>>
      PROVE  \/ i \in DOMAIN start.tree /\ node[i] = start.tree[i]
             \/ \E j \in {h[2] : h \in {g \in had : g[1] = r}} : BlocksOf(r, j, node[i].data)
  <2>1. i = Dst(m) /\ i # 0
    BY <1>1, <1>2, <1>3, Places
  <2>2. CASE Dst(m) = OldDst(m) /\ node[Dst(m)] = start.tree[Dst(m)]
    BY <1>1, <2>1, <2>2, OldRange
  <2>3. CASE \E j \in Hads(m) : MadeOf(had, m, j, node[Dst(m)].data)
    <3>1. PICK j \in Hads(m) : MadeOf(had, m, j, node[i].data)
      BY <2>1, <2>3
    <3>2. BlocksOf(r, j, node[i].data)
      BY <1>3, <3>1 DEF MadeOf, BlocksOf
    <3>3. j \in {h[2] : h \in {g \in had : g[1] = r}}
      BY <1>3, <3>1 DEF Hads
    <3> QED BY <3>2, <3>3
  <2> QED BY <1>1, <2>1, <2>2, <2>3 DEF DestInv
<1>4. ASSUME NEW m \in Names, NEW k \in Names, r = <<m, k>>
      PROVE  (i \in DOMAIN start.tree /\ node[i] = start.tree[i]) \/ node[i].kind = "dir"
  <2>1. i = Entry(node, Dst(m), k) /\ i # 0
    BY <1>1, <1>2, <1>4, Places
  <2>2. Dst(m) # 0 /\ k # "." /\ k \in DOMAIN node[Dst(m)].names
    BY <1>1, <2>1 DEF Entry
  <2>3. Dst(m) \in Inos
    <3>1. Dest \in Inos
      <4>1. Dest # 0
        BY <2>2 DEF Dst, Entry
      <4> QED BY <1>1, <4>1, Places
    <3>2. IsTree(node) /\ 0 \notin DOMAIN node /\ DOMAIN node = Inos /\ m # "."
      BY <1>1, NamesType DEF TreeInv
    <3> QED BY <2>2, <3>1, <3>2, EntryType DEF Dst
  <2>4. node[Dst(m)].kind # "file"
    BY <1>1, <2>2, <2>3 DEF TreeInv, IsTree, IsNode
  <2>5. Dst(m) = OldDst(m) /\ node[OldDst(m)] = start.tree[OldDst(m)]
    BY <1>1, <2>2, <2>4 DEF DestInv
  <2>6. i = OldBelow(m, k)
    BY <2>1, <2>5 DEF OldBelow, Entry
  <2>7. i \in DOMAIN start.tree
    BY <1>1, <2>1, <2>6, OldRange, OldEntry DEF OldBelow
  <2>8. CASE i = Dest
    <3>1. start.tree[Dest].kind = "dir"
      BY <1>1, <2>2, <2>5, OldRange, OldEntry DEF OldDst
    <3> QED BY <1>1, <2>1, <2>8, <3>1, Places
  <2>9. CASE node[i] = start.tree[i]
    BY <2>7, <2>9
  <2> QED BY <1>1, <2>1, <2>6, <2>8, <2>9 DEF DeepInv
<1> QED BY <1>2, <1>3, <1>4, BelowCases

-----------------------------------------------------------------------------
(* cp1: one file, while nobody else changes anything                        *)

\* What cp1 never changes is the source, and it finds it at its place.
CpDisk ==
    /\ start \in Starts /\ ~Directory /\ DOMAIN node = Inos /\ IsTree(node)
    /\ Lookup(start.src) = Source
    /\ Source # 0 => /\ node[Source] = start.tree[Source]
                     /\ << <<>>, Source, start.tree[Source].data >> \in had

CpFrame ==
    /\ frames = <<Top>> /\ Top.src = start.src /\ Top.dst = start.dst
    /\ pc \in {"open", "creat", "copy", "leave"}
    /\ pc # "open" => Source # 0
    /\ status = "done" => pc = "leave"

\* The destination is the old one, then the first blocks of the source, then the source.
CpCopy ==
    LET dst == Lookup(start.dst) IN
    /\ pc \in {"open", "creat"} =>
          /\ \A k \in 0..Len(start.dst) : At(node, start.dst, k) = At(start.tree, start.dst, k)
          /\ Dest # 0 => node[Dest] = start.tree[Dest]
    /\ pc \in {"creat", "copy"} => input = Source
    /\ pc = "creat" => pos = 0
    /\ pc = "copy" =>
          /\ output = dst /\ dst # 0 /\ dst # Source /\ node[dst].kind = "file"
          /\ pos = Len(node[dst].data) /\ Begins(node[dst].data, node[Source].data)
    /\ pc = "leave" => dst # 0 /\ node[dst].data = node[Source].data

CpInv == CpDisk /\ CpFrame /\ CpCopy

\* What a path leads to stays there when something else is made or a file changes.
LEMMA GrowsWay ==
    ASSUME NEW old, NEW new, NEW d, NEW n, NEW i, IsTree(old), 0 \notin DOMAIN old, Grows(old, new, d, n, i),
           NEW p \in Paths, LookupOn(old, p) # 0
    PROVE  LookupOn(new, p) = LookupOn(old, p)
<1>1. \A k \in 0..Len(p) : At(old, p, k) # 0 /\ At(old, p, k) \in DOMAIN old
  BY NoGap, LookType
<1>2. Entry(old, d, n) = 0
  BY DEF Grows, Entry
<1>3. ASSUME NEW k \in 0..Len(p) - 1 PROVE Entry(new, At(old, p, k), p[k + 1]) = At(old, p, k + 1)
  <2>1. /\ k \in 0..Len(p) /\ k + 1 \in 0..Len(p) /\ p[k + 1] \in AllNames
        /\ At(old, p, k + 1) = Entry(old, At(old, p, k), p[k + 1])
    BY PartsOf
  <2>2. At(old, p, k) \in DOMAIN old /\ At(old, p, k + 1) # 0
    BY <1>1, <2>1
  <2>3. ~(At(old, p, k) = d /\ p[k + 1] = n)
    BY <1>2, <2>1, <2>2
  <2> QED BY <2>1, <2>2, <2>3, GrowsEntry
<1> QED BY <1>3, SameWay

LEMMA RewritesWay ==
    ASSUME NEW old, NEW new, NEW i, IsTree(old), 0 \notin DOMAIN old, Rewrites(old, new, i), NEW p \in Paths
    PROVE  LookupOn(new, p) = LookupOn(old, p)
<1>1. ASSUME NEW k \in 0..Len(p) - 1 PROVE Entry(new, At(old, p, k), p[k + 1]) = At(old, p, k + 1)
  <2>1. /\ k \in 0..Len(p) /\ k + 1 \in 0..Len(p) /\ p[k + 1] \in AllNames
        /\ At(old, p, k + 1) = Entry(old, At(old, p, k), p[k + 1])
    BY PartsOf
  <2>2. At(old, p, k) \in DOMAIN old \cup {0}
    BY <2>1, LookType
  <2> QED BY <2>1, <2>2, RewritesEntry
<1> QED BY <1>1, SameWay

\* A path that is not empty is one name longer than another.
LEMMA LastName ==
    ASSUME NEW p \in Paths, p # <<>>
    PROVE  /\ Front(p) \in Paths /\ Last(p) \in AllNames /\ p = Append(Front(p), Last(p))
           /\ Len(p) - 1 \in 0..Len(p) /\ \A disk : LookupOn(disk, Front(p)) = At(disk, p, Len(p) - 1)
<1> DEFINE N == Len(p) - 1  q == SubSeq(p, 1, N)  e == p[N + 1]  t == Append(q, e)
<1>1. p \in Seq(AllNames) /\ Len(p) \in Nat /\ Len(p) # 0 /\ \A k \in 1..Len(p) : p[k] \in AllNames
  BY LenProperties, EmptySeq, ElementOfSeq DEF Paths
<1>2. N \in Nat /\ N + 1 = Len(p) /\ N \in 0..Len(p)
  BY <1>1
<1>3. q \in Seq(AllNames) /\ Len(q) = N /\ \A k \in 1..N : q[k] = p[k]
  <2>1. \A k \in 1..N : p[k] \in AllNames
    BY <1>1, <1>2
  <2>2. /\ q \in Seq(AllNames) /\ Len(q) = IF 1 <= N THEN N - 1 + 1 ELSE 0
        /\ \A k \in 1..N - 1 + 1 : q[k] = p[1 + k - 1]
    BY <1>1, <1>2, <2>1, SubSeqProperties
  <2> HIDE DEF N, q
  <2>3. Len(q) = N
    BY <1>2, <2>2
  <2>4. \A k \in 1..N : q[k] = p[k]
    BY <1>2, <2>2
  <2> QED BY <2>2, <2>3, <2>4
<1>4. Front(p) = q /\ Last(p) = e /\ \A disk : LookupOn(disk, Front(p)) = At(disk, p, N)
  BY <1>2 DEF Front, Last, At
<1>5. e \in AllNames
  BY <1>1, <1>2
<1> HIDE DEF N, q, e
<1>6. t \in Seq(AllNames) /\ Len(t) = Len(q) + 1 /\ t[Len(q) + 1] = e /\ \A k \in 1..Len(q) : t[k] = q[k]
  BY <1>3, <1>5, Appended
<1> HIDE DEF t
<1>7. \A k \in 1..N + 1 : p[k] = t[k]
  <2>1. p[N + 1] = t[N + 1]
    BY <1>3, <1>6 DEF e
  <2>2. \A k \in 1..N : p[k] = t[k]
    BY <1>3, <1>6
  <2> QED BY <1>2, <2>1, <2>2
<1>8. p = t
  BY <1>1, <1>2, <1>3, <1>6, <1>7, SeqEqual
<1> QED BY <1>2, <1>3, <1>4, <1>5, <1>8 DEF Paths, t, N

\* Where the paths lead, and what is there.
LEMMA CpPlaces ==
    ASSUME CpDisk, CpFrame
    PROVE  /\ From = start.src /\ To = start.dst /\ start.src \in Paths /\ start.dst \in Paths
           /\ \A k \in DOMAIN start.dst : start.dst[k] # NoName
           /\ 0 \notin Inos /\ ~Tutor /\ ~KS /\ ~Hw2
           /\ Source # 0 => Source \in Inos /\ node[Source].kind # "free"
           /\ Lookup(start.dst) # 0 => Lookup(start.dst) \in Inos /\ node[Lookup(start.dst)].kind # "free"
<1>1. start \in Starts /\ ~Directory /\ Top.src = start.src /\ Top.dst = start.dst
  BY DEF CpDisk, CpFrame
<1>2. start.src \in Paths /\ start.dst \in Paths /\ 0 \notin Inos
  BY <1>1, AtTheStart, NamesType
<1>3. From = start.src /\ To = start.dst
  <2>1. From = start.src \o <<>> /\ To = start.dst \o <<>>
    BY <1>1 DEF From, To
  <2> QED BY <1>2, <2>1, ConcatEmptySeq DEF Paths
<1>4. ~Tutor /\ ~KS /\ ~Hw2
  BY <1>1 DEF Directory, Tutor, KS, Hw2
<1>5. ASSUME NEW p \in Paths, Lookup(p) # 0 PROVE Lookup(p) \in Inos /\ node[Lookup(p)].kind # "free"
  <2>1. Len(p) \in 0..Len(p) /\ At(node, p, Len(p)) = Lookup(p)
    BY PartsOf DEF Lookup
  <2> QED BY <1>2, <1>5, <2>1, LookType DEF CpDisk
<1>6. \A k \in DOMAIN start.dst : start.dst[k] # NoName
  BY <1>1, StartsAssumption
<1> QED BY <1>1, <1>2, <1>3, <1>4, <1>5, <1>6 DEF CpDisk

LEMMA CpData == CpDisk => \A i \in Inos : node[i].data \in Seq(Blocks) /\ Len(node[i].data) \in Nat
BY LenProperties DEF CpDisk, IsTree, IsNode

\* A step of the control that leaves the disk alone.
LEMMA CpKept ==
    ASSUME CpDisk, UNCHANGED <<start, node, had>>
    PROVE  /\ CpDisk' /\ Source' = Source /\ Dest' = Dest /\ Lookup(start.dst)' = Lookup(start.dst)
           /\ At(node, start.dst, 0)' = At(node, start.dst, 0)
BY DEF CpDisk, Source, Dest, Lookup, Directory, At

LEMMA CpStop ==
    ASSUME CpInv, UNCHANGED <<start, node, frames, pc, input, output, pos, touched, had>>,
           status' \in {status, "failed"} \/ pc = "leave"
    PROVE  CpInv'
<1>1. Top' = Top /\ CpDisk' /\ Source' = Source /\ Dest' = Dest /\ Lookup(start.dst)' = Lookup(start.dst)
  BY CpKept DEF CpInv, Top
<1>2. CpFrame'
  BY <1>1 DEF CpInv, CpFrame
<1>3. CpCopy'
  BY <1>1 DEF CpInv, CpCopy, At
<1> QED BY <1>1, <1>2, <1>3 DEF CpInv

LEMMA CpOpen == ASSUME CpInv, OpenInput PROVE CpInv'
<1>1. CpDisk /\ CpFrame /\ CpCopy /\ pc = "open" /\ status = "running"
  BY DEF CpInv, OpenInput, Ready
<1>2. From = start.src /\ ~Tutor /\ Lookup(start.src) = Source
  BY <1>1, CpPlaces DEF CpDisk
<1>3. CASE Exists(From) /\ "owner" \in node[Lookup(From)].mode
  <2>1. /\ input' = Source /\ Source # 0 /\ pos' = 0 /\ pc' = "creat"
        /\ UNCHANGED <<start, node, frames, output, status, faults, touched, had>>
    BY <1>2, <1>3 DEF OpenInput, Exists
  <2>2. Top' = Top /\ CpDisk' /\ Source' = Source /\ Dest' = Dest
    BY <1>1, <2>1, CpKept DEF Top
  <2>3. CpFrame'
    BY <1>1, <2>1, <2>2 DEF CpFrame
  <2>4. CpCopy'
    BY <1>1, <2>1, <2>2 DEF CpCopy, At
  <2> QED BY <2>2, <2>3, <2>4 DEF CpInv
<1>4. CASE ~(Exists(From) /\ "owner" \in node[Lookup(From)].mode)
  <2>1. Oops
    BY <1>2, <1>4 DEF OpenInput
  <2> QED BY <2>1, CpStop DEF Oops
<1> QED BY <1>3, <1>4

\* The file that is there is emptied, or another is made.
LEMMA CpCreated ==
    ASSUME CpInv, CreateOutput, pc' = "copy"
    PROVE  /\ CpDisk' /\ Source' = Source
           /\ output' = Lookup(start.dst)' /\ output' # 0 /\ output' # Source
           /\ node'[output'].kind = "file" /\ node'[output'].data = <<>>
<1>1. CpDisk /\ CpFrame /\ CpCopy /\ pc = "creat" /\ status = "running" /\ Source # 0
  BY DEF CpInv, CpFrame, CreateOutput, Ready
<1>2. /\ To = start.dst /\ start.dst \in Paths /\ start.src \in Paths /\ 0 \notin Inos
      /\ \A k \in DOMAIN start.dst : start.dst[k] # NoName
      /\ Source \in Inos /\ node[Source].kind # "free"
      /\ Lookup(start.dst) # 0 => Lookup(start.dst) \in Inos /\ node[Lookup(start.dst)].kind # "free"
      /\ start \in Starts /\ DOMAIN node = Inos /\ IsTree(node) /\ Lookup(start.src) = Source
  BY <1>1, CpPlaces DEF CpDisk
<1>3. /\ ~(IsDir(start.dst) \/ ~IsDir(Front(start.dst)) \/ (~Exists(start.dst) /\ ~Room))
      /\ node' = IF Exists(start.dst) THEN Emptied ELSE Added(start.dst, File({"owner", "group"}, <<>>))
      /\ output' = IF Exists(start.dst) THEN Lookup(start.dst) ELSE NewIno
      /\ UNCHANGED <<start, frames, input, pos, status, faults, touched, had>>
  BY <1>1, <1>2 DEF CreateOutput, Ready, Oops
<1>4. /\ \A k \in 0..Len(start.dst) : At(node, start.dst, k) # Source
      /\ Lookup(start.dst) # Source
  <2>1. \A k \in 0..Len(start.dst) : At(node, start.dst, k) = At(start.tree, start.dst, k)
    BY <1>1 DEF CpCopy
  <2>2. \A k \in 0..Len(start.dst) : At(start.tree, start.dst, k) # Source
    BY <1>1, <1>2, AtTheStart
  <2>3. Len(start.dst) \in 0..Len(start.dst) /\ At(node, start.dst, Len(start.dst)) = Lookup(start.dst)
    BY <1>2, PartsOf DEF Lookup
  <2> QED BY <2>1, <2>2, <2>3
<1>5. CASE Exists(start.dst)
  <2> DEFINE i == Lookup(start.dst)
  <2>1. /\ i \in Inos /\ i # 0 /\ i # Source /\ node[i].kind # "free" /\ node[i].kind # "dir"
        /\ output' = i /\ node' = [node EXCEPT ![i].data = <<>>]
    BY <1>2, <1>3, <1>4, <1>5 DEF Exists, IsDir, Emptied
  <2> HIDE DEF i
  <2>2. IsNode(node[i]) /\ node[i].kind = "file"
    BY <1>2, <2>1 DEF IsTree, IsNode
  <2>3. DOMAIN node' = Inos /\ (\A x \in Inos \ {i} : node'[x] = node[x])
        /\ node'[i] = [kind |-> "file", mode |-> node[i].mode, data |-> <<>>, names |-> node[i].names]
    BY <1>2, <2>1, <2>2 DEF IsNode
  <2>4. <<>> \in Seq(Blocks) /\ DOMAIN node[i].names = {}
    BY <2>2 DEF IsNode
  <2>5. IsNode(node'[i])
    BY <2>3, <2>4 DEF IsNode
  <2>6. Rewrites(node, node', i) /\ node'[i].kind = "file" /\ node'[i].data = <<>>
    BY <1>2, <2>1, <2>2, <2>3, <2>5 DEF Rewrites
  <2>7. IsTree(node') /\ \A p \in Paths : LookupOn(node', p) = LookupOn(node, p)
    BY <1>2, <2>6, RewritesTree, RewritesWay
  <2>8. Source' = Source /\ Lookup(start.src)' = Source /\ Lookup(start.dst)' = i
    BY <1>2, <1>3, <2>7 DEF Lookup, Source, i
  <2>9. CpDisk'
    BY <1>1, <1>2, <1>3, <2>1, <2>3, <2>7, <2>8 DEF CpDisk, Directory
  <2> QED BY <2>1, <2>6, <2>8, <2>9
<1>6. CASE ~Exists(start.dst)
  <2> DEFINE new == File({"owner", "group"}, <<>>)  p == Front(start.dst)  n == Last(start.dst)
  <2>1. new = [kind |-> "file", mode |-> {"owner", "group"}, data |-> <<>>, names |-> <<>>]
    BY DEF File
  <2>2. IsNode(new) /\ new.kind = "file" /\ DOMAIN new.names = {} /\ new.data = <<>>
    <3>1. <<>> \in Seq(Blocks) /\ DOMAIN <<>> = {}
      OBVIOUS
    <3>2. new.kind = "file" /\ new.names = <<>> /\ new.data = <<>>
      BY <2>1
    <3> HIDE DEF new
    <3> QED BY <2>1, <3>1, <3>2 DEF IsNode
  <2> HIDE DEF new
  <2>3. Lookup(start.dst) = 0 /\ start.dst # <<>>
    <3>1. Lookup(start.dst) = 0
      BY <1>6 DEF Exists
    <3> QED BY <3>1, LookEmpty DEF Lookup, Root
  <2>4. /\ p \in Paths /\ n \in AllNames /\ start.dst = Append(p, n)
        /\ LookupOn(node, p) # Source /\ n # NoName
    <3>1. /\ p \in Paths /\ n \in AllNames /\ start.dst = Append(p, n)
          /\ LookupOn(node, p) = At(node, start.dst, Len(start.dst) - 1)
          /\ Len(start.dst) - 1 \in 0..Len(start.dst)
      BY <1>2, <2>3, LastName
    <3>2. Len(start.dst) \in DOMAIN start.dst
      BY <1>2, <2>3, EmptySeq, LenProperties DEF Paths
    <3> QED BY <1>2, <1>4, <3>1, <3>2 DEF Last
  <2> HIDE DEF p, n
  <2>5. IsDir(p) /\ Room /\ Lookup(Append(p, n)) = 0 /\ Lookup(p) # 0
        /\ node' = Added(Append(p, n), new) /\ output' = NewIno
    BY <1>3, <1>6, <2>3, <2>4 DEF p, new, IsDir, Exists
  <2>6. n # "."
    <3>1. Entry(node, Lookup(p), n) = 0
      BY <2>4, <2>5, LookStep DEF Lookup
    <3> QED BY <2>5, <3>1 DEF Entry
  <2>7. Grows(node, node', Lookup(p), n, NewIno) /\ node'[NewIno] = new
    BY <1>2, <2>2, <2>4, <2>5, <2>6, AddedGrows
  <2>8. IsTree(node') /\ DOMAIN node' = Inos /\ NewIno \in Inos /\ NewIno # Source /\ NewIno # 0
        /\ node'[Source] = node[Source]
    <3>1. IsTree(node') /\ DOMAIN node' = Inos /\ NewIno \in Inos /\ node[NewIno].kind = "free"
      BY <1>2, <2>7, GrowsTree DEF Grows
    <3> QED BY <1>2, <2>4, <2>7, <3>1 DEF Grows, Lookup
  <2>9. LookupOn(node', start.src) = Source /\ LookupOn(node', p) = Lookup(p)
    BY <1>1, <1>2, <2>4, <2>5, <2>7, GrowsWay DEF Lookup
  <2>10. LookupOn(node', start.dst) = NewIno
    <3>1. LookupOn(node', start.dst) = Entry(node', Lookup(p), n)
      BY <2>4, <2>9, LookStep
    <3>2. Lookup(p) \in DOMAIN node /\ n \in DOMAIN node'[Lookup(p)].names /\ node'[Lookup(p)].names[n] = NewIno
      BY <2>7 DEF Grows
    <3> QED BY <2>5, <2>6, <3>1, <3>2 DEF Entry
  <2>11. Source' = Source /\ Lookup(start.src)' = Source /\ Lookup(start.dst)' = NewIno
    BY <1>3, <2>9, <2>10 DEF Source, Lookup
  <2>12. CpDisk'
    BY <1>1, <1>2, <1>3, <2>8, <2>11 DEF CpDisk, Directory
  <2> QED BY <2>2, <2>5, <2>7, <2>8, <2>11, <2>12
<1> QED BY <1>5, <1>6

LEMMA CpCreate == ASSUME CpInv, CreateOutput PROVE CpInv'
<1>1. CASE IsDir(To) \/ ~IsDir(Front(To)) \/ (~Exists(To) /\ ~Room)
  BY <1>1, CpStop DEF CreateOutput, Oops
<1>2. CASE ~(IsDir(To) \/ ~IsDir(Front(To)) \/ (~Exists(To) /\ ~Room))
  <2>1. pc' = "copy" /\ pc = "creat" /\ UNCHANGED <<start, frames, input, pos, status, faults, touched, had>>
    BY <1>2 DEF CreateOutput, Ready
  <2>2. /\ CpDisk' /\ Source' = Source
        /\ output' = Lookup(start.dst)' /\ output' # 0 /\ output' # Source
        /\ node'[output'].kind = "file" /\ node'[output'].data = <<>>
    BY <2>1, CpCreated
  <2>3. Top' = Top /\ CpFrame /\ CpCopy /\ CpDisk
    BY <2>1 DEF Top, CpInv
  <2>4. input = Source /\ pos = 0 /\ Source # 0
    BY <2>1, <2>3 DEF CpCopy, CpFrame
  <2>5. CpFrame'
    BY <2>1, <2>2, <2>3, <2>4 DEF CpFrame
  <2>6. Len(<<>>) = 0 /\ Begins(<<>>, node'[Source].data)
    <3>1. Source \in Inos
      BY <2>3, <2>4, CpPlaces
    <3>2. Len(node'[Source].data) \in Nat
      BY <2>2, <3>1, LenProperties DEF CpDisk, IsTree, IsNode
    <3> QED BY <3>2 DEF Begins
  <2>7. CpCopy'
    BY <2>1, <2>2, <2>4, <2>6 DEF CpCopy
  <2> QED BY <2>2, <2>5, <2>7 DEF CpInv
<1> QED BY <1>1, <1>2

LEMMA CpBlock == ASSUME CpInv, CopyBlock PROVE CpInv'
<1>1. /\ CpDisk /\ CpFrame /\ CpCopy /\ pc = "copy" /\ status = "running" /\ Source # 0 /\ Top.dst = start.dst
      /\ start \in Starts /\ DOMAIN node = Inos /\ IsTree(node) /\ Lookup(start.src) = Source /\ ~Directory
  BY DEF CpInv, CpDisk, CpFrame, CopyBlock, Ready
<1>2. /\ start.dst \in Paths /\ start.src \in Paths /\ 0 \notin Inos /\ ~Tutor
      /\ Source \in Inos /\ node[Source].kind # "free"
      /\ Lookup(start.dst) # 0 => Lookup(start.dst) \in Inos
  BY <1>1, CpPlaces
<1>3. /\ input = Source /\ output = Lookup(start.dst) /\ output # 0 /\ output # Source
      /\ output \in Inos /\ node[output].kind = "file"
      /\ pos = Len(node[output].data) /\ Begins(node[output].data, node[Source].data)
  BY <1>1, <1>2 DEF CpCopy
<1> DEFINE s == node[output].data  u == node[Source].data
<1>4. s \in Seq(Blocks) /\ u \in Seq(Blocks) /\ Len(s) \in Nat /\ Len(u) \in Nat
  BY <1>1, <1>2, <1>3, CpData
<1>5. CASE More
  <2>1. /\ node' = [node EXCEPT ![output].data = Append(s, u[pos + 1])] /\ pos' = pos + 1
        /\ UNCHANGED <<start, frames, pc, input, output, status, faults, touched, had>>
    BY <1>3, <1>5 DEF CopyBlock
  <2> DEFINE t == Append(s, u[pos + 1])
  <2> HIDE DEF s, u
  <2>2. pos = Len(s) /\ pos + 1 <= Len(u) /\ Begins(s, u)
    BY <1>3, <1>4, <1>5 DEF More, s, u
  <2>3. u[pos + 1] \in Blocks
    BY <1>4, <2>2, ElementOfSeq
  <2>4. t \in Seq(Blocks) /\ Len(t) = Len(s) + 1 /\ t[Len(s) + 1] = u[pos + 1] /\ \A i \in 1..Len(s) : t[i] = s[i]
    BY <1>4, <2>3, Appended
  <2>5. node' = [node EXCEPT ![output].data = t]
    BY <2>1
  <2> HIDE DEF t
  <2>6. pos + 1 = Len(t) /\ Begins(t, u)
    BY <1>4, <2>2, <2>4 DEF Begins
  <2>7. IsNode(node[output])
    BY <1>1, <1>3 DEF IsTree
  <2>8. DOMAIN node' = Inos /\ (\A x \in Inos \ {output} : node'[x] = node[x])
        /\ node'[output] = [kind |-> "file", mode |-> node[output].mode, data |-> t, names |-> node[output].names]
    BY <1>1, <1>3, <2>5, <2>7 DEF IsNode
  <2>9. DOMAIN node[output].names = {}
    BY <1>3, <2>7 DEF IsNode
  <2>10. IsNode(node'[output])
    BY <2>4, <2>8, <2>9 DEF IsNode
  <2>11. Rewrites(node, node', output) /\ node'[output].data = t /\ node'[output].kind = "file"
    BY <1>1, <1>3, <2>8, <2>10 DEF Rewrites
  <2>12. IsTree(node') /\ \A p \in Paths : LookupOn(node', p) = LookupOn(node, p)
    BY <1>1, <1>2, <2>11, RewritesTree, RewritesWay
  <2>13. Source' = Source /\ Lookup(start.src)' = Source /\ Lookup(start.dst)' = output /\ Top' = Top
    BY <1>1, <1>2, <1>3, <2>1, <2>12 DEF Lookup, Source, Top
  <2>14. node'[Source] = node[Source]
    BY <1>2, <1>3, <2>8
  <2>15. CpDisk'
    BY <1>1, <2>1, <2>8, <2>12, <2>13, <2>14 DEF CpDisk, Directory
  <2>16. CpFrame'
    BY <1>1, <2>1, <2>13 DEF CpFrame
  <2>17. Begins(node'[output].data, node'[Source].data) /\ pos' = Len(node'[output].data)
    BY <2>1, <2>6, <2>11, <2>14 DEF u
  <2>18. CpCopy'
    BY <1>1, <1>3, <2>1, <2>11, <2>13, <2>17 DEF CpCopy
  <2> QED BY <2>15, <2>16, <2>18 DEF CpInv
<1>6. CASE ~More /\ node[input].kind = "dir"
  BY <1>2, <1>6, CpStop DEF CopyBlock, Oops
<1>7. CASE ~More /\ node[input].kind # "dir"
  <2>1. pc' = "leave" /\ UNCHANGED <<start, node, frames, input, output, pos, status, faults, touched, had>> /\ Top' = Top
    BY <1>1, <1>7 DEF CopyBlock, NextFile, Top
  <2>2. Len(s) = Len(u) /\ \A i \in 1..Len(s) : s[i] = u[i]
    BY <1>3, <1>4, <1>7 DEF More, Begins
  <2> HIDE DEF s, u
  <2>3. s = u
    BY <1>4, <2>2, SeqEqual
  <2>4. CpDisk' /\ Source' = Source /\ Lookup(start.dst)' = Lookup(start.dst)
    BY <1>1, <2>1, CpKept
  <2>5. CpFrame'
    BY <1>1, <2>1, <2>4 DEF CpFrame
  <2>6. CpCopy'
    BY <1>3, <2>1, <2>3, <2>4 DEF CpCopy, s, u
  <2> QED BY <2>4, <2>5, <2>6 DEF CpInv
<1> QED BY <1>5, <1>6, <1>7

LEMMA CpStep == ASSUME CpInv, [Next]_vars PROVE CpInv'
<1>1. CpDisk /\ CpFrame /\ ~Directory /\ ~Tutor
  <2>1. CpDisk /\ CpFrame
    BY DEF CpInv
  <2> QED BY <2>1, CpPlaces DEF CpDisk
<1>2. CASE WriteFails
  <2>1. status' = "failed" /\ UNCHANGED <<start, node, frames, pc, input, output, pos, touched, had>>
    BY <1>1, <1>2 DEF WriteFails
  <2> QED BY <2>1, CpStop
<1>3. CASE LeaveDirectory
  <2>1. Len(frames) = 1 /\ pc = "leave"
    BY <1>1, <1>3 DEF CpFrame, LeaveDirectory, Ready
  <2>2. UNCHANGED <<start, node, frames, pc, input, output, pos, touched, had>>
    BY <1>3, <2>1 DEF LeaveDirectory
  <2> QED BY <2>1, <2>2, CpStop
<1>4. CASE EnterDirectory \/ ReadDir \/ Stat \/ Descend \/ EndOfDirectory
  BY <1>1, <1>4 DEF CpFrame, EnterDirectory, ReadDir, Stat, Descend, EndOfDirectory, Ready
<1>5. CASE UNCHANGED vars
  BY <1>5, CpStop DEF vars, copy
<1>6. ASSUME NEW n \in Names, Meddle(n) PROVE FALSE
  BY <1>1, <1>6 DEF Meddle
<1> QED BY <1>2, <1>3, <1>4, <1>5, <1>6, CpOpen, CpCreate, CpBlock DEF Next, Copier, Ended

LEMMA CpInit == ASSUME Init, ~Directory PROVE CpInv
<1>1. /\ start \in Starts /\ DOMAIN node = Inos /\ IsTree(node)
      /\ \A i \in DOMAIN start.tree : node[i] = start.tree[i]
      /\ \A p \in Paths : /\ \A k \in 0..Len(p) : At(node, p, k) = At(start.tree, p, k)
                          /\ LookupOn(node, p) = LookupOn(start.tree, p)
                          /\ LookupOn(start.tree, p) \in DOMAIN start.tree \cup {0}
  BY DiskInit
<1>2. start.src \in Paths /\ start.dst \in Paths
  BY <1>1, AtTheStart
<1>3. /\ frames = <<Frame(start.src, start.dst)>> /\ pc = "open" /\ status = "running"
      /\ had = UNION {HadAt(start.tree, r) : r \in {<<>>} \cup Below}
  BY DEF Init
<1>4. Source # 0 => << <<>>, Source, start.tree[Source].data >> \in had
  <2>1. start.src \o <<>> = start.src
    BY <1>2, ConcatEmptySeq DEF Paths
  <2>2. Source # 0 => << <<>>, Source, start.tree[Source].data >> \in HadAt(start.tree, <<>>)
    BY <2>1 DEF Source, HadAt
  <2> QED BY <1>3, <2>2
<1>5. CpDisk
  BY <1>1, <1>2, <1>4 DEF CpDisk, Lookup, Source
<1>6. frames = <<Top>> /\ Top.src = start.src /\ Top.dst = start.dst
  <2> DEFINE f == Frame(start.src, start.dst)
  <2>1. f.src = start.src /\ f.dst = start.dst
    BY DEF Frame
  <2>2. frames = <<f>>
    BY <1>3
  <2> HIDE DEF f
  <2>3. Top = f
    BY <2>2 DEF Top, Last
  <2> QED BY <2>1, <2>2, <2>3
<1>7. CpFrame
  BY <1>3, <1>6 DEF CpFrame
<1>8. CpCopy
  BY <1>1, <1>2, <1>3 DEF CpCopy, Dest
<1> QED BY <1>5, <1>7, <1>8 DEF CpInv

LEMMA CpCopied == CpInv => SuccessMeansCopied
<1> SUFFICES ASSUME CpInv, status = "done", NEW r \in Sources
             PROVE  /\ Exists(Target \o r)
                    /\ node[Lookup(Target \o r)].data = node[Lookup(start.src \o r)].data
  BY DEF SuccessMeansCopied
<1>1. CpDisk /\ CpFrame /\ CpCopy
  BY DEF CpInv
<1>2. start.src \in Paths /\ start.dst \in Paths /\ ~KS /\ Lookup(start.src) = Source /\ ~Directory
  BY <1>1, CpPlaces DEF CpDisk
<1>3. r = <<>> /\ Target = start.dst
  BY <1>2 DEF Sources, Target
<1>4. Target \o r = start.dst /\ start.src \o r = start.src
  BY <1>2, <1>3, ConcatEmptySeq DEF Paths
<1>5. Lookup(start.dst) # 0 /\ node[Lookup(start.dst)].data = node[Source].data
  BY <1>1 DEF CpFrame, CpCopy
<1> QED BY <1>2, <1>4, <1>5 DEF Exists

LEMMA CpNotInvented == CpInv => NothingInvented
<1> SUFFICES ASSUME CpInv, NEW r \in Sources, Lookup(Target \o r) # 0
             PROVE  LET i == Lookup(Target \o r) IN
                    \/ i \in DOMAIN start.tree /\ node[i] = start.tree[i]
                    \/ node[i].kind = "dir"
                    \/ \E j \in {h[2] : h \in {g \in had : g[1] = r}} : BlocksOf(r, j, node[i].data)
  BY DEF NothingInvented
<1>1. CpDisk /\ CpFrame /\ CpCopy /\ start \in Starts
  BY DEF CpInv, CpDisk
<1>2. /\ start.dst \in Paths /\ ~KS /\ ~Directory
      /\ Source # 0 => Source \in Inos
      /\ Lookup(start.dst) # 0 => Lookup(start.dst) \in Inos
  BY <1>1, CpPlaces DEF CpDisk
<1>3. r = <<>> /\ Target = start.dst
  BY <1>2 DEF Sources, Target
<1>4. Target \o r = start.dst
  BY <1>2, <1>3, ConcatEmptySeq DEF Paths
<1> DEFINE i == Lookup(start.dst)
<1>5. i # 0 /\ i \in Inos
  BY <1>2, <1>4
<1>6. CASE pc \in {"open", "creat"}
  <2>1. i = Dest
    <3>1. Len(start.dst) \in 0..Len(start.dst)
          /\ At(node, start.dst, Len(start.dst)) = i /\ At(start.tree, start.dst, Len(start.dst)) = Dest
      BY <1>2, PartsOf DEF Lookup, Dest
    <3> QED BY <1>1, <1>6, <3>1 DEF CpCopy
  <2>2. i \in DOMAIN start.tree /\ node[i] = start.tree[i]
    BY <1>1, <1>5, <1>6, <2>1, AtTheStart DEF CpCopy
  <2> QED BY <1>4, <2>2
<1>7. CASE pc \in {"copy", "leave"}
  <2>1. node[i].data \in Seq(Blocks) /\ node[Source].data \in Seq(Blocks) /\ Source # 0
    BY <1>1, <1>2, <1>5, <1>7, CpData DEF CpFrame
  <2>2. Begins(node[i].data, node[Source].data)
    <3>1. CASE pc = "copy"
      BY <1>1, <3>1 DEF CpCopy
    <3>2. CASE pc = "leave"
      <4>1. node[i].data = node[Source].data /\ Len(node[i].data) \in Nat
        BY <1>1, <1>5, <3>2, CpData DEF CpCopy
      <4> QED BY <4>1 DEF Begins
    <3> QED BY <1>7, <3>1, <3>2
  <2> DEFINE s == node[i].data  u == node[Source].data  h == << <<>>, Source, u >>
  <2>3. h \in had /\ h[1] = r /\ h[2] = Source /\ h[3] = u
    BY <1>1, <1>3, <2>1 DEF CpDisk
  <2>4. DOMAIN s = 1..Len(s) /\ DOMAIN u = 1..Len(u) /\ Len(s) \in Nat /\ Len(u) \in Nat
    BY <2>1, LenProperties
  <2> HIDE DEF s, u, h
  <2>5. \A k \in DOMAIN s : k \in DOMAIN u /\ s[k] = u[k]
    BY <2>2, <2>4 DEF Begins, s, u
  <2>6. BlocksOf(r, Source, s)
    BY <2>3, <2>5 DEF BlocksOf
  <2>7. Source \in {g[2] : g \in {f \in had : f[1] = r}}
    BY <2>3
  <2> QED BY <1>4, <2>6, <2>7 DEF s
<1> QED BY <1>1, <1>6, <1>7 DEF CpFrame

LEMMA CpAlways == Spec => [](~Directory => CpInv)
<1>1. Init => (~Directory => CpInv)
  BY CpInit
<1>2. (~Directory => CpInv) /\ [Next]_vars => (~Directory => CpInv)'
  <2>1. [Next]_vars => start' = start
    BY DEF Next, vars, copy, Copier, EnterDirectory, ReadDir, Stat, Descend, EndOfDirectory, LeaveDirectory,
           OpenInput, CreateOutput, CopyBlock, WriteFails, Oops, Ended, Meddle
  <2> QED BY <2>1, CpStep DEF Directory
<1> QED BY <1>1, <1>2, PTL DEF Spec

-----------------------------------------------------------------------------
(* The theorems                                                             *)

LEMMA HwAlways == Spec => [](Hw2 => HwInv)
<1>1. Init => (Hw2 => HwInv)
  BY HwInit
<1>2. (Hw2 => HwInv) /\ [Next]_vars => (Hw2 => HwInv)'
  <2>1. [Next]_vars => (Hw2' => Hw2)
    <3>1. [Next]_vars => start' = start
      BY DEF Next, vars, copy, Copier, EnterDirectory, ReadDir, Stat, Descend, EndOfDirectory, LeaveDirectory,
             OpenInput, CreateOutput, CopyBlock, WriteFails, Oops, Ended, Meddle
    <3> QED BY <3>1 DEF Hw2, Directory, KS
  <2> QED BY <2>1, HwStep
<1> QED BY <1>1, <1>2, PTL DEF Spec

\* hw2 copies nothing at all if the source has a subdirectory that nobody else has
\* touched: check_subdir(), and the first pass of the other two versions, ends the
\* program before a file is created, however the rest of the source changes.
THEOREM SubdirectoryLeavesAll == Spec => []UntouchedIfSubdirectory
<1>1. (Hw2 => HwInv) => UntouchedIfSubdirectory
  <2>1. ~Hw2 => UntouchedIfSubdirectory
    BY DEF UntouchedIfSubdirectory
  <2> QED BY <2>1, HwUntouched
<1> QED BY <1>1, HwAlways, PTL

LEMMA CopierAlways == Spec => [](~KS => HwInv \/ CpInv)
<1>1. ~KS => Hw2 \/ ~Directory
  BY DEF Hw2
<1> QED BY <1>1, HwAlways, CpAlways, PTL

\* If hw2 or cp1 ends without an error, each file that was there from beginning to
\* end, and that nobody else has touched, is at the destination with all of its blocks
\* (in the tutor's hw2, if no write has failed and the file could be opened).
THEOREM CopiesAll == Spec => [](~KS => SuccessMeansCopied)
BY CopierAlways, HwCopied, CpCopied, PTL

\* At any point of hw2 or cp1, also where it gives up, a file at the destination is the
\* one that was there before, or all of its blocks are blocks that one and the same file,
\* which has been at the same place in the source, has had in these positions: however
\* often somebody else creates, removes, extends, empties or writes over files there.  (A
\* file that is written over while it is copied gives old blocks and new ones; that there
\* was one moment at which it had them all is not claimed, and is false.)
THEOREM InventsNothing == Spec => [](~KS => NothingInvented)
BY CopierAlways, HwNotInvented, CpNotInvented, PTL
=============================================================================
