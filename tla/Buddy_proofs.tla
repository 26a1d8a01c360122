---------------------------- MODULE Buddy_proofs ----------------------------
(***************************************************************************)
(* Proofs about the free lists and the operators on them, for any number   *)
(* of lists, and the few facts about numbers and sequences they rest on.   *)
(***************************************************************************)
EXTENDS Buddy, SequenceTheorems, FiniteSetTheorems, TLAPS

-----------------------------------------------------------------------------
(* Least elements, which the code finds by counting up.                    *)

\* Min finds the least element of a set of numbers.
LEMMA LeastExists ==
  ASSUME NEW S \in SUBSET Nat, S # {}
  PROVE  Min(S) \in S /\ \A x \in S : Min(S) <= x
<1>. DEFINE R == {ss \in Nat \X Nat : ss[1] < ss[2]}
<1>0. IsWellFoundedOn(R, Nat)
  BY NatLessThanWellFounded DEF OpToRel
<1>1. \E x \in S : \A y \in S : ~(<<y, x>> \in R)
  BY <1>0, WFMin
<1>2. \E x \in S : \A y \in S : x <= y
  <2>1. PICK x \in S : \A y \in S : ~(<<y, x>> \in R)
    BY <1>1
  <2>2. ASSUME NEW y \in S PROVE x <= y
    <3>1. <<y, x>> \in Nat \X Nat /\ <<y, x>>[1] = y /\ <<y, x>>[2] = x
      OBVIOUS
    <3>2. ~(y < x)
      BY <2>1, <3>1
    <3>. QED  BY <3>2
  <2>. QED  BY <2>2
<1>. QED  BY <1>2 DEF Min

\* The list allocate starts at is one past the last list when the request is
\* larger than the memory.
LEMMA OrderForType ==
  ASSUME NEW sz \in Nat
  PROVE  OrderFor(sz) \in 0 .. MaxOrder + 1
<1>. DEFINE S == {m \in Order : sz <= BlockSize[m]} \cup {MaxOrder + 1}
<1>1. S \in SUBSET Nat /\ S # {} /\ S \subseteq 0 .. MaxOrder + 1
  BY MaxOrderAssumption DEF Order
<1>. QED  BY <1>1, LeastExists DEF OrderFor

\* The list a hole is taken from is the first non-empty one that is large
\* enough, and the lists below it down to n are empty.
LEMMA SourceListFirst ==
  ASSUME NEW fl, NEW sz \in Nat, Fits(fl, sz)
  PROVE  LET n == OrderFor(sz) s == SourceList(fl, n) IN
         /\ n \in Order /\ s \in Order /\ n <= s
         /\ fl[s] # <<>>
         /\ \A i \in Order : i >= n /\ fl[i] # <<>> => s <= i
<1>. DEFINE n == OrderFor(sz)
            S == ListsWithHole(fl, n)
<1>1. S \in SUBSET Nat /\ S # {}
  BY MaxOrderAssumption DEF Fits, ListsWithHole, Order
<1>2. Min(S) \in S /\ \A x \in S : Min(S) <= x
  BY <1>1, LeastExists
<1>3. n \in 0 .. MaxOrder + 1
  BY OrderForType
<1>. QED  BY <1>2, <1>3, MaxOrderAssumption DEF SourceList, ListsWithHole, Order

-----------------------------------------------------------------------------
(* Insertion into and deletion from a list.                                *)

\* Removal shortens a list by one and moves the later elements up.
LEMMA RemoveAtProperties ==
  ASSUME NEW S, NEW s \in Seq(S), NEW i \in 1 .. Len(s)
  PROVE  /\ RemoveAt(s, i) \in Seq(S)
         /\ Len(RemoveAt(s, i)) = Len(s) - 1
         /\ \A k \in 1 .. Len(s) - 1 :
              RemoveAt(s, i)[k] = IF k < i THEN s[k] ELSE s[k + 1]
<1>. DEFINE a == SubSeq(s, 1, i - 1)
            b == SubSeq(s, i + 1, Len(s))
<1>1. Len(s) \in Nat /\ i \in Nat
  BY LenProperties
<1>2. /\ a \in Seq(S) /\ Len(a) = i - 1
      /\ \A k \in 1 .. i - 1 : a[k] = s[k]
  <2>1. \A k \in 1 .. i - 1 : s[k] \in S
    BY <1>1, ElementOfSeq
  <2>. QED  BY <1>1, <2>1, SubSeqProperties
<1>3. /\ b \in Seq(S) /\ Len(b) = Len(s) - i
      /\ \A k \in 1 .. Len(s) - i : b[k] = s[k + i]
  <2>1. \A k \in i + 1 .. Len(s) : s[k] \in S
    BY <1>1, ElementOfSeq
  <2>2. /\ b \in Seq(S)
        /\ Len(b) = IF i + 1 <= Len(s) THEN Len(s) - (i + 1) + 1 ELSE 0
        /\ \A k \in 1 .. Len(s) - (i + 1) + 1 : b[k] = s[(i + 1) + k - 1]
    BY <1>1, <2>1, SubSeqProperties
  <2>3. \A k \in 1 .. Len(s) - i : b[k] = s[k + i]
    <3>. SUFFICES ASSUME NEW k \in 1 .. Len(s) - i PROVE b[k] = s[k + i]
      OBVIOUS
    <3>1. k \in 1 .. Len(s) - (i + 1) + 1 /\ (i + 1) + k - 1 = k + i
      BY <1>1
    <3>2. b[k] = s[(i + 1) + k - 1]
      BY <2>2, <3>1
    <3>. QED  BY <3>1, <3>2
  <2>. QED  BY <1>1, <2>2, <2>3
<1>. HIDE DEF a, b
<1>4. /\ a \o b \in Seq(S) /\ Len(a \o b) = Len(s) - 1
      /\ \A k \in 1 .. Len(s) - 1 :
           (a \o b)[k] = IF k <= i - 1 THEN a[k] ELSE b[k - (i - 1)]
  <2>1. /\ a \o b \in Seq(S) /\ Len(a \o b) = Len(a) + Len(b)
        /\ \A k \in 1 .. Len(a) + Len(b) :
             (a \o b)[k] = IF k <= Len(a) THEN a[k] ELSE b[k - Len(a)]
    BY <1>2, <1>3, ConcatProperties
  <2>2. Len(a) + Len(b) = Len(s) - 1
    BY <1>1, <1>2, <1>3
  <2>. QED  BY <1>2, <2>1, <2>2
<1>5. \A k \in 1 .. Len(s) - 1 : (a \o b)[k] = IF k < i THEN s[k] ELSE s[k + 1]
  <2>. SUFFICES ASSUME NEW k \in 1 .. Len(s) - 1
                PROVE  (a \o b)[k] = IF k < i THEN s[k] ELSE s[k + 1]
    OBVIOUS
  <2>1. CASE k < i
    BY <1>1, <1>2, <1>4, <2>1
  <2>2. CASE ~(k < i)
    <3>1. k - (i - 1) \in 1 .. Len(s) - i /\ k - (i - 1) + i = k + 1
      BY <1>1, <2>2
    <3>2. b[k - (i - 1)] = s[k + 1]
      BY <1>3, <3>1
    <3>. QED  BY <1>1, <1>4, <2>2, <3>2
  <2>. QED  BY <2>1, <2>2
<1>. QED  BY <1>4, <1>5 DEF RemoveAt, a, b

\* Insertion lengthens a list by one and moves the later elements down.
LEMMA InsertAtProperties ==
  ASSUME NEW S, NEW s \in Seq(S), NEW e \in S, NEW i \in 1 .. Len(s) + 1
  PROVE  /\ InsertAt(s, i, e) \in Seq(S)
         /\ Len(InsertAt(s, i, e)) = Len(s) + 1
         /\ \A k \in 1 .. Len(s) + 1 :
              InsertAt(s, i, e)[k] = IF k < i THEN s[k] ELSE IF k = i THEN e ELSE s[k - 1]
<1>. DEFINE a == SubSeq(s, 1, i - 1)
            b == SubSeq(s, i, Len(s))
            c == a \o <<e>>
<1>1. Len(s) \in Nat /\ i \in Nat
  BY LenProperties
<1>2. /\ a \in Seq(S) /\ Len(a) = i - 1
      /\ \A k \in 1 .. i - 1 : a[k] = s[k]
  <2>1. \A k \in 1 .. i - 1 : s[k] \in S
    BY <1>1, ElementOfSeq
  <2>. QED  BY <1>1, <2>1, SubSeqProperties
<1>3. /\ b \in Seq(S) /\ Len(b) = Len(s) - i + 1
      /\ \A k \in 1 .. Len(s) - i + 1 : b[k] = s[i + k - 1]
  <2>1. \A k \in i .. Len(s) : s[k] \in S
    BY <1>1, ElementOfSeq
  <2>. QED  BY <1>1, <2>1, SubSeqProperties
<1>. HIDE DEF a, b, c
<1>4. <<e>> \in Seq(S) /\ Len(<<e>>) = 1 /\ <<e>>[1] = e
  OBVIOUS
<1>5. /\ c \in Seq(S) /\ Len(c) = i
      /\ \A k \in 1 .. i : c[k] = IF k < i THEN s[k] ELSE e
  <2>1. /\ c \in Seq(S) /\ Len(c) = Len(a) + Len(<<e>>)
        /\ \A k \in 1 .. Len(a) + Len(<<e>>) :
             c[k] = IF k <= Len(a) THEN a[k] ELSE <<e>>[k - Len(a)]
    BY <1>2, <1>4, ConcatProperties DEF c
  <2>2. Len(a) + Len(<<e>>) = i
    BY <1>1, <1>2, <1>4
  <2>3. ASSUME NEW k \in 1 .. i PROVE c[k] = IF k < i THEN s[k] ELSE e
    <3>1. CASE k < i
      BY <1>1, <1>2, <2>1, <2>2, <3>1
    <3>2. CASE k = i
      <4>1. k - Len(a) = 1 /\ ~(k <= Len(a))
        BY <1>1, <1>2, <3>2
      <4>. QED  BY <1>4, <2>1, <2>2, <3>2, <4>1
    <3>. QED  BY <1>1, <3>1, <3>2
  <2>. QED  BY <2>1, <2>2, <2>3
<1>6. /\ c \o b \in Seq(S) /\ Len(c \o b) = Len(s) + 1
      /\ \A k \in 1 .. Len(s) + 1 : (c \o b)[k] = IF k <= i THEN c[k] ELSE b[k - i]
  <2>1. /\ c \o b \in Seq(S) /\ Len(c \o b) = Len(c) + Len(b)
        /\ \A k \in 1 .. Len(c) + Len(b) :
             (c \o b)[k] = IF k <= Len(c) THEN c[k] ELSE b[k - Len(c)]
    BY <1>3, <1>5, ConcatProperties
  <2>2. Len(c) + Len(b) = Len(s) + 1
    BY <1>1, <1>3, <1>5
  <2>. QED  BY <1>5, <2>1, <2>2
<1>7. ASSUME NEW k \in 1 .. Len(s) + 1
      PROVE  (c \o b)[k] = IF k < i THEN s[k] ELSE IF k = i THEN e ELSE s[k - 1]
  <2>1. CASE k <= i
    <3>1. k \in 1 .. i
      BY <1>1, <2>1
    <3>. QED  BY <1>1, <1>5, <1>6, <2>1, <3>1
  <2>2. CASE ~(k <= i)
    <3>1. k - i \in 1 .. Len(s) - i + 1 /\ i + (k - i) - 1 = k - 1
      BY <1>1, <2>2
    <3>2. b[k - i] = s[k - 1]
      BY <1>3, <3>1
    <3>. QED  BY <1>1, <1>6, <2>2, <3>2
  <2>. QED  BY <2>1, <2>2
<1>. QED  BY <1>6, <1>7 DEF InsertAt, a, b, c

-----------------------------------------------------------------------------
(* What allocate and the merge loop do to the lists.                       *)

\* allocate takes a number for an address and leaves lists of numbers.
LEMMA CarveType ==
  ASSUME NEW fl \in [Order -> Seq(Nat)], NEW sz \in Nat, Fits(fl, sz)
  PROVE  /\ HoleTaken(fl, OrderFor(sz)) \in Nat
         /\ Carve(fl, OrderFor(sz)) \in [Order -> Seq(Nat)]
<1>. DEFINE n == OrderFor(sz)
            s == SourceList(fl, n)
            h == HoleTaken(fl, n)
<1>1. s \in Order /\ fl[s] # <<>> /\ fl[s] \in Seq(Nat)
  BY SourceListFirst
<1>. HIDE DEF n, s
<1>2. h \in Nat
  BY <1>1, HeadTailProperties DEF HoleTaken, s
<1>3. Tail(fl[s]) \in Seq(Nat)
  BY <1>1, HeadTailProperties
<1>. HIDE DEF h
<1>4. \A m \in Order : <<h + BlockSize[m]>> \in Seq(Nat)
  <2>. SUFFICES ASSUME NEW m \in Order PROVE <<h + BlockSize[m]>> \in Seq(Nat)
    OBVIOUS
  <2>1. h + BlockSize[m] \in Nat
    BY <1>2, BlockSizeAssumption DEF Order
  <2>. QED  BY <2>1
<1>5. Carve(fl, n) \in [Order -> Seq(Nat)]
  BY <1>3, <1>4 DEF Carve, s, h
<1>. QED  BY <1>2, <1>5 DEF n, h

\* Taking a hole never makes room: a request that did not fit before an
\* allocation does not fit after it.
LEMMA CarveShrinks ==
  ASSUME NEW fl, NEW sz \in Nat, Fits(fl, sz), NEW other \in Nat, ~Fits(fl, other)
  PROVE  ~Fits(Carve(fl, OrderFor(sz)), other)
<1>. DEFINE n == OrderFor(sz)
            s == SourceList(fl, n)
            o == OrderFor(other)
<1>1. n \in Order /\ s \in Order /\ fl[s] # <<>>
  BY SourceListFirst
<1>2. o \in 0 .. MaxOrder + 1
  BY OrderForType
<1>3. \A i \in Order : i >= o => fl[i] = <<>>
  BY DEF Fits, ListsWithHole
<1>4. s < o
  BY <1>1, <1>2, <1>3, MaxOrderAssumption DEF Order
<1>. HIDE DEF n, s, o
<1>5. ASSUME NEW i \in Order, i >= o PROVE Carve(fl, n)[i] = fl[i]
  <2>1. i # s /\ i \notin n .. s - 1
    BY <1>1, <1>2, <1>4, <1>5, MaxOrderAssumption DEF Order
  <2>. QED  BY <2>1 DEF Carve, HalvesLeft, s
<1>6. \A i \in Order : i >= o => Carve(fl, n)[i] = <<>>
  BY <1>3, <1>5
<1>. QED  BY <1>6 DEF Fits, ListsWithHole, n, o

\* InsertList_pair stops in front of the first larger address.
LEMMA InsertIndexFirst ==
  ASSUME NEW s \in Seq(Nat), NEW a \in Nat
  PROVE  /\ InsertIndex(s, a) \in 1 .. Len(s) + 1
         /\ \A k \in 1 .. Len(s) : k < InsertIndex(s, a) => s[k] <= a
         /\ InsertIndex(s, a) <= Len(s) => s[InsertIndex(s, a)] > a
<1>. DEFINE S == {k \in 1 .. Len(s) : s[k] > a} \cup {Len(s) + 1}
<1>1. S \in SUBSET Nat /\ S # {}
  BY LenProperties
<1>2. Min(S) \in S /\ \A k \in S : Min(S) <= k
  BY <1>1, LeastExists
<1>3. \A k \in 1 .. Len(s) : s[k] \in Nat
  BY ElementOfSeq
<1>4. InsertIndex(s, a) = Min(S)
  BY DEF InsertIndex
<1>. HIDE DEF S
<1>5. InsertIndex(s, a) \in S /\ \A k \in S : InsertIndex(s, a) <= k
  BY <1>2, <1>4
<1>. QED  BY <1>3, <1>5, LenProperties DEF S

\* InsertList_pair puts the new hole at its index and moves the later holes down.
LEMMA InsertPairProperties ==
  ASSUME NEW s \in Seq(Nat), NEW a \in Nat
  PROVE  LET i == InsertIndex(s, a) IN
         /\ InsertPair(s, a) \in Seq(Nat)
         /\ Len(InsertPair(s, a)) = Len(s) + 1
         /\ \A k \in 1 .. Len(s) + 1 :
              InsertPair(s, a)[k] = IF k < i THEN s[k] ELSE IF k = i THEN a ELSE s[k - 1]
<1>. DEFINE i == InsertIndex(s, a)
<1>1. i \in 1 .. Len(s) + 1
  BY InsertIndexFirst
<1>. HIDE DEF i
<1>2. ASSUME NEW N, N = Nat
      PROVE  /\ InsertAt(s, i, a) \in Seq(N)
             /\ Len(InsertAt(s, i, a)) = Len(s) + 1
             /\ \A k \in 1 .. Len(s) + 1 :
                  InsertAt(s, i, a)[k] = IF k < i THEN s[k] ELSE IF k = i THEN a ELSE s[k - 1]
  <2>1. s \in Seq(N) /\ a \in N
    BY <1>2
  <2>. QED  BY ONLY <1>1, <2>1, InsertAtProperties
<1>. QED  BY <1>2 DEF InsertPair, i

-----------------------------------------------------------------------------
(* The merge loop as a whole.                                              *)

\* The lists with a hole still to be returned to the list of a level.
Returns == [free : [Order -> Seq(Nat)], hole : Nat, level : 0 .. MaxOrder + 1]

\* One pass of the loop, the rest of it being given.
Pass(rest, x) ==
  IF x.level > MaxOrder THEN x.free
  ELSE LET s == InsertPair(x.free[x.level], x.hole)
           k == MergePosition(s, ReturnedIndex(x.free[x.level], x.hole), x.level)
       IN  IF k = 0 THEN [x.free EXCEPT ![x.level] = s]
           ELSE rest[[free  |-> [x.free EXCEPT ![x.level] = RemoveTwo(s, k)],
                      hole  |-> s[k],
                      level |-> x.level + 1]]

\* Two holes are merged when they are neighbours in the list; what is left of it, and
\* the merged hole, go on to the next level.
LEMMA MergeType ==
  ASSUME NEW x \in Returns, x.level <= MaxOrder
  PROVE  LET s == InsertPair(x.free[x.level], x.hole)
             k == MergePosition(s, ReturnedIndex(x.free[x.level], x.hole), x.level)
         IN  /\ [x.free EXCEPT ![x.level] = s] \in [Order -> Seq(Nat)]
             /\ k # 0 => [free  |-> [x.free EXCEPT ![x.level] = RemoveTwo(s, k)],
                          hole  |-> s[k], level |-> x.level + 1] \in Returns
<1>. DEFINE s == InsertPair(x.free[x.level], x.hole)
            i == ReturnedIndex(x.free[x.level], x.hole)
            k == MergePosition(s, i, x.level)
<1>1. /\ x.free \in [Order -> Seq(Nat)] /\ x.hole \in Nat /\ x.level \in Order
      /\ x.free[x.level] \in Seq(Nat)
  BY MaxOrderAssumption DEF Returns, Order
<1>2. s \in Seq(Nat) /\ Len(s) \in Nat
  BY <1>1, InsertPairProperties, LenProperties
<1>3. i \in Nat /\ i >= 1
  <2>1. InsertIndex(x.free[x.level], x.hole) \in 1 .. Len(x.free[x.level]) + 1
    BY <1>1, InsertIndexFirst
  <2>2. Len(x.free[x.level]) \in Nat
    BY <1>1, LenProperties
  <2>. QED  BY <2>1, <2>2 DEF ReturnedIndex
<1>4. i <= Len(s)
  <2>1. InsertIndex(x.free[x.level], x.hole) \in 1 .. Len(x.free[x.level]) + 1
    BY <1>1, InsertIndexFirst
  <2>2. Len(x.free[x.level]) \in Nat /\ Len(s) = Len(x.free[x.level]) + 1
    BY <1>1, LenProperties, InsertPairProperties
  <2>. HIDE DEF s
  <2>. QED  BY <2>1, <2>2 DEF ReturnedIndex
<1>5. ASSUME k # 0 PROVE k \in 1 .. Len(s) - 1
  <2>. HIDE DEF s, i
  <2>. QED  BY <1>2, <1>3, <1>4, <1>5 DEF MergePosition
<1>6. ASSUME k # 0 PROVE RemoveTwo(s, k) \in Seq(Nat) /\ s[k] \in Nat
  <2>. HIDE DEF s, k
  <2>1. k \in 1 .. Len(s) - 1
    BY <1>5, <1>6
  <2>2. k \in 1 .. Len(s)
    BY <1>2, <2>1
  <2>3. RemoveAt(s, k) \in Seq(Nat) /\ Len(RemoveAt(s, k)) = Len(s) - 1
    BY <1>2, <2>2, RemoveAtProperties
  <2>4. RemoveAt(RemoveAt(s, k), k) \in Seq(Nat)
    BY <2>1, <2>3, RemoveAtProperties
  <2>. QED  BY <1>2, <2>2, <2>4, ElementOfSeq DEF RemoveTwo
<1>. HIDE DEF s, k
<1>7. [x.free EXCEPT ![x.level] = s] \in [Order -> Seq(Nat)]
  BY <1>1, <1>2
<1>8. ASSUME k # 0
      PROVE  [free  |-> [x.free EXCEPT ![x.level] = RemoveTwo(s, k)],
              hole  |-> s[k], level |-> x.level + 1] \in Returns
  <2>1. [x.free EXCEPT ![x.level] = RemoveTwo(s, k)] \in [Order -> Seq(Nat)]
    BY <1>1, <1>6, <1>8
  <2>2. x.level + 1 \in 0 .. MaxOrder + 1
    BY <1>1, MaxOrderAssumption DEF Order
  <2>. QED  BY <1>6, <1>8, <2>1, <2>2 DEF Returns
<1>. QED  BY <1>7, <1>8 DEF s, k

\* The returns from the k topmost levels on.
From(k) == {x \in Returns : x.level + k > MaxOrder}

\* The loop's recursion has a solution, level by level from the top.
LEMMA ReleasedExists == \E f : f = [x \in Returns |-> Pass(f, x)]
<1>. DEFINE Unsolved == {k \in Nat : ~ \E f : f = [x \in From(k) |-> Pass(f, x)]}
<1>1. 0 \notin Unsolved
  <2>. DEFINE f == [x \in From(0) |-> x.free]
  <2>1. ASSUME NEW x \in From(0) PROVE Pass(f, x) = x.free
    <3>1. x.level > MaxOrder
      BY DEF From, Returns
    <3>. QED  BY <3>1 DEF Pass
  <2>. HIDE DEF f
  <2>2. f = [x \in From(0) |-> Pass(f, x)]
    BY <2>1 DEF f
  <2>. QED  BY <2>2
<1>2. ASSUME NEW k \in Nat, k \notin Unsolved PROVE k + 1 \notin Unsolved
  <2>1. PICK f : f = [x \in From(k) |-> Pass(f, x)]
    BY <1>2
  <2>. DEFINE g == [x \in From(k + 1) |-> Pass(f, x)]
  <2>2. \A x \in From(k) : x \in From(k + 1) /\ g[x] = f[x]
    <3>1. \A x \in From(k) : x \in From(k + 1)
      BY MaxOrderAssumption DEF From, Returns
    <3>. QED  BY <2>1, <3>1
  <2>3. ASSUME NEW x \in From(k + 1) PROVE Pass(g, x) = Pass(f, x)
    <3>1. CASE x.level > MaxOrder
      BY <3>1 DEF Pass
    <3>2. CASE ~(x.level > MaxOrder)
      <4>. DEFINE s == InsertPair(x.free[x.level], x.hole)
                  j == MergePosition(s, ReturnedIndex(x.free[x.level], x.hole), x.level)
                  y == [free  |-> [x.free EXCEPT ![x.level] = RemoveTwo(s, j)],
                        hole  |-> s[j], level |-> x.level + 1]
      <4>1. x \in Returns /\ x.level \in Nat /\ x.level <= MaxOrder /\ x.level + (k + 1) > MaxOrder
        BY <3>2, MaxOrderAssumption DEF From, Returns
      <4>2. j # 0 => y \in Returns
        BY <4>1, MergeType
      <4>3. y.level = x.level + 1
        OBVIOUS
      <4>. HIDE DEF y
      <4>4. j # 0 => y \in From(k)
        BY <4>1, <4>2, <4>3, MaxOrderAssumption DEF From
      <4>5. j # 0 => g[y] = f[y]
        BY <2>2, <4>4
      <4>6. \A h : Pass(h, x) = IF j = 0 THEN [x.free EXCEPT ![x.level] = s] ELSE h[y]
        BY <3>2 DEF Pass, y
      <4>. HIDE DEF g, s, j
      <4>. QED  BY <4>5, <4>6
    <3>. QED  BY <3>1, <3>2
  <2>. HIDE DEF g
  <2>4. g = [x \in From(k + 1) |-> Pass(g, x)]
    BY <2>3 DEF g
  <2>. QED  BY <2>4
<1>3. Unsolved = {}
  <2>. SUFFICES ASSUME Unsolved # {} PROVE FALSE
    OBVIOUS
  <2>1. Min(Unsolved) \in Unsolved /\ \A k \in Unsolved : Min(Unsolved) <= k
    BY LeastExists
  <2>. HIDE DEF Unsolved
  <2>2. PICK m \in Nat : m \in Unsolved /\ \A k \in Unsolved : m <= k
    BY <2>1 DEF Unsolved
  <2>3. m - 1 \in Nat /\ m - 1 \notin Unsolved /\ (m - 1) + 1 = m
    BY <1>1, <2>2
  <2>. QED  BY <1>2, <2>2, <2>3
<1>4. From(MaxOrder + 1) = Returns
  <2>1. \A x \in Returns : x.level \in Nat
    BY MaxOrderAssumption DEF Returns
  <2>. QED  BY <2>1, MaxOrderAssumption DEF From
<1>5. MaxOrder + 1 \in Nat
  BY MaxOrderAssumption
<1>6. PICK f : f = [x \in From(MaxOrder + 1) |-> Pass(f, x)]
  BY <1>3, <1>5
<1>. HIDE DEF Unsolved
<1>7. f = [x \in Returns |-> Pass(f, x)]
  BY <1>4, <1>6
<1>. QED  BY <1>7

\* So the loop is what its passes make of it.
LEMMA ReleasedUnfolds == Released = [x \in Returns |-> Pass(Released, x)]
<1>1. Released = CHOOSE f : f = [x \in Returns |-> Pass(f, x)]
  BY Zenon DEF Released, Returns, Pass
<1>. QED  BY <1>1, ReleasedExists

\* The loop for one hole: it ends with a pass that merges nothing, and goes on after
\* one that merges.
LEMMA ReleaseUnfolds ==
  ASSUME NEW fl \in [Order -> Seq(Nat)], NEW h \in Nat, NEW m \in Order
  PROVE  LET s == InsertPair(fl[m], h)
             k == MergePosition(s, ReturnedIndex(fl[m], h), m)
         IN  Release(fl, h, m) = IF k = 0 THEN [fl EXCEPT ![m] = s]
                                 ELSE Release([fl EXCEPT ![m] = RemoveTwo(s, k)], s[k], m + 1)
<1>. DEFINE x == [free |-> fl, hole |-> h, level |-> m]
<1>1. m \in 0 .. MaxOrder + 1 /\ ~(m > MaxOrder)
  BY MaxOrderAssumption DEF Order
<1>2. x \in Returns
  BY <1>1 DEF Returns
<1>3. x.free = fl /\ x.hole = h /\ x.level = m
  OBVIOUS
<1>. HIDE DEF x
<1>4. Released[x] = Pass(Released, x)
  BY <1>2, ReleasedUnfolds
<1>5. Release(fl, h, m) = Released[x]
  BY DEF Release, x
<1>. QED  BY <1>1, <1>3, <1>4, <1>5 DEF Pass, Release

\* Past the last list there is nothing left to do.
LEMMA ReleasePastLast ==
  ASSUME NEW fl \in [Order -> Seq(Nat)], NEW h \in Nat
  PROVE  Release(fl, h, MaxOrder + 1) = fl
<1>. DEFINE x == [free |-> fl, hole |-> h, level |-> MaxOrder + 1]
<1>1. MaxOrder + 1 \in 0 .. MaxOrder + 1 /\ MaxOrder + 1 > MaxOrder
  BY MaxOrderAssumption
<1>2. x \in Returns /\ x.free = fl /\ x.level = MaxOrder + 1
  BY <1>1 DEF Returns
<1>. HIDE DEF x
<1>3. Released[x] = Pass(Released, x)
  BY <1>2, ReleasedUnfolds
<1>. QED  BY <1>1, <1>2, <1>3 DEF Pass, Release, x

\* So a deallocation leaves lists of holes behind.
LEMMA ReleaseType ==
  ASSUME NEW fl \in [Order -> Seq(Nat)], NEW h \in Nat, NEW m \in Order
  PROVE  Release(fl, h, m) \in [Order -> Seq(Nat)]
<1>1. Released = [x \in Returns |-> Pass(Released, x)]
  BY ReleasedUnfolds
<1>. DEFINE Wrong == {k \in Nat : \E x \in From(k) : Released[x] \notin [Order -> Seq(Nat)]}
<1>2. 0 \notin Wrong
  <2>1. ASSUME NEW x \in From(0) PROVE Released[x] = x.free /\ x.free \in [Order -> Seq(Nat)]
    <3>1. x.level > MaxOrder /\ x \in Returns
      BY DEF From, Returns
    <3>. QED  BY <1>1, <3>1 DEF Pass, Returns
  <2>. QED  BY <2>1
<1>3. ASSUME NEW k \in Nat, k \notin Wrong PROVE k + 1 \notin Wrong
  <2>. SUFFICES ASSUME NEW x \in From(k + 1) PROVE Released[x] \in [Order -> Seq(Nat)]
    OBVIOUS
  <2>0. x \in Returns /\ Released[x] = Pass(Released, x)
    BY <1>1 DEF From
  <2>1. CASE x.level > MaxOrder
    BY <2>0, <2>1 DEF Pass, Returns
  <2>2. CASE ~(x.level > MaxOrder)
    <3>. DEFINE s == InsertPair(x.free[x.level], x.hole)
                j == MergePosition(s, ReturnedIndex(x.free[x.level], x.hole), x.level)
                y == [free  |-> [x.free EXCEPT ![x.level] = RemoveTwo(s, j)],
                      hole  |-> s[j], level |-> x.level + 1]
    <3>1. x.level \in Nat /\ x.level <= MaxOrder /\ x.level + (k + 1) > MaxOrder
      BY <2>2, MaxOrderAssumption DEF From, Returns
    <3>2. [x.free EXCEPT ![x.level] = s] \in [Order -> Seq(Nat)] /\ (j # 0 => y \in Returns)
      BY <2>0, <3>1, MergeType
    <3>3. y.level = x.level + 1
      OBVIOUS
    <3>. HIDE DEF y
    <3>4. j # 0 => y \in From(k)
      BY <3>1, <3>2, <3>3, MaxOrderAssumption DEF From
    <3>5. j # 0 => Released[y] \in [Order -> Seq(Nat)]
      BY <1>3, <3>4
    <3>6. Pass(Released, x) = IF j = 0 THEN [x.free EXCEPT ![x.level] = s] ELSE Released[y]
      BY <2>2 DEF Pass, y
    <3>. HIDE DEF s, j
    <3>. QED  BY <2>0, <3>2, <3>5, <3>6
  <2>. QED  BY <2>1, <2>2
<1>4. Wrong = {}
  <2>. SUFFICES ASSUME Wrong # {} PROVE FALSE
    OBVIOUS
  <2>1. Min(Wrong) \in Wrong /\ \A k \in Wrong : Min(Wrong) <= k
    BY LeastExists
  <2>. HIDE DEF Wrong
  <2>2. PICK n \in Nat : n \in Wrong /\ \A k \in Wrong : n <= k
    BY <2>1 DEF Wrong
  <2>3. n - 1 \in Nat /\ n - 1 \notin Wrong /\ (n - 1) + 1 = n
    BY <1>2, <2>2
  <2>. QED  BY <1>3, <2>2, <2>3
<1>5. [free |-> fl, hole |-> h, level |-> m] \in From(MaxOrder + 1)
  <2>1. m \in 0 .. MaxOrder + 1 /\ m + (MaxOrder + 1) > MaxOrder
    BY MaxOrderAssumption DEF Order
  <2>. QED  BY <2>1 DEF From, Returns
<1>6. MaxOrder + 1 \in Nat
  BY MaxOrderAssumption
<1>. QED  BY <1>4, <1>5, <1>6 DEF Release
=============================================================================
