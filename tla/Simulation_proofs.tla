------------------------- MODULE Simulation_proofs -------------------------
(***************************************************************************)
(* What the proofs about the scheduling loops share: queues that hold no   *)
(* process twice, the scan of waitQ, peek's choice, and the invariants     *)
(* about the queues and the processes that the generator, the processes    *)
(* and the handler preserve whatever the loop does.                        *)
(***************************************************************************)
EXTENDS Simulation, PriorityQueue, Buddy_proofs

-----------------------------------------------------------------------------
(* Queues that hold no process twice.                                      *)

\* A queue of processes without repetition.
Queue == {s \in Seq(Id) : IsInjective(s)}

\* s is the front of t: whoever was in s has kept its place.
Begins(s, t) == \A i \in DOMAIN s : i \in DOMAIN t /\ t[i] = s[i]

\* The empty queue is one.
LEMMA EmptyQueue == <<>> \in Queue /\ Range(<<>>) = {}
BY DEF Queue, IsInjective, Range

\* A queue with a process behind it that is not in it is one.
LEMMA AppendQueue ==
  ASSUME NEW s \in Queue, NEW p \in Id, p \notin Range(s)
  PROVE  Append(s, p) \in Queue /\ Range(Append(s, p)) = Range(s) \cup {p}
<1>1. /\ s \in Seq(Id) /\ Len(s) \in Nat /\ DOMAIN s = 1 .. Len(s)
      /\ \A i \in 1 .. Len(s) : s[i] # p
  BY LenProperties DEF Queue, Range
<1>2. \A i, j \in 1 .. Len(s) : s[i] = s[j] => i = j
  BY <1>1 DEF Queue, IsInjective
<1>. DEFINE a == Append(s, p)
<1>3. /\ a \in Seq(Id) /\ DOMAIN a = 1 .. Len(s) + 1
      /\ a[Len(s) + 1] = p /\ \A i \in 1 .. Len(s) : a[i] = s[i]
  BY <1>1, AppendProperties, LenProperties
<1>. HIDE DEF a
<1>4. \A i, j \in 1 .. Len(s) + 1 : a[i] = a[j] => i = j
  BY <1>1, <1>2, <1>3
<1>5. Range(a) = Range(s) \cup {p}
  BY <1>1, <1>3 DEF Range
<1>. QED  BY <1>3, <1>4, <1>5 DEF Queue, IsInjective, a

\* The first of a queue is not among the others.
LEMMA TailQueue ==
  ASSUME NEW s \in Queue, s # <<>>
  PROVE  /\ Head(s) \in Id /\ Head(s) \in Range(s)
         /\ Tail(s) \in Queue /\ Range(Tail(s)) = Range(s) \ {Head(s)}
<1>1. /\ s \in Seq(Id) /\ Len(s) \in Nat /\ Len(s) > 0 /\ DOMAIN s = 1 .. Len(s)
      /\ Head(s) = s[1]
  BY LenProperties, EmptySeq DEF Queue
<1>2. \A i, j \in 1 .. Len(s) : s[i] = s[j] => i = j
  BY <1>1 DEF Queue, IsInjective
<1>. DEFINE t == Tail(s)
<1>3. /\ t \in Seq(Id) /\ DOMAIN t = 1 .. Len(s) - 1
      /\ \A i \in 1 .. Len(s) - 1 : t[i] = s[i + 1]
      /\ Head(s) \in Id
  BY <1>1, HeadTailProperties, LenProperties
<1>. HIDE DEF t
<1>4. \A i, j \in 1 .. Len(s) - 1 : t[i] = t[j] => i = j
  BY <1>1, <1>2, <1>3
<1>5. Range(t) = Range(s) \ {Head(s)}
  <2>1. ASSUME NEW q \in Range(t) PROVE q \in Range(s) /\ q # s[1]
    <3>1. PICK i \in 1 .. Len(s) - 1 : q = s[i + 1]
      BY <2>1, <1>3 DEF Range
    <3>2. i + 1 \in 1 .. Len(s) /\ i + 1 # 1
      BY <1>1
    <3>. QED  BY <1>1, <1>2, <3>1, <3>2 DEF Range
  <2>2. ASSUME NEW q \in Range(s), q # s[1] PROVE q \in Range(t)
    <3>1. PICK i \in 1 .. Len(s) : q = s[i]
      BY <1>1 DEF Range
    <3>2. i - 1 \in 1 .. Len(s) - 1 /\ (i - 1) + 1 = i
      BY <1>1, <2>2, <3>1
    <3>3. t[i - 1] = q
      BY <1>3, <3>1, <3>2
    <3>. QED  BY <1>3, <3>2, <3>3 DEF Range
  <2>. QED  BY <1>1, <2>1, <2>2
<1>6. Head(s) \in Range(s)
  BY <1>1 DEF Range
<1>. QED  BY <1>3, <1>4, <1>5, <1>6 DEF Queue, IsInjective, t

\* A queue that lacks a process has room: the capacity N of the code's queues is
\* never the reason that a process is dropped.
LEMMA RoomInQueue ==
  ASSUME NEW s \in Queue, NEW p \in Id, p \notin Range(s)
  PROVE  Len(s) < N
<1>1. /\ Len(s) \in Nat /\ DOMAIN s = 1 .. Len(s) /\ s \in [1 .. Len(s) -> Id]
      /\ \A i, j \in 1 .. Len(s) : s[i] = s[j] => i = j
  BY LenProperties DEF Queue, IsInjective
<1>2. s \in [1 .. Len(s) -> Id \ {p}]
  <2>1. \A i \in 1 .. Len(s) : s[i] # p
    BY <1>1 DEF Range
  <2>. QED  BY <1>1, <2>1
<1>3. IsFiniteSet(Id) /\ Cardinality(Id) = N
  BY NAssumption, FS_Interval DEF Id
<1>4. IsFiniteSet(Id \ {p}) /\ Cardinality(Id \ {p}) = N - 1
  BY <1>3, FS_RemoveElement
<1>5. IsFiniteSet(1 .. Len(s)) /\ Cardinality(1 .. Len(s)) = Len(s)
  BY <1>1, FS_Interval
<1>6. ~(N - 1 < Len(s))
  <2>. SUFFICES ASSUME N - 1 < Len(s) PROVE FALSE
    OBVIOUS
  <2>1. Cardinality(Id \ {p}) < Cardinality(1 .. Len(s))
    BY <1>4, <1>5
  <2>2. \E x, y \in 1 .. Len(s) : x # y /\ s[x] = s[y]
    BY ONLY <1>2, <1>4, <1>5, <2>1, FS_PigeonHole
  <2>. QED  BY <1>1, <2>2
<1>. QED  BY <1>1, <1>6, NAssumption

\* So Enqueue appends.
LEMMA EnqueueQueue ==
  ASSUME NEW s \in Queue, NEW p \in Id, p \notin Range(s)
  PROVE  /\ Enqueue(s, p) = Append(s, p)
         /\ Enqueue(s, p) \in Queue /\ Range(Enqueue(s, p)) = Range(s) \cup {p}
         /\ Enqueue(s, p) # <<>>
         /\ s # <<>> => Head(Enqueue(s, p)) = Head(s)
         /\ Begins(s, Enqueue(s, p))
<1>1. Enqueue(s, p) = Append(s, p)
  BY RoomInQueue DEF Enqueue
<1>2. s \in Seq(Id) /\ Len(s) \in Nat
  BY LenProperties DEF Queue
<1>3. s # <<>> => Len(s) > 0
  BY <1>2, EmptySeq
<1>4. Append(s, p) # <<>> /\ (s # <<>> => Head(Append(s, p)) = Head(s))
  BY <1>2, <1>3, AppendProperties, EmptySeq
<1>5. Begins(s, Append(s, p))
  BY <1>2, AppendProperties, LenProperties DEF Begins
<1>. QED  BY <1>1, <1>4, <1>5, AppendQueue

\* A process behind a sequence.
LEMMA AppendRange ==
  ASSUME NEW S, NEW s \in Seq(S), NEW e \in S
  PROVE  /\ Append(s, e) \in Seq(S) /\ Len(Append(s, e)) = Len(s) + 1
         /\ Range(Append(s, e)) = Range(s) \cup {e}
<1>1. Len(s) \in Nat /\ DOMAIN s = 1 .. Len(s)
  BY LenProperties
<1>. DEFINE a == Append(s, e)
<1>2. /\ a \in Seq(S) /\ Len(a) = Len(s) + 1 /\ DOMAIN a = 1 .. Len(s) + 1
      /\ a[Len(s) + 1] = e /\ \A i \in 1 .. Len(s) : a[i] = s[i]
  BY <1>1, AppendProperties, LenProperties
<1>. HIDE DEF a
<1>3. \A i \in 1 .. Len(s) + 1 : i \in 1 .. Len(s) \/ i = Len(s) + 1
  BY <1>1
<1>4. Range(a) = Range(s) \cup {e}
  BY <1>1, <1>2, <1>3 DEF Range
<1>. QED  BY <1>2, <1>4 DEF a

\* Who is behind the front of a queue is not in it.
LEMMA BehindFront ==
  ASSUME NEW s, NEW t \in Queue, Begins(s, t), NEW i \in DOMAIN t, i \notin DOMAIN s
  PROVE  t[i] \in Range(t) /\ t[i] \notin Range(s)
BY DEF Queue, IsInjective, Begins, Range

\* Two queues with nobody in common, one behind the other, are a queue.
LEMMA ConcatQueue ==
  ASSUME NEW s \in Queue, NEW t \in Queue, Range(s) \cap Range(t) = {}
  PROVE  s \o t \in Queue /\ Range(s \o t) = Range(s) \cup Range(t)
<1>. DEFINE m == Len(s)
            n == Len(t)
            c == s \o t
<1>1. /\ s \in Seq(Id) /\ m \in Nat /\ DOMAIN s = 1 .. m
      /\ t \in Seq(Id) /\ n \in Nat /\ DOMAIN t = 1 .. n
  BY LenProperties DEF Queue
<1>2. /\ \A i, j \in 1 .. m : s[i] = s[j] => i = j
      /\ \A i, j \in 1 .. n : t[i] = t[j] => i = j
      /\ \A i \in 1 .. m : \A j \in 1 .. n : s[i] # t[j]
  <2>1. \A i \in 1 .. m : s[i] \in Range(s)
    BY <1>1 DEF Range
  <2>2. \A j \in 1 .. n : t[j] \in Range(t)
    BY <1>1 DEF Range
  <2>3. IsInjective(s) /\ IsInjective(t)
    BY DEF Queue
  <2>. QED  BY <1>1, <2>1, <2>2, <2>3 DEF IsInjective
<1>3. /\ c \in Seq(Id) /\ Len(c) = m + n
      /\ \A i \in 1 .. m + n : c[i] = IF i <= m THEN s[i] ELSE t[i - m]
  BY <1>1, ConcatProperties
<1>4. DOMAIN c = 1 .. m + n
  BY <1>3, LenProperties
<1>. HIDE DEF m, n, c
<1>5. ASSUME NEW i \in 1 .. m + n
      PROVE  \/ i \in 1 .. m /\ c[i] = s[i]
             \/ i - m \in 1 .. n /\ c[i] = t[i - m]
  BY <1>1, <1>3
<1>6. \A i, j \in 1 .. m + n : c[i] = c[j] => i = j
  <2>. SUFFICES ASSUME NEW i \in 1 .. m + n, NEW j \in 1 .. m + n, c[i] = c[j] PROVE i = j
    OBVIOUS
  <2>1. /\ (i \in 1 .. m /\ c[i] = s[i]) \/ (i - m \in 1 .. n /\ c[i] = t[i - m])
        /\ (j \in 1 .. m /\ c[j] = s[j]) \/ (j - m \in 1 .. n /\ c[j] = t[j - m])
    BY <1>5
  <2>2. i - m = j - m => i = j
    BY <1>1
  <2>. QED  BY <1>2, <2>1, <2>2
<1>7. Range(c) = Range(s) \cup Range(t)
  <2>1. ASSUME NEW x \in Range(c) PROVE x \in Range(s) \cup Range(t)
    BY <1>1, <1>4, <1>5 DEF Range
  <2>2. ASSUME NEW x \in Range(s) PROVE x \in Range(c)
    <3>1. PICK i \in 1 .. m : x = s[i]
      BY <1>1 DEF Range
    <3>2. i \in 1 .. m + n /\ c[i] = s[i]
      BY <1>1, <1>3
    <3>. QED  BY <1>4, <3>1, <3>2 DEF Range
  <2>3. ASSUME NEW x \in Range(t) PROVE x \in Range(c)
    <3>1. PICK j \in 1 .. n : x = t[j]
      BY <1>1 DEF Range
    <3>2. j + m \in 1 .. m + n /\ ~(j + m <= m) /\ (j + m) - m = j
      BY <1>1
    <3>3. c[j + m] = t[j]
      BY <1>3, <3>2
    <3>. QED  BY <1>4, <3>1, <3>2, <3>3 DEF Range
  <2>. QED  BY <2>1, <2>2, <2>3
<1>. QED  BY <1>3, <1>4, <1>6, <1>7 DEF Queue, IsInjective, c

\* Without one of its slots a queue holds the others.
LEMMA RemoveFromQueue ==
  ASSUME NEW s \in Queue, NEW k \in DOMAIN s
  PROVE  WithoutSlot(s, k) \in Queue /\ Range(WithoutSlot(s, k)) = Range(s) \ {s[k]}
<1>. DEFINE n == Len(s)
            front == SubSeq(s, 1, k - 1)
            back == SubSeq(s, k + 1, n)
<1>1. /\ s \in Seq(Id) /\ n \in Nat /\ DOMAIN s = 1 .. n
      /\ \A i \in 1 .. n : s[i] \in Id
      /\ \A i, j \in 1 .. n : s[i] = s[j] => i = j
  BY LenProperties DEF Queue, IsInjective
<1>2. k \in 1 .. n
  BY <1>1
<1>3. /\ front \in Seq(Id) /\ Len(front) = k - 1
      /\ \A i \in 1 .. k - 1 : front[i] = s[i]
  <2>1. \A i \in 1 .. k - 1 : s[i] \in Id
    BY <1>1, <1>2
  <2>2. /\ front \in Seq(Id) /\ Len(front) = IF 1 <= k - 1 THEN (k - 1) - 1 + 1 ELSE 0
        /\ \A i \in 1 .. (k - 1) - 1 + 1 : front[i] = s[1 + i - 1]
    BY <1>1, <1>2, <2>1, SubSeqProperties
  <2>. HIDE DEF front
  <2>. QED  BY <1>1, <1>2, <2>2
<1>4. /\ back \in Seq(Id) /\ Len(back) = n - k
      /\ \A i \in 1 .. n - k : back[i] = s[k + i]
  <2>1. \A i \in k + 1 .. n : s[i] \in Id
    BY <1>1, <1>2
  <2>2. /\ back \in Seq(Id) /\ Len(back) = IF k + 1 <= n THEN n - (k + 1) + 1 ELSE 0
        /\ \A i \in 1 .. n - (k + 1) + 1 : back[i] = s[(k + 1) + i - 1]
    BY <1>1, <1>2, <2>1, SubSeqProperties
  <2>3. n - (k + 1) + 1 = n - k /\ \A i \in 1 .. n - k : (k + 1) + i - 1 = k + i
    BY <1>1, <1>2
  <2>4. Len(back) = n - k
    BY <1>1, <1>2, <2>2, <2>3
  <2>. HIDE DEF back, n
  <2>. QED  BY <2>2, <2>3, <2>4
<1>5. DOMAIN front = 1 .. k - 1 /\ DOMAIN back = 1 .. n - k
  BY <1>3, <1>4, LenProperties
<1>6. WithoutSlot(s, k) = front \o back
  BY DEF WithoutSlot, RemoveAt
<1>. HIDE DEF n, front, back
<1>7. front \in Queue /\ back \in Queue
  <2>1. \A i, j \in 1 .. k - 1 : front[i] = front[j] => i = j
    BY <1>1, <1>2, <1>3
  <2>2. \A i, j \in 1 .. n - k : back[i] = back[j] => i = j
    <3>. SUFFICES ASSUME NEW i \in 1 .. n - k, NEW j \in 1 .. n - k, back[i] = back[j]
                  PROVE  i = j
      OBVIOUS
    <3>1. k + i \in 1 .. n /\ k + j \in 1 .. n /\ s[k + i] = s[k + j]
      BY <1>1, <1>2, <1>4
    <3>2. k + i = k + j
      BY <1>1, <3>1
    <3>. QED  BY <1>2, <3>2
  <2>. QED  BY <1>3, <1>4, <1>5, <2>1, <2>2 DEF Queue, IsInjective
<1>8. \A q \in Range(front) : \E i \in 1 .. n : i < k /\ q = s[i]
  BY <1>1, <1>2, <1>3, <1>5 DEF Range
<1>9. \A q \in Range(back) : \E i \in 1 .. n : i > k /\ q = s[i]
  <2>. SUFFICES ASSUME NEW q \in Range(back) PROVE \E i \in 1 .. n : i > k /\ q = s[i]
    OBVIOUS
  <2>1. PICK j \in 1 .. n - k : q = back[j]
    BY <1>5 DEF Range
  <2>2. k + j \in 1 .. n /\ k + j > k /\ q = s[k + j]
    BY <1>1, <1>2, <1>4, <2>1
  <2>. QED  BY <2>2
<1>10. \A i \in 1 .. n : i # k => s[i] \in Range(front) \cup Range(back)
  <2>. SUFFICES ASSUME NEW i \in 1 .. n, i # k
                PROVE  s[i] \in Range(front) \cup Range(back)
    OBVIOUS
  <2>1. CASE i < k
    <3>1. i \in 1 .. k - 1 /\ front[i] = s[i]
      BY <1>2, <1>3, <2>1
    <3>. QED  BY <1>5, <3>1 DEF Range
  <2>2. CASE i > k
    <3>1. i - k \in 1 .. n - k /\ k + (i - k) = i
      BY <1>1, <1>2, <2>2
    <3>2. back[i - k] = s[i]
      BY <1>4, <3>1
    <3>. QED  BY <1>5, <3>1, <3>2 DEF Range
  <2>. QED  BY <1>1, <1>2, <2>1, <2>2
<1>11. Range(front) \cap Range(back) = {}
  <2>. SUFFICES ASSUME NEW q \in Range(front), q \in Range(back) PROVE FALSE
    OBVIOUS
  <2>1. PICK i \in 1 .. n : i < k /\ q = s[i]
    BY <1>8
  <2>2. PICK j \in 1 .. n : j > k /\ q = s[j]
    BY <1>9
  <2>3. i = j
    BY <1>1, <2>1, <2>2
  <2>. QED  BY <1>2, <2>1, <2>2, <2>3
<1>12. Range(front) \cup Range(back) = Range(s) \ {s[k]}
  <2>1. ASSUME NEW q \in Range(front) \cup Range(back) PROVE q \in Range(s) /\ q # s[k]
    <3>1. PICK i \in 1 .. n : i # k /\ q = s[i]
      BY <1>1, <1>2, <1>8, <1>9, <2>1
    <3>. QED  BY <1>1, <1>2, <3>1 DEF Range
  <2>2. ASSUME NEW q \in Range(s), q # s[k] PROVE q \in Range(front) \cup Range(back)
    BY <1>1, <1>10, <2>2 DEF Range
  <2>. QED  BY <2>1, <2>2
<1>. QED  BY <1>6, <1>7, <1>11, <1>12, ConcatQueue

-----------------------------------------------------------------------------
(* The scan of waitQ.                                                      *)

\* The first k places of the scan are over: what the fold of Admit has come to.
ScanSteps(base, scan) ==
  /\ scan[0] = base
  /\ \A k \in 1 .. Len(waitQ) : scan[k] = Admit(scan[k - 1], waitQ[k])

\* A function that satisfies the fold's recursion on the sets of the first k places.
FoldsTo(base, k, iter) ==
  iter = [s \in SUBSET (1 .. k) |->
            IF s = {} THEN base ELSE Admit(iter[s \ {Max(s)}], waitQ[Max(s)])]

\* The fold goes from the first place of the queue to the last.
LEMMA GreatestOfPrefix ==
  ASSUME NEW k \in Nat, NEW s \in SUBSET (1 .. k + 1), k + 1 \in s
  PROVE  Max(s) = k + 1
<1>1. /\ k + 1 \in s /\ \A y \in s : k + 1 >= y
      /\ \A x \in s : (\A y \in s : x >= y) => x = k + 1
  OBVIOUS
<1>. QED  BY <1>1 DEF Max

\* The recursion of the fold has a solution for every number of places.
LEMMA FoldExists ==
  ASSUME NEW base, NEW n \in Nat
  PROVE  \E iter : FoldsTo(base, n, iter)
<1>. DEFINE Unsolved == {k \in Nat : ~ \E iter : FoldsTo(base, k, iter)}
<1>1. 0 \notin Unsolved
  <2>1. FoldsTo(base, 0, [s \in SUBSET (1 .. 0) |-> base])
    <3>1. \A s \in SUBSET (1 .. 0) : s = {}
      OBVIOUS
    <3>. QED  BY <3>1 DEF FoldsTo
  <2>. QED  BY <2>1
<1>2. ASSUME NEW k \in Nat, k \notin Unsolved PROVE k + 1 \notin Unsolved
  <2>1. PICK iter : FoldsTo(base, k, iter)
    BY <1>2
  <2>. DEFINE longer == [s \in SUBSET (1 .. k + 1) |->
                           IF k + 1 \in s THEN Admit(iter[s \ {k + 1}], waitQ[k + 1])
                                          ELSE iter[s]]
  <2>2. ASSUME NEW s \in SUBSET (1 .. k + 1)
        PROVE  longer[s] = IF s = {} THEN base
                           ELSE Admit(longer[s \ {Max(s)}], waitQ[Max(s)])
    <3>1. CASE k + 1 \in s
      <4>1. Max(s) = k + 1
        BY <3>1, GreatestOfPrefix
      <4>2. s \ {k + 1} \in SUBSET (1 .. k + 1) /\ k + 1 \notin s \ {k + 1}
        OBVIOUS
      <4>3. longer[s \ {k + 1}] = iter[s \ {k + 1}]
        BY <4>2
      <4>. QED  BY <3>1, <4>1, <4>3
    <3>2. CASE k + 1 \notin s
      <4>1. s \in SUBSET (1 .. k) /\ s \ {Max(s)} \in SUBSET (1 .. k + 1)
            /\ k + 1 \notin s \ {Max(s)}
        <5>1. \A x \in s : x \in 1 .. k
          BY <3>2
        <5>. QED  BY <3>2, <5>1
      <4>2. longer[s] = iter[s] /\ longer[s \ {Max(s)}] = iter[s \ {Max(s)}]
        BY <3>2, <4>1
      <4>3. iter[s] = IF s = {} THEN base ELSE Admit(iter[s \ {Max(s)}], waitQ[Max(s)])
        BY <2>1, <4>1 DEF FoldsTo
      <4>. QED  BY <4>2, <4>3
    <3>. QED  BY <3>1, <3>2
  <2>. HIDE DEF longer
  <2>3. longer = [s \in SUBSET (1 .. k + 1) |-> longer[s]]
    BY DEF longer
  <2>4. FoldsTo(base, k + 1, longer)
    BY <2>2, <2>3 DEF FoldsTo
  <2>. QED  BY <2>4
<1>3. Unsolved = {}
  <2>. SUFFICES ASSUME Unsolved # {} PROVE FALSE
    OBVIOUS
  <2>1. Min(Unsolved) \in Unsolved /\ \A k \in Unsolved : Min(Unsolved) <= k
    BY LeastExists
  <2>. HIDE DEF Unsolved
  <2>2. PICK m \in Nat : m \in Unsolved /\ \A k \in Unsolved : m <= k
    BY <2>1 DEF Unsolved
  <2>3. m - 1 \in Nat /\ m - 1 \notin Unsolved /\ (m - 1) + 1 = m
    BY <1>1, <2>2
  <2>. QED  BY <1>2, <2>2, <2>3
<1>. QED  BY <1>3

\* The scan asks one process after the other, from the front of waitQ.
LEMMA ScannedInSteps ==
  ASSUME waitQ \in Seq(Id), NEW fl, NEW blk
  PROVE  LET base == [free |-> fl, block |-> blk, waitQ |-> <<>>, ready |-> ready] IN
         \E scan : ScanSteps(base, scan) /\ Scanned(fl, blk) = scan[Len(waitQ)]
<1>. DEFINE base == [free |-> fl, block |-> blk, waitQ |-> <<>>, ready |-> ready]
            n == Len(waitQ)
            iter == CHOOSE i : FoldsTo(base, n, i)
            scan == [k \in 0 .. n |-> iter[1 .. k]]
<1>1. n \in Nat /\ DOMAIN waitQ = 1 .. n
  BY LenProperties
<1>. HIDE DEF base
<1>2. FoldsTo(base, n, iter)
  BY <1>1, FoldExists
<1>3. Scanned(fl, blk) = iter[1 .. n]
  BY <1>1, Zenon DEF Scanned, FoldLeft, MapThenFoldSet, FoldsTo, base
<1>. HIDE DEF iter, n
<1>4. scan[0] = base
  <2>1. 1 .. 0 = {} /\ {} \in SUBSET (1 .. n)
    OBVIOUS
  <2>. QED  BY <1>1, <1>2, <2>1 DEF FoldsTo
<1>5. ASSUME NEW k \in 1 .. n PROVE scan[k] = Admit(scan[k - 1], waitQ[k])
  <2>1. 1 .. k \in SUBSET (1 .. n) /\ 1 .. k # {} /\ k - 1 \in Nat /\ (k - 1) + 1 = k
    BY <1>1
  <2>2. Max(1 .. k) = k
    <3>1. PICK j \in Nat : j = k - 1 /\ j + 1 = k
      BY ONLY <2>1
    <3>2. Max(1 .. (j + 1)) = j + 1
      BY ONLY GreatestOfPrefix, j \in Nat
    <3>. QED  BY ONLY <3>1, <3>2
  <2>3. (1 .. k) \ {k} = 1 .. k - 1
    BY <2>1
  <2>4. iter[1 .. k] = Admit(iter[(1 .. k) \ {k}], waitQ[k])
    BY <1>2, <2>1, <2>2 DEF FoldsTo
  <2>5. k \in 0 .. n /\ k - 1 \in 0 .. n
    BY <1>1
  <2>6. scan[k] = iter[1 .. k] /\ scan[k - 1] = iter[1 .. k - 1]
    BY <2>5
  <2>. HIDE DEF scan
  <2>. QED  BY <2>3, <2>4, <2>6
<1>6. ScanSteps(base, scan) /\ Scanned(fl, blk) = scan[n]
  <2>. HIDE DEF scan
  <2>1. ScanSteps(base, scan)
    BY <1>4, <1>5 DEF ScanSteps, n
  <2>2. n \in 0 .. n
    BY <1>1
  <2>. QED  BY <1>3, <2>1, <2>2 DEF scan
<1>. HIDE DEF scan
<1>. QED  BY <1>6 DEF n, base

\* The processes of waitQ that the scan has asked after k steps.
Asked(k) == {waitQ[i] : i \in 1 .. k}

\* Who has been asked is in one of the two queues of the scan, once.
QueuesAfter(acc, k) ==
  /\ DOMAIN acc = {"free", "block", "waitQ", "ready"}
  /\ acc.waitQ \in Queue /\ acc.ready \in Queue
  /\ Range(acc.waitQ) \cap Range(acc.ready) = {}
  /\ Range(acc.waitQ) \subseteq Asked(k)
  /\ Range(ready) \subseteq Range(acc.ready) /\ Begins(ready, acc.ready)
  /\ Range(acc.waitQ) \cup Range(acc.ready) = Asked(k) \cup Range(ready)

\* Whoever is asked goes to the end of one of the two queues.
LEMMA AdmitKeepsQueues ==
  ASSUME waitQ \in Queue, Range(waitQ) \cap Range(ready) = {},
         NEW k \in 1 .. Len(waitQ), NEW acc, QueuesAfter(acc, k - 1)
  PROVE  QueuesAfter(Admit(acc, waitQ[k]), k)
<1>. DEFINE p == waitQ[k]
            r == Admit(acc, p)
<1>1. /\ Len(waitQ) \in Nat /\ DOMAIN waitQ = 1 .. Len(waitQ)
      /\ \A i \in 1 .. Len(waitQ) : waitQ[i] \in Id
      /\ \A i, j \in 1 .. Len(waitQ) : waitQ[i] = waitQ[j] => i = j
  BY LenProperties DEF Queue, IsInjective
<1>2. p \in Id /\ p \notin Range(ready) /\ p \notin Asked(k - 1)
      /\ Asked(k) = Asked(k - 1) \cup {p}
  <2>1. p \notin Range(ready)
    BY <1>1 DEF Range
  <2>. QED  BY <1>1, <2>1 DEF Asked
<1>3. p \notin Range(acc.waitQ) /\ p \notin Range(acc.ready)
  BY <1>2 DEF QueuesAfter
<1>4. CASE Fits(acc.free, job.size[p])
  <2>1. r.waitQ = acc.waitQ /\ r.ready = Enqueue(acc.ready, p)
        /\ DOMAIN r = {"free", "block", "waitQ", "ready"}
    BY <1>4 DEF Admit
  <2>2. /\ r.ready \in Queue /\ Range(r.ready) = Range(acc.ready) \cup {p}
        /\ Begins(ready, r.ready)
    BY <1>2, <1>3, <2>1, EnqueueQueue DEF QueuesAfter, Begins
  <2>. HIDE DEF p, r
  <2>. QED  BY <1>2, <1>3, <2>1, <2>2 DEF QueuesAfter, p, r
<1>5. CASE ~Fits(acc.free, job.size[p])
  <2>1. r.waitQ = Append(acc.waitQ, p) /\ r.ready = acc.ready
        /\ DOMAIN r = {"free", "block", "waitQ", "ready"}
    BY <1>5 DEF Admit, QueuesAfter
  <2>2. r.waitQ \in Queue /\ Range(r.waitQ) = Range(acc.waitQ) \cup {p}
    BY <1>2, <1>3, <2>1, AppendQueue DEF QueuesAfter
  <2>. HIDE DEF p, r
  <2>. QED  BY <1>2, <1>3, <2>1, <2>2 DEF QueuesAfter, p, r
<1>. QED  BY <1>4, <1>5

\* The scan loses nobody and puts nobody in two places: who does not stay in waitQ
\* is behind those that were ready.
LEMMA ScannedQueues ==
  ASSUME waitQ \in Queue, ready \in Queue, Range(waitQ) \cap Range(ready) = {},
         NEW fl, NEW blk
  PROVE  QueuesAfter(Scanned(fl, blk), Len(waitQ)) /\ Asked(Len(waitQ)) = Range(waitQ)
<1>. DEFINE base == [free |-> fl, block |-> blk, waitQ |-> <<>>, ready |-> ready]
            n == Len(waitQ)
<1>1. n \in Nat /\ DOMAIN waitQ = 1 .. n
  BY LenProperties DEF Queue
<1>2. PICK scan : ScanSteps(base, scan) /\ Scanned(fl, blk) = scan[n]
  BY ScannedInSteps DEF Queue
<1>3. QueuesAfter(scan[0], 0)
  <2>1. scan[0].waitQ = <<>> /\ scan[0].ready = ready
        /\ DOMAIN scan[0] = {"free", "block", "waitQ", "ready"}
    BY <1>2 DEF ScanSteps
  <2>2. Asked(0) = {}
    BY DEF Asked
  <2>. QED  BY <2>1, <2>2, EmptyQueue DEF QueuesAfter, Begins
<1>. DEFINE Bad == {k \in 0 .. n : ~QueuesAfter(scan[k], k)}
<1>4. ASSUME Bad # {} PROVE FALSE
  <2>1. Bad \in SUBSET Nat
    OBVIOUS
  <2>2. Min(Bad) \in Bad /\ \A k \in Bad : Min(Bad) <= k
    BY <1>4, <2>1, LeastExists
  <2>3. PICK m \in 0 .. n : ~QueuesAfter(scan[m], m) /\ \A k \in Bad : m <= k
    BY <2>2
  <2>4. m \in 1 .. n /\ m - 1 \in 0 .. n
    BY <1>1, <1>3, <2>3
  <2>5. QueuesAfter(scan[m - 1], m - 1)
    <3>1. m - 1 \notin Bad
      BY <2>3, <2>4
    <3>. QED  BY <2>4, <3>1
  <2>6. scan[m] = Admit(scan[m - 1], waitQ[m])
    BY <1>2, <2>4 DEF ScanSteps
  <2>. QED  BY <2>3, <2>4, <2>5, <2>6, AdmitKeepsQueues
<1>5. QueuesAfter(scan[n], n)
  BY <1>1, <1>4
<1>6. Asked(n) = Range(waitQ)
  BY <1>1 DEF Asked, Range
<1>. QED  BY <1>2, <1>5, <1>6

-----------------------------------------------------------------------------
(* The choice of the priority queue.                                       *)

\* One turn of peek's loop.
Best(s, prio, arrival, ind, i) ==
  IF ind = 0 \/ Better(prio, arrival, s[i], s[ind]) THEN i ELSE ind

\* A function that satisfies the recursion of peek's fold on the sets of the first k
\* positions.
PeekFoldsTo(s, prio, arrival, k, iter) ==
  iter = [t \in SUBSET (1 .. k) |->
            IF t = {} THEN 0
            ELSE Best(s, prio, arrival, iter[t \ {Max(t)}], [i \in DOMAIN s |-> i][Max(t)])]

\* The recursion has a solution for every number of positions.
LEMMA PeekFoldExists ==
  ASSUME NEW s, NEW prio, NEW arrival, NEW n \in Nat
  PROVE  \E iter : PeekFoldsTo(s, prio, arrival, n, iter)
<1>. DEFINE Step(ind, x) == Best(s, prio, arrival, ind, [i \in DOMAIN s |-> i][x])
            Solves(k, iter) ==
              iter = [t \in SUBSET (1 .. k) |->
                        IF t = {} THEN 0 ELSE Step(iter[t \ {Max(t)}], Max(t))]
            Unsolved == {k \in Nat : ~ \E iter : Solves(k, iter)}
<1>. HIDE DEF Step
<1>1. 0 \notin Unsolved
  <2>1. Solves(0, [t \in SUBSET (1 .. 0) |-> 0])
    <3>1. \A t \in SUBSET (1 .. 0) : t = {}
      OBVIOUS
    <3>. QED  BY <3>1
  <2>. QED  BY <2>1
<1>2. ASSUME NEW k \in Nat, k \notin Unsolved PROVE k + 1 \notin Unsolved
  <2>1. PICK iter : Solves(k, iter)
    BY <1>2
  <2>. DEFINE longer == [t \in SUBSET (1 .. k + 1) |->
                           IF k + 1 \in t THEN Step(iter[t \ {k + 1}], k + 1) ELSE iter[t]]
  <2>2. ASSUME NEW t \in SUBSET (1 .. k + 1)
        PROVE  longer[t] = IF t = {} THEN 0 ELSE Step(longer[t \ {Max(t)}], Max(t))
    <3>1. CASE k + 1 \in t
      <4>1. Max(t) = k + 1
        BY <3>1, GreatestOfPrefix
      <4>2. t \ {k + 1} \in SUBSET (1 .. k + 1) /\ k + 1 \notin t \ {k + 1}
        OBVIOUS
      <4>3. longer[t \ {k + 1}] = iter[t \ {k + 1}]
        BY <4>2
      <4>. QED  BY <3>1, <4>1, <4>3
    <3>2. CASE k + 1 \notin t
      <4>1. t \in SUBSET (1 .. k) /\ t \ {Max(t)} \in SUBSET (1 .. k + 1)
            /\ k + 1 \notin t \ {Max(t)}
        <5>1. \A x \in t : x \in 1 .. k
          BY <3>2
        <5>. QED  BY <3>2, <5>1
      <4>2. longer[t] = iter[t] /\ longer[t \ {Max(t)}] = iter[t \ {Max(t)}]
        BY <3>2, <4>1
      <4>3. iter[t] = IF t = {} THEN 0 ELSE Step(iter[t \ {Max(t)}], Max(t))
        BY <2>1, <4>1
      <4>. QED  BY <4>2, <4>3
    <3>. QED  BY <3>1, <3>2
  <2>. HIDE DEF longer
  <2>3. longer = [t \in SUBSET (1 .. k + 1) |-> longer[t]]
    BY DEF longer
  <2>4. Solves(k + 1, longer)
    BY <2>2, <2>3
  <2>. QED  BY <2>4
<1>3. Unsolved = {}
  <2>. SUFFICES ASSUME Unsolved # {} PROVE FALSE
    OBVIOUS
  <2>1. Min(Unsolved) \in Unsolved /\ \A k \in Unsolved : Min(Unsolved) <= k
    BY LeastExists
  <2>. HIDE DEF Unsolved
  <2>2. PICK m \in Nat : m \in Unsolved /\ \A k \in Unsolved : m <= k
    BY <2>1 DEF Unsolved
  <2>3. m - 1 \in Nat /\ m - 1 \notin Unsolved /\ (m - 1) + 1 = m
    BY <1>1, <2>2
  <2>. QED  BY <1>2, <2>2, <2>3
<1>. QED  BY <1>3 DEF PeekFoldsTo, Step

\* peek looks at one slot after the other, from the first.
LEMMA PeekInSteps ==
  ASSUME NEW S, NEW s \in Seq(S), NEW prio, NEW arrival
  PROVE  \E found : /\ found[0] = 0
                    /\ \A k \in 1 .. Len(s) :
                         found[k] = Best(s, prio, arrival, found[k - 1], k)
                    /\ peek(s, prio, arrival) = found[Len(s)]
<1>. DEFINE n == Len(s)
            iter == CHOOSE i : PeekFoldsTo(s, prio, arrival, n, i)
            found == [k \in 0 .. n |-> iter[1 .. k]]
<1>1. n \in Nat /\ DOMAIN s = 1 .. n
  BY LenProperties
<1>2. PeekFoldsTo(s, prio, arrival, n, iter)
  BY <1>1, PeekFoldExists
<1>3. peek(s, prio, arrival) = iter[1 .. n]
  <2>1. DOMAIN [i \in DOMAIN s |-> i] = 1 .. n
    BY <1>1
  <2>. QED
    BY <1>1, <2>1, Zenon
    DEF peek, FoldLeftDomain, FoldLeft, MapThenFoldSet, PeekFoldsTo, Best
<1>. HIDE DEF iter, n
<1>4. found[0] = 0
  <2>1. 1 .. 0 = {} /\ {} \in SUBSET (1 .. n)
    OBVIOUS
  <2>. QED  BY <1>1, <1>2, <2>1 DEF PeekFoldsTo
<1>5. ASSUME NEW k \in 1 .. n PROVE found[k] = Best(s, prio, arrival, found[k - 1], k)
  <2>1. 1 .. k \in SUBSET (1 .. n) /\ 1 .. k # {} /\ k - 1 \in Nat /\ (k - 1) + 1 = k
    BY <1>1
  <2>2. Max(1 .. k) = k
    <3>1. PICK j \in Nat : j + 1 = k
      BY <2>1
    <3>2. 1 .. k \in SUBSET (1 .. j + 1) /\ j + 1 \in 1 .. k
      BY <3>1
    <3>. QED  BY <3>1, <3>2, GreatestOfPrefix
  <2>3. (1 .. k) \ {k} = 1 .. k - 1
    BY <2>1
  <2>4. [i \in DOMAIN s |-> i][k] = k
    BY <1>1
  <2>5. iter[1 .. k] = Best(s, prio, arrival, iter[(1 .. k) \ {k}], k)
    BY <1>2, <2>1, <2>2, <2>4 DEF PeekFoldsTo
  <2>6. k \in 0 .. n /\ k - 1 \in 0 .. n
    BY <1>1
  <2>7. found[k] = iter[1 .. k] /\ found[k - 1] = iter[1 .. k - 1]
    BY <2>6
  <2>. QED  BY <2>3, <2>5, <2>7
<1>6. found[n] = peek(s, prio, arrival)
  BY <1>1, <1>3
<1>. HIDE DEF found
<1>. QED  BY <1>4, <1>5, <1>6 DEF n

\* It returns a position of the queue, whatever is in the slots, and 0 for none.
LEMMA PeekInArray ==
  ASSUME NEW S, NEW s \in Seq(S), NEW prio, NEW arrival
  PROVE  IF s = <<>> THEN peek(s, prio, arrival) = 0 ELSE peek(s, prio, arrival) \in DOMAIN s
<1>. DEFINE n == Len(s)
<1>1. n \in Nat /\ DOMAIN s = 1 .. n /\ (n = 0 <=> s = <<>>)
  BY LenProperties, EmptySeq
<1>2. PICK found : /\ found[0] = 0
                   /\ \A k \in 1 .. n : found[k] = Best(s, prio, arrival, found[k - 1], k)
                   /\ peek(s, prio, arrival) = found[n]
  BY PeekInSteps
<1>. HIDE DEF n
<1>. DEFINE Bad == {k \in 1 .. n : found[k] \notin 1 .. k}
<1>3. ASSUME NEW k \in 1 .. n, k - 1 \notin Bad PROVE found[k] \in 1 .. k
  <2>1. found[k - 1] = 0 \/ found[k - 1] \in 1 .. k - 1
    BY <1>1, <1>2, <1>3
  <2>2. found[k] = k \/ (found[k] = found[k - 1] /\ found[k - 1] # 0)
    BY <1>2 DEF Best
  <2>. QED  BY <1>1, <2>1, <2>2
<1>4. Bad = {}
  <2>. SUFFICES ASSUME Bad # {} PROVE FALSE
    OBVIOUS
  <2>1. Bad \in SUBSET Nat
    BY <1>1
  <2>2. Min(Bad) \in Bad /\ \A k \in Bad : Min(Bad) <= k
    BY <2>1, LeastExists
  <2>3. PICK m \in 1 .. n : m \in Bad /\ \A k \in Bad : m <= k
    BY <2>2
  <2>4. m - 1 \notin Bad
    BY <2>3
  <2>. QED  BY <1>3, <2>3, <2>4
<1>. QED  BY <1>1, <1>2, <1>4

\* What it returns is the position of somebody than whom nobody is better.
LEMMA PeekFindsBest ==
  ASSUME NEW s \in Seq(Id), s # <<>>, NEW prio, NEW arrival,
         \A i \in DOMAIN s : prio[s[i]] \in Int /\ arrival[s[i]] \in Int
  PROVE  LET best == peek(s, prio, arrival) IN
         best \in DOMAIN s /\ \A i \in DOMAIN s : ~Better(prio, arrival, s[i], s[best])
<1>. DEFINE n == Len(s)
<1>1. n \in Nat /\ n > 0 /\ DOMAIN s = 1 .. n
  BY LenProperties, EmptySeq
<1>2. PICK found : /\ found[0] = 0
                   /\ \A k \in 1 .. n : found[k] = Best(s, prio, arrival, found[k - 1], k)
                   /\ peek(s, prio, arrival) = found[n]
  BY PeekInSteps
<1>. HIDE DEF n
<1>. DEFINE BestOf(k, ind) ==
              ind \in 1 .. k /\ \A i \in 1 .. k : ~Better(prio, arrival, s[i], s[ind])
            Bad == {k \in 1 .. n : ~BestOf(k, found[k])}
<1>3. 1 \notin Bad
  <2>1. 1 \in 1 .. n /\ 1 - 1 = 0
    BY <1>1
  <2>2. found[1] = 1
    BY <1>2, <2>1 DEF Best
  <2>. QED  BY <1>1, <2>1, <2>2 DEF Better
<1>4. ASSUME NEW m \in 1 .. n, m - 1 \in 1 .. n, m - 1 \notin Bad PROVE m \notin Bad
  <2>1. PICK f \in 1 .. m - 1 : /\ f = found[m - 1]
                                /\ \A i \in 1 .. m - 1 : ~Better(prio, arrival, s[i], s[f])
    BY <1>4
  <2>2. found[m] = Best(s, prio, arrival, f, m) /\ f # 0 /\ f \in 1 .. n
    BY <1>1, <1>2, <2>1
  <2>3. \A i \in 1 .. m : i = m \/ i \in 1 .. m - 1
    BY <1>1
  <2>4. \A i \in 1 .. m : prio[s[i]] \in Int /\ arrival[s[i]] \in Int
    BY <1>1
  <2>5. CASE Better(prio, arrival, s[m], s[f])
    <3>1. found[m] = m
      BY <2>2, <2>5 DEF Best
    <3>2. \A i \in 1 .. m : ~Better(prio, arrival, s[i], s[m])
      <4>. SUFFICES ASSUME NEW i \in 1 .. m PROVE ~Better(prio, arrival, s[i], s[m])
        OBVIOUS
      <4>1. i = m \/ ~Better(prio, arrival, s[i], s[f])
        BY <2>1, <2>3
      <4>2. m \in 1 .. m /\ f \in 1 .. m
        BY <1>1
      <4>3. /\ prio[s[i]] \in Int /\ arrival[s[i]] \in Int
            /\ prio[s[m]] \in Int /\ arrival[s[m]] \in Int
            /\ prio[s[f]] \in Int /\ arrival[s[f]] \in Int
        BY <2>4, <4>2
      <4>. QED  BY <2>5, <4>1, <4>3 DEF Better
    <3>. QED  BY <1>1, <3>1, <3>2
  <2>6. CASE ~Better(prio, arrival, s[m], s[f])
    <3>1. found[m] = f
      BY <2>2, <2>6 DEF Best
    <3>. QED  BY <1>1, <2>1, <2>3, <2>6, <3>1
  <2>. QED  BY <2>5, <2>6
<1>5. Bad = {}
  <2>. SUFFICES ASSUME Bad # {} PROVE FALSE
    OBVIOUS
  <2>1. Bad \in SUBSET Nat
    BY <1>1
  <2>2. Min(Bad) \in Bad /\ \A k \in Bad : Min(Bad) <= k
    BY <2>1, LeastExists
  <2>. HIDE DEF Bad
  <2>3. PICK m \in 1 .. n : m \in Bad /\ \A k \in Bad : m <= k
    BY <2>2 DEF Bad
  <2>4. m - 1 \in 1 .. n /\ m - 1 \notin Bad
    BY <1>1, <1>3, <2>3
  <2>. QED  BY <1>4, <2>3, <2>4
<1>6. BestOf(n, found[n])
  BY <1>1, <1>5
<1>. QED  BY <1>1, <1>2, <1>6

-----------------------------------------------------------------------------
(* The invariant.  H is the set of processes that are in *currentProc, and *)
(* L the places of the loop between a decrement and the end of its down.   *)

\* Every process that was sent is in one place, and only there.
Placed(H) ==
  /\ {msgq, waitQ, ready} \subseteq Queue
  /\ H \subseteq Id
  /\ Range(waitQ) \cap Range(ready) = {}
  /\ H \cap (Range(waitQ) \cup Range(ready)) = {}
  /\ table = Range(waitQ) \cup Range(ready) \cup H
  /\ Range(msgq) \cap table = {}
  /\ \A p \in Range(msgq) \cup Range(waitQ) : child[p] = "none"
  /\ \A p \in Id : p <= sent <=> (p \in Range(msgq) \cup table \/ IsForked(p))
  /\ gen = "send" => sent < N

FinishedOnes == {p \in Id : Finished(p)}

\* The scheduler stops when this many have finished.
Counted == pCount = Cardinality(FinishedOnes)

\* Only the current process may have nothing left, and only between its last
\* decrement and the handler.
TimeLeft(L) ==
  \A p \in table : rem[p] > 0 \/ (rem[p] = 0 /\ p = cur /\ ~cpuFree /\ pc \in L)

\* Nothing happens to the process before it is dispatched.
Asleep(p) == child[p] = "none" \/ (child[p] = "spin" /\ halted[p])

\* Of the processes in the table only the current one runs; of the others at most
\* one has an instruction left, the up that the loop waits for.
OnlyCurrentRuns(L) ==
  /\ \A p \in Id : child[p] = "none" => ~halted[p]
  /\ \A p \in table : cpuFree \/ p # cur => Asleep(p)
  /\ \A p \in Id \ table : child[p] \in {"none", "up", "gone"}
  /\ \A p \in Id \ table : child[p] = "up" =>
       pc \in L /\ cpuFree /\ sem = 0 /\ \A q \in Id : child[q] = "up" => q = p

\* The shared integer and the semaphore are those of the current process, and it
\* signals between its last decrement and the down.
CurrentCounts(L) ==
  /\ ~cpuFree => cur \in table /\ ~halted[cur] /\ IsForked(cur)
  /\ ~cpuFree /\ pc \notin L =>
       child[cur] = "spin" /\ shm = rem[cur] /\ sem = rem[cur] - 1
  /\ ~cpuFree /\ pc \in L =>
       /\ shm = rem[cur]
       /\ child[cur] # "spin" => rem[cur] = 0
       /\ sig <=> child[cur] \in {"up", "gone"}
       /\ sem = IF child[cur] = "gone" THEN 1 ELSE rem[cur]
  /\ cpuFree /\ pc \in L => sem = 1 \/ \E p \in Id \ table : child[p] = "up"
  /\ sig => pc \in L /\ ~cpuFree

SimInv(H, L) ==
  /\ SimTypeOK
  /\ Placed(H) /\ Counted
  /\ TimeLeft(L) /\ OnlyCurrentRuns(L) /\ CurrentCounts(L)
  /\ NoEarlyFinish

\* It holds of the first state.
LEMMA SimInvInit == ASSUME NEW L, "receive" \notin L, SimInit PROVE SimInv({}, L)
<1>. USE NAssumption, MaxClkAssumption DEF SimInit
<1>1. SimTypeOK
  <2>1. {msgq, ready, waitQ} \subseteq Seq(Id)
    OBVIOUS
  <2>2. 0 \in 0 .. MaxClk /\ -1 \in -1 .. MaxClk /\ 0 \in 0 .. N /\ 0 \in Int /\ 0 \in Nat
    OBVIOUS
  <2>. QED  BY <2>1, <2>2 DEF SimTypeOK, Id
<1>2. Placed({})
  BY EmptyQueue DEF Placed, IsForked, Id
<1>3. Counted
  <2>1. FinishedOnes = {}
    BY DEF FinishedOnes, Finished
  <2>. QED  BY <2>1, FS_EmptySet DEF Counted
<1>4. TimeLeft(L) /\ OnlyCurrentRuns(L) /\ NoEarlyFinish
  BY DEF TimeLeft, OnlyCurrentRuns, Asleep, NoEarlyFinish
<1>. QED  BY <1>1, <1>2, <1>3, <1>4 DEF SimInv, CurrentCounts

-----------------------------------------------------------------------------
(* The steps of clock, generator and processes.                            *)

\* What a process in the table that is about to act must be.
LEMMA WhoRuns ==
  ASSUME NEW H, NEW L, SimInv(H, L), NEW p \in Id
  PROVE  /\ Runs(p, "spin") => p = cur /\ p \in table /\ ~cpuFree
         /\ child[p] = "kill" => p = cur /\ p \in table /\ ~cpuFree /\ pc \in L
         /\ child[p] = "up" => pc \in L /\ sem = 0 /\ rem[p] = 0
                               /\ (p \in table => p = cur /\ ~cpuFree)
BY DEF SimInv, OnlyCurrentRuns, CurrentCounts, Asleep, NoEarlyFinish, Runs, IsForked

\* Who is in which queue, and who has finished, does not change by their steps
\* but for a process that is sent.
LEMMA EnvironmentPlaced ==
  ASSUME NEW H, Placed(H), Counted, sent \in 0 .. N,
         child \in [Id -> {"none", "spin", "kill", "up", "gone"}], Environment
  PROVE  Placed(H)' /\ Counted'
<1>. USE DEF generator, processes, loop, cpu, pcb, memory
<1>1. ASSUME child' = child, UNCHANGED <<msgq, sent, gen, waitQ, ready, table, pCount>>
      PROVE  Placed(H)' /\ Counted'
  BY <1>1 DEF Placed, IsForked, Counted, FinishedOnes, Finished
<1>2. ASSUME NEW p \in Id, NEW at, at # "none", IsForked(p), child' = [child EXCEPT ![p] = at],
             UNCHANGED <<msgq, sent, gen, waitQ, ready, table, pCount>>
      PROVE  Placed(H)' /\ Counted'
  <2>1. child \in [Id -> {"none", "spin", "kill", "up", "gone"}]
    OBVIOUS
  <2>2. \A q \in Id : IsForked(q)' <=> IsForked(q)
    BY <1>2, <2>1 DEF IsForked
  <2>3. FinishedOnes' = FinishedOnes
    BY <1>2, <2>2 DEF FinishedOnes, Finished, IsForked
  <2>4. Counted'
    BY <1>2, <2>3 DEF Counted
  <2>5. \A q \in Range(msgq) \cup Range(waitQ) : q \in Id
    BY ElementOfSeq, LenProperties DEF Placed, Queue, Range
  <2>. QED  BY <1>2, <2>2, <2>4, <2>5 DEF Placed, IsForked
<1>3. CASE Tick
  BY <1>1, <1>3 DEF Tick
<1>4. CASE Notice
  BY <1>4 DEF Notice, Placed, IsForked, Counted, FinishedOnes, Finished
<1>5. CASE Send
  <2>. DEFINE p == sent + 1
  <2>1. p \in Id /\ sent \in Nat /\ sent' = p /\ gen' = "watch"
    BY <1>5, NAssumption DEF Send, Placed, Id
  <2>2. p \notin Range(msgq) /\ p \notin table /\ ~IsForked(p)
    BY <2>1 DEF Placed
  <2>3. msgq' \in Queue /\ Range(msgq') = Range(msgq) \cup {p}
    BY <1>5, <2>1, <2>2, AppendQueue DEF Send, Placed
  <2>4. UNCHANGED <<child, waitQ, ready, table, pCount>>
    BY <1>5 DEF Send
  <2>5. \A q \in Id : q <= sent' <=> q <= sent \/ q = p
    BY <2>1 DEF Id
  <2>6. Placed(H)'
    <3>. HIDE DEF p
    <3>. QED  BY <2>1, <2>2, <2>3, <2>4, <2>5 DEF Placed, IsForked
  <2>7. Counted'
    BY <2>4 DEF Counted, FinishedOnes, Finished
  <2>. QED  BY <2>6, <2>7
<1>6. ASSUME NEW p \in Id, LeaveLoop(p) \/ Signal(p) \/ Up(p)
      PROVE  Placed(H)' /\ Counted'
  <2>1. IsForked(p)
    BY <1>6 DEF LeaveLoop, Signal, Up, Runs, IsForked
  <2>. QED  BY <1>2, <1>6, <2>1 DEF LeaveLoop, Signal, Up
<1>. QED  BY <1>3, <1>4, <1>5, <1>6 DEF Environment

\* They keep the shared integer, the semaphore and the signal those of the
\* current process.
LEMMA EnvironmentKeeps ==
  ASSUME NEW H, NEW L, SimInv(H, L), Environment
  PROVE  SimInv(H, L)'
<1>. USE DEF generator, processes, loop, cpu, pcb, memory
<1>0. Placed(H)' /\ Counted'
  <2>1. Placed(H) /\ Counted /\ sent \in 0 .. N
        /\ child \in [Id -> {"none", "spin", "kill", "up", "gone"}]
    BY DEF SimInv, SimTypeOK
  <2>. QED  BY <2>1, EnvironmentPlaced
<1>1. ASSUME UNCHANGED <<shm, sem, child, halted, sig, pc, cpuFree, cur, table, rem>>
      PROVE  TimeLeft(L)' /\ OnlyCurrentRuns(L)' /\ CurrentCounts(L)' /\ NoEarlyFinish'
  BY <1>1 DEF SimInv, TimeLeft, OnlyCurrentRuns, CurrentCounts, NoEarlyFinish, Asleep,
              IsForked
<1>2. CASE Tick
  <2>1. SimTypeOK'
    BY <1>2, MaxClkAssumption DEF Tick, SimInv, SimTypeOK
  <2>. QED  BY <1>0, <1>1, <1>2, <2>1 DEF Tick, SimInv
<1>3. CASE Notice
  <2>1. SimTypeOK'
    BY <1>3 DEF Notice, SimInv, SimTypeOK
  <2>. QED  BY <1>0, <1>1, <1>3, <2>1 DEF Notice, SimInv
<1>4. CASE Send
  <2>1. msgq' \in Seq(Id) /\ sent' \in 0 .. N
    BY <1>0, <1>4, NAssumption DEF Send, SimInv, SimTypeOK, Placed, Queue
  <2>2. SimTypeOK'
    BY <1>4, <2>1 DEF Send, SimInv, SimTypeOK
  <2>. QED  BY <1>0, <1>1, <1>4, <2>2 DEF Send, SimInv
<1>5. ASSUME NEW p \in Id, LeaveLoop(p) PROVE SimInv(H, L)'
  <2>1. p = cur /\ p \in table /\ ~cpuFree
    BY <1>5, WhoRuns DEF LeaveLoop
  <2>2. SimTypeOK'
    BY <1>5 DEF LeaveLoop, SimInv, SimTypeOK
  <2>3. shm = rem[p] /\ rem[p] = 0 /\ pc \in L
    BY <1>5, <2>1 DEF LeaveLoop, SimInv, CurrentCounts, TimeLeft, SimTypeOK
  <2>4. TimeLeft(L)' /\ NoEarlyFinish'
    BY <1>5, <2>3 DEF LeaveLoop, SimInv, SimTypeOK, TimeLeft, NoEarlyFinish
  <2>5. OnlyCurrentRuns(L)'
    BY <1>5, <2>1 DEF LeaveLoop, SimInv, SimTypeOK, OnlyCurrentRuns, Asleep
  <2>6. CurrentCounts(L)'
    BY <1>5, <2>1, <2>3 DEF LeaveLoop, Runs, SimInv, SimTypeOK, CurrentCounts, IsForked
  <2>. QED  BY <1>0, <2>2, <2>4, <2>5, <2>6 DEF SimInv
<1>6. ASSUME NEW p \in Id, Signal(p) PROVE SimInv(H, L)'
  <2>1. p = cur /\ p \in table /\ ~cpuFree /\ pc \in L
    BY <1>6, WhoRuns DEF Signal, Runs
  <2>2. SimTypeOK'
    BY <1>6 DEF Signal, SimInv, SimTypeOK
  <2>3. TimeLeft(L)' /\ NoEarlyFinish'
    BY <1>6 DEF Signal, Runs, SimInv, SimTypeOK, TimeLeft, NoEarlyFinish
  <2>4. OnlyCurrentRuns(L)'
    BY <1>6, <2>1 DEF Signal, SimInv, SimTypeOK, OnlyCurrentRuns, Asleep
  <2>5. CurrentCounts(L)'
    BY <1>6, <2>1 DEF Signal, Runs, SimInv, SimTypeOK, CurrentCounts, IsForked
  <2>. QED  BY <1>0, <2>2, <2>3, <2>4, <2>5 DEF SimInv
<1>7. ASSUME NEW p \in Id, Up(p) PROVE SimInv(H, L)'
  <2>1. pc \in L /\ sem = 0 /\ rem[p] = 0 /\ (p \in table => p = cur /\ ~cpuFree)
    BY <1>7, WhoRuns DEF Up, Runs
  <2>2. SimTypeOK'
    BY <1>7 DEF Up, SimInv, SimTypeOK
  <2>3. TimeLeft(L)' /\ NoEarlyFinish'
    BY <1>7 DEF Up, Runs, SimInv, SimTypeOK, TimeLeft, NoEarlyFinish
  <2>4. OnlyCurrentRuns(L)'
    BY <1>7, <2>1 DEF Up, Runs, SimInv, SimTypeOK, OnlyCurrentRuns, Asleep
  <2>5. CurrentCounts(L)'
    <3>1. CASE p \in table
      BY <1>7, <2>1, <3>1 DEF Up, Runs, SimInv, SimTypeOK, CurrentCounts, IsForked
    <3>2. CASE p \notin table
      BY <1>7, <2>1, <3>2
      DEF Up, Runs, SimInv, SimTypeOK, CurrentCounts, OnlyCurrentRuns, IsForked
    <3>. QED  BY <3>1, <3>2
  <2>. QED  BY <1>0, <2>2, <2>3, <2>4, <2>5 DEF SimInv
<1>. QED  BY <1>2, <1>3, <1>4, <1>5, <1>6, <1>7 DEF Environment

-----------------------------------------------------------------------------
(* The receiving loop and the handler.                                     *)

\* A received process is in waitQ or ready and nothing else changes, but that the
\* ready queue may have somebody to give.
LEMMA PollKeeps ==
  ASSUME NEW H, NEW L, SimInv(H, L), Poll
  PROVE  /\ SimInv(H, L)'
         /\ ready # <<>> => ready' # <<>> /\ Head(ready') = Head(ready)
         /\ Begins(ready, ready') /\ Range(ready') \subseteq Range(ready) \cup Range(msgq)
<1>. USE DEF generator, processes, loop, cpu, pcb, memory
<1>1. CASE PollEmpty
  <2>1. SimTypeOK'
    BY <1>1, NAssumption DEF Poll, PollEmpty, SimInv, SimTypeOK
  <2>2. Placed(H)' /\ Counted'
    BY <1>1 DEF Poll, PollEmpty, SimInv, Placed, IsForked, Counted, FinishedOnes, Finished
  <2>3. TimeLeft(L)' /\ OnlyCurrentRuns(L)' /\ CurrentCounts(L)' /\ NoEarlyFinish'
    BY <1>1 DEF Poll, PollEmpty, SimInv, TimeLeft, OnlyCurrentRuns, CurrentCounts,
                NoEarlyFinish, Asleep, IsForked
  <2>. QED  BY <1>1, <2>1, <2>2, <2>3 DEF SimInv, PollEmpty, Begins
<1>2. ASSUME NEW p \in Id, ReceiveReady(p) \/ ReceiveWaiting(p)
      PROVE  /\ SimInv(H, L)'
             /\ ready # <<>> => ready' # <<>> /\ Head(ready') = Head(ready)
             /\ Begins(ready, ready') /\ Range(ready') \subseteq Range(ready) \cup Range(msgq)
  <2>1. msgq \in Queue /\ msgq # <<>> /\ p = Head(msgq) /\ msgq' = Tail(msgq)
        /\ table' = table \cup {p} /\ rem' = [rem EXCEPT ![p] = job.run[p]]
        /\ polls' = polls + 1 /\ polls < N
    BY <1>2 DEF ReceiveReady, ReceiveWaiting, Receive, SimInv, Placed
  <2>2. UNCHANGED <<job, clk, gen, sent, shm, sem, child, halted, sig, pc, prevClk, cpuFree,
                    cur, pCount, lastClk, wait>>
    BY DEF Poll
  <2>3. p \in Range(msgq) /\ msgq' \in Queue /\ Range(msgq') = Range(msgq) \ {p}
    BY <2>1, TailQueue
  <2>4. child[p] = "none" /\ p \notin table
    BY <2>3 DEF SimInv, Placed
  <2>5. p \notin Range(waitQ) /\ p \notin Range(ready) /\ waitQ \in Queue /\ ready \in Queue
    BY <2>4 DEF SimInv, Placed
  <2>6. \/ /\ waitQ' \in Queue /\ Range(waitQ') = Range(waitQ) \cup {p}
           /\ ready' = ready
        \/ /\ waitQ' = waitQ
           /\ ready' \in Queue /\ Range(ready') = Range(ready) \cup {p}
           /\ ready # <<>> => ready' # <<>> /\ Head(ready') = Head(ready)
           /\ Begins(ready, ready')
    <3>1. CASE ReceiveReady(p)
      BY <2>5, <3>1, EnqueueQueue DEF ReceiveReady
    <3>2. CASE ReceiveWaiting(p)
      BY <2>5, <3>2, AppendQueue DEF ReceiveWaiting
    <3>. QED  BY <1>2, <3>1, <3>2
  <2>7. Placed(H)'
    BY <2>1, <2>2, <2>3, <2>4, <2>5, <2>6 DEF SimInv, Placed, IsForked
  <2>8. Counted'
    <3>1. FinishedOnes' = FinishedOnes
      BY <2>1, <2>2, <2>4 DEF FinishedOnes, Finished
    <3>. QED  BY <2>2, <3>1 DEF SimInv, Counted
  <2>9. job.run[p] \in Nat /\ job.run[p] > 0
    BY JobsAssumption DEF SimInv, SimTypeOK
  <2>10. SimTypeOK'
    <3>1. {msgq', waitQ', ready'} \subseteq Seq(Id)
      BY <2>7 DEF Placed, Queue
    <3>2. polls' \in 0 .. N
      BY <2>1, NAssumption DEF SimInv, SimTypeOK
    <3>3. table \subseteq Id /\ rem \in [Id -> Int] /\ job.run[p] \in Int
      BY <2>9 DEF SimInv, SimTypeOK
    <3>4. table' \subseteq Id /\ rem' \in [Id -> Int]
      BY <2>1, <3>3
    <3>. QED  BY <2>2, <3>1, <3>2, <3>4 DEF SimInv, SimTypeOK
  <2>11. rem'[p] = job.run[p] /\ \A q \in Id : q # p => rem'[q] = rem[q]
    BY <2>1 DEF SimInv, SimTypeOK
  <2>12. ~cpuFree => cur # p /\ cur \in Id
    BY <2>4 DEF SimInv, CurrentCounts, SimTypeOK
  <2>13. table \subseteq Id
    BY DEF SimInv, SimTypeOK
  <2>14. TimeLeft(L)' /\ NoEarlyFinish'
    BY <2>1, <2>2, <2>4, <2>9, <2>11, <2>13 DEF SimInv, TimeLeft, NoEarlyFinish
  <2>15. OnlyCurrentRuns(L)'
    BY <2>1, <2>2, <2>4 DEF SimInv, OnlyCurrentRuns, Asleep
  <2>16. CurrentCounts(L)'
    BY <2>1, <2>2, <2>4, <2>11, <2>12 DEF SimInv, CurrentCounts, IsForked
  <2>17. Begins(ready, ready') /\ Range(ready') \subseteq Range(ready) \cup Range(msgq)
    BY <2>3, <2>6 DEF Begins
  <2>. QED  BY <2>6, <2>7, <2>8, <2>10, <2>14, <2>15, <2>16, <2>17 DEF SimInv
<1>. QED  BY <1>1, <1>2 DEF Poll

\* The handler takes the current process out of the table and counts it, and puts
\* what it takes from waitQ into the ready queue, behind those that were ready.
LEMMA HandlerPlaced ==
  ASSUME NEW H, NEW p \in H, Placed(H), Counted, pCount \in Nat, processTerminate, p = cur,
         IsForked(p)
  PROVE  /\ Placed(H \ {p})' /\ Counted' /\ pCount' \in 0 .. N
         /\ sig' = FALSE /\ cpuFree' = TRUE /\ table' = table \ {p} /\ cur' = None /\ pc' = pc
         /\ UNCHANGED <<job, clk, gen, sent, msgq, shm, sem, child, halted, polls, prevClk, rem,
                        lastClk, wait>>
         /\ Begins(ready, ready')
         /\ Range(ready') \subseteq Range(ready) \cup Range(waitQ)
         /\ Range(waitQ') \cup Range(ready') = Range(waitQ) \cup Range(ready)
         /\ Range(waitQ') \subseteq Range(waitQ)
<1>. USE DEF generator, processes
<1>1. cur \in table /\ cur \in Id
  BY DEF Placed
<1>2. /\ sig' = FALSE /\ cpuFree' = TRUE /\ pCount' = pCount + 1
      /\ table' = table \ {cur} /\ cur' = None /\ pc' = pc
      /\ UNCHANGED <<job, clk, gen, sent, msgq, shm, sem, child, halted, polls, prevClk, rem,
                     lastClk, wait>>
  BY <1>1 DEF processTerminate
<1>3. PICK s : /\ QueuesAfter(s, Len(waitQ)) /\ Asked(Len(waitQ)) = Range(waitQ)
               /\ waitQ' = s.waitQ /\ ready' = s.ready
  BY <1>1, ScannedQueues DEF processTerminate, Placed
<1>4. /\ {msgq', waitQ', ready'} \subseteq Queue
      /\ Range(waitQ') \cap Range(ready') = {}
      /\ Range(waitQ') \cup Range(ready') = Range(waitQ) \cup Range(ready)
      /\ Range(waitQ') \subseteq Range(waitQ)
      /\ Begins(ready, ready')
  BY <1>2, <1>3 DEF QueuesAfter, Placed
<1>5. Placed(H \ {p})'
  <2>. DEFINE K == H \ {p}
  <2>1. K \subseteq Id /\ K \cap (Range(waitQ) \cup Range(ready)) = {}
        /\ table' = Range(waitQ) \cup Range(ready) \cup K
    BY <1>2 DEF Placed
  <2>2. \A q \in Id : q \in table \/ IsForked(q) <=> q \in table' \/ IsForked(q)'
    BY <1>2 DEF IsForked
  <2>. HIDE DEF K
  <2>3. Placed(K)'
    BY <1>2, <1>4, <2>1, <2>2 DEF Placed
  <2>. QED  BY <2>3 DEF K
<1>6. IsFiniteSet(Id) /\ Cardinality(Id) = N
  BY NAssumption, FS_Interval DEF Id
<1>7. FinishedOnes' = FinishedOnes \cup {cur} /\ cur \notin FinishedOnes
  BY <1>1, <1>2 DEF FinishedOnes, Finished, IsForked
<1>8. Counted' /\ pCount' \in 0 .. N
  <2>1. IsFiniteSet(FinishedOnes)
    BY <1>6, FS_Subset DEF FinishedOnes
  <2>2. Cardinality(FinishedOnes') = Cardinality(FinishedOnes) + 1
    BY <1>7, <2>1, FS_AddElement
  <2>3. FinishedOnes' \in SUBSET Id
    BY DEF FinishedOnes
  <2>4. Cardinality(FinishedOnes') <= N
    BY <1>6, <2>3, FS_Subset
  <2>5. pCount' = Cardinality(FinishedOnes')
    BY <1>2, <2>2 DEF Counted
  <2>. QED  BY <1>2, <2>4, <2>5, NAssumption DEF Counted
<1>. QED  BY <1>2, <1>4, <1>5, <1>8

\* A SIGUSR1 comes from currentProc, whose entry in the table is still there: the
\* handler never follows a null or freed pointer, and what it takes from waitQ it
\* puts into the ready queue, behind those that were ready.
LEMMA HandlerKeeps ==
  ASSUME NEW L, SimInv({cur} \cap Id, L), processTerminate
  PROVE  /\ SimInv({}, L)' /\ pc' = pc
         /\ Begins(ready, ready') /\ Range(ready') \subseteq Range(ready) \cup Range(waitQ)
<1>. USE DEF generator, processes, loop, cpu, pcb, memory
<1>1. cur \in table /\ cur \in Id /\ ~cpuFree /\ pc \in L /\ IsForked(cur)
      /\ child[cur] \in {"up", "gone"}
  BY DEF processTerminate, SimInv, CurrentCounts, SimTypeOK
<1>2. rem[cur] = 0 /\ sem = IF child[cur] = "gone" THEN 1 ELSE 0
  BY <1>1 DEF SimInv, CurrentCounts, NoEarlyFinish
<1>3. SimTypeOK /\ Counted /\ pCount \in Nat
  <2>1. SimTypeOK /\ Counted
    BY DEF SimInv
  <2>. QED  BY <2>1, NAssumption DEF SimTypeOK
<1>4. /\ Placed({})' /\ Counted' /\ pCount' \in 0 .. N
      /\ sig' = FALSE /\ cpuFree' = TRUE /\ table' = table \ {cur} /\ cur' = None /\ pc' = pc
      /\ UNCHANGED <<job, clk, gen, sent, msgq, shm, sem, child, halted, polls, prevClk, rem,
                     lastClk, wait>>
      /\ Begins(ready, ready') /\ Range(ready') \subseteq Range(ready) \cup Range(waitQ)
  <2>1. PICK p \in Id : p = cur
    BY <1>1
  <2>2. PICK H : H = {cur} \cap Id
    OBVIOUS
  <2>3. Placed(H) /\ p \in H /\ H \ {p} = {} /\ IsForked(p)
    BY <1>1, <2>1, <2>2 DEF SimInv
  <2>4. Placed(H \ {p})'
    BY <1>3, <2>1, <2>3, HandlerPlaced
  <2>5. Placed({})'
    BY <2>3, <2>4
  <2>. QED  BY <1>3, <2>1, <2>3, <2>5, HandlerPlaced
<1>5. SimTypeOK'
  <2>1. {msgq', waitQ', ready'} \subseteq Seq(Id)
    BY <1>4 DEF Placed, Queue
  <2>. QED  BY <1>3, <1>4, <2>1 DEF SimTypeOK
<1>6. TimeLeft(L)' /\ NoEarlyFinish'
  BY <1>1, <1>4 DEF SimInv, TimeLeft, NoEarlyFinish
<1>7. OnlyCurrentRuns(L)'
  BY <1>1, <1>2, <1>4 DEF SimInv, OnlyCurrentRuns, Asleep
<1>8. CurrentCounts(L)'
  BY <1>1, <1>2, <1>4 DEF SimInv, CurrentCounts
<1>. QED  BY <1>4, <1>5, <1>6, <1>7, <1>8 DEF SimInv

-----------------------------------------------------------------------------
(* The number of places of a process, as the runs count them.              *)

\* A process is at one index of a queue it is in.
LEMMA IndicesInQueue ==
  ASSUME NEW q \in Queue, NEW p
  PROVE  Cardinality({i \in DOMAIN q : q[i] = p}) = IF p \in Range(q) THEN 1 ELSE 0
<1>. DEFINE I == {i \in DOMAIN q : q[i] = p}
<1>1. CASE p \in Range(q)
  <2>1. PICK i \in DOMAIN q : q[i] = p
    BY <1>1 DEF Range
  <2>2. I = {i}
    BY <2>1 DEF Queue, IsInjective
  <2>. QED  BY <1>1, <2>2, FS_Singleton
<1>2. CASE p \notin Range(q)
  <2>1. I = {}
    BY <1>2 DEF Range
  <2>. QED  BY <1>2, <2>1, FS_EmptySet
<1>. QED  BY <1>1, <1>2

\* Placed says what the runs count.
LEMMA PlacedIsOnePlace ==
  ASSUME NEW H, Placed(H), sent \in 0 .. N, NEW p \in 1 .. sent
  PROVE  /\ Places(p) = IF p \in H THEN 0 ELSE 1
         /\ Places(p) + (IF p \in H THEN 1 ELSE 0) = 1
<1>1. p \in Id
  BY NAssumption DEF Id
<1>2. p \in Range(msgq) \cup table \/ IsForked(p)
  BY <1>1 DEF Placed
<1>. DEFINE q == msgq \o waitQ \o ready
            indices == {i \in DOMAIN q : q[i] = p}
<1>3. q \in Queue /\ Range(q) = Range(msgq) \cup Range(waitQ) \cup Range(ready)
  <2>1. /\ msgq \in Queue /\ waitQ \in Queue /\ ready \in Queue
        /\ Range(msgq) \cap Range(waitQ) = {}
        /\ (Range(msgq) \cup Range(waitQ)) \cap Range(ready) = {}
    BY DEF Placed
  <2>2. msgq \o waitQ \in Queue /\ Range(msgq \o waitQ) = Range(msgq) \cup Range(waitQ)
    BY <2>1, ConcatQueue
  <2>. QED  BY <2>1, <2>2, ConcatQueue
<1>. HIDE DEF q
<1>4. Cardinality(indices) = IF p \in Range(q) THEN 1 ELSE 0
  BY <1>3, IndicesInQueue
<1>5. Places(p) = Cardinality(indices) + (IF Finished(p) THEN 1 ELSE 0)
  BY DEF Places, q
<1>6. \/ p \in Range(q) /\ ~Finished(p) /\ p \notin H
      \/ p \notin Range(q) /\ Finished(p) /\ p \notin H
      \/ p \notin Range(q) /\ ~Finished(p) /\ p \in H
  BY <1>2, <1>3 DEF Placed, Finished, IsForked
<1>. QED  BY <1>4, <1>5, <1>6

-----------------------------------------------------------------------------
(* The steps of a loop that all algorithms have.                           *)

\* A test of the loop that leads from one place to another, both of them between a
\* decrement and the end of its down or neither.
LEMMA TestKeeps ==
  ASSUME NEW H, NEW L, SimInv(H, L), SimTypeOK', pc' \in L <=> pc \in L,
         UNCHANGED <<gen, sent, msgq, shm, sem, child, halted, sig, cpuFree, cur, pCount,
                     ready, table, rem, waitQ>>
  PROVE  SimInv(H, L)'
<1>1. Placed(H)' /\ Counted'
  BY DEF SimInv, Placed, IsForked, Counted, FinishedOnes, Finished
<1>2. TimeLeft(L)' /\ OnlyCurrentRuns(L)' /\ CurrentCounts(L)' /\ NoEarlyFinish'
  BY DEF SimInv, TimeLeft, OnlyCurrentRuns, CurrentCounts, NoEarlyFinish, Asleep, IsForked
<1>. QED  BY <1>1, <1>2 DEF SimInv

\* While the CPU is free outside that stretch nobody acts.
LEMMA NobodyActs ==
  ASSUME NEW H, NEW L, SimInv(H, L), cpuFree, pc \notin L
  PROVE  ~sig /\ \A p \in Id : child[p] \notin {"kill", "up"}
<1>1. ~sig
  BY DEF SimInv, CurrentCounts
<1>2. ASSUME NEW p \in Id PROVE child[p] \notin {"kill", "up"}
  <2>1. CASE p \in table
    <3>1. Asleep(p)
      BY <2>1 DEF SimInv, OnlyCurrentRuns
    <3>. QED  BY <3>1 DEF Asleep
  <2>2. CASE p \notin table
    BY <2>2 DEF SimInv, OnlyCurrentRuns
  <2>. QED  BY <2>1, <2>2
<1>. QED  BY <1>1, <1>2

\* When everybody has finished nobody is in the table.
LEMMA AllFinished ==
  ASSUME Counted, pCount = N, table \subseteq Id
  PROVE  table = {}
<1>1. IsFiniteSet(Id) /\ Cardinality(Id) = N
  BY NAssumption, FS_Interval DEF Id
<1>2. FinishedOnes \in SUBSET Id
  BY DEF FinishedOnes
<1>3. FinishedOnes = Id
  BY <1>1, <1>2, FS_Subset DEF Counted
<1>. QED  BY <1>3 DEF FinishedOnes, Finished

\* The CPU is given to process p, which was in H or is taken out of the ready queue,
\* and the shared integer and the semaphore are its.
LEMMA CpuGiven ==
  ASSUME NEW H, NEW L, NEW p \in Id, SimInv(H, L), pc \notin L, pc' \notin L,
         cpuFree, p \in table, H \subseteq {p}, StartOrResume(p),
         cpuFree' = FALSE, cur' = p, shm' = rem[p], sem' = rem[p] - 1,
         ready' \in Queue, Range(ready') = (Range(ready) \cup H) \ {p},
         p \in Range(ready) \cup H,
         UNCHANGED <<job, clk, gen, sent, msgq, sig, polls, prevClk, pCount, table, rem,
                     lastClk, waitQ>>
  PROVE  SimInv({p}, L)'
<1>1. SimTypeOK
  BY DEF SimInv
<1>2. Asleep(p) /\ rem[p] \in Int /\ rem[p] > 0
  BY <1>1 DEF SimInv, OnlyCurrentRuns, TimeLeft, SimTypeOK
<1>3. ~sig /\ \A q \in Id : child[q] # "up"
  BY NobodyActs
<1>4. /\ child' = [child EXCEPT ![p] = "spin"]
      /\ halted' \in [Id -> BOOLEAN] /\ ~halted'[p]
      /\ \A q \in Id : q # p => halted'[q] = halted[q]
      /\ wait' \in [Id -> Int]
  <2>1. CASE IsForked(p)
    <3>1. child[p] = "spin"
      BY <1>2, <2>1 DEF Asleep, IsForked
    <3>2. child' = [child EXCEPT ![p] = "spin"]
      BY <1>1, <2>1, <3>1 DEF StartOrResume, SimTypeOK
    <3>3. wait' \in [Id -> Int]
      <4>1. wait \in [Id -> Int] /\ wait[p] + clk - lastClk[p] \in Int
        BY <1>1, MaxClkAssumption DEF SimTypeOK
      <4>2. wait' = [wait EXCEPT ![p] = wait[p] + clk - lastClk[p]]
        BY <2>1 DEF StartOrResume
      <4>. QED  BY ONLY <4>1, <4>2, p \in Id
    <3>. QED  BY <1>1, <2>1, <3>2, <3>3 DEF StartOrResume, SimTypeOK
  <2>2. CASE ~IsForked(p)
    <3>1. job.arrival[p] \in Nat
      BY <1>1, JobsAssumption DEF SimTypeOK
    <3>2. wait' \in [Id -> Int]
      <4>1. wait \in [Id -> Int] /\ clk \in Int
        BY <1>1, MaxClkAssumption DEF SimTypeOK
      <4>2. wait' = [wait EXCEPT ![p] = clk - job.arrival[p]]
        BY <2>2 DEF StartOrResume
      <4>3. clk - job.arrival[p] \in Int
        BY ONLY <3>1, <4>1
      <4>. QED  BY ONLY <4>1, <4>2, <4>3, p \in Id
    <3>3. ~halted[p]
      BY <2>2 DEF SimInv, OnlyCurrentRuns, IsForked
    <3>. QED  BY <1>1, <2>2, <3>2, <3>3 DEF StartOrResume, SimTypeOK
  <2>. QED  BY <2>1, <2>2
<1>5. \A q \in Id : child'[q] = IF q = p THEN "spin" ELSE child[q]
  BY <1>1, <1>4 DEF SimTypeOK
<1>6. table \subseteq Id
  BY <1>1 DEF SimTypeOK
<1>7. Placed({p})' /\ Counted'
  <2>1. Range(msgq) \subseteq Id /\ Range(waitQ) \subseteq Id
    BY ElementOfSeq, LenProperties DEF SimInv, Placed, Queue, Range
  <2>2. FinishedOnes' = FinishedOnes
    BY <1>5 DEF FinishedOnes, Finished
  <2>3. Placed({p})'
    BY <1>5, <2>1 DEF SimInv, Placed, IsForked
  <2>. QED  BY <2>2, <2>3 DEF SimInv, Counted
<1>8. SimTypeOK'
  <2>1. {msgq', ready', waitQ'} \subseteq Seq(Id)
    BY <1>7 DEF Placed, Queue
  <2>2. shm' \in Int /\ sem' \in Nat
    BY <1>2
  <2>3. child' \in [Id -> {"none", "spin", "kill", "up", "gone"}]
    BY <1>1, <1>4 DEF SimTypeOK
  <2>. QED  BY <1>1, <1>4, <2>1, <2>2, <2>3 DEF SimTypeOK
<1>9. TimeLeft(L)' /\ NoEarlyFinish'
  BY <1>5 DEF SimInv, TimeLeft, NoEarlyFinish
<1>10. OnlyCurrentRuns(L)'
  BY <1>3, <1>4, <1>5, <1>6 DEF SimInv, OnlyCurrentRuns, Asleep
<1>11. CurrentCounts(L)'
  BY <1>3, <1>4, <1>5 DEF CurrentCounts, IsForked
<1>. QED  BY <1>7, <1>8, <1>9, <1>10, <1>11 DEF SimInv

\* The CPU is taken from the current process, which spins with something left and is
\* stopped; it goes to the ready queue or stays in H.
LEMMA CpuTaken ==
  ASSUME NEW H, NEW L, NEW p, SimInv({p}, L), pc \notin L, pc' \notin L,
         p = cur, ~cpuFree, Stop(p), cpuFree' = TRUE, cur' \in Id \cup {None, Freed},
         ready' \in Queue, H \cap Range(ready') = {}, H \subseteq {p},
         Range(ready') \cup H = Range(ready) \cup {p},
         UNCHANGED <<job, clk, gen, sent, msgq, shm, sem, child, sig, polls, prevClk, pCount,
                     table, rem, wait, waitQ>>
  PROVE  SimInv(H, L)'
<1>1. SimTypeOK
  BY DEF SimInv
<1>2. p \in table /\ p \in Id /\ child[p] = "spin" /\ ~sig
  BY <1>1 DEF SimInv, CurrentCounts, SimTypeOK
<1>3. /\ halted' \in [Id -> BOOLEAN] /\ lastClk' \in [Id -> Nat]
      /\ \A q \in Id : halted'[q] = IF q = p THEN TRUE ELSE halted[q]
  BY <1>1, <1>2, MaxClkAssumption DEF Stop, SimTypeOK
<1>4. table \subseteq Id
  BY <1>1 DEF SimTypeOK
<1>5. Placed(H)'
  BY <1>2 DEF SimInv, Placed, IsForked
<1>6. Counted'
  BY DEF SimInv, Counted, FinishedOnes, Finished
<1>7. SimTypeOK'
  <2>1. {msgq', ready', waitQ'} \subseteq Seq(Id)
    BY <1>5 DEF Placed, Queue
  <2>. QED  BY <1>1, <1>3, <2>1 DEF SimTypeOK
<1>8. TimeLeft(L)' /\ NoEarlyFinish'
  BY DEF SimInv, TimeLeft, NoEarlyFinish
<1>9. OnlyCurrentRuns(L)'
  BY <1>2, <1>3, <1>4 DEF SimInv, OnlyCurrentRuns, Asleep
<1>10. CurrentCounts(L)'
  BY <1>2 DEF CurrentCounts
<1>. QED  BY <1>5, <1>6, <1>7, <1>8, <1>9, <1>10 DEF SimInv

\* A second of the current process is charged: from here to the end of the down it
\* may find that nothing is left.
LEMMA SecondCharged ==
  ASSUME NEW L, NEW p, SimInv({p}, L), pc \notin L, pc' \in L, p = cur, ~cpuFree, Decrement,
         UNCHANGED <<job, clk, gen, sent, msgq, sem, child, halted, sig, polls, prevClk,
                     cpuFree, cur, pCount, ready, table, lastClk, wait, waitQ>>
  PROVE  SimInv({p}, L)'
<1>1. SimTypeOK
  BY DEF SimInv
<1>2. /\ p \in table /\ p \in Id /\ child[p] = "spin" /\ shm = rem[p] /\ sem = rem[p] - 1
      /\ rem[p] \in Int /\ rem[p] > 0 /\ ~halted[p]
      /\ ~sig
  BY <1>1 DEF SimInv, CurrentCounts, TimeLeft, SimTypeOK
<1>3. /\ rem' \in [Id -> Int] /\ shm' = rem[p] - 1
      /\ \A q \in Id : rem'[q] = IF q = p THEN rem[p] - 1 ELSE rem[q]
  BY <1>1, <1>2 DEF Decrement, SimTypeOK
<1>4. table \subseteq Id
  BY <1>1 DEF SimTypeOK
<1>5. Placed({p})' /\ Counted'
  BY DEF SimInv, Placed, IsForked, Counted, FinishedOnes, Finished
<1>6. SimTypeOK'
  BY <1>1, <1>2, <1>3 DEF SimTypeOK
<1>7. TimeLeft(L)' /\ NoEarlyFinish'
  BY <1>2, <1>3, <1>4 DEF SimInv, TimeLeft, NoEarlyFinish
<1>8. OnlyCurrentRuns(L)'
  BY DEF SimInv, OnlyCurrentRuns, Asleep
<1>9. CurrentCounts(L)'
  BY <1>2, <1>3 DEF CurrentCounts, IsForked
<1>. QED  BY <1>5, <1>6, <1>7, <1>8, <1>9 DEF SimInv

\* The down ends: the current process has something left, or its up has come and
\* the handler has run.
LEMMA DownEnds ==
  ASSUME NEW H, NEW L, SimInv(H, L), pc \in L, pc' \notin L, ~sig, sem > 0, sem' = sem - 1,
         UNCHANGED <<job, clk, gen, sent, msgq, shm, child, halted, sig, polls, prevClk,
                     cpuFree, cur, pCount, ready, table, rem, lastClk, wait, waitQ>>
  PROVE  SimInv(H, L)'
<1>1. SimTypeOK
  BY DEF SimInv
<1>2. ~cpuFree => /\ cur \in table /\ cur \in Id /\ shm = rem[cur] /\ sem = rem[cur]
                  /\ child[cur] = "spin"
  BY <1>1 DEF SimInv, CurrentCounts, IsForked, SimTypeOK
<1>3. \A q \in Id \ table : child[q] # "up"
  BY DEF SimInv, OnlyCurrentRuns
<1>4. Placed(H)' /\ Counted'
  BY DEF SimInv, Placed, IsForked, Counted, FinishedOnes, Finished
<1>5. SimTypeOK'
  BY <1>1 DEF SimTypeOK
<1>6. TimeLeft(L)' /\ NoEarlyFinish'
  BY <1>2 DEF SimInv, TimeLeft, NoEarlyFinish
<1>7. OnlyCurrentRuns(L)'
  BY <1>3 DEF SimInv, OnlyCurrentRuns, Asleep
<1>8. CurrentCounts(L)'
  BY <1>2 DEF SimInv, CurrentCounts, IsForked
<1>. QED  BY <1>4, <1>5, <1>6, <1>7, <1>8 DEF SimInv

-----------------------------------------------------------------------------
(* The stages of Lifecycle.                                                *)

StagesAre(H) ==
  \A p \in Id :
    /\ Stage(p) \in {"outside", "memory", "ready", "running", "finished"}
    /\ Stage(p) = "memory" <=> p \in Range(waitQ)
    /\ Stage(p) = "ready" <=> p \in Range(ready)
    /\ Stage(p) = "running" <=> p \in H
    /\ Stage(p) = "finished" <=> p \notin table /\ IsForked(p)

\* The one that has the CPU is in currentProc.
LEMMA StagesFromPlaces ==
  /\ \A H : Placed(H) => StagesAre(H)
  /\ \A H : Placed(H)' => StagesAre(H)'
BY DEF Placed, StagesAre, Stage, Finished, IsForked

\* Nothing happens to the processes.
LEMMA StagesKept ==
  ASSUME NEW H, NEW L, SimInv(H, L), SimInv(H, L)', UNCHANGED <<job, rem, table>>,
         Range(waitQ') = Range(waitQ), Range(ready') = Range(ready),
         \A p \in Id \ table : IsForked(p)' <=> IsForked(p)
  PROVE  UNCHANGED Abstract!vars
<1>1. StagesAre(H) /\ StagesAre(H)'
  BY StagesFromPlaces DEF SimInv
<1>2. \A p \in Id : Stage(p)' = Stage(p)
  BY <1>1 DEF StagesAre
<1>. QED  BY <1>2 DEF Abstract!vars

\* Clock, generator and processes change no stage.
LEMMA EnvironmentStutters ==
  ASSUME NEW H, NEW L, SimInv(H, L), Environment
  PROVE  UNCHANGED Abstract!vars
<1>1. SimInv(H, L)'
  BY EnvironmentKeeps
<1>2. UNCHANGED <<job, rem, table, waitQ, ready>>
  BY DEF Environment, Tick, Notice, Send, LeaveLoop, Signal, Up, generator, processes, loop,
         cpu, pcb, memory
<1>3. \A p \in Id : IsForked(p)' <=> IsForked(p)
  BY DEF Environment, Tick, Notice, Send, LeaveLoop, Signal, Up, processes, IsForked, Runs,
         SimInv, SimTypeOK
<1>. QED  BY <1>1, <1>2, <1>3, StagesKept

\* Who is received arrives, once, with all of its run time left.
LEMMA PollArrives ==
  ASSUME NEW H, NEW L, SimInv(H, L), Poll
  PROVE  [Abstract!Next]_(Abstract!vars)
<1>1. SimInv(H, L)'
  BY PollKeeps
<1>2. CASE PollEmpty
  BY <1>1, <1>2, StagesKept DEF Poll, PollEmpty, processes, IsForked, memory
<1>3. ASSUME NEW p \in Id, ReceiveReady(p) \/ ReceiveWaiting(p)
      PROVE  Abstract!Next
  <2>1. msgq \in Queue /\ msgq # <<>> /\ p = Head(msgq)
        /\ rem' = [rem EXCEPT ![p] = job.run[p]] /\ job' = job /\ child' = child
        /\ table' = table \cup {p}
    BY <1>3 DEF ReceiveReady, ReceiveWaiting, Receive, SimInv, Placed, Poll, processes
  <2>2. p \in Range(msgq)
    BY <2>1, TailQueue
  <2>3. p \notin table /\ ~IsForked(p) /\ p \notin Range(waitQ) /\ p \notin Range(ready)
        /\ waitQ \in Queue /\ ready \in Queue
    BY <2>2 DEF SimInv, Placed, IsForked
  <2>4. \/ Range(waitQ') = Range(waitQ) \cup {p} /\ Range(ready') = Range(ready)
        \/ Range(waitQ') = Range(waitQ) /\ Range(ready') = Range(ready) \cup {p}
    BY <1>3, <2>3, EnqueueQueue, AppendQueue DEF ReceiveReady, ReceiveWaiting
  <2>5. StagesAre(H) /\ StagesAre(H)'
    BY <1>1, StagesFromPlaces DEF SimInv
  <2>6. Stage(p) = "outside" /\ Stage(p)' \in {"memory", "ready"}
    <3>1. Stage(p) \notin {"memory", "ready", "running", "finished"}
      BY <2>3, <2>5 DEF StagesAre, SimInv, Placed
    <3>2. Stage(p)' \in {"memory", "ready"}
      BY <2>4, <2>5 DEF StagesAre
    <3>. QED  BY <2>5, <3>1, <3>2 DEF StagesAre
  <2>7. \A q \in Id : q # p => Stage(q)' = Stage(q)
    BY <2>1, <2>4, <2>5 DEF StagesAre, IsForked
  <2>8. Abstract!Arrive(p)
    BY <2>1, <2>6, <2>7 DEF Abstract!Arrive, Abstract!Move
  <2>. QED  BY <2>8 DEF Abstract!Next
<1>. QED  BY <1>2, <1>3 DEF Poll

\* The handler finishes the process that has the CPU and has nothing left, and lets
\* in who waited for memory.
LEMMA HandlerFinishes ==
  ASSUME NEW L, SimInv({cur} \cap Id, L), processTerminate
  PROVE  Abstract!Next
<1>1. SimInv({}, L)'
  BY HandlerKeeps
<1>2. cur \in table /\ cur \in Id /\ IsForked(cur) /\ rem[cur] = 0
  BY DEF processTerminate, SimInv, CurrentCounts, SimTypeOK, NoEarlyFinish
<1>3. UNCHANGED <<job, rem, child>> /\ table' = table \ {cur}
  BY <1>2 DEF processTerminate, processes
<1>4. PICK s : /\ QueuesAfter(s, Len(waitQ)) /\ Asked(Len(waitQ)) = Range(waitQ)
               /\ waitQ' = s.waitQ /\ ready' = s.ready
  BY <1>2, ScannedQueues DEF processTerminate, SimInv, Placed
<1>5. /\ Range(waitQ') \cap Range(ready') = {}
      /\ Range(waitQ') \cup Range(ready') = Range(waitQ) \cup Range(ready)
      /\ Range(waitQ') \subseteq Range(waitQ)
  BY <1>4 DEF QueuesAfter
<1>6. PICK p \in Id : p = cur
  BY <1>2
<1>7. StagesAre({p}) /\ StagesAre({})'
  BY <1>1, <1>6, StagesFromPlaces DEF SimInv
<1>. DEFINE in == {q \in Id : Stage(q) = "memory" /\ Stage(q)' = "ready"}
<1>8. Stage(p) = "running" /\ Stage(p)' = "finished"
  BY <1>2, <1>3, <1>6, <1>7 DEF StagesAre, IsForked
<1>9. \A q \in Id : q # p => Stage(q)' = IF q \in in THEN "ready" ELSE Stage(q)
  BY <1>3, <1>5, <1>6, <1>7 DEF StagesAre, IsForked
<1>10. Abstract!Finish(p)
  BY <1>2, <1>3, <1>6, <1>8, <1>9 DEF Abstract!Finish
<1>. QED  BY <1>10 DEF Abstract!Next

\* A process taken out of the ready queue has the CPU, alone.
LEMMA TakenOutIsDispatched ==
  ASSUME NEW L, NEW p \in Id, SimInv({}, L), SimInv({p}, L)',
         p \in Range(ready), Range(ready') = Range(ready) \ {p},
         UNCHANGED <<job, rem, table, waitQ>>,
         \A q \in Id \ table : IsForked(q)' <=> IsForked(q)
  PROVE  Abstract!Next
<1>1. StagesAre({}) /\ StagesAre({p})'
  BY StagesFromPlaces DEF SimInv
<1>2. Stage(p) = "ready" /\ Stage(p)' = "running" /\ \A q \in Id : Stage(q) # "running"
  BY <1>1 DEF StagesAre
<1>3. \A q \in Id : q # p => Stage(q)' = Stage(q)
  BY <1>1 DEF StagesAre
<1>4. Abstract!Dispatch(p)
  BY <1>2, <1>3 DEF Abstract!Dispatch, Abstract!Move
<1>. QED  BY <1>4 DEF Abstract!Next

\* A process put back into the ready queue gives the CPU back with something left.
LEMMA PutBackIsPreempted ==
  ASSUME NEW L, NEW p \in Id, SimInv({p}, L), SimInv({}, L)', rem[p] > 0,
         Range(ready') = Range(ready) \cup {p},
         UNCHANGED <<job, rem, table, waitQ>>,
         \A q \in Id \ table : IsForked(q)' <=> IsForked(q)
  PROVE  Abstract!Next
<1>1. StagesAre({p}) /\ StagesAre({})'
  BY StagesFromPlaces DEF SimInv
<1>2. Stage(p) = "running" /\ Stage(p)' = "ready"
  BY <1>1 DEF StagesAre
<1>3. \A q \in Id : q # p => Stage(q)' = Stage(q)
  BY <1>1 DEF StagesAre
<1>4. Abstract!Preempt(p)
  BY <1>2, <1>3 DEF Abstract!Preempt, Abstract!Move
<1>. QED  BY <1>4 DEF Abstract!Next

\* A decrement is a second of the CPU.
LEMMA ChargedRuns ==
  ASSUME NEW L, NEW p, SimInv({p}, L), SimInv({p}, L)', pc \notin L, p = cur, ~cpuFree,
         Decrement, UNCHANGED <<job, table, waitQ, ready, child>>
  PROVE  Abstract!Next
<1>1. p \in table /\ p \in Id /\ rem[p] > 0
  BY DEF SimInv, CurrentCounts, TimeLeft, SimTypeOK
<1>2. StagesAre({p}) /\ StagesAre({p})'
  BY StagesFromPlaces DEF SimInv
<1>3. Stage(p) = "running" /\ \A q \in Id : Stage(q)' = Stage(q)
  BY <1>1, <1>2 DEF StagesAre, IsForked
<1>4. Abstract!Run(p)
  BY <1>1, <1>3 DEF Abstract!Run, Decrement
<1>. QED  BY <1>1, <1>4 DEF Abstract!Next

\* Nobody has arrived in the first state.
LEMMA InitMaps == SimInit => Abstract!Init
<1>. SUFFICES ASSUME SimInit PROVE Abstract!Init
  OBVIOUS
<1>1. \A p \in Id : Stage(p) = "outside"
  BY EmptyQueue DEF SimInit, Stage, Finished
<1>. QED  BY <1>1 DEF SimInit, Abstract!Init

-----------------------------------------------------------------------------
(* The time a process spends in the system, in a prompt job.               *)

\* By how much the seconds that p was charged exceed those between its arrival and t
\* that it did not wait.
Ahead(p, t) == job.run[p] - rem[p] - (t - job.arrival[p] - wait[p])

\* The second that has begun is noticed, and charged.
UpToDate == prevClk = clk /\ pc # "dec"

\* Nobody is charged before the fork.  Whoever was dispatched in a second that was
\* still to be counted is charged for it, and so is one second ahead from then on.  A
\* process that is stopped has its time stand still.
Account(p) ==
  IF ~IsForked(p) THEN rem[p] = job.run[p]
  ELSE IF halted[p] THEN Ahead(p, lastClk[p]) \in {0, 1}
  ELSE Ahead(p, clk) \in IF UpToDate THEN {0, 1} ELSE {-1, 0}

\* The accounts of all that are in the process table.  C is the set of places from
\* the charge of a second to the switch that follows it: no prompt clock ticks there;
\* and none ticks while the CPU is free and a stopped process could have it.
Accounts(C) ==
  job.prompt /\ pc # "crashed" =>
    /\ pc \in C => prevClk = clk
    /\ cpuFree /\ prevClk # clk => \A p \in table : ~halted[p]
    /\ \A p \in table : Account(p)
    /\ pc = "done" => table = {}

\* In the first state nobody is in the table.
LEMMA AccountsInit == ASSUME NEW C, "receive" \notin C, SimInit PROVE Accounts(C)
BY DEF SimInit, Accounts

\* The numbers are numbers.
LEMMA TimesTyped ==
  ASSUME SimTypeOK, NEW p \in Id
  PROVE  /\ job.run[p] \in Int /\ job.arrival[p] \in Int
         /\ rem[p] \in Int /\ wait[p] \in Int /\ lastClk[p] \in Int
         /\ clk \in Int /\ prevClk \in Int
<1>1. job.run[p] \in Nat /\ job.arrival[p] \in Nat
  BY JobsAssumption DEF SimTypeOK
<1>2. rem[p] \in Int /\ wait[p] \in Int /\ lastClk[p] \in Nat
  BY DEF SimTypeOK
<1>3. clk \in Int /\ prevClk \in Int
  BY MaxClkAssumption DEF SimTypeOK
<1>. QED  BY ONLY <1>1, <1>2, <1>3

\* A step that does not concern p.
LEMMA AccountKept ==
  ASSUME NEW p, Account(p), UNCHANGED <<job, clk>>, child'[p] # "none" <=> child[p] # "none",
         rem'[p] = rem[p], halted'[p] = halted[p], lastClk'[p] = lastClk[p], wait'[p] = wait[p],
         IsForked(p) /\ ~halted[p] => (UpToDate' <=> UpToDate)
  PROVE  Account(p)'
BY DEF Account, IsForked, Ahead

\* A step of the loop that nobody's account is about.
LEMMA TestAccounts ==
  ASSUME NEW C, Accounts(C), pc # "crashed", pc' = "dec" <=> pc = "dec",
         pc' \in C => pc \in C, job.prompt /\ pc' = "done" => table = {},
         UNCHANGED <<job, clk, prevClk, cpuFree, child, halted, table, rem, lastClk, wait>>
  PROVE  Accounts(C)'
<1>. SUFFICES ASSUME job.prompt
              PROVE  /\ pc' \in C => prevClk' = clk'
                     /\ cpuFree' /\ prevClk' # clk' => \A p \in table' : ~halted'[p]
                     /\ \A p \in table' : Account(p)'
                     /\ pc' = "done" => table' = {}
  BY DEF Accounts
<1>1. UpToDate' <=> UpToDate
  BY DEF UpToDate
<1>2. \A p \in table' : Account(p)'
  BY <1>1, AccountKept DEF Accounts
<1>. QED  BY <1>2 DEF Accounts

\* A prompt clock ticks while the current process runs and everybody else sleeps, or
\* while nobody could have the CPU, or when all is over.
LEMMA EnvironmentAccounts ==
  ASSUME NEW C, NEW H, NEW L, SimInv(H, L), Accounts(C), Environment,
         C \cap {"receive", "dispatch", "tick", "end", "done"} = {},
         cpuFree /\ pc \in {"receive", "dispatch", "tick", "end"} => H = {}
  PROVE  Accounts(C)'
<1>. USE DEF generator, processes, loop, cpu, pcb, memory
<1>1. UNCHANGED <<job, halted, pc, prevClk, cpuFree, cur, ready, waitQ, table, rem, lastClk, wait>>
  BY DEF Environment, Tick, Notice, Send, LeaveLoop, Signal, Up
<1>. SUFFICES ASSUME job.prompt, pc # "crashed"
              PROVE  /\ pc' \in C => prevClk' = clk'
                     /\ cpuFree' /\ prevClk' # clk' => \A p \in table' : ~halted'[p]
                     /\ \A p \in table' : Account(p)'
                     /\ pc' = "done" => table' = {}
  BY <1>1 DEF Accounts
<1>2. SimTypeOK /\ table \subseteq Id
  BY DEF SimInv, SimTypeOK
<1>3. \A p \in table : Account(p)
  BY DEF Accounts
<1>4. CASE Notice \/ Send \/ \E p \in Id : LeaveLoop(p) \/ Signal(p) \/ Up(p)
  <2>1. clk' = clk
    BY <1>4 DEF Notice, Send, LeaveLoop, Signal, Up
  <2>2. \A p \in Id : child'[p] # "none" <=> child[p] # "none"
    BY <1>2, <1>4 DEF Notice, Send, LeaveLoop, Signal, Up, Runs, SimTypeOK
  <2>3. UpToDate' <=> UpToDate
    BY <1>1, <2>1 DEF UpToDate
  <2>4. ASSUME NEW p \in table' PROVE Account(p)'
    BY <1>1, <1>2, <1>3, <2>1, <2>2, <2>3, AccountKept
  <2>. QED  BY <1>1, <2>1, <2>4 DEF Accounts
<1>5. CASE Tick
  <2>1. clk' = clk + 1 /\ child' = child /\ Quiet
    BY <1>5 DEF Tick
  <2>2. CASE pc = "done"
    BY <1>1, <2>2 DEF Accounts
  <2>3. CASE pc # "done"
    <3>1. prevClk = clk /\ pc \in {"receive", "dispatch", "tick", "end"} /\ (cpuFree => ready = <<>>)
      BY <2>1, <2>3 DEF Quiet, Stopped
    <3>2. prevClk' # clk' /\ pc' \notin C
      BY <1>1, <1>2, <2>1, <3>1, MaxClkAssumption DEF SimTypeOK
    <3>3. \A p \in table : cpuFree \/ p # cur => Asleep(p)
      BY DEF SimInv, OnlyCurrentRuns
    <3>4. ASSUME cpuFree, NEW p \in table PROVE ~IsForked(p) /\ ~halted[p]
      <4>1. H = {} /\ ready = <<>>
        BY <3>1, <3>4
      <4>2. p \in Range(waitQ)
        BY <3>4, <4>1, EmptyQueue DEF SimInv, Placed
      <4>. QED  BY <1>2, <4>2 DEF SimInv, Placed, OnlyCurrentRuns, IsForked
    <3>5. ASSUME NEW p \in table PROVE Account(p)'
      <4>1. CASE ~IsForked(p) \/ halted[p]
        <5>1. Account(p)
          BY <1>3
        <5>. QED  BY <1>1, <2>1, <4>1, <5>1 DEF Account, IsForked, Ahead
      <4>2. CASE IsForked(p) /\ ~halted[p]
        <5>1. Ahead(p, clk) \in {0, 1}
          BY <1>3, <3>1, <4>2 DEF Account, UpToDate
        <5>2. Ahead(p, clk)' = Ahead(p, clk) - 1
          <6>1. /\ job.run[p] \in Int /\ job.arrival[p] \in Int /\ rem[p] \in Int
                /\ wait[p] \in Int /\ clk \in Int
            BY <1>2, TimesTyped
          <6>2. Ahead(p, clk)' = job.run[p] - rem[p] - ((clk + 1) - job.arrival[p] - wait[p])
            BY <1>1, <2>1 DEF Ahead
          <6>. QED  BY ONLY <6>1, <6>2 DEF Ahead
        <5>3. Ahead(p, clk)' \in {-1, 0}
          BY ONLY <5>1, <5>2
        <5>4. IsForked(p)' /\ ~halted'[p] /\ ~UpToDate'
          BY <1>1, <2>1, <3>2, <4>2 DEF IsForked, UpToDate
        <5>. QED  BY <5>3, <5>4 DEF Account
      <4>. QED  BY <4>1, <4>2
    <3>. QED  BY <1>1, <2>3, <3>2, <3>4, <3>5
  <2>. QED  BY <2>2, <2>3
<1>. QED  BY <1>4, <1>5 DEF Environment

\* A received process was not charged and does not run.
LEMMA PollAccounts ==
  ASSUME NEW C, NEW H, NEW L, SimInv(H, L), Accounts(C), Poll, pc \notin {"crashed", "done"}
  PROVE  Accounts(C)'
<1>. USE DEF generator, processes, loop, cpu, pcb, memory
<1>1. UNCHANGED <<job, clk, child, halted, pc, prevClk, cpuFree, lastClk, wait>>
  BY DEF Poll
<1>2. UpToDate' <=> UpToDate
  BY <1>1 DEF UpToDate
<1>. SUFFICES ASSUME job.prompt
              PROVE  /\ cpuFree /\ prevClk # clk => \A p \in table' : ~halted[p]
                     /\ \A p \in table' : Account(p)'
  BY <1>1 DEF Accounts
<1>3. CASE PollEmpty
  <2>1. UNCHANGED <<table, rem>>
    BY <1>3 DEF PollEmpty
  <2>. QED  BY <1>1, <1>2, <2>1, AccountKept DEF Accounts
<1>4. ASSUME NEW p \in Id, Receive(p)
      PROVE  /\ cpuFree /\ prevClk # clk => \A q \in table' : ~halted[q]
             /\ \A q \in table' : Account(q)'
  <2>1. /\ msgq \in Queue /\ msgq # <<>> /\ p = Head(msgq)
        /\ table' = table \cup {p} /\ rem' = [rem EXCEPT ![p] = job.run[p]]
    BY <1>4 DEF Receive, SimInv, Placed
  <2>2. child[p] = "none" /\ p \notin table
    BY <2>1, TailQueue DEF SimInv, Placed
  <2>3. ~halted[p]
    BY <2>2 DEF SimInv, OnlyCurrentRuns
  <2>4. table \subseteq Id /\ rem \in [Id -> Int]
    BY DEF SimInv, SimTypeOK
  <2>5. ASSUME NEW q \in table PROVE Account(q)'
    <3>1. rem'[q] = rem[q] /\ Account(q)
      BY <2>1, <2>2, <2>4 DEF Accounts
    <3>. QED  BY <1>1, <1>2, <3>1, AccountKept
  <2>6. Account(p)'
    BY <1>1, <2>1, <2>2, <2>4 DEF Account, IsForked
  <2>. QED  BY <2>1, <2>3, <2>5, <2>6 DEF Accounts
<1>. QED  BY <1>3, <1>4 DEF Poll, ReceiveReady, ReceiveWaiting

\* The handler runs in the stretch C, and closes the account of the current process.
LEMMA HandlerAccounts ==
  ASSUME NEW C, NEW L, SimInv({cur} \cap Id, L), Accounts(C), processTerminate,
         L \subseteq C \cup {"crashed"}, "done" \notin L
  PROVE  Accounts(C)'
<1>. USE DEF generator, processes, loop
<1>1. sig /\ cur \in table /\ pc \in L /\ pc # "crashed" /\ pc # "done"
  BY DEF processTerminate, SimInv, CurrentCounts, Stopped
<1>2. /\ UNCHANGED <<job, clk, child, halted, pc, prevClk, rem, lastClk, wait>>
      /\ table' \subseteq table
  BY <1>1 DEF processTerminate
<1>3. UpToDate' <=> UpToDate
  BY <1>2 DEF UpToDate
<1>. SUFFICES ASSUME job.prompt
              PROVE  prevClk = clk /\ \A p \in table' : Account(p)'
  BY <1>1, <1>2 DEF Accounts
<1>4. prevClk = clk /\ \A p \in table : Account(p)
  BY <1>1 DEF Accounts
<1>. QED  BY <1>2, <1>3, <1>4, AccountKept

\* A new second is noticed: it is charged next, if there is somebody to charge; and
\* otherwise everybody is new.
LEMMA SecondAccounts ==
  ASSUME NEW C, NEW H, NEW L, SimInv(H, L), Accounts(C), pc # "crashed", prevClk # clk,
         prevClk' = clk, pc' # "done", cpuFree \/ pc' = "dec",
         UNCHANGED <<job, clk, cpuFree, child, halted, table, rem, lastClk, wait>>
  PROVE  Accounts(C)'
<1>. SUFFICES ASSUME job.prompt, NEW p \in table PROVE Account(p)'
  BY DEF Accounts
<1>1. Account(p) /\ (cpuFree => ~halted[p])
  BY DEF Accounts
<1>2. cpuFree => ~IsForked(p)
  BY <1>1 DEF SimInv, OnlyCurrentRuns, Asleep, IsForked
<1>3. ~cpuFree => ~UpToDate /\ ~UpToDate'
  BY DEF UpToDate
<1>. QED  BY <1>1, <1>2, <1>3, AccountKept

\* Whoever is started has waited since it arrived, and whoever is resumed since it
\* was stopped.
LEMMA GivenAccounts ==
  ASSUME NEW C, NEW H, NEW L, NEW p \in table, SimInv(H, L), Accounts(C), cpuFree,
         StartOrResume(p), cpuFree' = FALSE, pc \notin {"crashed", "dec"}, pc' # "dec",
         pc' \notin C, pc' # "done", UNCHANGED <<job, clk, prevClk, table, rem, lastClk>>
  PROVE  Accounts(C)'
<1>. SUFFICES ASSUME job.prompt PROVE \A q \in table : Account(q)'
  BY DEF Accounts
<1>1. SimTypeOK /\ p \in Id /\ table \subseteq Id
  BY DEF SimInv, SimTypeOK
<1>2. \A q \in table : Account(q)
  BY DEF Accounts
<1>3. Asleep(p)
  BY DEF SimInv, OnlyCurrentRuns
<1>4. UpToDate' <=> UpToDate
  BY DEF UpToDate
<1>5. /\ job.run[p] \in Int /\ job.arrival[p] \in Int /\ rem[p] \in Int /\ wait[p] \in Int
      /\ lastClk[p] \in Int /\ clk \in Int
  BY <1>1, TimesTyped
<1>6. \A q \in Id : q # p => child'[q] = child[q] /\ halted'[q] = halted[q] /\ wait'[q] = wait[q]
  BY <1>1 DEF StartOrResume, SimTypeOK
<1>7. ASSUME NEW q \in table, q # p PROVE Account(q)'
  BY <1>1, <1>2, <1>4, <1>6, <1>7, AccountKept
<1>8. CASE IsForked(p)
  <2>1. halted[p]
    BY <1>3, <1>8 DEF Asleep, IsForked
  <2>2. prevClk = clk
    BY <2>1 DEF Accounts
  <2>3. Ahead(p, lastClk[p]) \in {0, 1}
    BY <1>2, <1>8, <2>1 DEF Account
  <2>4. child' = child /\ ~halted'[p] /\ wait'[p] = wait[p] + clk - lastClk[p]
    BY <1>1, <1>8 DEF StartOrResume, SimTypeOK
  <2>5. Ahead(p, clk)' = Ahead(p, lastClk[p])
    <3>1. Ahead(p, clk)' =
            job.run[p] - rem[p] - (clk - job.arrival[p] - (wait[p] + clk - lastClk[p]))
      BY <2>4 DEF Ahead
    <3>. QED  BY ONLY <1>5, <3>1 DEF Ahead
  <2>6. IsForked(p)' /\ UpToDate'
    BY <1>8, <2>2, <2>4 DEF IsForked, UpToDate
  <2>7. Account(p)'
    BY <2>3, <2>4, <2>5, <2>6 DEF Account
  <2>. QED  BY <1>7, <2>7
<1>9. CASE ~IsForked(p)
  <2>1. rem[p] = job.run[p]
    BY <1>2, <1>9 DEF Account
  <2>2. ~halted[p]
    BY <1>1, <1>9 DEF SimInv, OnlyCurrentRuns, IsForked
  <2>3. child'[p] = "spin" /\ ~halted'[p] /\ wait'[p] = clk - job.arrival[p]
    BY <1>1, <1>9, <2>2 DEF StartOrResume, SimTypeOK
  <2>4. Ahead(p, clk)' = 0
    <3>1. Ahead(p, clk)' =
            job.run[p] - job.run[p] - (clk - job.arrival[p] - (clk - job.arrival[p]))
      BY <2>1, <2>3 DEF Ahead
    <3>. QED  BY ONLY <1>5, <3>1
  <2>5. Account(p)'
    BY <2>3, <2>4 DEF Account, IsForked
  <2>. QED  BY <1>7, <2>5
<1>. QED  BY <1>8, <1>9

\* Whoever is stopped after the charge has its account stand still at this second.
LEMMA TakenAccounts ==
  ASSUME NEW C, NEW H, NEW L, NEW p \in table, SimInv(H, L), Accounts(C), p = cur, ~cpuFree,
         Stop(p), pc \in C, pc \notin {"crashed", "dec"}, pc' # "dec", pc' # "done",
         UNCHANGED <<job, clk, prevClk, child, table, rem, wait>>
  PROVE  Accounts(C)'
<1>1. SimTypeOK /\ p \in Id /\ table \subseteq Id
  BY DEF SimInv, SimTypeOK
<1>. SUFFICES ASSUME job.prompt PROVE prevClk = clk /\ \A q \in table : Account(q)'
  BY DEF Accounts
<1>2. prevClk = clk /\ \A q \in table : Account(q)
  BY DEF Accounts
<1>3. UpToDate /\ UpToDate'
  BY <1>2 DEF UpToDate
<1>4. /\ lastClk'[p] = clk /\ halted'[p]
      /\ \A q \in Id : q # p => lastClk'[q] = lastClk[q] /\ halted'[q] = halted[q]
  BY <1>1 DEF Stop, SimTypeOK
<1>5. ASSUME NEW q \in table, q # p PROVE Account(q)'
  BY <1>1, <1>2, <1>3, <1>4, <1>5, AccountKept
<1>6. Account(p)'
  <2>1. IsForked(p) /\ ~halted[p]
    BY DEF SimInv, CurrentCounts
  <2>2. Ahead(p, clk) \in {0, 1}
    BY <1>2, <1>3, <2>1 DEF Account
  <2>3. Ahead(p, lastClk[p])' = Ahead(p, clk)
    BY <1>4 DEF Ahead
  <2>. QED  BY <1>4, <2>1, <2>2, <2>3 DEF Account, IsForked
<1>. QED  BY <1>2, <1>5, <1>6

\* The charge of the second.
LEMMA ChargeAccounts ==
  ASSUME NEW C, NEW H, NEW L, SimInv(H, L), Accounts(C), ~cpuFree, Decrement,
         pc = "dec", "dec" \in C, pc' # "dec", pc' # "done",
         UNCHANGED <<job, clk, prevClk, cpuFree, child, halted, table, lastClk, wait>>
  PROVE  Accounts(C)'
<1>1. SimTypeOK /\ table \subseteq Id /\ cur \in table /\ cur \in Id /\ IsForked(cur) /\ ~halted[cur]
  BY DEF SimInv, SimTypeOK, CurrentCounts
<1>. SUFFICES ASSUME job.prompt PROVE prevClk = clk /\ \A q \in table : Account(q)'
  BY DEF Accounts
<1>2. prevClk = clk /\ \A q \in table : Account(q)
  BY DEF Accounts
<1>3. ~UpToDate /\ UpToDate'
  BY <1>2 DEF UpToDate
<1>4. rem'[cur] = rem[cur] - 1 /\ \A q \in Id : q # cur => rem'[q] = rem[q]
  BY <1>1 DEF Decrement, SimTypeOK
<1>5. ASSUME NEW q \in table, q # cur PROVE Account(q)'
  <2>1. ~IsForked(q) \/ halted[q]
    BY <1>5 DEF SimInv, OnlyCurrentRuns, Asleep, IsForked
  <2>. QED  BY <1>1, <1>2, <1>4, <1>5, <2>1, AccountKept
<1>7. PICK p : p = cur
  OBVIOUS
<1>6. Account(p)'
  <2>1. Ahead(p, clk) \in {-1, 0}
    BY <1>1, <1>2, <1>3, <1>7 DEF Account
  <2>2. /\ job.run[p] \in Int /\ job.arrival[p] \in Int /\ rem[p] \in Int /\ wait[p] \in Int
        /\ clk \in Int
    BY <1>1, <1>7, TimesTyped
  <2>3. (job.run[p] - rem'[p] - (clk - job.arrival[p] - wait[p])) = Ahead(p, clk) + 1
    <3>1. rem'[p] = rem[p] - 1
      BY <1>4, <1>7
    <3>. QED  BY ONLY <2>2, <3>1 DEF Ahead
  <2>4. (job.run[p] - rem'[p] - (clk - job.arrival[p] - wait[p])) \in {0, 1}
    BY ONLY <2>1, <2>3
  <2>5. Ahead(p, clk)' \in {0, 1}
    BY <2>4 DEF Ahead
  <2>. QED  BY <1>1, <1>3, <1>7, <2>5 DEF Account, IsForked
<1>. QED  BY <1>2, <1>5, <1>6, <1>7

\* When the handler is due, the second is charged and nothing is left.
LEMMA TurnaroundHolds ==
  ASSUME NEW C, NEW H, NEW L, SimInv(H, L), Accounts(C), L \subseteq C \cup {"crashed"},
         "dec" \notin L, pc = "crashed" => cur \notin Id
  PROVE  TurnaroundIsWaitAndRun
<1>. SUFFICES ASSUME job.prompt, sig, cur \in Id
              PROVE  clk - job.arrival[cur] - wait[cur] \in {job.run[cur] - 1, job.run[cur]}
  BY DEF TurnaroundIsWaitAndRun
<1>1. /\ pc \in L /\ ~cpuFree /\ cur \in table /\ ~halted[cur] /\ IsForked(cur)
      /\ child[cur] \in {"up", "gone"} /\ SimTypeOK
  BY DEF SimInv, CurrentCounts
<1>2. rem[cur] = 0
  BY <1>1 DEF SimInv, NoEarlyFinish
<1>3. UpToDate /\ Account(cur)
  BY <1>1 DEF Accounts, UpToDate
<1>4. Ahead(cur, clk) \in {0, 1}
  BY <1>1, <1>3 DEF Account
<1>5. PICK r \in Int, a \in Int, w \in Int, t \in Int :
        r = job.run[cur] /\ a = job.arrival[cur] /\ w = wait[cur] /\ t = clk
  BY <1>1, TimesTyped
<1>6. r - 0 - (t - a - w) \in {0, 1}
  BY <1>2, <1>4, <1>5 DEF Ahead
<1>7. t - a - w \in {r - 1, r}
  BY ONLY <1>6, r \in Int, a \in Int, w \in Int, t \in Int
<1>. QED  BY <1>5, <1>7
-----------------------------------------------------------------------------
(* What has happened.                                                      *)

\* Only a process that spins is stopped, and nobody is sent before its arrival, stopped
\* after now, or charged for waiting less than not at all.
Past ==
  /\ \A p \in Id : child[p] \in {"kill", "up", "gone"} => ~halted[p]
  /\ gen = "send" => sent < N /\ job.arrival[sent + 1] <= clk
  /\ \A p \in Range(msgq) \cup table : job.arrival[p] <= clk
  /\ \A p \in Id : lastClk[p] <= clk /\ wait[p] >= 0

\* In the first state nothing has happened.
LEMMA PastInit == ASSUME SimInit PROVE Past
BY EmptyQueue DEF SimInit, Past

\* A step that nothing of this is about.
LEMMA TestPast ==
  ASSUME Past, table' \subseteq table,
         UNCHANGED <<job, clk, gen, sent, msgq, child, halted, lastClk, wait>>
  PROVE  Past'
BY DEF Past

\* The clock goes forward, the generator sends whom it has seen arrive, and a process
\* that acts is not stopped.
LEMMA EnvironmentPast ==
  ASSUME SimTypeOK, msgq \in Queue, Past, Environment
  PROVE  Past'
<1>. USE DEF generator, processes, loop, cpu, pcb, memory
<1>1. /\ job \in Jobs /\ clk \in Int /\ sent \in Int /\ sent \in 0 .. N
      /\ table \subseteq Id /\ child \in [Id -> {"none", "spin", "kill", "up", "gone"}]
      /\ \A p \in Id : lastClk[p] \in Int
  BY MaxClkAssumption DEF SimTypeOK
<1>2. \A p \in Id : job.arrival[p] \in Int
  BY <1>1, JobsAssumption
<1>3. msgq \in Seq(Id) /\ Range(msgq) \subseteq Id
  BY ElementOfSeq, LenProperties DEF Queue, Range
<1>4. sent < N => sent + 1 \in Id
  BY <1>1, NAssumption DEF Id
<1>5. UNCHANGED <<job, halted, table, lastClk, wait>>
  BY DEF Environment, Tick, Notice, Send, LeaveLoop, Signal, Up
<1>6. CASE Tick
  <2>1. clk' = clk + 1 /\ UNCHANGED <<gen, sent, msgq, child>>
    BY <1>6 DEF Tick
  <2>2. \A t \in Int : t <= clk => t <= clk + 1
    BY <1>1
  <2>. QED  BY <1>1, <1>2, <1>3, <1>4, <1>5, <2>1, <2>2 DEF Past
<1>7. CASE Notice
  BY <1>1, <1>2, <1>4, <1>5, <1>7 DEF Notice, Past
<1>8. CASE Send
  <2>1. /\ gen = "send" /\ gen' = "watch" /\ msgq' = Append(msgq, sent + 1)
        /\ UNCHANGED <<clk, child>>
    BY <1>8 DEF Send
  <2>2. sent < N /\ job.arrival[sent + 1] <= clk
    BY <2>1 DEF Past
  <2>3. Range(msgq') = Range(msgq) \cup {sent + 1}
    BY <1>3, <1>4, <2>1, <2>2, AppendRange
  <2>. QED  BY <1>5, <2>1, <2>2, <2>3 DEF Past
<1>9. ASSUME NEW p \in Id, LeaveLoop(p) \/ Signal(p) \/ Up(p) PROVE Past'
  <2>1. UNCHANGED <<clk, gen, sent, msgq>> /\ ~halted[p]
    BY <1>9 DEF LeaveLoop, Signal, Up, Runs
  <2>2. \A q \in Id : q # p => child'[q] = child[q]
    BY <1>1, <1>9 DEF LeaveLoop, Signal, Up
  <2>. QED  BY <1>5, <2>1, <2>2 DEF Past
<1>. QED  BY <1>6, <1>7, <1>8, <1>9 DEF Environment

\* Whoever is received had arrived.
LEMMA PollPast ==
  ASSUME msgq \in Queue, Past, Poll
  PROVE  Past'
<1>. USE DEF generator, processes, cpu
<1>1. UNCHANGED <<job, clk, gen, sent, child, halted, lastClk, wait>>
  BY DEF Poll
<1>2. CASE PollEmpty
  BY <1>1, <1>2 DEF PollEmpty, Past, pcb
<1>3. ASSUME NEW p \in Id, Receive(p) PROVE Past'
  <2>1. /\ msgq # <<>> /\ p = Head(msgq) /\ msgq' = Tail(msgq) /\ table' = table \cup {p}
    BY <1>3 DEF Receive
  <2>2. p \in Range(msgq) /\ Range(msgq') \subseteq Range(msgq)
    BY <2>1, TailQueue
  <2>. QED  BY <1>1, <2>1, <2>2 DEF Past
<1>. QED  BY <1>2, <1>3 DEF Poll, ReceiveReady, ReceiveWaiting

\* Whoever is started arrived before, and whoever is resumed was stopped before.
LEMMA GivenPast ==
  ASSUME SimTypeOK, Past, NEW p \in table, StartOrResume(p),
         UNCHANGED <<job, clk, gen, sent, msgq, table, lastClk>>
  PROVE  Past'
<1>1. p \in Id /\ child \in [Id -> {"none", "spin", "kill", "up", "gone"}]
      /\ halted \in [Id -> BOOLEAN] /\ wait \in [Id -> Int]
  BY DEF SimTypeOK
<1>2. \A q \in Id : q # p => child'[q] = child[q] /\ halted'[q] = halted[q] /\ wait'[q] = wait[q]
  BY <1>1 DEF StartOrResume
<1>3. child'[p] \in {"kill", "up", "gone"} => ~halted'[p]
  BY <1>1 DEF StartOrResume, Past
<1>4. PICK a \in Int, w \in Int, l \in Int, t \in Int :
        a = job.arrival[p] /\ w = wait[p] /\ l = lastClk[p] /\ t = clk
  BY <1>1, TimesTyped
<1>5. a <= t /\ l <= t /\ w >= 0
  BY <1>1, <1>4 DEF Past
<1>6. wait'[p] = w + t - l \/ wait'[p] = t - a
  BY <1>1, <1>4 DEF StartOrResume
<1>7. wait'[p] >= 0
  BY ONLY <1>5, <1>6, a \in Int, w \in Int, l \in Int, t \in Int
<1>. QED  BY <1>2, <1>3, <1>7 DEF Past

\* A process is stopped now, while it spins.
LEMMA TakenPast ==
  ASSUME SimTypeOK, Past, NEW p \in Id, Stop(p), child[p] = "spin",
         UNCHANGED <<job, clk, gen, sent, msgq, child, table, wait>>
  PROVE  Past'
<1>1. halted \in [Id -> BOOLEAN] /\ lastClk \in [Id -> Nat] /\ clk \in Int
  BY MaxClkAssumption DEF SimTypeOK
<1>2. \A q \in Id : q # p => halted'[q] = halted[q] /\ lastClk'[q] = lastClk[q]
  BY <1>1 DEF Stop
<1>3. lastClk'[p] = clk
  BY <1>1 DEF Stop
<1>. QED  BY <1>1, <1>2, <1>3 DEF Past

-----------------------------------------------------------------------------
(* What follows for the end of a process.                                  *)

\* The loop waits in down only for a process that is on its way: it has left its loop
\* or can leave it now, and it is not stopped.  It is never the case that the scheduler
\* waits for the semaphore and the process for the scheduler.
DownIsAnswered ==
  pc = "down" /\ sem = 0 =>
    \E p \in Id : Runs(p, "kill") \/ Runs(p, "up") \/ (Runs(p, "spin") /\ shm <= 0)

\* With prompt processes, the end of a process is handled at the earliest one second
\* before its run time has passed since its arrival.
SecondEarlyAtMost ==
  job.prompt /\ sig /\ cur \in Id => clk - job.arrival[cur] >= job.run[cur] - 1

\* Between its last second and the semaphore a process is never stopped.
LEMMA DownHolds ==
  ASSUME NEW H, NEW L, SimInv(H, L), Past, "down" \in L
  PROVE  DownIsAnswered
<1>. SUFFICES ASSUME pc = "down", sem = 0
              PROVE  \E p \in Id : \/ Runs(p, "kill") \/ Runs(p, "up")
                                   \/ (Runs(p, "spin") /\ shm <= 0)
  BY DEF DownIsAnswered
<1>1. table \subseteq Id /\ child \in [Id -> {"none", "spin", "kill", "up", "gone"}]
  BY DEF SimInv, SimTypeOK
<1>2. CASE cpuFree
  <2>1. PICK p \in Id \ table : child[p] = "up"
    BY <1>2 DEF SimInv, CurrentCounts
  <2>. QED  BY <2>1 DEF Past, Runs
<1>3. CASE ~cpuFree
  <2>1. /\ cur \in Id /\ ~halted[cur] /\ child[cur] # "none"
        /\ shm = rem[cur] /\ child[cur] # "gone" /\ rem[cur] = 0
    BY <1>1, <1>3 DEF SimInv, CurrentCounts, IsForked
  <2>2. child[cur] \in {"spin", "kill", "up"} /\ shm <= 0
    BY <1>1, <2>1
  <2>. QED  BY <2>1, <2>2 DEF Runs
<1>. QED  BY <1>2, <1>3

\* A waiting time is no less than 0.
LEMMA SecondEarlyHolds ==
  ASSUME SimTypeOK, Past, TurnaroundIsWaitAndRun
  PROVE  SecondEarlyAtMost
<1>. SUFFICES ASSUME job.prompt, sig, cur \in Id
              PROVE  clk - job.arrival[cur] >= job.run[cur] - 1
  BY DEF SecondEarlyAtMost
<1>1. PICK r \in Int, a \in Int, w \in Int, t \in Int :
        r = job.run[cur] /\ a = job.arrival[cur] /\ w = wait[cur] /\ t = clk
  BY TimesTyped
<1>2. w >= 0 /\ t - a - w \in {r - 1, r}
  BY <1>1 DEF Past, TurnaroundIsWaitAndRun
<1>3. t - a >= r - 1
  BY ONLY <1>2, r \in Int, a \in Int, w \in Int, t \in Int
<1>. QED  BY <1>1, <1>3
-----------------------------------------------------------------------------
(* The signal at the end of a process.                                     *)

\* The handler takes the sender to be the current process, and it is: the signal that
\* is pending is of the current process, and no other process of the table has ended.
SignalIsOfCurrent ==
  sig /\ ~Stopped =>
    /\ cur \in table /\ child[cur] \in {"up", "gone"}
    /\ \A p \in table : p # cur => child[p] \in {"none", "spin"}

\* A second SIGUSR1 while one is pending would be lost: it is never sent.
SignalsOneByOne == [][\A p \in Id : Signal(p) => ~sig]_simVars

\* The current process has signalled when it is up or gone, and nobody else spins or
\* has left its loop.
LEMMA SignalsHold ==
  ASSUME NEW H, NEW L, SimInv(H, L)
  PROVE  SignalIsOfCurrent /\ \A p \in Id : Signal(p) => ~sig
<1>1. SignalIsOfCurrent
  BY DEF SignalIsOfCurrent, SimInv, CurrentCounts, OnlyCurrentRuns, NoEarlyFinish, Asleep
<1>2. ASSUME NEW p \in Id, Signal(p) PROVE ~sig
  <2>1. child[p] = "kill"
    BY <1>2 DEF Signal, Runs
  <2>2. p = cur /\ ~cpuFree /\ pc \in L
    BY <2>1, WhoRuns
  <2>. QED  BY <2>1, <2>2 DEF SimInv, CurrentCounts
<1>. QED  BY <1>1, <1>2
=============================================================================
