--------------------------- MODULE Memory_proofs ---------------------------
(***************************************************************************)
(* Proofs about the memory manager, for any number of lists, processes and *)
(* sizes.                                                                  *)
(***************************************************************************)
EXTENDS Memory, Buddy_proofs, FiniteSetTheorems

-----------------------------------------------------------------------------
(* Types.                                                                  *)

\* The list with the returned hole, and the index the merge loop looks around.
LEMMA MergeListType ==
  ASSUME TypeOK, pc = "merge"
  PROVE  /\ list \in Seq(Nat)
         /\ Len(list) = Len(free[level]) + 1
         /\ curr \in 1 .. Len(list)
         /\ level \in Order
<1>1. level \in Order /\ free[level] \in Seq(Nat) /\ hole \in Nat
  BY DEF TypeOK
<1>. DEFINE i == InsertIndex(free[level], hole)
<1>2. i \in 1 .. Len(free[level]) + 1 /\ Len(free[level]) \in Nat
  BY <1>1, InsertIndexFirst, LenProperties
<1>. HIDE DEF i
<1>3. list \in Seq(Nat) /\ Len(list) = Len(free[level]) + 1
  BY <1>1, InsertPairProperties DEF list
<1>4. curr = IF i = 1 THEN 1 ELSE i - 1
  BY DEF curr, ReturnedIndex, i
<1>. QED  BY <1>1, <1>2, <1>3, <1>4

\* A merge takes two neighbouring holes out of the list and carries on with
\* the address of the first.
LEMMA MergeFromType ==
  ASSUME TypeOK, pc = "merge", NEW k \in 1 .. Len(list) - 1, MergeFrom(k)
  PROVE  TypeOK'
<1>1. list \in Seq(Nat) /\ Len(list) \in Nat /\ level \in Order
  BY MergeListType, LenProperties
<1>. HIDE DEF list
<1>2. RemoveAt(list, k) \in Seq(Nat) /\ Len(RemoveAt(list, k)) = Len(list) - 1
  <2>1. k \in 1 .. Len(list)
    BY <1>1
  <2>. QED  BY <1>1, <2>1, RemoveAtProperties
<1>3. RemoveTwo(list, k) \in Seq(Nat)
  <2>1. k \in 1 .. Len(RemoveAt(list, k))
    BY <1>1, <1>2
  <2>. QED  BY <1>2, <2>1, RemoveAtProperties DEF RemoveTwo
<1>4. list[k] \in Nat
  BY <1>1, ElementOfSeq
<1>5. free' \in [Order -> Seq(Nat)] /\ hole' \in Nat
  BY <1>3, <1>4 DEF MergeFrom, TypeOK
<1>6. /\ level' \in 0 .. MaxOrder + 1
      /\ pc' \in {"merge", "scan"}
      /\ pc' = "merge" => level' \in Order
      /\ scan' = 1
  BY <1>1, MaxOrderAssumption DEF MergeFrom, Order
<1>7. /\ memsize' \in [Id -> Sizes] /\ new' \subseteq Id
      /\ block' \in [Id -> Block \cup {None}]
      /\ waitQ' = waitQ /\ waitQ' \in Seq(Id) /\ Len(waitQ') \in Nat
  BY LenProperties DEF MergeFrom, TypeOK
<1>. QED  BY <1>5, <1>6, <1>7 DEF TypeOK

\* Every action of the memory manager keeps the types of its fields, and the
\* positions that merge and scan use stay inside their lists.
LEMMA TypePreserved == TypeOK /\ [Next]_vars => TypeOK'
<1>. SUFFICES ASSUME TypeOK, [Next]_vars PROVE TypeOK'
  OBVIOUS
<1>0. /\ \A p \in Id : memsize[p] \in Nat
      /\ Len(waitQ) \in Nat
      /\ \A k \in 1 .. Len(waitQ) : waitQ[k] \in Id
  BY SizesAssumption, LenProperties, ElementOfSeq DEF TypeOK
<1>1. ASSUME NEW p \in Id, Allocate(p)
      PROVE  free' \in [Order -> Seq(Nat)] /\ block' \in [Id -> Block \cup {None}]
  <2>. DEFINE n == OrderFor(memsize[p])
  <2>1. Fits(free, memsize[p]) /\ memsize[p] \in Nat /\ free \in [Order -> Seq(Nat)]
    BY <1>0, <1>1 DEF Allocate, TypeOK
  <2>2. n \in Order
    BY <2>1, SourceListFirst
  <2>3. HoleTaken(free, n) \in Nat /\ Carve(free, n) \in [Order -> Seq(Nat)]
    BY <2>1, CarveType
  <2>. HIDE DEF n
  <2>4. [start |-> HoleTaken(free, n), order |-> n] \in Block
    BY <2>2, <2>3 DEF Block
  <2>. QED  BY <1>1, <2>3, <2>4 DEF Allocate, TypeOK, n
<1>2. ASSUME NEW p \in Id, ReceiveAllocated(p) PROVE TypeOK'
  <2>1. free' \in [Order -> Seq(Nat)] /\ block' \in [Id -> Block \cup {None}]
    BY <1>1, <1>2 DEF ReceiveAllocated
  <2>. QED  BY <1>2, <2>1 DEF ReceiveAllocated, TypeOK
<1>3. ASSUME NEW p \in Id, ReceiveWaiting(p) PROVE TypeOK'
  <2>1. waitQ' \in Seq(Id)
    BY <1>3, AppendProperties DEF ReceiveWaiting, TypeOK
  <2>. QED  BY <1>3, <2>1 DEF ReceiveWaiting, TypeOK
<1>4. ASSUME NEW p \in Id, Deallocate(p) PROVE TypeOK'
  <2>1. block[p] \in Block
    BY <1>4 DEF Deallocate, TypeOK
  <2>2. hole' \in Nat /\ level' \in Order /\ block' \in [Id -> Block \cup {None}]
    BY <1>4, <2>1 DEF Deallocate, TypeOK, Block
  <2>3. level' \in 0 .. MaxOrder + 1
    BY <2>2, MaxOrderAssumption DEF Order
  <2>. QED  BY <1>4, <2>2, <2>3 DEF Deallocate, TypeOK
<1>5. CASE MergePrevious
  <2>1. curr - 1 \in 1 .. Len(list) - 1
    BY <1>5, MergeListType, LenProperties DEF MergePrevious, MergesPre
  <2>. QED  BY <1>5, <2>1, MergeFromType DEF MergePrevious
<1>6. CASE MergeNext
  <2>1. curr \in 1 .. Len(list) - 1
    BY <1>6, MergeListType, LenProperties DEF MergeNext, MergesNxt
  <2>. QED  BY <1>6, <2>1, MergeFromType DEF MergeNext
<1>7. CASE KeepHole
  <2>1. list \in Seq(Nat) /\ pc = "merge"
    BY <1>7, MergeListType DEF KeepHole
  <2>2. free' \in [Order -> Seq(Nat)]
    BY <1>7, <2>1 DEF KeepHole, TypeOK
  <2>. QED  BY <1>0, <1>7, <2>2 DEF KeepHole, TypeOK
<1>8. CASE ScanAllocate
  <2>1. scan \in 1 .. Len(waitQ) /\ waitQ[scan] \in Id
    BY <1>0, <1>8 DEF ScanAllocate, TypeOK
  <2>2. free' \in [Order -> Seq(Nat)] /\ block' \in [Id -> Block \cup {None}]
    BY <1>1, <1>8, <2>1 DEF ScanAllocate
  <2>3. waitQ' \in Seq(Id) /\ Len(waitQ') = Len(waitQ) - 1
    BY <1>8, <2>1, RemoveAtProperties DEF ScanAllocate, TypeOK
  <2>4. scan' <= Len(waitQ') + 1
    BY <1>0, <1>8, <2>1, <2>3 DEF ScanAllocate
  <2>. QED  BY <1>8, <2>2, <2>3, <2>4 DEF ScanAllocate, TypeOK
<1>9. CASE ScanSkip
  BY <1>0, <1>9 DEF ScanSkip, TypeOK
<1>10. CASE ScanDone
  BY <1>10 DEF ScanDone, TypeOK
<1>11. CASE UNCHANGED vars
  BY <1>11 DEF vars, TypeOK
<1>. QED  BY <1>2, <1>3, <1>4, <1>5, <1>6, <1>7, <1>8, <1>9, <1>10, <1>11 DEF Next

\* One hole over the whole memory is a state of the right type.
LEMMA InitType == Init => TypeOK
<1>. SUFFICES ASSUME Init PROVE TypeOK
  OBVIOUS
<1>1. InitialLists \in [Order -> Seq(Nat)]
  BY DEF InitialLists
<1>2. 0 \in 0 .. MaxOrder + 1
  BY MaxOrderAssumption
<1>. QED  BY <1>1, <1>2 DEF Init, TypeOK

\* Every field keeps its type, for every number of lists and processes: scan
\* and the positions of the merge loop never leave their lists.
THEOREM TypeCorrect == Spec => []TypeOK
BY InitType, TypePreserved, PTL DEF Spec

-----------------------------------------------------------------------------
(* Waiting processes.                                                      *)

\* The inductive form of NoFittingWaiter: during the scan it holds of the
\* positions already passed.
ScannedDoNotFit ==
  \A k \in 1 .. Len(waitQ) :
    pc = "idle" \/ (pc = "scan" /\ k < scan) => ~Fits(free, memsize[waitQ[k]])

IInv == TypeOK /\ ScannedDoNotFit

\* Whoever waits is a process with a size.
LEMMA WaitersTyped ==
  ASSUME TypeOK
  PROVE  /\ Len(waitQ) \in Nat
         /\ \A k \in 1 .. Len(waitQ) : waitQ[k] \in Id /\ memsize[waitQ[k]] \in Nat
         /\ \A p \in Id : memsize[p] \in Nat
         /\ scan \in Nat \ {0}
<1>1. Len(waitQ) \in Nat /\ \A k \in 1 .. Len(waitQ) : waitQ[k] \in Id
  BY LenProperties, ElementOfSeq DEF TypeOK
<1>2. \A p \in Id : memsize[p] \in Nat
  BY SizesAssumption DEF TypeOK
<1>. QED  BY <1>1, <1>2 DEF TypeOK

\* An allocation leaves every process that did not fit not fitting.
LEMMA AllocateShrinks ==
  ASSUME TypeOK, NEW p \in Id, Allocate(p), NEW t \in Nat, ~Fits(free, t)
  PROVE  ~Fits(free', t)
BY WaitersTyped, CarveShrinks DEF Allocate

\* No step lets a process in front of scan fit: only a deallocation adds
\* holes, and it starts the scan again.
LEMMA ScannedPreserved == IInv /\ [Next]_vars => ScannedDoNotFit'
<1>. SUFFICES ASSUME TypeOK, ScannedDoNotFit, [Next]_vars,
                     NEW k \in 1 .. Len(waitQ'),
                     pc' = "idle" \/ (pc' = "scan" /\ k < scan')
              PROVE  ~Fits(free', memsize'[waitQ'[k]])
  BY DEF IInv, ScannedDoNotFit
<1>0. /\ Len(waitQ) \in Nat
      /\ \A i \in 1 .. Len(waitQ) : waitQ[i] \in Id /\ memsize[waitQ[i]] \in Nat
      /\ \A p \in Id : memsize[p] \in Nat
      /\ scan \in Nat \ {0}
  BY WaitersTyped
<1>1. ASSUME NEW p \in Id, ReceiveAllocated(p) PROVE ~Fits(free', memsize'[waitQ'[k]])
  <2>1. /\ waitQ' = waitQ /\ memsize' = memsize /\ pc = "idle" /\ Allocate(p)
    BY <1>1 DEF ReceiveAllocated
  <2>2. ~Fits(free, memsize[waitQ[k]]) /\ memsize[waitQ[k]] \in Nat
    BY <1>0, <2>1 DEF ScannedDoNotFit
  <2>. QED  BY <2>1, <2>2, AllocateShrinks
<1>2. ASSUME NEW p \in Id, ReceiveWaiting(p) PROVE ~Fits(free', memsize'[waitQ'[k]])
  <2>1. /\ waitQ' = Append(waitQ, p) /\ memsize' = memsize /\ free' = free
        /\ pc = "idle" /\ ~Fits(free, memsize[p])
    BY <1>2 DEF ReceiveWaiting
  <2>2. /\ Len(waitQ') = Len(waitQ) + 1 /\ waitQ'[Len(waitQ) + 1] = p
        /\ \A i \in 1 .. Len(waitQ) : waitQ'[i] = waitQ[i]
    BY <2>1, AppendProperties DEF TypeOK
  <2>3. CASE k = Len(waitQ) + 1
    BY <2>1, <2>2, <2>3
  <2>4. CASE k \in 1 .. Len(waitQ)
    BY <2>1, <2>2, <2>4 DEF ScannedDoNotFit
  <2>. QED  BY <1>0, <2>2, <2>3, <2>4
<1>3. ASSUME NEW p \in Id, Deallocate(p) PROVE FALSE
  BY <1>3 DEF Deallocate
<1>4. ASSUME NEW i, MergeFrom(i) PROVE FALSE
  <2>1. scan' = 1 /\ pc' # "idle" /\ waitQ' = waitQ
    BY <1>4 DEF MergeFrom
  <2>. QED  BY <1>0, <2>1
<1>5. CASE KeepHole
  <2>1. scan' = 1 /\ pc' # "idle" /\ waitQ' = waitQ
    BY <1>5 DEF KeepHole
  <2>. QED  BY <1>0, <2>1
<1>6. CASE ScanAllocate
  <2>1. /\ waitQ' = RemoveAt(waitQ, scan) /\ memsize' = memsize
        /\ pc = "scan" /\ pc' = "scan" /\ scan' = scan
        /\ scan \in 1 .. Len(waitQ) /\ Allocate(waitQ[scan])
    BY <1>0, <1>6 DEF ScanAllocate
  <2>2. Len(waitQ') = Len(waitQ) - 1
        /\ \A i \in 1 .. Len(waitQ) - 1 :
             waitQ'[i] = IF i < scan THEN waitQ[i] ELSE waitQ[i + 1]
    BY <2>1, RemoveAtProperties DEF TypeOK
  <2>3. k < scan /\ k \in 1 .. Len(waitQ)
    BY <1>0, <2>1, <2>2
  <2>4. ~Fits(free, memsize[waitQ[k]]) /\ waitQ'[k] = waitQ[k]
    BY <2>1, <2>2, <2>3 DEF ScannedDoNotFit
  <2>. QED  BY <1>0, <2>1, <2>3, <2>4, AllocateShrinks
<1>7. CASE ScanSkip
  <2>1. /\ pc = "scan" /\ pc' = pc /\ scan' = scan + 1 /\ waitQ' = waitQ
        /\ memsize' = memsize /\ free' = free
        /\ ~Fits(free, memsize[waitQ[scan]])
    BY <1>7 DEF ScanSkip
  <2>2. CASE k = scan
    BY <2>1, <2>2
  <2>3. CASE k < scan
    BY <2>1, <2>3 DEF ScannedDoNotFit
  <2>. QED  BY <1>0, <2>1, <2>2, <2>3
<1>8. CASE ScanDone
  <2>1. /\ pc = "scan" /\ scan > Len(waitQ) /\ waitQ' = waitQ
        /\ memsize' = memsize /\ free' = free
    BY <1>8 DEF ScanDone
  <2>2. k < scan
    BY <1>0, <2>1
  <2>. QED  BY <2>1, <2>2 DEF ScannedDoNotFit
<1>9. CASE UNCHANGED vars
  BY <1>9 DEF vars, ScannedDoNotFit
<1>. QED  BY <1>1, <1>2, <1>3, <1>4, <1>5, <1>6, <1>7, <1>8, <1>9
          DEF Next, MergePrevious, MergeNext

\* The invariant of the scan holds in every state.
LEMMA IInvCorrect == Spec => []IInv
<1>1. Init => IInv
  <2>. SUFFICES ASSUME Init PROVE IInv
    OBVIOUS
  <2>1. Len(waitQ) = 0
    BY DEF Init
  <2>. QED  BY <2>1, InitType DEF IInv, ScannedDoNotFit
<1>2. IInv /\ [Next]_vars => IInv'
  BY TypePreserved, ScannedPreserved DEF IInv
<1>. QED  BY <1>1, <1>2, PTL DEF Spec

\* Outside deallocate no process waits for memory it could be given, for any
\* number of lists, any sizes and any number of processes.
THEOREM WaitersDoNotFit == Spec => []NoFittingWaiter
<1>1. IInv => NoFittingWaiter
  BY DEF IInv, ScannedDoNotFit, NoFittingWaiter
<1>. QED  BY <1>1, IInvCorrect, PTL

\* Of two requests, one that fits needs a smaller block than one that does not.
LEMMA FitsIsSmaller ==
  ASSUME NEW fl, NEW a \in Nat, NEW b \in Nat, Fits(fl, a), ~Fits(fl, b)
  PROVE  OrderFor(b) > OrderFor(a)
<1>1. OrderFor(a) \in Int /\ OrderFor(b) \in Int
  BY OrderForType, MaxOrderAssumption
<1>2. PICK i \in Order : i >= OrderFor(a) /\ fl[i] # <<>>
  BY DEF Fits, ListsWithHole
<1>3. ~(i >= OrderFor(b))
  BY <1>2 DEF Fits, ListsWithHole
<1>. QED  BY <1>1, <1>2, <1>3, MaxOrderAssumption DEF Order

\* A process that gets memory passes only processes that ask for a larger
\* block, whether it has just arrived or was waiting itself.
THEOREM FirstFitIsFair == Spec => NoOvertaking
<1>. DEFINE Passes == \A p \in Id : GetsMemory(p) =>
              \A k \in 1 .. Len(waitQ) :
                WaitsBefore(k, p) => OrderFor(memsize[waitQ[k]]) > OrderFor(memsize[p])
<1>1. IInv /\ [Next]_vars => Passes
  <2>. SUFFICES ASSUME TypeOK, ScannedDoNotFit, [Next]_vars, NEW p \in Id, GetsMemory(p),
                       NEW k \in 1 .. Len(waitQ), WaitsBefore(k, p)
                PROVE  OrderFor(memsize[waitQ[k]]) > OrderFor(memsize[p])
    BY DEF IInv
  <2>0. /\ Len(waitQ) \in Nat /\ scan \in Nat \ {0}
        /\ memsize[waitQ[k]] \in Nat /\ memsize[p] \in Nat
    BY WaitersTyped
  <2>1. SUFFICES Fits(free, memsize[p]) /\ ~Fits(free, memsize[waitQ[k]])
    BY <2>0, FitsIsSmaller
  <2>2. ASSUME NEW q \in Id, Allocate(q) PROVE q = p
    BY <2>2 DEF Allocate, GetsMemory, TypeOK
  <2>3. ASSUME NEW q \in Id, ReceiveAllocated(q)
        PROVE  Fits(free, memsize[p]) /\ ~Fits(free, memsize[waitQ[k]])
    BY <2>2, <2>3 DEF ReceiveAllocated, Allocate, ScannedDoNotFit
  <2>4. CASE ScanAllocate
    <3>1. scan \in 1 .. Len(waitQ) /\ waitQ[scan] \in Id /\ pc = "scan"
          /\ Allocate(waitQ[scan])
      BY <2>0, <2>4, WaitersTyped DEF ScanAllocate
    <3>2. waitQ[scan] = p
      BY <2>2, <3>1
    <3>3. k < scan
      BY <2>0, <3>1, <3>2 DEF WaitsBefore
    <3>. QED  BY <3>1, <3>2, <3>3 DEF Allocate, ScannedDoNotFit
  <2>5. ASSUME NEW q \in Id, Deallocate(q) PROVE FALSE
    BY <2>5 DEF Deallocate, GetsMemory, TypeOK
  <2>6. ASSUME block' = block PROVE FALSE
    BY <2>6 DEF GetsMemory
  <2>. QED  BY <2>3, <2>4, <2>5, <2>6
            DEF Next, vars, ReceiveWaiting, MergePrevious, MergeNext, MergeFrom,
                KeepHole, ScanSkip, ScanDone
<1>2. IInv /\ [Next]_vars => [Passes]_vars
  BY <1>1
<1>. QED  BY <1>2, IInvCorrect, PTL DEF Spec, NoOvertaking

-----------------------------------------------------------------------------
(* The order of the free lists.                                            *)

Ascending(s) == \A k \in 1 .. Len(s) - 1 : s[k] <= s[k + 1]

\* Deleting a node keeps a list in ascending order.
LEMMA RemoveAscending ==
  ASSUME NEW s \in Seq(Nat), Ascending(s), NEW i \in 1 .. Len(s)
  PROVE  Ascending(RemoveAt(s, i))
<1>. DEFINE r == RemoveAt(s, i)
<1>1. /\ Len(s) \in Nat /\ Len(r) = Len(s) - 1
      /\ \A k \in 1 .. Len(s) - 1 : r[k] = IF k < i THEN s[k] ELSE s[k + 1]
  BY RemoveAtProperties, LenProperties
<1>2. \A k \in 1 .. Len(s) : s[k] \in Nat
  BY ElementOfSeq
<1>. HIDE DEF r
<1>3. ASSUME NEW k \in 1 .. Len(r) - 1 PROVE r[k] <= r[k + 1]
  <2>1. /\ k \in 1 .. Len(s) - 1 /\ k + 1 \in 1 .. Len(s) - 1
    BY <1>1
  <2>2. s[k] <= s[k + 1] /\ s[k + 1] <= s[(k + 1) + 1]
    BY <2>1 DEF Ascending
  <2>3. s[k] \in Nat /\ s[k + 1] \in Nat /\ s[(k + 1) + 1] \in Nat
    <3>1. k \in 1 .. Len(s) /\ k + 1 \in 1 .. Len(s) /\ (k + 1) + 1 \in 1 .. Len(s)
      BY <1>1, <2>1
    <3>. QED  BY <1>2, <3>1
  <2>4. /\ r[k] = IF k < i THEN s[k] ELSE s[k + 1]
        /\ r[k + 1] = IF k + 1 < i THEN s[k + 1] ELSE s[(k + 1) + 1]
    BY <1>1, <2>1
  <2>5. k \in Int /\ i \in Int
    BY <1>1
  <2>6. s[k] <= s[(k + 1) + 1]
    BY <2>2, <2>3
  <2>7. CASE k + 1 < i
    BY <2>2, <2>4, <2>5, <2>7
  <2>8. CASE k < i /\ ~(k + 1 < i)
    BY <2>4, <2>6, <2>8
  <2>9. CASE ~(k < i)
    <3>1. ~(k + 1 < i)
      BY <2>5, <2>9
    <3>. QED  BY <2>2, <2>4, <2>9, <3>1
  <2>. QED  BY <2>7, <2>8, <2>9
<1>. QED  BY <1>3 DEF Ascending, r

\* InsertList_pair keeps a list in ascending order.
LEMMA InsertAscending ==
  ASSUME NEW s \in Seq(Nat), Ascending(s), NEW a \in Nat
  PROVE  Ascending(InsertPair(s, a))
<1>. DEFINE i == InsertIndex(s, a)
            r == InsertPair(s, a)
<1>1. /\ i \in 1 .. Len(s) + 1 /\ Len(s) \in Nat
      /\ \A k \in 1 .. Len(s) : k < i => s[k] <= a
      /\ i <= Len(s) => s[i] > a
  BY InsertIndexFirst, LenProperties
<1>2. /\ Len(r) = Len(s) + 1
      /\ \A k \in 1 .. Len(s) + 1 :
           r[k] = IF k < i THEN s[k] ELSE IF k = i THEN a ELSE s[k - 1]
  BY InsertPairProperties
<1>. HIDE DEF i, r
<1>3. \A k \in 1 .. Len(s) : s[k] \in Nat
  BY ElementOfSeq
<1>4. ASSUME NEW k \in 1 .. Len(r) - 1 PROVE r[k] <= r[k + 1]
  <2>1. k \in 1 .. Len(s) /\ k + 1 \in 1 .. Len(s) + 1
    BY <1>1, <1>2
  <2>2. /\ r[k] = IF k < i THEN s[k] ELSE IF k = i THEN a ELSE s[k - 1]
        /\ r[k + 1] = IF k + 1 < i THEN s[k + 1] ELSE IF k + 1 = i THEN a ELSE s[k]
    BY <1>1, <1>2, <2>1
  <2>3. CASE k + 1 < i
    <3>1. s[k] <= s[k + 1]
      BY <1>1, <2>1, <2>3 DEF Ascending
    <3>. QED  BY <1>1, <2>1, <2>2, <2>3, <3>1
  <2>4. CASE k + 1 = i
    BY <1>1, <2>1, <2>2, <2>4
  <2>5. CASE k = i
    BY <1>1, <1>3, <2>1, <2>2, <2>5
  <2>6. CASE k > i
    <3>1. k - 1 \in 1 .. Len(s) - 1 /\ (k - 1) + 1 = k
      BY <1>1, <2>1, <2>6
    <3>2. s[k - 1] <= s[k]
      BY <3>1 DEF Ascending
    <3>. QED  BY <1>1, <2>1, <2>2, <2>6, <3>2
  <2>. QED  BY <1>1, <2>1, <2>3, <2>4, <2>5, <2>6
<1>. QED  BY <1>4 DEF Ascending, r

\* allocate keeps every list in ascending order.
LEMMA CarveAscending ==
  ASSUME NEW fl \in [Order -> Seq(Nat)], NEW sz \in Nat, Fits(fl, sz),
         \A m \in Order : Ascending(fl[m])
  PROVE  \A m \in Order : Ascending(Carve(fl, OrderFor(sz))[m])
<1>. DEFINE n == OrderFor(sz)
            s == SourceList(fl, n)
            c == Carve(fl, n)
<1>1. s \in Order /\ fl[s] # <<>> /\ fl[s] \in Seq(Nat)
  BY SourceListFirst
<1>2. Ascending(Tail(fl[s]))
  <2>1. /\ Len(fl[s]) \in Nat
        /\ Len(Tail(fl[s])) = Len(fl[s]) - 1
        /\ \A k \in 1 .. Len(Tail(fl[s])) : Tail(fl[s])[k] = fl[s][k + 1]
    BY <1>1, HeadTailProperties, LenProperties
  <2>2. \A k \in 1 .. Len(fl[s]) - 1 : fl[s][k] <= fl[s][k + 1]
    BY <1>1 DEF Ascending
  <2>. HIDE DEF s
  <2>3. ASSUME NEW k \in 1 .. Len(Tail(fl[s])) - 1
        PROVE  Tail(fl[s])[k] <= Tail(fl[s])[k + 1]
    <3>1. /\ Tail(fl[s])[k] = fl[s][k + 1] /\ Tail(fl[s])[k + 1] = fl[s][(k + 1) + 1]
          /\ k + 1 \in 1 .. Len(fl[s]) - 1
      BY <2>1
    <3>. QED  BY <2>2, <3>1
  <2>. QED  BY <2>3 DEF Ascending
<1>3. ASSUME NEW x PROVE Ascending(<<x>>)
  BY DEF Ascending
<1>4. ASSUME NEW m \in Order PROVE Ascending(c[m])
  <2>1. \/ c[m] = Tail(fl[s])
        \/ \E x : c[m] = <<x>>
        \/ c[m] = fl[m]
    BY DEF Carve
  <2>. HIDE DEF c, s
  <2>. QED  BY <1>2, <1>3, <2>1
<1>. QED  BY <1>4

\* Every step of the memory manager keeps the lists in ascending order.
LEMMA SortedPreserved == TypeOK /\ FreeListsSorted /\ [Next]_vars => FreeListsSorted'
<1>. SUFFICES ASSUME TypeOK, \A m \in Order : Ascending(free[m]), [Next]_vars
              PROVE  \A m \in Order : Ascending(free'[m])
  BY DEF FreeListsSorted, Ascending
<1>1. ASSUME NEW p \in Id, Allocate(p) PROVE \A m \in Order : Ascending(free'[m])
  <2>1. memsize[p] \in Nat /\ free \in [Order -> Seq(Nat)]
    BY WaitersTyped DEF TypeOK
  <2>. QED  BY <1>1, <2>1, CarveAscending DEF Allocate
<1>2. ASSUME pc = "merge" PROVE Ascending(list)
  <2>1. level \in Order /\ free[level] \in Seq(Nat) /\ hole \in Nat
    BY <1>2 DEF TypeOK
  <2>. QED  BY <2>1, InsertAscending DEF list
<1>3. ASSUME pc = "merge", NEW k \in 1 .. Len(list) - 1, MergeFrom(k)
      PROVE  \A m \in Order : Ascending(free'[m])
  <2>1. list \in Seq(Nat) /\ Len(list) \in Nat /\ Ascending(list)
    BY <1>2, <1>3, MergeListType, LenProperties
  <2>. HIDE DEF list
  <2>2. /\ RemoveAt(list, k) \in Seq(Nat) /\ k \in 1 .. Len(RemoveAt(list, k))
        /\ Ascending(RemoveAt(list, k))
    <3>1. k \in 1 .. Len(list)
      BY <2>1
    <3>2. RemoveAt(list, k) \in Seq(Nat) /\ Len(RemoveAt(list, k)) = Len(list) - 1
      BY <2>1, <3>1, RemoveAtProperties
    <3>. QED  BY <2>1, <3>1, <3>2, RemoveAscending
  <2>3. Ascending(RemoveTwo(list, k))
    BY <2>2, RemoveAscending DEF RemoveTwo
  <2>. QED  BY <1>3, <2>3 DEF MergeFrom, TypeOK
<1>4. ASSUME NEW p \in Id, ReceiveAllocated(p) PROVE \A m \in Order : Ascending(free'[m])
  BY <1>1, <1>4 DEF ReceiveAllocated
<1>5. CASE MergePrevious
  <2>1. curr - 1 \in 1 .. Len(list) - 1
    BY <1>5, MergeListType, LenProperties DEF MergePrevious, MergesPre
  <2>. QED  BY <1>3, <1>5, <2>1 DEF MergePrevious
<1>6. CASE MergeNext
  <2>1. curr \in 1 .. Len(list) - 1
    BY <1>6, MergeListType, LenProperties DEF MergeNext, MergesNxt
  <2>. QED  BY <1>3, <1>6, <2>1 DEF MergeNext
<1>7. CASE KeepHole
  BY <1>2, <1>7 DEF KeepHole, TypeOK
<1>8. CASE ScanAllocate
  <2>1. waitQ[scan] \in Id
    BY <1>8, WaitersTyped DEF ScanAllocate
  <2>. QED  BY <1>1, <1>8, <2>1 DEF ScanAllocate
<1>9. ASSUME free' = free PROVE \A m \in Order : Ascending(free'[m])
  BY <1>9
<1>. QED  BY <1>4, <1>5, <1>6, <1>7, <1>8, <1>9
          DEF Next, vars, ReceiveWaiting, Deallocate, ScanSkip, ScanDone

\* The free lists stay in ascending order of address, for any number of lists
\* and whatever the merge loop merges.
THEOREM ListsStaySorted == Spec => []FreeListsSorted
<1>1. Init => FreeListsSorted
  BY DEF Init, InitialLists, FreeListsSorted
<1>. QED  BY <1>1, SortedPreserved, TypeCorrect, PTL DEF Spec

-----------------------------------------------------------------------------
(* Where holes and blocks lie.                                             *)

\* A multiple is what leaves no remainder.
LEMMA MultipleIsAligned ==
  ASSUME NEW a \in Nat, NEW b \in Nat \ {0}
  PROVE  a % b = 0 <=> \E q \in Nat : a = q * b
<1>1. ASSUME NEW q \in Nat PROVE (q * b) % b = 0
  OBVIOUS
<1>2. a % b = 0 => \E q \in Nat : a = q * b
  OBVIOUS
<1>. QED  BY <1>1, <1>2

\* The lower one of a pair of buddies is aligned to the length of the pair.
LEMMA LowerBuddyAligned ==
  ASSUME NEW a \in Nat, NEW b \in Nat \ {0}, a % b = 0, (a \div b) % 2 = 0
  PROVE  a % (2 * b) = 0
<1>1. PICK q \in Nat : a = q * b
  BY MultipleIsAligned
<1>2. a \div b = q
  BY <1>1
<1>3. PICK r \in Nat : q = 2 * r
  BY <1>2
<1>4. a = r * (2 * b)
  BY <1>1, <1>3
<1>. QED  BY <1>4, MultipleIsAligned

\* Between a multiple and a larger one there is room for one more length.
LEMMA RoomBetween ==
  ASSUME NEW a \in Nat, NEW t \in Nat, NEW b \in Nat \ {0}, a % b = 0, t % b = 0, a < t
  PROVE  a + b <= t
<1>1. PICK q \in Nat : a = q * b
  BY MultipleIsAligned
<1>2. PICK r \in Nat : t = r * b
  BY MultipleIsAligned
<1>3. q < r
  BY <1>1, <1>2
<1>4. \A c, d, e \in Nat : c <= d => c * e <= d * e
  OBVIOUS
<1>5. (q + 1) * b <= r * b
  BY <1>3, <1>4
<1>. QED  BY <1>1, <1>2, <1>5

\* Block lengths: every larger one is a multiple of every smaller one.
LEMMA LengthsDivide ==
  ASSUME NEW m \in Order, NEW i \in Order, m <= i
  PROVE  \E q \in Nat : BlockSize[i] = q * BlockSize[m]
<1>. DEFINE S == {j \in Nat : /\ j \in Order /\ m <= j
                              /\ ~\E q \in Nat : BlockSize[j] = q * BlockSize[m]}
<1>1. SUFFICES ASSUME S # {} PROVE FALSE
  BY MaxOrderAssumption DEF Order
<1>2. PICK j \in S : \A x \in S : j <= x
  BY <1>1, LeastExists
<1>3. CASE j = m
  BY <1>2, <1>3, BlockSizeAssumption DEF Order
<1>4. CASE j # m
  <2>1. j - 1 \in Order /\ m <= j - 1 /\ j - 1 \notin S /\ j - 1 \in 0 .. MaxOrder - 1
    BY <1>2, <1>4, MaxOrderAssumption DEF Order
  <2>2. PICK q \in Nat : BlockSize[j - 1] = q * BlockSize[m]
    BY <2>1
  <2>3. BlockSize[j] = 2 * BlockSize[j - 1]
    BY <1>2, <2>1, BlockSizeAssumption
  <2>4. BlockSize[m] \in Nat
    BY BlockSizeAssumption DEF Order
  <2>5. BlockSize[j] = (2 * q) * BlockSize[m] /\ 2 * q \in Nat
    BY <2>2, <2>3, <2>4
  <2>. QED  BY <1>2, <2>5
<1>. QED  BY <1>3, <1>4

\* The lengths grow: a block of list i holds two of any list below.
LEMMA LengthsGrow ==
  ASSUME NEW m \in Order, NEW i \in Order, m < i
  PROVE  2 * BlockSize[m] <= BlockSize[i]
<1>1. m + 1 \in Order /\ m + 1 <= i /\ m \in 0 .. MaxOrder - 1
  BY MaxOrderAssumption DEF Order
<1>2. PICK q \in Nat : BlockSize[i] = q * BlockSize[m + 1]
  BY <1>1, LengthsDivide
<1>3. /\ BlockSize[m + 1] = 2 * BlockSize[m]
      /\ BlockSize[m + 1] \in Nat \ {0} /\ BlockSize[i] \in Nat \ {0}
  BY <1>1, BlockSizeAssumption DEF Order
<1>4. q # 0
  BY <1>2, <1>3
<1>5. BlockSize[m + 1] <= q * BlockSize[m + 1]
  BY <1>3, <1>4
<1>. QED  BY <1>2, <1>3, <1>5

\* A hole of a list lies aligned for every list below.
LEMMA AlignedBelow ==
  ASSUME NEW a \in Nat, NEW m \in Order, NEW i \in Order, m <= i, Aligned(a, i)
  PROVE  Aligned(a, m)
<1>1. BlockSize[m] \in Nat \ {0} /\ BlockSize[i] \in Nat \ {0} /\ Total \in Nat \ {0}
  BY BlockSizeAssumption, MaxOrderAssumption DEF Order, Total
<1>2. BlockSize[m] <= BlockSize[i]
  BY <1>1, LengthsGrow, MaxOrderAssumption DEF Order
<1>3. PICK q \in Nat : a = q * BlockSize[i]
  BY <1>1, MultipleIsAligned DEF Aligned
<1>4. PICK r \in Nat : BlockSize[i] = r * BlockSize[m]
  BY LengthsDivide
<1>5. a = (q * r) * BlockSize[m] /\ q * r \in Nat
  BY <1>1, <1>3, <1>4
<1>6. a % BlockSize[m] = 0
  BY ONLY <1>1, <1>5, MultipleIsAligned, a \in Nat
<1>. QED  BY <1>1, <1>2, <1>6 DEF Aligned

\* The upper half that a split leaves behind is aligned.
LEMMA UpperHalfAligned ==
  ASSUME NEW a \in Nat, NEW m \in Order, NEW i \in Order, m < i, Aligned(a, i)
  PROVE  Aligned(a + BlockSize[m], m)
<1>1. BlockSize[m] \in Nat \ {0} /\ BlockSize[i] \in Nat \ {0} /\ Total \in Nat \ {0}
  BY BlockSizeAssumption, MaxOrderAssumption DEF Order, Total
<1>2. 2 * BlockSize[m] <= BlockSize[i]
  BY LengthsGrow
<1>3. Aligned(a, m)
  BY AlignedBelow, MaxOrderAssumption DEF Order
<1>4. PICK q \in Nat : a = q * BlockSize[m]
  BY <1>1, <1>3, MultipleIsAligned DEF Aligned
<1>5. a + BlockSize[m] = (q + 1) * BlockSize[m]
  BY <1>1, <1>4
<1>6. (a + BlockSize[m]) % BlockSize[m] = 0
  <2>1. a + BlockSize[m] \in Nat /\ q + 1 \in Nat
    BY <1>1
  <2>. QED  BY ONLY <1>1, <1>5, <2>1, MultipleIsAligned
<1>. QED  BY <1>1, <1>2, <1>6 DEF Aligned

\* A lower buddy with the space behind it is aligned for the next list.
LEMMA PairAligned ==
  ASSUME NEW a \in Nat, NEW m \in Order, m < MaxOrder, Aligned(a, m), IsLowerBuddy(a, m)
  PROVE  Aligned(a, m + 1)
<1>1. /\ m + 1 \in Order /\ m \in 0 .. MaxOrder - 1 /\ MaxOrder \in Order
      /\ m + 1 <= MaxOrder
  BY MaxOrderAssumption DEF Order
<1>2. /\ BlockSize[m] \in Nat \ {0} /\ BlockSize[m + 1] = 2 * BlockSize[m]
      /\ Total \in Nat \ {0}
  BY <1>1, BlockSizeAssumption DEF Order, Total
<1>3. a % BlockSize[m + 1] = 0
  <2>1. a % BlockSize[m] = 0 /\ (a \div BlockSize[m]) % 2 = 0
    BY DEF Aligned, IsLowerBuddy
  <2>. QED  BY ONLY <1>2, <2>1, LowerBuddyAligned, a \in Nat
<1>4. Total % BlockSize[m + 1] = 0
  <2>1. \E r \in Nat : Total = r * BlockSize[m + 1]
    BY <1>1, LengthsDivide DEF Total
  <2>2. BlockSize[m + 1] \in Nat \ {0}
    BY <1>2
  <2>. QED  BY ONLY <1>2, <2>1, <2>2, MultipleIsAligned
<1>5. a < Total
  BY <1>2 DEF Aligned
<1>6. a + BlockSize[m + 1] <= Total
  <2>1. BlockSize[m + 1] \in Nat \ {0}
    BY <1>2
  <2>. QED  BY ONLY <1>2, <1>3, <1>4, <1>5, <2>1, RoomBetween, a \in Nat
<1>. QED  BY <1>3, <1>6 DEF Aligned

AllAligned(s, m) == \A k \in 1 .. Len(s) : Aligned(s[k], m)

\* allocate takes an aligned block and leaves aligned holes.
LEMMA CarveAligned ==
  ASSUME NEW fl \in [Order -> Seq(Nat)], NEW sz \in Nat, Fits(fl, sz),
         \A m \in Order : AllAligned(fl[m], m)
  PROVE  /\ OrderFor(sz) \in Order
         /\ Aligned(HoleTaken(fl, OrderFor(sz)), OrderFor(sz))
         /\ \A m \in Order : AllAligned(Carve(fl, OrderFor(sz))[m], m)
<1>. DEFINE n == OrderFor(sz)
            s == SourceList(fl, n)
            h == HoleTaken(fl, n)
            c == Carve(fl, n)
<1>1. n \in Order /\ s \in Order /\ n <= s /\ fl[s] # <<>> /\ fl[s] \in Seq(Nat)
  BY SourceListFirst
<1>2. Len(fl[s]) \in Nat /\ Len(fl[s]) >= 1 /\ h = fl[s][1] /\ h \in Nat
  BY <1>1, LenProperties, EmptySeq, CarveType DEF HoleTaken
<1>3. Aligned(h, s)
  BY <1>1, <1>2 DEF AllAligned
<1>. HIDE DEF n, h, s, c
<1>4. Aligned(h, n)
  BY <1>1, <1>2, <1>3, AlignedBelow
<1>5. AllAligned(Tail(fl[s]), s)
  <2>1. /\ Len(Tail(fl[s])) = Len(fl[s]) - 1
        /\ \A k \in 1 .. Len(Tail(fl[s])) : Tail(fl[s])[k] = fl[s][k + 1]
    BY <1>1, HeadTailProperties
  <2>2. ASSUME NEW k \in 1 .. Len(Tail(fl[s])) PROVE Aligned(Tail(fl[s])[k], s)
    <3>1. k + 1 \in 1 .. Len(fl[s])
      BY <1>2, <2>1
    <3>. QED  BY <1>1, <2>1, <3>1 DEF AllAligned
  <2>. QED  BY <2>2 DEF AllAligned
<1>6. ASSUME NEW m \in Order PROVE AllAligned(c[m], m)
  <2>1. c[m] = IF m = s THEN Tail(fl[m])
               ELSE IF m \in n .. s - 1 THEN <<h + BlockSize[m]>> ELSE fl[m]
    BY DEF Carve, HalvesLeft, c, s, h
  <2>2. CASE m \in n .. s - 1
    <3>1. m < s /\ c[m] = <<h + BlockSize[m]>>
      BY <1>1, <2>1, <2>2, MaxOrderAssumption DEF Order
    <3>2. Aligned(h + BlockSize[m], m)
      BY <1>1, <1>2, <1>3, <3>1, UpperHalfAligned
    <3>. QED  BY <3>1, <3>2 DEF AllAligned
  <2>. QED  BY <1>5, <2>1, <2>2
<1>. QED  BY <1>1, <1>4, <1>6 DEF n, h, c

\* Deleting a node leaves an aligned list aligned.
LEMMA RemoveAligned ==
  ASSUME NEW s \in Seq(Nat), NEW m, AllAligned(s, m), NEW i \in 1 .. Len(s)
  PROVE  AllAligned(RemoveAt(s, i), m)
<1>1. /\ Len(s) \in Nat /\ Len(RemoveAt(s, i)) = Len(s) - 1
      /\ \A k \in 1 .. Len(s) - 1 : RemoveAt(s, i)[k] = IF k < i THEN s[k] ELSE s[k + 1]
  BY RemoveAtProperties, LenProperties
<1>2. ASSUME NEW k \in 1 .. Len(s) - 1 PROVE Aligned(RemoveAt(s, i)[k], m)
  <2>1. k \in 1 .. Len(s) /\ k + 1 \in 1 .. Len(s)
    BY <1>1
  <2>. QED  BY <1>1, <2>1 DEF AllAligned
<1>. QED  BY <1>1, <1>2 DEF AllAligned

\* Inserting an aligned hole leaves an aligned list aligned.
LEMMA InsertAligned ==
  ASSUME NEW s \in Seq(Nat), NEW a \in Nat, NEW m, AllAligned(s, m), Aligned(a, m)
  PROVE  AllAligned(InsertPair(s, a), m)
<1>. DEFINE i == InsertIndex(s, a)
            r == InsertPair(s, a)
<1>1. i \in 1 .. Len(s) + 1 /\ Len(s) \in Nat
  BY InsertIndexFirst, LenProperties
<1>2. /\ Len(r) = Len(s) + 1
      /\ \A k \in 1 .. Len(s) + 1 :
           r[k] = IF k < i THEN s[k] ELSE IF k = i THEN a ELSE s[k - 1]
  BY InsertPairProperties
<1>. HIDE DEF i, r
<1>3. ASSUME NEW k \in 1 .. Len(s) + 1 PROVE Aligned(r[k], m)
  <2>1. CASE k < i
    <3>1. k \in 1 .. Len(s)
      BY <1>1, <2>1
    <3>. QED  BY <1>2, <2>1, <3>1 DEF AllAligned
  <2>2. CASE k = i
    BY <1>1, <1>2, <2>2
  <2>3. CASE k > i
    <3>1. k - 1 \in 1 .. Len(s) /\ ~(k < i) /\ k # i
      BY <1>1, <2>3
    <3>. QED  BY <1>2, <3>1 DEF AllAligned
  <2>. QED  BY <1>1, <2>1, <2>2, <2>3
<1>. QED  BY <1>2, <1>3 DEF AllAligned, r

\* Every step keeps holes and blocks aligned: a hole that goes on from a merge is the
\* lower one of a pair, even when the other hole is not its buddy.
LEMMA AlignedPreserved == TypeOK /\ BlocksAligned /\ [Next]_vars => BlocksAligned'
<1>. SUFFICES ASSUME TypeOK, BlocksAligned, [Next]_vars PROVE BlocksAligned'
  OBVIOUS
<1>0. /\ \A m \in Order : AllAligned(free[m], m)
      /\ free \in [Order -> Seq(Nat)]
      /\ \A p \in Id : memsize[p] \in Nat
  BY WaitersTyped DEF BlocksAligned, AllAligned, TypeOK
<1>1. ASSUME NEW p \in Id, Allocate(p), pc' # "merge" PROVE BlocksAligned'
  <2>. DEFINE n == OrderFor(memsize[p])
  <2>1. /\ n \in Order /\ Aligned(HoleTaken(free, n), n)
        /\ \A m \in Order : AllAligned(Carve(free, n)[m], m)
    BY <1>0, <1>1, CarveAligned DEF Allocate
  <2>. HIDE DEF n
  <2>2. /\ free' = Carve(free, n)
        /\ block' = [block EXCEPT ![p] = [start |-> HoleTaken(free, n), order |-> n]]
    BY <1>1 DEF Allocate, n
  <2>3. ASSUME NEW q \in Id, block'[q] # None
        PROVE  Aligned(block'[q].start, block'[q].order)
    BY <2>1, <2>2, <2>3 DEF BlocksAligned, TypeOK
  <2>. QED  BY <1>1, <2>1, <2>2, <2>3 DEF BlocksAligned, AllAligned, Aligned
<1>2. ASSUME pc = "merge" PROVE AllAligned(list, level) /\ list \in Seq(Nat)
  <2>1. level \in Order /\ hole \in Nat /\ free[level] \in Seq(Nat) /\ Aligned(hole, level)
    BY <1>2 DEF TypeOK, BlocksAligned
  <2>. QED  BY <1>0, <1>2, <2>1, InsertAligned, MergeListType DEF list
<1>3. ASSUME pc = "merge", NEW k \in 1 .. Len(list) - 1, MergeFrom(k),
             IsLowerBuddy(list[k], level)
      PROVE  BlocksAligned'
  <2>1. /\ list \in Seq(Nat) /\ AllAligned(list, level) /\ level \in Order
        /\ Len(list) \in Nat
    BY <1>2, <1>3, LenProperties DEF TypeOK
  <2>2. k \in 1 .. Len(list) /\ list[k] \in Nat
    BY <2>1, ElementOfSeq
  <2>3. AllAligned(RemoveTwo(list, k), level)
    <3>1. /\ RemoveAt(list, k) \in Seq(Nat) /\ k \in 1 .. Len(RemoveAt(list, k))
      BY <2>1, <2>2, RemoveAtProperties
    <3>. QED  BY <2>1, <2>2, <3>1, RemoveAligned DEF RemoveTwo
  <2>4. pc' = "merge" => Aligned(list[k], level + 1)
    <3>1. pc' = "merge" => level < MaxOrder
      BY <1>3 DEF MergeFrom
    <3>. QED  BY <1>3, <2>1, <2>2, <3>1, PairAligned DEF AllAligned
  <2>. HIDE DEF list
  <2>5. \A m \in Order : AllAligned(free'[m], m)
    BY <1>0, <1>3, <2>3 DEF MergeFrom
  <2>6. block' = block /\ hole' = list[k] /\ level' = level + 1
    BY <1>3 DEF MergeFrom
  <2>. QED  BY <2>4, <2>5, <2>6 DEF BlocksAligned, AllAligned, Aligned
<1>4. ASSUME NEW p \in Id, ReceiveAllocated(p) PROVE BlocksAligned'
  BY <1>1, <1>4 DEF ReceiveAllocated
<1>5. ASSUME NEW p \in Id, Deallocate(p) PROVE BlocksAligned'
  BY <1>5 DEF Deallocate, BlocksAligned, Aligned, TypeOK
<1>6. CASE MergePrevious
  <2>1. curr - 1 \in 1 .. Len(list) - 1
    BY <1>6, MergeListType, LenProperties DEF MergePrevious, MergesPre
  <2>. QED  BY <1>3, <1>6, <2>1 DEF MergePrevious, MergesPre
<1>7. CASE MergeNext
  <2>1. curr \in 1 .. Len(list) - 1
    BY <1>7, MergeListType, LenProperties DEF MergeNext, MergesNxt
  <2>. QED  BY <1>3, <1>7, <2>1 DEF MergeNext, MergesNxt
<1>8. CASE KeepHole
  <2>1. \A m \in Order : AllAligned(free'[m], m)
    BY <1>0, <1>2, <1>8 DEF KeepHole
  <2>. QED  BY <1>8, <2>1 DEF KeepHole, BlocksAligned, AllAligned, Aligned
<1>9. CASE ScanAllocate
  <2>1. waitQ[scan] \in Id
    BY <1>9, WaitersTyped DEF ScanAllocate
  <2>. QED  BY <1>1, <1>9, <2>1 DEF ScanAllocate
<1>10. ASSUME free' = free, block' = block, pc' # "merge" PROVE BlocksAligned'
  BY <1>10 DEF BlocksAligned, Aligned
<1>11. CASE UNCHANGED vars
  BY <1>11 DEF vars, BlocksAligned, Aligned
<1>. QED  BY <1>4, <1>5, <1>6, <1>7, <1>8, <1>9, <1>10, <1>11
          DEF Next, ReceiveWaiting, ScanSkip, ScanDone

\* Every hole and every block lies inside the memory at a multiple of its length, for any
\* number of lists, whatever is merged.
THEOREM BlocksStayAligned == Spec => []BlocksAligned
<1>1. Init => BlocksAligned
  <2>1. MaxOrder \in Order /\ Total \in Nat \ {0}
    BY MaxOrderAssumption, BlockSizeAssumption DEF Order, Total
  <2>2. Aligned(0, MaxOrder)
    BY <2>1, MultipleIsAligned DEF Aligned, Total
  <2>. QED  BY <2>2 DEF Init, InitialLists, BlocksAligned
<1>. QED  BY <1>1, AlignedPreserved, TypeCorrect, PTL DEF Spec

-----------------------------------------------------------------------------
(* Sums over finite sets, for the total of the memory.                     *)

\* A function that satisfies the sum's recursion on the sets of D.
SumOver(f, D, iter) ==
  iter = [s \in D |->
            IF s = {} THEN 0
            ELSE f[CHOOSE x \in s : TRUE] + iter[s \ {CHOOSE x \in s : TRUE}]]

\* The subsets of up to k elements.
Small(S, k) == {s \in SUBSET S : Cardinality(s) <= k}

Sums(f) == CHOOSE iter : SumOver(f, SUBSET DOMAIN f, iter)

\* The library's sum is this recursion, taken on the whole domain.
LEMMA SumIsFold == ASSUME NEW f PROVE SumFunction(f) = Sums(f)[DOMAIN f]
BY Zenon DEF SumFunction, SumFunctionOnSet, FoldFunctionOnSet, MapThenFoldSet, SumOver, Sums

\* A finite set has one element less when one is removed.
LEMMA OneLess ==
  ASSUME NEW S, IsFiniteSet(S), NEW s \in SUBSET S, NEW x \in s
  PROVE  /\ s \ {x} \in SUBSET S
         /\ Cardinality(s) \in Nat /\ Cardinality(s \ {x}) \in Nat
         /\ Cardinality(s \ {x}) = Cardinality(s) - 1
<1>1. IsFiniteSet(s)
  BY FS_Subset
<1>. QED  BY <1>1, FS_RemoveElement, FS_CardinalityType

\* The recursion of the sum has a solution, one size of subset after the other.
LEMMA SumExists ==
  ASSUME NEW S, IsFiniteSet(S), NEW f
  PROVE  \E iter : SumOver(f, SUBSET S, iter)
<1>. DEFINE Unsolved == {k \in Nat : ~ \E iter : SumOver(f, Small(S, k), iter)}
<1>1. 0 \notin Unsolved
  <2>1. \A s \in Small(S, 0) : s = {}
    <3>1. ASSUME NEW s \in SUBSET S, NEW x \in s, Cardinality(s) <= 0 PROVE FALSE
      <4>1. /\ Cardinality(s) \in Nat /\ Cardinality(s \ {x}) \in Nat
            /\ Cardinality(s \ {x}) = Cardinality(s) - 1
        BY OneLess
      <4>. QED  BY <3>1, <4>1
    <3>. QED  BY <3>1 DEF Small
  <2>2. SumOver(f, Small(S, 0), [s \in Small(S, 0) |-> 0])
    BY <2>1 DEF SumOver
  <2>. QED  BY <2>2
<1>2. ASSUME NEW k \in Nat, k \notin Unsolved PROVE k + 1 \notin Unsolved
  <2>1. PICK iter : SumOver(f, Small(S, k), iter)
    BY <1>2
  <2>. DEFINE longer == [s \in Small(S, k + 1) |->
                           IF s = {} THEN 0
                           ELSE f[CHOOSE x \in s : TRUE] + iter[s \ {CHOOSE x \in s : TRUE}]]
  <2>2. ASSUME NEW s \in Small(S, k) PROVE s \in Small(S, k + 1) /\ longer[s] = iter[s]
    <3>1. s \in Small(S, k + 1)
      BY FS_Subset, FS_CardinalityType DEF Small
    <3>. QED  BY <2>1, <3>1 DEF SumOver
  <2>3. ASSUME NEW s \in Small(S, k + 1), s # {}
        PROVE  s \ {CHOOSE x \in s : TRUE} \in Small(S, k)
    <3>1. PICK c \in s : c = CHOOSE x \in s : TRUE
      BY <2>3
    <3>2. s \in SUBSET S /\ Cardinality(s) <= k + 1
      BY DEF Small
    <3>3. s \ {c} \in SUBSET S /\ Cardinality(s \ {c}) <= k
      BY <3>2, OneLess
    <3>. QED  BY <3>1, <3>3 DEF Small
  <2>4. SumOver(f, Small(S, k + 1), longer)
    <3>1. ASSUME NEW s \in Small(S, k + 1), s # {}
          PROVE  longer[s] = f[CHOOSE x \in s : TRUE] + longer[s \ {CHOOSE x \in s : TRUE}]
      BY <2>2, <2>3, <3>1
    <3>2. \A s \in Small(S, k + 1) : s = {} => longer[s] = 0
      OBVIOUS
    <3>3. longer = [s \in Small(S, k + 1) |-> longer[s]]
      OBVIOUS
    <3>. HIDE DEF longer
    <3>. QED  BY <3>1, <3>2, <3>3 DEF SumOver
  <2>. QED  BY <2>4
<1>3. Unsolved = {}
  <2>. SUFFICES ASSUME Unsolved # {} PROVE FALSE
    OBVIOUS
  <2>1. Min(Unsolved) \in Unsolved /\ \A k \in Unsolved : Min(Unsolved) <= k
    BY LeastExists
  <2>. HIDE DEF Unsolved
  <2>2. PICK m \in Nat : m \in Unsolved /\ \A k \in Unsolved : m <= k
    BY <2>1 DEF Unsolved
  <2>3. m - 1 \in Nat /\ m - 1 \notin Unsolved /\ (m - 1) + 1 = m
    BY <1>1, <2>2
  <2>. QED  BY <1>2, <2>2, <2>3
<1>4. Small(S, Cardinality(S)) = SUBSET S
  BY FS_Subset DEF Small
<1>5. Cardinality(S) \in Nat
  BY FS_CardinalityType
<1>. HIDE DEF Unsolved
<1>6. PICK iter : SumOver(f, Small(S, Cardinality(S)), iter)
  BY <1>3, <1>5 DEF Unsolved
<1>. QED  BY <1>4, <1>6

\* The recursion has a solution, so a sum is the chosen element's number and the rest.
LEMMA SumUnfolds ==
  ASSUME NEW S, IsFiniteSet(S), NEW f \in [S -> Int]
  PROVE  /\ Sums(f)[{}] = 0
         /\ \A s \in SUBSET S : s # {} =>
              \E c \in s : Sums(f)[s] = f[c] + Sums(f)[s \ {c}]
<1>1. DOMAIN f = S
  OBVIOUS
<1>2. SumOver(f, SUBSET S, Sums(f))
  BY <1>1, SumExists DEF Sums
<1>3. {} \in SUBSET S
  OBVIOUS
<1>4. Sums(f)[{}] = 0
  BY <1>2, <1>3 DEF SumOver
<1>5. ASSUME NEW s \in SUBSET S, s # {}
      PROVE  \E c \in s : Sums(f)[s] = f[c] + Sums(f)[s \ {c}]
  <2>1. PICK c \in s : c = CHOOSE x \in s : TRUE
    BY <1>5
  <2>2. Sums(f)[s] = f[c] + Sums(f)[s \ {c}]
    BY <1>2, <1>5, <2>1 DEF SumOver
  <2>. QED  BY <2>2
<1>. QED  BY <1>4, <1>5

\* A sum is an integer, and any element may be taken out of it first.
TakesOut(f, s) ==
  /\ Sums(f)[s] \in Int
  /\ \A x \in s : Sums(f)[s] = f[x] + Sums(f)[s \ {x}]

\* If any element may be taken out of the smaller sets, it may be out of this one.
LEMMA TakesOutStep ==
  ASSUME NEW S, IsFiniteSet(S), NEW f \in [S -> Int], NEW s \in SUBSET S,
         \A t \in SUBSET S : Cardinality(t) < Cardinality(s) => TakesOut(f, t)
  PROVE  TakesOut(f, s)
<1>1. CASE s = {}
  BY <1>1, SumUnfolds DEF TakesOut
<1>2. CASE s # {}
  <2>1. PICK c \in s : Sums(f)[s] = f[c] + Sums(f)[s \ {c}]
    BY <1>2, SumUnfolds
  <2>2. \A x \in s : TakesOut(f, s \ {x})
    <3>1. ASSUME NEW x \in s PROVE TakesOut(f, s \ {x})
      <4>1. s \ {x} \in SUBSET S /\ Cardinality(s \ {x}) < Cardinality(s)
        BY OneLess
      <4>. QED  BY <4>1
    <3>. QED  BY <3>1
  <2>3. f[c] \in Int /\ Sums(f)[s \ {c}] \in Int
    BY <2>2 DEF TakesOut
  <2>4. ASSUME NEW x \in s, x # c PROVE Sums(f)[s] = f[x] + Sums(f)[s \ {x}]
    <3>. DEFINE u == (s \ {c}) \ {x}
    <3>1. x \in s \ {c} /\ c \in s \ {x} /\ (s \ {x}) \ {c} = u
      BY <2>4
    <3>2. Sums(f)[s \ {c}] = f[x] + Sums(f)[u] /\ Sums(f)[s \ {x}] = f[c] + Sums(f)[u]
      <4>1. TakesOut(f, s \ {c}) /\ TakesOut(f, s \ {x})
        BY <2>2
      <4>2. Sums(f)[s \ {x}] = f[c] + Sums(f)[(s \ {x}) \ {c}]
        BY <3>1, <4>1 DEF TakesOut
      <4>. QED  BY <3>1, <4>1, <4>2 DEF TakesOut
    <3>3. u \in SUBSET S /\ Cardinality(u) < Cardinality(s)
      <4>1. /\ s \ {c} \in SUBSET S /\ Cardinality(s \ {c}) = Cardinality(s) - 1
            /\ Cardinality(s) \in Nat
        BY OneLess
      <4>2. u \in SUBSET S /\ Cardinality(u) = Cardinality(s \ {c}) - 1
        BY <3>1, <4>1, OneLess
      <4>. QED  BY <4>1, <4>2
    <3>4. Sums(f)[u] \in Int /\ f[x] \in Int
      BY <3>3 DEF TakesOut
    <3>. HIDE DEF u
    <3>. QED  BY <2>1, <2>3, <3>2, <3>4
  <2>5. Sums(f)[s] \in Int
    BY <2>1, <2>3
  <2>6. \A x \in s : Sums(f)[s] = f[x] + Sums(f)[s \ {x}]
    BY <2>1, <2>4
  <2>. QED  BY <2>5, <2>6 DEF TakesOut
<1>. QED  BY <1>1, <1>2

\* Any element may be taken out of a sum first, not the chosen one only.
LEMMA SumTakesOut ==
  ASSUME NEW S, IsFiniteSet(S), NEW f \in [S -> Int], NEW s \in SUBSET S
  PROVE  TakesOut(f, s)
<1>. DEFINE Wrong == {k \in Nat : \E t \in SUBSET S : Cardinality(t) = k /\ ~TakesOut(f, t)}
<1>1. \A t \in SUBSET S : Cardinality(t) \in Nat
  BY FS_Subset, FS_CardinalityType
<1>2. CASE Wrong = {}
  BY <1>1, <1>2
<1>3. CASE Wrong # {}
  <2>1. PICK k \in Wrong : \A x \in Wrong : k <= x
    BY <1>3, LeastExists
  <2>2. PICK t \in SUBSET S : Cardinality(t) = k /\ ~TakesOut(f, t)
    BY <2>1
  <2>3. \A u \in SUBSET S : Cardinality(u) < Cardinality(t) => TakesOut(f, u)
    BY <1>1, <2>1, <2>2
  <2>. QED  BY <2>2, <2>3, TakesOutStep
<1>. QED  BY <1>2, <1>3

\* Two sums over the same set differ by the one element in which they differ.
LEMMA SameSums ==
  ASSUME NEW S, IsFiniteSet(S), NEW f \in [S -> Int], NEW g \in [S -> Int], NEW s \in SUBSET S,
         \A y \in s : f[y] = g[y]
  PROVE  Sums(f)[s] = Sums(g)[s]
<1>. DEFINE Differ == {k \in Nat : \E t \in SUBSET s : Cardinality(t) = k /\ Sums(f)[t] # Sums(g)[t]}
<1>1. \A t \in SUBSET s : Cardinality(t) \in Nat
  BY FS_Subset, FS_CardinalityType
<1>2. CASE Differ = {}
  BY <1>1, <1>2
<1>3. CASE Differ # {}
  <2>1. PICK k \in Differ : \A x \in Differ : k <= x
    BY <1>3, LeastExists
  <2>2. PICK t \in SUBSET s : Cardinality(t) = k /\ Sums(f)[t] # Sums(g)[t]
    BY <2>1
  <2>3. \A u \in SUBSET s : Cardinality(u) < Cardinality(t) => Sums(f)[u] = Sums(g)[u]
    BY <1>1, <2>1, <2>2
  <2>4. t # {}
    <3>1. Sums(f)[{}] = 0 /\ Sums(g)[{}] = 0
      BY SumUnfolds
    <3>. QED  BY <2>2, <3>1
  <2>5. PICK x \in t : x \in s
    BY <2>4
  <2>6. t \ {x} \in SUBSET s /\ Cardinality(t \ {x}) < Cardinality(t)
    BY OneLess
  <2>7. TakesOut(f, t) /\ TakesOut(g, t)
    BY SumTakesOut
  <2>. QED  BY <2>2, <2>3, <2>5, <2>6, <2>7 DEF TakesOut
<1>. QED  BY <1>2, <1>3

\* Two functions that differ at one element have sums that differ by as much.
LEMMA SumUpdated ==
  ASSUME NEW S, IsFiniteSet(S), NEW f \in [S -> Int], NEW g \in [S -> Int], NEW x \in S,
         \A y \in S \ {x} : g[y] = f[y]
  PROVE  /\ SumFunction(f) \in Int /\ SumFunction(g) \in Int
         /\ SumFunction(g) = SumFunction(f) - f[x] + g[x]
<1>1. SumFunction(f) = Sums(f)[S] /\ SumFunction(g) = Sums(g)[S]
  BY SumIsFold
<1>2. TakesOut(f, S) /\ TakesOut(g, S) /\ TakesOut(f, S \ {x})
  BY SumTakesOut
<1>3. Sums(f)[S \ {x}] = Sums(g)[S \ {x}]
  BY SameSums
<1>4. f[x] \in Int /\ g[x] \in Int /\ Sums(f)[S \ {x}] \in Int
  BY <1>2 DEF TakesOut
<1>. QED  BY <1>1, <1>2, <1>3, <1>4 DEF TakesOut

\* A sum of numbers is not below any of them.
LEMMA SumsOfNumbers ==
  ASSUME NEW S, IsFiniteSet(S), NEW f \in [S -> Nat], NEW s \in SUBSET S
  PROVE  Sums(f)[s] \in Nat
<1>0. f \in [S -> Int]
  OBVIOUS
<1>. DEFINE Wrong == {k \in Nat : \E t \in SUBSET s : Cardinality(t) = k /\ Sums(f)[t] \notin Nat}
<1>1. \A t \in SUBSET s : Cardinality(t) \in Nat
  BY FS_Subset, FS_CardinalityType
<1>2. CASE Wrong = {}
  BY <1>1, <1>2
<1>3. CASE Wrong # {}
  <2>1. PICK k \in Wrong : \A x \in Wrong : k <= x
    BY <1>3, LeastExists
  <2>2. PICK t \in SUBSET s : Cardinality(t) = k /\ Sums(f)[t] \notin Nat
    BY <2>1
  <2>3. \A u \in SUBSET s : Cardinality(u) < Cardinality(t) => Sums(f)[u] \in Nat
    BY <1>1, <2>1, <2>2
  <2>4. t # {}
    <3>1. Sums(f)[{}] = 0
      BY <1>0, SumUnfolds
    <3>. QED  BY <2>2, <3>1
  <2>5. PICK x \in t : x \in S
    BY <2>4
  <2>6. t \ {x} \in SUBSET s /\ Cardinality(t \ {x}) < Cardinality(t)
    BY OneLess
  <2>7. TakesOut(f, t)
    BY <1>0, SumTakesOut
  <2>8. f[x] \in Nat /\ Sums(f)[t \ {x}] \in Nat /\ Sums(f)[t] = f[x] + Sums(f)[t \ {x}]
    BY <2>3, <2>5, <2>6, <2>7 DEF TakesOut
  <2>. QED  BY <2>2, <2>8
<1>. QED  BY <1>2, <1>3

\* A sum of natural numbers is one, and none of them is greater.
LEMMA SumAtLeast ==
  ASSUME NEW S, IsFiniteSet(S), NEW f \in [S -> Nat]
  PROVE  SumFunction(f) \in Nat /\ \A x \in S : f[x] <= SumFunction(f)
<1>1. f \in [S -> Int] /\ DOMAIN f = S
  OBVIOUS
<1>2. TakesOut(f, S) /\ SumFunction(f) = Sums(f)[S]
  BY <1>1, SumTakesOut, SumIsFold
<1>3. \A s \in SUBSET S : Sums(f)[s] \in Nat
  BY SumsOfNumbers
<1>4. ASSUME NEW x \in S PROVE f[x] <= SumFunction(f)
  <2>1. S \ {x} \in SUBSET S
    OBVIOUS
  <2>2. Sums(f)[S \ {x}] \in Nat /\ f[x] \in Nat
    BY <1>3, <2>1
  <2>. QED  BY <1>2, <2>2 DEF TakesOut
<1>. QED  BY <1>2, <1>3, <1>4
-----------------------------------------------------------------------------
(* The amount of memory.                                                   *)

\* Whoever has yet to get memory is known once, and has none.
OnceWaiting ==
  /\ \A p \in new : block[p] = None
  /\ \A i \in 1 .. Len(waitQ) : waitQ[i] \notin new /\ block[waitQ[i]] = None
  /\ \A i, j \in 1 .. Len(waitQ) : waitQ[i] = waitQ[j] => i = j

\* The bytes in the holes of each list, and those of each process.
ListSpace(fl) == [m \in Order |-> BlockSize[m] * Len(fl[m])]
BlockSpace(blk) == [p \in Id |-> IF blk[p] = None THEN 0 ELSE BlockSize[blk[p].order]]

\* The memory in the lists is a number for each of the finitely many lists.
LEMMA ListSpaceType ==
  ASSUME NEW fl \in [Order -> Seq(Nat)]
  PROVE  /\ ListSpace(fl) \in [Order -> Nat] /\ ListSpace(fl) \in [Order -> Int]
         /\ IsFiniteSet(Order)
<1>1. IsFiniteSet(Order)
  BY MaxOrderAssumption, FS_Interval DEF Order
<1>2. ASSUME NEW m \in Order PROVE BlockSize[m] * Len(fl[m]) \in Nat
  <2>1. BlockSize[m] \in Nat /\ Len(fl[m]) \in Nat
    BY BlockSizeAssumption, LenProperties DEF Order
  <2>. QED  BY <2>1
<1>. QED  BY <1>1, <1>2 DEF ListSpace

\* One list with one hole more or less.
LEMMA OneListChanges ==
  ASSUME NEW fl \in [Order -> Seq(Nat)], NEW m \in Order, NEW s \in Seq(Nat), NEW d \in Int,
         Len(s) = Len(fl[m]) + d
  PROVE  /\ SumFunction(ListSpace(fl)) \in Nat
         /\ SumFunction(ListSpace([fl EXCEPT ![m] = s]))
              = SumFunction(ListSpace(fl)) + BlockSize[m] * d
<1>. DEFINE g == [fl EXCEPT ![m] = s]
<1>1. g \in [Order -> Seq(Nat)]
  OBVIOUS
<1>2. BlockSize[m] \in Nat /\ Len(fl[m]) \in Nat /\ Len(s) \in Nat
  BY BlockSizeAssumption, LenProperties DEF Order
<1>3. ListSpace(fl) \in [Order -> Int] /\ ListSpace(g) \in [Order -> Int] /\ IsFiniteSet(Order)
  BY <1>1, ListSpaceType
<1>4. \A i \in Order \ {m} : ListSpace(g)[i] = ListSpace(fl)[i]
  BY DEF ListSpace
<1>5. ListSpace(g)[m] = BlockSize[m] * Len(s) /\ ListSpace(fl)[m] = BlockSize[m] * Len(fl[m])
  BY DEF ListSpace
<1>6. BlockSize[m] * Len(s) = BlockSize[m] * Len(fl[m]) + BlockSize[m] * d
  BY <1>2
<1>7. /\ SumFunction(ListSpace(fl)) \in Int
      /\ SumFunction(ListSpace(g)) = SumFunction(ListSpace(fl)) - ListSpace(fl)[m] + ListSpace(g)[m]
  BY <1>3, <1>4, SumUpdated
<1>8. SumFunction(ListSpace(fl)) \in Nat
  BY ListSpaceType, SumAtLeast
<1>9. BlockSize[m] * Len(fl[m]) \in Int /\ BlockSize[m] * d \in Int
  BY <1>2
<1>. HIDE DEF g
<1>10. SumFunction(ListSpace(g)) = SumFunction(ListSpace(fl)) + BlockSize[m] * d
  BY <1>5, <1>6, <1>7, <1>9
<1>. QED  BY <1>8, <1>10 DEF g

\* A split hands a weight down from list to list, and its half at list n is taken.
LEMMA SplitSum ==
  ASSUME NEW f \in [Order -> Int], NEW g \in [Order -> Int], NEW c \in [Order -> Int],
         NEW n \in Order, NEW s \in Order, n <= s,
         \A m \in Order : m \notin n .. s => g[m] = f[m],
         \A m \in n .. s - 1 : g[m] = f[m] + (c[m + 1] - c[m]),
         g[s] = f[s] - c[s]
  PROVE  SumFunction(f) \in Int /\ SumFunction(g) = SumFunction(f) - c[n]
<1>. DEFINE Part(k) == [m \in Order |-> IF m \in n .. k - 1 THEN g[m] ELSE f[m]]
            Gain(k) == SumFunction(Part(k)) = SumFunction(f) + (c[k] - c[n])
            Wrong == {k \in Nat : k \in n .. s /\ ~Gain(k)}
<1>1. IsFiniteSet(Order) /\ n \in Nat /\ s \in Nat /\ n .. s \subseteq Order
  BY MaxOrderAssumption, FS_Interval DEF Order
<1>2. \A k \in Nat : Part(k) \in [Order -> Int]
  OBVIOUS
<1>3. SumFunction(f) \in Int
  BY <1>1, SumUpdated
<1>4. Gain(n)
  <2>1. \A m \in Order : m \notin n .. n - 1
    BY <1>1
  <2>2. Part(n) = f
    BY <2>1
  <2>3. c[n] \in Int
    OBVIOUS
  <2>. HIDE DEF Part
  <2>. QED  BY <1>3, <2>2, <2>3
<1>5. ASSUME NEW k \in n .. s - 1, Gain(k) PROVE Gain(k + 1)
  <2>1. k \in Order /\ k + 1 \in Order /\ k \in Nat /\ k + 1 \in Nat /\ (k + 1) - 1 = k
    BY <1>1
  <2>2. k \notin n .. k - 1 /\ k \in n .. k
    BY <2>1
  <2>3. Part(k)[k] = f[k] /\ Part(k + 1)[k] = g[k]
    BY <2>1, <2>2
  <2>4. \A m \in Order \ {k} : Part(k + 1)[m] = Part(k)[m]
    <3>1. \A m \in Order \ {k} : m \in n .. k <=> m \in n .. k - 1
      BY <1>1, <2>1 DEF Order
    <3>. QED  BY <2>1, <3>1
  <2>5. PICK a \in [Order -> Int], b \in [Order -> Int] : a = Part(k) /\ b = Part(k + 1)
    BY <1>2, <2>1
  <2>. HIDE DEF Part
  <2>6. SumFunction(a) \in Int /\ SumFunction(b) = SumFunction(a) - a[k] + b[k]
    <3>1. \A m \in Order \ {k} : b[m] = a[m]
      BY <2>4, <2>5
    <3>2. k \in Order /\ IsFiniteSet(Order)
      BY <1>1, <2>1
    <3>. QED  BY ONLY <3>1, <3>2, SumUpdated, a \in [Order -> Int], b \in [Order -> Int]
  <2>7. g[k] = f[k] + (c[k + 1] - c[k])
    OBVIOUS
  <2>8. f[k] \in Int /\ c[k] \in Int /\ c[k + 1] \in Int /\ c[n] \in Int
    BY <2>1
  <2>. QED  BY <1>3, <1>5, <2>3, <2>5, <2>6, <2>7, <2>8
<1>6. Gain(s)
  <2>. HIDE DEF Gain
  <2>1. SUFFICES ASSUME Wrong # {} PROVE FALSE
    BY <1>1
  <2>2. PICK k \in Wrong : \A x \in Wrong : k <= x
    BY <2>1, LeastExists
  <2>3. k # n /\ k \in n .. s /\ k - 1 \in n .. s - 1 /\ k - 1 \in Nat /\ (k - 1) + 1 = k
    BY <1>1, <1>4, <2>2
  <2>4. Gain(k - 1)
    BY <1>1, <2>2, <2>3
  <2>. QED  BY <1>5, <2>2, <2>3, <2>4
<1>7. \A m \in Order \ {s} : g[m] = Part(s)[m]
  BY <1>1 DEF Order
<1>8. Part(s)[s] = f[s]
  <2>1. s \notin n .. s - 1
    BY <1>1
  <2>. QED  BY <2>1
<1>9. PICK a \in [Order -> Int] : a = Part(s)
  BY <1>1, <1>2
<1>. HIDE DEF Part
<1>10. SumFunction(a) \in Int /\ SumFunction(g) = SumFunction(a) - a[s] + g[s]
  <2>1. \A m \in Order \ {s} : g[m] = a[m]
    BY <1>7, <1>9
  <2>2. s \in Order /\ IsFiniteSet(Order)
    BY <1>1
  <2>. QED  BY <2>1, <2>2, SumUpdated
<1>11. f[s] \in Int /\ c[s] \in Int /\ c[n] \in Int
  OBVIOUS
<1>. QED  BY <1>3, <1>6, <1>8, <1>9, <1>10, <1>11

\* What allocate finds and leaves: every list between that of the request and the
\* one the hole comes from had no hole and gets one.
LEMMA CarvedLists ==
  ASSUME NEW fl \in [Order -> Seq(Nat)], NEW sz \in Nat, Fits(fl, sz)
  PROVE  LET n == OrderFor(sz)
             s == SourceList(fl, n)
             h == HoleTaken(fl, n)
             c == Carve(fl, n)
         IN  /\ n \in Order /\ s \in Order /\ n <= s /\ n \in Nat /\ s \in Nat
             /\ n .. s - 1 \subseteq Order /\ \A m \in n .. s - 1 : m + 1 \in Order
             /\ h \in Nat /\ c \in [Order -> Seq(Nat)]
             /\ \A m \in Order : m \notin n .. s => c[m] = fl[m]
             /\ \A m \in n .. s - 1 : fl[m] = <<>> /\ c[m] = <<h + BlockSize[m]>>
                                      /\ BlockSize[m + 1] = 2 * BlockSize[m]
             /\ fl[s] \in Seq(Nat) /\ fl[s] # <<>> /\ h = Head(fl[s]) /\ c[s] = Tail(fl[s])
<1>. DEFINE n == OrderFor(sz)
            s == SourceList(fl, n)
            h == HoleTaken(fl, n)
            c == Carve(fl, n)
<1>1. /\ n \in Order /\ s \in Order /\ n <= s /\ fl[s] # <<>>
      /\ \A i \in Order : i >= n /\ fl[i] # <<>> => s <= i
  BY SourceListFirst
<1>2. h \in Nat /\ c \in [Order -> Seq(Nat)]
  BY CarveType
<1>3. \A m \in Order : c[m] = IF m = s THEN Tail(fl[m])
                              ELSE IF m \in n .. s - 1 THEN <<h + BlockSize[m]>> ELSE fl[m]
  BY DEF Carve, HalvesLeft
<1>4. h = Head(fl[s])
  BY DEF HoleTaken
<1>. HIDE DEF n, s, h, c
<1>5. n \in Nat /\ s \in Nat /\ n .. s - 1 \subseteq Order /\ \A m \in n .. s - 1 : m + 1 \in Order
  BY <1>1, MaxOrderAssumption DEF Order
<1>6. \A m \in n .. s - 1 : fl[m] = <<>>
  BY <1>1, <1>5
<1>7. \A m \in n .. s - 1 : m # s
  BY <1>5
<1>8. \A m \in n .. s - 1 : c[m] = <<h + BlockSize[m]>>
  BY <1>3, <1>5, <1>7
<1>9. \A m \in n .. s - 1 : BlockSize[m + 1] = 2 * BlockSize[m]
  BY <1>1, <1>5, BlockSizeAssumption, MaxOrderAssumption DEF Order
<1>10. \A m \in Order : m \notin n .. s => c[m] = fl[m]
  <2>1. \A m \in Order : m \notin n .. s => m # s /\ m \notin n .. s - 1
    BY <1>1, <1>5
  <2>. QED  BY <1>3, <2>1
<1>11. c[s] = Tail(fl[s]) /\ fl[s] \in Seq(Nat)
  BY <1>1, <1>3
<1>. QED  BY <1>1, <1>2, <1>4, <1>5, <1>6, <1>8, <1>9, <1>10, <1>11 DEF n, s, h, c

\* Splitting a hole takes the length of the block from the lists.
LEMMA CarveSpace ==
  ASSUME NEW fl \in [Order -> Seq(Nat)], NEW sz \in Nat, Fits(fl, sz)
  PROVE  SumFunction(ListSpace(Carve(fl, OrderFor(sz))))
           = SumFunction(ListSpace(fl)) - BlockSize[OrderFor(sz)]
<1>. DEFINE n == OrderFor(sz)
            s == SourceList(fl, n)
            h == HoleTaken(fl, n)
            c == Carve(fl, n)
<1>1. /\ n \in Order /\ s \in Order /\ n <= s
      /\ n .. s - 1 \subseteq Order
      /\ c \in [Order -> Seq(Nat)]
      /\ \A m \in Order : m \notin n .. s => c[m] = fl[m]
      /\ \A m \in n .. s - 1 : fl[m] = <<>> /\ c[m] = <<h + BlockSize[m]>>
                               /\ BlockSize[m + 1] = 2 * BlockSize[m]
      /\ fl[s] \in Seq(Nat) /\ fl[s] # <<>> /\ c[s] = Tail(fl[s])
  BY CarvedLists
<1>. HIDE DEF n, s, h, c
<1>2. PICK f \in [Order -> Int], g \in [Order -> Int], w \in [Order -> Int] :
        f = ListSpace(fl) /\ g = ListSpace(c) /\ w = BlockSize
  <2>1. BlockSize \in [Order -> Int]
    BY BlockSizeAssumption DEF Order
  <2>. QED  BY <1>1, <2>1, ListSpaceType
<1>3. \A m \in Order : f[m] = BlockSize[m] * Len(fl[m]) /\ g[m] = BlockSize[m] * Len(c[m])
                       /\ BlockSize[m] \in Nat
  BY <1>2, BlockSizeAssumption DEF ListSpace, Order
<1>4. \A m \in Order : m \notin n .. s => g[m] = f[m]
  BY <1>1, <1>3
<1>5. ASSUME NEW m \in n .. s - 1 PROVE g[m] = f[m] + (w[m + 1] - w[m])
  <2>1. m \in Order /\ fl[m] = <<>> /\ c[m] = <<h + BlockSize[m]>> /\ BlockSize[m + 1] = 2 * BlockSize[m]
    BY <1>1
  <2>2. Len(fl[m]) = 0 /\ Len(c[m]) = 1
    BY <2>1
  <2>3. f[m] = BlockSize[m] * 0 /\ g[m] = BlockSize[m] * 1 /\ BlockSize[m] \in Nat
    BY <1>3, <2>1, <2>2
  <2>. QED  BY <1>2, <2>1, <2>3
<1>6. g[s] = f[s] - w[s]
  <2>1. Len(fl[s]) \in Nat /\ Len(c[s]) = Len(fl[s]) - 1
    BY <1>1, HeadTailProperties, LenProperties
  <2>2. BlockSize[s] * (Len(fl[s]) - 1) = BlockSize[s] * Len(fl[s]) - BlockSize[s]
    BY <1>1, <1>3, <2>1
  <2>. QED  BY <1>1, <1>2, <1>3, <2>1, <2>2
<1>7. SumFunction(g) = SumFunction(f) - w[n]
  BY <1>1, <1>4, <1>5, <1>6, SplitSum
<1>. QED  BY <1>2, <1>7 DEF c, n

\* Nothing adds up to nothing.
LEMMA SumOfZeros ==
  ASSUME NEW S, IsFiniteSet(S), NEW f \in [S -> Nat], \A x \in S : f[x] = 0
  PROVE  SumFunction(f) = 0
<1>. DEFINE Wrong == {k \in Nat : \E t \in SUBSET S : Cardinality(t) = k /\ Sums(f)[t] # 0}
<1>0. f \in [S -> Int] /\ DOMAIN f = S
  OBVIOUS
<1>1. \A t \in SUBSET S : Cardinality(t) \in Nat
  BY FS_Subset, FS_CardinalityType
<1>2. CASE Wrong = {}
  BY <1>0, <1>1, <1>2, SumIsFold
<1>3. CASE Wrong # {}
  <2>1. PICK k \in Wrong : \A x \in Wrong : k <= x
    BY <1>3, LeastExists
  <2>2. PICK t \in SUBSET S : Cardinality(t) = k /\ Sums(f)[t] # 0
    BY <2>1
  <2>3. \A u \in SUBSET S : Cardinality(u) < Cardinality(t) => Sums(f)[u] = 0
    BY <1>1, <2>1, <2>2
  <2>4. Sums(f)[{}] = 0
    BY <1>0, SumUnfolds
  <2>5. PICK x \in t : x \in S
    BY <2>2, <2>4
  <2>6. t \ {x} \in SUBSET S /\ Cardinality(t \ {x}) < Cardinality(t)
    BY OneLess
  <2>7. Sums(f)[t] = f[x] + Sums(f)[t \ {x}]
    BY <1>0, SumTakesOut DEF TakesOut
  <2>. QED  BY <2>2, <2>3, <2>5, <2>6, <2>7
<1>. QED  BY <1>2, <1>3

\* One process gets a block or gives it back.
LEMMA OneBlockChanges ==
  ASSUME NEW blk \in [Id -> Block \cup {None}], NEW p \in Id, NEW b \in Block \cup {None}
  PROVE  /\ SumFunction(BlockSpace(blk)) \in Nat
         /\ BlockSpace(blk)[p] \in Nat
         /\ SumFunction(BlockSpace([blk EXCEPT ![p] = b]))
              = SumFunction(BlockSpace(blk)) - BlockSpace(blk)[p]
                + (IF b = None THEN 0 ELSE BlockSize[b.order])
<1>. DEFINE new1 == [blk EXCEPT ![p] = b]
<1>1. new1 \in [Id -> Block \cup {None}]
  OBVIOUS
<1>2. \A x \in Block : BlockSize[x.order] \in Nat
  BY BlockSizeAssumption DEF Block, Order
<1>3. BlockSpace(blk) \in [Id -> Nat] /\ BlockSpace(new1) \in [Id -> Nat]
  BY <1>1, <1>2 DEF BlockSpace
<1>4. \A q \in Id \ {p} : BlockSpace(new1)[q] = BlockSpace(blk)[q]
  BY DEF BlockSpace
<1>5. BlockSpace(new1)[p] = IF b = None THEN 0 ELSE BlockSize[b.order]
  BY DEF BlockSpace
<1>. HIDE DEF new1
<1>6. SumFunction(BlockSpace(blk)) \in Nat
  BY <1>3, IdAssumption, SumAtLeast
<1>7. PICK f \in [Id -> Int], g \in [Id -> Int] : f = BlockSpace(blk) /\ g = BlockSpace(new1)
  BY <1>3
<1>8. SumFunction(g) = SumFunction(f) - f[p] + g[p]
  BY <1>4, <1>7, IdAssumption, SumUpdated
<1>. QED  BY <1>3, <1>5, <1>6, <1>7, <1>8 DEF new1

ConservedInv == TypeOK /\ OnceWaiting /\ MemoryConserved

\* The two totals of the invariant, as sums of the functions above.
LEMMA SpacesAre ==
  /\ HoleSpace = SumFunction(ListSpace(free))
  /\ GivenSpace = SumFunction(BlockSpace(block))
BY DEF HoleSpace, GivenSpace, ListSpace, BlockSpace

\* At the start the last list holds the whole memory in one hole.
LEMMA ConservedInit == Init => OnceWaiting /\ MemoryConserved
<1>. SUFFICES ASSUME Init PROVE OnceWaiting /\ MemoryConserved
  OBVIOUS
<1>1. OnceWaiting
  BY DEF Init, OnceWaiting
<1>2. TypeOK
  BY InitType
<1>. DEFINE none == [m \in Order |-> <<>>]
<1>3. none \in [Order -> Seq(Nat)] /\ MaxOrder \in Order /\ <<0>> \in Seq(Nat)
  BY MaxOrderAssumption DEF Order
<1>4. free = [none EXCEPT ![MaxOrder] = <<0>>]
  BY DEF Init, InitialLists
<1>5. Len(<<0>>) = Len(none[MaxOrder]) + 1
  BY <1>3
<1>6. \A m \in Order : ListSpace(none)[m] = 0
  <2>1. ASSUME NEW m \in Order PROVE ListSpace(none)[m] = 0
    <3>1. ListSpace(none)[m] = BlockSize[m] * 0 /\ BlockSize[m] \in Nat
      BY BlockSizeAssumption DEF ListSpace, Order
    <3>. QED  BY <3>1
  <2>. QED  BY <2>1
<1>. HIDE DEF none
<1>7. SumFunction(ListSpace(free)) = SumFunction(ListSpace(none)) + BlockSize[MaxOrder] * 1
  <2>1. PICK s \in Seq(Nat) : s = <<0>>
    BY <1>3
  <2>2. PICK d \in Int : d = 1
    OBVIOUS
  <2>3. free = [none EXCEPT ![MaxOrder] = s] /\ Len(s) = Len(none[MaxOrder]) + d
    BY <1>4, <1>5, <2>1, <2>2
  <2>4. SumFunction(ListSpace([none EXCEPT ![MaxOrder] = s]))
          = SumFunction(ListSpace(none)) + BlockSize[MaxOrder] * d
    BY <1>3, <2>3, OneListChanges
  <2>. QED  BY <2>2, <2>3, <2>4
<1>8. SumFunction(ListSpace(none)) = 0
  <2>1. ListSpace(none) \in [Order -> Nat] /\ IsFiniteSet(Order)
    BY <1>3, ListSpaceType
  <2>. QED  BY <1>6, <2>1, SumOfZeros
<1>9. SumFunction(BlockSpace(block)) = 0
  <2>1. BlockSpace(block) \in [Id -> Nat] /\ \A p \in Id : BlockSpace(block)[p] = 0
    BY DEF Init, BlockSpace
  <2>. QED  BY <2>1, IdAssumption, SumOfZeros
<1>10. BlockSize[MaxOrder] \in Nat
  BY <1>3, BlockSizeAssumption DEF Order
<1>11. pc # "merge"
  BY DEF Init
<1>. QED  BY <1>1, <1>7, <1>8, <1>9, <1>10, <1>11, SpacesAre DEF MemoryConserved, Total

\* What an allocation takes from the lists is what it gives to the process.
LEMMA AllocateConserves ==
  ASSUME TypeOK, NEW p \in Id, Allocate(p), block[p] = None
  PROVE  HoleSpace' + GivenSpace' = HoleSpace + GivenSpace
<1>. DEFINE n == OrderFor(memsize[p])
            b == [start |-> HoleTaken(free, n), order |-> n]
<1>1. /\ Fits(free, memsize[p]) /\ memsize[p] \in Nat /\ free \in [Order -> Seq(Nat)]
      /\ block \in [Id -> Block \cup {None}]
      /\ block' = [block EXCEPT ![p] = b] /\ free' = Carve(free, n)
  BY WaitersTyped DEF Allocate, TypeOK
<1>2. n \in Order /\ HoleTaken(free, n) \in Nat
  BY <1>1, SourceListFirst, CarveType
<1>3. SumFunction(ListSpace(free')) = SumFunction(ListSpace(free)) - BlockSize[n]
  BY <1>1, CarveSpace
<1>. HIDE DEF n
<1>4. b \in Block /\ b # None /\ b.order = n
  <2>1. b \in Block
    BY <1>2 DEF Block
  <2>. QED  BY <2>1, NoneAssumption DEF Block
<1>. HIDE DEF b
<1>5. /\ SumFunction(BlockSpace(block)) \in Nat
      /\ SumFunction(BlockSpace(block'))
           = SumFunction(BlockSpace(block)) - BlockSpace(block)[p] + BlockSize[n]
  BY <1>1, <1>4, OneBlockChanges
<1>6. BlockSpace(block)[p] = 0
  BY <1>1 DEF Allocate, BlockSpace
<1>7. SumFunction(ListSpace(free)) \in Nat /\ BlockSize[n] \in Nat
  BY <1>1, <1>2, ListSpaceType, SumAtLeast, BlockSizeAssumption DEF Order
<1>8. HoleSpace' = SumFunction(ListSpace(free')) /\ GivenSpace' = SumFunction(BlockSpace(block'))
  BY DEF HoleSpace, GivenSpace, ListSpace, BlockSpace
<1>. QED  BY <1>3, <1>5, <1>6, <1>7, <1>8, SpacesAre

\* The numbers of bytes that holes and blocks have.
LEMMA SpacesType ==
  ASSUME TypeOK
  PROVE  HoleSpace \in Nat /\ GivenSpace \in Nat
<1>1. BlockSpace(block) \in [Id -> Nat]
  BY BlockSizeAssumption DEF BlockSpace, Block, Order, TypeOK
<1>. QED  BY <1>1, IdAssumption, ListSpaceType, SumAtLeast, SpacesAre DEF TypeOK

\* Two holes are merged only if there is room for both, so never in the last list.
LEMMA BelowLastList ==
  ASSUME TypeOK, MemoryConserved, pc = "merge", Len(list) - 1 >= 1
  PROVE  /\ level \in Order /\ level < MaxOrder /\ level + 1 \in Order
         /\ BlockSize[level + 1] = 2 * BlockSize[level]
<1>1. Len(list) \in Nat /\ Len(list) = Len(free[level]) + 1 /\ level \in Order
  BY MergeListType, LenProperties
<1>. HIDE DEF list
<1>2. free[level] \in Seq(Nat) /\ Len(free[level]) \in Nat /\ Len(free[level]) >= 1
  <2>1. free[level] \in Seq(Nat) /\ Len(free[level]) \in Nat
    BY <1>1, LenProperties DEF TypeOK
  <2>. QED  BY <1>1, <2>1
<1>3. BlockSize[level] \in Nat \ {0}
  BY <1>1, BlockSizeAssumption DEF Order
<1>4. BlockSize[level] <= HoleSpace
  <2>1. ListSpace(free)[level] = BlockSize[level] * Len(free[level])
    BY <1>1 DEF ListSpace
  <2>2. ListSpace(free)[level] <= HoleSpace
    <3>1. free \in [Order -> Seq(Nat)]
      BY DEF TypeOK
    <3>2. PICK f \in [Order -> Nat] : f = ListSpace(free)
      BY <3>1, ListSpaceType
    <3>3. IsFiniteSet(Order)
      BY <3>1, ListSpaceType
    <3>4. f[level] <= SumFunction(f)
      BY ONLY <1>1, <3>2, <3>3, SumAtLeast
    <3>. QED  BY <3>2, <3>4, SpacesAre
  <2>3. BlockSize[level] <= BlockSize[level] * Len(free[level])
    <3>0. Len(free[level]) - 1 \in Nat /\ BlockSize[level] \in Nat
      BY <1>2, <1>3
    <3>1. PICK b \in Nat, l \in Nat : b = BlockSize[level] /\ l = Len(free[level]) - 1
      BY ONLY <3>0
    <3>2. b * l \in Nat /\ b * (l + 1) = b * l + b
      OBVIOUS
    <3>3. Len(free[level]) = l + 1
      BY <1>2, <3>1
    <3>. QED  BY <3>1, <3>2, <3>3
  <2>4. BlockSize[level] * Len(free[level]) \in Nat /\ HoleSpace \in Nat
    BY <1>2, <1>3, SpacesType
  <2>. QED  BY <1>3, <2>1, <2>2, <2>3, <2>4
<1>5. Total = HoleSpace + GivenSpace + BlockSize[level]
  BY DEF MemoryConserved
<1>6. level # MaxOrder
  BY <1>3, <1>4, <1>5, SpacesType DEF Total
<1>7. level < MaxOrder /\ level + 1 \in Order /\ level \in 0 .. MaxOrder - 1
  BY <1>1, <1>6, MaxOrderAssumption DEF Order
<1>. QED  BY <1>1, <1>7, BlockSizeAssumption

\* What the merge loop leaves behind and what it carries on add up to what it had.
LEMMA MergeConserves ==
  ASSUME TypeOK, MemoryConserved, pc = "merge", NEW k \in 1 .. Len(list) - 1, MergeFrom(k)
  PROVE  MemoryConserved'
<1>1. list \in Seq(Nat) /\ Len(list) \in Nat /\ Len(list) = Len(free[level]) + 1 /\ level \in Order
  BY MergeListType, LenProperties
<1>. DEFINE s == RemoveTwo(list, k)
<1>2. s \in Seq(Nat) /\ Len(s) = Len(free[level]) + (-1)
  <2>. HIDE DEF list
  <2>1. RemoveAt(list, k) \in Seq(Nat) /\ Len(RemoveAt(list, k)) = Len(list) - 1
    <3>1. k \in 1 .. Len(list)
      BY <1>1
    <3>. QED  BY <1>1, <3>1, RemoveAtProperties
  <2>2. s \in Seq(Nat) /\ Len(s) = Len(list) - 2
    <3>1. k \in 1 .. Len(RemoveAt(list, k))
      BY <1>1, <2>1
    <3>2. /\ RemoveAt(RemoveAt(list, k), k) \in Seq(Nat)
          /\ Len(RemoveAt(RemoveAt(list, k), k)) = Len(RemoveAt(list, k)) - 1
      BY <2>1, <3>1, RemoveAtProperties
    <3>. QED  BY <1>1, <2>1, <3>2 DEF RemoveTwo
  <2>3. free[level] \in Seq(Nat) /\ Len(free[level]) \in Nat
    BY <1>1, LenProperties DEF TypeOK
  <2>. QED  BY <1>1, <2>2, <2>3
<1>3. free' = [free EXCEPT ![level] = s] /\ block' = block /\ level' = level + 1
      /\ pc' = IF level < MaxOrder THEN "merge" ELSE "scan"
  BY DEF MergeFrom
<1>4. level < MaxOrder /\ BlockSize[level + 1] = 2 * BlockSize[level]
  <2>1. Len(list) - 1 >= 1
    BY <1>1
  <2>. QED  BY <2>1, BelowLastList
<1>. HIDE DEF s, list
<1>5. /\ SumFunction(ListSpace(free)) \in Nat
      /\ SumFunction(ListSpace(free')) = SumFunction(ListSpace(free)) + BlockSize[level] * (-1)
  <2>1. PICK d \in Int : d = -1
    OBVIOUS
  <2>2. free \in [Order -> Seq(Nat)]
    BY DEF TypeOK
  <2>. QED  BY <1>1, <1>2, <1>3, <2>1, <2>2, OneListChanges
<1>6. BlockSize[level] \in Nat
  BY <1>1, BlockSizeAssumption DEF Order
<1>7. HoleSpace' = HoleSpace - BlockSize[level] /\ GivenSpace' = GivenSpace
  <2>1. HoleSpace' = SumFunction(ListSpace(free'))
    BY DEF HoleSpace, ListSpace
  <2>2. GivenSpace' = GivenSpace
    BY <1>3 DEF GivenSpace
  <2>. QED  BY <1>5, <1>6, <2>1, <2>2, SpacesAre
<1>8. Total = HoleSpace + GivenSpace + BlockSize[level]
  BY DEF MemoryConserved
<1>9. pc' = "merge" /\ Total' = Total /\ BlockSize[level]' = BlockSize[level + 1]
  BY <1>3, <1>4 DEF Total
<1>. QED  BY <1>4, <1>6, <1>7, <1>8, <1>9, SpacesType DEF MemoryConserved

\* A hole that is kept, the block of a process that has ended, and the scan.
LEMMA KeepConserves ==
  ASSUME TypeOK, MemoryConserved, KeepHole
  PROVE  MemoryConserved'
<1>1. /\ pc = "merge" /\ pc' = "scan" /\ free' = [free EXCEPT ![level] = list] /\ block' = block
      /\ free \in [Order -> Seq(Nat)]
  BY DEF KeepHole, TypeOK
<1>2. list \in Seq(Nat) /\ Len(list) = Len(free[level]) + 1 /\ level \in Order
  BY <1>1, MergeListType
<1>3. SumFunction(ListSpace(free)) \in Nat
      /\ SumFunction(ListSpace(free')) = SumFunction(ListSpace(free)) + BlockSize[level] * 1
  <2>1. PICK d \in Int, s \in Seq(Nat) : d = 1 /\ s = list
    BY <1>2
  <2>. HIDE DEF list
  <2>2. SumFunction(ListSpace(free)) \in Nat
        /\ SumFunction(ListSpace([free EXCEPT ![level] = s]))
             = SumFunction(ListSpace(free)) + BlockSize[level] * d
    BY <1>1, <1>2, <2>1, OneListChanges
  <2>. QED  BY <1>1, <2>1, <2>2
<1>4. BlockSize[level] \in Nat
  BY <1>2, BlockSizeAssumption DEF Order
<1>5. /\ HoleSpace' = SumFunction(ListSpace(free')) /\ GivenSpace' = GivenSpace
      /\ Total' = Total
  BY <1>1 DEF HoleSpace, GivenSpace, ListSpace, Total
<1>6. GivenSpace \in Nat
  BY SpacesType
<1>7. HoleSpace' = HoleSpace + BlockSize[level] /\ HoleSpace \in Nat
  BY <1>3, <1>4, <1>5, SpacesAre
<1>8. Total = HoleSpace + GivenSpace + BlockSize[level]
  BY <1>1 DEF MemoryConserved
<1>9. Total' = HoleSpace' + GivenSpace' + 0
  BY <1>4, <1>5, <1>6, <1>7, <1>8
<1>. QED  BY <1>1, <1>9 DEF MemoryConserved

\* What a process gives back is what the merge loop starts with.
LEMMA DeallocateConserves ==
  ASSUME TypeOK, MemoryConserved, NEW p \in Id, Deallocate(p)
  PROVE  MemoryConserved'
<1>1. /\ pc = "idle" /\ pc' = "merge" /\ level' = block[p].order /\ free' = free
      /\ block' = [block EXCEPT ![p] = None] /\ block[p] \in Block /\ block[p] # None
      /\ block \in [Id -> Block \cup {None}]
  BY DEF Deallocate, TypeOK
<1>2. /\ SumFunction(BlockSpace(block)) \in Nat
      /\ SumFunction(BlockSpace(block')) = SumFunction(BlockSpace(block)) - BlockSpace(block)[p]
  <2>1. PICK b \in Block \cup {None} : b = None
    OBVIOUS
  <2>2. /\ SumFunction(BlockSpace(block)) \in Nat /\ BlockSpace(block)[p] \in Nat
        /\ SumFunction(BlockSpace([block EXCEPT ![p] = b]))
             = SumFunction(BlockSpace(block)) - BlockSpace(block)[p] + 0
    BY <1>1, <2>1, OneBlockChanges
  <2>. QED  BY <1>1, <2>1, <2>2
<1>3. BlockSpace(block)[p] = BlockSize[level'] /\ BlockSize[level'] \in Nat
  BY <1>1, BlockSizeAssumption DEF BlockSpace, Block, Order
<1>4. /\ HoleSpace' = HoleSpace /\ GivenSpace' = SumFunction(BlockSpace(block'))
      /\ Total' = Total /\ BlockSize' = BlockSize
  BY <1>1 DEF HoleSpace, GivenSpace, BlockSpace, Total
<1>5. HoleSpace \in Nat
  BY SpacesType
<1>. QED  BY <1>1, <1>2, <1>3, <1>4, <1>5, SpacesAre DEF MemoryConserved

\* The scan removes the one it serves from waitQ, and the others stay known once.
LEMMA ServedOnce ==
  ASSUME TypeOK, OnceWaiting, NEW k \in 1 .. Len(waitQ), Allocate(waitQ[k]),
         waitQ' = RemoveAt(waitQ, k), new' = new
  PROVE  OnceWaiting'
<1>1. /\ waitQ \in Seq(Id) /\ Len(waitQ) \in Nat /\ k \in Nat
      /\ \A i \in 1 .. Len(waitQ) : waitQ[i] \in Id
      /\ block \in [Id -> Block \cup {None}] /\ new \subseteq Id
  BY WaitersTyped DEF TypeOK
<1>2. /\ Len(waitQ') = Len(waitQ) - 1
      /\ \A i \in 1 .. Len(waitQ) - 1 : waitQ'[i] = IF i < k THEN waitQ[i] ELSE waitQ[i + 1]
  BY <1>1, RemoveAtProperties
<1>3. \A q \in Id : q # waitQ[k] => block'[q] = block[q]
  BY <1>1 DEF Allocate
<1>4. PICK at \in [1 .. Len(waitQ) - 1 -> 1 .. Len(waitQ)] :
        \A i \in 1 .. Len(waitQ) - 1 : at[i] = IF i < k THEN i ELSE i + 1
  <2>. DEFINE at == [i \in 1 .. Len(waitQ) - 1 |-> IF i < k THEN i ELSE i + 1]
  <2>1. at \in [1 .. Len(waitQ) - 1 -> 1 .. Len(waitQ)]
    BY <1>1
  <2>. QED  BY <2>1
<1>5. \A i \in 1 .. Len(waitQ) - 1 : waitQ'[i] = waitQ[at[i]] /\ at[i] # k
  BY <1>1, <1>2, <1>4
<1>6. \A i, j \in 1 .. Len(waitQ) - 1 : at[i] = at[j] => i = j
  BY <1>1, <1>4
<1>7. \A i \in 1 .. Len(waitQ) - 1 : waitQ'[i] \notin new /\ block'[waitQ'[i]] = None
  <2>. SUFFICES ASSUME NEW i \in 1 .. Len(waitQ) - 1
                PROVE  waitQ'[i] \notin new /\ block'[waitQ'[i]] = None
    OBVIOUS
  <2>1. at[i] \in 1 .. Len(waitQ) /\ waitQ'[i] = waitQ[at[i]] /\ at[i] # k
    BY <1>4, <1>5
  <2>2. waitQ[at[i]] # waitQ[k] /\ waitQ[at[i]] \notin new /\ block[waitQ[at[i]]] = None
    BY <2>1 DEF OnceWaiting
  <2>3. waitQ[at[i]] \in Id
    BY <1>1, <2>1
  <2>. QED  BY <1>3, <2>1, <2>2, <2>3
<1>8. \A i, j \in 1 .. Len(waitQ) - 1 : waitQ'[i] = waitQ'[j] => i = j
  <2>. SUFFICES ASSUME NEW i \in 1 .. Len(waitQ) - 1, NEW j \in 1 .. Len(waitQ) - 1,
                       waitQ'[i] = waitQ'[j]
                PROVE  i = j
    OBVIOUS
  <2>1. at[i] \in 1 .. Len(waitQ) /\ at[j] \in 1 .. Len(waitQ)
    BY <1>4
  <2>2. waitQ[at[i]] = waitQ[at[j]]
    BY <1>5
  <2>3. at[i] = at[j]
    BY <2>1, <2>2 DEF OnceWaiting
  <2>. QED  BY <1>6, <2>3
<1>9. \A p \in new : block'[p] = None
  BY <1>1, <1>3 DEF OnceWaiting
<1>. QED  BY <1>2, <1>7, <1>8, <1>9 DEF OnceWaiting

\* Every step conserves the memory.
LEMMA ConservedStep == ConservedInv /\ [Next]_vars => OnceWaiting' /\ MemoryConserved'
<1>. SUFFICES ASSUME TypeOK, OnceWaiting, MemoryConserved, [Next]_vars
              PROVE  OnceWaiting' /\ MemoryConserved'
  BY DEF ConservedInv
<1>0. /\ waitQ \in Seq(Id) /\ Len(waitQ) \in Nat /\ new \subseteq Id
      /\ \A i \in 1 .. Len(waitQ) : waitQ[i] \in Id
      /\ block \in [Id -> Block \cup {None}]
  BY WaitersTyped DEF TypeOK
<1>a. ASSUME UNCHANGED <<free, block>>, pc # "merge", pc' # "merge" PROVE MemoryConserved'
  BY <1>a DEF MemoryConserved, HoleSpace, GivenSpace, Total
<1>b. ASSUME NEW p \in Id, Allocate(p), block[p] = None, pc # "merge", pc' = pc PROVE MemoryConserved'
  BY <1>b, AllocateConserves DEF MemoryConserved, Total
<1>1. ASSUME NEW p \in Id, ReceiveAllocated(p) PROVE OnceWaiting' /\ MemoryConserved'
  <2>1. p \in new /\ Allocate(p) /\ pc = "idle" /\ pc' = pc /\ new' = new \ {p} /\ waitQ' = waitQ
    BY <1>1 DEF ReceiveAllocated
  <2>2. \A q \in Id : q # p => block'[q] = block[q]
    BY <1>0, <2>1 DEF Allocate
  <2>3. OnceWaiting'
    BY <1>0, <2>1, <2>2 DEF OnceWaiting
  <2>. QED  BY <1>b, <2>1, <2>3 DEF OnceWaiting
<1>2. ASSUME NEW p \in Id, ReceiveWaiting(p) PROVE OnceWaiting' /\ MemoryConserved'
  <2>1. p \in new /\ pc = "idle" /\ pc' = pc /\ new' = new \ {p} /\ waitQ' = Append(waitQ, p)
        /\ UNCHANGED <<free, block>>
    BY <1>2 DEF ReceiveWaiting
  <2>2. /\ Len(waitQ') = Len(waitQ) + 1 /\ waitQ'[Len(waitQ) + 1] = p
        /\ \A i \in 1 .. Len(waitQ) : waitQ'[i] = waitQ[i]
    BY <1>0, <2>1, AppendProperties
  <2>3. \A i \in 1 .. Len(waitQ) + 1 : i \in 1 .. Len(waitQ) \/ i = Len(waitQ) + 1
    BY <1>0
  <2>4. \A i \in 1 .. Len(waitQ) : waitQ[i] # p
    BY <2>1 DEF OnceWaiting
  <2>5. \A i \in 1 .. Len(waitQ') : waitQ'[i] \notin new' /\ block'[waitQ'[i]] = None
    BY <2>1, <2>2, <2>3 DEF OnceWaiting
  <2>6. \A i, j \in 1 .. Len(waitQ') : waitQ'[i] = waitQ'[j] => i = j
    BY <2>2, <2>3, <2>4 DEF OnceWaiting
  <2>7. OnceWaiting'
    BY <2>1, <2>5, <2>6 DEF OnceWaiting
  <2>. QED  BY <1>a, <2>1, <2>7
<1>3. ASSUME NEW p \in Id, Deallocate(p) PROVE OnceWaiting' /\ MemoryConserved'
  <2>1. block' = [block EXCEPT ![p] = None] /\ UNCHANGED <<new, waitQ>>
    BY <1>3 DEF Deallocate
  <2>2. \A q \in Id : block[q] = None => block'[q] = None
    BY <1>0, <2>1
  <2>. QED  BY <1>0, <1>3, <2>1, <2>2, DeallocateConserves DEF OnceWaiting
<1>4. CASE MergePrevious
  <2>1. curr - 1 \in 1 .. Len(list) - 1
    BY <1>4, MergeListType, LenProperties DEF MergePrevious, MergesPre
  <2>2. MemoryConserved'
    BY <1>4, <2>1, MergeConserves DEF MergePrevious
  <2>. QED  BY <1>4, <2>2 DEF MergePrevious, MergeFrom, OnceWaiting
<1>5. CASE MergeNext
  <2>1. curr \in 1 .. Len(list) - 1
    BY <1>5, MergeListType, LenProperties DEF MergeNext, MergesNxt
  <2>2. MemoryConserved'
    BY <1>5, <2>1, MergeConserves DEF MergeNext
  <2>. QED  BY <1>5, <2>2 DEF MergeNext, MergeFrom, OnceWaiting
<1>6. CASE KeepHole
  BY <1>6, KeepConserves DEF KeepHole, OnceWaiting
<1>7. CASE ScanAllocate
  <2>1. /\ scan \in 1 .. Len(waitQ) /\ Allocate(waitQ[scan]) /\ waitQ' = RemoveAt(waitQ, scan)
        /\ new' = new /\ pc = "scan" /\ pc' = pc
    BY <1>0, <1>7 DEF ScanAllocate, TypeOK
  <2>2. waitQ[scan] \in Id /\ block[waitQ[scan]] = None
    BY <1>0, <2>1 DEF OnceWaiting
  <2>. QED  BY <1>b, <2>1, <2>2, ServedOnce
<1>8. CASE ScanSkip \/ ScanDone
  <2>1. UNCHANGED <<free, block, waitQ, new>> /\ pc # "merge" /\ pc' # "merge"
    BY <1>8 DEF ScanSkip, ScanDone
  <2>. QED  BY <1>a, <2>1 DEF OnceWaiting
<1>9. CASE UNCHANGED vars
  BY <1>9 DEF vars, MemoryConserved, HoleSpace, GivenSpace, Total, OnceWaiting
<1>. QED  BY <1>1, <1>2, <1>3, <1>4, <1>5, <1>6, <1>7, <1>8, <1>9 DEF Next

(* Whatever is merged, holes and blocks still add up to the memory there   *)
(* is: nothing is forgotten and the merge loop never gets past the last    *)
(* list.                                                                   *)
THEOREM NoMemoryIsLost == Spec => []MemoryConserved
<1>1. Init => ConservedInv
  BY InitType, ConservedInit DEF ConservedInv
<1>2. ConservedInv /\ [Next]_vars => ConservedInv'
  BY TypePreserved, ConservedStep DEF ConservedInv
<1>3. ConservedInv => MemoryConserved
  BY DEF ConservedInv
<1>. QED  BY <1>1, <1>2, <1>3, PTL DEF Spec

-----------------------------------------------------------------------------
(* Which unit of memory belongs to whom.                                   *)

\* The holes of a list that cover a unit, list by list, and the blocks that do.
HoleCount(s, m, u) == Cardinality({k \in 1 .. Len(s) : u \in Span(s[k], m)})
ListCover(fl, u) == [m \in Order |-> HoleCount(fl[m], m, u)]
BlockCover(blk, u) ==
  [p \in Id |-> IF blk[p] = None THEN 0 ELSE Covers(u, blk[p].start, blk[p].order)]

\* The owners of a unit, as the sum of the two counts above.
LEMMA CoverIs ==
  ASSUME NEW u \in Int
  PROVE  /\ Cover(u) = SumFunction(BlockCover(block, u)) + SumFunction(ListCover(free, u))
                       + (IF pc = "merge" THEN Covers(u, hole, level) ELSE 0)
         /\ Cover(u)' = SumFunction(BlockCover(block', u)) + SumFunction(ListCover(free', u))
                        + (IF pc' = "merge" THEN Covers(u, hole', level') ELSE 0)
BY DEF Cover, BlockCover, ListCover, HoleCount, Covers, Span

\* Of two lists that differ by the i-th hole of the longer one, the longer one covers
\* what the shorter one covers, and that hole.
OneMore(s, t, i) ==
  /\ i \in 1 .. Len(t) /\ Len(t) = Len(s) + 1
  /\ \A k \in 1 .. Len(s) : s[k] = IF k < i THEN t[k] ELSE t[k + 1]

\* One hole more, counted.
LEMMA OneHoleMore ==
  ASSUME NEW s \in Seq(Nat), NEW t \in Seq(Nat), NEW i, OneMore(s, t, i), NEW m, NEW u
  PROVE  /\ HoleCount(s, m, u) \in Nat
         /\ HoleCount(t, m, u) = HoleCount(s, m, u) + Covers(u, t[i], m)
<1>. DEFINE A == {k \in 1 .. Len(s) : u \in Span(s[k], m)}
            B == {k \in 1 .. Len(t) : u \in Span(t[k], m)}
            at == [k \in A |-> IF k < i THEN k ELSE k + 1]
<1>1. /\ Len(s) \in Nat /\ Len(t) \in Nat /\ i \in Nat
      /\ i \in 1 .. Len(t) /\ Len(t) = Len(s) + 1
      /\ \A k \in 1 .. Len(s) : s[k] = IF k < i THEN t[k] ELSE t[k + 1]
  BY LenProperties DEF OneMore
<1>2. IsFiniteSet(A) /\ IsFiniteSet(B)
  <2>1. IsFiniteSet(1 .. Len(s)) /\ IsFiniteSet(1 .. Len(t))
    BY <1>1, FS_Interval
  <2>2. A \subseteq 1 .. Len(s) /\ B \subseteq 1 .. Len(t)
    OBVIOUS
  <2>. QED  BY <2>1, <2>2, FS_Subset
<1>3. at \in [A -> B \ {i}]
  <2>. SUFFICES ASSUME NEW k \in A PROVE at[k] \in B \ {i}
    OBVIOUS
  <2>1. CASE k < i
    BY <1>1, <2>1
  <2>2. CASE ~(k < i)
    <3>1. k \in 1 .. Len(s) /\ k + 1 \in 1 .. Len(t) /\ k + 1 # i /\ s[k] = t[k + 1]
      BY <1>1, <2>2
    <3>. QED  BY <2>2, <3>1
  <2>. QED  BY <2>1, <2>2
<1>4. \A a, b \in A : at[a] = at[b] => a = b
  <2>1. \A k \in A : at[k] = IF k < i THEN k ELSE k + 1
    OBVIOUS
  <2>2. A \subseteq Nat
    BY <1>1
  <2>. HIDE DEF at, A
  <2>. SUFFICES ASSUME NEW a \in A, NEW b \in A, at[a] = at[b] PROVE a = b
    OBVIOUS
  <2>3. /\ a \in Nat /\ b \in Nat /\ i \in Nat
        /\ at[a] = IF a < i THEN a ELSE a + 1
        /\ at[b] = IF b < i THEN b ELSE b + 1
    BY <1>1, <2>1, <2>2
  <2>4. \A x, y, j \in Nat :
          (IF x < j THEN x ELSE x + 1) = (IF y < j THEN y ELSE y + 1) => x = y
    OBVIOUS
  <2>5. (IF a < i THEN a ELSE a + 1) = (IF b < i THEN b ELSE b + 1)
    BY <2>3
  <2>. QED  BY <2>3, <2>4, <2>5
<1>5. ASSUME NEW b \in B \ {i} PROVE \E a \in A : at[a] = b
  <2>0. b \in 1 .. Len(t) /\ b # i /\ b \in Int
    BY <1>1
  <2>1. CASE b < i
    <3>1. b \in 1 .. Len(s) /\ s[b] = t[b]
      BY <1>1, <2>0, <2>1
    <3>2. b \in A /\ at[b] = b
      BY <2>1, <3>1
    <3>. QED  BY <3>2
  <2>2. CASE ~(b < i)
    <3>1. b - 1 \in 1 .. Len(s) /\ ~(b - 1 < i) /\ (b - 1) + 1 = b
      BY <1>1, <2>0, <2>2
    <3>2. s[b - 1] = t[(b - 1) + 1]
      BY <1>1, <3>1
    <3>3. b - 1 \in A /\ at[b - 1] = b
      <4>1. s[b - 1] = t[b]
        BY <3>1, <3>2
      <4>2. b - 1 \in A
        BY <3>1, <4>1
      <4>. QED  BY <3>1, <4>2
    <3>. QED  BY <3>3
  <2>. QED  BY <2>1, <2>2
<1>. HIDE DEF at, A, B
<1>6. ExistsBijection(A, B \ {i})
  <2>1. at \in Injection(A, B \ {i})
    BY <1>3, <1>4 DEF Injection, IsInjective
  <2>2. at \in Surjection(A, B \ {i})
    BY <1>3, <1>5 DEF Surjection
  <2>. QED  BY <2>1, <2>2 DEF ExistsBijection, Bijection
<1>7. Cardinality(B \ {i}) = Cardinality(A) /\ Cardinality(A) \in Nat /\ Cardinality(B) \in Nat
  BY <1>2, <1>6, FS_Bijection, FS_CardinalityType
<1>8. CASE i \in B
  <2>1. Cardinality(B) = Cardinality(A) + 1
    <3>1. Cardinality(B \ {i}) = Cardinality(B) - 1
      BY <1>2, <1>8, FS_RemoveElement
    <3>. QED  BY <1>7, <3>1
  <2>2. Covers(u, t[i], m) = 1
    BY <1>8 DEF B, Covers
  <2>. QED  BY <1>7, <2>1, <2>2 DEF HoleCount, A, B
<1>9. CASE i \notin B
  <2>1. B \ {i} = B
    BY <1>9
  <2>2. Covers(u, t[i], m) = 0
    BY <1>1, <1>9 DEF B, Covers
  <2>3. Cardinality(B) = Cardinality(A)
    BY <1>7, <2>1
  <2>. QED  BY <1>7, <2>2, <2>3 DEF HoleCount, A, B
<1>. QED  BY <1>8, <1>9

\* An empty list covers nothing.
LEMMA EmptyCount ==
  ASSUME NEW m, NEW u
  PROVE  HoleCount(<<>>, m, u) = 0
<1>1. {k \in 1 .. Len(<<>>) : u \in Span(<<>>[k], m)} = {}
  OBVIOUS
<1>. QED  BY <1>1, FS_EmptySet DEF HoleCount

\* A list of one hole covers what the hole covers.
LEMMA SingleCount ==
  ASSUME NEW a \in Nat, NEW m, NEW u
  PROVE  HoleCount(<<a>>, m, u) = Covers(u, a, m)
<1>1. PICK s \in Seq(Nat), t \in Seq(Nat) : s = <<>> /\ t = <<a>>
  <2>1. <<>> \in Seq(Nat) /\ <<a>> \in Seq(Nat)
    OBVIOUS
  <2>. QED  BY <2>1
<1>2. OneMore(s, t, 1) /\ t[1] = a
  BY <1>1 DEF OneMore
<1>3. HoleCount(t, m, u) = HoleCount(s, m, u) + Covers(u, t[1], m)
  BY <1>2, OneHoleMore
<1>. QED  BY <1>1, <1>2, <1>3, EmptyCount DEF Covers

\* Without its first hole a list covers less by that hole.
LEMMA TailCount ==
  ASSUME NEW s \in Seq(Nat), s # <<>>, NEW m, NEW u
  PROVE  HoleCount(Tail(s), m, u) = HoleCount(s, m, u) - Covers(u, Head(s), m)
<1>1. PICK t \in Seq(Nat) : t = Tail(s)
  BY HeadTailProperties
<1>2. OneMore(t, s, 1) /\ s[1] = Head(s)
  <2>1. /\ Len(t) \in Nat /\ Len(s) \in Nat /\ Len(t) = Len(s) - 1 /\ s[1] = Head(s)
        /\ \A k \in 1 .. Len(t) : t[k] = s[k + 1]
    BY <1>1, HeadTailProperties, LenProperties
  <2>. QED  BY <2>1 DEF OneMore
<1>3. HoleCount(t, m, u) \in Nat /\ HoleCount(s, m, u) = HoleCount(t, m, u) + Covers(u, s[1], m)
  BY <1>2, OneHoleMore
<1>. QED  BY <1>1, <1>2, <1>3 DEF Covers

\* Without its k-th hole a list covers less by that hole.
LEMMA RemoveCount ==
  ASSUME NEW s \in Seq(Nat), NEW i \in 1 .. Len(s), NEW m, NEW u
  PROVE  /\ HoleCount(s, m, u) \in Nat /\ HoleCount(RemoveAt(s, i), m, u) \in Nat
         /\ HoleCount(RemoveAt(s, i), m, u) = HoleCount(s, m, u) - Covers(u, s[i], m)
<1>1. PICK t \in Seq(Nat) : t = RemoveAt(s, i)
  BY RemoveAtProperties
<1>2. OneMore(t, s, i)
  <2>1. Len(t) \in Nat /\ Len(s) \in Nat /\ Len(t) = Len(s) - 1
    BY <1>1, RemoveAtProperties, LenProperties
  <2>2. \A k \in 1 .. Len(s) - 1 : t[k] = IF k < i THEN s[k] ELSE s[k + 1]
    BY <1>1, RemoveAtProperties
  <2>. QED  BY <2>1, <2>2 DEF OneMore
<1>3. HoleCount(t, m, u) \in Nat /\ HoleCount(s, m, u) = HoleCount(t, m, u) + Covers(u, s[i], m)
  BY <1>2, OneHoleMore
<1>4. Covers(u, s[i], m) \in Nat
  BY DEF Covers
<1>. QED  BY <1>1, <1>3, <1>4

\* With one hole more a list covers more by that hole.
LEMMA InsertCount ==
  ASSUME NEW s \in Seq(Nat), NEW a \in Nat, NEW m, NEW u
  PROVE  /\ HoleCount(s, m, u) \in Nat
         /\ HoleCount(InsertPair(s, a), m, u) = HoleCount(s, m, u) + Covers(u, a, m)
<1>1. PICK t \in Seq(Nat) : t = InsertPair(s, a)
  BY InsertPairProperties
<1>. DEFINE i == InsertIndex(s, a)
<1>. HIDE DEF i
<1>2. /\ i \in 1 .. Len(s) + 1 /\ Len(s) \in Nat /\ Len(t) = Len(s) + 1
      /\ \A k \in 1 .. Len(s) + 1 :
           t[k] = IF k < i THEN s[k] ELSE IF k = i THEN a ELSE s[k - 1]
  <2>1. Len(s) \in Nat
    BY LenProperties
  <2>2. i \in 1 .. Len(s) + 1
    BY InsertIndexFirst DEF i
  <2>3. /\ Len(t) = Len(s) + 1
        /\ \A k \in 1 .. Len(s) + 1 :
             t[k] = IF k < i THEN s[k] ELSE IF k = i THEN a ELSE s[k - 1]
    BY <1>1, InsertPairProperties DEF i
  <2>. QED  BY <2>1, <2>2, <2>3
<1>3. \A k \in 1 .. Len(s) : s[k] = IF k < i THEN t[k] ELSE t[k + 1]
  <2>. SUFFICES ASSUME NEW k \in 1 .. Len(s) PROVE s[k] = IF k < i THEN t[k] ELSE t[k + 1]
    OBVIOUS
  <2>1. k \in 1 .. Len(s) + 1 /\ k + 1 \in 1 .. Len(s) + 1 /\ (k + 1) - 1 = k
    BY <1>2
  <2>2. CASE k < i
    BY <1>2, <2>1, <2>2
  <2>3. CASE ~(k < i)
    <3>1. ~(k + 1 < i) /\ k + 1 # i
      BY <1>2, <2>3
    <3>2. t[k + 1] = s[(k + 1) - 1]
      BY <1>2, <2>1, <3>1
    <3>. QED  BY <2>1, <2>3, <3>2
  <2>. QED  BY <2>2, <2>3
<1>4. t[i] = a /\ OneMore(s, t, i)
  BY <1>2, <1>3 DEF OneMore
<1>5. HoleCount(s, m, u) \in Nat /\ HoleCount(t, m, u) = HoleCount(s, m, u) + Covers(u, t[i], m)
  BY <1>4, OneHoleMore
<1>. QED  BY <1>1, <1>4, <1>5

\* The counts are numbers, for each of the finitely many lists.
LEMMA ListCoverType ==
  ASSUME NEW fl \in [Order -> Seq(Nat)], NEW u
  PROVE  ListCover(fl, u) \in [Order -> Int] /\ IsFiniteSet(Order)
<1>1. IsFiniteSet(Order)
  BY MaxOrderAssumption, FS_Interval DEF Order
<1>2. \A m \in Order : HoleCount(fl[m], m, u) \in Nat
  BY InsertCount
<1>. QED  BY <1>1, <1>2 DEF ListCover

\* One list changes.
LEMMA OneListCovers ==
  ASSUME NEW fl \in [Order -> Seq(Nat)], NEW m \in Order, NEW s \in Seq(Nat), NEW u
  PROVE  /\ SumFunction(ListCover(fl, u)) \in Int
         /\ SumFunction(ListCover([fl EXCEPT ![m] = s], u))
              = SumFunction(ListCover(fl, u)) - HoleCount(fl[m], m, u) + HoleCount(s, m, u)
<1>1. PICK gl \in [Order -> Seq(Nat)] : gl = [fl EXCEPT ![m] = s]
  OBVIOUS
<1>2. PICK f \in [Order -> Int], g \in [Order -> Int] : f = ListCover(fl, u) /\ g = ListCover(gl, u)
  BY ListCoverType
<1>3. \A i \in Order \ {m} : g[i] = f[i]
  BY <1>1, <1>2 DEF ListCover
<1>4. f[m] = HoleCount(fl[m], m, u) /\ g[m] = HoleCount(s, m, u)
  BY <1>1, <1>2 DEF ListCover
<1>5. IsFiniteSet(Order)
  BY ListCoverType
<1>6. SumFunction(f) \in Int /\ SumFunction(g) = SumFunction(f) - f[m] + g[m]
  BY ONLY <1>3, <1>5, SumUpdated, m \in Order, f \in [Order -> Int], g \in [Order -> Int]
<1>. QED  BY <1>1, <1>2, <1>4, <1>6

\* The two halves of a block cover what it covers.
LEMMA HalvesCover ==
  ASSUME NEW a \in Nat, NEW m, NEW n, BlockSize[m] \in Nat, BlockSize[n] = 2 * BlockSize[m],
         NEW u \in Int
  PROVE  Covers(u, a, n) = Covers(u, a, m) + Covers(u, a + BlockSize[m], m)
BY DEF Covers, Span

\* Splitting a hole takes the lower end of it from the lists.
LEMMA CarveCovers ==
  ASSUME NEW fl \in [Order -> Seq(Nat)], NEW sz \in Nat, Fits(fl, sz), NEW u \in Int
  PROVE  LET n == OrderFor(sz) IN
         /\ SumFunction(ListCover(fl, u)) \in Int
         /\ SumFunction(ListCover(Carve(fl, n), u))
              = SumFunction(ListCover(fl, u)) - Covers(u, HoleTaken(fl, n), n)
<1>. DEFINE n == OrderFor(sz)
            s == SourceList(fl, n)
            h == HoleTaken(fl, n)
            c == Carve(fl, n)
<1>1. /\ n \in Order /\ s \in Order /\ n <= s
      /\ n .. s - 1 \subseteq Order /\ \A m \in n .. s - 1 : m + 1 \in Order
      /\ h \in Nat /\ c \in [Order -> Seq(Nat)]
      /\ \A m \in Order : m \notin n .. s => c[m] = fl[m]
      /\ \A m \in n .. s - 1 : fl[m] = <<>> /\ c[m] = <<h + BlockSize[m]>>
                               /\ BlockSize[m + 1] = 2 * BlockSize[m]
      /\ fl[s] \in Seq(Nat) /\ fl[s] # <<>> /\ h = Head(fl[s]) /\ c[s] = Tail(fl[s])
  BY CarvedLists
<1>. HIDE DEF n, s, h, c
<1>a. h \in Nat
  BY <1>1
<1>. DEFINE w == [m \in Order |-> Covers(u, h, m)]
<1>2. w \in [Order -> Int]
  BY DEF Covers
<1>3. PICK f \in [Order -> Int], g \in [Order -> Int] : f = ListCover(fl, u) /\ g = ListCover(c, u)
  BY <1>1, ListCoverType
<1>4. \A m \in Order : f[m] = HoleCount(fl[m], m, u) /\ g[m] = HoleCount(c[m], m, u)
  BY <1>3 DEF ListCover
<1>5. \A m \in Order : m \notin n .. s => g[m] = f[m]
  BY <1>1, <1>4
<1>6. ASSUME NEW m \in n .. s - 1 PROVE g[m] = f[m] + (w[m + 1] - w[m])
  <2>1. m \in Order /\ m + 1 \in Order /\ fl[m] = <<>> /\ c[m] = <<h + BlockSize[m]>>
        /\ BlockSize[m + 1] = 2 * BlockSize[m]
    BY <1>1
  <2>2. BlockSize[m] \in Nat
    BY <2>1, BlockSizeAssumption DEF Order
  <2>3. h + BlockSize[m] \in Nat
    BY <1>a, <2>2
  <2>4. f[m] = 0 /\ g[m] = Covers(u, h + BlockSize[m], m)
    BY <1>4, <2>1, <2>3, EmptyCount, SingleCount
  <2>5. Covers(u, h, m + 1) = Covers(u, h, m) + Covers(u, h + BlockSize[m], m)
    BY <1>a, <2>1, <2>2, HalvesCover
  <2>6. w[m + 1] = Covers(u, h, m + 1) /\ w[m] = Covers(u, h, m) /\ Covers(u, h, m) \in Int
        /\ Covers(u, h + BlockSize[m], m) \in Int
    BY <2>1 DEF Covers
  <2>. HIDE DEF w
  <2>. QED  BY <2>4, <2>5, <2>6
<1>7. g[s] = f[s] - w[s]
  BY <1>1, <1>4, TailCount
<1>8. w[n] = Covers(u, h, n)
  BY <1>1
<1>. HIDE DEF w
<1>9. SumFunction(f) \in Int /\ SumFunction(g) = SumFunction(f) - w[n]
  BY <1>1, <1>2, <1>5, <1>6, <1>7, SplitSum
<1>. QED  BY <1>3, <1>8, <1>9 DEF c, n, h

\* One block changes hands.
LEMMA OneBlockCovers ==
  ASSUME NEW blk \in [Id -> Block \cup {None}], NEW p \in Id, NEW b \in Block \cup {None}, NEW u \in Int
  PROVE  /\ SumFunction(BlockCover(blk, u)) \in Int
         /\ SumFunction(BlockCover([blk EXCEPT ![p] = b], u))
              = SumFunction(BlockCover(blk, u))
                - (IF blk[p] = None THEN 0 ELSE Covers(u, blk[p].start, blk[p].order))
                + (IF b = None THEN 0 ELSE Covers(u, b.start, b.order))
<1>1. PICK gk \in [Id -> Block \cup {None}] : gk = [blk EXCEPT ![p] = b]
  OBVIOUS
<1>2. PICK f \in [Id -> Int], g \in [Id -> Int] : f = BlockCover(blk, u) /\ g = BlockCover(gk, u)
  <2>1. BlockCover(blk, u) \in [Id -> Int] /\ BlockCover(gk, u) \in [Id -> Int]
    BY DEF BlockCover, Covers
  <2>. QED  BY <2>1
<1>3. \A q \in Id \ {p} : g[q] = f[q]
  BY <1>1, <1>2 DEF BlockCover
<1>4. /\ f[p] = (IF blk[p] = None THEN 0 ELSE Covers(u, blk[p].start, blk[p].order))
      /\ g[p] = (IF b = None THEN 0 ELSE Covers(u, b.start, b.order))
  BY <1>1, <1>2 DEF BlockCover
<1>5. SumFunction(f) \in Int /\ SumFunction(g) = SumFunction(f) - f[p] + g[p]
  BY ONLY <1>3, IdAssumption, SumUpdated, p \in Id, f \in [Id -> Int], g \in [Id -> Int]
<1>. QED  BY <1>1, <1>2, <1>4, <1>5

\* A hole covers a unit once or not at all.
LEMMA CoversType == ASSUME NEW u, NEW a, NEW m PROVE Covers(u, a, m) \in Int
BY DEF Covers

\* The blocks that cover a unit can be counted.
LEMMA BlockCoverSum == ASSUME NEW blk, NEW u PROVE SumFunction(BlockCover(blk, u)) \in Int
<1>1. BlockCover(blk, u) \in [Id -> Nat]
  BY DEF BlockCover, Covers
<1>2. SumFunction(BlockCover(blk, u)) \in Nat
  BY <1>1, IdAssumption, SumAtLeast
<1>. QED  BY <1>2

\* The holes that cover a unit can be counted.
LEMMA ListCoverSum ==
  ASSUME NEW fl \in [Order -> Seq(Nat)], NEW u PROVE SumFunction(ListCover(fl, u)) \in Int
<1>1. PICK f \in [Order -> Int] : f = ListCover(fl, u)
  BY ListCoverType
<1>2. IsFiniteSet(Order) /\ MaxOrder \in Order
  BY ListCoverType, MaxOrderAssumption DEF Order
<1>3. SumFunction(f) \in Int
  BY ONLY <1>2, SumUpdated, f \in [Order -> Int]
<1>. QED  BY <1>1, <1>3

\* An allocation: the block covers what the lists cover no longer.
LEMMA AllocateCovers ==
  ASSUME TypeOK, NEW p \in Id, Allocate(p), block[p] = None, pc # "merge", pc' = pc, NEW u \in Int
  PROVE  Cover(u)' = Cover(u)
<1>. DEFINE n == OrderFor(memsize[p])
            b == [start |-> HoleTaken(free, n), order |-> n]
<1>1. /\ Fits(free, memsize[p]) /\ memsize[p] \in Nat /\ free \in [Order -> Seq(Nat)]
      /\ block \in [Id -> Block \cup {None}]
      /\ block' = [block EXCEPT ![p] = b] /\ free' = Carve(free, n)
  BY WaitersTyped DEF Allocate, TypeOK
<1>2. n \in Order /\ HoleTaken(free, n) \in Nat
  BY <1>1, SourceListFirst, CarveType
<1>3. /\ SumFunction(ListCover(free, u)) \in Int
      /\ SumFunction(ListCover(free', u))
           = SumFunction(ListCover(free, u)) - Covers(u, HoleTaken(free, n), n)
  BY <1>1, CarveCovers
<1>. HIDE DEF n
<1>4. b \in Block /\ b # None /\ b.order = n /\ b.start = HoleTaken(free, n)
  <2>1. b \in Block
    BY <1>2 DEF Block
  <2>. QED  BY <2>1, NoneAssumption DEF Block
<1>. HIDE DEF b
<1>5. /\ SumFunction(BlockCover(block, u)) \in Int
      /\ SumFunction(BlockCover(block', u))
           = SumFunction(BlockCover(block, u)) - 0 + Covers(u, HoleTaken(free, n), n)
  <2>1. PICK c \in Block \cup {None} : c = b
    BY <1>4
  <2>2. /\ SumFunction(BlockCover(block, u)) \in Int
        /\ SumFunction(BlockCover([block EXCEPT ![p] = c], u))
             = SumFunction(BlockCover(block, u))
               - (IF block[p] = None THEN 0 ELSE Covers(u, block[p].start, block[p].order))
               + (IF c = None THEN 0 ELSE Covers(u, c.start, c.order))
    BY <1>1, OneBlockCovers
  <2>. QED  BY <1>1, <1>4, <2>1, <2>2
<1>6. /\ Cover(u) = SumFunction(BlockCover(block, u)) + SumFunction(ListCover(free, u)) + 0
      /\ Cover(u)' = SumFunction(BlockCover(block', u)) + SumFunction(ListCover(free', u)) + 0
  BY CoverIs
<1>. QED  BY <1>3, <1>5, <1>6, CoversType

\* A deallocation: the merge loop carries what the block covered.
LEMMA DeallocateCovers ==
  ASSUME TypeOK, NEW p \in Id, Deallocate(p), NEW u \in Int
  PROVE  Cover(u)' = Cover(u)
<1>1. /\ pc = "idle" /\ pc' = "merge" /\ level' = block[p].order /\ hole' = block[p].start
      /\ free' = free /\ block' = [block EXCEPT ![p] = None] /\ block[p] # None
      /\ block \in [Id -> Block \cup {None}]
  BY DEF Deallocate, TypeOK
<1>2. /\ SumFunction(BlockCover(block, u)) \in Int
      /\ SumFunction(BlockCover(block', u))
           = SumFunction(BlockCover(block, u)) - Covers(u, block[p].start, block[p].order)
  <2>1. PICK b \in Block \cup {None} : b = None
    OBVIOUS
  <2>2. /\ SumFunction(BlockCover(block, u)) \in Int
        /\ SumFunction(BlockCover([block EXCEPT ![p] = b], u))
             = SumFunction(BlockCover(block, u)) - Covers(u, block[p].start, block[p].order) + 0
    BY <1>1, <2>1, OneBlockCovers
  <2>. QED  BY <1>1, <2>1, <2>2, CoversType
<1>3. SumFunction(ListCover(free, u)) \in Int /\ SumFunction(ListCover(free', u)) = SumFunction(ListCover(free, u))
  <2>1. SumFunction(ListCover(free, u)) \in Int
    BY ListCoverSum DEF TypeOK
  <2>. QED  BY <1>1, <2>1
<1>4. /\ Cover(u) = SumFunction(BlockCover(block, u)) + SumFunction(ListCover(free, u)) + 0
      /\ Cover(u)' = SumFunction(BlockCover(block', u)) + SumFunction(ListCover(free', u))
                     + Covers(u, block[p].start, block[p].order)
  BY <1>1, CoverIs
<1>. QED  BY <1>2, <1>3, <1>4, CoversType

\* The loop's end: the hole carried is in the list again.
LEMMA KeepCovers ==
  ASSUME TypeOK, KeepHole, NEW u \in Int
  PROVE  Cover(u)' = Cover(u)
<1>1. /\ pc = "merge" /\ pc' = "scan" /\ free' = [free EXCEPT ![level] = list] /\ block' = block
      /\ free \in [Order -> Seq(Nat)] /\ hole \in Nat
      /\ block \in [Id -> Block \cup {None}]
  BY DEF KeepHole, TypeOK
<1>2. list \in Seq(Nat) /\ level \in Order
  BY <1>1, MergeListType
<1>3. /\ HoleCount(free[level], level, u) \in Nat
      /\ HoleCount(list, level, u) = HoleCount(free[level], level, u) + Covers(u, hole, level)
  BY <1>1, <1>2, InsertCount DEF list
<1>. HIDE DEF list
<1>4. /\ SumFunction(ListCover(free, u)) \in Int
      /\ SumFunction(ListCover(free', u))
           = SumFunction(ListCover(free, u)) - HoleCount(free[level], level, u) + HoleCount(list, level, u)
  BY <1>1, <1>2, OneListCovers
<1>5. BlockCover(block', u) = BlockCover(block, u) /\ SumFunction(BlockCover(block, u)) \in Int
  BY <1>1, BlockCoverSum
<1>6. /\ Cover(u) = SumFunction(BlockCover(block, u)) + SumFunction(ListCover(free, u))
                    + Covers(u, hole, level)
      /\ Cover(u)' = SumFunction(BlockCover(block, u)) + SumFunction(ListCover(free', u)) + 0
  BY <1>1, <1>5, CoverIs
<1>7. Covers(u, hole, level) \in Int
  BY CoversType
<1>. QED  BY <1>3, <1>4, <1>5, <1>6, <1>7

\* The halves of one block are merged into what they cover.
LEMMA MergeCovers ==
  ASSUME TypeOK, MemoryConserved, pc = "merge", NEW k \in 1 .. Len(list) - 1, MergeFrom(k),
         list[k + 1] = list[k] + BlockSize[level], NEW u \in Int
  PROVE  Cover(u)' = Cover(u)
<1>1. /\ list \in Seq(Nat) /\ Len(list) \in Nat /\ k \in Nat /\ k \in 1 .. Len(list)
      /\ k \in 1 .. Len(list) - 1 /\ hole \in Nat
      /\ free \in [Order -> Seq(Nat)]
  <2>1. list \in Seq(Nat) /\ Len(list) \in Nat
    BY MergeListType, LenProperties
  <2>2. k \in Nat /\ k \in 1 .. Len(list)
    BY <2>1
  <2>. QED  BY <2>1, <2>2 DEF TypeOK
<1>2. /\ level \in Order /\ level < MaxOrder /\ BlockSize[level + 1] = 2 * BlockSize[level]
  <2>1. Len(list) - 1 >= 1
    BY <1>1
  <2>. QED  BY <2>1, BelowLastList
<1>3. /\ free' = [free EXCEPT ![level] = RemoveTwo(list, k)] /\ hole' = list[k]
      /\ level' = level + 1 /\ pc' = "merge" /\ block' = block
  BY <1>2 DEF MergeFrom
<1>4. /\ HoleCount(free[level], level, u) \in Nat
      /\ HoleCount(list, level, u) = HoleCount(free[level], level, u) + Covers(u, hole, level)
  BY <1>1, <1>2, InsertCount DEF list
<1>. HIDE DEF list
<1>5. PICK r \in Seq(Nat) : r = RemoveAt(list, k)
  BY <1>1, RemoveAtProperties
<1>6. Len(r) = Len(list) - 1 /\ k \in 1 .. Len(r) /\ r[k] = list[k + 1]
  <2>1. Len(r) = Len(list) - 1
    BY <1>1, <1>5, RemoveAtProperties
  <2>2. r[k] = IF k < k THEN list[k] ELSE list[k + 1]
    BY <1>1, <1>5, RemoveAtProperties
  <2>. QED  BY <1>1, <2>1, <2>2
<1>7. /\ HoleCount(list, level, u) \in Nat /\ HoleCount(r, level, u) \in Nat
      /\ HoleCount(r, level, u) = HoleCount(list, level, u) - Covers(u, list[k], level)
  BY <1>1, <1>5, RemoveCount
<1>8. PICK s \in Seq(Nat) : s = RemoveTwo(list, k) /\ s = RemoveAt(r, k)
  BY <1>5, <1>6, RemoveAtProperties DEF RemoveTwo
<1>9. /\ HoleCount(s, level, u) \in Nat
      /\ HoleCount(s, level, u) = HoleCount(r, level, u) - Covers(u, list[k + 1], level)
  BY <1>6, <1>8, RemoveCount
<1>10. Covers(u, list[k], level + 1)
         = Covers(u, list[k], level) + Covers(u, list[k + 1], level)
  <2>1. list[k] \in Nat /\ BlockSize[level] \in Nat
    BY <1>1, <1>2, ElementOfSeq, BlockSizeAssumption DEF Order
  <2>2. Covers(u, list[k], level + 1)
          = Covers(u, list[k], level) + Covers(u, list[k] + BlockSize[level], level)
    BY <1>2, <2>1, HalvesCover
  <2>. QED  BY <2>2
<1>11. /\ SumFunction(ListCover(free, u)) \in Int
       /\ SumFunction(ListCover(free', u))
            = SumFunction(ListCover(free, u)) - HoleCount(free[level], level, u) + HoleCount(s, level, u)
  <2>1. free' = [free EXCEPT ![level] = s]
    BY <1>3, <1>8
  <2>2. free \in [Order -> Seq(Nat)] /\ level \in Order
    BY <1>1, <1>2
  <2>3. /\ SumFunction(ListCover(free, u)) \in Int
        /\ SumFunction(ListCover([free EXCEPT ![level] = s], u))
             = SumFunction(ListCover(free, u)) - HoleCount(free[level], level, u) + HoleCount(s, level, u)
    BY ONLY <2>2, OneListCovers, s \in Seq(Nat), u \in Int
  <2>. QED  BY <2>1, <2>3
<1>12. BlockCover(block', u) = BlockCover(block, u) /\ SumFunction(BlockCover(block, u)) \in Int
  BY <1>3, BlockCoverSum
<1>13. /\ Covers(u, hole, level) \in Int /\ Covers(u, list[k], level) \in Int
       /\ Covers(u, list[k + 1], level) \in Int
  BY CoversType
<1>14. /\ Cover(u) = SumFunction(BlockCover(block, u)) + SumFunction(ListCover(free, u))
                     + Covers(u, hole, level)
       /\ Cover(u)' = SumFunction(BlockCover(block, u)) + SumFunction(ListCover(free', u))
                      + Covers(u, list[k], level + 1)
  BY <1>3, <1>12, CoverIs
<1>15. HoleCount(s, level, u)
         = HoleCount(free[level], level, u) + Covers(u, hole, level)
           - Covers(u, list[k], level) - Covers(u, list[k + 1], level)
  <2>1. /\ HoleCount(r, level, u) \in Int /\ HoleCount(free[level], level, u) \in Int
        /\ HoleCount(r, level, u)
             = HoleCount(free[level], level, u) + Covers(u, hole, level) - Covers(u, list[k], level)
    BY ONLY <1>4, <1>7, <1>13
  <2>2. HoleCount(s, level, u) = HoleCount(r, level, u) - Covers(u, list[k + 1], level)
    BY <1>9
  <2>. QED  BY ONLY <1>13, <2>1, <2>2
<1>16. SumFunction(ListCover(free', u))
         = SumFunction(ListCover(free, u)) + Covers(u, hole, level)
           - Covers(u, list[k], level) - Covers(u, list[k + 1], level)
  BY ONLY <1>4, <1>11, <1>13, <1>15
<1>. QED  BY ONLY <1>10, <1>11, <1>12, <1>13, <1>14, <1>16

\* No step but a merge of strangers changes how many owners a unit has.
LEMMA StepCovers ==
  ASSUME ConservedInv, [Next]_vars, ~MergesStrangers, NEW u \in Int
  PROVE  Cover(u)' = Cover(u)
<1>0. TypeOK /\ OnceWaiting /\ MemoryConserved
  BY DEF ConservedInv
<1>. USE <1>0
<1>a. /\ Len(waitQ) \in Nat /\ \A i \in 1 .. Len(waitQ) : waitQ[i] \in Id
  BY WaitersTyped
<1>b. ASSUME UNCHANGED <<free, block>>, pc # "merge", pc' # "merge" PROVE Cover(u)' = Cover(u)
  BY <1>b, CoverIs
<1>1. ASSUME NEW p \in Id, ReceiveAllocated(p) PROVE Cover(u)' = Cover(u)
  BY <1>1, AllocateCovers DEF ReceiveAllocated, OnceWaiting
<1>2. ASSUME NEW p \in Id, ReceiveWaiting(p) PROVE Cover(u)' = Cover(u)
  BY <1>2, <1>b DEF ReceiveWaiting
<1>3. ASSUME NEW p \in Id, Deallocate(p) PROVE Cover(u)' = Cover(u)
  BY <1>3, DeallocateCovers
<1>4. CASE MergePrevious
  <2>1. /\ pc = "merge" /\ curr - 1 \in 1 .. Len(list) - 1 /\ MergeFrom(curr - 1) /\ curr \in Nat
        /\ list[curr] = list[curr - 1] + BlockSize[level]
    BY <1>4, MergeListType, LenProperties DEF MergePrevious, MergesPre, MergesStrangers
  <2>2. list[(curr - 1) + 1] = list[curr - 1] + BlockSize[level]
    BY <2>1
  <2>. HIDE DEF list, curr
  <2>. QED  BY <2>1, <2>2, MergeCovers
<1>5. CASE MergeNext
  <2>1. /\ pc = "merge" /\ curr \in 1 .. Len(list) - 1 /\ MergeFrom(curr)
        /\ list[curr + 1] = list[curr] + BlockSize[level]
    BY <1>5, MergeListType, LenProperties DEF MergeNext, MergesNxt, MergesStrangers
  <2>. HIDE DEF list, curr
  <2>. QED  BY <2>1, MergeCovers
<1>6. CASE KeepHole
  BY <1>6, KeepCovers
<1>7. CASE ScanAllocate
  <2>1. /\ scan \in 1 .. Len(waitQ) /\ Allocate(waitQ[scan]) /\ pc = "scan" /\ pc' = pc
    BY <1>a, <1>7 DEF ScanAllocate, TypeOK
  <2>2. waitQ[scan] \in Id /\ block[waitQ[scan]] = None
    BY <1>a, <2>1 DEF OnceWaiting
  <2>. QED  BY <2>1, <2>2, AllocateCovers
<1>8. CASE ScanSkip \/ ScanDone
  BY <1>8, <1>b DEF ScanSkip, ScanDone
<1>9. CASE UNCHANGED vars
  BY <1>9, CoverIs DEF vars
<1>. QED  BY <1>1, <1>2, <1>3, <1>4, <1>5, <1>6, <1>7, <1>8, <1>9 DEF Next

(* Every step but a merge of two holes that are not buddies leaves each    *)
(* unit of memory with as many owners as it had: as long as only buddies   *)
(* are merged, memory is never given out twice and never forgotten.        *)
THEOREM OnlyStrangersOverlap == Spec => PartitionKept
<1>1. Init => ConservedInv
  BY InitType, ConservedInit DEF ConservedInv
<1>2. ConservedInv /\ [Next]_vars => ConservedInv'
  BY TypePreserved, ConservedStep DEF ConservedInv
<1>3. ConservedInv /\ [Next]_vars => [Partition /\ ~MergesStrangers => Partition']_vars
  <2>. SUFFICES ASSUME ConservedInv, [Next]_vars, Partition, ~MergesStrangers PROVE Partition'
    OBVIOUS
  <2>1. \A u \in 0 .. Total - 1 : u \in Int
    OBVIOUS
  <2>2. \A u \in 0 .. Total - 1 : Cover(u)' = Cover(u)
    BY <2>1, StepCovers
  <2>. QED  BY <2>2 DEF Partition, Total
<1>. QED  BY <1>1, <1>2, <1>3, PTL DEF Spec, PartitionKept

-----------------------------------------------------------------------------
(* The merge loop, step by step and in one.                                *)

\* The free lists once the merge loop is over.
LoopResult == IF pc = "merge" THEN Release(free, hole, level) ELSE free

\* The loop's look around the returned hole, as the position it merges at.
LEMMA LoopUnfolds ==
  ASSUME TypeOK, pc = "merge"
  PROVE  /\ MergesPre => Release(free, hole, level)
                           = Release([free EXCEPT ![level] = RemoveTwo(list, curr - 1)],
                                     list[curr - 1], level + 1)
         /\ MergesNxt => Release(free, hole, level)
                           = Release([free EXCEPT ![level] = RemoveTwo(list, curr)],
                                     list[curr], level + 1)
         /\ ~MergesPre /\ ~MergesNxt => Release(free, hole, level) = [free EXCEPT ![level] = list]
<1>1. free \in [Order -> Seq(Nat)] /\ hole \in Nat /\ level \in Order
  BY MergeListType DEF TypeOK
<1>2. curr \in Nat /\ curr >= 1
  <2>1. curr \in 1 .. Len(list) /\ Len(list) \in Nat
    BY MergeListType, LenProperties
  <2>. HIDE DEF curr, list
  <2>. QED  BY <2>1
<1>. DEFINE k == MergePosition(list, curr, level)
<1>3. Release(free, hole, level)
        = IF k = 0 THEN [free EXCEPT ![level] = list]
          ELSE Release([free EXCEPT ![level] = RemoveTwo(list, k)], list[k], level + 1)
  BY <1>1, ReleaseUnfolds DEF list, curr
<1>. HIDE DEF list, curr
<1>4. k = IF MergesPre THEN curr - 1 ELSE IF MergesNxt THEN curr ELSE 0
  BY DEF MergePosition, MergesPre, MergesNxt
<1>. HIDE DEF k
<1>5. MergesPre => k = curr - 1 /\ k # 0
  BY <1>2, <1>4 DEF MergesPre
<1>6. MergesNxt => k = curr /\ k # 0
  BY <1>2, <1>4 DEF MergesNxt
<1>7. ~MergesPre /\ ~MergesNxt => k = 0
  BY <1>4
<1>. QED  BY <1>3, <1>5, <1>6, <1>7

\* A merge of the holes at a position leaves the rest of the loop to do.
LEMMA MergeLoops ==
  ASSUME TypeOK, TypeOK', pc = "merge", NEW k, MergeFrom(k),
         Release(free, hole, level)
           = Release([free EXCEPT ![level] = RemoveTwo(list, k)], list[k], level + 1)
  PROVE  LoopResult' = LoopResult
<1>1. LoopResult = Release(free', hole', level')
  BY DEF MergeFrom, LoopResult
<1>2. CASE pc' = "merge"
  <2>1. LoopResult' = Release(free', hole', level')
    BY <1>2 DEF LoopResult, Release
  <2>. QED  BY <1>1, <2>1
<1>3. CASE pc' # "merge"
  <2>1. level \in Order /\ ~(level < MaxOrder)
    BY <1>3, MergeListType DEF MergeFrom
  <2>2. level' = MaxOrder + 1
    BY <2>1, MaxOrderAssumption DEF MergeFrom, Order
  <2>3. free' \in [Order -> Seq(Nat)] /\ hole' \in Nat
    BY DEF TypeOK
  <2>4. LoopResult' = free'
    BY <1>3 DEF LoopResult
  <2>. QED  BY <1>1, <2>2, <2>3, <2>4, ReleasePastLast
<1>. QED  BY <1>2, <1>3

(* The passes of the merge loop come to what Release says the whole loop   *)
(* does: a hole is carried from list to list, and no pass changes what the *)
(* free lists will be when the loop is over.                               *)
THEOREM LoopIsRelease ==
  Spec => [][/\ pc = "merge" => LoopResult' = LoopResult
             /\ \A p \in Id : Deallocate(p) =>
                   LoopResult' = Release(free, block[p].start, block[p].order)]_vars
<1>1. ASSUME TypeOK, TypeOK', [Next]_vars, pc = "merge" PROVE LoopResult' = LoopResult
  <2>1. CASE MergePrevious
    BY <1>1, <2>1, LoopUnfolds, MergeLoops DEF MergePrevious
  <2>2. CASE MergeNext
    BY <1>1, <2>2, LoopUnfolds, MergeLoops DEF MergeNext
  <2>3. CASE KeepHole
    BY <1>1, <2>3, LoopUnfolds DEF KeepHole, LoopResult
  <2>4. CASE UNCHANGED vars
    BY <2>4 DEF vars, LoopResult, Release
  <2>. QED  BY <1>1, <2>1, <2>2, <2>3, <2>4
            DEF Next, ReceiveAllocated, ReceiveWaiting, Deallocate, ScanAllocate, ScanSkip, ScanDone
<1>2. ASSUME NEW p \in Id, Deallocate(p)
      PROVE  LoopResult' = Release(free, block[p].start, block[p].order)
  BY <1>2 DEF Deallocate, LoopResult, Release
<1>3. TypeOK /\ TypeOK' /\ [Next]_vars
        => [/\ pc = "merge" => LoopResult' = LoopResult
            /\ \A p \in Id : Deallocate(p) =>
                  LoopResult' = Release(free, block[p].start, block[p].order)]_vars
  BY <1>1, <1>2
<1>. QED  BY <1>3, TypeCorrect, PTL DEF Spec
=============================================================================
