------------------------------- MODULE Buddy -------------------------------
(***************************************************************************)
(* The free lists of the buddy allocator of phase 2: one list of holes for *)
(* each power of two, kept in ascending order of address.  A hole of list  *)
(* m is its start address; its length is BlockSize[m].  These operators    *)
(* are what allocate, deallocate and the list functions of headers.h       *)
(* compute; Memory.tla runs them step by step.                             *)
(***************************************************************************)
EXTENDS Integers, Sequences, SequencesExt

CONSTANTS
  MaxOrder,   \* index of the last list: 6 in the code
  BlockSize   \* the length of the holes of each list: 16, 32, ..., 1024

ASSUME MaxOrderAssumption == MaxOrder \in Nat

ASSUME BlockSizeAssumption ==
  /\ BlockSize \in [0 .. MaxOrder -> Nat \ {0}]
  /\ \A m \in 0 .. MaxOrder - 1 : BlockSize[m + 1] = 2 * BlockSize[m]

Order == 0 .. MaxOrder

\* One hole over the whole memory.
InitialLists == [m \in Order |-> IF m = MaxOrder THEN <<0>> ELSE <<>>]

-----------------------------------------------------------------------------
(* allocate *)

\* The list of the smallest block that holds sz, or MaxOrder + 1.
OrderFor(sz) == Min({m \in Order : sz <= BlockSize[m]} \cup {MaxOrder + 1})

ListsWithHole(fl, n) == {i \in Order : i >= n /\ fl[i] # <<>>}

Fits(fl, sz) == ListsWithHole(fl, OrderFor(sz)) # {}

\* The list whose first hole is taken.
SourceList(fl, n) == Min(ListsWithHole(fl, n))

HoleTaken(fl, n) == Head(fl[SourceList(fl, n)])

\* Slip: the loop ends one split early and forgets the last upper half.
HalvesLeftButLast(fl, n) == n + 1 .. SourceList(fl, n) - 1

\* The lists between n and the source are empty: each split leaves one upper
\* half behind in the list below and splits the lower half again.
HalvesLeft(fl, n) == n .. SourceList(fl, n) - 1

Carve(fl, n) ==
  [m \in Order |->
     IF m = SourceList(fl, n) THEN Tail(fl[m])
     ELSE IF m \in HalvesLeft(fl, n) THEN <<HoleTaken(fl, n) + BlockSize[m]>>
     ELSE fl[m]]

-----------------------------------------------------------------------------
(* InsertList_pair *)

\* Slip: the new hole always goes to the end.
InsertIndexLast(s, a) == Len(s) + 1

\* In front of the first hole with a larger address.
InsertIndex(s, a) == Min({k \in 1 .. Len(s) : s[k] > a} \cup {Len(s) + 1})

InsertPair(s, a) == InsertAt(s, InsertIndex(s, a), a)

\* What InsertList_pair returns, as a position from 1: i counts the nodes
\* passed after the head, so unless the new node becomes the head it is the
\* position of the node before it.
ReturnedIndex(s, a) == IF InsertIndex(s, a) = 1 THEN 1 ELSE InsertIndex(s, a) - 1

-----------------------------------------------------------------------------
(* deallocate *)

\* Slip: any neighbour is taken for the buddy.
AnyIsLowerBuddy(a, m) == TRUE

\* (startingAdd / sz) % 2 == 0: the lower one of its pair of buddies.
IsLowerBuddy(a, m) == (a \div BlockSize[m]) % 2 = 0

\* Slip: only the first of the two holes leaves the list.
RemoveOne(s, k) == RemoveAt(s, k)

\* DeleteList_pair twice at the same position.
RemoveTwo(s, k) == RemoveAt(RemoveAt(s, k), k)

\* The position of the first of the two holes that are merged, 0 for none: the
\* node before position k and the one at k, or the one at k and the next.
MergePosition(s, k, m) ==
  IF k > 1 /\ IsLowerBuddy(s[k - 1], m) THEN k - 1
  ELSE IF k < Len(s) /\ IsLowerBuddy(s[k], m) THEN k
  ELSE 0

\* The whole merge loop: the lists once a hole has been returned to the list of its
\* level.
Released[x \in [free : [Order -> Seq(Nat)], hole : Nat, level : 0 .. MaxOrder + 1]] ==
  IF x.level > MaxOrder THEN x.free
  ELSE LET s == InsertPair(x.free[x.level], x.hole)
           k == MergePosition(s, ReturnedIndex(x.free[x.level], x.hole), x.level)
       IN  IF k = 0 THEN [x.free EXCEPT ![x.level] = s]
           ELSE Released[[free  |-> [x.free EXCEPT ![x.level] = RemoveTwo(s, k)],
                          hole  |-> s[k],
                          level |-> x.level + 1]]

Release(fl, h, m) == Released[[free |-> fl, hole |-> h, level |-> m]]
=============================================================================
