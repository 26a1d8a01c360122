------------------------------- MODULE Memory -------------------------------
(***************************************************************************)
(* The memory manager of phase2/scheduler.c: a process that arrives gets a *)
(* block or joins waitQ; a process that terminates gives its block back,   *)
(* which is merged level by level, and then waitQ is scanned from the      *)
(* front and every process that now fits gets a block.  One action is one  *)
(* iteration of the code's loops.  Which process terminates next is the    *)
(* scheduling algorithm's choice and is left open here.                    *)
(***************************************************************************)
EXTENDS Buddy, FiniteSets

CONSTANTS
  Id,         \* process ids
  Sizes,      \* the sizes a process may ask for
  None        \* no block

ASSUME SizesAssumption == Sizes \subseteq Nat
ASSUME IdAssumption == IsFiniteSet(Id)
ASSUME NoneAssumption == None \notin [start : Nat, order : Order]

VARIABLES
  memsize,    \* the size field of each process, fixed by the input file
  new,        \* the processes that have not arrived
  free,       \* free_list
  block,      \* startAddres and endAddress of each process that has memory
  waitQ,      \* the processes waiting for memory, first come first
  pc,         \* where the code is: outside, in the merge loop, in the scan
  hole,       \* newHole->startingAdd
  level,      \* m of the merge loop
  scan        \* m of the scan of waitQ, counted from 1

vars == <<memsize, new, free, block, waitQ, pc, hole, level, scan>>

Block == [start : Nat, order : Order]

Init ==
  /\ memsize \in [Id -> Sizes]
  /\ new = Id
  /\ free = InitialLists
  /\ block = [p \in Id |-> None]
  /\ waitQ = <<>>
  /\ pc = "idle"
  /\ hole = 0
  /\ level = 0
  /\ scan = 1

-----------------------------------------------------------------------------
\* allocate, when it returns true
Allocate(p) ==
  LET n == OrderFor(memsize[p])
  IN  /\ Fits(free, memsize[p])
      /\ block' = [block EXCEPT ![p] = [start |-> HoleTaken(free, n), order |-> n]]
      /\ free' = Carve(free, n)

\* receiveNewProcess; allocate succeeds and the process is made ready
ReceiveAllocated(p) ==
  /\ pc = "idle" /\ p \in new
  /\ Allocate(p)
  /\ new' = new \ {p}
  /\ UNCHANGED <<memsize, waitQ, pc, hole, level, scan>>

\* receiveNewProcess; allocate fails: AddToWaitQ
ReceiveWaiting(p) ==
  /\ pc = "idle" /\ p \in new
  /\ ~Fits(free, memsize[p])
  /\ waitQ' = Append(waitQ, p)
  /\ new' = new \ {p}
  /\ UNCHANGED <<memsize, free, block, pc, hole, level, scan>>

\* deallocate is called for the process that terminated
Deallocate(p) ==
  /\ pc = "idle" /\ block[p] # None
  /\ hole' = block[p].start
  /\ level' = block[p].order
  /\ block' = [block EXCEPT ![p] = None]
  /\ pc' = "merge"
  /\ UNCHANGED <<memsize, new, free, waitQ, scan>>

-----------------------------------------------------------------------------
(* The merge loop.  The freed hole is inserted into its list; pre, curr    *)
(* and nxt are then looked up around the index InsertList_pair returned.   *)
list == InsertPair(free[level], hole)
curr == ReturnedIndex(free[level], hole)

MergesPre == curr > 1 /\ IsLowerBuddy(list[curr - 1], level)
MergesNxt == ~MergesPre /\ curr < Len(list) /\ IsLowerBuddy(list[curr], level)

\* Two nodes leave the list and the hole of twice their length goes on to the
\* next list.  Past the last list there is none and the loop ends.
MergeFrom(k) ==
  /\ free' = [free EXCEPT ![level] = RemoveTwo(list, k)]
  /\ hole' = list[k]
  /\ level' = level + 1
  /\ pc' = IF level < MaxOrder THEN "merge" ELSE "scan"
  /\ scan' = 1
  /\ UNCHANGED <<memsize, new, block, waitQ>>

MergePrevious == pc = "merge" /\ MergesPre /\ MergeFrom(curr - 1)

MergeNext == pc = "merge" /\ MergesNxt /\ MergeFrom(curr)

\* Slip: the scan of waitQ begins with the second process.
KeepHoleScanFromSecond ==
  /\ pc = "merge" /\ ~MergesPre /\ ~MergesNxt
  /\ free' = [free EXCEPT ![level] = list]
  /\ pc' = "scan"
  /\ scan' = 2
  /\ UNCHANGED <<memsize, new, block, waitQ, hole, level>>

KeepHole ==
  /\ pc = "merge" /\ ~MergesPre /\ ~MergesNxt
  /\ free' = [free EXCEPT ![level] = list]
  /\ pc' = "scan"
  /\ scan' = 1
  /\ UNCHANGED <<memsize, new, block, waitQ, hole, level>>

-----------------------------------------------------------------------------
(* The scan of waitQ. *)

\* Slip: m-- is missing after the deletion.
ScanAllocateSkipsNext ==
  /\ pc = "scan" /\ scan <= Len(waitQ)
  /\ Allocate(waitQ[scan])
  /\ waitQ' = RemoveAt(waitQ, scan)
  /\ scan' = scan + 1
  /\ UNCHANGED <<memsize, new, pc, hole, level>>

ScanAllocate ==
  /\ pc = "scan" /\ scan <= Len(waitQ)
  /\ Allocate(waitQ[scan])
  /\ waitQ' = RemoveAt(waitQ, scan)
  /\ UNCHANGED <<memsize, new, pc, hole, level, scan>>

\* Slip: the scan ends at the first process that does not fit.
ScanStopsAtFirst ==
  /\ pc = "scan" /\ scan <= Len(waitQ)
  /\ ~Fits(free, memsize[waitQ[scan]])
  /\ pc' = "idle"
  /\ UNCHANGED <<memsize, new, free, block, waitQ, hole, level, scan>>

ScanSkip ==
  /\ pc = "scan" /\ scan <= Len(waitQ)
  /\ ~Fits(free, memsize[waitQ[scan]])
  /\ scan' = scan + 1
  /\ UNCHANGED <<memsize, new, free, block, waitQ, pc, hole, level>>

ScanDone ==
  /\ pc = "scan" /\ scan > Len(waitQ)
  /\ pc' = "idle"
  /\ UNCHANGED <<memsize, new, free, block, waitQ, hole, level, scan>>

Next ==
  \/ \E p \in Id : ReceiveAllocated(p) \/ ReceiveWaiting(p) \/ Deallocate(p)
  \/ MergePrevious
  \/ MergeNext
  \/ KeepHole
  \/ ScanAllocate
  \/ ScanSkip
  \/ ScanDone

Spec == Init /\ [][Next]_vars

-----------------------------------------------------------------------------
(* What keeps a process from memory that is not there, and memory from     *)
(* being forgotten.                                                        *)

(* Every field has its type; scan never runs past the end of waitQ by more *)
(* than the one position that ends the loop.                               *)
TypeOK ==
  /\ memsize \in [Id -> Sizes]
  /\ new \subseteq Id
  /\ free \in [Order -> Seq(Nat)]
  /\ block \in [Id -> Block \cup {None}]
  /\ waitQ \in Seq(Id)
  /\ pc \in {"idle", "merge", "scan"}
  /\ hole \in Nat
  /\ level \in 0 .. MaxOrder + 1
  /\ pc = "merge" => level \in Order
  /\ scan \in Nat \ {0}
  /\ pc = "scan" => scan <= Len(waitQ) + 1

(* InsertList_pair keeps each list in ascending order, which the merge     *)
(* loop needs to find a neighbour next to the new hole.                    *)
FreeListsSorted ==
  \A m \in Order : \A k \in 1 .. Len(free[m]) - 1 : free[m][k] <= free[m][k + 1]

Total == BlockSize[MaxOrder]

Aligned(a, m) == a % BlockSize[m] = 0 /\ a + BlockSize[m] <= Total

(* Splits and merges, the wrong merges included, only produce blocks that  *)
(* lie inside the memory and start at a multiple of their length.          *)
BlocksAligned ==
  /\ \A m \in Order : \A k \in 1 .. Len(free[m]) : Aligned(free[m][k], m)
  /\ \A p \in Id : block[p] # None => Aligned(block[p].start, block[p].order)
  /\ pc = "merge" => Aligned(hole, level)

\* The memory in the free lists and the memory the processes hold.
HoleSpace == SumFunction([m \in Order |-> BlockSize[m] * Len(free[m])])
GivenSpace == SumFunction([p \in Id |-> IF block[p] = None THEN 0 ELSE BlockSize[block[p].order]])

(* Every block and hole together still add up to the whole memory: however *)
(* wrongly two holes are merged, the hole that goes on has their combined  *)
(* length.  So the memory is never full of one hole twice and the loop     *)
(* never runs past list 6.                                                 *)
MemoryConserved ==
  Total = HoleSpace + GivenSpace + (IF pc = "merge" THEN BlockSize[level] ELSE 0)

(* When the code is outside deallocate, no process waits for memory that   *)
(* the free lists could give it: the first-fit scan of scheduler.c:864-885 *)
(* leaves no admissible process behind, and an arrival cannot create one.  *)
NoFittingWaiter ==
  pc = "idle" => \A k \in 1 .. Len(waitQ) : ~Fits(free, memsize[waitQ[k]])

GetsMemory(p) == block[p] = None /\ block'[p] # None

WaitsBefore(k, p) == \A j \in 1 .. k : waitQ[j] # p

(* A process that gets memory, on arrival or from waitQ, overtakes an      *)
(* earlier one that still waits only if the earlier one asks for a larger  *)
(* block: first fit never lets a later process of the same class go first. *)
NoOvertaking ==
  [][\A p \in Id : GetsMemory(p) =>
       \A k \in 1 .. Len(waitQ) :
         WaitsBefore(k, p) => OrderFor(memsize[waitQ[k]]) > OrderFor(memsize[p])]_vars

Span(a, m) == a .. a + BlockSize[m] - 1

Covers(u, a, m) == IF u \in Span(a, m) THEN 1 ELSE 0

\* How many holes, blocks and the hole in hand cover the unit u.
Cover(u) ==
  SumFunction([p \in Id |-> IF block[p] = None THEN 0
                            ELSE Covers(u, block[p].start, block[p].order)])
  + SumFunction([m \in Order |-> Cardinality({k \in 1 .. Len(free[m]) : u \in Span(free[m][k], m)})])
  + (IF pc = "merge" THEN Covers(u, hole, level) ELSE 0)

Partition == \A u \in 0 .. Total - 1 : Cover(u) = 1

\* The two holes about to be merged are not the halves of one block.
MergesStrangers ==
  /\ pc = "merge"
  /\ \/ MergesPre /\ list[curr] # list[curr - 1] + BlockSize[level]
     \/ MergesNxt /\ list[curr + 1] # list[curr] + BlockSize[level]

(* Every unit of memory belongs to exactly one hole or block, and only a   *)
(* merge of two holes that are not buddies can end that: splitting, the    *)
(* scan and the merges of real buddies neither lose memory nor give it out *)
(* twice.                                                                  *)
PartitionKept == [][Partition /\ ~MergesStrangers => Partition']_vars

-----------------------------------------------------------------------------
(* What the documents promise and the code does not keep.                  *)

(* README.md:30-31, "allocate memory space for processes as they enter the *)
(* system": no two processes hold the same unit of memory.                 *)
NoOverlap ==
  \A p, q \in Id :
    p # q /\ block[p] # None /\ block[q] # None =>
      Span(block[p].start, block[p].order) \cap Span(block[q].start, block[q].order) = {}

(* README.md:30-31, "free it as they leave so that it canbe re-used by     *)
(* later processes": once everybody who had memory has left, whoever waits *)
(* has been given some.  Wrong merges leave the free memory in pieces that *)
(* nothing joins any more, and nobody is left whose end would scan waitQ.  *)
NobodyStuck == pc = "idle" /\ waitQ # <<>> => \E p \in Id : block[p] # None
=============================================================================
