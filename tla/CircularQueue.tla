--------------------------- MODULE CircularQueue ---------------------------
(***************************************************************************)
(* The ring buffer of phase2/headers.h that Round Robin uses as its ready  *)
(* queue: an array of maxSize slots, the indices front and rear, both -1   *)
(* when the queue is empty, and a separate size field that the scheduler   *)
(* reads directly (q2.size).  Front, rear and size are three counts of the *)
(* same thing that the code never compares with each other.                *)
(***************************************************************************)
EXTENDS Integers, Sequences

CONSTANTS
  Id,         \* process ids
  Time,       \* arrival times
  MaxSize     \* maxSize, the number of processes of the run

ASSUME MaxSizeAssumption == MaxSize \in Nat \ {0}
ASSUME ProcessAssumption == Id # {} /\ Time # {}

\* struct processData, cut down to a field every operation copies (id) and
\* the one peekCircularQueue does not copy (arrivalTime).
Process == [id : Id, arrivalTime : Time]

Slot == 0 .. MaxSize - 1

VARIABLES
  items,      \* the array; its contents are arbitrary after malloc
  front,
  rear,
  size,
  element,    \* *element, the caller's out-parameter
  result      \* the value the last operation returned

vars == <<items, front, rear, size, element, result>>

-----------------------------------------------------------------------------
(* createCircularQueue *)
Init ==
  /\ items \in [Slot -> Process]
  /\ front = -1
  /\ rear = -1
  /\ size = 0
  /\ element \in Process
  /\ result = TRUE

\* Slip: full is only recognised while the queue has not wrapped around.
FullOnlyWhenUnwrapped == front = 0 /\ rear = MaxSize - 1

isCircularQueueFull ==
  \/ front = rear + 1
  \/ front = 0 /\ rear = MaxSize - 1

isCircularQueueEmpty == front = -1

\* Slip: rear is advanced without the remainder.
EnqueueWithoutWrap(p) ==
  /\ ~isCircularQueueFull
  /\ front' = IF front = -1 THEN 0 ELSE front
  /\ rear' = rear + 1
  /\ items' = [items EXCEPT ![rear'] = p]
  /\ size' = size + 1
  /\ result' = TRUE
  /\ UNCHANGED element

enQueueCircularQueue(p) ==
  /\ \/ /\ ~isCircularQueueFull
        /\ front' = IF front = -1 THEN 0 ELSE front
        /\ rear' = (rear + 1) % MaxSize
        /\ items' = [items EXCEPT ![rear'] = p]
        /\ size' = size + 1
        /\ result' = TRUE
     \/ /\ isCircularQueueFull
        /\ result' = FALSE
        /\ UNCHANGED <<items, front, rear, size>>
  /\ UNCHANGED element

\* Slip: front and rear are not reset when the last process leaves.
DequeueWithoutReset ==
  /\ ~isCircularQueueEmpty
  /\ element' = items[front]
  /\ front' = (front + 1) % MaxSize
  /\ size' = size - 1
  /\ result' = TRUE
  /\ UNCHANGED <<items, rear>>

deQueueCircularQueue ==
  /\ \/ /\ ~isCircularQueueEmpty
        /\ element' = items[front]
        /\ \/ front = rear /\ front' = -1 /\ rear' = -1
           \/ front # rear /\ front' = (front + 1) % MaxSize /\ UNCHANGED rear
        /\ size' = size - 1
        /\ result' = TRUE
     \/ /\ isCircularQueueEmpty
        /\ result' = FALSE
        /\ UNCHANGED <<front, rear, size, element>>
  /\ UNCHANGED items

peekCircularQueue ==
  /\ \/ /\ ~isCircularQueueEmpty
        /\ element' = [element EXCEPT !.id = items[front].id]
        /\ result' = TRUE
     \/ /\ isCircularQueueEmpty
        /\ result' = FALSE
        /\ UNCHANGED element
  /\ UNCHANGED <<items, front, rear, size>>

Next ==
  \/ \E p \in Process : enQueueCircularQueue(p)
  \/ deQueueCircularQueue
  \/ peekCircularQueue

Spec == Init /\ [][Next]_vars

-----------------------------------------------------------------------------
(* Every index stays inside the array and size inside the capacity. *)
TypeOK ==
  /\ items \in [Slot -> Process]
  /\ front \in Slot \cup {-1}
  /\ rear \in Slot \cup {-1}
  /\ size \in 0 .. MaxSize
  /\ element \in Process
  /\ result \in BOOLEAN

(* The size field, which the scheduler tests instead of calling            *)
(* isCircularQueueEmpty, counts exactly the slots between front and rear,  *)
(* across the wrap-around and the reset to -1.                             *)
SizeCountsSlots ==
  size = IF front = -1 THEN 0
         ELSE IF front <= rear THEN rear - front + 1
         ELSE rear - front + 1 + MaxSize

EmptyIsReset == front = -1 <=> rear = -1

IInv == TypeOK /\ SizeCountsSlots /\ EmptyIsReset

\* The slot of the k-th oldest process.
SlotOf(k) == IF front + k - 1 < MaxSize THEN front + k - 1 ELSE front + k - 1 - MaxSize

(* The queued processes, oldest first. *)
Contents == [k \in 1 .. size |-> items[SlotOf(k)]]

(* The ring buffer implements the bounded first-in first-out queue: no     *)
(* process is lost, duplicated or reordered, it is full exactly when       *)
(* maxSize processes are in it, and peek and dequeue agree on the oldest.  *)
Fifo == INSTANCE BoundedFifo WITH queue <- Contents
FifoSpec == Fifo!Spec
=============================================================================
