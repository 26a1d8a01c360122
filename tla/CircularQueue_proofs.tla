------------------------ MODULE CircularQueue_proofs ------------------------
EXTENDS CircularQueue, SequenceTheorems, TLAPS

\* The slot after slot i, or the first slot when the queue was reset to -1.
LEMMA NextSlot ==
  ASSUME NEW i \in Slot \cup {-1}
  PROVE  (i + 1) % MaxSize = IF i + 1 < MaxSize THEN i + 1 ELSE 0
<1>. USE MaxSizeAssumption DEF Slot
<1>1. CASE i + 1 < MaxSize
  BY <1>1
<1>2. CASE i + 1 = MaxSize
  BY <1>2
<1>. QED  BY <1>1, <1>2

\* The indices front and rear stay inside the array or are both -1, and the size
\* field is the number of slots between them, for every maxSize: the invariant
\* on which the refinement rests.
THEOREM Invariant == Spec => []IInv
<1>1. Init => IInv
  BY MaxSizeAssumption DEF Init, IInv, TypeOK, SizeCountsSlots, EmptyIsReset, Slot
<1>2. IInv /\ [Next]_vars => IInv'
  <2>. SUFFICES ASSUME IInv, [Next]_vars PROVE IInv'
    OBVIOUS
  <2>. USE MaxSizeAssumption DEF IInv, TypeOK, SizeCountsSlots, EmptyIsReset, Slot
  <2>1. ASSUME NEW p \in Process, enQueueCircularQueue(p) PROVE IInv'
    <3>1. CASE ~isCircularQueueFull
      <4>1. (rear + 1) % MaxSize = IF rear + 1 < MaxSize THEN rear + 1 ELSE 0
        BY NextSlot
      <4>2. /\ front' = IF front = -1 THEN 0 ELSE front
            /\ rear' = IF rear + 1 < MaxSize THEN rear + 1 ELSE 0
            /\ items' = [items EXCEPT ![rear'] = p]
            /\ size' = size + 1
            /\ result' = TRUE
            /\ element' = element
        BY <2>1, <3>1, <4>1 DEF enQueueCircularQueue
      <4>3. /\ front' \in Slot \cup {-1} /\ rear' \in Slot \cup {-1}
            /\ size' \in 0 .. MaxSize
        BY <3>1, <4>2 DEF isCircularQueueFull
      <4>4. items' \in [Slot -> Process] /\ element' \in Process /\ result' \in BOOLEAN
        BY <4>2
      <4>5. SizeCountsSlots' /\ EmptyIsReset'
        BY <3>1, <4>2 DEF isCircularQueueFull
      <4>. QED  BY <4>3, <4>4, <4>5
    <3>2. CASE isCircularQueueFull
      BY <2>1, <3>2 DEF enQueueCircularQueue
    <3>. QED  BY <3>1, <3>2
  <2>2. CASE deQueueCircularQueue
    <3>1. CASE front # -1
      <4>1. front \in Slot /\ rear \in Slot
        BY <3>1
      <4>2. (front + 1) % MaxSize = IF front + 1 < MaxSize THEN front + 1 ELSE 0
        BY <4>1, NextSlot
      <4>3. /\ element' = items[front] /\ items' = items
            /\ \/ front = rear /\ front' = -1 /\ rear' = -1
               \/ /\ front # rear /\ rear' = rear
                  /\ front' = IF front + 1 < MaxSize THEN front + 1 ELSE 0
            /\ size' = size - 1
            /\ result' = TRUE
        BY <2>2, <3>1, <4>2 DEF deQueueCircularQueue, isCircularQueueEmpty
      <4>4. /\ front' \in Slot \cup {-1} /\ rear' \in Slot \cup {-1}
            /\ size' \in 0 .. MaxSize
        BY <4>1, <4>3
      <4>5. items' \in [Slot -> Process] /\ element' \in Process /\ result' \in BOOLEAN
        BY <4>1, <4>3
      <4>6. SizeCountsSlots' /\ EmptyIsReset'
        BY <4>1, <4>3
      <4>. QED  BY <4>4, <4>5, <4>6
    <3>2. CASE front = -1
      BY <2>2, <3>2 DEF deQueueCircularQueue, isCircularQueueEmpty
    <3>. QED  BY <3>1, <3>2
  <2>3. CASE peekCircularQueue
    BY <2>3 DEF peekCircularQueue, isCircularQueueEmpty, Process
  <2>4. CASE UNCHANGED vars
    BY <2>4 DEF vars
  <2>. QED  BY <2>1, <2>2, <2>3, <2>4 DEF Next
<1>. QED  BY <1>1, <1>2, PTL DEF Spec

\* No operation reads or writes outside the array, for every maxSize: the indices that
\* enqueue, dequeue and peek use are slots, or -1 in an empty queue.
THEOREM TypeCorrect == Spec => []TypeOK
<1>1. IInv => TypeOK
  BY DEF IInv
<1>. QED  BY <1>1, Invariant, PTL

-----------------------------------------------------------------------------
(* Facts about the abstract queue read off the array.                      *)

ContentsReadOff ==
  /\ Contents \in Seq(Process)
  /\ Len(Contents) = size
  /\ \A k \in 1 .. size : Contents[k] = items[SlotOf(k)] /\ SlotOf(k) \in Slot

\* The abstract queue is a sequence of size processes.
LEMMA ContentsIsSeq == IInv => ContentsReadOff
<1>. SUFFICES ASSUME IInv PROVE ContentsReadOff
  OBVIOUS
<1>. USE MaxSizeAssumption DEF IInv, TypeOK, SizeCountsSlots, EmptyIsReset, Slot
<1>1. \A k \in 1 .. size : SlotOf(k) \in Slot
  BY DEF SlotOf
<1>2. \A k \in 1 .. size : items[SlotOf(k)] \in Process
  BY <1>1
<1>3. size \in Nat
  OBVIOUS
<1>4. Contents \in Seq(Process)
  BY <1>2, <1>3, IsASeq DEF Contents
<1>. QED  BY <1>1, <1>3, <1>4 DEF Contents, ContentsReadOff

\* The same of the next state.
LEMMA ContentsIsSeqNext == IInv' => ContentsReadOff'
BY ContentsIsSeq, PTL

\* The tests on the indices are tests on the number of queued processes.
LEMMA FullIsMaxSize ==
  ASSUME IInv
  PROVE  /\ isCircularQueueFull <=> size = MaxSize
         /\ isCircularQueueEmpty <=> size = 0
BY MaxSizeAssumption DEF IInv, TypeOK, SizeCountsSlots, EmptyIsReset, Slot,
   isCircularQueueFull, isCircularQueueEmpty

\* Storing behind rear appends to the abstract queue, and a full array is a
\* full abstract queue.
LEMMA EnqueueAppends ==
  ASSUME IInv, IInv', NEW p \in Process, enQueueCircularQueue(p)
  PROVE  Fifo!Enqueue(p)
<1>. USE MaxSizeAssumption DEF IInv, TypeOK, SizeCountsSlots, EmptyIsReset, Slot
<1>1. CASE isCircularQueueFull
  <2>1. /\ result' = FALSE /\ element' = element
        /\ items' = items /\ front' = front /\ size' = size
    BY <1>1 DEF enQueueCircularQueue
  <2>2. Contents' = Contents
    BY <2>1 DEF Contents, SlotOf
  <2>3. ~(Len(Contents) < MaxSize)
    BY <1>1, ContentsIsSeq, FullIsMaxSize DEF ContentsReadOff
  <2>. QED  BY <2>1, <2>2, <2>3 DEF Fifo!Enqueue
<1>2. CASE ~isCircularQueueFull
  <2>1. (rear + 1) % MaxSize = IF rear + 1 < MaxSize THEN rear + 1 ELSE 0
    BY NextSlot
  <2>2. /\ front' = IF front = -1 THEN 0 ELSE front
        /\ rear' = IF rear + 1 < MaxSize THEN rear + 1 ELSE 0
        /\ items' = [items EXCEPT ![rear'] = p]
        /\ size' = size + 1
        /\ result' = TRUE
        /\ element' = element
    BY <1>2, <2>1 DEF enQueueCircularQueue
  <2>3. \A k \in 1 .. size : SlotOf(k)' = SlotOf(k) /\ SlotOf(k) # rear' /\ SlotOf(k) \in Slot
    BY <1>2, <2>2 DEF SlotOf, isCircularQueueFull
  <2>4. rear' \in Slot /\ \A k : k = size + 1 => SlotOf(k)' = rear'
    <3>1. rear' \in Slot
      BY <2>2
    <3>2. CASE front = -1
      BY <3>2, <2>2 DEF SlotOf
    <3>3. CASE front # -1 /\ front <= rear
      BY <3>3, <2>2 DEF SlotOf
    <3>4. CASE front # -1 /\ front > rear
      BY <3>4, <2>2, <1>2 DEF SlotOf, isCircularQueueFull
    <3>. QED  BY <3>1, <3>2, <3>3, <3>4
  <2>5. \A k \in 1 .. size : items'[SlotOf(k)'] = items[SlotOf(k)]
    BY <2>2, <2>3
  <2>6. \A k : k = size + 1 => items'[SlotOf(k)'] = p
    BY <2>2, <2>4
  <2>7. /\ Contents' \in Seq(Process) /\ Len(Contents') = size + 1
        /\ \A k \in 1 .. size + 1 : Contents'[k] = items'[SlotOf(k)']
    BY <2>2, ContentsIsSeqNext DEF ContentsReadOff
  <2>8. /\ Contents \in Seq(Process) /\ Len(Contents) = size
        /\ \A k \in 1 .. size : Contents[k] = items[SlotOf(k)]
    BY ContentsIsSeq DEF ContentsReadOff
  <2>9. Contents' = Append(Contents, p)
    <3>. DEFINE a == Append(Contents, p)
    <3>1. a \in Seq(Process) /\ Len(a) = size + 1 /\ a[size + 1] = p
          /\ \A k \in 1 .. size : a[k] = Contents[k]
      BY <2>8, AppendProperties
    <3>2. \A k \in 1 .. size + 1 : Contents'[k] = a[k]
      BY <2>5, <2>6, <2>7, <2>8, <3>1
    <3>. QED  BY <2>7, <3>1, <3>2, SeqEqual
  <2>10. Len(Contents) < MaxSize
    BY <1>2, <2>8, FullIsMaxSize
  <2>. QED  BY <2>2, <2>9, <2>10 DEF Fifo!Enqueue
<1>. QED  BY <1>1, <1>2

\* Advancing front drops the oldest process of the abstract queue, also when
\* it was the only one and front and rear are reset.
LEMMA DequeueTails ==
  ASSUME IInv, IInv', deQueueCircularQueue
  PROVE  Fifo!Dequeue
<1>. USE MaxSizeAssumption DEF IInv, TypeOK, SizeCountsSlots, EmptyIsReset, Slot
<1>1. CASE front = -1
  <2>1. /\ result' = FALSE /\ element' = element
        /\ items' = items /\ front' = front /\ size' = size
    BY <1>1 DEF deQueueCircularQueue, isCircularQueueEmpty
  <2>2. Contents' = Contents
    BY <2>1 DEF Contents, SlotOf
  <2>3. Contents = <<>>
    BY <1>1, ContentsIsSeq DEF ContentsReadOff
  <2>. QED  BY <2>1, <2>2, <2>3 DEF Fifo!Dequeue
<1>2. CASE front # -1
  <2>1. (front + 1) % MaxSize = IF front + 1 < MaxSize THEN front + 1 ELSE 0
    BY NextSlot
  <2>2. /\ element' = items[front] /\ items' = items
        /\ \/ front = rear /\ front' = -1 /\ rear' = -1
           \/ /\ front # rear /\ rear' = rear
              /\ front' = IF front + 1 < MaxSize THEN front + 1 ELSE 0
        /\ size' = size - 1
        /\ result' = TRUE
    BY <1>2, <2>1 DEF deQueueCircularQueue, isCircularQueueEmpty
  <2>3. \A k \in 1 .. size - 1 : SlotOf(k)' = SlotOf(k + 1)
    <3>. SUFFICES ASSUME NEW k \in 1 .. size - 1 PROVE SlotOf(k)' = SlotOf(k + 1)
      OBVIOUS
    <3>1. front # rear /\ rear # -1 /\ k \in Nat /\ front \in Nat
      BY <1>2
    <3>2. front' = IF front + 1 < MaxSize THEN front + 1 ELSE 0
      BY <2>2, <3>1
    <3>3. SlotOf(k)' = IF front' + k - 1 < MaxSize THEN front' + k - 1
                       ELSE front' + k - 1 - MaxSize
      BY DEF SlotOf
    <3>4. CASE front + 1 < MaxSize
      BY <3>1, <3>2, <3>3, <3>4 DEF SlotOf
    <3>5. CASE front + 1 = MaxSize
      BY <3>1, <3>2, <3>3, <3>5 DEF SlotOf
    <3>. QED  BY <1>2, <3>4, <3>5
  <2>4. /\ Contents' \in Seq(Process) /\ Len(Contents') = size - 1
        /\ \A k \in 1 .. size - 1 : Contents'[k] = items[SlotOf(k + 1)]
    BY <2>2, <2>3, ContentsIsSeqNext DEF ContentsReadOff
  <2>5. /\ Contents \in Seq(Process) /\ Len(Contents) = size /\ size > 0
        /\ \A k \in 1 .. size : Contents[k] = items[SlotOf(k)]
    BY <1>2, ContentsIsSeq DEF ContentsReadOff
  <2>6. Contents # <<>>
    BY <2>5
  <2>7. Contents' = Tail(Contents)
    <3>. DEFINE t == Tail(Contents)
    <3>1. t \in Seq(Process) /\ Len(t) = size - 1
          /\ \A k \in 1 .. size - 1 : t[k] = Contents[k + 1]
      BY <2>5, <2>6, HeadTailProperties
    <3>2. \A k \in 1 .. size - 1 : Contents'[k] = t[k]
      BY <2>4, <2>5, <3>1
    <3>. QED  BY <2>4, <3>1, <3>2, SeqEqual
  <2>8. Head(Contents) = items[front]
    <3>1. SlotOf(1) = front
      BY <1>2 DEF SlotOf
    <3>. QED  BY <2>5, <3>1
  <2>. QED  BY <2>2, <2>6, <2>7, <2>8 DEF Fifo!Dequeue
<1>. QED  BY <1>1, <1>2

\* Peek reads the slot front points at, which holds the oldest process.
LEMMA PeekReadsHead ==
  ASSUME IInv, peekCircularQueue
  PROVE  Fifo!Peek
<1>. USE MaxSizeAssumption DEF IInv, TypeOK, SizeCountsSlots, EmptyIsReset, Slot
<1>1. Contents' = Contents
  BY DEF peekCircularQueue, Contents, SlotOf
<1>2. CASE front = -1
  <2>1. Contents = <<>>
    BY <1>2, ContentsIsSeq DEF ContentsReadOff
  <2>. QED  BY <1>1, <1>2, <2>1 DEF Fifo!Peek, peekCircularQueue, isCircularQueueEmpty
<1>3. CASE front # -1
  <2>1. /\ Contents \in Seq(Process) /\ Len(Contents) = size /\ size > 0
        /\ \A k \in 1 .. size : Contents[k] = items[SlotOf(k)]
    BY <1>3, ContentsIsSeq DEF ContentsReadOff
  <2>2. SlotOf(1) = front
    BY <1>3 DEF SlotOf
  <2>3. Contents # <<>> /\ Head(Contents) = items[front]
    BY <2>1, <2>2
  <2>. QED  BY <1>1, <1>3, <2>3 DEF Fifo!Peek, peekCircularQueue, isCircularQueueEmpty
<1>. QED  BY <1>2, <1>3

\* q2.size, which Round Robin reads directly, is the number of queued processes.
THEOREM SizeCorrect == Spec => []SizeCountsSlots
<1>1. IInv => SizeCountsSlots
  BY DEF IInv
<1>. QED  BY <1>1, Invariant, PTL

\* The ready queue of Round Robin is a first-in first-out queue that holds
\* maxSize processes, for every maxSize: enqueue, dequeue and peek of
\* headers.h:589-646 are the abstract operations on Contents.
THEOREM ImplementsFifo == Spec => FifoSpec
<1>1. Init => Fifo!Init
  <2>. SUFFICES ASSUME Init PROVE Fifo!Init
    OBVIOUS
  <2>1. Contents = <<>>
    BY DEF Init, Contents
  <2>. QED  BY <2>1 DEF Init, Fifo!Init, Process, Fifo!Process
<1>2. IInv /\ IInv' /\ [Next]_vars => [Fifo!Next]_(Fifo!vars)
  <2>. SUFFICES ASSUME IInv, IInv', [Next]_vars PROVE [Fifo!Next]_(Fifo!vars)
    OBVIOUS
  <2>1. ASSUME NEW p \in Process, enQueueCircularQueue(p) PROVE Fifo!Next
    BY <2>1, EnqueueAppends DEF Fifo!Next, Process, Fifo!Process
  <2>2. CASE deQueueCircularQueue
    BY <2>2, DequeueTails DEF Fifo!Next
  <2>3. CASE peekCircularQueue
    BY <2>3, PeekReadsHead DEF Fifo!Next
  <2>4. CASE UNCHANGED vars
    BY <2>4 DEF vars, Fifo!vars, Contents, SlotOf
  <2>. QED  BY <2>1, <2>2, <2>3, <2>4 DEF Next
<1>. QED  BY <1>1, <1>2, Invariant, PTL DEF Spec, FifoSpec, Fifo!Spec
=============================================================================
