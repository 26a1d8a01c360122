---------------------------- MODULE BoundedFifo ----------------------------
(***************************************************************************)
(* What the Round Robin loop relies on when it uses the ready queue of     *)
(* phase2/headers.h: a first-in first-out queue of at most maxSize         *)
(* processes whose operations report success in their return value and     *)
(* leave the caller's out-parameter alone when they fail.                  *)
(***************************************************************************)
EXTENDS Naturals, Sequences

CONSTANTS
  Id,         \* process ids
  Time,       \* arrival times
  MaxSize     \* maxSize, the capacity given to createCircularQueue

\* struct processData, cut down to a field every operation copies (id) and
\* the one peekCircularQueue does not copy (arrivalTime).
Process == [id : Id, arrivalTime : Time]

VARIABLES
  queue,      \* the queued processes, oldest first
  element,    \* the caller's out-parameter
  result      \* the value the last operation returned

vars == <<queue, element, result>>

Init ==
  /\ queue = <<>>
  /\ element \in Process
  /\ result = TRUE

Enqueue(p) ==
  /\ IF Len(queue) < MaxSize
       THEN queue' = Append(queue, p) /\ result' = TRUE
       ELSE UNCHANGED queue /\ result' = FALSE
  /\ UNCHANGED element

Dequeue ==
  IF queue # <<>>
    THEN /\ element' = Head(queue)
         /\ queue' = Tail(queue)
         /\ result' = TRUE
    ELSE result' = FALSE /\ UNCHANGED <<queue, element>>

Peek ==
  /\ IF queue # <<>>
       THEN element' = [element EXCEPT !.id = Head(queue).id] /\ result' = TRUE
       ELSE UNCHANGED element /\ result' = FALSE
  /\ UNCHANGED queue

Next == (\E p \in Process : Enqueue(p)) \/ Dequeue \/ Peek

Spec == Init /\ [][Next]_vars
=============================================================================
