--------------------------- MODULE PriorityQueue ---------------------------
(***************************************************************************)
(* The priority queue of headers.h, an unsorted array that is scanned for  *)
(* its best element.  The array q->pr is slots in use \o slots beyond: the *)
(* first q->size slots and the ones behind them, which keep what was last  *)
(* written there.  prio and arrival are the fields of the queued copies.   *)
(***************************************************************************)
EXTENDS Integers, Sequences, SequencesExt

\* The two conditions of peek's loop: a smaller priority, or the same and an
\* earlier arrival.
Better(prio, arrival, p, q) ==
  \/ prio[p] < prio[q]
  \/ prio[p] = prio[q] /\ arrival[p] < arrival[q]

\* Slip: the arrival does not decide a tie.
peekUntied(inUse, prio, arrival) ==
  FoldLeftDomain(
    LAMBDA ind, i : IF ind = 0 \/ prio[inUse[i]] < prio[inUse[ind]] THEN i ELSE ind,
    0, inUse)

\* peek's scan: the position of the best element, 0 for none.
peek(inUse, prio, arrival) ==
  FoldLeftDomain(
    LAMBDA ind, i : IF ind = 0 \/ Better(prio, arrival, inUse[i], inUse[ind]) THEN i ELSE ind,
    0, inUse)

\* Slip: size is not decreased.
WithoutSlotUncounted(inUse, k) == inUse

\* dequeue moves every slot after position k up by one, the one just beyond
\* the last included, which then is in the array twice; behind a full array it
\* reads outside.
WithoutSlot(inUse, k) == RemoveAt(inUse, k)
BeyondAfterShift(beyond, outside) ==
  <<IF beyond = <<>> THEN outside ELSE Head(beyond)>> \o beyond
=============================================================================
