----------------------------- MODULE Lifecycle -----------------------------
(***************************************************************************)
(* What every scheduling algorithm of scheduler.c promises of a simulated  *)
(* process, whatever the order it chooses: a process arrives, is given     *)
(* memory at once or when another one leaves, has the CPU alone, gives it  *)
(* back with what it had left, and finishes once, with nothing left, while *)
(* it has the CPU.  Order and timing are left open.                        *)
(***************************************************************************)
EXTENDS Integers

CONSTANTS Id, Work      \* Work: the possible assignments of run times

VARIABLES total,        \* the run time of every process
          stage,        \* where a process is
          left          \* what it still has to run

vars == <<total, stage, left>>

Stages == {"outside", "memory", "ready", "running", "finished"}

Init ==
  /\ total \in Work
  /\ stage = [p \in Id |-> "outside"]
  /\ left = [p \in Id |-> 0]

Move(p, to) == stage' = [stage EXCEPT ![p] = to]

\* Received by the scheduler: with memory, or waiting for it.
Arrive(p) ==
  /\ stage[p] = "outside"
  /\ \E to \in {"memory", "ready"} : Move(p, to)
  /\ left' = [left EXCEPT ![p] = total[p]]
  /\ UNCHANGED total

Dispatch(p) ==
  /\ stage[p] = "ready"
  /\ \A q \in Id : stage[q] # "running"
  /\ Move(p, "running")
  /\ UNCHANGED <<total, left>>

\* One second of the CPU.
Run(p) ==
  /\ stage[p] = "running" /\ left[p] > 0
  /\ left' = [left EXCEPT ![p] = @ - 1]
  /\ UNCHANGED <<total, stage>>

\* Only a process with something left gives the CPU back.
Preempt(p) ==
  /\ stage[p] = "running" /\ left[p] > 0
  /\ Move(p, "ready")
  /\ UNCHANGED <<total, left>>

\* The memory that a process frees lets others in.
Finish(p) ==
  /\ stage[p] = "running" /\ left[p] = 0
  /\ \E in \in SUBSET {q \in Id : stage[q] = "memory"} :
       stage' = [q \in Id |-> IF q = p THEN "finished"
                              ELSE IF q \in in THEN "ready" ELSE stage[q]]
  /\ UNCHANGED <<total, left>>

Next == \E p \in Id : Arrive(p) \/ Dispatch(p) \/ Run(p) \/ Preempt(p) \/ Finish(p)

Spec == Init /\ [][Next]_vars
=============================================================================
