-------------------------------- MODULE SRTN --------------------------------
(***************************************************************************)
(* The scheduling loop of phase 2 for shortest remaining time next.  The   *)
(* loop takes a step only when no SIGUSR1 is pending; its steps are the    *)
(* stretches of code between which another process can be noticed.         *)
(***************************************************************************)
EXTENDS Simulation, PriorityQueue

VARIABLE prio   \* the priority field of the copy of a process in q1 or *currentProc

vars == <<simVars, prio>>

Init == SimInit /\ prio = [p \in Id |-> 0]

Goto(from, to) == ~sig /\ pc = from /\ pc' = to

-----------------------------------------------------------------------------
(* The choice of the priority queue.                                       *)

\* Slip: the comparison the wrong way round.
PeekGreatest ==
  CHOOSE i \in DOMAIN ready : \A j \in DOMAIN ready : prio[ready[i]] >= prio[ready[j]]

PeekIndex == peek(ready, prio, job.arrival)

Dequeued == WithoutSlot(ready, PeekIndex)

-----------------------------------------------------------------------------
(* The loop.                                                               *)

\* The received copy's priority is its run time.
Receiving ==
  /\ ~sig /\ pc \in {"receive", "receive2"}
  /\ Poll
  /\ prio' = IF msgq = <<>> THEN prio
             ELSE [prio EXCEPT ![Head(msgq)] = job.run[Head(msgq)]]

Received ==
  /\ polls = N /\ polls' = 0
  /\ Goto("receive", "dispatch") \/ Goto("receive2", "preempt")
  /\ UNCHANGED <<job, clk, generator, msgq, processes, sig, prevClk, cpu, ready, pcb,
                 memory, prio>>

DispatchNobody ==
  /\ Goto("dispatch", "tick")
  /\ IF cpuFree THEN ready = <<>> /\ cur' = None ELSE UNCHANGED cur
  /\ UNCHANGED <<job, clk, generator, msgq, processes, sig, polls, prevClk, cpuFree, pCount,
                 ready, pcb, memory, prio>>

Dispatch ==
  /\ Goto("dispatch", "start")
  /\ cpuFree /\ ready # <<>>
  /\ cur' = ready[PeekIndex]
  /\ ready' = Dequeued
  /\ LoadRemaining(ready[PeekIndex])
  /\ UNCHANGED <<job, clk, generator, msgq, child, halted, sig, polls, prevClk, cpuFree,
                 pCount, pcb, memory, prio>>

\* Slip: the CPU stays free.
StartWithoutTakingCpu ==
  /\ Goto("start", "tick")
  /\ StartOrResume(cur)
  /\ UNCHANGED <<job, clk, generator, msgq, shm, sem, sig, polls, prevClk, cpu, ready, table,
                 rem, lastClk, memory, prio>>

Start ==
  /\ Goto("start", "tick")
  /\ StartOrResume(cur)
  /\ cpuFree' = FALSE
  /\ UNCHANGED <<job, clk, generator, msgq, shm, sem, sig, polls, prevClk, cur, pCount,
                 ready, table, rem, lastClk, memory, prio>>

\* prevClk != currClk
NewSecond ==
  /\ prevClk # clk /\ prevClk' = clk
  /\ IF cpuFree THEN Goto("tick", "end") ELSE Goto("tick", "dec")
  /\ UNCHANGED <<job, clk, generator, msgq, processes, sig, polls, cpu, ready, pcb, memory,
                 prio>>

SameSecond ==
  /\ prevClk = clk
  /\ Goto("tick", "end")
  /\ UNCHANGED <<job, clk, generator, msgq, processes, sig, polls, prevClk, cpu, ready, pcb,
                 memory, prio>>

\* decRemainingTimeOfCurrPs: from the store to the shared integer on, the
\* process may leave its loop.
Dec ==
  /\ Goto("dec", "prio")
  /\ Decrement
  /\ UNCHANGED <<job, clk, generator, msgq, sem, child, halted, sig, polls, prevClk, cpu,
                 ready, table, lastClk, wait, memory, prio>>

\* currentProc->priority = ...: the handler may have set currentProc to null.
CopyPriority ==
  /\ \/ cur \in Id /\ Goto("prio", "down") /\ prio' = [prio EXCEPT ![cur] = rem[cur]]
     \/ cur \notin Id /\ Goto("prio", "crashed") /\ UNCHANGED prio
  /\ UNCHANGED <<job, clk, generator, msgq, processes, sig, polls, prevClk, cpu, ready, pcb,
                 memory>>

\* Slip: the semaphore is counted down without waiting.
DownWithoutWaiting ==
  /\ Goto("down", "receive2")
  /\ sem' = sem - 1
  /\ UNCHANGED <<job, clk, generator, msgq, shm, child, halted, sig, polls, prevClk, cpu,
                 ready, pcb, memory, prio>>

Down ==
  /\ Goto("down", "receive2")
  /\ sem > 0 /\ sem' = sem - 1
  /\ UNCHANGED <<job, clk, generator, msgq, shm, child, halted, sig, polls, prevClk, cpu,
                 ready, pcb, memory, prio>>

MustPreempt == ready # <<>> /\ cur \in Id /\ prio[ready[PeekIndex]] < prio[cur]

\* Slip: the stopped process is not put back.
PreemptAndForget ==
  /\ Goto("preempt", "end")
  /\ MustPreempt
  /\ cpuFree' = TRUE /\ Stop(cur) /\ cur' = Freed
  /\ UNCHANGED <<job, clk, generator, msgq, shm, sem, child, sig, polls, prevClk, pCount,
                 ready, table, rem, wait, memory, prio>>

Preempt ==
  /\ Goto("preempt", "end")
  /\ MustPreempt
  /\ cpuFree' = TRUE
  /\ Stop(cur)
  /\ ready' = Enqueue(ready, cur)
  /\ cur' = Freed
  /\ UNCHANGED <<job, clk, generator, msgq, shm, sem, child, sig, polls, prevClk, pCount,
                 table, rem, wait, memory, prio>>

Keep ==
  /\ Goto("preempt", "end")
  /\ ~MustPreempt
  /\ UNCHANGED <<job, clk, generator, msgq, processes, sig, polls, prevClk, cpu, ready, pcb,
                 memory, prio>>

End ==
  /\ IF pCount = N THEN Goto("end", "done") ELSE Goto("end", "receive")
  /\ UNCHANGED <<job, clk, generator, msgq, processes, sig, polls, prevClk, cpu, ready, pcb,
                 memory, prio>>

Loop ==
  \/ Receiving \/ Received \/ DispatchNobody \/ Dispatch \/ Start \/ NewSecond \/ SameSecond
  \/ Dec \/ CopyPriority \/ Down \/ Preempt \/ Keep \/ End

Handler == processTerminate /\ UNCHANGED prio
World == Environment /\ UNCHANGED prio

Next == World \/ Handler \/ Loop

\* Every process keeps running.
Fairness ==
  /\ WF_vars(Tick /\ UNCHANGED prio)
  /\ WF_vars((Notice \/ Send) /\ UNCHANGED prio)
  /\ \A p \in Id : WF_vars((LeaveLoop(p) \/ Signal(p) \/ Up(p)) /\ UNCHANGED prio)
  /\ WF_vars(Handler \/ Loop)

Spec == Init /\ [][Next]_vars /\ Fairness

-----------------------------------------------------------------------------
(* Properties.                                                             *)

TypeOK ==
  /\ SimTypeOK
  /\ pc \in {"receive", "dispatch", "start", "tick", "dec", "prio", "down", "receive2",
             "preempt", "end", "done", "crashed"}
  /\ prio \in [Id -> Int]

\* A process that was sent is in exactly one place: in the message queue, waiting
\* for memory, in q1, in *currentProc, or gone from the process table; neither the
\* loop nor the handler loses it or puts it in two.
OnePlace == \A p \in 1 .. sent : Places(p) + (IF cur = p THEN 1 ELSE 0) = 1

\* While the current process spins, the shared integer is what its PCB has left
\* and the semaphore is one less, except between a decrement and its down: so the
\* down of the last second, and no other, waits for the process to finish.
SemTracksRemaining ==
  ~cpuFree /\ cur \in Id /\ child[cur] \in {"spin", "kill"} =>
    /\ shm = rem[cur]
    /\ sem = IF pc \in {"prio", "down"} THEN rem[cur] ELSE rem[cur] - 1

\* Whoever is dispatched has the least remaining time of all that are ready, and
\* so has whoever keeps the CPU after the comparison: the priorities in q1 are
\* not stale copies of the remaining times.
ShortestRuns ==
  [][(pc = "dispatch" /\ pc' = "start") \/ (pc = "preempt" /\ pc' = "end" /\ cur' \in Id) =>
       \A i \in DOMAIN ready : rem[cur'] <= rem[ready[i]]]_vars

\* The comment at the down says the semaphore synchronises the scheduler and the
\* process; the loop uses currentProc once more before that down.
NeverCrashes == pc # "crashed"

\* The comment at the decrement says it is for the transition from prevClk to
\* currClk: no process would finish before its run time has gone by since it
\* arrived.
FinishesAfterRunTime ==
  job.prompt /\ sig /\ cur \in Id => clk - job.arrival[cur] >= job.run[cur]
=============================================================================
