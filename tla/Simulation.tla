----------------------------- MODULE Simulation -----------------------------
(***************************************************************************)
(* The processes around the scheduling loop of phase 2 and what every loop *)
(* shares: the clock, the process generator, the simulated processes and   *)
(* the SIGUSR1 handler, together with the functions of scheduler.c that    *)
(* the loops call.  They communicate through the clock's shared memory, a  *)
(* message queue, one shared integer (the remaining time of the running    *)
(* process), one semaphore, and signals.                                   *)
(*                                                                         *)
(* A pending SIGUSR1 is handled before the scheduler's next step: a signal *)
(* that is handled a few instructions later is the same as one sent later. *)
(* The handler is one action, because the loop is suspended meanwhile.     *)
(***************************************************************************)
EXTENDS Buddy, FiniteSets

CONSTANTS
  N,          \* numberOfProcesses; ids are 1 .. N as in processes.txt
  Jobs,       \* processes.txt, the quantum and the machine's timing
  MaxClk,     \* bound: the clock stops here
  None,       \* a null currentProc
  Freed       \* a currentProc that was freed and not set to null

Id == 1 .. N

ASSUME NAssumption == N \in Nat \ {0}
ASSUME MaxClkAssumption == MaxClk \in Nat
\* Arrival times start at 1 and do not decrease, run times are positive.  When
\* prompt, everybody does its work within the second it is due in.
ASSUME JobsAssumption ==
  /\ Jobs \subseteq [arrival : [Id -> Nat], run : [Id -> Nat], priority : [Id -> Nat],
                    size : [Id -> Nat], quantum : Nat, prompt : BOOLEAN]
  /\ \A j \in Jobs : \A p \in Id :
       /\ j.arrival[p] > 0 /\ j.run[p] > 0
       /\ p < N => j.arrival[p] <= j.arrival[p + 1]
ASSUME PointerAssumption == None \notin Id /\ Freed \notin Id

VARIABLES
  job,        \* the one of Jobs that this execution is of
  clk,        \* the clock's shared memory
  gen, sent,  \* the generator: watching the clock or about to send; messages sent
  msgq,       \* the message queue
  shm,        \* *ps_shmaddr
  sem,        \* sem1
  child,      \* where each simulated process is in process.c
  halted,     \* stopped by SIGSTOP
  sig,        \* SIGUSR1 is pending for the scheduler
  pc, polls,  \* the scheduling loop; how often it has polled the message queue
  cpuFree, cur, prevClk, pCount,    \* globals; cur is the id in *currentProc
  ready,      \* q1 or q2
  table,      \* the processes with an entry in processTable
  rem, lastClk, wait,               \* remainingTime, lastClk, totWaitTime
  free, block, waitQ                \* the memory, as in Memory

generator == <<gen, sent>>
processes == <<shm, sem, child, halted>>
loop == <<pc, polls, prevClk>>
cpu == <<cpuFree, cur, pCount>>
pcb == <<table, rem, lastClk, wait>>
memory == <<free, block, waitQ>>

simVars == <<job, clk, generator, msgq, processes, sig, loop, cpu, ready, pcb, memory>>

SimInit ==
  /\ job \in Jobs
  /\ clk = 0
  /\ gen = "watch" /\ sent = 0
  /\ msgq = <<>>
  /\ shm = 0 /\ sem = 0
  /\ child = [p \in Id |-> "none"]
  /\ halted = [p \in Id |-> FALSE]
  /\ sig = FALSE
  /\ pc = "receive" /\ polls = 0 /\ prevClk = -1
  /\ cpuFree = TRUE /\ cur = None /\ pCount = 0
  /\ ready = <<>>
  /\ table = {}
  /\ rem = [p \in Id |-> 0]
  /\ lastClk = [p \in Id |-> 0]
  /\ wait = [p \in Id |-> 0]
  /\ free = InitialLists
  /\ block = [p \in Id |-> None]
  /\ waitQ = <<>>

-----------------------------------------------------------------------------
(* process_generator.c: the loop reads the clock, compares it with the     *)
(* next arrival time and sends.  An arrival time that has gone by is never *)
(* equal to the clock again.                                               *)

Notice ==
  /\ gen = "watch" /\ sent < N
  /\ clk = job.arrival[sent + 1]
  /\ gen' = "send"
  /\ UNCHANGED <<job, clk, sent, msgq, processes, sig, loop, cpu, ready, pcb, memory>>

Send ==
  /\ gen = "send"
  /\ msgq' = Append(msgq, sent + 1)
  /\ sent' = sent + 1
  /\ gen' = "watch"
  /\ UNCHANGED <<job, clk, processes, sig, loop, cpu, ready, pcb, memory>>

-----------------------------------------------------------------------------
(* process.c: spin until the shared integer is 0, signal the scheduler,    *)
(* raise the semaphore.                                                    *)

Runs(p, at) == child[p] = at /\ ~halted[p]

LeaveLoop(p) ==
  /\ Runs(p, "spin") /\ shm <= 0
  /\ child' = [child EXCEPT ![p] = "kill"]
  /\ UNCHANGED <<job, clk, generator, msgq, shm, sem, halted, sig, loop, cpu, ready,
                 pcb, memory>>

Signal(p) ==
  /\ Runs(p, "kill")
  /\ sig' = TRUE
  /\ child' = [child EXCEPT ![p] = "up"]
  /\ UNCHANGED <<job, clk, generator, msgq, shm, sem, halted, loop, cpu, ready, pcb, memory>>

Up(p) ==
  /\ Runs(p, "up")
  /\ sem' = sem + 1
  /\ child' = [child EXCEPT ![p] = "gone"]
  /\ UNCHANGED <<job, clk, generator, msgq, shm, halted, sig, loop, cpu, ready, pcb, memory>>

-----------------------------------------------------------------------------
(* The scheduler's functions.                                              *)

Stopped == pc \in {"done", "crashed"}

\* Both queues drop the process when they are full; no caller looks.
Enqueue(q, p) == IF Len(q) < N THEN Append(q, p) ELSE q

\* The message queue is polled N times in every receiving loop.
PollEmpty ==
  /\ polls < N /\ msgq = <<>>
  /\ polls' = polls + 1
  /\ UNCHANGED <<msgq, ready, table, rem, memory>>

\* receiveNewProcess makes the PCB.
Receive(p) ==
  /\ polls < N /\ msgq # <<>> /\ p = Head(msgq)
  /\ polls' = polls + 1
  /\ msgq' = Tail(msgq)
  /\ table' = table \cup {p}
  /\ rem' = [rem EXCEPT ![p] = job.run[p]]

BlockFor(fl, p) ==
  [start |-> HoleTaken(fl, OrderFor(job.size[p])), order |-> OrderFor(job.size[p])]

\* allocate succeeds and the process is made ready
ReceiveReady(p) ==
  /\ Receive(p)
  /\ Fits(free, job.size[p])
  /\ block' = [block EXCEPT ![p] = BlockFor(free, p)]
  /\ free' = Carve(free, OrderFor(job.size[p]))
  /\ ready' = Enqueue(ready, p)
  /\ UNCHANGED waitQ

\* allocate fails: AddToWaitQ
ReceiveWaiting(p) ==
  /\ Receive(p)
  /\ ~Fits(free, job.size[p])
  /\ waitQ' = Append(waitQ, p)
  /\ UNCHANGED <<free, block, ready>>

Poll ==
  /\ PollEmpty \/ \E p \in Id : ReceiveReady(p) \/ ReceiveWaiting(p)
  /\ UNCHANGED <<job, clk, generator, processes, sig, pc, prevClk, cpu, lastClk, wait>>

\* Slips: one more down than the process has seconds; the shared integer left
\* as the last process left it.
LoadWithoutTheLast(p) == shm' = rem[p] /\ sem' = rem[p]
LoadSemaphoreOnly(p) == shm' = shm /\ sem' = rem[p] - 1

\* *ps_shmaddr and sem1 for a process about to run.  A negative value is
\* refused by semctl, whose error setSemaphoreValue does not see.
LoadRemaining(p) ==
  /\ shm' = rem[p]
  /\ sem' = IF rem[p] > 0 THEN rem[p] - 1 ELSE sem

IsForked(p) == child[p] # "none"

\* Slip: no SIGCONT.
ResumeWithoutContinue(p) ==
  /\ wait' = [wait EXCEPT ![p] =
               IF IsForked(p) THEN @ + clk - lastClk[p] ELSE clk - job.arrival[p]]
  /\ child' = [child EXCEPT ![p] = IF IsForked(p) THEN @ ELSE "spin"]
  /\ UNCHANGED halted

\* fork and StartCurrentProcess for a new process, ResumeCurrentProcess for one
\* that was stopped.
StartOrResume(p) ==
  IF IsForked(p)
    THEN /\ wait' = [wait EXCEPT ![p] = @ + clk - lastClk[p]]
         /\ halted' = [halted EXCEPT ![p] = FALSE]
         /\ UNCHANGED child
    ELSE /\ wait' = [wait EXCEPT ![p] = clk - job.arrival[p]]
         /\ child' = [child EXCEPT ![p] = "spin"]
         /\ UNCHANGED halted

\* Slips: the time of the stop is not kept; no SIGSTOP.
StopWithoutTime(p) == lastClk' = lastClk /\ halted' = [halted EXCEPT ![p] = TRUE]
StopWithoutSignal(p) == lastClk' = [lastClk EXCEPT ![p] = clk] /\ halted' = halted

\* StopCurrentProcess
Stop(p) ==
  /\ lastClk' = [lastClk EXCEPT ![p] = clk]
  /\ halted' = [halted EXCEPT ![p] = TRUE]

\* Slip: the shared integer is not stored.
DecrementPcbOnly ==
  /\ rem' = [rem EXCEPT ![cur] = @ - 1]
  /\ shm' = shm

\* decRemainingTimeOfCurrPs
Decrement ==
  /\ rem' = [rem EXCEPT ![cur] = @ - 1]
  /\ shm' = rem[cur] - 1

\* Slip: nobody passes a process that does not fit.
AdmitInOrder(acc, p) ==
  IF acc.waitQ = <<>> /\ Fits(acc.free, job.size[p])
    THEN [free  |-> Carve(acc.free, OrderFor(job.size[p])),
          block |-> [acc.block EXCEPT ![p] = BlockFor(acc.free, p)],
          waitQ |-> acc.waitQ,
          ready |-> Enqueue(acc.ready, p)]
    ELSE [acc EXCEPT !.waitQ = Append(@, p)]

\* The first-fit scan of waitQ on the lists fl, front to back.
Admit(acc, p) ==
  IF Fits(acc.free, job.size[p])
    THEN [free  |-> Carve(acc.free, OrderFor(job.size[p])),
          block |-> [acc.block EXCEPT ![p] = BlockFor(acc.free, p)],
          waitQ |-> acc.waitQ,
          ready |-> Enqueue(acc.ready, p)]
    ELSE [acc EXCEPT !.waitQ = Append(@, p)]

Scanned(fl, blk) ==
  FoldLeft(Admit, [free |-> fl, block |-> blk, waitQ |-> <<>>, ready |-> ready], waitQ)

\* The handler of SIGUSR1.  It takes the sender to be currentProc; without one,
\* or without its PCB, it dereferences a null or freed pointer and the scheduler dies.
processTerminate ==
  /\ sig /\ ~Stopped
  /\ sig' = FALSE
  /\ cpuFree' = TRUE
  /\ pCount' = pCount + 1
  /\ \/ /\ cur \in table
        /\ \E fl \in {Release(free, block[cur].start, block[cur].order)} :
           \E s \in {Scanned(fl, [block EXCEPT ![cur] = None])} :
             /\ free' = s.free /\ block' = s.block
             /\ waitQ' = s.waitQ /\ ready' = s.ready
        /\ table' = table \ {cur}
        /\ cur' = None
        /\ UNCHANGED pc
     \/ /\ cur \notin table
        /\ pc' = "crashed"
        /\ UNCHANGED <<memory, ready, table, cur>>
  /\ UNCHANGED <<job, clk, generator, msgq, processes, polls, prevClk, rem, lastClk, wait>>

-----------------------------------------------------------------------------
(* The clock.  When prompt, it only ticks once everybody has done what the *)
(* current second calls for and the loop goes round without effect.        *)

Quiet ==
  /\ gen = "watch" /\ (sent < N => clk # job.arrival[sent + 1])
  /\ msgq = <<>>
  /\ ~sig
  /\ \A p \in Id : ~Runs(p, "kill") /\ ~Runs(p, "up") /\ (Runs(p, "spin") => shm > 0)
  /\ Stopped \/ /\ prevClk = clk
                /\ pc \in {"receive", "dispatch", "tick", "end"}
                /\ cpuFree => ready = <<>>

Tick ==
  /\ clk < MaxClk
  /\ job.prompt => Quiet
  /\ clk' = clk + 1
  /\ UNCHANGED <<job, generator, msgq, processes, sig, loop, cpu, ready, pcb, memory>>

Environment == Tick \/ Notice \/ Send \/ \E p \in Id : LeaveLoop(p) \/ Signal(p) \/ Up(p)

-----------------------------------------------------------------------------
(* Properties that do not depend on the algorithm.                         *)

SimTypeOK ==
  /\ job \in Jobs
  /\ clk \in 0 .. MaxClk /\ prevClk \in -1 .. MaxClk
  /\ gen \in {"watch", "send"} /\ sent \in 0 .. N
  /\ {msgq, ready, waitQ} \subseteq Seq(Id)
  /\ shm \in Int /\ sem \in Nat
  /\ child \in [Id -> {"none", "spin", "kill", "up", "gone"}]
  /\ halted \in [Id -> BOOLEAN]
  /\ {sig, cpuFree} \subseteq BOOLEAN
  /\ polls \in 0 .. N /\ pCount \in 0 .. N
  /\ cur \in Id \cup {None, Freed}
  /\ table \subseteq Id
  /\ rem \in [Id -> Int] /\ wait \in [Id -> Int] /\ lastClk \in [Id -> Nat]

Finished(p) == child[p] # "none" /\ p \notin table

\* How often p is in the message queue, in the wait queue and in the ready queue,
\* or has left the process table for good.
Places(p) ==
  Cardinality({i \in DOMAIN (msgq \o waitQ \o ready) : (msgq \o waitQ \o ready)[i] = p})
    + (IF Finished(p) THEN 1 ELSE 0)

\* A process leaves its loop only when its PCB has nothing left: the integer it
\* spins on is never another process's, and no store to it is missed.
NoEarlyFinish == \A p \in Id : child[p] \in {"kill", "up", "gone"} => rem[p] = 0

\* With prompt processes, the time a process has spent in the system when the
\* handler runs is its waiting time and its run time, or a second less when it
\* was dispatched in a second that was still to be counted.
TurnaroundIsWaitAndRun ==
  job.prompt /\ sig /\ cur \in Id =>
    clk - job.arrival[cur] - wait[cur] \in {job.run[cur] - 1, job.run[cur]}

Stage(p) ==
  IF p \in Range(waitQ) THEN "memory"
  ELSE IF p \in Range(ready) THEN "ready"
  ELSE IF p \in table THEN "running"
  ELSE IF Finished(p) THEN "finished" ELSE "outside"

Abstract == INSTANCE Lifecycle WITH
  Work <- {j.run : j \in Jobs},
  total <- job.run,
  stage <- [p \in Id |-> Stage(p)],
  left <- rem

\* The loop, the handler and the processes between them keep the promises of
\* Lifecycle: one process has the CPU, and it finishes once, with nothing left.
LifecycleSpec == Abstract!Spec

\* With prompt processes the scheduler stops: it never waits in down for a process
\* that is not coming, and no process waits forever.  A crash counts as a stop: it is
\* excluded by NeverCrashes (RR) and CrashesOnlyInWindows (HPF), and happens in SRTN.
ComesToAnEnd == job.prompt => <>Stopped
=============================================================================
