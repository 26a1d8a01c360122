----------------------------- MODULE SRTN_proofs -----------------------------
(***************************************************************************)
(* Proofs about the loop for shortest remaining time next, for any number  *)
(* of processes, any assignment of arrival times, run times and sizes,     *)
(* prompt or not, and any memory.                                          *)
(***************************************************************************)
EXTENDS SRTN, Simulation_proofs

\* The places between a decrement and the end of its down, and where the loop dies
\* between them.
AtDown == {"prio", "down", "crashed"}

\* The process in *currentProc.
InHand == {cur} \cap Id

\* *ps_shmaddr and sem1 are loaded for the process about to be started.
AtStart ==
  pc = "start" =>
    cpuFree /\ cur \in Id /\ shm = rem[cur] /\ sem = rem[cur] - 1

\* Whoever is in *currentProc runs or is about to; the loop dies only when nobody is.
CurrentRuns ==
  /\ cur \in Id => ~cpuFree \/ pc = "start"
  /\ pc = "dec" => ~cpuFree
  /\ pc = "crashed" => cur \notin Id

\* The priority of a queued copy is the remaining time in the PCB, but between the
\* decrement of the latter and the copy of it.
PrioFollows == \A p \in table : (pc = "prio" /\ p = cur) \/ prio[p] = rem[p]

IInv ==
  /\ TypeOK
  /\ SimInv(InHand, AtDown)
  /\ AtStart /\ CurrentRuns /\ PrioFollows

\* The first state satisfies the invariant.
LEMMA IInvInit == Init => IInv
<1>. SUFFICES ASSUME Init PROVE IInv
  OBVIOUS
<1>1. SimInit
  BY DEF Init
<1>2. SimInv({}, AtDown)
  BY <1>1, SimInvInit DEF AtDown
<1>3. InHand = {}
  BY <1>1, PointerAssumption DEF SimInit, InHand
<1>4. TypeOK
  BY <1>1, <1>2 DEF Init, SimInit, SimInv, TypeOK
<1>. QED  BY <1>1, <1>2, <1>3, <1>4, PointerAssumption
          DEF IInv, AtStart, CurrentRuns, PrioFollows, SimInit

\* It does not depend on the clock, the generator and the processes.
LEMMA WorldKeeps ==
  ASSUME IInv, World
  PROVE  IInv'
<1>. USE DEF generator, processes, loop, cpu, pcb, memory
<1>1. UNCHANGED <<pc, cpuFree, cur, ready, table, rem, prio>>
  BY DEF World, Environment, Tick, Notice, Send, LeaveLoop, Signal, Up
<1>2. PICK H : H = InHand
  OBVIOUS
<1>3. SimInv(H, AtDown) /\ SimInv(H, AtDown)'
  BY <1>2, EnvironmentKeeps DEF IInv, World
<1>4. InHand' = H
  BY <1>1, <1>2 DEF InHand
<1>5. SimInv(InHand, AtDown)'
  BY <1>3, <1>4
<1>6. TypeOK'
  BY <1>1, <1>3 DEF IInv, TypeOK, SimInv
<1>7. pc = "start" => UNCHANGED <<shm, sem>>
  <2>1. ASSUME pc = "start", NEW p \in Id, Up(p) PROVE FALSE
    BY <2>1, <1>3, WhoRuns DEF Up, Runs, AtDown
  <2>. QED  BY <2>1 DEF World, Environment, Tick, Notice, Send, LeaveLoop, Signal
<1>8. AtStart' /\ CurrentRuns' /\ PrioFollows'
  BY <1>1, <1>7 DEF IInv, AtStart, CurrentRuns, PrioFollows
<1>. QED  BY <1>5, <1>6, <1>8 DEF IInv

\* The handler runs between a decrement and the end of its down.
LEMMA HandlerStep ==
  ASSUME IInv, Handler
  PROVE  IInv'
<1>1. sig /\ pc \in AtDown
  BY DEF Handler, processTerminate, IInv, SimInv, CurrentCounts
<1>2. SimInv({cur} \cap Id, AtDown)
  BY DEF IInv, InHand
<1>3. SimInv({}, AtDown)' /\ pc' = pc
  BY <1>2, HandlerKeeps DEF Handler
<1>4. cur \in table /\ ~cpuFree
  BY <1>1, <1>2 DEF SimInv, CurrentCounts
<1>5. cur' = None /\ cur' \notin Id /\ table' = table \ {cur} /\ UNCHANGED <<rem, prio>>
  BY <1>4, PointerAssumption DEF Handler, processTerminate
<1>6. InHand' = {}
  BY <1>5 DEF InHand
<1>. QED  BY <1>1, <1>3, <1>5, <1>6
          DEF IInv, TypeOK, SimInv, AtStart, CurrentRuns, PrioFollows, AtDown

\* The steps that only read clock, counts and queues, and the copy of the priority.
LEMMA TestStep ==
  ASSUME IInv, TypeOK', pc' \in AtDown <=> pc \in AtDown, pc' # "start", cur' = cur,
         CurrentRuns', PrioFollows',
         UNCHANGED <<gen, sent, msgq, shm, sem, child, halted, sig, cpuFree, pCount,
                     ready, table, rem, waitQ>>
  PROVE  IInv'
<1>1. PICK H : H = InHand
  OBVIOUS
<1>2. SimInv(H, AtDown)'
  <2>1. SimInv(H, AtDown) /\ SimTypeOK'
    BY <1>1 DEF IInv, TypeOK
  <2>. QED  BY <2>1, TestKeeps
<1>3. InHand' = H
  BY <1>1 DEF InHand
<1>4. SimInv(InHand, AtDown)'
  BY <1>2, <1>3
<1>. QED  BY <1>4 DEF IInv, AtStart

\* The loop's tests, and going from one place to the next.
LEMMA TestsKeep ==
  ASSUME IInv, Received \/ NewSecond \/ SameSecond \/ Keep \/ End
  PROVE  IInv'
<1>. USE DEF generator, processes, loop, cpu, pcb, memory
<1>1. UNCHANGED <<job, clk, gen, sent, msgq, shm, sem, child, halted, sig, cpuFree, cur,
                  pCount, ready, table, rem, lastClk, wait, waitQ, prio>>
  BY DEF Received, NewSecond, SameSecond, Keep, End
<1>2. polls' \in 0 .. N /\ prevClk' \in -1 .. MaxClk
  <2>1. polls' \in {polls, 0} /\ prevClk' \in {prevClk, clk}
    BY DEF Received, NewSecond, SameSecond, Keep, End
  <2>2. polls \in 0 .. N /\ prevClk \in -1 .. MaxClk /\ clk \in 0 .. MaxClk
    BY DEF IInv, TypeOK, SimTypeOK
  <2>. QED  BY <2>1, <2>2, NAssumption, MaxClkAssumption
<1>3. SimTypeOK'
  BY <1>1, <1>2 DEF IInv, TypeOK, SimTypeOK
<1>4. /\ pc \in {"receive", "receive2", "tick", "preempt", "end"}
      /\ pc' \in {"dispatch", "preempt", "dec", "end", "done", "receive"}
      /\ pc' = "dec" => ~cpuFree
  BY DEF Received, NewSecond, SameSecond, Keep, End, Goto
<1>5. TypeOK'
  BY <1>1, <1>3, <1>4 DEF IInv, TypeOK
<1>6. CurrentRuns' /\ PrioFollows'
  BY <1>1, <1>4 DEF IInv, CurrentRuns, PrioFollows
<1>. QED  BY <1>1, <1>4, <1>5, <1>6, TestStep DEF AtDown

\* A received copy's priority is what its PCB has left.
LEMMA ReceivingKeeps ==
  ASSUME IInv, Receiving
  PROVE  IInv'
<1>. USE DEF generator, processes, loop, cpu, pcb, memory
<1>1. UNCHANGED <<pc, cpuFree, cur>> /\ pc \in {"receive", "receive2"}
  BY DEF Receiving, Poll
<1>2. PICK H : H = InHand
  OBVIOUS
<1>3. SimInv(H, AtDown) /\ SimInv(H, AtDown)'
  BY <1>2, PollKeeps DEF IInv, Receiving
<1>4. InHand' = H
  BY <1>1, <1>2 DEF InHand
<1>5. SimInv(InHand, AtDown)'
  BY <1>3, <1>4
<1>6. CASE PollEmpty
  <2>1. UNCHANGED <<prio, table, rem>>
    BY <1>6 DEF PollEmpty, Receiving
  <2>. QED  BY <1>1, <1>3, <1>5, <2>1
            DEF IInv, TypeOK, SimInv, AtStart, CurrentRuns, PrioFollows
<1>7. ASSUME NEW p \in Id, Receive(p) PROVE IInv'
  <2>1. /\ prio' = [prio EXCEPT ![p] = job.run[p]] /\ rem' = [rem EXCEPT ![p] = job.run[p]]
        /\ table' = table \cup {p}
    BY <1>7 DEF Receive, Receiving
  <2>2. job.run[p] \in Nat
    BY <1>3, JobsAssumption DEF SimInv, SimTypeOK
  <2>3. prio' \in [Id -> Int]
    BY <2>1, <2>2 DEF IInv, TypeOK
  <2>4. PrioFollows'
    BY <1>1, <1>3, <2>1 DEF IInv, TypeOK, SimInv, SimTypeOK, PrioFollows
  <2>. QED  BY <1>1, <1>3, <1>5, <2>3, <2>4
            DEF IInv, TypeOK, SimInv, AtStart, CurrentRuns
<1>. QED  BY <1>6, <1>7 DEF Receiving, Poll, ReceiveReady, ReceiveWaiting

-----------------------------------------------------------------------------
(* The steps that give the CPU, charge it and take it back.                *)

\* currentProc is set to null only when nobody is in it.
LEMMA DispatchNobodyKeeps ==
  ASSUME IInv, DispatchNobody
  PROVE  IInv'
<1>. USE DEF generator, processes, loop, cpu, pcb, memory
<1>1. /\ pc = "dispatch" /\ pc' = "tick"
      /\ UNCHANGED <<job, clk, gen, sent, msgq, shm, sem, child, halted, sig, polls, prevClk,
                     cpuFree, pCount, ready, table, rem, lastClk, wait, waitQ, prio>>
      /\ (cpuFree /\ cur' = None) \/ cur' = cur
  BY DEF DispatchNobody, Goto
<1>2. TypeOK'
  BY <1>1 DEF IInv, TypeOK, SimTypeOK
<1>3. CASE cur' = cur
  <2>1. CurrentRuns' /\ PrioFollows'
    BY <1>1, <1>3 DEF IInv, CurrentRuns, PrioFollows
  <2>. QED  BY <1>1, <1>2, <1>3, <2>1, TestStep DEF AtDown
<1>4. CASE cpuFree /\ cur' = None
  <2>1. InHand = {} /\ InHand' = {}
    BY <1>1, <1>4, PointerAssumption DEF InHand, IInv, CurrentRuns
  <2>2. SimInv({}, AtDown)
    BY <2>1 DEF IInv
  <2>3. Placed({})' /\ Counted'
    BY <1>1, <2>2 DEF SimInv, Placed, IsForked, Counted, FinishedOnes, Finished
  <2>4. TimeLeft(AtDown)' /\ OnlyCurrentRuns(AtDown)' /\ CurrentCounts(AtDown)' /\ NoEarlyFinish'
    BY <1>1, <1>4, <2>2 DEF SimInv, TimeLeft, OnlyCurrentRuns, CurrentCounts, NoEarlyFinish,
                            Asleep, AtDown
  <2>5. SimInv(InHand, AtDown)'
    BY <1>2, <2>1, <2>3, <2>4 DEF SimInv, TypeOK
  <2>6. PrioFollows' /\ CurrentRuns'
    BY <1>1, <1>4, PointerAssumption DEF IInv, PrioFollows, CurrentRuns
  <2>. QED  BY <1>1, <1>2, <2>5, <2>6 DEF IInv, AtStart
<1>. QED  BY <1>1, <1>3, <1>4

\* peek's choice among the processes that are ready.
LEMMA PeekIsReady ==
  ASSUME IInv, ready # <<>>
  PROVE  /\ PeekIndex \in DOMAIN ready /\ ready[PeekIndex] \in Range(ready)
         /\ ready[PeekIndex] \in Id
         /\ \A i \in DOMAIN ready : prio[ready[PeekIndex]] <= prio[ready[i]]
         /\ Dequeued \in Queue /\ Range(Dequeued) = Range(ready) \ {ready[PeekIndex]}
<1>1. ready \in Queue /\ ready \in Seq(Id)
  BY DEF IInv, SimInv, Placed, Queue
<1>2. \A i \in DOMAIN ready : ready[i] \in Id
  BY <1>1, LenProperties
<1>3. prio \in [Id -> Int] /\ job.arrival \in [Id -> Nat]
  BY JobsAssumption DEF IInv, TypeOK, SimTypeOK
<1>4. \A i \in DOMAIN ready : prio[ready[i]] \in Int /\ job.arrival[ready[i]] \in Int
  BY <1>2, <1>3
<1>5. /\ PeekIndex \in DOMAIN ready
      /\ \A i \in DOMAIN ready : ~Better(prio, job.arrival, ready[i], ready[PeekIndex])
  BY <1>1, <1>4, PeekFindsBest DEF PeekIndex
<1>6. \A i \in DOMAIN ready : prio[ready[PeekIndex]] <= prio[ready[i]]
  BY <1>4, <1>5 DEF Better
<1>7. Dequeued \in Queue /\ Range(Dequeued) = Range(ready) \ {ready[PeekIndex]}
  BY <1>1, <1>5, RemoveFromQueue DEF Dequeued
<1>. QED  BY <1>2, <1>5, <1>6, <1>7 DEF Range

\* The process chosen is taken out, and the shared integer and the semaphore are its.
LEMMA DispatchKeeps ==
  ASSUME IInv, Dispatch
  PROVE  IInv'
<1>. USE DEF generator, processes, loop, cpu, pcb, memory
<1>1. /\ pc = "dispatch" /\ pc' = "start" /\ cpuFree /\ ready # <<>>
      /\ cur' = ready[PeekIndex] /\ ready' = Dequeued
      /\ UNCHANGED <<job, clk, gen, sent, msgq, child, halted, sig, polls, prevClk, cpuFree,
                     pCount, table, rem, lastClk, wait, waitQ, prio>>
  BY DEF Dispatch, Goto
<1>2. InHand = {}
  BY <1>1 DEF InHand, IInv, CurrentRuns
<1>3. SimInv({}, AtDown)
  BY <1>2 DEF IInv
<1>4. /\ ready \in Queue /\ cur' \in Id /\ cur' \in Range(ready)
      /\ ready' \in Queue /\ Range(ready') = Range(ready) \ {cur'}
  BY <1>1, <1>3, PeekIsReady DEF SimInv, Placed
<1>5. cur' \in table /\ rem[cur'] \in Int /\ rem[cur'] > 0
  BY <1>1, <1>3, <1>4 DEF SimInv, Placed, TimeLeft, SimTypeOK, AtDown
<1>6. shm' = rem[cur'] /\ sem' = rem[cur'] - 1
  BY <1>1, <1>5 DEF Dispatch, LoadRemaining
<1>7. SimTypeOK'
  <2>1. {msgq', ready', waitQ'} \subseteq Seq(Id)
    BY <1>1, <1>3, <1>4 DEF SimInv, Placed, Queue
  <2>2. shm' \in Int /\ sem' \in Nat
    BY <1>5, <1>6
  <2>. QED  BY <1>1, <1>3, <1>4, <2>1, <2>2 DEF SimInv, SimTypeOK
<1>8. InHand' = {cur'}
  BY <1>1, <1>4 DEF InHand
<1>9. Placed({cur})' /\ Counted'
  BY <1>1, <1>3, <1>4 DEF SimInv, Placed, IsForked, Counted, FinishedOnes, Finished
<1>10. TimeLeft(AtDown)' /\ OnlyCurrentRuns(AtDown)' /\ CurrentCounts(AtDown)' /\ NoEarlyFinish'
  BY <1>1, <1>3 DEF SimInv, TimeLeft, OnlyCurrentRuns, CurrentCounts, NoEarlyFinish, Asleep,
                    AtDown
<1>11. SimInv(InHand, AtDown)'
  BY <1>7, <1>8, <1>9, <1>10 DEF SimInv, Placed
<1>12. PrioFollows' /\ CurrentRuns'
  BY <1>1 DEF IInv, PrioFollows, CurrentRuns
<1>. QED  BY <1>1, <1>4, <1>6, <1>7, <1>11, <1>12 DEF IInv, TypeOK, AtStart

\* The process that was taken out runs, forked or continued.
LEMMA StartKeeps ==
  ASSUME IInv, Start
  PROVE  IInv'
<1>. USE DEF generator, processes, loop, cpu, pcb, memory
<1>1. /\ pc = "start" /\ pc' = "tick" /\ cpuFree' = FALSE
      /\ UNCHANGED <<job, clk, gen, sent, msgq, shm, sem, sig, polls, prevClk, cur, pCount,
                     ready, table, rem, lastClk, waitQ, prio>>
  BY DEF Start, Goto
<1>2. cpuFree /\ cur \in Id /\ shm = rem[cur] /\ sem = rem[cur] - 1
  BY <1>1 DEF IInv, AtStart
<1>3. PICK p \in Id : p = cur
  BY <1>2
<1>4. InHand = {p} /\ InHand' = {p}
  BY <1>1, <1>2, <1>3 DEF InHand
<1>5. SimInv({p}, AtDown)
  BY <1>4 DEF IInv
<1>6. p \in table /\ p \notin Range(ready) /\ ready \in Queue
  BY <1>5 DEF SimInv, Placed
<1>7. StartOrResume(p)
  BY <1>3 DEF Start
<1>8. pc \notin AtDown /\ pc' \notin AtDown
  BY <1>1 DEF AtDown
<1>9. SimInv({p}, AtDown)'
  <2>1. Range(ready') = (Range(ready) \cup {p}) \ {p}
    BY <1>1, <1>6
  <2>2. shm' = rem[p] /\ sem' = rem[p] - 1 /\ cur' = p
    BY <1>1, <1>2, <1>3
  <2>. QED  BY <1>1, <1>2, <1>5, <1>6, <1>7, <1>8, <2>1, <2>2, CpuGiven
<1>10. SimInv(InHand, AtDown)'
  BY <1>4, <1>9
<1>. QED  BY <1>1, <1>9, <1>10
          DEF IInv, TypeOK, SimInv, AtStart, CurrentRuns, PrioFollows

\* The second is charged to the PCB.
LEMMA DecKeeps ==
  ASSUME IInv, Dec
  PROVE  IInv'
<1>. USE DEF generator, processes, loop, cpu, pcb, memory
<1>1. /\ pc = "dec" /\ pc' = "prio" /\ Decrement
      /\ UNCHANGED <<job, clk, gen, sent, msgq, sem, child, halted, sig, polls, prevClk,
                     cpuFree, cur, pCount, ready, table, lastClk, wait, waitQ, prio>>
  BY DEF Dec, Goto
<1>2. ~cpuFree /\ cur \in Id
  BY <1>1 DEF IInv, CurrentRuns, SimInv, CurrentCounts, SimTypeOK
<1>3. PICK p \in Id : p = cur
  BY <1>2
<1>4. InHand = {p} /\ InHand' = {p}
  BY <1>1, <1>2, <1>3 DEF InHand
<1>5. SimInv({p}, AtDown)
  BY <1>4 DEF IInv
<1>6. SimInv({p}, AtDown)'
  <2>1. pc \notin AtDown /\ pc' \in AtDown
    BY <1>1 DEF AtDown
  <2>. QED  BY <1>1, <1>2, <1>3, <1>5, <2>1, SecondCharged
<1>7. SimInv(InHand, AtDown)'
  BY <1>4, <1>6
<1>8. PrioFollows'
  BY <1>1, <1>2, <1>5 DEF IInv, PrioFollows, Decrement, SimInv, SimTypeOK
<1>. QED  BY <1>1, <1>2, <1>6, <1>7, <1>8 DEF IInv, TypeOK, SimInv, AtStart, CurrentRuns

\* The copy in *currentProc gets what the PCB has left, when it is still there.
LEMMA CopyPriorityKeeps ==
  ASSUME IInv, CopyPriority
  PROVE  IInv'
<1>. USE DEF generator, processes, loop, cpu, pcb, memory
<1>1. UNCHANGED <<job, clk, gen, sent, msgq, shm, sem, child, halted, sig, polls, prevClk,
                  cpuFree, cur, pCount, ready, table, rem, lastClk, wait, waitQ>>
  BY DEF CopyPriority
<1>2. /\ pc = "prio"
      /\ \/ cur \in Id /\ pc' = "down" /\ prio' = [prio EXCEPT ![cur] = rem[cur]]
         \/ cur \notin Id /\ pc' = "crashed" /\ prio' = prio
  BY DEF CopyPriority, Goto
<1>3. TypeOK'
  BY <1>1, <1>2 DEF IInv, TypeOK, SimTypeOK
<1>4. table \subseteq Id
  BY DEF IInv, TypeOK, SimTypeOK
<1>5. PrioFollows'
  BY <1>1, <1>2, <1>4 DEF IInv, TypeOK, PrioFollows
<1>6. CurrentRuns'
  BY <1>1, <1>2 DEF IInv, CurrentRuns
<1>. QED  BY <1>1, <1>2, <1>3, <1>5, <1>6, TestStep DEF AtDown

\* The down of the last second waits for the process and its handler.
LEMMA DownKeeps ==
  ASSUME IInv, Down
  PROVE  IInv'
<1>. USE DEF generator, processes, loop, cpu, pcb, memory
<1>1. /\ pc = "down" /\ pc' = "receive2" /\ ~sig /\ sem > 0 /\ sem' = sem - 1
      /\ UNCHANGED <<job, clk, gen, sent, msgq, shm, child, halted, sig, polls, prevClk,
                     cpuFree, cur, pCount, ready, table, rem, lastClk, wait, waitQ, prio>>
  BY DEF Down, Goto
<1>2. PICK H : H = InHand
  OBVIOUS
<1>3. InHand' = H
  BY <1>1, <1>2 DEF InHand
<1>4. SimInv(H, AtDown)'
  <2>1. pc \in AtDown /\ pc' \notin AtDown
    BY <1>1 DEF AtDown
  <2>2. SimInv(H, AtDown)
    BY <1>2 DEF IInv
  <2>. QED  BY <1>1, <2>1, <2>2, DownEnds
<1>5. SimInv(InHand, AtDown)'
  BY <1>3, <1>4
<1>. QED  BY <1>1, <1>4, <1>5
          DEF IInv, TypeOK, SimInv, AtStart, CurrentRuns, PrioFollows

\* A process with more left than somebody in q1 is stopped and goes back to q1, where
\* there is room for it.
LEMMA PreemptKeeps ==
  ASSUME IInv, Preempt
  PROVE  IInv'
<1>. USE DEF generator, processes, loop, cpu, pcb, memory
<1>1. /\ pc = "preempt" /\ pc' = "end" /\ cur \in Id /\ cpuFree' = TRUE /\ Stop(cur)
      /\ ready' = Enqueue(ready, cur) /\ cur' = Freed
      /\ UNCHANGED <<job, clk, gen, sent, msgq, shm, sem, child, sig, polls, prevClk, pCount,
                     table, rem, wait, waitQ, prio>>
  BY DEF Preempt, Goto, MustPreempt
<1>2. ~cpuFree
  BY <1>1 DEF IInv, CurrentRuns
<1>3. PICK p \in Id : p = cur
  BY <1>1
<1>4. InHand = {p} /\ InHand' = {}
  BY <1>1, <1>3, PointerAssumption DEF InHand
<1>5. SimInv({p}, AtDown)
  BY <1>4 DEF IInv
<1>6. ready \in Queue /\ p \notin Range(ready)
  BY <1>5 DEF SimInv, Placed
<1>7. ready' \in Queue /\ Range(ready') = Range(ready) \cup {p}
  BY <1>1, <1>3, <1>6, EnqueueQueue
<1>8. SimInv({}, AtDown)'
  <2>1. pc \notin AtDown /\ pc' \notin AtDown
    BY <1>1 DEF AtDown
  <2>2. {} \cap Range(ready') = {} /\ {} \subseteq {p}
        /\ Range(ready') \cup {} = Range(ready) \cup {p}
        /\ cur' \in Id \cup {None, Freed} /\ Stop(p)
    BY <1>1, <1>3, <1>7
  <2>. QED  BY <1>1, <1>2, <1>3, <1>5, <1>7, <2>1, <2>2, CpuTaken
<1>9. SimInv(InHand, AtDown)'
  BY <1>4, <1>8
<1>. QED  BY <1>1, <1>8, <1>9, PointerAssumption
          DEF IInv, TypeOK, SimInv, AtStart, CurrentRuns, PrioFollows

-----------------------------------------------------------------------------
(* The theorems.                                                           *)

\* Nothing happens to the invariant's state functions in a stuttering step.
LEMMA StutterKeeps ==
  ASSUME IInv, UNCHANGED vars
  PROVE  IInv'
<1>1. UNCHANGED <<job, clk, gen, sent, msgq, shm, sem, child, halted, sig, pc, polls,
                  prevClk, cpuFree, cur, pCount, ready, table, rem, lastClk, wait, waitQ,
                  prio>>
  BY DEF vars, simVars, generator, processes, loop, cpu, pcb, memory
<1>2. PICK H : H = InHand
  OBVIOUS
<1>3. SimTypeOK' /\ TypeOK' /\ InHand' = H
  BY <1>1, <1>2 DEF IInv, TypeOK, SimTypeOK, InHand
<1>4. SimInv(H, AtDown)'
  <2>1. SimInv(H, AtDown) /\ (pc' \in AtDown <=> pc \in AtDown)
    BY <1>1, <1>2 DEF IInv
  <2>. QED  BY <1>1, <1>3, <2>1, TestKeeps
<1>5. SimInv(InHand, AtDown)'
  BY <1>3, <1>4
<1>. QED  BY <1>1, <1>3, <1>5 DEF IInv, AtStart, CurrentRuns, PrioFollows

\* The invariant: everybody is in one place, at most one process runs, it is the one
\* in currentProc, the shared integer and the semaphore are its, and the priorities of
\* the copies are the remaining times.
THEOREM Invariant == Spec => []IInv
<1>1. Init => IInv
  BY IInvInit
<1>2. IInv /\ [Next]_vars => IInv'
  <2>. SUFFICES ASSUME IInv, [Next]_vars PROVE IInv'
    OBVIOUS
  <2>1. CASE World
    BY <2>1, WorldKeeps
  <2>2. CASE Handler
    BY <2>2, HandlerStep
  <2>3. CASE Loop
    <3>1. CASE Received \/ NewSecond \/ SameSecond \/ Keep \/ End
      BY <3>1, TestsKeep
    <3>2. CASE Receiving \/ DispatchNobody \/ Dispatch \/ Start
      BY <3>2, ReceivingKeeps, DispatchNobodyKeeps, DispatchKeeps, StartKeeps
    <3>3. CASE Dec \/ CopyPriority \/ Down \/ Preempt
      BY <3>3, DecKeeps, CopyPriorityKeeps, DownKeeps, PreemptKeeps
    <3>. QED  BY <2>3, <3>1, <3>2, <3>3 DEF Loop
  <2>4. CASE UNCHANGED vars
    BY <2>4, StutterKeeps
  <2>. QED  BY <2>1, <2>2, <2>3, <2>4 DEF Next
<1>. QED  BY <1>1, <1>2, PTL DEF Spec

\* Queues, counts and times keep their types: pCount never passes the number of
\* processes and the semaphore is never negative.
THEOREM TypeCorrect == Spec => []TypeOK
<1>1. IInv => TypeOK
  BY DEF IInv
<1>. QED  BY <1>1, Invariant, PTL

\* Nobody is lost and nobody is in two places, also when the handler takes processes
\* out of waitQ and when the loop puts the process it stopped back into q1.
THEOREM NobodyIsLost == Spec => []OnePlace
<1>1. IInv => OnePlace
  <2>. SUFFICES ASSUME IInv, NEW p \in 1 .. sent
                PROVE  Places(p) + (IF cur = p THEN 1 ELSE 0) = 1
    BY DEF OnePlace
  <2>1. PICK H : H = InHand
    OBVIOUS
  <2>2. SimInv(H, AtDown)
    BY <2>1 DEF IInv
  <2>3. p \in H <=> cur = p
    <3>1. p \in Id
      BY NAssumption DEF IInv, TypeOK, SimTypeOK, Id
    <3>. QED  BY <2>1, <3>1 DEF InHand
  <2>. QED  BY <2>2, <2>3, PlacedIsOnePlace DEF SimInv, SimTypeOK
<1>. QED  BY <1>1, Invariant, PTL

\* The shared integer and the semaphore follow the remaining time of the process
\* that spins, over preemptions, so exactly the last down waits for it.
THEOREM SemaphoreFollows == Spec => []SemTracksRemaining
<1>1. IInv => SemTracksRemaining
  <2>. SUFFICES ASSUME IInv, ~cpuFree, cur \in Id, child[cur] \in {"spin", "kill"}
                PROVE  /\ shm = rem[cur]
                       /\ sem = IF pc \in {"prio", "down"} THEN rem[cur] ELSE rem[cur] - 1
    BY DEF SemTracksRemaining
  <2>1. CASE pc \in {"prio", "down"}
    BY <2>1 DEF IInv, SimInv, CurrentCounts, AtDown
  <2>2. CASE pc \notin AtDown
    BY <2>2 DEF IInv, SimInv, CurrentCounts, AtDown
  <2>3. pc # "crashed"
    BY DEF IInv, CurrentRuns
  <2>. QED  BY <2>1, <2>2, <2>3 DEF AtDown
<1>. QED  BY <1>1, Invariant, PTL

\* A process leaves its loop only when it has run for all of its run time.
THEOREM NobodyFinishesEarly == Spec => []NoEarlyFinish
<1>1. IInv => NoEarlyFinish
  BY DEF IInv, SimInv
<1>. QED  BY <1>1, Invariant, PTL

\* Whoever is dispatched, and whoever keeps the CPU, has the least remaining time of
\* all that are ready: what peek compares are the remaining times themselves.
THEOREM LeastRemainingRuns == Spec => ShortestRuns
<1>. DEFINE Chosen ==
       (pc = "dispatch" /\ pc' = "start") \/ (pc = "preempt" /\ pc' = "end" /\ cur' \in Id)
         => \A i \in DOMAIN ready : rem[cur'] <= rem[ready[i]]
<1>1. ASSUME IInv, IInv', [Next]_vars PROVE Chosen
  <2>. SUFFICES ASSUME \/ pc = "dispatch" /\ pc' = "start"
                       \/ pc = "preempt" /\ pc' = "end" /\ cur' \in Id,
                       ready # <<>>
                PROVE  \A i \in DOMAIN ready : rem[cur'] <= rem[ready[i]]
    BY DEF IInv, TypeOK, SimTypeOK
  <2>1. \A i \in DOMAIN ready : rem[ready[i]] = prio[ready[i]]
    BY <1>1 DEF IInv, PrioFollows, SimInv, Placed, Range
  <2>2. /\ \A i \in DOMAIN ready : prio[ready[PeekIndex]] <= prio[ready[i]]
        /\ \A i \in DOMAIN ready : prio[ready[i]] \in Int
        /\ PeekIndex \in DOMAIN ready
    <3>1. \A i \in DOMAIN ready : ready[i] \in Id
      <4>1. ready \in Seq(Id)
        BY <1>1 DEF IInv, TypeOK, SimTypeOK
      <4>. QED  BY <4>1, LenProperties
    <3>2. prio \in [Id -> Int]
      BY <1>1 DEF IInv, TypeOK
    <3>3. /\ PeekIndex \in DOMAIN ready
          /\ \A i \in DOMAIN ready : prio[ready[PeekIndex]] <= prio[ready[i]]
      BY <1>1, PeekIsReady
    <3>. QED  BY <3>1, <3>2, <3>3
  <2>3. pc' # pc
    OBVIOUS
  <2>4. Dispatch \/ Keep \/ Preempt
    <3>1. ~World /\ ~Handler /\ ~UNCHANGED vars
      <4>1. World => pc' = pc
        BY DEF World, Environment, Tick, Notice, Send, LeaveLoop, Signal, Up, loop
      <4>2. UNCHANGED vars => pc' = pc
        BY DEF vars, simVars, loop
      <4>3. Handler => pc' = pc \/ pc' = "crashed"
        BY DEF Handler, processTerminate
      <4>. QED  BY <2>3, <4>1, <4>2, <4>3
    <3>2. Loop
      BY <1>1, <3>1 DEF Next
    <3>3. Receiving => pc' = pc
      BY DEF Receiving, Poll
    <3>. QED  BY <2>3, <3>2, <3>3
              DEF Loop, Received, DispatchNobody, Start, NewSecond, SameSecond, Dec,
                  CopyPriority, Down, End, Goto
  <2>5. CASE Dispatch
    BY <2>1, <2>2, <2>5 DEF Dispatch
  <2>6. CASE Keep
    <3>1. cur' = cur /\ cur \in Id /\ pc = "preempt" /\ ~MustPreempt
      BY <2>6 DEF Keep, Goto, cpu
    <3>2. cur \in table
      BY <1>1, <3>1 DEF IInv, CurrentRuns, SimInv, CurrentCounts
    <3>3. prio[cur] = rem[cur] /\ prio[cur] \in Int
      BY <1>1, <3>1, <3>2 DEF IInv, PrioFollows, TypeOK
    <3>4. prio[cur] <= prio[ready[PeekIndex]]
      BY <2>2, <3>1, <3>3 DEF MustPreempt
    <3>. QED  BY <2>1, <2>2, <3>1, <3>3, <3>4
  <2>7. CASE Preempt
    BY <2>7, PointerAssumption DEF Preempt, Goto
  <2>. QED  BY <2>4, <2>5, <2>6, <2>7
<1>. QED  BY <1>1, Invariant, PTL DEF Spec, ShortestRuns

-----------------------------------------------------------------------------
(* Shortest remaining time next implements Lifecycle.                      *)

\* The steps that leave everybody where they are.
LEMMA StutterSteps ==
  ASSUME IInv, IInv', InHand' = InHand,
         UNCHANGED <<job, rem, table, waitQ, ready>>,
         \A p \in Id \ table : IsForked(p)' <=> IsForked(p)
  PROVE  UNCHANGED Abstract!vars
<1>1. PICK H : H = InHand
  OBVIOUS
<1>2. SimInv(H, AtDown) /\ SimInv(H, AtDown)'
  BY <1>1 DEF IInv
<1>. QED  BY <1>2, StagesKept

\* Every step of the loop is a step of Lifecycle or none.
LEMMA LoopSteps ==
  ASSUME IInv, IInv', Loop
  PROVE  [Abstract!Next]_(Abstract!vars)
<1>. USE DEF generator, processes, loop, cpu, pcb, memory
<1>1. CASE Receiving
  <2>1. PICK H : H = InHand
    OBVIOUS
  <2>2. SimInv(H, AtDown) /\ Poll
    BY <1>1, <2>1 DEF IInv, Receiving
  <2>. QED  BY <2>2, PollArrives
<1>2. CASE \/ Received \/ NewSecond \/ SameSecond \/ CopyPriority \/ Down \/ Keep \/ End
  <2>1. UNCHANGED <<job, rem, table, waitQ, ready, child, cur>>
    BY <1>2 DEF Received, NewSecond, SameSecond, CopyPriority, Down, Keep, End
  <2>2. InHand' = InHand
    BY <2>1 DEF InHand
  <2>. QED  BY <2>1, <2>2, StutterSteps DEF IsForked
<1>3. CASE DispatchNobody
  <2>1. /\ pc = "dispatch" /\ cpuFree => cur' = None
        /\ ~cpuFree => cur' = cur
        /\ UNCHANGED <<job, rem, table, waitQ, ready, child>>
    BY <1>3 DEF DispatchNobody, Goto
  <2>2. InHand' = InHand
    BY <2>1, PointerAssumption, <1>3 DEF IInv, CurrentRuns, InHand, DispatchNobody, Goto
  <2>. QED  BY <2>1, <2>2, StutterSteps DEF IsForked
<1>4. CASE Dispatch
  <2>1. /\ pc = "dispatch" /\ cpuFree /\ ready # <<>>
        /\ cur' = ready[PeekIndex] /\ ready' = Dequeued
        /\ UNCHANGED <<job, rem, table, waitQ, child>>
    BY <1>4 DEF Dispatch, Goto
  <2>2. PICK p \in Id : p = ready[PeekIndex]
    BY <2>1, PeekIsReady
  <2>3. p \in Range(ready) /\ Range(ready') = Range(ready) \ {p}
    BY <2>1, <2>2, PeekIsReady
  <2>4. InHand = {} /\ InHand' = {p}
    BY <2>1, <2>2 DEF IInv, CurrentRuns, InHand
  <2>5. SimInv({}, AtDown) /\ SimInv({p}, AtDown)'
    BY <2>4 DEF IInv
  <2>. QED  BY <2>1, <2>3, <2>5, TakenOutIsDispatched DEF IsForked
<1>5. CASE Start
  <2>1. /\ pc = "start" /\ UNCHANGED <<job, rem, table, waitQ, ready, cur>>
    BY <1>5 DEF Start, Goto
  <2>2. InHand' = InHand
    BY <2>1 DEF InHand
  <2>3. cur \in table
    <3>1. cur \in InHand
      BY <2>1 DEF IInv, AtStart, InHand
    <3>. QED  BY <3>1 DEF IInv, SimInv, Placed
  <2>4. \A p \in Id \ table : IsForked(p)' <=> IsForked(p)
    BY <1>5, <2>3 DEF Start, StartOrResume, IsForked, IInv, TypeOK, SimTypeOK
  <2>. QED  BY <2>1, <2>2, <2>4, StutterSteps
<1>6. CASE Dec
  <2>1. /\ pc = "dec" /\ Decrement /\ UNCHANGED <<job, table, waitQ, ready, child, cur>>
    BY <1>6 DEF Dec, Goto
  <2>2. ~cpuFree /\ cur \in Id
    BY <2>1 DEF IInv, CurrentRuns, SimInv, CurrentCounts, SimTypeOK
  <2>3. PICK p \in Id : p = cur
    BY <2>2
  <2>4. InHand = {p} /\ InHand' = {p} /\ pc \notin AtDown
    BY <2>1, <2>3 DEF InHand, AtDown
  <2>5. SimInv({p}, AtDown) /\ SimInv({p}, AtDown)'
    BY <2>4 DEF IInv
  <2>. QED  BY <2>1, <2>2, <2>3, <2>4, <2>5, ChargedRuns
<1>7. CASE Preempt
  <2>1. /\ pc = "preempt" /\ cur \in Id /\ cur' = Freed /\ ready' = Enqueue(ready, cur)
        /\ UNCHANGED <<job, rem, table, waitQ, child>>
    BY <1>7 DEF Preempt, Goto, MustPreempt
  <2>2. PICK p \in Id : p = cur
    BY <2>1
  <2>3. InHand = {p} /\ InHand' = {}
    BY <2>1, <2>2, PointerAssumption DEF InHand
  <2>4. SimInv({p}, AtDown) /\ SimInv({}, AtDown)'
    BY <2>3 DEF IInv
  <2>5. ready \in Queue /\ p \notin Range(ready) /\ p \in table
    BY <2>4 DEF SimInv, Placed
  <2>6. Range(ready') = Range(ready) \cup {p}
    BY <2>1, <2>2, <2>5, EnqueueQueue
  <2>7. rem[p] > 0
    BY <2>1, <2>4, <2>5 DEF SimInv, TimeLeft, AtDown
  <2>. QED  BY <2>1, <2>4, <2>6, <2>7, PutBackIsPreempted DEF IsForked
<1>. QED  BY <1>1, <1>2, <1>3, <1>4, <1>5, <1>6, <1>7 DEF Loop

\* The loop, the handler, the processes and the generator together give every process
\* the CPU alone, charge it by the second, take it back only with something left and
\* finish it once, with nothing left; also when the loop dies between a decrement and
\* its down.
THEOREM ImplementsLifecycle == Spec => LifecycleSpec
<1>1. Init => Abstract!Init
  BY InitMaps DEF Init
<1>2. IInv /\ IInv' /\ [Next]_vars => [Abstract!Next]_(Abstract!vars)
  <2>. SUFFICES ASSUME IInv, IInv', [Next]_vars PROVE [Abstract!Next]_(Abstract!vars)
    OBVIOUS
  <2>1. CASE World
    <3>1. PICK H : H = InHand
      OBVIOUS
    <3>2. SimInv(H, AtDown)
      BY <3>1 DEF IInv
    <3>. QED  BY <2>1, <3>2, EnvironmentStutters DEF World
  <2>2. CASE Handler
    <3>1. SimInv({cur} \cap Id, AtDown)
      BY DEF IInv, InHand
    <3>. QED  BY <2>2, <3>1, HandlerFinishes DEF Handler
  <2>3. CASE Loop
    BY <2>3, LoopSteps
  <2>4. CASE UNCHANGED vars
    <3>1. InHand' = InHand /\ UNCHANGED <<job, rem, table, waitQ, ready, child>>
      BY <2>4 DEF vars, simVars, generator, processes, loop, cpu, pcb, memory, InHand
    <3>. QED  BY <3>1, StutterSteps DEF IsForked
  <2>. QED  BY <2>1, <2>2, <2>3, <2>4 DEF Next
<1>. QED  BY <1>1, <1>2, Invariant, PTL DEF Spec, LifecycleSpec, Abstract!Spec

-----------------------------------------------------------------------------
(* Turnaround.                                                             *)

\* From the charge of a second to the comparison that may follow it.
Charging == {"dec", "prio", "down", "receive2", "preempt"}

\* A step keeps the accounts: a process is stopped only in the second of a charge.
LEMMA AccountsStep ==
  ASSUME IInv, Accounts(Charging), [Next]_vars
  PROVE  Accounts(Charging)'
<1>. USE DEF generator, processes, loop, cpu, pcb, memory
<1>. DEFINE C == Charging
<1>1. PICK H : H = InHand
  OBVIOUS
<1>2. SimInv(H, AtDown) /\ SimTypeOK
  BY <1>1 DEF IInv, TypeOK
<1>3. /\ C \cap {"receive", "dispatch", "tick", "end", "done", "start"} = {}
      /\ {"dec", "prio", "down", "preempt"} \subseteq C
  BY DEF Charging
<1>. HIDE DEF C
<1>4. CASE World
  <2>1. cpuFree /\ pc \in {"receive", "dispatch", "tick", "end"} => H = {}
    BY <1>1 DEF InHand, IInv, CurrentRuns
  <2>2. Environment /\ C \cap {"receive", "dispatch", "tick", "end", "done"} = {}
    BY <1>3, <1>4 DEF World
  <2>. QED  BY <1>2, <2>1, <2>2, EnvironmentAccounts DEF C
<1>5. CASE Handler
  <2>1. SimInv({cur} \cap Id, AtDown)
    BY DEF IInv, InHand
  <2>2. AtDown \subseteq C \cup {"crashed"} /\ "done" \notin AtDown
    BY <1>3 DEF AtDown
  <2>. QED  BY <1>5, <2>1, <2>2, HandlerAccounts DEF Handler, C
<1>6. CASE Receiving
  BY <1>2, <1>6, PollAccounts DEF Receiving, C
<1>7. CASE pc = "crashed"
  <2>1. CASE World \/ Handler
    BY <1>4, <1>5, <2>1
  <2>2. CASE UNCHANGED vars
    BY <1>7, <2>2 DEF vars, simVars, Accounts
  <2>3. ~Loop
    BY <1>7 DEF Loop, Receiving, Received, DispatchNobody, Dispatch, Start, NewSecond, SameSecond,
                Dec, CopyPriority, Down, Preempt, Keep, End, Goto
  <2>. QED  BY <2>1, <2>2, <2>3 DEF Next
<1>8. CASE /\ pc # "crashed"
           /\ \/ Received \/ DispatchNobody \/ Dispatch \/ SameSecond \/ CopyPriority \/ Down \/ Keep
              \/ End \/ UNCHANGED vars
  <2>1. UNCHANGED <<job, clk, prevClk, cpuFree, child, halted, table, rem, lastClk, wait>>
    BY <1>8 DEF Received, DispatchNobody, Dispatch, SameSecond, CopyPriority, Down, Keep, End,
                vars, simVars
  <2>2. /\ pc' \in C => pc \in C
        /\ pc' = "dec" <=> pc = "dec"
        /\ pc' = "done" => pc = "done" \/ pCount = N
    <3>1. UNCHANGED vars => pc' = pc
      BY DEF vars, simVars
    <3>. QED  BY <1>8, <3>1 DEF Received, DispatchNobody, Dispatch, SameSecond, CopyPriority, Down,
                                Keep, End, Goto, C, Charging
  <2>3. job.prompt /\ pc' = "done" => table = {}
    BY <1>2, <1>8, <2>2, AllFinished DEF SimInv, SimTypeOK, Accounts
  <2>. QED  BY <1>8, <2>1, <2>2, <2>3, TestAccounts DEF C
<1>9. CASE NewSecond
  <2>1. /\ prevClk # clk /\ prevClk' = clk /\ pc = "tick" /\ pc' # "done" /\ (cpuFree \/ pc' = "dec")
        /\ UNCHANGED <<job, clk, cpuFree, child, halted, table, rem, lastClk, wait>>
    BY <1>9 DEF NewSecond, Goto
  <2>. QED  BY <1>2, <2>1, SecondAccounts DEF C
<1>10. CASE Start
  <2>1. /\ pc = "start" /\ pc' = "tick" /\ StartOrResume(cur) /\ cpuFree' = FALSE
        /\ UNCHANGED <<job, clk, prevClk, table, rem, lastClk>>
    BY <1>10 DEF Start, Goto
  <2>2. cpuFree /\ cur \in Id /\ InHand = {cur}
    BY <2>1 DEF IInv, AtStart, InHand
  <2>3. cur \in table
    BY <1>1, <1>2, <2>2 DEF SimInv, Placed
  <2>4. PICK p \in table : p = cur
    BY <2>3
  <2>. QED  BY <1>2, <1>3, <2>1, <2>2, <2>4, GivenAccounts DEF C
<1>11. CASE Dec
  <2>1. /\ pc = "dec" /\ pc' = "prio" /\ Decrement /\ ~cpuFree
        /\ UNCHANGED <<job, clk, prevClk, cpuFree, child, halted, table, lastClk, wait>>
    BY <1>11 DEF Dec, Goto, IInv, CurrentRuns
  <2>. QED  BY <1>2, <1>3, <2>1, ChargeAccounts DEF C
<1>12. CASE Preempt
  <2>1. /\ pc = "preempt" /\ pc' = "end" /\ Stop(cur) /\ ~cpuFree
        /\ UNCHANGED <<job, clk, prevClk, child, table, rem, wait>>
    BY <1>12 DEF Preempt, MustPreempt, Goto, IInv, CurrentRuns
  <2>2. cur \in table
    BY <1>2, <2>1 DEF SimInv, CurrentCounts
  <2>3. PICK p \in table : p = cur
    BY <2>2
  <2>. QED  BY <1>2, <1>3, <2>1, <2>3, TakenAccounts DEF C
<1>. QED
  BY <1>4, <1>5, <1>6, <1>7, <1>8, <1>9, <1>10, <1>11, <1>12 DEF Next, Loop

\* With prompt processes, the time that a process has spent in the system when its
\* end is handled is what it waited and its run time, or a second less; over any
\* number of preemptions nothing else is gained or lost.
THEOREM TurnaroundAddsUp == Spec => []TurnaroundIsWaitAndRun
<1>1. Init => Accounts(Charging)
  <2>1. "receive" \notin Charging
    BY DEF Charging
  <2>. QED  BY <2>1, AccountsInit DEF Init
<1>2. IInv /\ Accounts(Charging) /\ [Next]_vars => Accounts(Charging)'
  BY AccountsStep
<1>3. IInv /\ Accounts(Charging) => TurnaroundIsWaitAndRun
  <2>. SUFFICES ASSUME IInv, Accounts(Charging) PROVE TurnaroundIsWaitAndRun
    OBVIOUS
  <2>1. PICK H : H = InHand
    OBVIOUS
  <2>2. SimInv(H, AtDown) /\ (pc = "crashed" => cur \notin Id)
    BY <2>1 DEF IInv, CurrentRuns
  <2>3. AtDown \subseteq Charging \cup {"crashed"} /\ "dec" \notin AtDown
    BY DEF AtDown, Charging
  <2>. QED  BY <2>2, <2>3, TurnaroundHolds
<1>. QED  BY <1>1, <1>2, <1>3, Invariant, PTL DEF Spec
-----------------------------------------------------------------------------
(* The end of a process.                                                   *)

\* A step keeps what has happened: only a process that spins is stopped.
LEMMA PastStep ==
  ASSUME IInv, Past, [Next]_vars
  PROVE  Past'
<1>. USE DEF generator, processes, loop, cpu, pcb, memory
<1>1. SimTypeOK /\ msgq \in Queue /\ cur \in Id \cup {None, Freed}
  BY DEF IInv, SimInv, SimTypeOK, Placed
<1>2. CASE World
  BY <1>1, <1>2, EnvironmentPast DEF World
<1>3. CASE Handler
  <2>1. /\ UNCHANGED <<job, clk, gen, sent, msgq, child, halted, lastClk, wait>>
        /\ table' \subseteq table
    BY <1>3 DEF Handler, processTerminate
  <2>. QED  BY <2>1, TestPast
<1>4. CASE Receiving
  BY <1>1, <1>4, PollPast DEF Receiving
<1>5. CASE \/ Received \/ DispatchNobody \/ Dispatch \/ NewSecond \/ SameSecond \/ Dec \/ CopyPriority
           \/ Down \/ Keep \/ End \/ UNCHANGED vars
  <2>1. UNCHANGED <<job, clk, gen, sent, msgq, child, halted, table, lastClk, wait>>
    BY <1>5 DEF Received, DispatchNobody, Dispatch, NewSecond, SameSecond, Dec, CopyPriority, Down,
                Keep, End, vars, simVars
  <2>. QED  BY <2>1, TestPast
<1>6. CASE Start
  <2>1. /\ pc = "start" /\ StartOrResume(cur)
        /\ UNCHANGED <<job, clk, gen, sent, msgq, table, lastClk>>
    BY <1>6 DEF Start, Goto
  <2>2. cur \in table
    BY <2>1 DEF IInv, AtStart, InHand, SimInv, Placed
  <2>. QED  BY <1>1, <2>1, <2>2, GivenPast
<1>7. CASE Preempt
  <2>1. /\ pc = "preempt" /\ Stop(cur) /\ cur \in Id /\ ~cpuFree
        /\ UNCHANGED <<job, clk, gen, sent, msgq, child, table, wait>>
    BY <1>7 DEF Preempt, MustPreempt, Goto, IInv, CurrentRuns
  <2>2. child[cur] = "spin"
    BY <2>1 DEF IInv, SimInv, CurrentCounts, AtDown
  <2>. QED  BY <1>1, <2>1, <2>2, TakenPast
<1>. QED
  BY <1>2, <1>3, <1>4, <1>5, <1>6, <1>7 DEF Next, Loop

\* With the rest of the invariant.
LEMMA PastInvariant == Spec => [](IInv /\ Past)
<1>1. Init => Past
  BY PastInit DEF Init
<1>2. IInv /\ Past /\ [Next]_vars => Past'
  BY PastStep
<1>. QED  BY <1>1, <1>2, Invariant, PTL DEF Spec

\* The scheduler waits for the semaphore of a process only when that process is on its
\* way to raise it, whatever the processes' speed: the two never wait for each other,
\* and no process is stopped between its last second and its end.
THEOREM SchedulerIsAnswered == Spec => []DownIsAnswered
<1>1. IInv /\ Past => DownIsAnswered
  <2>1. "down" \in AtDown
    BY DEF AtDown
  <2>. QED  BY <2>1, DownHolds DEF IInv
<1>. QED  BY <1>1, PastInvariant, PTL

\* With prompt processes, nobody is finished more than a second before its run time has
\* passed since its arrival, however often it was stopped and resumed.
THEOREM EndsASecondEarlyAtMost == Spec => []SecondEarlyAtMost
<1>1. IInv /\ Past /\ TurnaroundIsWaitAndRun => SecondEarlyAtMost
  BY SecondEarlyHolds DEF IInv, SimInv
<1>. QED  BY <1>1, PastInvariant, TurnaroundAddsUp, PTL

\* The handler always finds the process whose end it handles in currentProc, with its
\* PCB, and no signal is sent while one is pending: each end is handled once, by a
\* handler that is not told who has ended.
THEOREM EveryEndIsHandled == Spec => []SignalIsOfCurrent /\ SignalsOneByOne
<1>1. IInv => SignalIsOfCurrent /\ [\A p \in Id : Signal(p) => ~sig]_simVars
  BY SignalsHold DEF IInv
<1>. QED  BY <1>1, Invariant, PTL DEF SignalsOneByOne
=============================================================================
