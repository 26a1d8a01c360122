----------------------------- MODULE RR_proofs -----------------------------
(***************************************************************************)
(* Proofs about the round robin loop, for any number of processes, any     *)
(* assignment of arrival times, run times, sizes and quantum, prompt or    *)
(* not, and any memory.                                                    *)
(***************************************************************************)
EXTENDS RR, Simulation_proofs

\* The only place between a decrement and the end of its down.
AtDown == {"down"}

\* *ps_shmaddr and sem1 are loaded for the process about to be started.
AtStart ==
  pc = "start" =>
    cpuFree /\ cur \in Id /\ shm = rem[cur] /\ sem = rem[cur] - 1

\* Whether there is a current process, and the process peeked at is still the first
\* that is ready, when the loop relies on it.
AtSwitch ==
  /\ pc \in {"dec", "receive2", "alone", "stop"} => ~cpuFree
  /\ pc \in {"receive3", "requeue", "resume"} => cpuFree /\ pTemp = Head(ready)
  /\ pc \in {"receive3", "requeue"} => cur \in Id
  /\ pc \in {"stop", "receive3", "requeue", "resume"} => ready # <<>>

IInv ==
  /\ TypeOK /\ NeverCrashes
  /\ SimInv(InHand, AtDown)
  /\ AtStart /\ AtSwitch

\* The first state satisfies the invariant.
LEMMA IInvInit == Init => IInv
<1>. SUFFICES ASSUME Init PROVE IInv
  OBVIOUS
<1>1. SimInit
  BY DEF Init
<1>2. SimInv({}, AtDown)
  BY <1>1, SimInvInit DEF AtDown
<1>3. InHand = {}
  BY <1>1 DEF SimInit, InHand
<1>4. TypeOK
  BY <1>1, <1>2, MaxClkAssumption DEF Init, SimInit, SimInv, TypeOK
<1>. QED  BY <1>1, <1>2, <1>3, <1>4 DEF IInv, NeverCrashes, AtStart, AtSwitch, SimInit

\* It does not depend on the clock, the generator and the processes.
LEMMA WorldKeeps ==
  ASSUME IInv, World
  PROVE  IInv'
<1>. USE DEF generator, processes, loop, cpu, pcb, memory
<1>1. UNCHANGED <<pc, cpuFree, cur, ready, rem, quantumStart, pTemp>>
  BY DEF World, Environment, Tick, Notice, Send, LeaveLoop, Signal, Up
<1>2. PICK H : H = InHand
  OBVIOUS
<1>3. SimInv(H, AtDown) /\ SimInv(H, AtDown)'
  BY <1>2, EnvironmentKeeps DEF IInv, World
<1>4. InHand' = H
  BY <1>1, <1>2 DEF InHand
<1>5. SimInv(InHand, AtDown)'
  BY <1>3, <1>4
<1>6. TypeOK' /\ NeverCrashes'
  BY <1>1, <1>3 DEF IInv, TypeOK, SimInv, NeverCrashes
<1>7. pc = "start" => UNCHANGED <<shm, sem>>
  <2>1. ASSUME pc = "start", NEW p \in Id, Up(p) PROVE FALSE
    BY <2>1, <1>3, WhoRuns DEF Up, Runs, AtDown
  <2>. QED  BY <2>1 DEF World, Environment, Tick, Notice, Send, LeaveLoop, Signal
<1>8. AtStart' /\ AtSwitch'
  BY <1>1, <1>7 DEF IInv, AtStart, AtSwitch
<1>. QED  BY <1>5, <1>6, <1>8 DEF IInv

\* The handler runs when the loop is in its down.
LEMMA HandlerStep ==
  ASSUME IInv, Handler
  PROVE  IInv'
<1>1. sig /\ ~cpuFree /\ pc = "down" /\ cur \in Id
  BY DEF Handler, processTerminate, IInv, SimInv, CurrentCounts, AtDown, SimTypeOK
<1>2. InHand = {cur} \cap Id
  BY <1>1 DEF InHand
<1>3. SimInv({cur} \cap Id, AtDown)
  BY <1>2 DEF IInv
<1>4. SimInv({}, AtDown)' /\ pc' = pc
  BY <1>3, HandlerKeeps DEF Handler
<1>5. cpuFree' /\ UNCHANGED <<quantumStart, pTemp>>
  BY DEF Handler, processTerminate
<1>6. InHand' = {}
  BY <1>1, <1>4, <1>5 DEF InHand
<1>. QED  BY <1>1, <1>4, <1>5, <1>6
          DEF IInv, TypeOK, SimInv, NeverCrashes, AtStart, AtSwitch

\* The steps that only read clock, counts and queues.
LEMMA TestStep ==
  ASSUME IInv, TypeOK', pc # "down", pc' \notin {"down", "start", "crashed"},
         InHand' = InHand, AtSwitch',
         UNCHANGED <<gen, sent, msgq, shm, sem, child, halted, sig, cpuFree, cur, pCount,
                     ready, table, rem, waitQ>>
  PROVE  IInv'
<1>1. PICK H : H = InHand
  OBVIOUS
<1>2. SimInv(H, AtDown)'
  <2>1. SimInv(H, AtDown) /\ SimTypeOK'
    BY <1>1 DEF IInv, TypeOK
  <2>. QED  BY <2>1, TestKeeps DEF AtDown
<1>3. SimInv(InHand, AtDown)'
  BY <1>1, <1>2
<1>. QED  BY <1>3 DEF IInv, NeverCrashes, AtStart

\* The loop's tests, and going from one place to the next.
LEMMA TestsKeep ==
  ASSUME IInv,
         \/ Received \/ NewSecond \/ SameSecond \/ FirstCheck \/ StillAlone \/ SecondCheck
         \/ LeaveNext \/ End
  PROVE  IInv'
<1>. USE DEF generator, processes, loop, cpu, pcb, memory
<1>1. UNCHANGED <<job, clk, gen, sent, msgq, shm, sem, child, halted, sig, cpuFree, cur,
                  pCount, ready, table, rem, lastClk, wait, waitQ, pTemp>>
  BY DEF Received, NewSecond, SameSecond, FirstCheck, StillAlone, SecondCheck, LeaveNext, End,
         Test
<1>2. polls' \in 0 .. N /\ prevClk' \in -1 .. MaxClk /\ quantumStart' \in 0 .. MaxClk
  <2>1. polls' \in {polls, 0} /\ prevClk' \in {prevClk, clk} /\ quantumStart' \in {quantumStart, clk}
    BY DEF Received, NewSecond, SameSecond, FirstCheck, StillAlone, SecondCheck, LeaveNext, End,
           Test
  <2>2. polls \in 0 .. N /\ prevClk \in -1 .. MaxClk /\ quantumStart \in 0 .. MaxClk
        /\ clk \in 0 .. MaxClk
    BY DEF IInv, TypeOK, SimTypeOK
  <2>. QED  BY <2>1, <2>2, NAssumption, MaxClkAssumption
<1>3. SimTypeOK'
  BY <1>1, <1>2 DEF IInv, TypeOK, SimTypeOK
<1>4. /\ pc \in {"receive", "receive2", "receive3", "tick", "quantum1", "quantum2", "alone",
                 "resume", "end"}
      /\ pc' \in {"dispatch", "alone", "requeue", "quantum1", "quantum2", "dec", "end",
                  "receive", "receive2", "stop", "done"}
      /\ pc' = "requeue" <=> pc = "receive3"
      /\ pc' \in {"dec", "receive2", "alone", "stop"} => ~cpuFree
      /\ pc' = "stop" => ready # <<>>
  <2>1. CASE Received
    BY <2>1 DEF Received, Goto, IInv, AtSwitch
  <2>2. CASE NewSecond \/ SameSecond
    BY <2>2 DEF NewSecond, SameSecond, Goto
  <2>3. CASE FirstCheck \/ SecondCheck
    BY <2>3 DEF FirstCheck, SecondCheck, Goto, QuantumPassed
  <2>4. CASE StillAlone \/ LeaveNext \/ End
    BY <2>4 DEF StillAlone, LeaveNext, End, Goto
  <2>. QED  BY <2>1, <2>2, <2>3, <2>4
<1>5. TypeOK'
  BY <1>1, <1>2, <1>3, <1>4 DEF IInv, TypeOK
<1>6. InHand' = InHand
  BY <1>1, <1>4 DEF InHand
<1>7. AtSwitch'
  BY <1>1, <1>4 DEF IInv, AtSwitch
<1>. QED  BY <1>1, <1>4, <1>5, <1>6, <1>7, TestStep

\* Receiving processes while one of them runs, or while the next one is only peeked at.
LEMMA ReceivingKeeps ==
  ASSUME IInv, Receiving
  PROVE  IInv'
<1>. USE DEF generator, processes, loop, cpu, pcb, memory
<1>1. /\ UNCHANGED <<pc, cpuFree, cur, quantumStart, pTemp>>
      /\ pc \in {"receive", "receive2", "receive3"}
  BY DEF Receiving, Poll
<1>2. PICK H : H = InHand
  OBVIOUS
<1>3. /\ SimInv(H, AtDown)'
      /\ ready # <<>> => ready' # <<>> /\ Head(ready') = Head(ready)
  BY <1>2, PollKeeps DEF IInv, Receiving
<1>4. InHand' = H
  BY <1>1, <1>2 DEF InHand
<1>5. SimInv(InHand, AtDown)'
  BY <1>3, <1>4
<1>. QED  BY <1>1, <1>3, <1>5
          DEF IInv, TypeOK, SimInv, NeverCrashes, AtStart, AtSwitch

-----------------------------------------------------------------------------
(* The steps that give the CPU, charge it and take it back.                *)

\* currentProc is freed only when nobody is ready; nothing is left of it.
LEMMA DispatchNobodyKeeps ==
  ASSUME IInv, DispatchNobody
  PROVE  IInv'
<1>. USE DEF generator, processes, loop, cpu, pcb, memory
<1>1. /\ pc = "dispatch" /\ pc' = "tick"
      /\ UNCHANGED <<job, clk, gen, sent, msgq, shm, sem, child, halted, sig, polls, prevClk,
                     cpuFree, pCount, ready, table, rem, lastClk, wait, waitQ, quantumStart,
                     pTemp>>
      /\ (cpuFree /\ cur' = Freed) \/ cur' = cur
  BY DEF DispatchNobody, Goto
<1>2. SimTypeOK'
  BY <1>1 DEF IInv, TypeOK, SimTypeOK
<1>3. CASE cur' = cur
  <2>1. TypeOK' /\ AtSwitch' /\ InHand' = InHand
    BY <1>1, <1>2, <1>3 DEF IInv, TypeOK, AtSwitch, InHand
  <2>. QED  BY <1>1, <1>3, <2>1, TestStep
<1>4. CASE cpuFree
  <2>1. InHand = {} /\ InHand' = {}
    BY <1>1, <1>4 DEF InHand
  <2>2. SimInv({}, AtDown)
    BY <2>1 DEF IInv
  <2>3. Placed({})' /\ Counted'
    BY <1>1, <2>2 DEF SimInv, Placed, IsForked, Counted, FinishedOnes, Finished
  <2>4. TimeLeft(AtDown)' /\ OnlyCurrentRuns(AtDown)' /\ CurrentCounts(AtDown)' /\ NoEarlyFinish'
    BY <1>1, <1>4, <2>2 DEF SimInv, TimeLeft, OnlyCurrentRuns, CurrentCounts, NoEarlyFinish,
                            Asleep, AtDown
  <2>5. SimInv(InHand, AtDown)'
    BY <1>2, <2>1, <2>3, <2>4 DEF SimInv
  <2>. QED  BY <1>1, <1>2, <2>5 DEF IInv, TypeOK, NeverCrashes, AtStart, AtSwitch
<1>. QED  BY <1>1, <1>3, <1>4

\* The first of q2 is taken out, and the shared integer and the semaphore are its.
LEMMA DispatchKeeps ==
  ASSUME IInv, Dispatch
  PROVE  IInv'
<1>. USE DEF generator, processes, loop, cpu, pcb, memory
<1>1. /\ pc = "dispatch" /\ pc' = "start" /\ cpuFree /\ ready # <<>>
      /\ cur' = Head(ready) /\ ready' = Tail(ready)
      /\ UNCHANGED <<job, clk, gen, sent, msgq, child, halted, sig, polls, prevClk, cpuFree,
                     pCount, table, rem, lastClk, wait, waitQ, quantumStart, pTemp>>
  BY DEF Dispatch, Goto
<1>2. InHand = {}
  BY <1>1 DEF InHand
<1>3. SimInv({}, AtDown)
  BY <1>2 DEF IInv
<1>4. /\ ready \in Queue /\ cur' \in Id /\ cur' \in Range(ready)
      /\ ready' \in Queue /\ Range(ready') = Range(ready) \ {cur'}
  BY <1>1, <1>3, TailQueue DEF SimInv, Placed
<1>5. cur' \in table /\ rem[cur'] \in Int /\ rem[cur'] > 0
  BY <1>1, <1>3, <1>4 DEF SimInv, Placed, TimeLeft, SimTypeOK
<1>6. shm' = rem[cur'] /\ sem' = rem[cur'] - 1
  BY <1>1, <1>5 DEF Dispatch, LoadRemaining
<1>7. SimTypeOK'
  <2>1. {msgq', ready', waitQ'} \subseteq Seq(Id)
    BY <1>1, <1>3, <1>4 DEF SimInv, Placed, Queue
  <2>2. shm' \in Int /\ sem' \in Nat
    BY <1>5, <1>6
  <2>. QED  BY <1>1, <1>3, <1>4, <2>1, <2>2 DEF SimInv, SimTypeOK
<1>8. InHand' = {cur'}
  BY <1>1, <1>4 DEF InHand
<1>9. Placed({cur})' /\ Counted'
  BY <1>1, <1>3, <1>4 DEF SimInv, Placed, IsForked, Counted, FinishedOnes, Finished
<1>10. TimeLeft(AtDown)' /\ OnlyCurrentRuns(AtDown)' /\ CurrentCounts(AtDown)' /\ NoEarlyFinish'
  BY <1>1, <1>3 DEF SimInv, TimeLeft, OnlyCurrentRuns, CurrentCounts, NoEarlyFinish, Asleep,
                    AtDown
<1>11. SimInv(InHand, AtDown)'
  BY <1>7, <1>8, <1>9, <1>10 DEF SimInv, Placed
<1>. QED  BY <1>1, <1>4, <1>6, <1>7, <1>11 DEF IInv, TypeOK, NeverCrashes, AtStart, AtSwitch

\* The process that was taken out runs, forked or continued.
LEMMA StartKeeps ==
  ASSUME IInv, Start
  PROVE  IInv'
<1>. USE DEF generator, processes, loop, cpu, pcb, memory
<1>1. /\ pc = "start" /\ pc' = "tick" /\ cpuFree' = FALSE /\ quantumStart' = clk
      /\ UNCHANGED <<job, clk, gen, sent, msgq, shm, sem, sig, polls, prevClk, cur, pCount,
                     ready, table, rem, lastClk, waitQ, pTemp>>
  BY DEF Start, Goto
<1>2. cpuFree /\ cur \in Id /\ shm = rem[cur] /\ sem = rem[cur] - 1
  BY <1>1 DEF IInv, AtStart
<1>3. PICK p \in Id : p = cur
  BY <1>2
<1>4. InHand = {p} /\ InHand' = {p}
  BY <1>1, <1>2, <1>3 DEF InHand
<1>5. SimInv({p}, AtDown)
  BY <1>4 DEF IInv
<1>6. p \in table /\ p \notin Range(ready) /\ ready \in Queue
  BY <1>5 DEF SimInv, Placed
<1>7. StartOrResume(p)
  BY <1>3 DEF Start
<1>8. pc \notin AtDown /\ pc' \notin AtDown
  BY <1>1 DEF AtDown
<1>9. SimInv({p}, AtDown)'
  <2>1. Range(ready') = (Range(ready) \cup {p}) \ {p}
    BY <1>1, <1>6
  <2>2. shm' = rem[p] /\ sem' = rem[p] - 1 /\ cur' = p
    BY <1>1, <1>2, <1>3
  <2>. QED  BY <1>1, <1>2, <1>5, <1>6, <1>7, <1>8, <2>1, <2>2, CpuGiven
<1>10. SimInv(InHand, AtDown)'
  BY <1>4, <1>9
<1>11. quantumStart' \in 0 .. MaxClk
  BY <1>1, <1>5 DEF SimInv, SimTypeOK
<1>. QED  BY <1>1, <1>9, <1>10, <1>11
          DEF IInv, TypeOK, SimInv, NeverCrashes, AtStart, AtSwitch

\* The second is charged.
LEMMA DecKeeps ==
  ASSUME IInv, Dec
  PROVE  IInv'
<1>. USE DEF generator, processes, loop, cpu, pcb, memory
<1>1. /\ pc = "dec" /\ pc' = "down" /\ Decrement
      /\ UNCHANGED <<job, clk, gen, sent, msgq, sem, child, halted, sig, polls, prevClk,
                     cpuFree, cur, pCount, ready, table, lastClk, wait, waitQ, quantumStart,
                     pTemp>>
  BY DEF Dec, Goto
<1>2. ~cpuFree /\ cur \in Id
  BY <1>1 DEF IInv, AtSwitch, SimInv, CurrentCounts, SimTypeOK
<1>3. PICK p \in Id : p = cur
  BY <1>2
<1>4. InHand = {p} /\ InHand' = {p}
  BY <1>1, <1>2, <1>3 DEF InHand
<1>5. SimInv({p}, AtDown)
  BY <1>4 DEF IInv
<1>6. SimInv({p}, AtDown)'
  <2>1. pc \notin AtDown /\ pc' \in AtDown
    BY <1>1 DEF AtDown
  <2>. QED  BY <1>1, <1>2, <1>3, <1>5, <2>1, SecondCharged
<1>7. SimInv(InHand, AtDown)'
  BY <1>4, <1>6
<1>. QED  BY <1>1, <1>6, <1>7 DEF IInv, TypeOK, SimInv, NeverCrashes, AtStart, AtSwitch

\* The down of the last second waits for the process and its handler.
LEMMA DownKeeps ==
  ASSUME IInv, Down
  PROVE  IInv'
<1>. USE DEF generator, processes, loop, cpu, pcb, memory
<1>1. /\ pc = "down" /\ pc' = "quantum1" /\ ~sig /\ sem > 0 /\ sem' = sem - 1
      /\ UNCHANGED <<job, clk, gen, sent, msgq, shm, child, halted, sig, polls, prevClk,
                     cpuFree, cur, pCount, ready, table, rem, lastClk, wait, waitQ,
                     quantumStart, pTemp>>
  BY DEF Down, Goto
<1>2. PICK H : H = InHand
  OBVIOUS
<1>3. InHand' = H
  BY <1>1, <1>2 DEF InHand
<1>4. SimInv(H, AtDown)'
  <2>1. pc \in AtDown /\ pc' \notin AtDown
    BY <1>1 DEF AtDown
  <2>2. SimInv(H, AtDown)
    BY <1>2 DEF IInv
  <2>. QED  BY <1>1, <2>1, <2>2, DownEnds
<1>5. SimInv(InHand, AtDown)'
  BY <1>3, <1>4
<1>. QED  BY <1>1, <1>4, <1>5 DEF IInv, TypeOK, SimInv, NeverCrashes, AtStart, AtSwitch

\* At the end of a quantum the current process is stopped, and stays in currentProc
\* until new processes have been received.
LEMMA StopKeeps ==
  ASSUME IInv, StopCurrent
  PROVE  IInv'
<1>. USE DEF generator, processes, loop, cpu, pcb, memory
<1>1. /\ pc = "stop" /\ pc' = "receive3" /\ cpuFree' = TRUE /\ Stop(cur)
      /\ pTemp' = Head(ready) /\ quantumStart' = clk
      /\ UNCHANGED <<job, clk, gen, sent, msgq, shm, sem, child, sig, polls, prevClk, cur,
                     pCount, ready, table, rem, wait, waitQ>>
  BY DEF StopCurrent, Goto
<1>2. ~cpuFree /\ cur \in Id /\ ready # <<>>
  BY <1>1 DEF IInv, AtSwitch, SimInv, CurrentCounts, SimTypeOK
<1>3. PICK p \in Id : p = cur
  BY <1>2
<1>4. InHand = {p} /\ InHand' = {p}
  BY <1>1, <1>2, <1>3 DEF InHand
<1>5. SimInv({p}, AtDown)
  BY <1>4 DEF IInv
<1>6. ready \in Queue /\ p \notin Range(ready) /\ Head(ready) \in Id
  BY <1>2, <1>5, TailQueue DEF SimInv, Placed
<1>7. SimInv({p}, AtDown)'
  <2>1. pc \notin AtDown /\ pc' \notin AtDown
    BY <1>1 DEF AtDown
  <2>2. {p} \cap Range(ready') = {} /\ Range(ready') \cup {p} = Range(ready) \cup {p}
        /\ cur' \in Id \cup {None, Freed} /\ ready' \in Queue /\ Stop(p)
    BY <1>1, <1>3, <1>6
  <2>. QED  BY <1>1, <1>2, <1>3, <1>5, <2>1, <2>2, CpuTaken
<1>8. SimInv(InHand, AtDown)'
  BY <1>4, <1>7
<1>9. quantumStart' \in 0 .. MaxClk
  BY <1>1, <1>5 DEF SimInv, SimTypeOK
<1>. QED  BY <1>1, <1>2, <1>6, <1>7, <1>8, <1>9
          DEF IInv, TypeOK, SimInv, NeverCrashes, AtStart, AtSwitch

\* It goes to the end of q2, where there is room for it; the process peeked at is still
\* the first.
LEMMA RequeueKeeps ==
  ASSUME IInv, Requeue
  PROVE  IInv'
<1>. USE DEF generator, processes, loop, cpu, pcb, memory
<1>1. /\ pc = "requeue" /\ pc' = "resume" /\ ready' = Enqueue(ready, cur)
      /\ UNCHANGED <<job, clk, gen, sent, msgq, shm, sem, child, halted, sig, polls, prevClk,
                     cpuFree, cur, pCount, table, rem, lastClk, wait, waitQ, quantumStart,
                     pTemp>>
  BY DEF Requeue, Goto
<1>2. cpuFree /\ cur \in Id /\ ready # <<>> /\ pTemp = Head(ready)
  BY <1>1 DEF IInv, AtSwitch
<1>3. InHand = {cur} /\ InHand' = {}
  BY <1>1, <1>2 DEF InHand
<1>4. SimInv({cur}, AtDown)
  BY <1>3 DEF IInv
<1>5. ready \in Queue /\ cur \notin Range(ready)
  BY <1>4 DEF SimInv, Placed
<1>6. /\ ready' \in Queue /\ Range(ready') = Range(ready) \cup {cur}
      /\ ready' # <<>> /\ Head(ready') = Head(ready)
  BY <1>1, <1>2, <1>5, EnqueueQueue
<1>7. SimTypeOK'
  <2>1. {msgq', ready', waitQ'} \subseteq Seq(Id)
    BY <1>1, <1>4, <1>6 DEF SimInv, Placed, Queue
  <2>. QED  BY <1>1, <1>4, <2>1 DEF SimInv, SimTypeOK
<1>8. Placed({})' /\ Counted'
  BY <1>1, <1>4, <1>6 DEF SimInv, Placed, IsForked, Counted, FinishedOnes, Finished
<1>9. TimeLeft(AtDown)' /\ OnlyCurrentRuns(AtDown)' /\ CurrentCounts(AtDown)' /\ NoEarlyFinish'
  BY <1>1, <1>2, <1>4 DEF SimInv, TimeLeft, OnlyCurrentRuns, CurrentCounts, NoEarlyFinish,
                          Asleep, IsForked, AtDown
<1>10. SimInv(InHand, AtDown)'
  BY <1>3, <1>7, <1>8, <1>9 DEF SimInv
<1>. QED  BY <1>1, <1>2, <1>6, <1>7, <1>10
          DEF IInv, TypeOK, NeverCrashes, AtStart, AtSwitch

\* The process peeked at is the one that is dequeued and continued.
LEMMA ResumeKeeps ==
  ASSUME IInv, ResumeNext
  PROVE  IInv'
<1>. USE DEF generator, processes, loop, cpu, pcb, memory
<1>1. /\ pc = "resume" /\ pc' = "end" /\ cpuFree' = FALSE
      /\ cur' = Head(ready) /\ ready' = Tail(ready)
      /\ LoadRemaining(pTemp) /\ StartOrResume(Head(ready))
      /\ UNCHANGED <<job, clk, gen, sent, msgq, sig, polls, prevClk, pCount, table, rem,
                     lastClk, waitQ, quantumStart, pTemp>>
  BY DEF ResumeNext, Goto
<1>2. cpuFree /\ ready # <<>> /\ pTemp = Head(ready)
  BY <1>1 DEF IInv, AtSwitch
<1>3. InHand = {}
  BY <1>1, <1>2 DEF InHand
<1>4. SimInv({}, AtDown)
  BY <1>3 DEF IInv
<1>5. /\ Head(ready) \in Id /\ Head(ready) \in Range(ready)
      /\ ready' \in Queue /\ Range(ready') = Range(ready) \ {Head(ready)}
  BY <1>1, <1>2, <1>4, TailQueue DEF SimInv, Placed
<1>6. PICK p \in Id : p = Head(ready)
  BY <1>5
<1>7. p \in table /\ rem[p] \in Int /\ rem[p] > 0
  BY <1>2, <1>4, <1>5, <1>6 DEF SimInv, Placed, TimeLeft, SimTypeOK
<1>8. shm' = rem[p] /\ sem' = rem[p] - 1
  BY <1>1, <1>2, <1>6, <1>7 DEF LoadRemaining
<1>9. SimInv({p}, AtDown)'
  <2>1. pc \notin AtDown /\ pc' \notin AtDown
    BY <1>1 DEF AtDown
  <2>2. Range(ready') = (Range(ready) \cup {}) \ {p} /\ p \in Range(ready) \cup {}
        /\ {} \subseteq {p} /\ cur' = p /\ StartOrResume(p)
    BY <1>1, <1>5, <1>6
  <2>. QED  BY <1>1, <1>2, <1>4, <1>5, <1>7, <1>8, <2>1, <2>2, CpuGiven
<1>10. InHand' = {p}
  BY <1>1, <1>6 DEF InHand
<1>11. SimInv(InHand, AtDown)'
  BY <1>9, <1>10
<1>. QED  BY <1>1, <1>9, <1>11 DEF IInv, TypeOK, SimInv, NeverCrashes, AtStart, AtSwitch

-----------------------------------------------------------------------------
(* The theorems.                                                           *)

\* The invariant: everybody is in one place, at most one process runs, it is the one
\* in currentProc, and the shared integer and the semaphore are its.
THEOREM Invariant == Spec => []IInv
<1>1. Init => IInv
  BY IInvInit
<1>2. IInv /\ [Next]_vars => IInv'
  <2>. SUFFICES ASSUME IInv, [Next]_vars PROVE IInv'
    OBVIOUS
  <2>1. CASE World
    BY <2>1, WorldKeeps
  <2>2. CASE Handler
    BY <2>2, HandlerStep
  <2>3. CASE Loop
    <3>1. CASE \/ Received \/ NewSecond \/ SameSecond \/ FirstCheck \/ StillAlone
               \/ SecondCheck \/ LeaveNext \/ End
      BY <3>1, TestsKeep
    <3>2. CASE Receiving \/ DispatchNobody \/ Dispatch \/ Start
      BY <3>2, ReceivingKeeps, DispatchNobodyKeeps, DispatchKeeps, StartKeeps
    <3>3. CASE Dec \/ Down \/ StopCurrent \/ Requeue \/ ResumeNext
      BY <3>3, DecKeeps, DownKeeps, StopKeeps, RequeueKeeps, ResumeKeeps
    <3>. QED  BY <2>3, <3>1, <3>2, <3>3 DEF Loop
  <2>4. CASE UNCHANGED vars
    <3>1. PICK H : H = InHand
      OBVIOUS
    <3>2. UNCHANGED <<job, clk, gen, sent, msgq, shm, sem, child, halted, sig, pc, polls,
                      prevClk, cpuFree, cur, pCount, ready, table, rem, lastClk, wait, waitQ,
                      quantumStart, pTemp>>
      BY <2>4 DEF vars, simVars, generator, processes, loop, cpu, pcb, memory
    <3>3. SimTypeOK' /\ TypeOK' /\ InHand' = H
      BY <3>1, <3>2 DEF IInv, TypeOK, SimTypeOK, InHand
    <3>4. SimInv(H, AtDown)'
      <4>1. SimInv(H, AtDown) /\ (pc' \in AtDown <=> pc \in AtDown)
        BY <3>1, <3>2 DEF IInv
      <4>. QED  BY <3>2, <3>3, <4>1, TestKeeps
    <3>5. SimInv(InHand, AtDown)'
      BY <3>3, <3>4
    <3>. QED  BY <3>2, <3>3, <3>5 DEF IInv, NeverCrashes, AtStart, AtSwitch
  <2>. QED  BY <2>1, <2>2, <2>3, <2>4 DEF Next
<1>. QED  BY <1>1, <1>2, PTL DEF Spec

\* Queues, counts and times keep their types: pCount never passes the number of
\* processes and the semaphore is never negative.
THEOREM TypeCorrect == Spec => []TypeOK
<1>1. IInv => TypeOK
  BY DEF IInv
<1>. QED  BY <1>1, Invariant, PTL

\* The handler never follows a null or freed currentProc.
THEOREM HandlerIsSafe == Spec => []NeverCrashes
<1>1. IInv => NeverCrashes
  BY DEF IInv
<1>. QED  BY <1>1, Invariant, PTL

\* Nobody is lost and nobody is in two places, also during a switch and when the
\* handler takes processes out of waitQ.
THEOREM NobodyIsLost == Spec => []OnePlace
<1>1. IInv => OnePlace
  <2>. SUFFICES ASSUME IInv, NEW p \in 1 .. sent
                PROVE  Places(p) + (IF p \in InHand THEN 1 ELSE 0) = 1
    BY DEF OnePlace
  <2>1. PICK H : H = InHand
    OBVIOUS
  <2>2. SimInv(H, AtDown)
    BY <2>1 DEF IInv
  <2>. QED  BY <2>1, <2>2, PlacedIsOnePlace DEF SimInv, SimTypeOK
<1>. QED  BY <1>1, Invariant, PTL

\* The shared integer and the semaphore follow the remaining time of the process
\* that spins, over stops and switches, so exactly the last down waits for it.
THEOREM SemaphoreFollows == Spec => []SemTracksRemaining
<1>1. IInv => SemTracksRemaining
  BY DEF IInv, SimInv, CurrentCounts, SemTracksRemaining, AtDown
<1>. QED  BY <1>1, Invariant, PTL

\* A process leaves its loop only when it has run for all of its run time.
THEOREM NobodyFinishesEarly == Spec => []NoEarlyFinish
<1>1. IInv => NoEarlyFinish
  BY DEF IInv, SimInv
<1>. QED  BY <1>1, Invariant, PTL

-----------------------------------------------------------------------------
(* Round robin implements Lifecycle.                                       *)

\* The steps that leave everybody where they are.
LEMMA StutterSteps ==
  ASSUME IInv, IInv', InHand' = InHand,
         UNCHANGED <<job, rem, table, waitQ, ready>>,
         \A p \in Id \ table : IsForked(p)' <=> IsForked(p)
  PROVE  UNCHANGED Abstract!vars
<1>1. PICK H : H = InHand
  OBVIOUS
<1>2. SimInv(H, AtDown) /\ SimInv(H, AtDown)'
  BY <1>1 DEF IInv
<1>. QED  BY <1>2, StagesKept

\* Every step of the loop is a step of Lifecycle or none.
LEMMA LoopSteps ==
  ASSUME IInv, IInv', Loop
  PROVE  [Abstract!Next]_(Abstract!vars)
<1>. USE DEF generator, processes, loop, cpu, pcb, memory
<1>1. CASE Receiving
  <2>1. PICK H : H = InHand
    OBVIOUS
  <2>2. SimInv(H, AtDown) /\ Poll
    BY <1>1, <2>1 DEF IInv, Receiving
  <2>. QED  BY <2>2, PollArrives
<1>2. CASE \/ Received \/ NewSecond \/ SameSecond \/ FirstCheck \/ StillAlone
           \/ SecondCheck \/ LeaveNext \/ End \/ Down \/ DispatchNobody
  <2>1. UNCHANGED <<job, rem, table, waitQ, ready, child, cpuFree>>
    BY <1>2 DEF Received, NewSecond, SameSecond, FirstCheck, StillAlone, SecondCheck,
                LeaveNext, End, Down, DispatchNobody, Test
  <2>2. InHand' = InHand
    <3>1. CASE DispatchNobody
      BY <3>1 DEF DispatchNobody, Goto, InHand
    <3>2. CASE Received
      BY <3>2 DEF Received, Goto, InHand
    <3>3. CASE \/ NewSecond \/ SameSecond \/ FirstCheck \/ StillAlone
               \/ SecondCheck \/ LeaveNext \/ End \/ Down
      BY <3>3 DEF NewSecond, SameSecond, FirstCheck, StillAlone, SecondCheck,
                  LeaveNext, End, Down, Test, Goto, InHand
    <3>. QED  BY <1>2, <3>1, <3>2, <3>3
  <2>. QED  BY <2>1, <2>2, StutterSteps DEF IsForked
<1>3. CASE Dispatch
  <2>1. /\ pc = "dispatch" /\ pc' = "start" /\ cpuFree /\ cpuFree' /\ ready # <<>>
        /\ cur' = Head(ready) /\ ready' = Tail(ready)
        /\ UNCHANGED <<job, rem, table, waitQ, child>>
    BY <1>3 DEF Dispatch, Goto
  <2>2. InHand = {} /\ InHand' = {cur'} \cap Id
    BY <2>1 DEF InHand
  <2>3. Head(ready) \in Id /\ Head(ready) \in Range(ready)
        /\ Range(ready') = Range(ready) \ {Head(ready)}
    BY <2>1, TailQueue DEF IInv, SimInv, Placed
  <2>4. PICK p \in Id : p = Head(ready)
    BY <2>3
  <2>5. InHand' = {p}
    BY <2>1, <2>2, <2>4
  <2>6. SimInv({}, AtDown) /\ SimInv({p}, AtDown)'
    BY <2>2, <2>5 DEF IInv
  <2>. QED  BY <2>1, <2>3, <2>4, <2>6, TakenOutIsDispatched DEF IsForked
<1>4. CASE Start
  <2>1. /\ pc = "start" /\ pc' = "tick" /\ ~cpuFree'
        /\ UNCHANGED <<job, rem, table, waitQ, ready, cur>>
    BY <1>4 DEF Start, Goto
  <2>2. cur \in Id /\ cpuFree
    BY <2>1 DEF IInv, AtStart
  <2>3. InHand = {cur} /\ InHand' = {cur}
    BY <2>1, <2>2 DEF InHand
  <2>4. cur \in table
    BY <2>3 DEF IInv, SimInv, Placed
  <2>5. \A p \in Id \ table : IsForked(p)' <=> IsForked(p)
    BY <1>4, <2>4 DEF Start, StartOrResume, IsForked, IInv, TypeOK, SimTypeOK
  <2>. QED  BY <2>1, <2>3, <2>5, StutterSteps
<1>5. CASE Dec
  <2>1. /\ pc = "dec" /\ Decrement /\ UNCHANGED <<job, table, waitQ, ready, child, cur, cpuFree>>
    BY <1>5 DEF Dec, Goto
  <2>2. ~cpuFree /\ cur \in Id
    BY <2>1 DEF IInv, AtSwitch, SimInv, CurrentCounts, SimTypeOK
  <2>3. PICK p \in Id : p = cur
    BY <2>2
  <2>4. InHand = {p} /\ InHand' = {p} /\ pc \notin AtDown
    BY <2>1, <2>2, <2>3 DEF InHand, AtDown
  <2>5. SimInv({p}, AtDown) /\ SimInv({p}, AtDown)'
    BY <2>4 DEF IInv
  <2>. QED  BY <2>1, <2>2, <2>3, <2>4, <2>5, ChargedRuns
<1>6. CASE StopCurrent
  <2>1. /\ pc = "stop" /\ pc' = "receive3"
        /\ UNCHANGED <<job, rem, table, waitQ, ready, cur, child>>
    BY <1>6 DEF StopCurrent, Goto
  <2>2. ~cpuFree
    BY <2>1 DEF IInv, AtSwitch
  <2>3. InHand' = InHand
    BY <2>1, <2>2 DEF InHand
  <2>. QED  BY <2>1, <2>3, StutterSteps DEF IsForked
<1>7. CASE Requeue
  <2>1. /\ pc = "requeue" /\ pc' = "resume" /\ ready' = Enqueue(ready, cur)
        /\ UNCHANGED <<job, rem, table, waitQ, cur, cpuFree, child>>
    BY <1>7 DEF Requeue, Goto
  <2>2. cpuFree /\ cur \in Id
    BY <2>1 DEF IInv, AtSwitch
  <2>3. PICK p \in Id : p = cur
    BY <2>2
  <2>4. InHand = {p} /\ InHand' = {}
    BY <2>1, <2>2, <2>3 DEF InHand
  <2>5. SimInv({p}, AtDown) /\ SimInv({}, AtDown)'
    BY <2>4 DEF IInv
  <2>6. ready \in Queue /\ p \notin Range(ready) /\ p \in table
    BY <2>5 DEF SimInv, Placed
  <2>7. Range(ready') = Range(ready) \cup {p} /\ rem[p] > 0
    BY <2>1, <2>2, <2>3, <2>5, <2>6, EnqueueQueue DEF SimInv, TimeLeft
  <2>. QED  BY <2>1, <2>5, <2>7, PutBackIsPreempted DEF IsForked
<1>8. CASE ResumeNext
  <2>1. /\ pc = "resume" /\ pc' = "end" /\ ~cpuFree'
        /\ cur' = Head(ready) /\ ready' = Tail(ready)
        /\ UNCHANGED <<job, rem, table, waitQ>>
        /\ StartOrResume(Head(ready))
    BY <1>8 DEF ResumeNext, Goto
  <2>2. cpuFree /\ ready # <<>>
    BY <2>1 DEF IInv, AtSwitch
  <2>3. Head(ready) \in Id /\ Head(ready) \in Range(ready)
        /\ Range(ready') = Range(ready) \ {Head(ready)}
    BY <2>1, <2>2, TailQueue DEF IInv, SimInv, Placed
  <2>4. PICK p \in Id : p = Head(ready)
    BY <2>3
  <2>5. InHand = {} /\ InHand' = {p}
    BY <2>1, <2>2, <2>4 DEF InHand
  <2>6. SimInv({}, AtDown) /\ SimInv({p}, AtDown)'
    BY <2>5 DEF IInv
  <2>7. p \in table
    BY <2>3, <2>4, <2>6 DEF SimInv, Placed
  <2>8. \A q \in Id \ table : IsForked(q)' <=> IsForked(q)
    BY <2>1, <2>4, <2>7 DEF StartOrResume, IsForked, IInv, TypeOK, SimTypeOK
  <2>. QED  BY <2>1, <2>3, <2>4, <2>6, <2>8, TakenOutIsDispatched
<1>. QED  BY <1>1, <1>2, <1>3, <1>4, <1>5, <1>6, <1>7, <1>8 DEF Loop

\* The loop, the handler, the processes and the generator together give every process
\* the CPU alone, charge it by the second, take it back only with something left and
\* finish it once, with nothing left.
THEOREM ImplementsLifecycle == Spec => LifecycleSpec
<1>1. Init => Abstract!Init
  BY InitMaps DEF Init
<1>2. IInv /\ IInv' /\ [Next]_vars => [Abstract!Next]_(Abstract!vars)
  <2>. SUFFICES ASSUME IInv, IInv', [Next]_vars PROVE [Abstract!Next]_(Abstract!vars)
    OBVIOUS
  <2>1. CASE World
    <3>1. PICK H : H = InHand
      OBVIOUS
    <3>2. SimInv(H, AtDown)
      BY <3>1 DEF IInv
    <3>. QED  BY <2>1, <3>2, EnvironmentStutters DEF World
  <2>2. CASE Handler
    <3>1. sig /\ ~cpuFree
      BY <2>2 DEF Handler, processTerminate, IInv, SimInv, CurrentCounts
    <3>2. SimInv({cur} \cap Id, AtDown)
      BY <3>1 DEF IInv, InHand
    <3>. QED  BY <2>2, <3>2, HandlerFinishes DEF Handler
  <2>3. CASE Loop
    BY <2>3, LoopSteps
  <2>4. CASE UNCHANGED vars
    <3>1. InHand' = InHand /\ UNCHANGED <<job, rem, table, waitQ, ready, child>>
      BY <2>4 DEF vars, simVars, generator, processes, loop, cpu, pcb, memory, InHand
    <3>. QED  BY <3>1, StutterSteps DEF IsForked
  <2>. QED  BY <2>1, <2>2, <2>3, <2>4 DEF Next
<1>. QED  BY <1>1, <1>2, Invariant, PTL DEF Spec, LifecycleSpec, Abstract!Spec

-----------------------------------------------------------------------------
(* Time, when everybody is prompt.                                         *)

\* Where the loop has just read a new second, and where it switches in it.
Charging == {"dec", "down", "quantum1", "receive2", "alone", "quantum2", "stop"}
Switching == {"receive3", "requeue", "resume"}

\* The current process never runs past the end of its quantum, and at its end the
\* loop is about to look whether somebody is ready.
QuantumHeld ==
  /\ pc \in Charging \cup Switching => prevClk = clk
  /\ ~cpuFree => clk <= Quantum + quantumStart
  /\ ~cpuFree /\ pc \notin Charging => prevClk < Quantum + quantumStart
  /\ pc \in {"receive2", "alone"} => clk = Quantum + quantumStart
  /\ pc = "quantum2" /\ ~cpuFree /\ clk = Quantum + quantumStart => ready # <<>>
  /\ pc \in Switching => quantumStart = clk
  /\ pc \in {"receive3", "requeue"} => lastClk[cur] = clk

InTime ==
  /\ prevClk <= clk
  /\ pc = "done" => pCount = N
  /\ job.prompt => QuantumHeld

\* The numbers the loop reckons with.
LEMMA Times ==
  ASSUME IInv
  PROVE  /\ clk \in Nat /\ prevClk \in Int /\ quantumStart \in Nat
         /\ Quantum \in Nat /\ Quantum > 0 /\ N \in Nat /\ N > 0
         /\ lastClk \in [Id -> Nat]
BY MaxClkAssumption, NAssumption, JobsAssumption, QuantumAssumption
   DEF IInv, TypeOK, SimTypeOK, Quantum

\* When all have finished nobody is left, and the CPU is free.
LEMMA NobodyLeft ==
  ASSUME IInv, pCount = N
  PROVE  cpuFree /\ ready = <<>>
<1>1. PICK H : H = InHand
  OBVIOUS
<1>2. SimInv(H, AtDown)
  BY <1>1 DEF IInv
<1>4. table = {}
  BY <1>2, AllFinished DEF SimInv, SimTypeOK
<1>5. cpuFree
  BY <1>2, <1>4 DEF SimInv, CurrentCounts, SimTypeOK
<1>6. Range(ready) = {} /\ ready \in Queue
  BY <1>2, <1>4 DEF SimInv, Placed
<1>. QED  BY <1>5, <1>6, TailQueue

\* A second passes only after the loop has done all that the last one called for.
LEMMA TickInTime ==
  ASSUME IInv, InTime, Tick, UNCHANGED <<quantumStart, pTemp>>
  PROVE  InTime'
<1>. USE DEF generator, processes, loop, cpu, pcb, memory
<1>1. /\ clk' = clk + 1
      /\ job.prompt => Quiet
      /\ UNCHANGED <<job, pc, prevClk, cpuFree, cur, pCount, ready, lastClk, quantumStart>>
  BY DEF Tick
<1>2. /\ clk \in Nat /\ prevClk \in Int /\ quantumStart \in Nat
      /\ Quantum \in Nat
  BY Times
<1>3. Quantum' = Quantum
  BY <1>1 DEF Quantum
<1>4. ASSUME job.prompt PROVE QuantumHeld'
  <2>1. Stopped \/ (prevClk = clk /\ pc \in {"receive", "dispatch", "tick", "end"})
    BY <1>1, <1>4 DEF Quiet
  <2>2. Stopped => pc = "done" /\ cpuFree
    BY NobodyLeft DEF Stopped, IInv, NeverCrashes, InTime
  <2>3. pc \notin Charging \cup Switching
    BY <2>1, <2>2 DEF Charging, Switching
  <2>4. QuantumHeld
    BY <1>4 DEF InTime
  <2>5. pc' \notin Charging \cup Switching \cup {"receive2", "alone", "quantum2", "receive3", "requeue"}
    BY <1>1, <2>3 DEF Charging, Switching
  <2>6. ~cpuFree => clk < Quantum + quantumStart
    BY <2>1, <2>2, <2>3, <2>4 DEF QuantumHeld
  <2>7. ~cpuFree' => clk' <= Quantum' + quantumStart'
    BY <1>1, <1>2, <1>3, <2>6
  <2>8. ~cpuFree' => prevClk' < Quantum' + quantumStart'
    BY <1>1, <1>3, <2>3, <2>4 DEF QuantumHeld
  <2>. QED  BY <2>5, <2>7, <2>8 DEF QuantumHeld
<1>. QED  BY <1>1, <1>2, <1>4 DEF InTime

\* Nothing of that changes by the steps of the others, nor by the handler's, which
\* only frees the CPU.
LEMMA OthersInTime ==
  ASSUME IInv, InTime, World \/ Handler, ~(Tick /\ UNCHANGED <<quantumStart, pTemp>>)
  PROVE  InTime'
<1>. USE DEF generator, processes, loop, cpu, pcb, memory
<1>1. CASE World
  <2>1. UNCHANGED <<job, clk, pc, prevClk, cpuFree, cur, pCount, ready, lastClk, quantumStart>>
    BY <1>1 DEF World, Environment, Notice, Send, LeaveLoop, Signal, Up
  <2>2. Quantum' = Quantum
    BY <2>1 DEF Quantum
  <2>. QED  BY <2>1, <2>2 DEF InTime, QuantumHeld
<1>2. CASE Handler
  <2>1. sig /\ pc = "down"
    BY <1>2 DEF Handler, processTerminate, IInv, SimInv, CurrentCounts, AtDown
  <2>2. pc' = pc
    BY <1>2, HandlerStep, <2>1 DEF Handler, processTerminate, IInv, NeverCrashes
  <2>3. cpuFree' /\ UNCHANGED <<job, clk, prevClk, lastClk, quantumStart>>
    BY <1>2 DEF Handler, processTerminate
  <2>4. Quantum' = Quantum
    BY <2>3 DEF Quantum
  <2>. QED  BY <2>1, <2>2, <2>3, <2>4 DEF InTime, QuantumHeld, Charging, Switching
<1>. QED  BY <1>1, <1>2

\* Neither changes by receiving, dispatching and charging.
LEMMA QuantumGoesOn ==
  ASSUME IInv, InTime,
         \/ Receiving \/ Received \/ DispatchNobody \/ Dispatch \/ SameSecond \/ Dec \/ Down
         \/ FirstCheck \/ SecondCheck \/ Requeue \/ LeaveNext \/ End
  PROVE  InTime'
<1>. USE DEF generator, processes, loop, cpu, pcb, memory
<1>1. UNCHANGED <<job, clk, prevClk, quantumStart, cpuFree, pCount, lastClk>>
  BY DEF Receiving, Poll, Received, DispatchNobody, Dispatch, SameSecond, Dec, Down, FirstCheck,
         SecondCheck, Requeue, LeaveNext, End, Test
<1>2. Quantum' = Quantum
  BY <1>1 DEF Quantum
<1>3. /\ clk \in Nat /\ prevClk \in Int /\ quantumStart \in Nat /\ Quantum \in Nat
  BY Times
<1>4. prevClk' <= clk' /\ (pc' = "done" => pCount' = N)
  BY <1>1 DEF InTime, Receiving, Poll, Received, DispatchNobody, Dispatch, SameSecond, Dec, Down,
              FirstCheck, SecondCheck, Requeue, LeaveNext, End, Goto
<1>5. ASSUME job.prompt PROVE QuantumHeld'
  <2>1. QuantumHeld
    BY <1>5 DEF InTime
  <2>2. CASE Receiving
    <3>1. pc' = pc /\ pc \in {"receive", "receive2", "receive3"} /\ cur' = cur
      BY <2>2 DEF Receiving, Poll
    <3>. QED  BY <1>1, <1>2, <2>1, <3>1 DEF QuantumHeld
  <2>3. CASE Received \/ LeaveNext \/ Requeue
    <3>1. /\ \/ pc = "receive" /\ pc' = "dispatch"
             \/ pc = "receive2" /\ pc' = "alone"
             \/ pc = "receive3" /\ pc' = "requeue"
             \/ pc = "requeue" /\ pc' = "resume"
             \/ pc = "resume" /\ pc' = "end"
          /\ cur' = cur
      BY <2>3 DEF Received, LeaveNext, Requeue, Goto, Test
    <3>2. pc = "resume" => cpuFree
      BY DEF IInv, AtSwitch
    <3>. QED  BY <1>1, <1>2, <2>1, <3>1, <3>2 DEF QuantumHeld, Charging, Switching
  <2>4. CASE DispatchNobody \/ Dispatch \/ SameSecond \/ Dec \/ Down \/ End
    <3>1. \/ pc = "dispatch" /\ pc' \in {"tick", "start"}
          \/ pc = "tick" /\ pc' = "end"
          \/ pc = "dec" /\ pc' = "down"
          \/ pc = "down" /\ pc' = "quantum1"
          \/ pc = "end" /\ pc' \in {"done", "receive"}
      BY <2>4 DEF DispatchNobody, Dispatch, SameSecond, Dec, Down, End, Goto
    <3>. QED  BY <1>1, <1>2, <2>1, <3>1 DEF QuantumHeld, Charging, Switching
  <2>5. CASE FirstCheck
    <3>1. /\ pc = "quantum1" /\ ready' = ready
          /\ \/ pc' = "receive2" /\ QuantumPassed
             \/ pc' = "quantum2" /\ ~(QuantumPassed /\ ready = <<>>)
      BY <2>5 DEF FirstCheck, Goto, Test
    <3>. QED  BY <1>1, <1>2, <2>1, <3>1 DEF QuantumHeld, Charging, Switching, QuantumPassed
  <2>6. CASE SecondCheck
    <3>1. /\ pc = "quantum2" /\ ready' = ready
          /\ \/ pc' = "stop" /\ QuantumPassed
             \/ pc' = "end" /\ ~(QuantumPassed /\ ready # <<>>)
      BY <2>6 DEF SecondCheck, Goto, Test
    <3>2. prevClk = clk /\ (~cpuFree => clk <= Quantum + quantumStart)
      BY <2>1, <3>1 DEF QuantumHeld, Charging
    <3>3. pc' = "end" /\ ~cpuFree => clk # Quantum + quantumStart
      BY <2>1, <3>1 DEF QuantumHeld, QuantumPassed
    <3>4. pc' = "end" /\ ~cpuFree => prevClk < Quantum + quantumStart
      BY <1>3, <3>2, <3>3
    <3>. QED  BY <1>1, <1>2, <3>1, <3>2, <3>4 DEF QuantumHeld, Charging, Switching
  <2>. QED  BY <2>2, <2>3, <2>4, <2>5, <2>6
<1>. QED  BY <1>1, <1>4, <1>5 DEF InTime

\* A quantum begins with the second in which the process is started or goes on, and
\* ends when its last second has been counted.
LEMMA QuantumBegins ==
  ASSUME IInv, InTime, Start \/ NewSecond \/ StillAlone \/ StopCurrent \/ ResumeNext
  PROVE  InTime'
<1>. USE DEF generator, processes, loop, cpu, pcb, memory
<1>1. UNCHANGED <<job, clk, pCount>> /\ pc' # "done"
  BY DEF Start, NewSecond, StillAlone, StopCurrent, ResumeNext, Goto, Test
<1>2. Quantum' = Quantum
  BY <1>1 DEF Quantum
<1>3. /\ clk \in Nat /\ prevClk \in Int /\ quantumStart \in Nat /\ Quantum \in Nat /\ Quantum > 0
      /\ lastClk \in [Id -> Nat]
  BY Times
<1>4. prevClk <= clk /\ prevClk' \in {prevClk, clk}
  BY DEF InTime, Start, NewSecond, StillAlone, StopCurrent, ResumeNext, Test
<1>5. clk < Quantum + clk
  BY <1>3
<1>6. ASSUME job.prompt PROVE QuantumHeld'
  <2>1. QuantumHeld
    BY <1>6 DEF InTime
  <2>2. CASE Start
    <3>1. pc' = "tick" /\ quantumStart' = clk /\ prevClk' = prevClk
      BY <2>2 DEF Start, Goto
    <3>2. prevClk < Quantum + clk
      BY <1>3, <1>4
    <3>. QED  BY <1>1, <1>2, <1>3, <3>1, <3>2 DEF QuantumHeld, Charging, Switching
  <2>3. CASE NewSecond
    <3>1. pc = "tick" /\ pc' \in {"quantum1", "dec"} /\ prevClk' = clk
          /\ UNCHANGED <<quantumStart, cpuFree>>
      BY <2>3 DEF NewSecond, Goto, Test
    <3>. QED  BY <1>1, <1>2, <2>1, <3>1 DEF QuantumHeld, Charging, Switching
  <2>4. CASE StillAlone
    <3>1. pc = "alone" /\ pc' = "quantum2" /\ UNCHANGED <<prevClk, cpuFree, ready>>
          /\ quantumStart' = IF ready = <<>> THEN clk ELSE quantumStart
      BY <2>4 DEF StillAlone, Goto, Test
    <3>2. prevClk = clk /\ clk = Quantum + quantumStart
      BY <2>1, <3>1 DEF QuantumHeld, Charging
    <3>3. clk <= Quantum + quantumStart'
      BY <1>3, <3>1, <3>2
    <3>4. clk = Quantum + quantumStart' => ready # <<>>
      BY <1>3, <3>1
    <3>. QED  BY <1>1, <1>2, <3>1, <3>2, <3>3, <3>4 DEF QuantumHeld, Charging, Switching
  <2>5. CASE StopCurrent
    <3>1. /\ pc = "stop" /\ pc' = "receive3" /\ cpuFree' = TRUE /\ quantumStart' = clk
          /\ prevClk' = prevClk /\ cur' = cur /\ lastClk' = [lastClk EXCEPT ![cur] = clk]
      BY <2>5 DEF StopCurrent, Stop, Goto
    <3>2. cur \in Id
      BY <3>1 DEF IInv, AtSwitch, SimInv, CurrentCounts, SimTypeOK
    <3>3. lastClk'[cur'] = clk
      BY <1>3, <3>1, <3>2
    <3>4. prevClk = clk
      BY <2>1, <3>1 DEF QuantumHeld, Charging
    <3>. QED  BY <1>1, <1>2, <3>1, <3>3, <3>4 DEF QuantumHeld, Charging, Switching
  <2>6. CASE ResumeNext
    <3>1. pc = "resume" /\ pc' = "end" /\ UNCHANGED <<prevClk, quantumStart>>
      BY <2>6 DEF ResumeNext, Goto
    <3>2. prevClk = clk /\ quantumStart = clk
      BY <2>1, <3>1 DEF QuantumHeld, Switching
    <3>. QED  BY <1>1, <1>2, <1>3, <1>5, <3>1, <3>2 DEF QuantumHeld, Charging, Switching
  <2>. QED  BY <2>2, <2>3, <2>4, <2>5, <2>6
<1>. QED  BY <1>1, <1>3, <1>4, <1>6 DEF InTime

\* So it holds of the first state, and every step keeps it.
LEMMA InTimeInit == ASSUME Init PROVE InTime
<1>1. pc = "receive" /\ cpuFree /\ prevClk = -1 /\ clk = 0
  BY DEF Init, SimInit
<1>. QED  BY <1>1 DEF InTime, QuantumHeld, Charging, Switching

LEMMA InTimeKept == ASSUME IInv, InTime, [Next]_vars PROVE InTime'
<1>1. CASE World \/ Handler
  BY <1>1, TickInTime, OthersInTime
<1>2. CASE Loop
  BY <1>2, QuantumGoesOn, QuantumBegins DEF Loop
<1>3. CASE UNCHANGED vars
  <2>1. Quantum' = Quantum
    BY <1>3 DEF vars, simVars, Quantum
  <2>. QED  BY <1>3, <2>1 DEF vars, simVars, loop, cpu, pcb, InTime, QuantumHeld
<1>. QED  BY <1>1, <1>2, <1>3 DEF Next

\* With prompt processes a process that is not alone is stopped at the end of its
\* quantum: the loop looks in the very second the quantum ends in, and a process
\* that arrives just then is received before the loop decides.
THEOREM QuantumIsKept == Spec => []QuantumKept
<1>1. Init => InTime
  BY InTimeInit
<1>2. IInv /\ InTime /\ [Next]_vars => InTime'
  BY InTimeKept
<1>3. InTime => QuantumKept
  BY DEF InTime, QuantumHeld, QuantumKept, QuantumPassedStops, Charging
<1>. QED  BY <1>1, <1>2, <1>3, Invariant, PTL DEF Spec

-----------------------------------------------------------------------------
(* Turnaround.                                                             *)

\* A step keeps the accounts: the process is stopped, and another one resumed, in the
\* second of a charge.
LEMMA AccountsStep ==
  ASSUME IInv, Accounts(Charging \cup Switching), [Next]_vars
  PROVE  Accounts(Charging \cup Switching)'
<1>. USE DEF generator, processes, loop, cpu, pcb, memory
<1>. DEFINE C == Charging \cup Switching
<1>1. PICK H : H = InHand
  OBVIOUS
<1>2. SimInv(H, AtDown) /\ pc # "crashed" /\ SimTypeOK
  BY <1>1 DEF IInv, NeverCrashes, TypeOK
<1>3. /\ C \cap {"receive", "dispatch", "tick", "end", "done", "start"} = {}
      /\ {"dec", "down"} \subseteq C
  BY DEF Charging, Switching
<1>4. /\ pc \in C => pc \in {"dec", "down", "quantum1", "receive2", "alone", "quantum2", "stop",
                             "receive3", "requeue", "resume"}
      /\ \A l \in {"down", "quantum1", "receive2", "alone", "quantum2", "stop", "receive3",
                   "requeue", "resume"} : l \in C /\ l # "dec"
  BY DEF Charging, Switching
<1>. HIDE DEF C
<1>5. CASE World
  <2>1. cpuFree /\ pc \in {"receive", "dispatch", "tick", "end"} => H = {}
    BY <1>1 DEF InHand
  <2>2. Environment /\ C \cap {"receive", "dispatch", "tick", "end", "done"} = {}
    BY <1>3, <1>5 DEF World
  <2>. QED  BY <1>2, <2>1, <2>2, EnvironmentAccounts DEF C
<1>6. CASE Handler
  <2>1. sig /\ ~cpuFree
    BY <1>2, <1>6 DEF Handler, processTerminate, SimInv, CurrentCounts
  <2>2. SimInv({cur} \cap Id, AtDown)
    BY <2>1 DEF IInv, InHand
  <2>3. AtDown \subseteq C \cup {"crashed"} /\ "done" \notin AtDown
    BY <1>3 DEF AtDown
  <2>. QED  BY <1>6, <2>2, <2>3, HandlerAccounts DEF Handler, C
<1>7. CASE Receiving
  BY <1>2, <1>7, PollAccounts DEF Receiving, C
<1>8. CASE \/ Received \/ DispatchNobody \/ Dispatch \/ SameSecond \/ Down \/ FirstCheck \/ StillAlone
           \/ SecondCheck \/ Requeue \/ LeaveNext \/ End \/ UNCHANGED vars
  <2>1. UNCHANGED <<job, clk, prevClk, cpuFree, child, halted, table, rem, lastClk, wait>>
    BY <1>8 DEF Received, DispatchNobody, Dispatch, SameSecond, Down, FirstCheck, StillAlone,
                SecondCheck, Requeue, LeaveNext, End, Test, vars, simVars
  <2>2. /\ pc' \in C => pc \in C
        /\ pc' = "dec" <=> pc = "dec"
        /\ pc' = "done" => pc = "done" \/ pCount = N
    BY <1>3, <1>4, <1>8
    DEF Received, DispatchNobody, Dispatch, SameSecond, Down, FirstCheck, StillAlone,
        SecondCheck, Requeue, LeaveNext, End, Goto, vars, simVars
  <2>3. job.prompt /\ pc' = "done" => table = {}
    BY <1>2, <2>2, AllFinished DEF SimInv, SimTypeOK, Accounts
  <2>. QED  BY <1>2, <2>1, <2>2, <2>3, TestAccounts DEF C
<1>9. CASE NewSecond
  <2>1. /\ prevClk # clk /\ prevClk' = clk /\ pc' # "done" /\ (cpuFree \/ pc' = "dec")
        /\ UNCHANGED <<job, clk, cpuFree, child, halted, table, rem, lastClk, wait>>
    BY <1>9 DEF NewSecond, Test, Goto
  <2>. QED  BY <1>2, <2>1, SecondAccounts DEF C
<1>10. CASE Start
  <2>1. /\ pc = "start" /\ pc' = "tick" /\ StartOrResume(cur) /\ cpuFree' = FALSE
        /\ UNCHANGED <<job, clk, prevClk, table, rem, lastClk>>
    BY <1>10 DEF Start, Goto
  <2>2. cpuFree /\ cur \in Id /\ InHand = {cur}
    BY <2>1 DEF IInv, AtStart, InHand
  <2>3. cur \in table
    BY <1>1, <1>2, <2>2 DEF SimInv, Placed
  <2>4. PICK p \in table : p = cur
    BY <2>3
  <2>. QED  BY <1>2, <1>3, <2>1, <2>2, <2>4, GivenAccounts DEF C
<1>11. CASE Dec
  <2>1. /\ pc = "dec" /\ pc' = "down" /\ Decrement /\ ~cpuFree
        /\ UNCHANGED <<job, clk, prevClk, cpuFree, child, halted, table, lastClk, wait>>
    BY <1>11 DEF Dec, Goto, IInv, AtSwitch
  <2>. QED  BY <1>2, <1>3, <2>1, ChargeAccounts DEF C
<1>12. CASE StopCurrent
  <2>1. /\ pc = "stop" /\ pc' = "receive3" /\ Stop(cur) /\ ~cpuFree
        /\ UNCHANGED <<job, clk, prevClk, child, table, rem, wait>>
    BY <1>12 DEF StopCurrent, Goto, IInv, AtSwitch
  <2>2. cur \in table
    BY <1>2, <2>1 DEF SimInv, CurrentCounts
  <2>3. PICK p \in table : p = cur
    BY <2>2
  <2>. QED  BY <1>2, <1>4, <2>1, <2>3, TakenAccounts DEF C
<1>13. CASE ResumeNext
  <2>1. /\ pc = "resume" /\ pc' = "end" /\ StartOrResume(Head(ready)) /\ cpuFree' = FALSE
        /\ UNCHANGED <<job, clk, prevClk, table, rem, lastClk>>
    BY <1>13 DEF ResumeNext, Goto
  <2>2. cpuFree /\ ready # <<>>
    BY <2>1 DEF IInv, AtSwitch
  <2>3. Head(ready) \in table
    BY <1>2, <2>2, TailQueue DEF SimInv, Placed
  <2>4. PICK p \in table : p = Head(ready)
    BY <2>3
  <2>. QED  BY <1>2, <1>3, <2>1, <2>2, <2>4, GivenAccounts DEF C
<1>. QED
  BY <1>5, <1>6, <1>7, <1>8, <1>9, <1>10, <1>11, <1>12, <1>13 DEF Next, Loop

\* With prompt processes, the time that a process has spent in the system when its
\* end is handled is what it waited and its run time, or a second less; over any
\* number of quanta, switches and resumptions nothing else is gained or lost.
THEOREM TurnaroundAddsUp == Spec => []TurnaroundIsWaitAndRun
<1>. DEFINE A == Accounts(Charging \cup Switching)
<1>1. Init => A
  <2>1. "receive" \notin Charging \cup Switching
    BY DEF Charging, Switching
  <2>. QED  BY <2>1, AccountsInit DEF Init
<1>2. IInv /\ A /\ [Next]_vars => A'
  BY AccountsStep
<1>3. IInv /\ A => TurnaroundIsWaitAndRun
  <2>. SUFFICES ASSUME IInv, A PROVE TurnaroundIsWaitAndRun
    OBVIOUS
  <2>1. PICK H : H = InHand
    OBVIOUS
  <2>2. SimInv(H, AtDown) /\ pc # "crashed"
    BY <2>1 DEF IInv, NeverCrashes
  <2>3. AtDown \subseteq Charging \cup Switching \cup {"crashed"} /\ "dec" \notin AtDown
    BY DEF AtDown, Charging
  <2>. QED  BY <2>2, <2>3, TurnaroundHolds
<1>. HIDE DEF A
<1>. QED  BY <1>1, <1>2, <1>3, Invariant, PTL DEF Spec

-----------------------------------------------------------------------------
(* The end of a process.                                                   *)

\* A step keeps what has happened: only a process that spins is stopped.
LEMMA PastStep ==
  ASSUME IInv, Past, [Next]_vars
  PROVE  Past'
<1>. USE DEF generator, processes, loop, cpu, pcb, memory
<1>1. SimTypeOK /\ msgq \in Queue /\ cur \in Id \cup {None, Freed}
  BY DEF IInv, SimInv, SimTypeOK, Placed
<1>2. CASE World
  BY <1>1, <1>2, EnvironmentPast DEF World
<1>3. CASE Handler
  <2>1. /\ UNCHANGED <<job, clk, gen, sent, msgq, child, halted, lastClk, wait>>
        /\ table' \subseteq table
    BY <1>3 DEF Handler, processTerminate
  <2>. QED  BY <2>1, TestPast
<1>4. CASE Receiving
  BY <1>1, <1>4, PollPast DEF Receiving
<1>5. CASE \/ Received \/ DispatchNobody \/ Dispatch \/ NewSecond \/ SameSecond \/ Dec \/ Down
           \/ FirstCheck \/ StillAlone \/ SecondCheck \/ Requeue \/ LeaveNext \/ End \/ UNCHANGED vars
  <2>1. UNCHANGED <<job, clk, gen, sent, msgq, child, halted, table, lastClk, wait>>
    BY <1>5 DEF Received, DispatchNobody, Dispatch, NewSecond, SameSecond, Dec, Down, FirstCheck,
                StillAlone, SecondCheck, Requeue, LeaveNext, End, Test, vars, simVars
  <2>. QED  BY <2>1, TestPast
<1>6. CASE Start
  <2>1. /\ pc = "start" /\ StartOrResume(cur)
        /\ UNCHANGED <<job, clk, gen, sent, msgq, table, lastClk>>
    BY <1>6 DEF Start, Goto
  <2>2. cur \in table
    BY <2>1 DEF IInv, AtStart, InHand, SimInv, Placed
  <2>. QED  BY <1>1, <2>1, <2>2, GivenPast
<1>7. CASE StopCurrent
  <2>1. /\ pc = "stop" /\ Stop(cur) /\ ~cpuFree
        /\ UNCHANGED <<job, clk, gen, sent, msgq, child, table, wait>>
    BY <1>7 DEF StopCurrent, Goto, IInv, AtSwitch
  <2>2. cur \in Id /\ child[cur] = "spin"
    BY <1>1, <2>1 DEF IInv, SimInv, CurrentCounts, AtDown, SimTypeOK
  <2>. QED  BY <1>1, <2>1, <2>2, TakenPast
<1>8. CASE ResumeNext
  <2>1. /\ pc = "resume" /\ StartOrResume(Head(ready))
        /\ UNCHANGED <<job, clk, gen, sent, msgq, table, lastClk>>
    BY <1>8 DEF ResumeNext, Goto
  <2>2. Head(ready) \in table
    BY <2>1, TailQueue DEF IInv, AtSwitch, SimInv, Placed
  <2>. QED  BY <1>1, <2>1, <2>2, GivenPast
<1>. QED
  BY <1>2, <1>3, <1>4, <1>5, <1>6, <1>7, <1>8 DEF Next, Loop

\* With the rest of the invariant.
LEMMA PastInvariant == Spec => [](IInv /\ Past)
<1>1. Init => Past
  BY PastInit DEF Init
<1>2. IInv /\ Past /\ [Next]_vars => Past'
  BY PastStep
<1>. QED  BY <1>1, <1>2, Invariant, PTL DEF Spec

\* The scheduler waits for the semaphore of a process only when that process is on its
\* way to raise it, whatever the processes' speed: the two never wait for each other,
\* and no process is stopped between its last second and its end.
THEOREM SchedulerIsAnswered == Spec => []DownIsAnswered
<1>1. IInv /\ Past => DownIsAnswered
  <2>1. "down" \in AtDown
    BY DEF AtDown
  <2>. QED  BY <2>1, DownHolds DEF IInv
<1>. QED  BY <1>1, PastInvariant, PTL

\* With prompt processes, nobody is finished more than a second before its run time has
\* passed since its arrival, however often it was stopped and resumed.
THEOREM EndsASecondEarlyAtMost == Spec => []SecondEarlyAtMost
<1>1. IInv /\ Past /\ TurnaroundIsWaitAndRun => SecondEarlyAtMost
  BY SecondEarlyHolds DEF IInv, SimInv
<1>. QED  BY <1>1, PastInvariant, TurnaroundAddsUp, PTL

\* The handler always finds the process whose end it handles in currentProc, with its
\* PCB, and no signal is sent while one is pending: each end is handled once, by a
\* handler that is not told who has ended.
THEOREM EveryEndIsHandled == Spec => []SignalIsOfCurrent /\ SignalsOneByOne
<1>1. IInv => SignalIsOfCurrent /\ [\A p \in Id : Signal(p) => ~sig]_simVars
  BY SignalsHold DEF IInv
<1>. QED  BY <1>1, Invariant, PTL DEF SignalsOneByOne

-----------------------------------------------------------------------------
(* Turns.                                                                  *)

\* The time a waiting process is reckoned up to, and the quanta that may still pass
\* before the i-th of q2 has the CPU.
Since == IF cpuFree THEN clk ELSE quantumStart
TurnsLeft(i) == IF cpuFree /\ pc # "start" THEN N - i ELSE N - 1 - i

WaitedAt(i) == halted[ready[i]] => Since - lastClk[ready[i]] <= TurnsLeft(i) * Quantum

\* A stopped process is the nearer to the front of q2 the longer ago it was stopped.
Waited == job.prompt => \A i \in DOMAIN ready : WaitedAt(i)

\* A quantum more, and none.
LEMMA OneMoreQuantum ==
  ASSUME NEW k \in Int, NEW q \in Nat
  PROVE  (k + 1) * q = k * q + q /\ (k >= 0 => k * q >= 0)
OBVIOUS

LEMMA FewerQuanta ==
  ASSUME NEW k \in Int, NEW m \in Int, NEW q \in Nat, k <= m
  PROVE  k * q <= m * q
<1>1. m - k \in Int /\ m - k >= 0
  OBVIOUS
<1>2. (m - k) * q >= 0
  BY <1>1
<1>. QED  BY <1>2

\* The places of q2.
LEMMA InQueue ==
  ASSUME IInv
  PROVE  /\ ready \in Queue /\ Range(ready) \subseteq table
         /\ \A i \in DOMAIN ready : ready[i] \in Range(ready) /\ ready[i] \in Id /\ i \in Nat \ {0}
<1>1. PICK H : H = InHand
  OBVIOUS
<1>2. SimInv(H, AtDown)
  BY <1>1 DEF IInv
<1>3. ready \in Queue /\ Range(ready) \subseteq table /\ table \subseteq Id
  BY <1>2 DEF SimInv, Placed, SimTypeOK
<1>4. \A i \in DOMAIN ready : ready[i] \in Range(ready)
  BY DEF Range
<1>5. DOMAIN ready = 1 .. Len(ready) /\ Len(ready) \in Nat
  BY <1>3, LenProperties DEF Queue
<1>. QED  BY <1>3, <1>4, <1>5

\* Everybody keeps his place, and at most one quantum has passed where one more turn
\* is counted; whoever is new in q2 has not been stopped.
LEMMA WaitedInPlace ==
  ASSUME IInv, IInv', Waited, job' = job, Begins(ready, ready'),
         \A p \in Range(ready') \ Range(ready) : ~halted'[p],
         \A p \in Range(ready) : halted'[p] = halted[p] /\ lastClk'[p] = lastClk[p],
         job.prompt =>
           \/ Since' = Since /\ \A i \in Nat : TurnsLeft(i)' = TurnsLeft(i)
           \/ Since' <= Since + Quantum /\ \A i \in Nat : TurnsLeft(i)' = TurnsLeft(i) + 1
  PROVE  Waited'
<1>1. /\ Quantum \in Nat /\ Quantum' = Quantum
      /\ Since \in Nat /\ Since' \in Nat /\ N \in Nat
      /\ lastClk \in [Id -> Nat] /\ lastClk' \in [Id -> Nat]
  <2>1. /\ clk \in Nat /\ quantumStart \in Nat /\ Quantum \in Nat /\ N \in Nat
        /\ lastClk \in [Id -> Nat]
    BY Times
  <2>2. /\ clk' \in Nat /\ quantumStart' \in Nat /\ lastClk' \in [Id -> Nat]
    BY MaxClkAssumption DEF IInv, TypeOK, SimTypeOK
  <2>. QED  BY <2>1, <2>2 DEF Since, Quantum
<1>2. SUFFICES ASSUME job.prompt, NEW i \in DOMAIN ready', halted'[ready'[i]]
               PROVE  Since' - lastClk'[ready'[i]] <= TurnsLeft(i)' * Quantum
  BY <1>1 DEF Waited, WaitedAt
<1>3. ready' \in Queue
  <2>1. PICK H : H = InHand'
    OBVIOUS
  <2>2. SimInv(H, AtDown)'
    BY <2>1 DEF IInv
  <2>. QED  BY <2>2 DEF SimInv, Placed
<1>4. i \in DOMAIN ready
  BY <1>2, <1>3, BehindFront
<1>5. /\ ready'[i] = ready[i] /\ ready[i] \in Range(ready) /\ ready[i] \in Id /\ i \in Nat
  BY <1>4, InQueue DEF Begins
<1>6. PICK last \in Nat : last = lastClk[ready[i]] /\ last = lastClk'[ready'[i]]
  BY <1>1, <1>5
<1>7. PICK k \in Int : k = TurnsLeft(i)
  BY <1>1, <1>5 DEF TurnsLeft
<1>8. Since - last <= k * Quantum
  BY <1>2, <1>4, <1>5, <1>6, <1>7 DEF Waited, WaitedAt
<1>9. CASE Since' = Since /\ TurnsLeft(i)' = k
  BY <1>6, <1>8, <1>9
<1>10. CASE Since' <= Since + Quantum /\ TurnsLeft(i)' = k + 1
  <2>1. PICK m \in Int : m = k * Quantum
    BY <1>1, <1>7
  <2>2. TurnsLeft(i)' * Quantum = m + Quantum
    BY <1>1, <1>7, <1>10, <2>1, OneMoreQuantum
  <2>3. Since' - last <= m + Quantum
    BY <1>1, <1>6, <1>8, <1>10, <2>1
  <2>. QED  BY <1>6, <2>2, <2>3
<1>. QED  BY <1>2, <1>5, <1>7, <1>9, <1>10

\* The first of q2 is taken out, and everybody else moves up.
LEMMA WaitedMovesUp ==
  ASSUME IInv, IInv', Waited, job' = job, ready # <<>>, ready' = Tail(ready),
         \A p \in Range(ready) \ {Head(ready)} :
           halted'[p] = halted[p] /\ lastClk'[p] = lastClk[p],
         job.prompt => Since' = Since,
         \A i \in Nat : TurnsLeft(i)' = TurnsLeft(i + 1)
  PROVE  Waited'
<1>1. /\ Quantum' = Quantum /\ ready \in Queue
  BY InQueue DEF Quantum
<1>2. SUFFICES ASSUME job.prompt, NEW i \in DOMAIN ready', halted'[ready'[i]]
               PROVE  Since' - lastClk'[ready'[i]] <= TurnsLeft(i)' * Quantum
  BY <1>1 DEF Waited, WaitedAt
<1>3. /\ i \in Nat /\ i + 1 \in DOMAIN ready /\ ready'[i] = ready[i + 1]
  <2>1. /\ ready \in Seq(Id) /\ Len(ready) \in Nat /\ DOMAIN ready = 1 .. Len(ready)
    BY <1>1, LenProperties DEF Queue
  <2>2. /\ DOMAIN ready' = 1 .. Len(ready) - 1
        /\ \A j \in 1 .. Len(ready) - 1 : ready'[j] = ready[j + 1]
    BY <2>1, HeadTailProperties, LenProperties
  <2>. QED  BY <1>2, <2>1, <2>2
<1>4. ready'[i] \in Range(ready) /\ ready'[i] # Head(ready)
  <2>1. Range(ready') = Range(ready) \ {Head(ready)}
    BY <1>1, TailQueue
  <2>2. ready'[i] \in Range(ready')
    BY <1>2 DEF Range
  <2>. QED  BY <2>1, <2>2
<1>5. WaitedAt(i + 1)
  BY <1>2, <1>3 DEF Waited
<1>. QED  BY <1>2, <1>3, <1>4, <1>5 DEF WaitedAt

\* Who is in q2, waits for memory or is still in the message queue is not in
\* *currentProc; the last two have not been stopped.
LEMMA OutOfHand ==
  ASSUME IInv
  PROVE  /\ InHand \cap Range(ready) = {}
         /\ \A p \in Range(msgq) \cup Range(waitQ) : ~halted[p]
<1>1. PICK H : H = InHand
  OBVIOUS
<1>2. SimInv(H, AtDown)
  BY <1>1 DEF IInv
<1>3. Range(msgq) \cup Range(waitQ) \subseteq Id
  BY <1>2 DEF SimInv, Placed, Queue, Range
<1>. QED  BY <1>1, <1>2, <1>3 DEF SimInv, Placed, OnlyCurrentRuns

\* Time passes for those in q2 only while the CPU is taken.
LEMMA OthersWaited ==
  ASSUME IInv, IInv', InTime, Waited, World \/ Handler
  PROVE  Waited'
<1>. USE DEF generator, processes, loop, cpu, pcb, memory
<1>1. CASE World
  <2>1. UNCHANGED <<job, pc, cpuFree, ready, halted, lastClk, quantumStart>>
    BY <1>1 DEF World, Environment, Tick, Notice, Send, LeaveLoop, Signal, Up
  <2>2. clk' = clk \/ (Tick /\ (job.prompt => Quiet))
    BY <1>1 DEF World, Environment, Tick, Notice, Send, LeaveLoop, Signal, Up
  <2>3. CASE clk' = clk \/ ~cpuFree
    BY <2>1, <2>3, WaitedInPlace DEF Begins, Since, TurnsLeft
  <2>4. CASE cpuFree /\ Tick /\ (job.prompt => Quiet)
    <3>1. Quiet => ready = <<>>
      BY <2>4, NobodyLeft DEF Quiet, Stopped, InTime, IInv, NeverCrashes
    <3>. QED  BY <2>1, <2>4, <3>1 DEF Waited
  <2>. QED  BY <2>2, <2>3, <2>4
<1>2. CASE Handler
  <2>1. sig /\ ~cpuFree /\ pc = "down"
    BY <1>2 DEF Handler, processTerminate, IInv, SimInv, CurrentCounts, AtDown
  <2>2. InHand = {cur} \cap Id
    BY <2>1 DEF InHand
  <2>3. /\ Begins(ready, ready') /\ Range(ready') \subseteq Range(ready) \cup Range(waitQ)
        /\ pc' = pc
    BY <1>2, <2>2, HandlerKeeps DEF IInv, Handler
  <2>4. UNCHANGED <<job, clk, halted, lastClk, quantumStart>> /\ cpuFree'
    BY <1>2 DEF Handler, processTerminate
  <2>5. job.prompt => clk <= Quantum + quantumStart
    BY <2>1 DEF InTime, QuantumHeld
  <2>6. \A p \in Range(ready') \ Range(ready) : ~halted'[p]
    BY <2>3, <2>4, OutOfHand
  <2>7. Since = quantumStart /\ Since' = clk
    BY <2>1, <2>4 DEF Since
  <2>8. \A i \in Nat : TurnsLeft(i)' = TurnsLeft(i) + 1
    BY <2>1, <2>3, <2>4, NAssumption DEF TurnsLeft
  <2>9. job.prompt => Since' <= Since + Quantum
    BY <2>5, <2>7, Times
  <2>. QED  BY <2>3, <2>4, <2>6, <2>8, <2>9, WaitedInPlace
<1>. QED  BY <1>1, <1>2

\* The steps that leave times and places alone.
LEMMA TestsWaited ==
  ASSUME IInv, IInv', Waited,
         \/ Received \/ DispatchNobody \/ NewSecond \/ SameSecond \/ Dec \/ Down \/ FirstCheck
         \/ StillAlone \/ SecondCheck \/ LeaveNext \/ End \/ Receiving
  PROVE  Waited'
<1>. USE DEF generator, processes, loop, cpu, pcb, memory
<1>1. UNCHANGED <<job, clk, cpuFree, halted, lastClk>>
  BY DEF Receiving, Poll, Received, DispatchNobody, NewSecond, SameSecond, Dec, Down, FirstCheck,
         StillAlone, SecondCheck, LeaveNext, End, Test
<1>2. pc # "start" /\ pc' # "start"
  BY DEF Receiving, Poll, Received, DispatchNobody, NewSecond, SameSecond, Dec, Down, FirstCheck,
         StillAlone, SecondCheck, LeaveNext, End, Goto
<1>3. quantumStart' = quantumStart \/ (ready = <<>> /\ ready' = <<>>)
  BY DEF Receiving, Poll, Received, DispatchNobody, NewSecond, SameSecond, Dec, Down, FirstCheck,
         StillAlone, SecondCheck, LeaveNext, End, Test
<1>4. Begins(ready, ready') /\ Range(ready') \subseteq Range(ready) \cup Range(msgq)
  <2>1. CASE Receiving
    <3>1. PICK H : H = InHand
      OBVIOUS
    <3>2. SimInv(H, AtDown) /\ Poll
      BY <2>1, <3>1 DEF IInv, Receiving
    <3>. QED  BY <3>2, PollKeeps
  <2>2. CASE ready' = ready
    BY <2>2 DEF Begins
  <2>3. Receiving \/ ready' = ready
    BY DEF Received, DispatchNobody, NewSecond, SameSecond, Dec, Down, FirstCheck,
           StillAlone, SecondCheck, LeaveNext, End, Test
  <2>. QED  BY <2>1, <2>2, <2>3
<1>5. \A p \in Range(ready') \ Range(ready) : ~halted'[p]
  BY <1>1, <1>4, OutOfHand
<1>6. CASE quantumStart' = quantumStart
  BY <1>1, <1>2, <1>4, <1>5, <1>6, WaitedInPlace DEF Since, TurnsLeft
<1>7. CASE ready = <<>> /\ ready' = <<>>
  BY <1>7 DEF Waited
<1>. QED  BY <1>3, <1>6, <1>7

\* Being taken out, started, stopped, put back and taken out again.
LEMMA SwitchWaited ==
  ASSUME IInv, IInv', InTime, Waited,
         Dispatch \/ Start \/ StopCurrent \/ Requeue \/ ResumeNext
  PROVE  Waited'
<1>. USE DEF generator, processes, loop, cpu, pcb, memory
<1>1. /\ clk \in Nat /\ quantumStart \in Nat /\ Quantum \in Nat /\ N \in Nat
      /\ lastClk \in [Id -> Nat] /\ halted \in [Id -> BOOLEAN]
  BY Times DEF IInv, TypeOK, SimTypeOK
<1>2. ready \in Queue /\ Range(ready) \subseteq Id /\ InHand \cap Range(ready) = {}
  BY InQueue, OutOfHand DEF IInv, TypeOK, SimTypeOK
<1>3. CASE Dispatch
  <2>1. /\ pc = "dispatch" /\ pc' = "start" /\ cpuFree /\ cpuFree' /\ ready # <<>>
        /\ ready' = Tail(ready) /\ UNCHANGED <<job, clk, halted, lastClk>>
    BY <1>3 DEF Dispatch, Goto
  <2>2. Since' = Since /\ \A i \in Nat : TurnsLeft(i)' = TurnsLeft(i + 1)
    BY <1>1, <2>1 DEF Since, TurnsLeft
  <2>. QED  BY <2>1, <2>2, WaitedMovesUp
<1>4. CASE Start
  <2>1. /\ pc = "start" /\ pc' = "tick" /\ ~cpuFree' /\ quantumStart' = clk /\ cpuFree
        /\ cur \in Id /\ StartOrResume(cur) /\ UNCHANGED <<job, clk, ready, lastClk>>
    BY <1>4 DEF Start, Goto, IInv, AtStart
  <2>2. cur \in InHand
    BY <2>1 DEF InHand
  <2>3. Since' = Since /\ \A i \in Nat : TurnsLeft(i)' = TurnsLeft(i)
    BY <1>1, <2>1 DEF Since, TurnsLeft
  <2>4. \A p \in Range(ready) : halted'[p] = halted[p]
    BY <1>1, <1>2, <2>1, <2>2 DEF StartOrResume
  <2>. QED  BY <2>1, <2>3, <2>4, WaitedInPlace DEF Begins
<1>5. CASE StopCurrent
  <2>1. /\ pc = "stop" /\ pc' = "receive3" /\ cpuFree' /\ ~cpuFree /\ Stop(cur)
        /\ UNCHANGED <<job, clk, ready>>
    BY <1>5 DEF StopCurrent, Goto, IInv, AtSwitch
  <2>2. cur \in InHand
    BY <2>1 DEF InHand, IInv, SimInv, CurrentCounts, SimTypeOK
  <2>3. job.prompt => clk <= Quantum + quantumStart
    BY <2>1 DEF InTime, QuantumHeld
  <2>4. /\ job.prompt => Since' <= Since + Quantum
        /\ \A i \in Nat : TurnsLeft(i)' = TurnsLeft(i) + 1
    BY <1>1, <2>1, <2>3 DEF Since, TurnsLeft
  <2>5. \A p \in Range(ready) : halted'[p] = halted[p] /\ lastClk'[p] = lastClk[p]
    BY <1>1, <1>2, <2>1, <2>2 DEF Stop
  <2>. QED  BY <2>1, <2>4, <2>5, WaitedInPlace DEF Begins
<1>6. CASE Requeue
  <2>1. /\ pc = "requeue" /\ pc' = "resume" /\ ready' = Enqueue(ready, cur)
        /\ UNCHANGED <<job, clk, cpuFree, cur, halted, lastClk, quantumStart>>
    BY <1>6 DEF Requeue, Goto
  <2>2. cpuFree /\ cur \in Id
    BY <2>1 DEF IInv, AtSwitch
  <2>3. cur \in InHand
    BY <2>1, <2>2 DEF InHand
  <2>4. cur \notin Range(ready)
    BY <1>2, <2>3
  <2>5. job.prompt => lastClk[cur] = clk
    BY <2>1 DEF InTime, QuantumHeld
  <2>6. Since' = Since /\ Since = clk /\ Quantum' = Quantum
        /\ \A i \in Nat : TurnsLeft(i)' = TurnsLeft(i) /\ TurnsLeft(i) = N - i
    BY <2>1, <2>2 DEF Since, TurnsLeft, Quantum
  <2>7. /\ Len(ready) \in Nat /\ Len(ready) < N /\ DOMAIN ready = 1 .. Len(ready)
        /\ DOMAIN ready' = 1 .. Len(ready) + 1
        /\ ready'[Len(ready) + 1] = cur /\ \A i \in 1 .. Len(ready) : ready'[i] = ready[i]
    <3>1. /\ ready \in Seq(Id) /\ Len(ready) \in Nat /\ DOMAIN ready = 1 .. Len(ready)
      BY <1>2, LenProperties DEF Queue
    <3>2. ready' = Append(ready, cur) /\ Len(ready) < N
      BY <1>2, <2>1, <2>2, <2>4, EnqueueQueue, RoomInQueue
    <3>. QED  BY <2>2, <3>1, <3>2, AppendProperties, LenProperties
  <2>8. SUFFICES ASSUME job.prompt, NEW i \in DOMAIN ready' PROVE WaitedAt(i)'
    BY <2>1 DEF Waited
  <2>9. CASE i \in DOMAIN ready
    BY <2>1, <2>6, <2>7, <2>8, <2>9 DEF Waited, WaitedAt
  <2>10. CASE i = Len(ready) + 1
    <3>1. N - i \in Int /\ N - i >= 0 /\ i \in Nat
      BY <1>1, <2>7, <2>10
    <3>2. (N - i) * Quantum >= 0
      BY <1>1, <3>1, OneMoreQuantum
    <3>3. clk - lastClk[cur] = 0
      BY <1>1, <2>5, <2>8
    <3>. QED  BY <2>1, <2>6, <2>7, <2>10, <3>1, <3>2, <3>3 DEF WaitedAt
  <2>. QED  BY <2>7, <2>8, <2>9, <2>10
<1>7. CASE ResumeNext
  <2>1. /\ pc = "resume" /\ pc' = "end" /\ ~cpuFree' /\ ready' = Tail(ready)
        /\ StartOrResume(Head(ready)) /\ UNCHANGED <<job, clk, lastClk, quantumStart>>
    BY <1>7 DEF ResumeNext, Goto
  <2>2. cpuFree /\ ready # <<>>
    BY <2>1 DEF IInv, AtSwitch
  <2>3. job.prompt => quantumStart = clk
    BY <2>1 DEF InTime, QuantumHeld, Switching
  <2>4. job.prompt => Since' = Since
    BY <2>1, <2>2, <2>3 DEF Since
  <2>5. \A i \in Nat : TurnsLeft(i)' = TurnsLeft(i + 1)
    BY <1>1, <2>1, <2>2 DEF TurnsLeft
  <2>6. Head(ready) \in Id
    BY <1>2, <2>2, TailQueue
  <2>7. \A p \in Range(ready) \ {Head(ready)} : halted'[p] = halted[p] /\ lastClk'[p] = lastClk[p]
    BY <1>1, <1>2, <2>1, <2>6 DEF StartOrResume
  <2>. QED  BY <2>1, <2>2, <2>4, <2>5, <2>7, WaitedMovesUp
<1>. QED  BY <1>3, <1>4, <1>5, <1>6, <1>7

\* With prompt processes a stopped process has the CPU again before all others have
\* had a quantum each: whoever arrives meanwhile goes behind it.
THEOREM TurnsComeBack == Spec => []TurnComesBack
<1>1. Init => Waited
  BY DEF Init, SimInit, Waited
<1>2. IInv /\ IInv' /\ InTime /\ Waited /\ [Next]_vars => Waited'
  <2>. SUFFICES ASSUME IInv, IInv', InTime, Waited, [Next]_vars PROVE Waited'
    OBVIOUS
  <2>1. CASE World \/ Handler
    BY <2>1, OthersWaited
  <2>2. CASE Loop
    BY <2>2, TestsWaited, SwitchWaited DEF Loop
  <2>3. CASE UNCHANGED vars
    BY <2>3 DEF vars, simVars, processes, loop, cpu, pcb, Waited, WaitedAt, Since, TurnsLeft, Quantum
  <2>. QED  BY <2>1, <2>2, <2>3 DEF Next
<1>3. IInv /\ InTime /\ Waited => TurnComesBack
  <2>. SUFFICES ASSUME IInv, InTime, Waited, job.prompt, Quiet,
                       NEW p \in Range(ready), halted[p]
                PROVE  clk - lastClk[p] < (N - 1) * Quantum
    BY DEF TurnComesBack
  <2>1. PICK i \in DOMAIN ready : p = ready[i]
    BY DEF Range
  <2>2. ready # <<>> /\ i \in Nat \ {0} /\ p \in Id
    BY <2>1, InQueue
  <2>3. pc # "done" /\ pc # "crashed"
    BY <2>2, NobodyLeft DEF InTime, IInv, NeverCrashes
  <2>4. /\ prevClk = clk /\ ~cpuFree /\ pc \in {"receive", "dispatch", "tick", "end"}
    BY <2>2, <2>3 DEF Quiet, Stopped
  <2>5. prevClk < Quantum + quantumStart
    BY <2>4 DEF InTime, QuantumHeld, Charging
  <2>6. quantumStart - lastClk[p] <= (N - 1 - i) * Quantum
    BY <2>1, <2>4 DEF Waited, WaitedAt, Since, TurnsLeft
  <2>7. /\ clk \in Nat /\ quantumStart \in Nat /\ Quantum \in Nat /\ N \in Nat
        /\ lastClk[p] \in Nat
    BY <2>2, Times
  <2>8. (N - 1 - i) * Quantum <= (N - 2) * Quantum
    BY <2>2, <2>7, FewerQuanta
  <2>9. (N - 1) * Quantum = (N - 2) * Quantum + Quantum
    <3>1. (N - 2) + 1 = N - 1 /\ N - 2 \in Int
      BY <2>7
    <3>. QED  BY <2>7, <3>1, OneMoreQuantum
  <2>10. PICK a, b, c \in Int : /\ a = (N - 1 - i) * Quantum
                                /\ b = (N - 2) * Quantum /\ c = (N - 1) * Quantum
    BY <2>2, <2>7
  <2>11. quantumStart - lastClk[p] <= a /\ a <= b /\ c = b + Quantum /\ clk < Quantum + quantumStart
    BY <2>4, <2>5, <2>6, <2>8, <2>9, <2>10
  <2>12. clk - lastClk[p] < c
    BY <2>7, <2>10, <2>11
  <2>. QED  BY <2>10, <2>12
<1>4. Init => InTime
  BY InTimeInit
<1>5. IInv /\ InTime /\ [Next]_vars => InTime'
  BY InTimeKept
<1>. QED  BY <1>1, <1>2, <1>3, <1>4, <1>5, Invariant, PTL DEF Spec
=============================================================================
