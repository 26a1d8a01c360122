--------------------------------- MODULE RR ---------------------------------
(***************************************************************************)
(* The scheduling loop of phase 2 for round robin.  The ready queue is the *)
(* bounded FIFO that CircularQueue implements.  As in SRTN the loop steps  *)
(* only when no SIGUSR1 is pending, and every reading of the clock that is *)
(* compared with an earlier one is a step of its own.                      *)
(***************************************************************************)
EXTENDS Simulation

ASSUME QuantumAssumption == \A j \in Jobs : j.quantum > 0

VARIABLES quantumStart,   \* quantumStartTime
          pTemp           \* the process peeked at before the current one is stopped

vars == <<simVars, quantumStart, pTemp>>

Init == SimInit /\ quantumStart = 0 /\ pTemp = None

Goto(from, to) == ~sig /\ pc = from /\ pc' = to

Quantum == job.quantum

\* All that the tests of the loop leave alone.
Test == UNCHANGED <<job, clk, generator, msgq, processes, sig, polls, cpu, ready, pcb, memory,
                    pTemp>>

-----------------------------------------------------------------------------

Receiving ==
  /\ ~sig /\ pc \in {"receive", "receive2", "receive3"}
  /\ Poll
  /\ UNCHANGED <<quantumStart, pTemp>>

Received ==
  /\ polls = N /\ polls' = 0
  /\ \/ Goto("receive", "dispatch") \/ Goto("receive2", "alone") \/ Goto("receive3", "requeue")
  /\ UNCHANGED <<job, clk, generator, msgq, processes, sig, prevClk, cpu, ready, pcb, memory,
                 quantumStart, pTemp>>

\* With nobody to dequeue, currentProc is freed and keeps its value.
DispatchNobody ==
  /\ Goto("dispatch", "tick")
  /\ IF cpuFree THEN ready = <<>> /\ cur' = Freed ELSE UNCHANGED cur
  /\ UNCHANGED <<job, clk, generator, msgq, processes, sig, polls, prevClk, cpuFree, pCount,
                 ready, pcb, memory, quantumStart, pTemp>>

Dispatch ==
  /\ Goto("dispatch", "start")
  /\ cpuFree /\ ready # <<>>
  /\ cur' = Head(ready) /\ ready' = Tail(ready)
  /\ LoadRemaining(Head(ready))
  /\ UNCHANGED <<job, clk, generator, msgq, child, halted, sig, polls, prevClk, cpuFree, pCount,
                 pcb, memory, quantumStart, pTemp>>

Start ==
  /\ Goto("start", "tick")
  /\ StartOrResume(cur)
  /\ cpuFree' = FALSE
  /\ quantumStart' = clk
  /\ UNCHANGED <<job, clk, generator, msgq, shm, sem, sig, polls, prevClk, cur, pCount, ready,
                 table, rem, lastClk, memory, pTemp>>

NewSecond ==
  /\ prevClk # clk /\ prevClk' = clk
  /\ IF cpuFree THEN Goto("tick", "quantum1") ELSE Goto("tick", "dec")
  /\ Test /\ UNCHANGED quantumStart

SameSecond ==
  /\ prevClk = clk
  /\ Goto("tick", "end")
  /\ Test /\ UNCHANGED <<prevClk, quantumStart>>

Dec ==
  /\ Goto("dec", "down")
  /\ Decrement
  /\ UNCHANGED <<job, clk, generator, msgq, sem, child, halted, sig, polls, prevClk, cpu, ready,
                 table, lastClk, wait, memory, quantumStart, pTemp>>

\* Slip: the semaphore is counted down without waiting.
DownWithoutWaiting ==
  /\ Goto("down", "quantum1")
  /\ sem' = sem - 1
  /\ UNCHANGED <<job, clk, generator, msgq, shm, child, halted, sig, polls, prevClk, cpu, ready,
                 pcb, memory, quantumStart, pTemp>>

Down ==
  /\ Goto("down", "quantum1")
  /\ sem > 0 /\ sem' = sem - 1
  /\ UNCHANGED <<job, clk, generator, msgq, shm, child, halted, sig, polls, prevClk, cpu, ready,
                 pcb, memory, quantumStart, pTemp>>

QuantumPassed == ~cpuFree /\ clk = Quantum + quantumStart

\* A process alone at the end of its quantum: look for company.
FirstCheck ==
  /\ IF QuantumPassed /\ ready = <<>> THEN Goto("quantum1", "receive2")
                                      ELSE Goto("quantum1", "quantum2")
  /\ Test /\ UNCHANGED <<prevClk, quantumStart>>

\* Slip: the second test is an else of the first.
StillAloneElse ==
  /\ Goto("alone", "end")
  /\ quantumStart' = IF ready = <<>> THEN clk ELSE quantumStart
  /\ Test /\ UNCHANGED prevClk

StillAlone ==
  /\ Goto("alone", "quantum2")
  /\ quantumStart' = IF ready = <<>> THEN clk ELSE quantumStart
  /\ Test /\ UNCHANGED prevClk

SecondCheck ==
  /\ IF QuantumPassed /\ ready # <<>> THEN Goto("quantum2", "stop") ELSE Goto("quantum2", "end")
  /\ Test /\ UNCHANGED <<prevClk, quantumStart>>

\* Slip: the quantum of the next process is not begun.
StopInTheSameQuantum ==
  /\ Goto("stop", "receive3")
  /\ pTemp' = Head(ready)
  /\ Stop(cur)
  /\ cpuFree' = TRUE
  /\ UNCHANGED <<job, clk, generator, msgq, shm, sem, child, sig, polls, prevClk, cur, pCount,
                 ready, table, rem, wait, memory, quantumStart>>

StopCurrent ==
  /\ Goto("stop", "receive3")
  /\ quantumStart' = clk
  /\ pTemp' = Head(ready)
  /\ Stop(cur)
  /\ cpuFree' = TRUE
  /\ UNCHANGED <<job, clk, generator, msgq, shm, sem, child, sig, polls, prevClk, cur, pCount,
                 ready, table, rem, wait, memory>>

\* Slip: the stopped process is not put back.
RequeueNobody ==
  /\ Goto("requeue", "resume")
  /\ UNCHANGED <<job, clk, generator, msgq, processes, sig, polls, prevClk, cpu, ready, pcb,
                 memory, quantumStart, pTemp>>

Requeue ==
  /\ Goto("requeue", "resume")
  /\ ready' = Enqueue(ready, cur)
  /\ UNCHANGED <<job, clk, generator, msgq, processes, sig, polls, prevClk, cpu, pcb, memory,
                 quantumStart, pTemp>>

\* Slip: the process is dequeued and resumed, but the CPU is still taken to be free.
ResumeNextOnFreeCpu ==
  /\ Goto("resume", "end")
  /\ IsForked(pTemp)
  /\ LoadRemaining(pTemp)
  /\ cur' = Head(ready) /\ ready' = Tail(ready)
  /\ StartOrResume(Head(ready))
  /\ UNCHANGED <<job, clk, generator, msgq, sig, polls, prevClk, cpuFree, pCount, table, rem,
                 lastClk, memory, quantumStart, pTemp>>

\* A process that was stopped before is resumed at once ...
ResumeNext ==
  /\ Goto("resume", "end")
  /\ IsForked(pTemp)
  /\ LoadRemaining(pTemp)
  /\ cur' = Head(ready) /\ ready' = Tail(ready)
  /\ StartOrResume(Head(ready))
  /\ cpuFree' = FALSE
  /\ UNCHANGED <<job, clk, generator, msgq, sig, polls, prevClk, pCount, table, rem, lastClk,
                 memory, quantumStart, pTemp>>

\* ... a new one is left to the next turn of the loop.
LeaveNext ==
  /\ Goto("resume", "end")
  /\ ~IsForked(pTemp)
  /\ Test /\ UNCHANGED <<prevClk, quantumStart>>

End ==
  /\ IF pCount = N THEN Goto("end", "done") ELSE Goto("end", "receive")
  /\ Test /\ UNCHANGED <<prevClk, quantumStart>>

Loop ==
  \/ Receiving \/ Received \/ DispatchNobody \/ Dispatch \/ Start \/ NewSecond \/ SameSecond
  \/ Dec \/ Down \/ FirstCheck \/ StillAlone \/ SecondCheck \/ StopCurrent \/ Requeue
  \/ ResumeNext \/ LeaveNext \/ End

Handler == processTerminate /\ UNCHANGED <<quantumStart, pTemp>>
World == Environment /\ UNCHANGED <<quantumStart, pTemp>>

Next == World \/ Handler \/ Loop

\* Every process keeps running.
Fairness ==
  /\ WF_vars(Tick /\ UNCHANGED <<quantumStart, pTemp>>)
  /\ WF_vars((Notice \/ Send) /\ UNCHANGED <<quantumStart, pTemp>>)
  /\ \A p \in Id :
       WF_vars((LeaveLoop(p) \/ Signal(p) \/ Up(p)) /\ UNCHANGED <<quantumStart, pTemp>>)
  /\ WF_vars(Handler \/ Loop)

Spec == Init /\ [][Next]_vars /\ Fairness

-----------------------------------------------------------------------------
(* Properties.                                                             *)

TypeOK ==
  /\ SimTypeOK
  /\ pc \in {"receive", "dispatch", "start", "tick", "dec", "down", "quantum1", "receive2",
             "alone", "quantum2", "stop", "receive3", "requeue", "resume", "end", "done",
             "crashed"}
  /\ quantumStart \in 0 .. MaxClk
  /\ pTemp \in Id \cup {None}

\* *currentProc holds a process while it runs, and around a dispatch and a switch.
InHand == IF ~cpuFree \/ pc \in {"start", "receive3", "requeue"} THEN {cur} \cap Id ELSE {}

\* A process that was sent is in exactly one place: in the message queue, waiting
\* for memory, in q2, in *currentProc, or gone from the process table; a switch,
\* which peeks, receives, enqueues and only then dequeues, loses nobody.
OnePlace == \A p \in 1 .. sent : Places(p) + (IF p \in InHand THEN 1 ELSE 0) = 1

\* While the current process spins, the shared integer is what its PCB has left
\* and the semaphore is one less, except between a decrement and its down, also
\* after a switch has loaded both for a process that had run before.
SemTracksRemaining ==
  ~cpuFree /\ cur \in Id /\ child[cur] \in {"spin", "kill"} =>
    /\ shm = rem[cur]
    /\ sem = IF pc = "down" THEN rem[cur] ELSE rem[cur] - 1

\* The loop, unlike that of SRTN, never follows currentProc when the handler may
\* have freed it, and no signal arrives when there is no current process.
NeverCrashes == pc # "crashed"

\* The comment at the second test says that the current process is stopped if the
\* quantum passed and it is not the only one; the test is for equality, so a loop
\* that misses that one second does not stop it.
QuantumPassedStops ==
  pc = "end" /\ ~cpuFree /\ ready # <<>> => prevClk < Quantum + quantumStart

\* With prompt processes nobody keeps the CPU for a quantum while others are ready:
\* the equality of clock and end of quantum is not passed over, and a process that
\* arrives just then is not missed.
QuantumKept == job.prompt => QuantumPassedStops

\* With prompt processes a stopped process has the CPU again before all others
\* have had a quantum each.
TurnComesBack ==
  job.prompt /\ Quiet =>
    \A p \in Range(ready) : halted[p] => clk - lastClk[p] < (N - 1) * Quantum
=============================================================================
