--------------------------------- MODULE HPF --------------------------------
(***************************************************************************)
(* The scheduling loop of phase 2 for highest priority first, without      *)
(* preemption.  No semaphore orders this loop and the end of a process, so *)
(* the SIGUSR1 handler may run at any of its steps; where the other loops  *)
(* receive a process in one step, this one takes a step for every list     *)
(* that allocate looks at, for every hole it removes or inserts, for the   *)
(* position that AddToWaitQ reads and for the insertion there.  The        *)
(* handler in the middle of one of the list functions of headers.h, while  *)
(* it follows or changes pointers, is left out.                            *)
(***************************************************************************)
EXTENDS Simulation, PriorityQueue

CONSTANT Unset    \* what a slot of the queue holds that was never written

ASSUME UnsetAssumption == Unset \notin Id

VARIABLES
  newcomer,   \* message_recieved: the process being received
  source,     \* i and j of allocate: the list looked at, split or taken from
  hole,       \* hole of allocate: the start of the one that is being split
  position,   \* pos of InsertList: the length waitQ had when AddToWaitQ read it
  beyond,     \* the slots of q1.pr behind the first q1.size, which are ready
  raced       \* history: the windows that a process or the handler has hit

search == <<source, hole, position>>
local == <<newcomer, search, beyond>>
vars == <<simVars, local, raced>>

\* The handler after a list was passed over that may get a hole now, or before a
\* newcomer that found no hole reads its place in waitQ: hit alone, these make the
\* newcomer wait and do no other harm.
DelayWindows == {"search", "join"}

\* The handler between what the loop has read and what it does on the strength of
\* it: taking the hole it found, walking to the end of waitQ, counting the slot it
\* wrote, using the process it saw running.
HandlerWindows == DelayWindows \cup {"carve", "walk", "grow", "charge"}

\* From the fork to the store of the remaining time.
ForkWindow == {"busy", "start", "publish"}

Init ==
  /\ SimInit
  /\ newcomer = None /\ source = 0 /\ hole = 0 /\ position = 0
  /\ beyond = [i \in 1 .. N |-> Unset]
  /\ raced = {}

Goto(from, to) == ~sig /\ pc = from /\ pc' = to

-----------------------------------------------------------------------------
(* Receiving.                                                              *)

ReceiveNobody ==
  /\ Goto("receive", "receive")
  /\ PollEmpty
  /\ UNCHANGED <<job, clk, generator, processes, sig, prevClk, cpu, lastClk, wait, local, raced>>

receiveNewProcess ==
  /\ Goto("receive", "allocate")
  /\ \E p \in Id : Receive(p) /\ newcomer' = p /\ source' = OrderFor(job.size[p])
  /\ UNCHANGED <<job, clk, generator, processes, sig, prevClk, cpu, ready, lastClk, wait, memory,
                 hole, position, beyond, raced>>

Wanted == OrderFor(job.size[newcomer])

\* All that allocate and enqueue leave alone.
OutsideMemory == UNCHANGED <<job, clk, generator, msgq, processes, sig, polls, prevClk, cpu, pcb>>

Searching(to) == Goto("allocate", to) \/ Goto("search", to)

\* allocate looks for the first list with a hole.
SkipList ==
  /\ Searching("search")
  /\ source <= MaxOrder /\ free[source] = <<>>
  /\ source' = source + 1
  /\ OutsideMemory /\ UNCHANGED <<ready, memory, newcomer, hole, position, beyond, raced>>

FindHole ==
  /\ Searching("carve")
  /\ source <= MaxOrder /\ free[source] # <<>>
  /\ OutsideMemory /\ UNCHANGED <<ready, memory, local, raced>>

FindNoHole ==
  /\ Searching("join")
  /\ source > MaxOrder
  /\ source' = 0
  /\ OutsideMemory /\ UNCHANGED <<ready, memory, newcomer, hole, position, beyond, raced>>

\* One split: the first hole of the list becomes two of the list below.
RemoveHole ==
  /\ Goto("carve", "lower")
  /\ source > Wanted /\ free[source] # <<>>
  /\ hole' = Head(free[source])
  /\ free' = [free EXCEPT ![source] = Tail(@)]
  /\ OutsideMemory
  /\ UNCHANGED <<ready, block, waitQ, newcomer, source, position, beyond, raced>>

InsertLower ==
  /\ Goto("lower", "upper")
  /\ free' = [free EXCEPT ![source - 1] = InsertPair(@, hole)]
  /\ OutsideMemory /\ UNCHANGED <<ready, block, waitQ, local, raced>>

InsertUpper ==
  /\ Goto("upper", "carve")
  /\ free' = [free EXCEPT ![source - 1] = InsertPair(@, hole + BlockSize[source - 1])]
  /\ source' = source - 1
  /\ hole' = 0
  /\ OutsideMemory /\ UNCHANGED <<ready, block, waitQ, newcomer, position, beyond, raced>>

TakeHole ==
  /\ Goto("carve", "store")
  /\ source = Wanted /\ free[source] # <<>>
  /\ block' = [block EXCEPT ![newcomer] = [start |-> Head(free[source]), order |-> source]]
  /\ free' = [free EXCEPT ![source] = Tail(@)]
  /\ source' = 0
  /\ OutsideMemory /\ UNCHANGED <<ready, waitQ, newcomer, hole, position, beyond, raced>>

\* DeleteList_pair on a list that the handler has emptied meanwhile.
TakeFromEmptyList ==
  /\ Goto("carve", "crashed")
  /\ free[source] = <<>>
  /\ OutsideMemory /\ UNCHANGED <<ready, memory, local, raced>>

\* AddToWaitQ reads the length of waitQ: the position at which InsertList is to put
\* the newcomer.
AddToWaitQ ==
  /\ Goto("join", "walk")
  /\ position' = Len(waitQ)
  /\ OutsideMemory /\ UNCHANGED <<ready, memory, newcomer, source, hole, beyond, raced>>

InsertList ==
  /\ Goto("walk", "receive")
  /\ position <= Len(waitQ)
  /\ waitQ' = InsertAt(waitQ, position + 1, newcomer)
  /\ newcomer' = None /\ position' = 0
  /\ OutsideMemory /\ UNCHANGED <<ready, free, block, source, hole, beyond, raced>>

\* InsertList on a list that the handler has shortened meanwhile: the walk to the
\* position follows a null pointer.
WalkPastEnd ==
  /\ Goto("walk", "crashed")
  /\ position > Len(waitQ)
  /\ OutsideMemory /\ UNCHANGED <<ready, memory, local, raced>>

\* enqueue: write the slot, then count it.  There is a slot for every process.
StoreSlot ==
  /\ Goto("store", "grow")
  /\ beyond # <<>>
  /\ beyond' = [beyond EXCEPT ![1] = newcomer]
  /\ OutsideMemory /\ UNCHANGED <<ready, memory, newcomer, search, raced>>

\* Slip: the slot counted is the one after the slot written.
GrowFromNextSlot ==
  /\ Goto("grow", "receive")
  /\ ready' = Append(ready, IF Len(beyond) > 1 THEN beyond[2] ELSE beyond[1])
  /\ beyond' = Tail(beyond)
  /\ newcomer' = None
  /\ OutsideMemory /\ UNCHANGED <<memory, search, raced>>

Grow ==
  /\ Goto("grow", "receive")
  /\ ready' = Append(ready, Head(beyond))
  /\ beyond' = Tail(beyond)
  /\ newcomer' = None
  /\ OutsideMemory /\ UNCHANGED <<memory, search, raced>>

Received ==
  /\ Goto("receive", "tick")
  /\ polls = N /\ polls' = 0
  /\ UNCHANGED <<job, clk, generator, msgq, processes, sig, prevClk, cpu, ready, pcb, memory,
                 local, raced>>

-----------------------------------------------------------------------------
(* A second of the current process.                                        *)

NewSecond ==
  /\ prevClk # clk /\ prevClk' = clk
  /\ IF cur # None THEN Goto("tick", "charge") ELSE Goto("tick", "dispatch")
  /\ UNCHANGED <<job, clk, generator, msgq, processes, sig, polls, cpu, ready, pcb, memory,
                 local, raced>>

SameSecond ==
  /\ Goto("tick", "dispatch")
  /\ prevClk = clk
  /\ UNCHANGED <<job, clk, generator, msgq, processes, sig, polls, prevClk, cpu, ready, pcb, memory,
                 local, raced>>

\* Whether *currentProc and its PCB are still there.
Present == cur \in table

Charge ==
  /\ Goto("charge", "dispatch")
  /\ Present
  /\ Decrement
  /\ UNCHANGED <<job, clk, generator, msgq, sem, child, halted, sig, polls, prevClk, cpu, ready,
                 table, lastClk, wait, memory, local, raced>>

\* The handler has been here since the test.
FollowNull ==
  /\ \/ Goto("charge", "crashed") \/ Goto("start", "crashed") \/ Goto("publish", "crashed")
  /\ ~Present
  /\ UNCHANGED <<job, clk, generator, msgq, processes, sig, polls, prevClk, cpu, ready, pcb, memory,
                 local, raced>>

-----------------------------------------------------------------------------
(* Dispatching.                                                            *)

\* Slip: the pointer is freed and not cleared.
DispatchNobodyFreed ==
  /\ Goto("dispatch", "end")
  /\ IF cpuFree THEN ready = <<>> /\ cur' = Freed ELSE UNCHANGED cur
  /\ UNCHANGED <<job, clk, generator, msgq, processes, sig, polls, prevClk, cpuFree, pCount,
                 ready, pcb, memory, local, raced>>

DispatchNobody ==
  /\ Goto("dispatch", "end")
  /\ IF cpuFree THEN ready = <<>> /\ cur' = None ELSE UNCHANGED cur
  /\ UNCHANGED <<job, clk, generator, msgq, processes, sig, polls, prevClk, cpuFree, pCount,
                 ready, pcb, memory, local, raced>>

\* The priorities in q1; what is in a slot that was never written may be anything.
Priorities ==
  {[p \in Id \cup {Unset} |-> IF p = Unset THEN u ELSE job.priority[p]] :
     u \in {-1, 1 + Max(Range(job.priority))}}
Arrivals == [p \in Id \cup {Unset} |-> IF p = Unset THEN 0 ELSE job.arrival[p]]

Dequeue(k) ==
  /\ ready' = WithoutSlot(ready, k)
  /\ beyond' = BeyondAfterShift(beyond, Unset)

\* dequeue and fork
Dispatch ==
  /\ Goto("dispatch", "busy")
  /\ cpuFree /\ ready # <<>>
  /\ \E prio \in Priorities :
       LET k == peek(ready, prio, Arrivals)
       IN  /\ ready[k] # Unset
           /\ cur' = ready[k]
           /\ child' = [child EXCEPT ![ready[k]] = "spin"]
           /\ Dequeue(k)
  /\ UNCHANGED <<job, clk, generator, msgq, shm, sem, halted, sig, polls, prevClk, cpuFree, pCount,
                 pcb, memory, newcomer, search, raced>>

\* A process that does not exist has no PCB.
DispatchUnset ==
  /\ Goto("dispatch", "crashed")
  /\ cpuFree
  /\ \E prio \in Priorities :
       LET k == peek(ready, prio, Arrivals) IN k # 0 /\ ready[k] = Unset
  /\ UNCHANGED <<job, clk, generator, msgq, processes, sig, polls, prevClk, cpu, ready, pcb, memory,
                 local, raced>>

\* Slip: the CPU stays free.
TakeCpuNot ==
  /\ Goto("busy", "start")
  /\ UNCHANGED <<job, clk, generator, msgq, processes, sig, polls, prevClk, cpu, ready, pcb,
                 memory, local, raced>>

\* cpuFree = false
TakeCpu ==
  /\ Goto("busy", "start")
  /\ cpuFree' = FALSE
  /\ UNCHANGED <<job, clk, generator, msgq, processes, sig, polls, prevClk, cur, pCount, ready, pcb,
                 memory, local, raced>>

\* StartCurrentProcess
Start ==
  /\ Goto("start", "publish")
  /\ Present
  /\ wait' = [wait EXCEPT ![cur] = clk - job.arrival[cur]]
  /\ UNCHANGED <<job, clk, generator, msgq, processes, sig, polls, prevClk, cpu, ready, table, rem,
                 lastClk, memory, local, raced>>

\* Slip: the integer is one less than the process has seconds, as the semaphore is
\* in the other loops.
PublishWithoutTheLast ==
  /\ Goto("publish", "end")
  /\ Present
  /\ shm' = rem[cur] - 1
  /\ UNCHANGED <<job, clk, generator, msgq, sem, child, halted, sig, polls, prevClk, cpu, ready,
                 pcb, memory, local, raced>>

\* *ps_shmaddr = ...
Publish ==
  /\ Goto("publish", "end")
  /\ Present
  /\ shm' = rem[cur]
  /\ UNCHANGED <<job, clk, generator, msgq, sem, child, halted, sig, polls, prevClk, cpu, ready,
                 pcb, memory, local, raced>>

End ==
  /\ IF pCount = N THEN Goto("end", "done") ELSE Goto("end", "receive")
  /\ UNCHANGED <<job, clk, generator, msgq, processes, sig, polls, prevClk, cpu, ready, pcb, memory,
                 local, raced>>

Loop ==
  \/ ReceiveNobody \/ receiveNewProcess \/ SkipList \/ FindHole \/ FindNoHole
  \/ RemoveHole \/ InsertLower \/ InsertUpper \/ TakeHole \/ TakeFromEmptyList
  \/ AddToWaitQ \/ InsertList \/ WalkPastEnd \/ StoreSlot \/ Grow \/ Received
  \/ NewSecond \/ SameSecond \/ Charge \/ FollowNull
  \/ DispatchNobody \/ Dispatch \/ DispatchUnset \/ TakeCpu \/ Start \/ Publish \/ End

-----------------------------------------------------------------------------
(* The handler and the other processes.                                    *)

\* The handler enqueues the processes that get memory into the slots beyond.
Handler ==
  /\ processTerminate
  /\ beyond' = SubSeq(beyond, 1 + Len(ready') - Len(ready), Len(beyond))
  /\ raced' = raced \cup ({pc} \cap HandlerWindows)
  /\ UNCHANGED <<newcomer, search>>

\* A new process that looks at the shared integer before it is stored sees what
\* the last one left.  In a prompt job fork, exec and attachment take longer.
Leave(p) ==
  /\ LeaveLoop(p)
  /\ job.prompt => pc \notin ForkWindow
  /\ raced' = raced \cup (IF pc \in ForkWindow THEN {"fork"} ELSE {})
  /\ UNCHANGED local

GoOn(p) == Leave(p) \/ ((Signal(p) \/ Up(p)) /\ UNCHANGED <<local, raced>>)

World ==
  \/ (Tick \/ Notice \/ Send) /\ UNCHANGED <<local, raced>>
  \/ \E p \in Id : GoOn(p)

Next == World \/ Handler \/ Loop

\* Every process keeps running.
Fairness ==
  /\ WF_vars(Tick /\ UNCHANGED <<local, raced>>)
  /\ WF_vars((Notice \/ Send) /\ UNCHANGED <<local, raced>>)
  /\ \A p \in Id : WF_vars(GoOn(p))
  /\ WF_vars(Handler) /\ WF_vars(Loop)

Spec == Init /\ [][Next]_vars /\ Fairness

-----------------------------------------------------------------------------
(* Properties.                                                             *)

TypeOK ==
  /\ job \in Jobs
  /\ shm \in Int /\ sem \in 0 .. N
  /\ pCount \in 0 .. N
  /\ cur \in Id \cup {None}
  /\ pc \in {"receive", "allocate", "lower", "upper", "store", "tick", "dispatch", "end",
              "done", "crashed"} \cup HandlerWindows \cup ForkWindow
  /\ newcomer \in Id \cup {None}
  /\ source \in 0 .. MaxOrder + 1 /\ hole \in Nat /\ position \in 0 .. N
  /\ ready \in Seq(Id \cup {Unset}) /\ beyond \in Seq(Id \cup {Unset})
  /\ Len(ready) + Len(beyond) = N
  /\ raced \subseteq HandlerWindows \cup {"fork"}

\* A process that was sent is in exactly one place: in the message queue, in the
\* hands of receive, waiting for memory, in q1, in *currentProc, or gone; only a
\* handler that fills the slot enqueue has written but not counted loses one.
OnePlace ==
  "grow" \notin raced =>
    \A p \in 1 .. sent :
      Places(p) + (IF cur = p THEN 1 ELSE 0) + (IF newcomer = p THEN 1 ELSE 0) = 1

\* The scheduler follows a null pointer, takes a hole from an empty list or walks
\* past the end of waitQ only after a window was hit in which the handler changes
\* what the loop goes on to use; a newcomer that was only delayed crashes nothing.
CrashesOnlyInWindows == pc = "crashed" => raced \ DelayWindows # {}

\* Between two turns of the receiving loop nobody waits for memory that is free,
\* unless the handler ran between the first list that a newcomer's search passed over
\* and its entry to waitQ: it then waits for the end of some other process, or forever.
NobodyWaitsForFreeMemory ==
  pc = "receive" /\ raced \cap (DelayWindows \cup {"walk"}) = {} =>
    \A k \in DOMAIN waitQ : ~Fits(free, job.size[waitQ[k]])

HasLeftReady(p) == child[p] # "none" \/ p \in Range(waitQ)

\* With prompt processes, whoever is started has the best priority of all that
\* arrived in an earlier second and have memory, and the earliest arrival among
\* the best: nobody is forgotten in the message queue or passed over in q1, and a
\* newcomer that was delayed is in waitQ.
HighestFirst ==
  [][job.prompt /\ pc = "dispatch" /\ pc' = "busy" /\ raced \subseteq DelayWindows =>
       \A p \in Id :
         job.arrival[p] < clk /\ p # cur' /\ ~HasLeftReady(p) =>
           \/ job.priority[cur'] < job.priority[p]
           \/ job.priority[cur'] = job.priority[p] /\ job.arrival[cur'] <= job.arrival[p]]_vars

\* With prompt processes, and no window hit but those that delay a newcomer, a process
\* that was started has the CPU for exactly its run time: it is not preempted, and no
\* second is charged twice, too early or not at all.
RunsWithoutPause ==
  job.prompt /\ sig /\ raced \subseteq DelayWindows =>
    cur \in Id /\ clk = job.arrival[cur] + wait[cur] + job.run[cur]

AbstractHPF == INSTANCE Lifecycle WITH
  Work <- {j.run : j \in Jobs},
  total <- job.run,
  stage <- [p \in Id |-> IF p = newcomer THEN "outside" ELSE Stage(p)],
  left <- [p \in Id |-> IF p = newcomer \/ rem[p] < 0 THEN 0 ELSE rem[p]]

\* As long as no window is hit but those that delay a newcomer every step is a step of
\* Lifecycle: one process has the CPU, it keeps it until it has nothing left, and it
\* finishes once.  A process that is late in noticing that it has nothing left is
\* charged for the delay.
LifecycleUnlessRaced ==
  [][raced' \subseteq DelayWindows => UNCHANGED AbstractHPF!vars \/ AbstractHPF!Next]_vars

\* With prompt processes the scheduler stops, unless a window is hit; a newcomer that
\* was delayed may wait forever.
EndsUnlessRaced == job.prompt => <>(Stopped \/ raced # {})
=============================================================================
