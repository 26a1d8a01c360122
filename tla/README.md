# Verification of OS_Core

TLA+ models, TLC configurations and TLAPS proofs for the scheduler simulation in
`src/phase2` (C, processes, System V IPC, signals). `src/phase1` is its first version: the same
three loops without memory management.

## 1. The system

Five programs run side by side: the clock, the process generator, the scheduler and up to N
simulated processes, which the scheduler forks.

```
 process_generator --message queue--> scheduler --fork, SIGSTOP, SIGCONT--> process (one per id)
        |                                ^  |                                  |
        |                                |  +--- shared integer, semaphore --->|
        +------------- clock's shared memory        SIGUSR1, semaphore up <----+
```

| Component | State it keeps | Operations | What makes it correct |
|---|---|---|---|
| Clock (`clk.c`) | the second, in shared memory | add one each second | readers compare it by equality, so each second must be noticed |
| Process generator (`process_generator.c`) | index of the next process | send it when the clock equals its arrival time | every process is sent, once |
| Scheduling loops (`scheduler.c` 133-538) | ready queue (`q1` or `q2`), `currentProc`, `cpuFree`, `prevClk`, quantum start | receive, dispatch, charge a second, preempt | one process on the CPU; nobody lost; the algorithm's order; an end |
| SIGUSR1 handler (`scheduler.c` 574-602) | `pCount`, `processTable` | account for the end of `currentProc`, free its memory and PCB, admit waiting processes | it runs for the process that ended, and only when nothing the loop holds is in use |
| Process control (626-658, 685-696) | PCBs: remaining time, waiting time, last stop | start, stop, resume, decrement | remaining time, shared integer and semaphore agree |
| Memory manager (735-886) | seven free lists, `waitQ`, block of every process | allocate, deallocate with merging, first-fit scan | memory neither lost nor given out twice; nobody waits for memory that is free |
| Simulated process (`process.c`) | the value it last read | spin until the shared integer is 0, signal, raise the semaphore | it ends exactly when its PCB has nothing left |
| Semaphore functions (`headers.h` 379-442) | one semaphore | set, down, up, retried when interrupted | only the down of the last second waits |
| Priority queue (459-552), ring buffer (555-646) | array, sizes and indices | enqueue, dequeue, peek | the right element, none lost at wrap-around or capacity |
| Linked lists (159-360), vector (73-150) | nodes, in order of address for holes | sorted insertion, deletion, retrieval | order kept, positions right |
| Start-up and tear-down | four IPC objects and who knows their ids | create, attach, remove, SIGINT to the group | everybody leaves; nothing with a content is left for the next run |
| Statistics and logs | WTA and waiting time arrays | averages, three files | output only |

The hard parts are the interleavings: between the store of the remaining time and the end of the
process that reads it; between the signal and the loop; between a switch and the arrival of
messages; between a loop that compares seconds by equality and a clock that does not wait; between
a handler and the allocation, queueing or dispatch it suspends (HPF, where no semaphore keeps them
apart); between SIGINT and a start-up in which several programs create the same objects; and, in
the memory manager, the long sequences of arrivals and departures that shape the free lists.
`PROJECT.json` lists every hazard with its line.

## 2. Modules

| Module | Models | Correspondence |
|---|---|---|
| `BoundedFifo` | abstract | a sequence with a capacity: what the ring buffer promises |
| `CircularQueue` | ring buffer | `items`, `front`, `rear`, `size` are the fields; `element` and `result` the out-parameter and return value. Peek does not copy every field, and the model keeps one field that it does not copy |
| `Buddy` | free lists | operators: what `allocate`, `InsertList_pair`, `DeleteList_pair` and the merge loop compute. A hole of list m is its address; its length is `BlockSize[m]` |
| `Memory` | memory manager, step by step | `pc`, `hole`, `level`, `scan` are the local variables of `deallocate`; one action per iteration of the merge loop and of the scan of `waitQ`. Which process ends next is left open |
| `Lifecycle` | abstract | what every algorithm promises of a process: stages outside, memory, ready, running, finished, and the time it has left |
| `Simulation` | everything around a loop | clock, generator, processes, handler, and the functions of the scheduler that the loops call. Also the properties that do not depend on the algorithm |
| `SRTN` | case 2 of `main` | `pc` names the places between which another process can be noticed; `prio` is the priority field of the copies in `q1` and `*currentProc` |
| `RR` | case 3 of `main` | as `SRTN`, with `quantumStart` and `pTemp`; `q2` is a sequence, which is what `CircularQueue` implements |
| `PriorityQueue` | priority queue | operators: `peek`'s scan, the shift of `dequeue`. The array is `slots in use \o slots beyond` |
| `HPF` | case 1 of `main` | as `SRTN`, but with `allocate` and `enqueue` cut open: `newcomer` is the process being received, `source` and `hole` are the index `i` (or `j`) and the hole of `allocate`, `position` the place in `waitQ` that `AddToWaitQ` has read, `beyond` the slots of `q1` behind the last. `raced` is history: the windows that were hit |
| `Session` | start-up and tear-down | `pc` names the calls of each program that create, store or remove; `exists`, `dirty` are the kernel's objects, `known` the ids stored by who has to remove them, `sig` SIGINT |
| `MC...` | | constants for TLC |
| `..._proofs` | | theorems |

Names are those of the source where it has one. Comments that begin with "Slip" mark mutated forms of the
definition that follows: plausible mistakes, each of which makes TLC reject the property named
with it under "mutants" in `PROJECT.json`. They are not used by the specifications.

How the code is cut into steps (`Simulation`, `SRTN`, `RR`):

* The loop only steps when no SIGUSR1 is pending. A signal handled some instructions later is the
  same as one sent later, because the sender does nothing in between that the scheduler can see
  before its next system call, where pending signals are handled. The handler itself is one step:
  the loop is suspended, no other process is in its signal phase, and what the generator does
  meanwhile it could do before or after.
* Every access to something shared is in a step of its own or at the edge of one: a poll of the
  message queue, the load of shared integer and semaphore, the decrement and store, `down`, and
  every reading of the clock that is compared with an earlier one. In SRTN the use of
  `currentProc` after the store (line 290) is a separate step, because there the handler can run.
* Readings of the clock within one step (log lines, `lastClk` and quantum start in one switch) are one reading.
* `currentProc` is the id, `None` for null, `Freed` for a pointer that was freed and not cleared.
* In HPF the process that ends is not ordered with the loop, so the handler may run at any step,
  and the loop has a step for every function between two of which that can matter: each list that
  `allocate` looks at, each hole that it removes or inserts, the length of `waitQ` that `AddToWaitQ` reads and the
  insertion at that position, the slot and the size of `enqueue`, the test of `currentProc` and its use, fork, `cpuFree = false`, `StartCurrentProcess` and the
  store of the remaining time. The handler inside one of the list functions of `headers.h`, while it follows or changes
  the pointers of a list, is left out.
* `raced` names the windows: *search* (the handler between two lists that `allocate` looks at), *join* (between a
  failed search and the reading of the length of `waitQ`), *walk* (between that reading and the insertion), *carve* (between
  search and removal of a hole, or two removals), *grow* (between slot and size of `enqueue`), *charge* (between the test
  of `currentProc` and its use) and *fork* (a child sees the shared integer before it is stored). The first two
  (`DelayWindows`) can make a newcomer wait, and break nothing else. `raced` is only
  used in properties, and in no guard: each property names the windows that break it.
* In `Session` a process that is sent SIGINT takes at most one further step, the system call it is in. The handler
  of the generator has a step for each removal. A call that creates and the store of the id it returns are two steps. A fork
  and the exec after it are one, although the child has the generator's handler in between.
* SIGSTOP and SIGCONT take effect at once. Both are sent while the shared integer is positive, so a process that
  is stopped a little later does nothing else than spin.
* Polling is bounded as in the code: N polls of the queue, whether or not there is a message.

## 3. Runs

| Run | Instance | Asks |
|---|---|---|
| `CircularQueue` | 3 slots, 2 ids, 2 times, any initial array | indices in range, size right, refinement of `BoundedFifo` |
| `Memory` | 4 lists (8 smallest blocks), 6 processes with sizes 1, 3, 5, symmetric | `NoFittingWaiter`, `NoOvertaking`, `FreeListsSorted`, `BlocksAligned`, `MemoryConserved`, `PartitionKept` |
| `MemoryOverlap` | 3 lists, 6 processes of size 1 | finds two processes with the same memory |
| `MemoryStuck` | 3 lists, 6 processes with sizes 1 and 3 | finds a process waiting while all memory is free |
| `SRTN` | 3 processes, 2 blocks of memory, runs 1-3, clock to 7 | `OnePlace`, `SemTracksRemaining`, `NoEarlyFinish`, `ShortestRuns`, `TurnaroundIsWaitAndRun`, refinement of `Lifecycle`, `ComesToAnEnd` |
| `SRTNCrash` | same | finds the null pointer after the store of 0 |
| `SRTNTurnaround` | same | finds a process charged for a second it did not have |
| `RR` | 3 processes, quanta 1 and 2, runs 1-4, clock to 8 | as SRTN, and `QuantumKept`, `TurnComesBack`, `NeverCrashes` |
| `RRQuantum` | same | finds a quantum that is passed over |
| `HPF` | 4 processes, 4 blocks of memory, runs 1-2, clock to 6 | `OnePlace`, `CrashesOnlyInWindows`, `NobodyWaitsForFreeMemory`, `HighestFirst`, `RunsWithoutPause`, `LifecycleUnlessRaced`, `EndsUnlessRaced` |
| `Session` | 2 simulated processes, 2 runs | `LeftoversAreBlank`, `KnownIsCleared`, `EverybodyLeaves` |
| `SessionInterrupted` | same | finds a message queue that an interruption leaves |

Why the bounds are enough:

* Three slots make the ring buffer wrap, fill up, empty and reset in every phase of the wrap.
* Four lists and eight smallest blocks let a hole be split twice, lists hold four holes, merges
  cascade and go wrong at every level; sizes 1, 3 and 5 give blocks of 1, 4 and 8; six processes
  let several wait behind each other while others hold memory.
* Three processes give a ready queue of two, so that a choice is made, a stopped process waits
  behind another, and one waits for memory while another has just ended. With two blocks of
  memory there is contention but no wrong merge is possible: what wrong merges do is asked of
  `Memory` alone. Runs of one second end at their first charge; two to four are preempted.
* The workloads of a run, each with its quantum, are the set `Jobs`: `job` is chosen in `Init`. A *prompt* job assumes that everybody does
  its work within the second it is due in: the clock ticks only when the loop goes round without effect.
  That is the intended regime (a second against microseconds) and the one for which timing and liveness
  are claimed. One job per run is *late*: the clock may tick at any point, so that
  seconds are skipped, arrivals missed, and steps of different seconds overlap. The safety
  properties that do not mention `job.prompt` are claimed for it too.
* HPF needs a fourth process for the *grow* window to matter: one ends, one waits that fits only then, one keeps the
  memory fragmented and one arrives. Four blocks allow a split of two levels and a wrong merge. It has 24 prompt jobs: two of arrivals and of run times
  and of priorities, three of sizes. In its late job two
  processes arrive in one second and one in the next; the fourth does not arrive before the clock stops.
* Two simulated processes in `Session` let one be stopped while the other runs or attaches; two runs let
  the second find what the first left, and leave something itself.
* `MaxClk` stops the clock after the last second a prompt workload needs. The CPU is never idle in them once
  the first process has arrived.

`ComesToAnEnd` takes a crashed scheduler for a stopped one, as nothing of the system goes on after it: in SRTN a prompt run may end
in the crash that `SRTNCrash` shows; in RR it never does (`NeverCrashes`), so there the end is that of all processes. In HPF
a crash needs a hit (`CrashesOnlyInWindows`).

Deadlock is not checked where the system ends: `Memory` may run out of processes, the loops
terminate, the last run ends. That they do not stop earlier is `ComesToAnEnd`, `EndsUnlessRaced` and `EverybodyLeaves`.

Fairness (`Fairness` in `SRTN`, `RR`, `HPF` and `Session`): weak, for the clock, the generator, every simulated process and
the scheduler with its handler. They are operating-system processes which a fair kernel
runs; nothing is assumed about their order. A stopped process has no enabled step, and a scheduler that waits in
`down` has none either, so fairness hides no deadlock. `Session` assumes in addition that the generator's
arrivals come (that it can miss one is a hazard of its own), and nothing about the user or a crash.

## 4. What the runs show

* The free lists stay sorted, aligned and complete, first fit admits whoever fits, and a later process passes
  an earlier one only if it asks for less. The partition of the memory is kept by every step except a merge of
  two holes that are not buddies. The code makes such merges (`scheduler.c:825`, `842`), because
  adjacency is not tested, and then gives the same memory to two processes.
* Because `InsertList_pair` returns an index that is one too small, against its comment (`headers.h:238`), buddies are
  missed as well: a process can wait forever with all memory free (`MemoryStuck`).
* Round robin loses nobody, keeps quanta and turns while it is prompt, never follows a stale pointer, and ends. If it
  is late, a quantum can be passed over.
* SRTN runs the shortest, keeps the semaphore in step with the remaining time, and ends; but it can
  follow a null pointer when a process ends between lines 289 and 290, and it charges a process that arrives in an idle second for a
  second it has not had.

* HPF with prompt processes keeps priority order, runs every process without a pause for exactly its time, and ends,
  as long as no window is hit; a process that is late in noticing its end is charged for the delay. A hit can make the loop follow a null pointer
  (*charge*, *fork*), take a hole from an empty list (*carve*), walk past the end of `waitQ` (*walk*), count a slot that was never
  written (*grow*), or leave a newcomer waiting for free memory (*search*, *join*, *walk*). Between the steps of the model no other
  place loses a process or follows a stale pointer; inside the list functions nothing is claimed.
* However a run is ended, everybody leaves, and nothing with a content is left: interrupted start-ups do leave
  objects (`SessionInterrupted`), but blank ones, which the next run can use. This depends on the
  ids being stored before the first message is sent.

The findings in `PROJECT.json` quote the lines.

## 5. Proofs

Every theorem holds for every value of the constants that satisfies the assumptions named in the modules: at least one
slot in the ring buffer; block sizes that double; sizes that are numbers; finitely many processes; at least one process and one start; a
clock that stops at some second; workloads with one entry per process, in order of arrival, with run times above 0 and a quantum
above 0, prompt or not; `None`, `Freed` and `Unset` are no process. TLC evaluates all of them in the runs.

| Module | About | Theorems |
|---|---|---|
| `CircularQueue_proofs` | any capacity | `TypeCorrect`, `SizeCorrect`, `ImplementsFifo` |
| `Buddy_proofs` | the operators on free lists | lemmas |
| `Memory_proofs` | any number of lists, processes, any sizes | `TypeCorrect`, `WaitersDoNotFit`, `FirstFitIsFair`, `ListsStaySorted`, `BlocksStayAligned`, `NoMemoryIsLost`, `OnlyStrangersOverlap`, `LoopIsRelease` |
| `Session_proofs` | any number of processes and starts | `TypeCorrect`, `NoContentSurvives`, `KnownIsRemoved` |
| `Simulation_proofs` | what the three loops share | lemmas |
| `RR_proofs` | any number of processes, any workload | `TypeCorrect`, `HandlerIsSafe`, `NobodyIsLost`, `SemaphoreFollows`, `NobodyFinishesEarly`, `QuantumIsKept`, `TurnsComeBack`, `TurnaroundAddsUp`, `EndsASecondEarlyAtMost`, `SchedulerIsAnswered`, `EveryEndIsHandled`, `ImplementsLifecycle` |
| `SRTN_proofs` | same | `TypeCorrect`, `NobodyIsLost`, `SemaphoreFollows`, `NobodyFinishesEarly`, `LeastRemainingRuns`, `TurnaroundAddsUp`, `EndsASecondEarlyAtMost`, `SchedulerIsAnswered`, `EveryEndIsHandled`, `ImplementsLifecycle` |
| `HPF_proofs` | same | `TypeCorrect`, `NobodyIsLost`, `EveryEndIsHandled`, `CrashesNeedAWindow`, `WaitersDoNotFit`, `RunsToTheEnd`, `HighestGoesFirst`, `LifecycleKept` |

**Ring buffer.** `IInv` is type correctness, "the size field is the number of slots between front and rear" and "front and
rear are -1 together". Each is needed for the others: the wrap-around keeps the size right only if full and empty are told
apart by the indices. In the refinement, `Contents` is the queue, and every step of the ring is a step of `BoundedFifo`.

**Memory manager.** `WaitersDoNotFit` needs the strengthening `ScannedDoNotFit`: during the scan, whoever
is in front of `scan` does not fit. It is inductive because allocation only removes holes from the order of the request upwards
(`CarveShrinks`) and only deallocation adds any, after which the scan starts again. `FirstFitIsFair` is an action property
and follows from the same invariant. `ListsStaySorted` follows from how insertion, deletion and splitting keep an
ascending list ascending. `BlocksStayAligned` is inductive once types are known: a half of an aligned block is aligned
(`UpperHalfAligned`), and a merge takes the lower of two holes only if it lies at an even multiple of its length
(`PairAligned`). It holds although merges of strangers overlap: those start at the right multiple too.

`NoMemoryIsLost` adds up lists, blocks and the hole that the merge loop carries. Its invariant `ConservedInv` also says that whoever
is new or waits has no block and waits once (`OnceWaiting`): an allocation to somebody who has a block would drop that block. The
sums are the community modules' `SumFunction`, whose recursion chooses an element; that the sum does not depend on the choice
(`SumTakesOut`) and what one changed element changes (`SumUpdated`) come first, and `SplitSum` adds up the lists that a split
goes through. A merge has two holes of one list, and with blocks of the last list's size there is no room for two
(`BelowLastList`): the loop never runs past the last list, where the code would read past the vector. `OnlyStrangersOverlap` counts,
for one unit of memory, the holes and blocks that cover it, with the same lemmas: every step but a merge of strangers leaves that
number as it was (`StepCovers`). `LoopIsRelease` says that each pass of the loop leaves `Release` of what remains
unchanged, so the single step in which `Simulation` deallocates is what the loop of `Memory` comes to.

**Start-up and tear-down.** The properties speak of the state in which everybody is gone. The invariant says who knows and
who has cleared which object at every moment before: that an object is known before it has a content (`Contents`,
`SentAfterStored`), that whoever knows it is on the way to removing it (`GeneratorClears`, `ClockClears`), and that SIGINT
misses nobody (`NobodyMissed`). At the end all four objects are either cleared or unknown, and what is unknown is blank.

**What the loops share.** `SimInv(H, L)` says, for the set `H` of processes in `*currentProc` and the set `L` of places between a
decrement and the end of its `down`: queues hold nobody twice and everybody is in one of them, in `H` or gone (`Placed`);
`pCount` is the number of those whose end is not accounted for (`Counted`); only a process in `H` runs, it leaves its loop only
when nothing remains, and the shared integer and the semaphore are its own. The clock, the generator, the processes and the handler
keep it whatever the loop is (`EnvironmentKeeps`, `PollKeeps`, `HandlerKeeps`). The scan of `waitQ` and the choice of the priority
queue are folds. They are related to one step of the code's loop (`ScannedInSteps`, `PeekInSteps`) by considering the
shortest prefix of a sequence for which the fold does not exist or has not the property: this replaces an induction over data.

**Round robin and SRTN.** To `SimInv` are added what the loop has loaded when it starts a process (`AtStart`), that the
process peeked at is still the first when it is resumed (`AtSwitch`, round robin), that whoever is in `currentProc`
runs or is about to (`CurrentRuns`, SRTN), and that the priority of a queued copy is the remaining time in the PCB but between the
decrement and the copy (`PrioFollows`, SRTN), which is what `LeastRemainingRuns` needs. `SRTN` does reach the null pointer of
`SRTNCrash`; the theorems hold in that state as well, and `CurrentRuns` says that nobody is in `currentProc` then. Both loops implement `Lifecycle`:
`InitMaps` and one lemma for each kind of step (`PollArrives`, `HandlerFinishes`, `TakenOutIsDispatched`, `PutBackIsPreempted`,
`ChargedRuns`); every other step leaves all stages alone. `QuantumIsKept` and `TurnsComeBack` are
about prompt processes: `InTime` relates the clock, `prevClk` and `quantumStart` at each place of the loop, and `Waited`
bounds the time that the i-th of `q2` has been stopped for by the quanta that the processes in front of it have had.

**Turnaround.** `TurnaroundAddsUp` needs one account for each process in the table (`Account`): the seconds it was charged less those since
its arrival in which it did not wait. Between the charge of a second and the next tick of the clock this is 0, or 1 for a process that was dispatched in a second
still to be counted; between the tick and the charge it is one less. The account of a stopped process stands still at `lastClk`, because
the time until it is resumed is added to its waiting time. So that the accounts of the stopped ones agree with the clock, `Accounts(C)` also says
that no prompt clock ticks in the stretch `C` from the charge to the switch, nor while the CPU is free and a stopped process could have it. As for `SimInv`, each
kind of step has its lemma (`EnvironmentAccounts`, `ChargeAccounts`, `TakenAccounts`, `GivenAccounts`, ...) and each loop says which of its steps is which.

**The end of a process.** `Past` holds for late jobs too: whoever has left its loop is not stopped, nobody is sent before its arrival or stopped after now, and no waiting
time is negative. With `SimInv` it gives `SchedulerIsAnswered`, what `ComesToAnEnd` needs of every state: when
the scheduler waits in `down` and the semaphore is 0, some process that is not stopped is about to signal, about to raise the semaphore, or
finds 0 in the shared integer. With the accounts it gives `EndsASecondEarlyAtMost`: the early charge that `SRTNTurnaround`
shows is never more than one second, however often a process is preempted. `EveryEndIsHandled` is what makes a handler without an argument
correct: the signal that is pending is of the process in `currentProc`, and no other can be sent before it is handled, which would be lost.

**HPF.** The handler may run at any step, so there are three layers, one below the other:

* `Always` holds whatever windows are hit: types, and that the scheduler only knows of processes it received
  (`OnlyReceived`), that the array has room for the one being received (`Room`), that what the handler deallocates was
  allocated (`HasBlock`), that the list `allocate` has come to is none below the wanted one and the position read is never before the end of `waitQ` (`PlaceSought`),
  and that nobody waits who fits, and no newcomer fits a list that was passed over, unless *search*, *join* or *walk* was hit (`NoFit`).
* `Intact` holds until *grow* is hit: everybody is in one place, the handler runs for the process in `*currentProc`, and the slot
  behind the last is the newcomer's while `enqueue` has written and not counted it.
* `Safe` holds as long as no window but *search* and *join* is hit: the loop has not crashed, the hole it found and the place in
  `waitQ` it read are there, the process that it tests, forks or charges is there, and the shared integer is that process's.

`NobodyIsLost` follows from the second, `CrashesNeedAWindow` from the third, `WaitersDoNotFit` from the first. `PromptInv`, for
prompt workloads in which no newcomer was more than delayed, says that the time since the current process arrived is what it
waited, what it was charged and at most one pending second (`Timed`), and that every process is sent and received in the second of its arrival
(`OnTime`). `RunsToTheEnd` and `HighestGoesFirst` read it off. `LifecycleKept` maps every step to `Lifecycle` until a window is hit that does more than delay;
there a newcomer between the message queue and its own queue counts as outside.

`TypeCorrect` bounds `pCount` and `sem` in every state, also after *grow* has put a process into the array twice. Every fork takes a slot from
the queues, so there were no more forks than processes received that are not queued any more (`LeftQueues`). Those that have been counted, the signal that is
pending and those that have yet to signal are no more than that, and neither are the semaphore and those that have yet to raise it (`Ends`). A window may have one
process forked twice and another one never, but that does not change the sums. `EveryEndIsHandled` follows from `Intact`.

Of what the runs check, only these are model-checked alone: liveness (`ComesToAnEnd`, `EndsUnlessRaced`, `EverybodyLeaves`), which the prover
does not handle. The runs that expect a violation have no theorems. That `peek`'s scan chooses what the definition of the best says is
proved for queues of any length (`PeekFindsBest`).

## 6. Not modelled

* Phase 1: the first version of every part; without the memory manager its loops, queues, handler and start-up are those of phase 2.
* The vector: filled with the seven lists once, then read by index; it is the function `free`.
* Statistics and log files, the menu, parsing of `processes.txt`, the test generator: input and output. The workloads of the
  runs respect what the test generator writes, except run time 0 (a hazard).
* Buffers for printed numbers, and functions in the handler that may not be called in one (`malloc`, `printf`): hazards.
* Failing system calls: `fork` and `execl` are not tested by the code (a hazard), the creating calls end the program.
* SIGINT between a fork and its exec; a program started while the clock of the last one still removes its segment.

## 7. Plan

1. Done: `CircularQueue`, `Memory`, `Simulation`, `SRTN`, `RR`, `HPF`, `PriorityQueue`, `Session`, their abstractions, and the first theorems.
2. Done: the theorems of section 5.
3. Done: `TypeOK` of `HPF`, `TurnaroundIsWaitAndRun`, and what bounds the findings about ends and waits.
