------------------------------ MODULE Session ------------------------------
(***************************************************************************)
(* Start-up and tear-down of phase 2: who creates the four IPC objects,    *)
(* who learns their ids, and what SIGINT, from the terminal or from        *)
(* destroyClk, leaves behind.  What the loops do in between is in SRTN, RR *)
(* and HPF; here the scheduler receives and forks, stops and continues.    *)
(*                                                                         *)
(* A process that is sent SIGINT completes at most the call it is in; a    *)
(* fork is not completed, the kernel restarts it after the signal.         *)
(***************************************************************************)
EXTENDS Naturals, FiniteSets

CONSTANTS
  Proc,       \* the simulated processes
  MaxRuns     \* bound: how often the program is started

ASSUME ProcAssumption ==
  /\ IsFiniteSet(Proc) /\ Proc # {}
  /\ Proc \cap {"generator", "clock", "scheduler"} = {}
ASSUME MaxRunsAssumption == MaxRuns \in Nat \ {0}

VARIABLES
  runs,       \* how often the program has been started
  pc,         \* where each process is, "none" before its fork and "gone" at last
  sig,        \* SIGINT: "none", "sent", or "taken" when it takes no other step
  stopped,    \* the simulated processes stopped by SIGSTOP
  exists,     \* the keys of the IPC objects that exist
  dirty,      \* those with a content: messages, a second, a remaining time, a count
  known,      \* those whose id the process that has to remove them has stored
  cleared,    \* those that have been removed in this run
  sent, got   \* messages sent and received

objects == <<exists, dirty, known, cleared>>
messages == <<sent, got>>
vars == <<runs, pc, sig, stopped, objects, messages>>

Keys == {"SHKEY", "MSGKEY", "PS_SHM_KEY", "SEM1_KEY"}
Actor == {"generator", "clock", "scheduler"} \cup Proc

\* process_generator begins with signal(SIGINT, clearResources).
Start == [a \in Actor |-> IF a = "generator" THEN "ask" ELSE "none"]

Init ==
  /\ runs = 1
  /\ pc = Start
  /\ sig = [a \in Actor |-> "none"]
  /\ stopped = {}
  /\ exists = {} /\ dirty = {} /\ known = {} /\ cleared = {}
  /\ sent = 0 /\ got = 0

Alive(a) == pc[a] \notin {"none", "gone"}
AllGone == \A a \in Actor : ~Alive(a)

-----------------------------------------------------------------------------
(* Steps that several of the programs take.                                *)

Go(a, from, to) ==
  /\ pc[a] = from /\ sig[a] # "taken" /\ a \notin stopped
  /\ pc' = [pc EXCEPT ![a] = to]
  /\ sig' = [sig EXCEPT ![a] = IF @ = "sent" THEN "taken" ELSE @]
  /\ UNCHANGED <<runs, stopped>>

\* initClk polls until the clock's segment exists.
initClk(a, to) ==
  /\ Go(a, "initClk", to)
  /\ "SHKEY" \in exists
  /\ UNCHANGED <<objects, messages>>

\* shmget, semget and msgget with IPC_CREAT open what is there or create it.
Get(a, key, from, to) ==
  /\ Go(a, from, to)
  /\ exists' = exists \cup {key}
  /\ UNCHANGED <<dirty, known, cleared, messages>>

\* The id that the call returned is assigned.
Store(key) ==
  /\ known' = known \cup {key}
  /\ UNCHANGED <<exists, cleared, messages>>

Signalled(a) == [b \in Actor |-> IF b = a THEN "taken"
                                 ELSE IF Alive(b) /\ sig[b] = "none" THEN "sent" ELSE sig[b]]

\* destroyClk(true): SIGINT to the group, the caller included.
destroyClk(a, from) ==
  /\ pc[a] = from /\ sig[a] # "taken"
  /\ pc' = [pc EXCEPT ![a] = "leave"]
  /\ sig' = Signalled(a)
  /\ UNCHANGED <<runs, stopped, objects, messages>>

\* SIGINT where no handler is installed.  A stopped process takes it once it is
\* continued: by the kernel, when the group is left without the generator.
Die(a) ==
  /\ Alive(a) /\ sig[a] # "none"
  /\ a \in stopped => pc["generator"] = "gone"
  /\ pc' = [pc EXCEPT ![a] = "gone"]
  /\ UNCHANGED <<runs, sig, stopped, objects, messages>>

\* IPC_RMID, with an id that is 0 and names nothing as long as it is not known.
Remove(key) ==
  /\ exists' = exists \ ({key} \cap known)
  /\ dirty' = dirty \ ({key} \cap known)
  /\ cleared' = cleared \cup ({key} \cap known)
  /\ UNCHANGED <<known, messages>>

-----------------------------------------------------------------------------
(* process_generator.c                                                     *)

Fork(a, from, to, child, first) ==
  /\ pc[a] = from /\ sig[a] = "none"
  /\ pc' = [pc EXCEPT ![a] = to, ![child] = first]
  /\ UNCHANGED <<runs, sig, stopped>>

ForkClock ==
  /\ Fork("generator", "ask", "forkScheduler", "clock", "signal")
  /\ UNCHANGED <<objects, messages>>

ForkScheduler ==
  /\ Fork("generator", "forkScheduler", "getShm", "scheduler", "initClk")
  /\ UNCHANGED <<objects, messages>>

\* Slip: the ids stay in local variables.
StoreNot(from, to, key) ==
  /\ Go("generator", from, to)
  /\ UNCHANGED <<objects, messages>>

StoreId(from, to, key) ==
  /\ Go("generator", from, to)
  /\ Store(key) /\ UNCHANGED dirty

GetAllResources ==
  \/ Get("generator", "PS_SHM_KEY", "getShm", "storeShm")
  \/ StoreId("storeShm", "getSem", "PS_SHM_KEY")
  \/ Get("generator", "SEM1_KEY", "getSem", "storeSem")
  \/ StoreId("storeSem", "initClk", "SEM1_KEY")

GetQueue ==
  \/ initClk("generator", "getQueue")
  \/ Get("generator", "MSGKEY", "getQueue", "storeQueue")
  \/ StoreId("storeQueue", "send", "MSGKEY")

Send ==
  /\ Go("generator", "send", IF sent + 1 = Cardinality(Proc) THEN "wait" ELSE "send")
  /\ sent' = sent + 1
  /\ dirty' = dirty \cup {"MSGKEY"}
  /\ UNCHANGED <<exists, known, cleared, got>>

\* waitpid
Wait ==
  /\ Go("generator", "wait", "destroy")
  /\ pc["scheduler"] = "gone"
  /\ UNCHANGED <<objects, messages>>

\* The handler; SIGINT is blocked meanwhile.
Clearing == {"clearQueue", "clearShm", "clearSem", "signal", "return"}

Handle(from, to) ==
  /\ pc["generator"] = from
  /\ pc' = [pc EXCEPT !["generator"] = to]
  /\ UNCHANGED <<runs, stopped>>

clearResources ==
  /\ pc["generator"] \notin Clearing \cup {"gone"} /\ sig["generator"] # "none"
  /\ pc' = [pc EXCEPT !["generator"] = "clearQueue"]
  /\ sig' = [sig EXCEPT !["generator"] = "none"]
  /\ UNCHANGED <<runs, stopped, objects, messages>>

ClearQueue == Handle("clearQueue", "clearShm") /\ Remove("MSGKEY") /\ UNCHANGED sig
ClearShm == Handle("clearShm", "clearSem") /\ Remove("PS_SHM_KEY") /\ UNCHANGED sig

\* Slip: the semaphore is forgotten.
ClearSemNot == Handle("clearSem", "signal") /\ UNCHANGED <<sig, objects, messages>>

ClearSem == Handle("clearSem", "signal") /\ Remove("SEM1_KEY") /\ UNCHANGED sig

\* Slip: the handler stays installed, and the generator's own SIGINT runs it again.
SignalSelf ==
  /\ Handle("signal", "clearQueue")
  /\ sig' = [Signalled("generator") EXCEPT !["generator"] = "none"]
  /\ UNCHANGED <<objects, messages>>

\* signal(SIGINT, SIG_DFL) and destroyClk(true)
SignalGroup ==
  /\ Handle("signal", "return")
  /\ sig' = Signalled("generator")
  /\ UNCHANGED <<objects, messages>>

Generator ==
  \/ ForkClock \/ ForkScheduler \/ GetAllResources \/ GetQueue \/ Send \/ Wait
  \/ destroyClk("generator", "destroy")
  \/ clearResources \/ ClearQueue \/ ClearShm \/ ClearSem \/ SignalGroup
  \/ pc["generator"] = "return" /\ Die("generator")

-----------------------------------------------------------------------------
(* clk.c                                                                   *)

\* signal(SIGINT, cleanup)
Arm == Go("clock", "signal", "get") /\ UNCHANGED <<objects, messages>>

\* The id is stored and the second set to 0.
StartClock ==
  /\ Go("clock", "store", "tick")
  /\ Store("SHKEY")
  /\ dirty' = dirty \ {"SHKEY"}

Tick ==
  /\ Go("clock", "tick", "tick")
  /\ dirty' = dirty \cup {"SHKEY"}
  /\ UNCHANGED <<exists, known, cleared, messages>>

cleanup ==
  /\ pc["clock"] \in {"get", "store", "tick"} /\ sig["clock"] # "none"
  /\ pc' = [pc EXCEPT !["clock"] = "gone"]
  /\ Remove("SHKEY")
  /\ UNCHANGED <<runs, sig, stopped>>

Clock ==
  \/ Arm \/ Get("clock", "SHKEY", "get", "store") \/ StartClock \/ Tick \/ cleanup
  \/ pc["clock"] = "signal" /\ Die("clock")

-----------------------------------------------------------------------------
(* scheduler.c                                                             *)

GetAll ==
  \/ initClk("scheduler", "initSharedMemory")
  \/ Get("scheduler", "PS_SHM_KEY", "initSharedMemory", "initSemaphore")
  \/ Get("scheduler", "SEM1_KEY", "initSemaphore", "msgget")
  \/ Get("scheduler", "MSGKEY", "msgget", "loop")

\* Receive the next process and fork it; its remaining time is stored.
ForkProcess(p) ==
  /\ pc[p] = "none" /\ got < sent
  /\ Fork("scheduler", "loop", "loop", p, "initClk")
  /\ got' = got + 1
  /\ dirty' = (dirty \cup {"PS_SHM_KEY", "SEM1_KEY"}) \ (IF got' = sent THEN {"MSGKEY"} ELSE {})
  /\ UNCHANGED <<exists, known, cleared, sent>>

\* Slip: calls with the id of a removed object succeed.
LoadRemoved ==
  /\ Go("scheduler", "loop", "loop")
  /\ got > 0
  /\ dirty' = dirty \cup {"PS_SHM_KEY", "SEM1_KEY"}
  /\ UNCHANGED <<exists, known, cleared, messages>>

\* A remaining time and a count are stored; in objects that have been removed
\* nobody finds them.
Load ==
  /\ Go("scheduler", "loop", "loop")
  /\ got > 0
  /\ dirty' = dirty \cup ({"PS_SHM_KEY", "SEM1_KEY"} \ cleared)
  /\ UNCHANGED <<exists, known, cleared, messages>>

\* kill with SIGSTOP or SIGCONT
Stop(p) ==
  /\ Alive(p) /\ p \notin stopped
  /\ pc["scheduler"] = "loop" /\ sig["scheduler"] # "taken"
  /\ stopped' = stopped \cup {p}
  /\ sig' = [sig EXCEPT !["scheduler"] = IF @ = "sent" THEN "taken" ELSE @]
  /\ UNCHANGED <<runs, pc, objects, messages>>

Continue(p) ==
  /\ p \in stopped
  /\ pc["scheduler"] = "loop" /\ sig["scheduler"] # "taken"
  /\ stopped' = stopped \ {p}
  /\ sig' = [sig EXCEPT !["scheduler"] = IF @ = "sent" THEN "taken" ELSE @]
  /\ UNCHANGED <<runs, pc, objects, messages>>

\* pCount == numberOfProcesses
Finish ==
  /\ Go("scheduler", "loop", "destroy")
  /\ \A p \in Proc : pc[p] = "gone"
  /\ UNCHANGED <<objects, messages>>

\* What the run SRTNCrash shows.
Crash ==
  /\ pc["scheduler"] = "loop"
  /\ pc' = [pc EXCEPT !["scheduler"] = "gone"]
  /\ UNCHANGED <<runs, sig, stopped, objects, messages>>

Scheduler ==
  \/ GetAll \/ Load \/ Finish \/ destroyClk("scheduler", "destroy") \/ Die("scheduler")
  \/ \E p \in Proc : ForkProcess(p) \/ Stop(p) \/ Continue(p)

-----------------------------------------------------------------------------
(* process.c                                                               *)

\* signal the scheduler, raise the semaphore
End(p) ==
  /\ Go(p, "run", "gone")
  /\ dirty' = dirty \cup ({"SEM1_KEY"} \ cleared)
  /\ UNCHANGED <<exists, known, cleared, messages>>

Process(p) ==
  \/ initClk(p, "getShm")
  \/ Get(p, "PS_SHM_KEY", "getShm", "getSem")
  \/ Get(p, "SEM1_KEY", "getSem", "run")
  \/ End(p)
  \/ Die(p)

-----------------------------------------------------------------------------
(* The user.                                                               *)

\* SIGINT from the terminal, to the whole group.
Interrupt ==
  /\ Alive("generator")
  /\ sig' = [a \in Actor |-> IF Alive(a) /\ sig[a] = "none" THEN "sent" ELSE sig[a]]
  /\ UNCHANGED <<runs, pc, stopped, objects, messages>>

\* The program is started again; the IPC objects are as they were left.
StartAgain ==
  /\ AllGone /\ runs < MaxRuns
  /\ runs' = runs + 1
  /\ pc' = Start
  /\ sig' = [a \in Actor |-> "none"]
  /\ stopped' = {} /\ known' = {} /\ cleared' = {}
  /\ sent' = 0 /\ got' = 0
  /\ UNCHANGED <<exists, dirty>>

Next ==
  \/ Generator \/ Clock \/ Scheduler \/ (\E p \in Proc : Process(p))
  \/ Crash \/ Interrupt \/ StartAgain

\* Every process keeps running.
Fairness ==
  /\ WF_vars(Generator) /\ WF_vars(Clock) /\ WF_vars(Scheduler)
  /\ \A p \in Proc : WF_vars(Process(p))

Spec == Init /\ [][Next]_vars /\ Fairness

-----------------------------------------------------------------------------
(* Properties.                                                             *)

\* Between two calls: of process_generator, its handler, clk, scheduler and process.
Places ==
  {"none", "gone", "initClk", "destroy", "leave"} \cup
  {"ask", "forkScheduler", "getShm", "storeShm", "getSem", "storeSem", "getQueue", "storeQueue",
   "send", "wait"} \cup
  {"clearQueue", "clearShm", "clearSem", "signal", "return"} \cup
  {"get", "store", "tick"} \cup
  {"initSharedMemory", "initSemaphore", "msgget", "loop"} \cup
  {"run"}

(* Every variable has its type; only objects that exist have a content, and *)
(* nothing is received that was not sent.                                  *)
TypeOK ==
  /\ runs \in 1 .. MaxRuns
  /\ pc \in [Actor -> Places]
  /\ sig \in [Actor -> {"none", "sent", "taken"}]
  /\ stopped \subseteq Proc
  /\ exists \subseteq Keys /\ dirty \subseteq exists
  /\ known \subseteq Keys /\ cleared \subseteq known
  /\ sent \in 0 .. Cardinality(Proc) /\ got \in 0 .. sent

(* However a run ends, what it leaves has no content: no message, second,  *)
(* remaining time or count of an interrupted run reaches the next one.     *)
LeftoversAreBlank == AllGone => dirty = {}

(* However a run ends, a process that has stored the id of an object has   *)
(* removed the object: what is left was created by a call that SIGINT      *)
(* overtook, or its id was not stored yet.                                 *)
KnownIsCleared == AllGone => exists \cap known \subseteq cleared

(* An interrupted run, and one whose scheduler has ended or died, ends for *)
(* all: nobody waits for a clock, a scheduler or a signal that is not      *)
(* coming, not even a process that was stopped.                            *)
EverybodyLeaves ==
  (pc["scheduler"] = "gone" \/ \E a \in Actor : sig[a] # "none") ~> AllGone

(* What process_generator.c:139 promises of clearResources, "Clears all     *)
(* resources in case of interruption", for the message queue.              *)
QueueCleared == AllGone => "MSGKEY" \notin exists
=============================================================================
