--------------------------- MODULE Session_proofs ---------------------------
(***************************************************************************)
(* Proofs about start-up and tear-down, for any number of simulated        *)
(* processes and of starts: whenever SIGINT comes, and whichever call of   *)
(* which process it overtakes, what a run leaves behind is blank.          *)
(***************************************************************************)
EXTENDS Session, FiniteSetTheorems, TLAPS

(***************************************************************************)
(* The inductive invariant.  The properties speak of the state in which    *)
(* everybody is gone; what makes them true is who knows and who has        *)
(* cleared which object at every moment before.                            *)
(***************************************************************************)

\* The objects that clearResources removes.
GeneratorKeys == {"MSGKEY", "PS_SHM_KEY", "SEM1_KEY"}

\* The handler has begun: no call of the generator follows but its own.
HandlerBegun == pc["generator"] \in Clearing \cup {"gone"}

\* What the generator has opened, and stored, when it is at a call.
GeneratorStores ==
  /\ pc["generator"] = "storeShm" => "PS_SHM_KEY" \in exists
  /\ pc["generator"] = "storeSem" => "SEM1_KEY" \in exists
  /\ pc["generator"] = "storeQueue" => "MSGKEY" \in exists
  /\ pc["generator"] \in {"getSem", "storeSem", "initClk", "getQueue", "storeQueue", "send"}
       => "PS_SHM_KEY" \in known
  /\ pc["generator"] \in {"initClk", "getQueue", "storeQueue", "send"} => "SEM1_KEY" \in known
  /\ pc["generator"] = "send" => "MSGKEY" \in known

\* Messages are sent by a generator that knows all its objects, and simulated
\* processes exist only once one has been received.
SentAfterStored ==
  /\ pc["generator"] \in {"ask", "forkScheduler", "getShm", "storeShm", "getSem", "storeSem",
                          "initClk", "getQueue", "storeQueue"} => sent = 0
  /\ pc["generator"] = "send" => sent < Cardinality(Proc)
  /\ sent > 0 => GeneratorKeys \subseteq known
  /\ \A p \in Proc : pc[p] # "none" => got > 0

\* The generator's objects are removed by the handler, in its order, if their ids
\* were known, and by nobody else.
RemovedFrom(key, places) ==
  /\ key \in cleared => pc["generator"] \in places
  /\ pc["generator"] \in places /\ key \in known => key \in cleared

GeneratorClears ==
  /\ RemovedFrom("MSGKEY", {"clearShm", "clearSem", "signal", "return", "gone"})
  /\ RemovedFrom("PS_SHM_KEY", {"clearSem", "signal", "return", "gone"})
  /\ RemovedFrom("SEM1_KEY", {"signal", "return", "gone"})

\* The clock's segment is known to a clock that ticks, and removed when it leaves.
ClockClears ==
  /\ pc["generator"] = "ask" => pc["clock"] = "none"
  /\ pc["clock"] = "store" => "SHKEY" \in exists
  /\ "SHKEY" \in known => pc["clock"] \in {"tick", "gone"}
  /\ pc["clock"] = "tick" => "SHKEY" \in known
  /\ "SHKEY" \in cleared => pc["clock"] = "gone"
  /\ pc["clock"] = "gone" /\ "SHKEY" \in known => "SHKEY" \in cleared

\* SIGINT goes to everybody who is there: once somebody has had it, or the handler
\* has begun, nobody is without it but the generator in its handler.
NobodyMissed ==
  (HandlerBegun \/ \E a \in Actor : sig[a] # "none") =>
    \A a \in Actor : Alive(a) /\ sig[a] = "none" => a = "generator" /\ pc[a] \in Clearing

\* An object with a content exists, is known to the process that has to remove it, and
\* has not been removed; one that is known exists until it is removed.
Contents ==
  /\ dirty \subseteq known
  /\ dirty \cap cleared = {}
  /\ known \subseteq exists \cup cleared

\* The generator is there from the start of a run to its end.
GeneratorThere == pc["generator"] # "none"

IInv ==
  /\ TypeOK
  /\ GeneratorThere /\ GeneratorStores /\ SentAfterStored /\ GeneratorClears
  /\ ClockClears /\ NobodyMissed /\ Contents

-----------------------------------------------------------------------------
(* Every step keeps the invariant.                                         *)

LEMMA ProcCounted == Cardinality(Proc) \in Nat \ {0}
BY ProcAssumption, FS_CardinalityType, FS_EmptySet

LEMMA InitInv == Init => IInv
<1>. SUFFICES ASSUME Init PROVE IInv
  OBVIOUS
<1>1. TypeOK
  BY ProcCounted, ProcAssumption, MaxRunsAssumption DEF Init, Start, Actor, Places, TypeOK
<1>2. NobodyMissed
  BY DEF Init, Start, Actor, Clearing, HandlerBegun, NobodyMissed
<1>. QED
  BY <1>1, <1>2, ProcCounted, ProcAssumption
  DEF Init, Start, Actor, Clearing, IInv, GeneratorThere, GeneratorStores, SentAfterStored,
      GeneratorClears, RemovedFrom, ClockClears, Contents

\* Who forks has not had SIGINT, so nobody has and the handler has not begun: what is
\* forked misses nothing.
LEMMA NobodySignalledYet ==
  ASSUME IInv, NEW a \in Actor, Alive(a), sig[a] = "none", pc[a] \notin Clearing
  PROVE  ~HandlerBegun /\ \A b \in Actor : sig[b] = "none"
BY DEF IInv, NobodyMissed

\* Once a message has been sent and nobody has had SIGINT, the objects that the
\* simulated processes use are there and their ids are known.
LEMMA ObjectsThere ==
  ASSUME IInv, sent > 0, ~HandlerBegun
  PROVE  GeneratorKeys \subseteq (known \cap exists) \ cleared
BY DEF IInv, SentAfterStored, GeneratorClears, RemovedFrom, Contents, HandlerBegun, Clearing,
       GeneratorKeys

LEMMA GeneratorStep == IInv /\ Generator => IInv'
<1>. SUFFICES ASSUME IInv, Generator PROVE IInv'
  OBVIOUS
<1>. USE ProcCounted, ProcAssumption
     DEF IInv, TypeOK, GeneratorThere, GeneratorStores, SentAfterStored, GeneratorClears,
         RemovedFrom, ClockClears, NobodyMissed, Contents, GeneratorKeys, HandlerBegun,
         Clearing, Alive, Actor, Keys, Places, objects, messages
<1>1. CASE ForkClock
  <2>1. \A b \in Actor : sig[b] = "none"
    BY <1>1, NobodySignalledYet DEF ForkClock, Fork
  <2>2. TypeOK'
    BY <1>1 DEF ForkClock, Fork
  <2>3. SentAfterStored'
    BY <1>1 DEF ForkClock, Fork
  <2>. QED  BY <1>1, <2>1, <2>2, <2>3 DEF ForkClock, Fork
<1>2. CASE ForkScheduler
  <2>1. \A b \in Actor : sig[b] = "none"
    BY <1>2, NobodySignalledYet DEF ForkScheduler, Fork
  <2>2. TypeOK'
    BY <1>2 DEF ForkScheduler, Fork
  <2>3. SentAfterStored'
    BY <1>2 DEF ForkScheduler, Fork
  <2>. QED  BY <1>2, <2>1, <2>2, <2>3 DEF ForkScheduler, Fork
<1>3. CASE GetAllResources
  <2>1. CASE Get("generator", "PS_SHM_KEY", "getShm", "storeShm")
    BY <2>1 DEF Get, Go
  <2>2. CASE StoreId("storeShm", "getSem", "PS_SHM_KEY")
    BY <2>2 DEF StoreId, Store, Go
  <2>3. CASE Get("generator", "SEM1_KEY", "getSem", "storeSem")
    BY <2>3 DEF Get, Go
  <2>4. CASE StoreId("storeSem", "initClk", "SEM1_KEY")
    BY <2>4 DEF StoreId, Store, Go
  <2>. QED  BY <1>3, <2>1, <2>2, <2>3, <2>4 DEF GetAllResources
<1>4. CASE GetQueue
  <2>1. CASE initClk("generator", "getQueue")
    BY <2>1 DEF initClk, Go
  <2>2. CASE Get("generator", "MSGKEY", "getQueue", "storeQueue")
    BY <2>2 DEF Get, Go
  <2>3. CASE StoreId("storeQueue", "send", "MSGKEY")
    BY <2>3 DEF StoreId, Store, Go
  <2>. QED  BY <1>4, <2>1, <2>2, <2>3 DEF GetQueue
<1>5. CASE Send
  BY <1>5 DEF Send, Go
<1>6. CASE Wait
  BY <1>6 DEF Wait, Go
<1>7. CASE destroyClk("generator", "destroy")
  BY <1>7 DEF destroyClk, Signalled
<1>8. CASE clearResources
  BY <1>8 DEF clearResources
<1>9. CASE ClearQueue
  BY <1>9 DEF ClearQueue, Handle, Remove
<1>10. CASE ClearShm
  BY <1>10 DEF ClearShm, Handle, Remove
<1>11. CASE ClearSem
  BY <1>11 DEF ClearSem, Handle, Remove
<1>12. CASE SignalGroup
  BY <1>12 DEF SignalGroup, Handle, Signalled
<1>13. CASE pc["generator"] = "return" /\ Die("generator")
  BY <1>13 DEF Die
<1>. QED
  BY <1>1, <1>2, <1>3, <1>4, <1>5, <1>6, <1>7, <1>8, <1>9, <1>10, <1>11, <1>12, <1>13
  DEF Generator

LEMMA ClockStep == IInv /\ Clock => IInv'
<1>. SUFFICES ASSUME IInv, Clock PROVE IInv'
  OBVIOUS
<1>. USE ProcCounted, ProcAssumption
     DEF IInv, TypeOK, GeneratorThere, GeneratorStores, SentAfterStored, GeneratorClears,
         RemovedFrom, ClockClears, NobodyMissed, Contents, GeneratorKeys, HandlerBegun,
         Clearing, Alive, Actor, Keys, Places, objects, messages
<1>1. CASE Arm
  BY <1>1 DEF Arm, Go
<1>2. CASE Get("clock", "SHKEY", "get", "store")
  BY <1>2 DEF Get, Go
<1>3. CASE StartClock
  BY <1>3 DEF StartClock, Store, Go
<1>4. CASE Tick
  BY <1>4 DEF Tick, Go
<1>5. CASE cleanup
  BY <1>5 DEF cleanup, Remove
<1>6. CASE pc["clock"] = "signal" /\ Die("clock")
  BY <1>6 DEF Die
<1>. QED  BY <1>1, <1>2, <1>3, <1>4, <1>5, <1>6 DEF Clock

LEMMA SchedulerStep == IInv /\ (Scheduler \/ Crash) => IInv'
<1>. SUFFICES ASSUME IInv, Scheduler \/ Crash PROVE IInv'
  OBVIOUS
<1>. USE ProcCounted, ProcAssumption
     DEF IInv, TypeOK, GeneratorThere, GeneratorStores, SentAfterStored, GeneratorClears,
         RemovedFrom, ClockClears, NobodyMissed, Contents, GeneratorKeys, HandlerBegun,
         Clearing, Alive, Actor, Keys, Places, objects, messages
<1>1. CASE GetAll
  <2>1. CASE initClk("scheduler", "initSharedMemory")
    BY <2>1 DEF initClk, Go
  <2>2. CASE Get("scheduler", "PS_SHM_KEY", "initSharedMemory", "initSemaphore")
    BY <2>2 DEF Get, Go
  <2>3. CASE Get("scheduler", "SEM1_KEY", "initSemaphore", "msgget")
    BY <2>3 DEF Get, Go
  <2>4. CASE Get("scheduler", "MSGKEY", "msgget", "loop")
    BY <2>4 DEF Get, Go
  <2>. QED  BY <1>1, <2>1, <2>2, <2>3, <2>4 DEF GetAll
<1>2. CASE Load
  BY <1>2 DEF Load, Go
<1>3. CASE Finish
  BY <1>3 DEF Finish, Go
<1>4. CASE destroyClk("scheduler", "destroy")
  BY <1>4 DEF destroyClk, Signalled
<1>5. CASE Die("scheduler")
  BY <1>5 DEF Die
<1>6. CASE Crash
  BY <1>6 DEF Crash
<1>7. ASSUME NEW p \in Proc, ForkProcess(p) PROVE IInv'
  <2>1. ~HandlerBegun /\ \A b \in Actor : sig[b] = "none"
    BY <1>7, NobodySignalledYet DEF ForkProcess, Fork
  <2>2. GeneratorKeys \subseteq (known \cap exists) \ cleared
    BY <1>7, <2>1, ObjectsThere DEF ForkProcess
  <2>3. /\ pc' = [pc EXCEPT !["scheduler"] = "loop", ![p] = "initClk"]
        /\ UNCHANGED <<runs, sig, stopped, exists, known, cleared, sent>>
        /\ pc["scheduler"] = "loop" /\ pc[p] = "none"
        /\ got < sent /\ got' = got + 1
        /\ dirty' \subseteq dirty \cup {"PS_SHM_KEY", "SEM1_KEY"}
    BY <1>7 DEF ForkProcess, Fork
  <2>4. p \in Actor /\ p \notin {"generator", "clock", "scheduler"}
    OBVIOUS
  <2>5. pc' \in [Actor -> Places]
    BY <2>3
  <2>6. pc'["generator"] = pc["generator"] /\ pc'["clock"] = pc["clock"]
    BY <2>3, <2>4
  <2>7. got' \in 0 .. sent' /\ got' > 0
    BY <2>3
  <2>8. dirty' \subseteq exists' /\ Contents'
    BY <2>2, <2>3
  <2>9. TypeOK'
    BY <2>3, <2>5, <2>7, <2>8
  <2>10. SentAfterStored' /\ NobodyMissed'
    BY <2>1, <2>3, <2>6, <2>7
  <2>11. GeneratorThere' /\ GeneratorStores'
    BY <2>3, <2>6
  <2>12. GeneratorClears' /\ ClockClears'
    BY <2>3, <2>6
  <2>. QED  BY ONLY <2>8, <2>9, <2>10, <2>11, <2>12 DEF IInv
<1>8. ASSUME NEW p \in Proc, Stop(p) PROVE IInv'
  BY <1>8 DEF Stop
<1>9. ASSUME NEW p \in Proc, Continue(p) PROVE IInv'
  BY <1>9 DEF Continue
<1>. QED
  BY <1>1, <1>2, <1>3, <1>4, <1>5, <1>6, <1>7, <1>8, <1>9 DEF Scheduler

LEMMA ProcessStep == ASSUME IInv, NEW p \in Proc, Process(p) PROVE IInv'
<1>. USE ProcCounted, ProcAssumption
     DEF IInv, TypeOK, GeneratorThere, GeneratorStores, SentAfterStored, GeneratorClears,
         RemovedFrom, ClockClears, NobodyMissed, Contents, GeneratorKeys, HandlerBegun,
         Clearing, Alive, Actor, Keys, Places, objects, messages
<1>1. CASE initClk(p, "getShm")
  BY <1>1 DEF initClk, Go
<1>2. CASE Get(p, "PS_SHM_KEY", "getShm", "getSem")
  BY <1>2 DEF Get, Go
<1>3. CASE Get(p, "SEM1_KEY", "getSem", "run")
  BY <1>3 DEF Get, Go
<1>4. CASE End(p)
  BY <1>4 DEF End, Go
<1>5. CASE Die(p)
  BY <1>5 DEF Die
<1>. QED  BY <1>1, <1>2, <1>3, <1>4, <1>5 DEF Process

\* When everybody is gone, all that was known has been removed and nothing has a
\* content: this is what the next start finds.
LEMMA NothingRemains == IInv /\ AllGone => known \subseteq cleared /\ dirty = {}
<1>. SUFFICES ASSUME IInv, AllGone PROVE known \subseteq cleared /\ dirty = {}
  OBVIOUS
<1>1. pc["generator"] = "gone" /\ pc["clock"] \in {"none", "gone"}
  BY DEF AllGone, Alive, Actor, IInv, GeneratorThere
<1>2. known \subseteq cleared
  BY <1>1 DEF IInv, TypeOK, Keys, GeneratorClears, RemovedFrom, ClockClears
<1>. QED  BY <1>2 DEF IInv, Contents

LEMMA UserStep == IInv /\ (Interrupt \/ StartAgain \/ UNCHANGED vars) => IInv'
<1>. SUFFICES ASSUME IInv, Interrupt \/ StartAgain \/ UNCHANGED vars PROVE IInv'
  OBVIOUS
<1>. USE ProcCounted, ProcAssumption
     DEF IInv, TypeOK, GeneratorThere, GeneratorStores, SentAfterStored, GeneratorClears,
         RemovedFrom, ClockClears, NobodyMissed, Contents, GeneratorKeys, HandlerBegun,
         Clearing, Alive, Actor, Keys, Places, objects, messages
<1>1. CASE Interrupt
  BY <1>1 DEF Interrupt
<1>2. CASE StartAgain
  BY <1>2, NothingRemains, MaxRunsAssumption DEF StartAgain, Start
<1>3. CASE UNCHANGED vars
  BY <1>3 DEF vars
<1>. QED  BY <1>1, <1>2, <1>3

LEMMA IInvCorrect == Spec => []IInv
<1>1. IInv /\ [Next]_vars => IInv'
  BY GeneratorStep, ClockStep, SchedulerStep, ProcessStep, UserStep DEF Next
<1>. QED  BY <1>1, InitInv, PTL DEF Spec

-----------------------------------------------------------------------------

\* Every field has its type, an object with a content exists, and nothing is received
\* that was not sent, for any number of processes and of starts.
THEOREM TypeCorrect == Spec => []TypeOK
<1>1. IInv => TypeOK
  BY DEF IInv
<1>. QED  BY <1>1, IInvCorrect, PTL

\* Wherever SIGINT comes and however often the program is started: when everybody has
\* left, no object has a content that the next run could take for its own.
THEOREM NoContentSurvives == Spec => []LeftoversAreBlank
<1>1. IInv => LeftoversAreBlank
  BY NothingRemains DEF LeftoversAreBlank
<1>. QED  BY <1>1, IInvCorrect, PTL

\* When everybody has left, whatever a process had stored the id of has been removed by
\* the process that had to.
THEOREM KnownIsRemoved == Spec => []KnownIsCleared
<1>1. IInv => KnownIsCleared
  BY NothingRemains DEF KnownIsCleared
<1>. QED  BY <1>1, IInvCorrect, PTL
=============================================================================
