----------------------------- MODULE HPF_proofs -----------------------------
(***************************************************************************)
(* Proofs about the loop for highest priority first, for any number of     *)
(* processes, any assignment of arrival times, run times, priorities and   *)
(* sizes, prompt or not, and any memory.  Its handler may run at any step, *)
(* so the invariant has two layers: what holds whatever windows are hit,   *)
(* and what holds as long as the handler has not filled the slot that      *)
(* enqueue has written and not counted.                                    *)
(***************************************************************************)
EXTENDS HPF, Simulation_proofs

Slot == Id \cup {Unset}
BlockType == [start : Nat, order : Order]

\* The places between the receipt of a process and its entry to a queue.
Receiving ==
  {"allocate", "search", "carve", "lower", "upper", "join", "walk", "store", "grow"}

Labels ==
  {"receive", "allocate", "lower", "upper", "store", "tick", "dispatch", "end", "done", "crashed"}
    \cup HandlerWindows \cup ForkWindow

-----------------------------------------------------------------------------
(* What holds whatever windows are hit.                                    *)

Typed ==
  /\ job \in Jobs
  /\ clk \in 0 .. MaxClk /\ prevClk \in -1 .. MaxClk
  /\ gen \in {"watch", "send"} /\ sent \in 0 .. N /\ (gen = "send" => sent < N)
  /\ msgq \in Queue /\ waitQ \in Seq(Id) /\ table \subseteq Id
  /\ shm \in Int /\ sem \in Nat
  /\ child \in [Id -> {"none", "spin", "kill", "up", "gone"}]
  /\ halted = [p \in Id |-> FALSE]
  /\ sig \in BOOLEAN /\ cpuFree \in BOOLEAN
  /\ pc \in Labels /\ polls \in 0 .. N /\ pCount \in Nat
  /\ cur \in Id \cup {None} /\ newcomer \in Id \cup {None}
  /\ rem \in [Id -> Int] /\ wait \in [Id -> Int]
  /\ source \in 0 .. MaxOrder + 1 /\ hole \in Nat /\ position \in 0 .. N
  /\ raced \subseteq HandlerWindows \cup {"fork"}

\* The queue's array and the memory.
MemoryTyped ==
  /\ ready \in Seq(Slot) /\ beyond \in Seq(Slot)
  /\ Len(ready) + Len(beyond) = N
  /\ free \in [Order -> Seq(Nat)]
  /\ DOMAIN block = Id

\* Everybody whose id is in the array or in *currentProc.
Listed == Range(ready) \cup Range(beyond) \cup {cur}

\* Those that were sent and are not in the message queue any more.
Accepted == {p \in Id : p <= sent /\ p \notin Range(msgq)}

\* The scheduler knows of a process, and forks it, once it has received it.
OnlyReceived ==
  /\ \A p \in Range(msgq) : p <= sent
  /\ \A p \in (Listed \cup {newcomer} \cup Range(waitQ) \cup table) \cap Id : p \in Accepted
  /\ \A p \in Id : child[p] # "none" => p \in Accepted

\* The entries of the queues, and the one that is being received.
Queued == Len(ready) + Len(waitQ) + (IF newcomer \in Id THEN 1 ELSE 0)

\* No process can be in the way of the one that is being received.
Room == Queued <= Cardinality(Accepted)

\* What the handler deallocates was allocated.
HasBlock ==
  /\ \A p \in Listed \cap table : block[p] \in BlockType
  /\ pc \in {"store", "grow"} => block[newcomer] \in BlockType

\* The newcomer is given a hole of a list that is large enough, and a place in waitQ
\* that is not before its end: the handler only takes processes out.
PlaceSought ==
  /\ pc = "allocate" => source = Wanted
  /\ pc = "search" => Wanted <= source
  /\ pc = "carve" => source \in Order /\ Wanted <= source
  /\ pc \in {"lower", "upper"} => source \in Order /\ Wanted < source
  /\ pc = "walk" => Len(waitQ) <= position

\* message_recieved and *currentProc.
Hands ==
  /\ pc \in Receiving => newcomer \in Id
  /\ newcomer \in Id => pc \in Receiving \cup {"crashed"} /\ newcomer \in table
                        /\ child[newcomer] = "none"
  /\ PlaceSought
  /\ cur \in Id => child[cur] # "none" /\ (~cpuFree \/ pc \in {"busy", "crashed"})
  /\ \A p \in table : p # cur => child[p] = "none"

\* Whoever waits for memory does not fit, but for one that the handler has passed: the
\* lists behind the search are empty, and no hole that is made from one that is split
\* is large enough for those that wait.
NoFit ==
  raced \cap (DelayWindows \cup {"walk"}) = {} =>
    /\ \A k \in DOMAIN waitQ : ~Fits(free, job.size[waitQ[k]])
    /\ pc \in {"allocate", "search"} =>
         \A i \in Order : Wanted <= i /\ i < source => free[i] = <<>>
    /\ pc \in {"carve", "lower", "upper"} =>
         \A k \in DOMAIN waitQ : source < OrderFor(job.size[waitQ[k]])
    /\ pc \in {"join", "walk"} => ~Fits(free, job.size[newcomer])

Always ==
  /\ Typed /\ MemoryTyped
  /\ OnlyReceived /\ Room /\ HasBlock /\ Hands /\ NoFit

-----------------------------------------------------------------------------
(* What holds until the handler fills the slot that enqueue has written.   *)

InHands == {cur, newcomer} \cap Id

\* Every process is in one place and only the one in *currentProc runs; whoever is
\* not there any more has signalled, and the handler has run for it.
Intact ==
  /\ Placed(InHands) /\ Counted
  /\ \A p \in Id \ table : child[p] \in {"none", "up", "gone"}
  /\ sig <=> cur \in Id /\ child[cur] \in {"up", "gone"}
  /\ pc = "grow" => Head(beyond) = newcomer
  /\ pc = "done" => table = {}
  /\ \A p \in Id : p \notin table /\ child[p] = "none" => rem[p] = 0

\* While no window is hit but those that delay a newcomer, the loop never uses a
\* process, a hole or a place in waitQ that is gone, and the shared integer is that of
\* the current process.
Safe ==
  /\ pc # "crashed"
  /\ pc = "carve" => free[source] # <<>>
  /\ pc = "walk" => position <= Len(waitQ)
  /\ pc \in ForkWindow => cur \in Id /\ child[cur] = "spin" /\ rem[cur] = job.run[cur]
  /\ pc = "charge" => cur \in Id
  /\ cur \in Id /\ pc \notin ForkWindow => shm = rem[cur]
  /\ \A p \in table : p # cur => rem[p] = job.run[p]
  /\ cur \in Id /\ child[cur] # "spin" => rem[cur] <= 0

IInv ==
  /\ Always
  /\ "grow" \notin raced => Intact
  /\ raced \subseteq DelayWindows => Safe

-----------------------------------------------------------------------------
(* Time, when everybody is prompt and the windows do no more than delay.   *)

\* The second that the current process has had and is not charged for yet.
Pending == IF pc = "charge" \/ prevClk # clk THEN 1 ELSE 0

\* The time since the current process arrived is what it waited, what it was charged
\* and what is pending.
Timed ==
  /\ pc \in ForkWindow \cup {"charge"} => prevClk = clk
  /\ pc = "dispatch" /\ cpuFree /\ ready # <<>> => prevClk = clk
  /\ pc = "publish" => clk = job.arrival[cur] + wait[cur]
  /\ cur \in Id /\ pc \notin ForkWindow =>
       /\ clk = job.arrival[cur] + wait[cur] + job.run[cur] - rem[cur] + Pending
       /\ rem[cur] >= Pending

\* Every process is sent in its second, and received in it.
OnTime ==
  /\ sent < N => job.arrival[sent + 1] >= clk
  /\ gen = "send" => job.arrival[sent + 1] = clk
  /\ \A p \in Range(msgq) \cup ({newcomer} \cap Id) : job.arrival[p] = clk

PromptInv == job.prompt /\ raced \subseteq DelayWindows => Timed /\ OnTime

-----------------------------------------------------------------------------
(* The handler's scan of waitQ, on the queue's array.                      *)

\* What the scan has come to after k places, from the blocks blk.
ScanTyped(blk, acc, k) ==
  /\ DOMAIN acc = {"free", "block", "waitQ", "ready"}
  /\ acc.free \in [Order -> Seq(Nat)] /\ DOMAIN acc.block = Id
  /\ acc.waitQ \in Seq(Id) /\ acc.ready \in Seq(Slot)
  /\ Len(ready) <= Len(acc.ready) /\ Len(acc.ready) <= N
  /\ Len(acc.waitQ) + Len(acc.ready) <= k + Len(ready)
  /\ Range(acc.waitQ) \cup Range(acc.ready) \subseteq Range(waitQ) \cup Range(ready)
  /\ Range(acc.waitQ) \subseteq Range(waitQ)
  /\ \A p \in Id : acc.block[p] = blk[p] \/ acc.block[p] \in BlockType
  /\ \A p \in Range(acc.ready) : p \in Range(ready) \/ acc.block[p] \in BlockType
  /\ \A p \in Range(acc.waitQ) : ~Fits(acc.free, job.size[p])

\* One place of the scan.
LEMMA AdmitTyped ==
  ASSUME job \in Jobs, waitQ \in Seq(Id), NEW blk, NEW k \in Nat, NEW acc, NEW p \in Range(waitQ),
         p \in Id, Len(ready) \in Nat, ScanTyped(blk, acc, k)
  PROVE  ScanTyped(blk, Admit(acc, p), k + 1)
<1>. DEFINE r == Admit(acc, p)
<1>1. job.size \in [Id -> Nat] /\ job.size[p] \in Nat
  BY JobsAssumption
<1>2. /\ acc.free \in [Order -> Seq(Nat)] /\ DOMAIN acc.block = Id
      /\ acc.waitQ \in Seq(Id) /\ acc.ready \in Seq(Slot)
      /\ \A q \in Range(acc.ready) : q \in Range(waitQ) \cup Range(ready)
      /\ \A q \in Range(acc.waitQ) : q \in Range(waitQ)
  BY DEF ScanTyped
<1>7. /\ Len(ready) <= Len(acc.ready) /\ Len(acc.ready) <= N
      /\ Len(acc.waitQ) + Len(acc.ready) <= k + Len(ready)
  BY DEF ScanTyped
<1>8. Len(acc.ready) \in Nat /\ Len(acc.waitQ) \in Nat
  BY <1>2, LenProperties
<1>3. /\ \A q \in Id : acc.block[q] = blk[q] \/ acc.block[q] \in BlockType
      /\ \A q \in Range(acc.ready) : q \in Range(ready) \/ acc.block[q] \in BlockType
      /\ \A q \in Range(acc.waitQ) : ~Fits(acc.free, job.size[q])
  BY DEF ScanTyped
<1>4. \A q \in Range(waitQ) : q \in Id
  BY ElementOfSeq, LenProperties DEF Range
<1>5. CASE Fits(acc.free, job.size[p])
  <2>1. /\ DOMAIN r = {"free", "block", "waitQ", "ready"}
        /\ r.free = Carve(acc.free, OrderFor(job.size[p]))
        /\ r.block = [acc.block EXCEPT ![p] = BlockFor(acc.free, p)]
        /\ r.waitQ = acc.waitQ /\ r.ready = Enqueue(acc.ready, p)
    BY <1>5 DEF Admit
  <2>. HIDE DEF r
  <2>2. r.free \in [Order -> Seq(Nat)] /\ BlockFor(acc.free, p) \in BlockType
    <3>1. OrderFor(job.size[p]) \in Order
      BY <1>1, <1>5, SourceListFirst
    <3>2. /\ HoleTaken(acc.free, OrderFor(job.size[p])) \in Nat
          /\ Carve(acc.free, OrderFor(job.size[p])) \in [Order -> Seq(Nat)]
      BY <1>1, <1>2, <1>5, CarveType
    <3>. QED  BY <2>1, <3>1, <3>2 DEF BlockFor, BlockType
  <2>3. /\ r.ready \in Seq(Slot) /\ Len(acc.ready) <= Len(r.ready) /\ Len(r.ready) <= N
        /\ Len(r.ready) <= Len(acc.ready) + 1
        /\ \A q \in Range(r.ready) : q \in Range(acc.ready) \/ q = p
    <3>1. CASE Len(acc.ready) < N
      <4>1. r.ready = Append(acc.ready, p) /\ p \in Slot
        BY <2>1, <3>1 DEF Enqueue, Slot
      <4>. QED  BY <1>2, <1>7, <1>8, <3>1, <4>1, AppendRange, NAssumption
    <3>2. CASE ~(Len(acc.ready) < N)
      BY <1>2, <1>7, <1>8, <2>1, <3>2 DEF Enqueue
    <3>. QED  BY <3>1, <3>2
  <2>4. Len(r.ready) \in Nat
    BY <2>3, LenProperties
  <2>5. \A q \in Range(acc.waitQ) : ~Fits(r.free, job.size[q])
    <3>. SUFFICES ASSUME NEW q \in Range(acc.waitQ) PROVE ~Fits(r.free, job.size[q])
      OBVIOUS
    <3>1. job.size[q] \in Nat /\ ~Fits(acc.free, job.size[q])
      BY <1>1, <1>2, <1>3, <1>4
    <3>. QED  BY <1>1, <1>5, <2>1, <3>1, CarveShrinks
  <2>6. DOMAIN r.block = Id /\ \A q \in Id : q # p => r.block[q] = acc.block[q]
    BY <1>2, <2>1
  <2>7. r.block[p] \in BlockType
    BY <1>2, <2>1, <2>2
  <2>8. \A q \in Range(r.ready) : q \in Range(waitQ) \cup Range(ready)
    BY <1>2, <2>3
  <2>9. \A q \in Range(r.ready) : q \in Range(ready) \/ r.block[q] \in BlockType
    BY <1>3, <1>4, <2>3, <2>6, <2>7, <2>8
  <2>10. Len(r.waitQ) + Len(r.ready) <= (k + 1) + Len(ready) /\ Len(ready) <= Len(r.ready)
    <3>1. PICK a, b, c, d \in Nat : /\ a = Len(acc.waitQ) /\ b = Len(acc.ready)
                                    /\ c = Len(ready) /\ d = Len(r.ready)
      BY <1>8, <2>4
    <3>2. a + b <= k + c /\ c <= b /\ b <= d /\ d <= b + 1
      BY <1>7, <2>3, <3>1
    <3>3. Len(r.waitQ) = a
      BY <2>1, <3>1
    <3>4. a + d <= (k + 1) + c /\ c <= d
      BY <3>2
    <3>. QED  BY <3>1, <3>3, <3>4
  <2>11. \A q \in Id : r.block[q] = blk[q] \/ r.block[q] \in BlockType
    BY <1>3, <2>6, <2>7
  <2>. QED
    BY <1>2, <2>1, <2>2, <2>3, <2>5, <2>6, <2>8, <2>9, <2>10, <2>11 DEF ScanTyped, r
<1>6. CASE ~Fits(acc.free, job.size[p])
  <2>1. /\ DOMAIN r = {"free", "block", "waitQ", "ready"}
        /\ r.free = acc.free /\ r.block = acc.block
        /\ r.waitQ = Append(acc.waitQ, p) /\ r.ready = acc.ready
    BY <1>6 DEF Admit, ScanTyped
  <2>. HIDE DEF r
  <2>2. /\ r.waitQ \in Seq(Id) /\ Len(r.waitQ) = Len(acc.waitQ) + 1
        /\ \A q \in Range(r.waitQ) : q \in Range(acc.waitQ) \/ q = p
    BY <1>2, <2>1, AppendRange
  <2>3. Len(r.waitQ) + Len(r.ready) <= (k + 1) + Len(ready)
    <3>1. Len(r.ready) = Len(acc.ready) /\ Len(r.waitQ) = Len(acc.waitQ) + 1
      BY <2>1, <2>2
    <3>2. Len(ready) \in Nat /\ k \in Nat
      OBVIOUS
    <3>3. PICK a, b, c \in Nat : a = Len(acc.waitQ) /\ b = Len(acc.ready) /\ c = Len(ready)
      BY <1>8, <3>2
    <3>4. a + b <= k + c
      BY <1>7, <3>3
    <3>5. Len(r.waitQ) + Len(r.ready) = (a + 1) + b
      BY <3>1, <3>3
    <3>6. (a + 1) + b <= (k + 1) + c
      BY <3>2, <3>4
    <3>. QED  BY <3>3, <3>5, <3>6
  <2>4. \A q \in Range(r.waitQ) : q \in Range(waitQ) /\ ~Fits(r.free, job.size[q])
    BY <1>2, <1>3, <1>6, <2>1, <2>2
  <2>. QED  BY <1>2, <1>3, <1>7, <2>1, <2>2, <2>3, <2>4 DEF ScanTyped, r
<1>. QED  BY <1>5, <1>6

\* The whole scan keeps the types, drops nobody from the array, and leaves only
\* those in waitQ that do not fit.
LEMMA ScannedTyped ==
  ASSUME job \in Jobs, waitQ \in Seq(Id), ready \in Seq(Slot), Len(ready) <= N,
         NEW fl \in [Order -> Seq(Nat)], NEW blk, DOMAIN blk = Id
  PROVE  ScanTyped(blk, Scanned(fl, blk), Len(waitQ))
<1>. DEFINE base == [free |-> fl, block |-> blk, waitQ |-> <<>>, ready |-> ready]
            n == Len(waitQ)
<1>1. n \in Nat /\ DOMAIN waitQ = 1 .. n /\ Len(ready) \in Nat
  BY LenProperties
<1>2. PICK scan : ScanSteps(base, scan) /\ Scanned(fl, blk) = scan[n]
  BY ScannedInSteps
<1>3. ScanTyped(blk, scan[0], 0)
  <2>1. scan[0] = base
    BY <1>2 DEF ScanSteps
  <2>2. Range(<<>>) = {} /\ <<>> \in Seq(Id) /\ Len(<<>>) = 0
    BY EmptyQueue
  <2>3. ScanTyped(blk, base, 0)
    BY <1>1, <2>2 DEF ScanTyped
  <2>. QED  BY <2>1, <2>3
<1>. DEFINE Bad == {k \in 0 .. n : ~ScanTyped(blk, scan[k], k)}
<1>4. ASSUME Bad # {} PROVE FALSE
  <2>1. Bad \in SUBSET Nat
    OBVIOUS
  <2>2. Min(Bad) \in Bad /\ \A k \in Bad : Min(Bad) <= k
    BY <1>4, <2>1, LeastExists
  <2>3. PICK m \in 0 .. n : ~ScanTyped(blk, scan[m], m) /\ \A k \in Bad : m <= k
    BY <2>2
  <2>4. m \in 1 .. n /\ m - 1 \in 0 .. n /\ m - 1 \in Nat /\ (m - 1) + 1 = m
    BY <1>1, <1>3, <2>3
  <2>5. ScanTyped(blk, scan[m - 1], m - 1)
    <3>1. m - 1 \notin Bad
      BY <2>3, <2>4
    <3>. QED  BY <2>4, <3>1
  <2>6. scan[m] = Admit(scan[m - 1], waitQ[m])
    BY <1>2, <2>4 DEF ScanSteps
  <2>7. waitQ[m] \in Range(waitQ) /\ waitQ[m] \in Id
    BY <1>1, <2>4, ElementOfSeq DEF Range
  <2>8. ScanTyped(blk, Admit(scan[m - 1], waitQ[m]), (m - 1) + 1)
    BY <1>1, <2>4, <2>5, <2>7, AdmitTyped
  <2>. QED  BY <2>3, <2>4, <2>6, <2>8
<1>. QED  BY <1>1, <1>2, <1>4

-----------------------------------------------------------------------------
(* The array of the queue.                                                 *)

\* The first of a sequence, and the others.
LEMMA TailRange ==
  ASSUME NEW S, NEW s \in Seq(S), s # <<>>
  PROVE  /\ Head(s) \in S /\ Head(s) \in Range(s)
         /\ Tail(s) \in Seq(S) /\ Len(Tail(s)) = Len(s) - 1
         /\ Range(Tail(s)) \subseteq Range(s)
<1>1. Len(s) \in Nat /\ Len(s) > 0 /\ DOMAIN s = 1 .. Len(s)
  BY LenProperties, EmptySeq
<1>. DEFINE t == Tail(s)
<1>2. /\ Head(s) \in S /\ Head(s) = s[1]
      /\ t \in Seq(S) /\ Len(t) = Len(s) - 1
      /\ \A i \in 1 .. Len(s) - 1 : t[i] = s[i + 1]
  BY <1>1, HeadTailProperties
<1>3. DOMAIN t = 1 .. Len(s) - 1
  BY <1>2, LenProperties
<1>. HIDE DEF t
<1>4. \A i \in 1 .. Len(s) - 1 : i + 1 \in 1 .. Len(s)
  BY <1>1
<1>5. Range(t) \subseteq Range(s)
  BY <1>1, <1>2, <1>3, <1>4 DEF Range
<1>. QED  BY <1>1, <1>2, <1>5 DEF Range, t

\* What is left behind the first d of a sequence.
LEMMA BackRange ==
  ASSUME NEW S, NEW s \in Seq(S), NEW d \in Nat, d <= Len(s)
  PROVE  /\ SubSeq(s, 1 + d, Len(s)) \in Seq(S)
         /\ Len(SubSeq(s, 1 + d, Len(s))) = Len(s) - d
         /\ Range(SubSeq(s, 1 + d, Len(s))) \subseteq Range(s)
<1>. DEFINE n == Len(s)
            t == SubSeq(s, 1 + d, n)
<1>1. n \in Nat /\ DOMAIN s = 1 .. n /\ \A i \in 1 .. n : s[i] \in S
  BY LenProperties, ElementOfSeq
<1>2. \A i \in (1 + d) .. n : s[i] \in S
  BY <1>1
<1>3. /\ t \in Seq(S) /\ Len(t) = IF 1 + d <= n THEN n - (1 + d) + 1 ELSE 0
      /\ \A i \in 1 .. n - (1 + d) + 1 : t[i] = s[(1 + d) + i - 1]
  BY <1>1, <1>2, SubSeqProperties
<1>. HIDE DEF t, n
<1>4. n - (1 + d) + 1 = n - d /\ \A i \in 1 .. n - d : (1 + d) + i - 1 = d + i
  BY <1>1
<1>5. d <= n
  BY DEF n
<1>6. Len(t) = n - d /\ DOMAIN t = 1 .. n - d
  <2>1. Len(t) = n - d
    BY <1>1, <1>3, <1>5
  <2>. QED  BY <1>3, <2>1, LenProperties
<1>7. \A i \in 1 .. n - d : d + i \in 1 .. n /\ t[i] = s[d + i]
  BY <1>1, <1>3, <1>4
<1>8. Range(t) \subseteq Range(s)
  BY <1>1, <1>6, <1>7 DEF Range
<1>. QED  BY <1>3, <1>6, <1>8 DEF t, n

\* A sequence without one of its slots.
LEMMA WithoutRange ==
  ASSUME NEW S, NEW s \in Seq(S), NEW k \in DOMAIN s
  PROVE  /\ WithoutSlot(s, k) \in Seq(S) /\ Len(WithoutSlot(s, k)) = Len(s) - 1
         /\ Range(WithoutSlot(s, k)) \subseteq Range(s)
<1>1. Len(s) \in Nat /\ DOMAIN s = 1 .. Len(s) /\ k \in 1 .. Len(s)
  BY LenProperties
<1>. DEFINE t == RemoveAt(s, k)
<1>2. /\ t \in Seq(S) /\ Len(t) = Len(s) - 1
      /\ \A i \in 1 .. Len(s) - 1 : t[i] = IF i < k THEN s[i] ELSE s[i + 1]
  BY <1>1, RemoveAtProperties
<1>3. DOMAIN t = 1 .. Len(s) - 1
  BY <1>2, LenProperties
<1>. HIDE DEF t
<1>4. \A i \in 1 .. Len(s) - 1 : i \in 1 .. Len(s) /\ i + 1 \in 1 .. Len(s)
  BY <1>1
<1>5. Range(t) \subseteq Range(s)
  BY <1>1, <1>2, <1>3, <1>4 DEF Range
<1>. QED  BY <1>2, <1>5 DEF t, WithoutSlot

\* The slots beyond the last once they are moved up.
LEMMA ShiftRange ==
  ASSUME NEW s \in Seq(Slot)
  PROVE  LET t == BeyondAfterShift(s, Unset) IN
         /\ t \in Seq(Slot) /\ Len(t) = Len(s) + 1
         /\ Range(t) \subseteq Range(s) \cup {Unset}
<1>. DEFINE e == IF s = <<>> THEN Unset ELSE Head(s)
            t == <<e>> \o s
<1>1. e \in Slot /\ e \in Range(s) \cup {Unset}
  BY TailRange DEF Slot
<1>. HIDE DEF e
<1>2. <<e>> \in Seq(Slot) /\ Len(<<e>>) = 1 /\ <<e>>[1] = e
  BY <1>1
<1>3. Len(s) \in Nat /\ DOMAIN s = 1 .. Len(s)
  BY LenProperties
<1>4. /\ t \in Seq(Slot) /\ Len(t) = 1 + Len(s)
      /\ \A i \in 1 .. 1 + Len(s) : t[i] = IF i <= 1 THEN <<e>>[i] ELSE s[i - 1]
  BY <1>2, <1>3, ConcatProperties
<1>5. DOMAIN t = 1 .. 1 + Len(s)
  BY <1>4, LenProperties
<1>. HIDE DEF t
<1>6. \A i \in 1 .. 1 + Len(s) : t[i] = e \/ (i - 1 \in 1 .. Len(s) /\ t[i] = s[i - 1])
  BY <1>2, <1>3, <1>4
<1>7. Range(t) \subseteq Range(s) \cup {Unset}
  BY <1>1, <1>3, <1>5, <1>6 DEF Range
<1>. QED  BY <1>3, <1>4, <1>7 DEF t, e, BeyondAfterShift

\* A sequence whose first slot is written.
LEMMA WriteRange ==
  ASSUME NEW S, NEW s \in Seq(S), s # <<>>, NEW e \in S
  PROVE  /\ [s EXCEPT ![1] = e] \in Seq(S) /\ Len([s EXCEPT ![1] = e]) = Len(s)
         /\ Range([s EXCEPT ![1] = e]) \subseteq Range(s) \cup {e}
         /\ Head([s EXCEPT ![1] = e]) = e
<1>1. Len(s) \in Nat /\ Len(s) > 0 /\ DOMAIN s = 1 .. Len(s) /\ s \in [1 .. Len(s) -> S]
  BY LenProperties, EmptySeq
<1>. DEFINE t == [s EXCEPT ![1] = e]
<1>2. t \in [1 .. Len(s) -> S] /\ t[1] = e /\ \A i \in 1 .. Len(s) : i # 1 => t[i] = s[i]
  BY <1>1
<1>3. t \in Seq(S) /\ Len(t) = Len(s)
  BY <1>1, ExceptSeq
<1>. HIDE DEF t
<1>4. Head(t) = e
  BY <1>1, <1>2, <1>3, HeadTailProperties, EmptySeq
<1>5. Range(t) \subseteq Range(s) \cup {e}
  BY <1>1, <1>2 DEF Range
<1>. QED  BY <1>3, <1>4, <1>5 DEF t

-----------------------------------------------------------------------------
(* The first state, and the steps that leave queues and memory alone.      *)

\* There are no more processes in the scheduler's hands than places in the array.
LEMMA AcceptedFinite == IsFiniteSet(Accepted) /\ Cardinality(Accepted) <= N
<1>1. IsFiniteSet(Id) /\ Cardinality(Id) = N
  BY NAssumption, FS_Interval DEF Id
<1>2. Accepted \in SUBSET Id
  BY DEF Accepted
<1>. QED  BY <1>1, <1>2, FS_Subset

\* In the first state the array is empty, the memory one hole and nobody is known.
LEMMA AlwaysInit == Init => Always
<1>. SUFFICES ASSUME Init PROVE Always
  OBVIOUS
<1>. USE DEF Init, SimInit
<1>1. Typed
  <2>1. 0 \in 0 .. MaxClk /\ -1 \in -1 .. MaxClk /\ 0 \in 0 .. N
        /\ 0 \in 0 .. MaxOrder + 1
    BY NAssumption, MaxClkAssumption, MaxOrderAssumption
  <2>2. /\ clk \in 0 .. MaxClk /\ prevClk \in -1 .. MaxClk /\ sent \in 0 .. N
        /\ shm \in Int /\ sem \in Nat /\ polls \in 0 .. N /\ pCount \in Nat
        /\ source \in 0 .. MaxOrder + 1 /\ hole \in Nat /\ position \in 0 .. N
        /\ job \in Jobs
    BY <2>1
  <2>3. gen \in {"watch", "send"} /\ (gen = "send" => sent < N) /\ pc \in Labels
    BY DEF Labels
  <2>4. msgq \in Queue /\ waitQ \in Seq(Id) /\ table \subseteq Id
    BY EmptyQueue
  <2>5. /\ child \in [Id -> {"none", "spin", "kill", "up", "gone"}]
        /\ halted = [p \in Id |-> FALSE]
        /\ rem \in [Id -> Int] /\ wait \in [Id -> Int]
    OBVIOUS
  <2>6. /\ sig \in BOOLEAN /\ cpuFree \in BOOLEAN
        /\ cur \in Id \cup {None} /\ newcomer \in Id \cup {None}
        /\ raced \subseteq HandlerWindows \cup {"fork"}
    OBVIOUS
  <2>. QED  BY <2>2, <2>3, <2>4, <2>5, <2>6 DEF Typed
<1>2. beyond \in Seq(Slot) /\ Len(beyond) = N /\ Range(beyond) \subseteq {Unset}
  <2>1. beyond \in [1 .. N -> Slot] /\ DOMAIN beyond = 1 .. N
    BY DEF Slot
  <2>2. N \in Nat
    BY NAssumption
  <2>3. beyond \in Seq(Slot)
    BY <2>1, <2>2, IsASeq
  <2>4. Len(beyond) = N
    BY <2>1, <2>2, <2>3, LenProperties
  <2>. QED  BY <2>1, <2>3, <2>4 DEF Range
<1>3. MemoryTyped
  <2>1. <<>> \in Seq(Slot) /\ Len(<<>>) = 0
    OBVIOUS
  <2>2. free \in [Order -> Seq(Nat)]
    <3>1. <<0>> \in Seq(Nat) /\ <<>> \in Seq(Nat)
      OBVIOUS
    <3>. QED  BY <3>1 DEF InitialLists
  <2>. QED  BY <1>2, <2>1, <2>2, NAssumption DEF MemoryTyped
<1>4. (Listed \cup {newcomer} \cup Range(waitQ) \cup table) \cap Id = {}
  BY <1>2, EmptyQueue, PointerAssumption, UnsetAssumption DEF Listed
<1>5. OnlyReceived
  BY <1>4, EmptyQueue DEF OnlyReceived
<1>6. Room
  <2>1. Cardinality(Accepted) \in Nat
    BY AcceptedFinite, FS_CardinalityType
  <2>2. Len(ready) = 0 /\ Len(waitQ) = 0 /\ newcomer \notin Id
    BY PointerAssumption
  <2>. QED  BY <2>1, <2>2 DEF Room, Queued
<1>7. HasBlock /\ Hands
  BY PointerAssumption DEF HasBlock, Hands, PlaceSought, Receiving
<1>8. NoFit
  BY DEF NoFit
<1>. QED  BY <1>1, <1>3, <1>5, <1>6, <1>7, <1>8 DEF Always

\* A step that changes no queue and no hole, and takes nobody in hand.
LEMMA QuietStep ==
  ASSUME Always, Typed', Hands', cur' \in {cur, None}, pc' \in {"store", "grow"} => pc' = pc,
         pc' \notin Receiving \/ (pc' = pc /\ source' = source) \/ NoFit',
         raced \subseteq raced', \A p \in Id : child'[p] # "none" => child[p] # "none",
         UNCHANGED <<job, sent, msgq, ready, beyond, newcomer, table, memory>>
  PROVE  Always'
<1>. USE DEF memory
<1>1. MemoryTyped'
  BY DEF Always, MemoryTyped
<1>2. Accepted' = Accepted
  BY DEF Accepted
<1>3. \A p \in Id : p \in Listed' => p \in Listed
  BY PointerAssumption DEF Listed
<1>4. OnlyReceived'
  BY <1>2, <1>3 DEF Always, OnlyReceived
<1>5. Room'
  BY <1>2 DEF Always, Room, Queued
<1>6. table \subseteq Id
  BY DEF Always, Typed
<1>7. HasBlock'
  BY <1>3, <1>6 DEF Always, HasBlock
<1>8. NoFit'
  BY DEF Always, NoFit, Wanted, Receiving
<1>. QED  BY <1>1, <1>4, <1>5, <1>7, <1>8 DEF Always

\* The loop's tests, and its steps that only concern the current process.
LEMMA TestsAlways ==
  ASSUME Always,
         \/ ReceiveNobody \/ WalkPastEnd \/ TakeFromEmptyList \/ Received \/ NewSecond
         \/ SameSecond \/ FollowNull \/ DispatchNobody \/ DispatchUnset \/ TakeCpu \/ Publish \/ End
  PROVE  Always'
<1>. USE DEF generator, processes, loop, cpu, pcb, memory, local, search, OutsideMemory, Goto
<1>1. UNCHANGED <<job, clk, gen, sent, msgq, sem, child, halted, sig, pCount, ready, beyond,
                  newcomer, search, table, rem, wait, memory, raced>>
  BY DEF ReceiveNobody, PollEmpty, WalkPastEnd, TakeFromEmptyList, Received, NewSecond,
         SameSecond, FollowNull, DispatchNobody, DispatchUnset, TakeCpu, Publish, End
<1>2. /\ shm' \in Int /\ polls' \in 0 .. N /\ prevClk' \in -1 .. MaxClk
      /\ cpuFree' \in BOOLEAN
  <2>1. shm' \in Int
    BY DEF ReceiveNobody, WalkPastEnd, TakeFromEmptyList, Received, NewSecond, Always, Typed,
           SameSecond, FollowNull, DispatchNobody, DispatchUnset, TakeCpu, Publish, End, Present
  <2>2. polls' \in 0 .. N
    BY NAssumption
    DEF ReceiveNobody, PollEmpty, WalkPastEnd, TakeFromEmptyList, Received, NewSecond, Always,
        Typed, SameSecond, FollowNull, DispatchNobody, DispatchUnset, TakeCpu, Publish, End
  <2>3. prevClk' \in -1 .. MaxClk
    BY MaxClkAssumption
    DEF ReceiveNobody, WalkPastEnd, TakeFromEmptyList, Received, NewSecond, Always, Typed,
        SameSecond, FollowNull, DispatchNobody, DispatchUnset, TakeCpu, Publish, End
  <2>4. cpuFree' \in BOOLEAN
    BY DEF ReceiveNobody, WalkPastEnd, TakeFromEmptyList, Received, NewSecond, Always, Typed,
           SameSecond, FollowNull, DispatchNobody, DispatchUnset, TakeCpu, Publish, End
  <2>. QED  BY <2>1, <2>2, <2>3, <2>4
<1>3. cur' = cur \/ (cur' = None /\ cpuFree /\ pc = "dispatch")
  BY DEF ReceiveNobody, WalkPastEnd, TakeFromEmptyList, Received, NewSecond,
         SameSecond, FollowNull, DispatchNobody, DispatchUnset, TakeCpu, Publish, End
<1>6. pc' \in Labels /\ pc' \notin Receiving
  BY DEF ReceiveNobody, WalkPastEnd, TakeFromEmptyList, Received, NewSecond, Labels, ForkWindow,
         SameSecond, FollowNull, DispatchNobody, DispatchUnset, TakeCpu, Publish, End,
         HandlerWindows, DelayWindows, Receiving
<1>7. /\ pc \in Receiving => pc' = "crashed"
      /\ pc # "crashed"
  BY DEF ReceiveNobody, WalkPastEnd, TakeFromEmptyList, Received, NewSecond,
         SameSecond, FollowNull, DispatchNobody, DispatchUnset, TakeCpu, Publish, End, Receiving
<1>8. /\ cpuFree' => cpuFree
      /\ pc = "busy" => ~cpuFree'
      /\ cpuFree' => cur' \in {None} \/ (cur' = cur /\ pc # "busy")
  BY DEF ReceiveNobody, WalkPastEnd, TakeFromEmptyList, Received, NewSecond, cpu,
         SameSecond, FollowNull, DispatchNobody, DispatchUnset, TakeCpu, Publish, End
<1>4. Typed'
  BY <1>1, <1>2, <1>3, <1>6 DEF Always, Typed
<1>5. Hands'
  <2>1. cur \in Id => cur' = cur
    BY <1>3 DEF Always, Hands
  <2>2. /\ pc' \in Receiving => newcomer' \in Id
        /\ newcomer' \in Id => pc' \in Receiving \cup {"crashed"} /\ newcomer' \in table'
                               /\ child'[newcomer'] = "none"
        /\ PlaceSought'
    BY <1>1, <1>6, <1>7 DEF Always, Hands, PlaceSought, Receiving
  <2>3. cur' \in Id => cur' = cur /\ child'[cur'] # "none" /\ ~cpuFree'
    BY <1>1, <1>3, <1>7, <1>8, PointerAssumption DEF Always, Hands
  <2>4. \A p \in table' : p # cur' => child'[p] = "none"
    BY <1>1, <1>3, <2>1 DEF Always, Hands, Typed
  <2>. QED  BY <2>2, <2>3, <2>4 DEF Hands
<1>. QED  BY <1>1, <1>3, <1>4, <1>5, <1>6, QuietStep DEF Receiving, Typed, Always

\* The steps that account for the current process.
LEMMA CurrentAlways ==
  ASSUME Always, Charge \/ Start
  PROVE  Always'
<1>. USE DEF generator, processes, loop, cpu, pcb, memory, local, search, Goto
<1>1. UNCHANGED <<job, clk, gen, sent, msgq, sem, child, halted, sig, pCount, ready, beyond,
                  newcomer, search, table, memory, raced, polls, prevClk, cpuFree, cur>>
  BY DEF Charge, Start, Decrement
<1>2. pc' \in {"dispatch", "publish"} /\ pc \in {"charge", "start"}
  BY DEF Charge, Start
<1>3. cur \in Id
  BY DEF Charge, Start, Present, Always, Typed
<1>4. shm' \in Int /\ rem' \in [Id -> Int]
  BY <1>3 DEF Charge, Start, Decrement, Always, Typed
<1>5. wait' \in [Id -> Int]
  <2>1. clk \in Int /\ job.arrival[cur] \in Int
    BY <1>3, JobsAssumption, MaxClkAssumption DEF Always, Typed
  <2>2. clk - job.arrival[cur] \in Int
    BY <2>1
  <2>. QED  BY <1>3, <2>2 DEF Charge, Start, Always, Typed
<1>6. Typed'
  BY <1>1, <1>2, <1>4, <1>5 DEF Always, Typed, Labels, ForkWindow
<1>7. Hands'
  BY <1>1, <1>2, PointerAssumption DEF Always, Hands, PlaceSought, Receiving, Typed
<1>. QED  BY <1>1, <1>2, <1>6, <1>7, QuietStep DEF Receiving

\* The steps of the other processes.
LEMMA WorldAlways ==
  ASSUME Always, World
  PROVE  Always' /\ Accepted' = Accepted
<1>. USE DEF generator, processes, loop, cpu, pcb, memory, local, search
<1>1. UNCHANGED <<job, shm, halted, cpuFree, cur, pCount, pc, polls, prevClk, ready, beyond,
                  newcomer, search, table, rem, wait, memory>>
  BY DEF World, Tick, Notice, Send, GoOn, Leave, LeaveLoop, Signal, Up
<1>2. /\ clk' \in 0 .. MaxClk /\ sem' \in Nat /\ sig' \in BOOLEAN
      /\ raced \subseteq raced' /\ raced' \subseteq HandlerWindows \cup {"fork"}
  <2>1. clk' \in 0 .. MaxClk
    BY MaxClkAssumption DEF World, Tick, Notice, Send, GoOn, Leave, LeaveLoop, Signal, Up, Always,
       Typed
  <2>4. sig' \in BOOLEAN
    BY DEF World, Tick, Notice, Send, GoOn, Leave, LeaveLoop, Signal, Up, Always, Typed
  <2>5. sem' = sem \/ sem' = sem + 1
    BY DEF World, Tick, Notice, Send, GoOn, Leave, LeaveLoop, Signal, Up
  <2>2. sem' \in Nat
    BY <2>5 DEF Always, Typed
  <2>3. raced \subseteq raced' /\ raced' \subseteq HandlerWindows \cup {"fork"}
    BY DEF World, GoOn, Leave, Always, Typed
  <2>. QED  BY <2>1, <2>2, <2>3, <2>4
<1>3. /\ child' \in [Id -> {"none", "spin", "kill", "up", "gone"}]
      /\ \A p \in Id : child'[p] # "none" <=> child[p] # "none"
  BY DEF World, Tick, Notice, Send, GoOn, Leave, LeaveLoop, Signal, Up, Runs, Always, Typed
<1>4. Hands'
  <2>1. table \subseteq Id
    BY DEF Always, Typed
  <2>. QED  BY <1>1, <1>3, <2>1 DEF Always, Hands, PlaceSought, Wanted
<1>5. CASE UNCHANGED <<sent, msgq>>
  <2>3. Accepted' = Accepted
    BY <1>5 DEF Accepted
  <2>1. gen' \in {"watch", "send"} /\ (gen' = "send" => sent' < N)
    BY <1>5 DEF World, Tick, Notice, Send, GoOn, Leave, LeaveLoop, Signal, Up, Always, Typed
  <2>2. Typed'
    BY <1>1, <1>2, <1>3, <1>5, <2>1 DEF Always, Typed
  <2>. QED  BY <1>1, <1>2, <1>3, <1>4, <1>5, <2>2, <2>3, QuietStep DEF Always, Hands
<1>6. CASE Send
  <2>1. sent \in 0 .. N /\ sent < N /\ sent + 1 \in Id /\ sent + 1 \in 0 .. N
    BY <1>6, NAssumption DEF Send, Always, Typed, Id
  <2>2. sent + 1 \notin Range(msgq)
    BY <2>1 DEF Always, OnlyReceived
  <2>3. msgq' \in Queue /\ Range(msgq') = Range(msgq) \cup {sent + 1}
    BY <1>6, <2>1, <2>2, AppendQueue DEF Send, Always, Typed
  <2>4. sent' = sent + 1 /\ gen' = "watch" /\ UNCHANGED child
    BY <1>6 DEF Send
  <2>5. Typed'
    BY <1>1, <1>2, <1>3, <2>1, <2>3, <2>4 DEF Always, Typed
  <2>6. Accepted' = Accepted
    BY <2>1, <2>3, <2>4 DEF Accepted, Id
  <2>7. OnlyReceived'
    <3>1. \A p \in Range(msgq') : p <= sent'
      <4>1. \A p \in Range(msgq) : p \in Id
        BY ElementOfSeq, LenProperties DEF Always, Typed, Queue, Range
      <4>. QED  BY <2>1, <2>3, <2>4, <4>1 DEF Always, OnlyReceived, Id
    <3>. QED  BY <1>1, <2>4, <2>6, <3>1 DEF Always, OnlyReceived, Listed
  <2>8. Room' /\ MemoryTyped'
    BY <1>1, <2>6 DEF Always, Room, Queued, MemoryTyped
  <2>9. HasBlock' /\ NoFit'
    BY <1>1, <1>2 DEF Always, HasBlock, NoFit, Listed, Wanted
  <2>. QED  BY <1>4, <2>5, <2>6, <2>7, <2>8, <2>9 DEF Always
<1>. QED  BY <1>5, <1>6 DEF World, Tick, Notice, GoOn, Leave, LeaveLoop, Signal, Up

\* A process is received: there is one more that was accepted.
LEMMA ReceiveAlways ==
  ASSUME Always, receiveNewProcess
  PROVE  /\ Always' /\ newcomer \notin Id /\ newcomer' \in Id
         /\ Cardinality(Accepted') = Cardinality(Accepted) + 1
<1>. USE DEF generator, processes, loop, cpu, pcb, memory, local, search, Goto
<1>1. PICK p \in Id : Receive(p) /\ newcomer' = p /\ source' = OrderFor(job.size[p])
  BY DEF receiveNewProcess
<1>2. /\ UNCHANGED <<job, clk, gen, sent, shm, sem, child, halted, sig, prevClk, cpuFree, cur,
                     pCount, ready, wait, free, block, waitQ, hole, position, beyond, raced>>
      /\ pc = "receive" /\ pc' = "allocate"
  BY DEF receiveNewProcess
<1>3. /\ p \in Range(msgq) /\ msgq' \in Queue /\ Range(msgq') = Range(msgq) \ {p}
  BY <1>1, TailQueue DEF Receive, Always, Typed
<1>4. p \notin Accepted /\ Accepted' = Accepted \cup {p}
  BY <1>2, <1>3 DEF Accepted, Always, OnlyReceived
<1>5. table' = table \cup {p} /\ rem' = [rem EXCEPT ![p] = job.run[p]]
      /\ polls' \in 0 .. N
  BY <1>1, NAssumption DEF Receive, Always, Typed
<1>6. rem' \in [Id -> Int]
  <2>1. job.run[p] \in Int
    BY JobsAssumption DEF Always, Typed
  <2>. QED  BY <1>5, <2>1 DEF Always, Typed
<1>8. newcomer \notin Id
  BY <1>2 DEF Always, Hands, Receiving
<1>15. Cardinality(Accepted') = Cardinality(Accepted) + 1
  BY <1>4, AcceptedFinite, FS_AddElement
<1>9. Room' /\ MemoryTyped'
  <2>2. Cardinality(Accepted) \in Nat
    BY AcceptedFinite, FS_CardinalityType
  <2>3. PICK a, b \in Nat : a = Len(ready) /\ b = Len(waitQ)
    BY LenProperties DEF Always, MemoryTyped, Typed
  <2>4. PICK c \in Nat : c = Cardinality(Accepted)
    BY <2>2
  <2>5. a + b <= c
    BY <1>8, <2>3, <2>4 DEF Always, Room, Queued
  <2>6. Len(ready') = a /\ Len(waitQ') = b /\ Cardinality(Accepted') = c + 1 /\ newcomer' \in Id
    BY <1>1, <1>2, <1>15, <2>3, <2>4
  <2>7. a + b + 1 <= c + 1
    BY <2>5
  <2>8. Room'
    BY <2>6, <2>7 DEF Room, Queued
  <2>. QED  BY <1>2, <2>8 DEF Always, MemoryTyped
<1>10. p \notin Listed /\ child[p] = "none"
  BY <1>4 DEF Always, OnlyReceived
<1>11. OnlyReceived'
  <2>1. \A q \in Range(msgq') : q <= sent'
    BY <1>2, <1>3 DEF Always, OnlyReceived
  <2>. QED  BY <1>1, <1>2, <1>4, <1>5, <2>1 DEF Always, OnlyReceived, Listed
<1>12. HasBlock'
  BY <1>2, <1>5, <1>10 DEF Always, HasBlock, Listed
<1>16. Wanted' = source' /\ source' \in 0 .. MaxOrder + 1
  <2>1. job.size[p] \in Nat
    BY JobsAssumption DEF Always, Typed
  <2>. QED  BY <1>1, <1>2, <2>1, OrderForType DEF Wanted
<1>7. Typed'
  <2>1. pc' \in Labels /\ newcomer' \in Id /\ table' \subseteq Id
    BY <1>1, <1>2, <1>5 DEF Labels, Always, Typed
  <2>. QED  BY <1>2, <1>3, <1>5, <1>6, <1>16, <2>1 DEF Always, Typed
<1>13. NoFit'
  BY <1>2, <1>16, MaxOrderAssumption DEF Always, NoFit, Order
<1>14. Hands'
  BY <1>1, <1>2, <1>5, <1>10, <1>16 DEF Always, Hands, PlaceSought, Receiving
<1>. QED  BY <1>1, <1>7, <1>8, <1>9, <1>11, <1>12, <1>13, <1>14, <1>15 DEF Always

\* A process leaves the array for *currentProc.
LEMMA DispatchAlways ==
  ASSUME Always, Dispatch
  PROVE  Always' /\ newcomer \notin Id /\ cur \notin Id
<1>. USE DEF generator, processes, loop, cpu, pcb, memory, local, search, Goto
<1>1. PICK prio \in Priorities :
        LET k == peek(ready, prio, Arrivals)
        IN  /\ ready[k] # Unset
            /\ cur' = ready[k]
            /\ child' = [child EXCEPT ![ready[k]] = "spin"]
            /\ Dequeue(k)
  BY DEF Dispatch
<1>2. PICK k : k = peek(ready, prio, Arrivals)
  OBVIOUS
<1>3. /\ pc = "dispatch" /\ pc' = "busy" /\ cpuFree /\ ready # <<>>
      /\ UNCHANGED <<job, clk, gen, sent, msgq, shm, sem, halted, sig, polls, prevClk, cpuFree,
                     pCount, table, rem, wait, free, block, waitQ, newcomer, search,
                     raced>>
  BY DEF Dispatch
<1>4. ready \in Seq(Slot) /\ beyond \in Seq(Slot) /\ Len(ready) + Len(beyond) = N
  BY DEF Always, MemoryTyped
<1>5. k \in DOMAIN ready
  BY <1>2, <1>3, <1>4, PeekInArray
<1>6. ready[k] \in Slot /\ ready[k] \in Range(ready)
  BY <1>4, <1>5, ElementOfSeq, LenProperties DEF Range
<1>7. cur' = ready[k] /\ cur' \in Id /\ child' = [child EXCEPT ![cur'] = "spin"]
  BY <1>1, <1>2, <1>6 DEF Slot
<1>8. /\ ready' \in Seq(Slot) /\ Len(ready') = Len(ready) - 1 /\ Range(ready') \subseteq Range(ready)
  BY <1>1, <1>2, <1>4, <1>5, WithoutRange DEF Dequeue
<1>9. /\ beyond' \in Seq(Slot) /\ Len(beyond') = Len(beyond) + 1
      /\ Range(beyond') \subseteq Range(beyond) \cup {Unset}
  BY <1>1, <1>2, <1>4, ShiftRange DEF Dequeue
<1>10. newcomer \notin Id /\ cur \notin Id
  BY <1>3 DEF Always, Hands, Receiving
<1>11. PICK a, b, c \in Nat : a = Len(ready) /\ b = Len(beyond) /\ c = Len(ready')
  BY <1>4, <1>8, LenProperties
<1>12. a + b = N /\ c = a - 1
  BY <1>4, <1>8, <1>11
<1>13. MemoryTyped'
  <2>1. Len(ready') + Len(beyond') = c + (b + 1) /\ c + (b + 1) = N
    BY <1>9, <1>11, <1>12
  <2>. QED  BY <1>3, <1>8, <1>9, <2>1 DEF Always, MemoryTyped
<1>14. child' \in [Id -> {"none", "spin", "kill", "up", "gone"}]
       /\ \A p \in Id : p # cur' => child'[p] = child[p]
       /\ child'[cur'] = "spin"
  BY <1>7 DEF Always, Typed
<1>15. Typed'
  BY <1>3, <1>7, <1>14 DEF Always, Typed, Labels, ForkWindow
<1>16. \A p \in Id : p \in Listed' => p \in Listed
  BY <1>6, <1>7, <1>8, <1>9, UnsetAssumption DEF Listed
<1>17. cur' \in Accepted /\ Accepted' = Accepted
  BY <1>3, <1>6, <1>7 DEF Always, OnlyReceived, Listed, Accepted
<1>18. OnlyReceived'
  BY <1>3, <1>14, <1>16, <1>17 DEF Always, OnlyReceived
<1>19. Room'
  <2>1. PICK d \in Nat : d = Len(waitQ)
    BY LenProperties DEF Always, Typed
  <2>2. PICK e \in Nat : e = Cardinality(Accepted)
    BY AcceptedFinite, FS_CardinalityType
  <2>3. a + d <= e
    BY <1>10, <1>11, <2>1, <2>2 DEF Always, Room, Queued
  <2>4. c + d <= e
    BY <1>12, <2>3
  <2>. QED  BY <1>3, <1>10, <1>11, <1>17, <2>1, <2>2, <2>4 DEF Room, Queued
<1>20. table \subseteq Id
  BY DEF Always, Typed
<1>21. HasBlock' /\ NoFit'
  BY <1>3, <1>16, <1>20 DEF Always, HasBlock, NoFit
<1>22. Hands'
  <2>1. newcomer' \notin Id /\ pc' \notin Receiving
    BY <1>3, <1>10 DEF Receiving
  <2>2. cur' \in Id /\ child'[cur'] # "none" /\ pc' = "busy"
    BY <1>3, <1>7, <1>14
  <2>3. \A p \in table' : p # cur' => child'[p] = "none"
    BY <1>3, <1>10, <1>14, <1>20 DEF Always, Hands
  <2>. QED  BY <1>3, <2>1, <2>2, <2>3 DEF Hands, PlaceSought
<1>. QED  BY <1>10, <1>13, <1>15, <1>18, <1>19, <1>21, <1>22 DEF Always

\* The steps of allocate, and of AddToWaitQ before the newcomer is in waitQ.
Allocating ==
  \/ SkipList \/ FindHole \/ FindNoHole \/ RemoveHole \/ InsertLower \/ InsertUpper
  \/ TakeHole \/ TakeFromEmptyList \/ AddToWaitQ \/ WalkPastEnd

\* They change the memory and what the search keeps, nothing else.
LEMMA AllocatingIs ==
  ASSUME Allocating
  PROVE  /\ UNCHANGED <<job, clk, gen, sent, msgq, shm, sem, child, halted, sig, polls, prevClk,
                        cpuFree, cur, pCount, table, rem, lastClk, wait, ready, waitQ, newcomer,
                        beyond, raced>>
         /\ pc \in Receiving \ {"store", "grow"}
         /\ pc' \in (Receiving \ {"allocate", "grow"}) \cup {"crashed"}
BY DEF Allocating, Searching, SkipList, FindHole, FindNoHole, RemoveHole, InsertLower, InsertUpper,
       TakeHole, TakeFromEmptyList, AddToWaitQ, WalkPastEnd, OutsideMemory, Goto, Receiving,
       generator, processes, loop, cpu, pcb, memory, local, search

\* The smallest list for the newcomer, and for those that wait.
LEMMA WantedType ==
  ASSUME Always
  PROVE  /\ newcomer \in Id => job.size[newcomer] \in Nat /\ Wanted \in 0 .. MaxOrder + 1
         /\ \A k \in DOMAIN waitQ : /\ job.size[waitQ[k]] \in Nat
                                    /\ OrderFor(job.size[waitQ[k]]) \in 0 .. MaxOrder + 1
<1>1. \A p \in Id : job.size[p] \in Nat
  BY JobsAssumption DEF Always, Typed
<1>2. \A p \in Id : OrderFor(job.size[p]) \in 0 .. MaxOrder + 1
  BY <1>1, OrderForType
<1>3. \A k \in DOMAIN waitQ : waitQ[k] \in Id
  BY LenProperties, ElementOfSeq DEF Always, Typed
<1>. QED  BY <1>1, <1>2, <1>3 DEF Wanted

\* allocate looks at one list after the other, and AddToWaitQ at the length of waitQ.
LEMMA SearchAlways ==
  ASSUME Always, SkipList \/ FindHole \/ FindNoHole \/ AddToWaitQ
  PROVE  Always' /\ (FindHole => free[source'] # <<>>)
<1>. USE DEF generator, processes, loop, cpu, pcb, memory, local, search, OutsideMemory, Goto
<1>1. /\ UNCHANGED <<job, clk, gen, sent, msgq, shm, sem, child, halted, sig, polls, prevClk,
                     cpuFree, cur, pCount, table, rem, wait, ready, free, block, waitQ, newcomer,
                     hole, beyond, raced>>
      /\ pc \in {"allocate", "search", "join"} /\ pc' \in {"search", "carve", "join", "walk"}
  BY DEF SkipList, FindHole, FindNoHole, AddToWaitQ, Searching
<1>2. newcomer \in Id
  BY <1>1 DEF Always, Hands, Receiving
<1>3. Wanted \in 0 .. MaxOrder + 1 /\ Wanted' = Wanted /\ source \in 0 .. MaxOrder + 1
  BY <1>1, <1>2, WantedType DEF Always, Typed, Wanted
<1>4. pc \in {"allocate", "search"} => Wanted <= source
  BY <1>3, MaxOrderAssumption DEF Always, Hands, PlaceSought
<1>5. Len(waitQ) \in 0 .. N
  <2>1. PICK a, b, c \in Nat : a = Len(ready) /\ b = Len(waitQ) /\ c = Cardinality(Accepted)
    BY LenProperties, AcceptedFinite, FS_CardinalityType DEF Always, MemoryTyped, Typed
  <2>2. a + b + 1 <= c /\ c <= N
    BY <1>2, <2>1, AcceptedFinite DEF Always, Room, Queued
  <2>3. b \in 0 .. N
    BY <2>2, NAssumption
  <2>. QED  BY <2>1, <2>3
<1>6. source' \in 0 .. MaxOrder + 1 /\ position' \in 0 .. N
  <2>1. source' \in 0 .. MaxOrder + 1
    BY <1>3, MaxOrderAssumption DEF SkipList, FindHole, FindNoHole, AddToWaitQ
  <2>2. position' = position \/ position' = Len(waitQ)
    BY DEF SkipList, FindHole, FindNoHole, AddToWaitQ
  <2>. QED  BY <1>5, <2>1, <2>2 DEF Always, Typed
<1>7. Typed'
  BY <1>1, <1>6 DEF Always, Typed, Labels, HandlerWindows, DelayWindows
<1>8. PlaceSought'
  <2>1. CASE SkipList
    BY <1>3, <1>4, <2>1, MaxOrderAssumption DEF SkipList, Searching, PlaceSought
  <2>2. CASE FindHole
    BY <1>1, <1>3, <1>4, <2>2, MaxOrderAssumption DEF FindHole, Searching, PlaceSought, Order
  <2>3. CASE FindNoHole
    BY <2>3 DEF FindNoHole, Searching, PlaceSought
  <2>4. CASE AddToWaitQ
    BY <1>1, <1>5, <2>4, NAssumption DEF AddToWaitQ, PlaceSought
  <2>. QED  BY <2>1, <2>2, <2>3, <2>4
<1>9. Hands'
  BY <1>1, <1>8 DEF Always, Hands, Receiving
<1>10. NoFit'
  <2>. SUFFICES ASSUME raced \cap (DelayWindows \cup {"walk"}) = {} PROVE NoFit'
    BY <1>1 DEF NoFit
  <2>1. /\ \A k \in DOMAIN waitQ : ~Fits(free, job.size[waitQ[k]])
        /\ pc \in {"allocate", "search"} =>
             \A i \in Order : Wanted <= i /\ i < source => free[i] = <<>>
        /\ pc = "join" => ~Fits(free, job.size[newcomer])
    BY DEF Always, NoFit
  <2>2. CASE SkipList
    <3>1. pc' = "search" /\ source' = source + 1 /\ free[source] = <<>>
          /\ pc \in {"allocate", "search"}
      BY <2>2 DEF SkipList, Searching
    <3>2. \A i \in Order : Wanted <= i /\ i < source + 1 => free[i] = <<>>
      BY <1>3, <2>1, <3>1, MaxOrderAssumption DEF Order
    <3>. QED  BY <1>1, <1>3, <2>1, <3>1, <3>2 DEF NoFit
  <2>3. CASE FindHole
    <3>1. pc' = "carve" /\ source' = source /\ free[source] # <<>> /\ source <= MaxOrder
      BY <2>3 DEF FindHole, Searching
    <3>2. source \in Order
      BY <1>3, <3>1, MaxOrderAssumption DEF Order
    <3>3. ASSUME NEW k \in DOMAIN waitQ PROVE source < OrderFor(job.size[waitQ[k]])
      <4>1. OrderFor(job.size[waitQ[k]]) \in 0 .. MaxOrder + 1
        BY WantedType
      <4>2. source \notin ListsWithHole(free, OrderFor(job.size[waitQ[k]]))
        BY <2>1 DEF Fits
      <4>. QED  BY <3>1, <3>2, <4>1, <4>2, MaxOrderAssumption DEF ListsWithHole, Order
    <3>. QED  BY <1>1, <2>1, <3>1, <3>3 DEF NoFit
  <2>4. CASE FindNoHole
    <3>1. pc' = "join" /\ source > MaxOrder /\ pc \in {"allocate", "search"}
      BY <2>4 DEF FindNoHole, Searching
    <3>2. \A i \in Order : i < source
      BY <1>3, <3>1, MaxOrderAssumption DEF Order
    <3>3. ~Fits(free, job.size[newcomer])
      BY <1>3, <2>1, <3>1, <3>2, MaxOrderAssumption DEF Fits, ListsWithHole, Wanted, Order
    <3>. QED  BY <1>1, <2>1, <3>1, <3>3 DEF NoFit
  <2>5. CASE AddToWaitQ
    BY <1>1, <2>1, <2>5 DEF AddToWaitQ, NoFit
  <2>. QED  BY <2>2, <2>3, <2>4, <2>5
<1>11. FindHole => free[source'] # <<>>
  BY DEF FindHole
<1>. QED  BY <1>1, <1>7, <1>9, <1>10, <1>11, QuietStep

\* No request is made possible by a change of the lists that are too short for it.
LEMMA LessFits ==
  ASSUME NEW fl, NEW gl, NEW s \in Order, NEW sz \in Nat, s < OrderFor(sz), ~Fits(fl, sz),
         \A i \in Order : i > s => gl[i] = fl[i]
  PROVE  ~Fits(gl, sz)
<1>1. OrderFor(sz) \in Nat
  BY OrderForType, MaxOrderAssumption
<1>. QED  BY <1>1, MaxOrderAssumption DEF Fits, ListsWithHole, Order

\* Those that wait are too large for the list that is split, the ones below it and the
\* hole that is taken.
LEMMA NoFitKept ==
  ASSUME Always, source \in Order, pc \in {"carve", "lower", "upper"}, source' \in Order,
         pc' \in {"carve", "lower", "upper", "store"}, source' <= source,
         UNCHANGED <<job, waitQ, raced>>,
         \A i \in Order : i > source => free'[i] = free[i]
  PROVE  NoFit'
<1>. SUFFICES ASSUME raced \cap (DelayWindows \cup {"walk"}) = {}, NEW k \in DOMAIN waitQ
              PROVE  /\ ~Fits(free', job.size[waitQ[k]])
                     /\ source' < OrderFor(job.size[waitQ[k]])
  BY DEF NoFit
<1>1. /\ job.size[waitQ[k]] \in Nat
      /\ OrderFor(job.size[waitQ[k]]) \in 0 .. MaxOrder + 1
  BY WantedType
<1>2. ~Fits(free, job.size[waitQ[k]]) /\ source < OrderFor(job.size[waitQ[k]])
  BY DEF Always, NoFit
<1>3. source' < OrderFor(job.size[waitQ[k]])
  BY <1>1, <1>2, MaxOrderAssumption DEF Order
<1>4. ~Fits(free', job.size[waitQ[k]])
  BY <1>1, <1>2, LessFits
<1>. QED  BY <1>3, <1>4

\* A hole is split in two: it leaves its list, and its halves enter the list below.
LEMMA SplitAlways ==
  ASSUME Always, RemoveHole \/ InsertLower \/ InsertUpper
  PROVE  Always' /\ (InsertUpper => free'[source'] # <<>>)
<1>. USE DEF generator, processes, loop, cpu, pcb, memory, local, search, OutsideMemory, Goto
<1>1. /\ UNCHANGED <<job, clk, gen, sent, msgq, shm, sem, child, halted, sig, polls, prevClk,
                     cpuFree, cur, pCount, table, rem, wait, ready, block, waitQ, newcomer,
                     position, beyond, raced>>
      /\ pc \in {"carve", "lower", "upper"} /\ pc' \in {"carve", "lower", "upper"}
  BY DEF RemoveHole, InsertLower, InsertUpper
<1>2. newcomer \in Id /\ source \in Order
  BY <1>1 DEF Always, Hands, PlaceSought, Receiving
<1>3. Wanted \in 0 .. MaxOrder + 1 /\ Wanted' = Wanted
  BY <1>1, <1>2, WantedType DEF Wanted
<1>4. Wanted < source /\ source - 1 \in Order /\ Wanted <= source - 1
  <2>1. Wanted < source
    BY <1>1, <1>2, <1>3, MaxOrderAssumption
    DEF RemoveHole, InsertLower, InsertUpper, Always, Hands, PlaceSought, Order
  <2>. QED  BY <1>2, <1>3, <2>1, MaxOrderAssumption DEF Order
<1>5. free \in [Order -> Seq(Nat)] /\ free[source] \in Seq(Nat) /\ free[source - 1] \in Seq(Nat)
  BY <1>2, <1>4 DEF Always, MemoryTyped
<1>6. hole \in Nat /\ BlockSize[source - 1] \in Nat
  BY <1>4, BlockSizeAssumption DEF Always, Typed, Order
<1>7. hole + BlockSize[source - 1] \in Nat
  BY <1>6
<1>8. ASSUME NEW a \in Nat
      PROVE  InsertPair(free[source - 1], a) \in Seq(Nat) /\ InsertPair(free[source - 1], a) # <<>>
  <2>. DEFINE t == InsertPair(free[source - 1], a)
  <2>1. t \in Seq(Nat) /\ Len(t) = Len(free[source - 1]) + 1 /\ Len(free[source - 1]) \in Nat
    BY <1>5, InsertPairProperties, LenProperties
  <2>. HIDE DEF t
  <2>2. t # <<>>
    BY <2>1, LenProperties, EmptySeq
  <2>. QED  BY <2>1, <2>2 DEF t
<1>9. /\ free' \in [Order -> Seq(Nat)] /\ hole' \in Nat /\ source' \in Order /\ source' <= source
      /\ \A i \in Order : i > source => free'[i] = free[i]
      /\ InsertUpper => free'[source'] # <<>>
      /\ PlaceSought'
  <2>1. CASE RemoveHole
    <3>1. Head(free[source]) \in Nat /\ Tail(free[source]) \in Seq(Nat)
      BY <1>5, <2>1, TailRange DEF RemoveHole
    <3>2. free' = [free EXCEPT ![source] = Tail(free[source])] /\ hole' = Head(free[source])
          /\ source' = source /\ pc = "carve" /\ pc' = "lower"
      BY <2>1 DEF RemoveHole
    <3>3. /\ free' \in [Order -> Seq(Nat)]
          /\ \A i \in Order : i > source => free'[i] = free[i]
      BY <1>2, <1>5, <3>1, <3>2 DEF Order
    <3>4. PlaceSought' /\ ~InsertUpper
      BY <1>2, <1>3, <1>4, <3>2 DEF PlaceSought, InsertUpper
    <3>. QED  BY <1>2, <3>1, <3>2, <3>3, <3>4 DEF Order
  <2>2. CASE InsertLower
    <3>1. InsertPair(free[source - 1], hole) \in Seq(Nat)
      BY <1>6, <1>8
    <3>2. free' = [free EXCEPT ![source - 1] = InsertPair(free[source - 1], hole)]
          /\ UNCHANGED <<source, hole>> /\ pc = "lower" /\ pc' = "upper"
      BY <2>2 DEF InsertLower
    <3>3. /\ free' \in [Order -> Seq(Nat)]
          /\ \A i \in Order : i > source => free'[i] = free[i]
      BY <1>2, <1>4, <1>5, <3>1, <3>2 DEF Order
    <3>4. PlaceSought' /\ ~InsertUpper
      BY <1>2, <1>3, <1>4, <3>2 DEF PlaceSought, InsertUpper
    <3>. QED  BY <1>2, <1>6, <3>2, <3>3, <3>4 DEF Order
  <2>3. CASE InsertUpper
    <3>. DEFINE t == InsertPair(free[source - 1], hole + BlockSize[source - 1])
    <3>1. t \in Seq(Nat) /\ t # <<>>
      BY <1>7, <1>8
    <3>2. free' = [free EXCEPT ![source - 1] = t]
          /\ source' = source - 1 /\ hole' = 0 /\ pc = "upper" /\ pc' = "carve"
      BY <2>3 DEF InsertUpper
    <3>. HIDE DEF t
    <3>3. /\ free' \in [Order -> Seq(Nat)] /\ free'[source - 1] = t
          /\ \A i \in Order : i > source => free'[i] = free[i]
      BY <1>2, <1>4, <1>5, <3>1, <3>2 DEF Order
    <3>4. PlaceSought'
      BY <1>2, <1>3, <1>4, <3>2 DEF PlaceSought
    <3>5. source - 1 <= source
      BY <1>2 DEF Order
    <3>. QED  BY <1>4, <3>1, <3>2, <3>3, <3>4, <3>5
  <2>. QED  BY <2>1, <2>2, <2>3
<1>10. Typed'
  <2>1. source' \in 0 .. MaxOrder + 1
    BY <1>9, MaxOrderAssumption DEF Order
  <2>. QED  BY <1>1, <1>9, <2>1 DEF Always, Typed, Labels, HandlerWindows
<1>11. MemoryTyped'
  BY <1>1, <1>9 DEF Always, MemoryTyped
<1>12. Hands'
  BY <1>1, <1>9 DEF Always, Hands, Receiving
<1>13. OnlyReceived' /\ Room' /\ HasBlock'
  BY <1>1 DEF Always, OnlyReceived, Room, Queued, HasBlock, Listed, Accepted
<1>14. NoFit'
  BY <1>1, <1>2, <1>9, NoFitKept
<1>. QED  BY <1>9, <1>10, <1>11, <1>12, <1>13, <1>14 DEF Always

\* The newcomer gets its block.
LEMMA TakeHoleAlways ==
  ASSUME Always, TakeHole
  PROVE  Always'
<1>. USE DEF generator, processes, loop, cpu, pcb, memory, local, search, OutsideMemory, Goto
<1>1. /\ pc = "carve" /\ pc' = "store" /\ free[source] # <<>> /\ source' = 0
      /\ block' = [block EXCEPT ![newcomer] = [start |-> Head(free[source]), order |-> source]]
      /\ free' = [free EXCEPT ![source] = Tail(@)]
      /\ UNCHANGED <<job, clk, gen, sent, msgq, shm, sem, child, halted, sig, polls, prevClk,
                     cpuFree, cur, pCount, table, rem, wait, ready, waitQ, newcomer, hole,
                     position, beyond, raced>>
  BY DEF TakeHole
<1>2. newcomer \in Id /\ source \in Order
  BY <1>1 DEF Always, Hands, PlaceSought, Receiving
<1>3. free \in [Order -> Seq(Nat)] /\ free[source] \in Seq(Nat) /\ DOMAIN block = Id
  BY <1>2 DEF Always, MemoryTyped
<1>4. Head(free[source]) \in Nat /\ Tail(free[source]) \in Seq(Nat)
  BY <1>1, <1>3, TailRange
<1>5. /\ DOMAIN block' = Id /\ block'[newcomer] \in BlockType
      /\ \A p \in Id : p # newcomer => block'[p] = block[p]
  BY <1>1, <1>2, <1>3, <1>4 DEF BlockType
<1>6. /\ free' \in [Order -> Seq(Nat)]
      /\ \A i \in Order : i > source => free'[i] = free[i]
  BY <1>1, <1>2, <1>3, <1>4, MaxOrderAssumption DEF Order
<1>7. Typed' /\ source' \in Order /\ source' <= source
  BY <1>1, <1>2, MaxOrderAssumption DEF Always, Typed, Labels, Order
<1>8. MemoryTyped'
  BY <1>1, <1>5, <1>6 DEF Always, MemoryTyped
<1>9. OnlyReceived' /\ Room'
  BY <1>1 DEF Always, OnlyReceived, Room, Queued, Listed, Accepted
<1>10. HasBlock'
  <2>1. table \subseteq Id
    BY DEF Always, Typed
  <2>. QED  BY <1>1, <1>5, <2>1 DEF Always, HasBlock, Listed
<1>11. Hands'
  BY <1>1, <1>2 DEF Always, Hands, PlaceSought, Receiving
<1>12. NoFit'
  BY <1>1, <1>2, <1>6, <1>7, NoFitKept
<1>. QED  BY <1>7, <1>8, <1>9, <1>10, <1>11, <1>12 DEF Always

\* An insertion behind the last element appends.
LEMMA InsertAtEnd ==
  ASSUME NEW S, NEW s \in Seq(S), NEW e \in S
  PROVE  InsertAt(s, Len(s) + 1, e) = Append(s, e)
<1>1. PICK n \in Nat : n = Len(s)
  BY LenProperties
<1>2. PICK i \in 1 .. Len(s) + 1 : i = n + 1
  BY <1>1
<1>3. /\ InsertAt(s, i, e) \in Seq(S) /\ Len(InsertAt(s, i, e)) = Len(s) + 1
      /\ \A k \in 1 .. Len(s) + 1 :
           InsertAt(s, i, e)[k] = IF k < i THEN s[k] ELSE IF k = i THEN e ELSE s[k - 1]
  BY ONLY s \in Seq(S), e \in S, i \in 1 .. Len(s) + 1, InsertAtProperties, SMTT(30)
<1>4. /\ Append(s, e) \in Seq(S) /\ Len(Append(s, e)) = Len(s) + 1
      /\ \A k \in 1 .. Len(s) : Append(s, e)[k] = s[k]
      /\ Append(s, e)[Len(s) + 1] = e
  BY ONLY s \in Seq(S), e \in S, AppendProperties, SMTT(30)
<1>. DEFINE a == InsertAt(s, i, e)
            b == Append(s, e)
<1>5. /\ a \in Seq(S) /\ Len(a) = n + 1
      /\ \A k \in 1 .. n + 1 : a[k] = IF k < i THEN s[k] ELSE IF k = i THEN e ELSE s[k - 1]
  BY <1>1, <1>3
<1>6. /\ b \in Seq(S) /\ Len(b) = n + 1
      /\ \A k \in 1 .. n : b[k] = s[k]
      /\ b[n + 1] = e
  BY <1>1, <1>4
<1>. HIDE DEF a, b
<1>7. \A k \in 1 .. n + 1 : a[k] = b[k]
  BY ONLY n \in Nat, <1>2, <1>5, <1>6
<1>8. a = b
  BY <1>5, <1>6, <1>7, SeqEqual
<1>. QED  BY <1>1, <1>2, <1>8 DEF a, b

\* As the list has not grown since its length was read, the position is its end.
LEMMA InsertedAtEnd ==
  ASSUME Always, InsertList
  PROVE  newcomer \in Id /\ waitQ' = Append(waitQ, newcomer)
<1>1. pc = "walk" /\ position <= Len(waitQ) /\ waitQ' = InsertAt(waitQ, position + 1, newcomer)
  BY DEF InsertList, Goto
<1>2. newcomer \in Id /\ waitQ \in Seq(Id) /\ Len(waitQ) <= position /\ position \in Nat
  BY <1>1, NAssumption DEF Always, Typed, Hands, PlaceSought, Receiving
<1>3. PICK n \in Nat : n = Len(waitQ)
  BY <1>2, LenProperties
<1>4. position = n
  BY <1>1, <1>2, <1>3
<1>. QED  BY <1>1, <1>2, <1>3, <1>4, InsertAtEnd

\* The newcomer waits for memory.
LEMMA InsertListAlways ==
  ASSUME Always, InsertList
  PROVE  Always'
<1>. USE DEF generator, processes, loop, cpu, pcb, memory, local, search, OutsideMemory, Goto
<1>1. /\ pc = "walk" /\ pc' = "receive" /\ newcomer' = None /\ position' = 0
      /\ waitQ' = Append(waitQ, newcomer)
      /\ UNCHANGED <<job, clk, gen, sent, msgq, shm, sem, child, halted, sig, polls, prevClk,
                     cpuFree, cur, pCount, table, rem, wait, ready, free, block, source, hole,
                     beyond, raced>>
  BY InsertedAtEnd DEF InsertList
<1>2. newcomer \in Id /\ newcomer' \notin Id
  BY <1>1, PointerAssumption DEF Always, Hands, Receiving
<1>3. /\ waitQ' \in Seq(Id) /\ Len(waitQ') = Len(waitQ) + 1
      /\ Range(waitQ') = Range(waitQ) \cup {newcomer}
  BY <1>1, <1>2, AppendRange DEF Always, Typed
<1>4. Typed'
  <2>1. position' \in 0 .. N
    BY <1>1, NAssumption
  <2>. QED  BY <1>1, <1>3, <2>1 DEF Always, Typed, Labels
<1>5. MemoryTyped' /\ HasBlock'
  BY <1>1 DEF Always, MemoryTyped, HasBlock, Listed
<1>6. OnlyReceived'
  BY <1>1, <1>2, <1>3 DEF Always, OnlyReceived, Listed, Accepted
<1>7. Room'
  <2>1. PICK a, b \in Nat : a = Len(ready) /\ b = Len(waitQ)
    BY LenProperties DEF Always, MemoryTyped, Typed
  <2>2. PICK c \in Nat : c = Cardinality(Accepted)
    BY AcceptedFinite, FS_CardinalityType
  <2>3. a + b + 1 <= c
    BY <1>2, <2>1, <2>2 DEF Always, Room, Queued
  <2>4. Accepted' = Accepted /\ Len(ready') = a /\ Len(waitQ') = b + 1
    BY <1>1, <1>3, <2>1 DEF Accepted
  <2>5. a + (b + 1) <= c
    BY <2>3
  <2>. QED  BY <1>2, <2>2, <2>4, <2>5 DEF Room, Queued
<1>8. Hands'
  BY <1>1, <1>2 DEF Always, Hands, PlaceSought, Receiving
<1>9. NoFit'
  <2>1. SUFFICES ASSUME raced \cap (DelayWindows \cup {"walk"}) = {}
                 PROVE  \A k \in DOMAIN waitQ' : ~Fits(free, job.size[waitQ'[k]])
    BY <1>1 DEF NoFit
  <2>2. \A p \in Range(waitQ) \cup {newcomer} : ~Fits(free, job.size[p])
    BY <1>1, <2>1 DEF Always, NoFit, Range
  <2>3. \A k \in DOMAIN waitQ' : waitQ'[k] \in Range(waitQ')
    BY DEF Range
  <2>. QED  BY <1>3, <2>2, <2>3
<1>. QED  BY <1>4, <1>5, <1>6, <1>7, <1>8, <1>9 DEF Always

\* The newcomer is written behind the queue.
LEMMA StoreAlways ==
  ASSUME Always, StoreSlot
  PROVE  Always' /\ Head(beyond') = newcomer
<1>. USE DEF generator, processes, loop, cpu, pcb, memory, local, search, OutsideMemory, Goto
<1>1. /\ pc = "store" /\ pc' = "grow" /\ beyond # <<>> /\ beyond' = [beyond EXCEPT ![1] = newcomer]
      /\ UNCHANGED <<job, clk, gen, sent, msgq, shm, sem, child, halted, sig, polls, prevClk,
                     cpuFree, cur, pCount, table, rem, wait, ready, free, block, waitQ,
                     newcomer, search, raced>>
  BY DEF StoreSlot
<1>2. newcomer \in Id /\ newcomer \in Slot
  BY <1>1 DEF Always, Hands, Receiving, Slot
<1>3. /\ beyond' \in Seq(Slot) /\ Len(beyond') = Len(beyond) /\ Head(beyond') = newcomer
      /\ Range(beyond') \subseteq Range(beyond) \cup {newcomer}
  <2>1. beyond \in Seq(Slot) /\ beyond # <<>> /\ newcomer \in Slot
    BY <1>1, <1>2 DEF Always, MemoryTyped
  <2>. DEFINE t == [beyond EXCEPT ![1] = newcomer]
  <2>2. /\ t \in Seq(Slot) /\ Len(t) = Len(beyond)
        /\ Range(t) \subseteq Range(beyond) \cup {newcomer}
        /\ Head(t) = newcomer
    BY <2>1, WriteRange
  <2>3. beyond' = t
    BY <1>1
  <2>. HIDE DEF t
  <2>. QED  BY <2>2, <2>3
<1>4. Typed'
  BY <1>1 DEF Always, Typed, Labels, HandlerWindows, DelayWindows
<1>5. MemoryTyped'
  BY <1>1, <1>3 DEF Always, MemoryTyped
<1>6. OnlyReceived' /\ Room'
  <2>1. Listed' \subseteq Listed \cup {newcomer}
    BY <1>1, <1>3 DEF Listed
  <2>2. Accepted' = Accepted
    BY <1>1 DEF Accepted
  <2>3. OnlyReceived'
    BY <1>1, <2>1, <2>2 DEF Always, OnlyReceived
  <2>. QED  BY <1>1, <2>2, <2>3 DEF Always, Room, Queued
<1>7. HasBlock'
  BY <1>1, <1>3 DEF Always, HasBlock, Listed
<1>8. Hands' /\ NoFit'
  BY <1>1 DEF Always, Hands, PlaceSought, Receiving, NoFit
<1>. QED  BY <1>3, <1>4, <1>5, <1>6, <1>7, <1>8 DEF Always

\* The slot behind the queue is counted, whoever is in it: there is one for every
\* process that was accepted.
LEMMA GrowAlways ==
  ASSUME Always, Grow
  PROVE  Always' /\ beyond # <<>>
<1>. USE DEF generator, processes, loop, cpu, pcb, memory, local, search, OutsideMemory, Goto
<1>1. /\ pc = "grow" /\ pc' = "receive" /\ newcomer' = None
      /\ ready' = Append(ready, Head(beyond)) /\ beyond' = Tail(beyond)
      /\ UNCHANGED <<job, clk, gen, sent, msgq, shm, sem, child, halted, sig, polls, prevClk,
                     cpuFree, cur, pCount, table, rem, wait, free, block, waitQ, search,
                     raced>>
  BY DEF Grow
<1>2. newcomer \in Id /\ newcomer' \notin Id
  BY <1>1, PointerAssumption DEF Always, Hands, Receiving
<1>3. ready \in Seq(Slot) /\ beyond \in Seq(Slot) /\ Len(ready) + Len(beyond) = N
  BY DEF Always, MemoryTyped
<1>4. PICK a, b, d \in Nat : a = Len(ready) /\ b = Len(waitQ) /\ d = Len(beyond)
  BY <1>3, LenProperties DEF Always, Typed
<1>5. PICK c \in Nat : c = Cardinality(Accepted)
  BY AcceptedFinite, FS_CardinalityType
<1>6. a + b + 1 <= c /\ c <= N /\ a + d = N
  BY <1>2, <1>3, <1>4, <1>5, AcceptedFinite DEF Always, Room, Queued
<1>7. d > 0
  BY <1>6, NAssumption
<1>8. beyond # <<>>
  BY <1>3, <1>4, <1>7
<1>9. /\ Head(beyond) \in Slot /\ Head(beyond) \in Range(beyond)
      /\ beyond' \in Seq(Slot) /\ Len(beyond') = Len(beyond) - 1
      /\ Range(beyond') \subseteq Range(beyond)
  BY <1>1, <1>3, <1>8, TailRange
<1>10. /\ ready' \in Seq(Slot) /\ Len(ready') = Len(ready) + 1
       /\ Range(ready') = Range(ready) \cup {Head(beyond)}
  BY <1>1, <1>3, <1>9, AppendRange
<1>11. Typed'
  BY <1>1 DEF Always, Typed, Labels
<1>12. MemoryTyped'
  <2>1. Len(ready') + Len(beyond') = (a + 1) + (d - 1) /\ (a + 1) + (d - 1) = N
    BY <1>4, <1>6, <1>9, <1>10
  <2>. QED  BY <1>1, <1>9, <1>10, <2>1 DEF Always, MemoryTyped
<1>13. Listed' \subseteq Listed
  BY <1>1, <1>9, <1>10 DEF Listed
<1>14. OnlyReceived'
  BY <1>1, <1>2, <1>13 DEF Always, OnlyReceived, Accepted
<1>15. Room'
  <2>1. Accepted' = Accepted /\ Len(ready') = a + 1 /\ Len(waitQ') = b
    BY <1>1, <1>4, <1>10 DEF Accepted
  <2>2. (a + 1) + b <= c
    BY <1>6
  <2>. QED  BY <1>2, <1>5, <2>1, <2>2 DEF Room, Queued
<1>16. HasBlock' /\ NoFit'
  BY <1>1, <1>13 DEF Always, HasBlock, NoFit
<1>17. Hands'
  BY <1>1, <1>2 DEF Always, Hands, PlaceSought, Receiving
<1>. QED  BY <1>8, <1>11, <1>12, <1>14, <1>15, <1>16, <1>17 DEF Always

\* The handler may run at any place of the loop.
LEMMA HandlerAlways ==
  ASSUME Always, Handler
  PROVE  Always' /\ Len(waitQ') + Len(ready') <= Len(waitQ) + Len(ready)
<1>. USE DEF generator, processes, loop, cpu, pcb, memory, local, search
<1>1. /\ sig /\ ~Stopped /\ sig' = FALSE /\ cpuFree' = TRUE /\ pCount' = pCount + 1
      /\ UNCHANGED <<job, clk, gen, sent, msgq, shm, sem, child, halted, polls, prevClk, rem,
                     wait, newcomer, search>>
      /\ raced' = raced \cup ({pc} \cap HandlerWindows)
      /\ beyond' = SubSeq(beyond, 1 + Len(ready') - Len(ready), Len(beyond))
  BY DEF Handler, processTerminate
<1>2. ready \in Seq(Slot) /\ beyond \in Seq(Slot) /\ Len(ready) + Len(beyond) = N
  BY DEF Always, MemoryTyped
<1>3. PICK a, b \in Nat : a = Len(ready) /\ b = Len(beyond) /\ a + b = N
  BY <1>2, LenProperties
<1>4. PICK w \in Nat : w = Len(waitQ)
  BY LenProperties DEF Always, Typed
<1>5. PICK c \in Nat : c = Cardinality(Accepted)
  BY AcceptedFinite, FS_CardinalityType
<1>6. Accepted' = Accepted
  BY <1>1 DEF Accepted
<1>7. table \subseteq Id
  BY DEF Always, Typed
<1>8. ASSUME NEW n \in Nat, ready' \in Seq(Slot), n = Len(ready'), a <= n, n <= N
      PROVE  /\ beyond' \in Seq(Slot) /\ Len(ready') + Len(beyond') = N
             /\ Range(beyond') \subseteq Range(beyond)
  <2>1. n - a \in Nat /\ 1 + n - a = 1 + (n - a) /\ n - a <= b
    BY <1>3, <1>8, NAssumption
  <2>2. beyond' = SubSeq(beyond, 1 + (n - a), Len(beyond)) /\ n - a <= Len(beyond)
    BY <1>1, <1>3, <1>8, <2>1
  <2>3. /\ SubSeq(beyond, 1 + (n - a), Len(beyond)) \in Seq(Slot)
        /\ Len(SubSeq(beyond, 1 + (n - a), Len(beyond))) = Len(beyond) - (n - a)
        /\ Range(SubSeq(beyond, 1 + (n - a), Len(beyond))) \subseteq Range(beyond)
    BY <1>2, <2>1, <2>2, BackRange
  <2>4. n + (b - (n - a)) = N
    BY <1>3
  <2>. QED  BY <1>3, <1>8, <2>2, <2>3, <2>4
<1>9. CASE cur \in table
  <2>. DEFINE fl == Release(free, block[cur].start, block[cur].order)
              blk == [block EXCEPT ![cur] = None]
              s == Scanned(fl, blk)
  <2>1. /\ free' = s.free /\ block' = s.block /\ waitQ' = s.waitQ /\ ready' = s.ready
        /\ table' = table \ {cur} /\ cur' = None /\ pc' = pc
    BY <1>9 DEF Handler, processTerminate
  <2>2. block[cur] \in BlockType /\ cur \in Id
    BY <1>7, <1>9 DEF Always, HasBlock, Listed
  <2>3. fl \in [Order -> Seq(Nat)]
    BY <2>2, ReleaseType DEF Always, MemoryTyped, BlockType
  <2>4. DOMAIN blk = Id /\ \A p \in Id : p # cur => blk[p] = block[p]
    BY DEF Always, MemoryTyped
  <2>. HIDE DEF fl, blk
  <2>5. ScanTyped(blk, s, Len(waitQ))
    <3>1. Len(ready) <= N
      BY <1>3, NAssumption
    <3>. QED  BY <1>2, <2>3, <2>4, <3>1, ScannedTyped DEF Always, Typed
  <2>. HIDE DEF s
  <2>6. /\ free' \in [Order -> Seq(Nat)] /\ DOMAIN block' = Id
        /\ waitQ' \in Seq(Id) /\ ready' \in Seq(Slot)
        /\ Len(ready) <= Len(ready') /\ Len(ready') <= N
        /\ Len(waitQ') + Len(ready') <= Len(waitQ) + Len(ready)
    BY <2>1, <2>5 DEF ScanTyped
  <2>7. /\ Range(waitQ') \cup Range(ready') \subseteq Range(waitQ) \cup Range(ready)
        /\ Range(waitQ') \subseteq Range(waitQ)
    BY <2>1, <2>5 DEF ScanTyped
  <2>8. /\ \A p \in Id : block'[p] = blk[p] \/ block'[p] \in BlockType
        /\ \A p \in Range(ready') : p \in Range(ready) \/ block'[p] \in BlockType
        /\ \A p \in Range(waitQ') : ~Fits(free', job.size[p])
    BY <2>1, <2>5 DEF ScanTyped
  <2>9. PICK n, v \in Nat : n = Len(ready') /\ v = Len(waitQ')
    BY <2>6, LenProperties
  <2>10. a <= n /\ n <= N /\ v + n <= w + a
    BY <1>3, <1>4, <2>6, <2>9
  <2>11. /\ beyond' \in Seq(Slot) /\ Len(ready') + Len(beyond') = N
         /\ Range(beyond') \subseteq Range(beyond)
    BY <1>8, <2>6, <2>9, <2>10
  <2>12. Typed'
    <3>1. pCount' \in Nat /\ table' \subseteq Id
      BY <1>1, <2>1 DEF Always, Typed
    <3>2. raced' \subseteq HandlerWindows \cup {"fork"}
      BY <1>1 DEF Always, Typed
    <3>. QED  BY <1>1, <2>1, <2>6, <3>1, <3>2 DEF Always, Typed
  <2>13. MemoryTyped'
    BY <2>6, <2>11 DEF MemoryTyped
  <2>14. \A p \in Listed' \cap Id : p \in Listed \/ p \in Range(waitQ)
    BY <2>1, <2>7, <2>11, PointerAssumption DEF Listed
  <2>15. OnlyReceived'
    BY <1>1, <1>6, <2>1, <2>7, <2>14 DEF Always, OnlyReceived
  <2>16. Room'
    <3>1. newcomer' = newcomer
      BY <1>1
    <3>2. CASE newcomer \in Id
      <4>1. a + w + 1 <= c
        BY <1>3, <1>4, <1>5, <3>2 DEF Always, Room, Queued
      <4>2. n + v + 1 <= c
        BY <2>10, <4>1
      <4>. QED  BY <1>5, <1>6, <2>9, <3>1, <3>2, <4>2 DEF Room, Queued
    <3>3. CASE newcomer \notin Id
      <4>1. a + w <= c
        BY <1>3, <1>4, <1>5, <3>3 DEF Always, Room, Queued
      <4>2. n + v <= c
        BY <2>10, <4>1
      <4>. QED  BY <1>5, <1>6, <2>9, <3>1, <3>3, <4>2 DEF Room, Queued
    <3>. QED  BY <3>2, <3>3
  <2>17. newcomer \in Id => newcomer # cur
    BY <2>2 DEF Always, Hands
  <2>18. HasBlock'
    <3>1. ASSUME NEW p \in Listed' \cap table' PROVE block'[p] \in BlockType
      <4>1. p \in Id /\ p # cur /\ p \in table /\ p # None
        BY <1>7, <2>1, PointerAssumption
      <4>2. p \in Range(ready') \/ p \in Range(beyond)
        BY <2>1, <2>11, <4>1 DEF Listed
      <4>3. CASE p \in Listed
        BY <2>4, <2>8, <4>1, <4>3 DEF Always, HasBlock
      <4>4. CASE p \notin Listed
        BY <2>8, <4>2, <4>4 DEF Listed
      <4>. QED  BY <4>3, <4>4
    <3>2. pc \in {"store", "grow"} => block'[newcomer] \in BlockType
      BY <2>4, <2>8, <2>17 DEF Always, HasBlock, Hands, Receiving
    <3>. QED  BY <1>1, <2>1, <3>1, <3>2 DEF HasBlock
  <2>19. Hands'
    <3>1. Wanted' = Wanted
      BY <1>1 DEF Wanted
    <3>2. /\ pc' \in Receiving => newcomer' \in Id
          /\ newcomer' \in Id => pc' \in Receiving \cup {"crashed"} /\ newcomer' \in table'
                                 /\ child'[newcomer'] = "none"
      BY <1>1, <2>1, <2>17 DEF Always, Hands
    <3>4. Len(waitQ') <= Len(waitQ)
      <4>1. v <= w
        BY <2>10
      <4>. QED  BY <1>4, <2>9, <4>1
    <3>5. PlaceSought'
      <4>1. position \in Nat
        BY NAssumption DEF Always, Typed
      <4>2. pc' = "walk" => Len(waitQ') <= position'
        BY <1>1, <1>4, <2>1, <2>9, <3>4, <4>1 DEF Always, Hands, PlaceSought
      <4>. QED  BY <1>1, <2>1, <3>1, <4>2 DEF Always, Hands, PlaceSought
    <3>3. cur' \notin Id /\ \A p \in table' : child'[p] = "none"
      BY <1>1, <2>1, PointerAssumption DEF Always, Hands
    <3>. QED  BY <3>2, <3>3, <3>5 DEF Hands
  <2>20. NoFit'
    <3>1. SUFFICES ASSUME raced' \cap (DelayWindows \cup {"walk"}) = {} PROVE NoFit'
      BY DEF NoFit
    <3>2. \A k \in DOMAIN waitQ' : waitQ'[k] \in Range(waitQ')
      BY DEF Range
    <3>3. \A k \in DOMAIN waitQ' : ~Fits(free', job'.size[waitQ'[k]])
      BY <1>1, <2>8, <3>2
    <3>4. pc' \notin {"search", "join", "walk"} /\ raced \cap (DelayWindows \cup {"walk"}) = {}
      BY <1>1, <2>1, <3>1 DEF HandlerWindows, DelayWindows
    <3>5. ASSUME pc' = "allocate", NEW i \in Order, Wanted' <= i, i < source'
          PROVE  FALSE
      <4>1. source' = Wanted' /\ source' \in Nat
        BY <1>1, <2>1, <3>5, MaxOrderAssumption DEF Always, Hands, PlaceSought, Typed, Wanted
      <4>. QED  BY <3>5, <4>1, MaxOrderAssumption DEF Order
    <3>6. ASSUME pc' \in {"carve", "lower", "upper"}, NEW k \in DOMAIN waitQ'
          PROVE  source' < OrderFor(job'.size[waitQ'[k]])
      <4>1. PICK i \in DOMAIN waitQ : waitQ[i] = waitQ'[k]
        BY <2>7, <3>2 DEF Range
      <4>2. source < OrderFor(job.size[waitQ[i]])
        BY <1>1, <2>1, <3>4, <3>6 DEF Always, NoFit
      <4>. QED  BY <1>1, <4>1, <4>2
    <3>. QED  BY <3>3, <3>4, <3>5, <3>6 DEF NoFit
  <2>. QED  BY <2>6, <2>12, <2>13, <2>15, <2>16, <2>18, <2>19, <2>20 DEF Always
<1>10. CASE cur \notin table
  <2>1. pc' = "crashed" /\ UNCHANGED <<free, block, waitQ, ready, table, cur>>
    BY <1>10 DEF Handler, processTerminate
  <2>2. /\ beyond' \in Seq(Slot) /\ Len(ready') + Len(beyond') = N
        /\ Range(beyond') \subseteq Range(beyond)
    <3>1. a <= a /\ a <= N
      BY <1>3
    <3>. QED  BY <1>2, <1>3, <1>8, <2>1, <3>1
  <2>3. Typed'
    <3>1. pCount' \in Nat /\ pc' \in Labels
      BY <1>1, <2>1 DEF Always, Typed, Labels
    <3>2. raced' \subseteq HandlerWindows \cup {"fork"}
      BY <1>1 DEF Always, Typed
    <3>. QED  BY <1>1, <2>1, <3>1, <3>2 DEF Always, Typed
  <2>4. MemoryTyped'
    BY <2>1, <2>2 DEF Always, MemoryTyped
  <2>5. Listed' \subseteq Listed
    BY <2>1, <2>2 DEF Listed
  <2>6. OnlyReceived' /\ Room'
    BY <1>1, <1>6, <2>1, <2>5 DEF Always, OnlyReceived, Room, Queued
  <2>7. HasBlock' /\ NoFit'
    BY <1>1, <2>1, <2>5 DEF Always, HasBlock, NoFit
  <2>8. Hands'
    BY <1>1, <2>1 DEF Always, Hands, PlaceSought, Receiving
  <2>9. Len(waitQ') + Len(ready') <= Len(waitQ) + Len(ready)
    BY <1>3, <1>4, <2>1
  <2>. QED  BY <2>3, <2>4, <2>6, <2>7, <2>8, <2>9 DEF Always
<1>. QED  BY <1>9, <1>10

\* It is inductive.
LEMMA AlwaysStep == Always /\ [Next]_vars => Always'
<1>1. ASSUME Always, UNCHANGED vars PROVE Always'
  <2>1. UNCHANGED <<job, clk, gen, sent, msgq, shm, sem, child, halted, sig, polls, prevClk, pc,
                    cpuFree, cur, pCount, table, rem, wait, ready, free, block, waitQ, newcomer,
                    search, beyond, raced>>
    BY <1>1 DEF vars, local, search, simVars, generator, processes, loop, cpu, pcb, memory
  <2>2. Typed'
    BY <1>1, <2>1 DEF Always, Typed, search
  <2>3. Hands'
    BY <1>1, <2>1 DEF Always, Hands, PlaceSought, Wanted, search
  <2>. QED  BY <1>1, <2>1, <2>2, <2>3, QuietStep DEF memory, search
<1>. QED
  BY <1>1, WorldAlways, HandlerAlways, TestsAlways, CurrentAlways, ReceiveAlways, DispatchAlways,
     SearchAlways, SplitAlways, TakeHoleAlways, InsertListAlways, StoreAlways, GrowAlways
  DEF Next, Loop

-----------------------------------------------------------------------------
(* How often processes end.                                                *)

\* The accepted that have left the queues: no more forks than these.
LeftQueues == Cardinality(Accepted) - Queued

At(states) == {p \in Id : child[p] \in states}

\* Whoever raises the semaphore, and whoever the handler counts, was forked, and for
\* every fork a slot was taken from the queue.  A window may have a process forked
\* twice and another one never, but not more forked than were accepted.
Ends ==
  /\ sem + Cardinality(At({"spin", "kill", "up"})) <= LeftQueues
  /\ pCount + (IF sig THEN 1 ELSE 0) + Cardinality(At({"spin", "kill"})) <= LeftQueues

\* The numbers are numbers.
LEMMA CountsAre ==
  Always => /\ LeftQueues \in Nat /\ LeftQueues <= N
            /\ Len(ready) \in Nat /\ Len(waitQ) \in Nat /\ Cardinality(Accepted) \in Nat
            /\ sem \in Nat /\ pCount \in Nat
<1>. SUFFICES ASSUME Always
              PROVE  /\ LeftQueues \in Nat /\ LeftQueues <= N
                     /\ Len(ready) \in Nat /\ Len(waitQ) \in Nat /\ Cardinality(Accepted) \in Nat
                     /\ sem \in Nat /\ pCount \in Nat
  OBVIOUS
<1>1. Len(ready) \in Nat /\ Len(waitQ) \in Nat
  BY LenProperties DEF Always, Typed, MemoryTyped
<1>2. Cardinality(Accepted) \in Nat /\ Cardinality(Accepted) <= N
  BY AcceptedFinite, FS_CardinalityType
<1>3. Queued \in Nat /\ Queued <= Cardinality(Accepted)
  BY <1>1, <1>2 DEF Always, Room, Queued
<1>4. PICK a, b \in Nat : a = Queued /\ b = Cardinality(Accepted)
  BY <1>2, <1>3
<1>5. b - a \in Nat /\ b - a <= N
  BY ONLY <1>2, <1>3, <1>4, NAssumption
<1>6. LeftQueues = b - a
  BY <1>4 DEF LeftQueues
<1>. QED  BY <1>1, <1>2, <1>5, <1>6 DEF Always, Typed

\* The processes at some place of process.c.
LEMMA AtFinite ==
  ASSUME NEW S
  PROVE  /\ IsFiniteSet(At(S)) /\ Cardinality(At(S)) \in Nat
         /\ IsFiniteSet(At(S)') /\ Cardinality(At(S)') \in Nat
<1>1. IsFiniteSet(Id)
  BY NAssumption, FS_Interval DEF Id
<1>2. At(S) \in SUBSET Id /\ At(S)' \in SUBSET Id
  BY DEF At
<1>. QED  BY <1>1, <1>2, FS_Subset, FS_CardinalityType

\* Only a dispatch takes an entry out of the queues; nothing puts one in that the
\* scheduler has not received.
LEMMA LeftQueuesGrows ==
  ASSUME Always, Always', Next
  PROVE  LeftQueues' >= LeftQueues /\ (Dispatch => LeftQueues' >= LeftQueues + 1)
<1>. USE DEF generator, processes, loop, cpu, pcb, memory, local, search, Goto
<1>7. PICK r \in Nat, w \in Nat, c \in Nat :
        r = Len(ready) /\ w = Len(waitQ) /\ c = Cardinality(Accepted)
  BY CountsAre
<1>8. PICK r1 \in Nat, w1 \in Nat, c1 \in Nat :
        r1 = Len(ready)' /\ w1 = Len(waitQ)' /\ c1 = Cardinality(Accepted)'
  <2>1. Len(ready)' \in Nat /\ Len(waitQ)' \in Nat /\ Cardinality(Accepted)' \in Nat
    <3>1. (Always => Len(ready) \in Nat /\ Len(waitQ) \in Nat /\ Cardinality(Accepted) \in Nat)'
      BY CountsAre, PTL
    <3>. QED  BY <3>1
  <2>. QED  BY <2>1
<1>1. /\ r = Len(ready) /\ w = Len(waitQ) /\ c = Cardinality(Accepted)
      /\ r1 = Len(ready)' /\ w1 = Len(waitQ)' /\ c1 = Cardinality(Accepted)'
  BY <1>7, <1>8
<1>2. PICK n, n1 \in Nat : /\ n = IF newcomer \in Id THEN 1 ELSE 0
                           /\ n1 = IF newcomer' \in Id THEN 1 ELSE 0
  OBVIOUS
<1>3. LeftQueues = c - (r + w + n) /\ LeftQueues' = c1 - (r1 + w1 + n1)
  BY <1>1, <1>2 DEF LeftQueues, Queued
<1>4. SUFFICES /\ r1 + w1 + n1 + c <= r + w + n + c1
               /\ Dispatch => r1 + w1 + n1 + c + 1 <= r + w + n + c1
  BY ONLY <1>3, <1>4, r \in Nat, w \in Nat, c \in Nat, r1 \in Nat, w1 \in Nat, c1 \in Nat,
          n \in Nat, n1 \in Nat
<1>5. CASE Dispatch
  <2>1. /\ ready \in Seq(Slot) /\ UNCHANGED <<waitQ, newcomer, sent, msgq>>
        /\ ready # <<>>
    BY <1>5 DEF Dispatch, Always, MemoryTyped
  <2>2. PICK k : k \in DOMAIN ready /\ ready' = WithoutSlot(ready, k)
    BY <1>5, <2>1, PeekInArray DEF Dispatch, Dequeue
  <2>3. Len(ready') = Len(ready) - 1
    BY <2>1, <2>2, WithoutRange
  <2>4. w1 = w /\ c1 = c /\ n1 = n /\ r1 = r - 1
    BY <1>1, <1>2, <2>1, <2>3 DEF Accepted
  <2>. QED  BY ONLY <2>4, r \in Nat, w \in Nat, c \in Nat, n \in Nat
<1>6. CASE ~Dispatch
  <2>1. CASE UNCHANGED <<ready, waitQ, newcomer>> /\ Accepted' = Accepted
    <3>1. r1 = r /\ w1 = w /\ c1 = c /\ n1 = n
      BY <1>1, <1>2, <2>1
    <3>. QED  BY ONLY <3>1, <1>6, r \in Nat, w \in Nat, c \in Nat, n \in Nat
  <2>2. CASE World
    <3>1. UNCHANGED <<ready, waitQ, newcomer>>
      BY <2>2 DEF World, Tick, Notice, Send, GoOn, Leave, LeaveLoop, Signal, Up
    <3>. QED  BY <2>1, <2>2, <3>1, WorldAlways
  <2>3. CASE Handler
    <3>1. UNCHANGED <<sent, msgq, newcomer>>
      BY <2>3 DEF Handler, processTerminate
    <3>2. Len(waitQ') + Len(ready') <= Len(waitQ) + Len(ready)
      BY <2>3, HandlerAlways
    <3>3. c1 = c /\ n1 = n /\ w1 + r1 <= w + r
      BY <1>1, <1>2, <3>1, <3>2 DEF Accepted
    <3>. QED  BY ONLY <3>3, <1>6, r \in Nat, w \in Nat, c \in Nat, n \in Nat, r1 \in Nat, w1 \in Nat
  <2>4. CASE receiveNewProcess
    <3>1. UNCHANGED <<ready, waitQ>>
      BY <2>4 DEF receiveNewProcess
    <3>2. c1 = c + 1 /\ n = 0 /\ n1 = 1 /\ r1 = r /\ w1 = w
      BY <1>1, <1>2, <2>4, <3>1, ReceiveAlways
    <3>. QED  BY ONLY <3>2, <1>6, r \in Nat, w \in Nat, c \in Nat
  <2>5. CASE InsertList
    <3>1. /\ pc = "walk" /\ waitQ' = Append(waitQ, newcomer) /\ newcomer' = None
          /\ UNCHANGED <<ready, sent, msgq>>
      BY <2>5, InsertedAtEnd DEF InsertList, OutsideMemory
    <3>2. newcomer \in Id /\ newcomer' \notin Id /\ waitQ \in Seq(Id)
      BY <3>1, PointerAssumption DEF Always, Typed, Hands, Receiving
    <3>3. Len(waitQ') = Len(waitQ) + 1
      BY <3>1, <3>2, AppendRange
    <3>4. c1 = c /\ n = 1 /\ n1 = 0 /\ r1 = r /\ w1 = w + 1
      BY <1>1, <1>2, <3>1, <3>2, <3>3 DEF Accepted
    <3>. QED  BY ONLY <3>4, <1>6, r \in Nat, w \in Nat, c \in Nat
  <2>6. CASE Grow
    <3>1. /\ pc = "grow" /\ ready' = Append(ready, Head(beyond)) /\ newcomer' = None
          /\ UNCHANGED <<waitQ, sent, msgq>>
      BY <2>6 DEF Grow, OutsideMemory
    <3>2. newcomer \in Id /\ newcomer' \notin Id /\ ready \in Seq(Slot) /\ Head(beyond) \in Slot
      <4>1. beyond # <<>>
        BY <2>6, GrowAlways
      <4>. QED  BY <3>1, <4>1, TailRange, PointerAssumption DEF Always, MemoryTyped, Hands, Receiving
    <3>3. Len(ready') = Len(ready) + 1
      BY <3>1, <3>2, AppendRange
    <3>4. c1 = c /\ n = 1 /\ n1 = 0 /\ r1 = r + 1 /\ w1 = w
      BY <1>1, <1>2, <3>1, <3>2, <3>3 DEF Accepted
    <3>. QED  BY ONLY <3>4, <1>6, r \in Nat, w \in Nat, c \in Nat
  <2>7. CASE \/ ReceiveNobody \/ Allocating
             \/ StoreSlot \/ Received \/ NewSecond \/ SameSecond \/ Charge \/ FollowNull
             \/ DispatchNobody \/ DispatchUnset \/ TakeCpu \/ Start \/ Publish \/ End
    <3>1. UNCHANGED <<ready, waitQ, newcomer, sent, msgq>>
      BY <2>7, AllocatingIs
      DEF ReceiveNobody, PollEmpty, StoreSlot, Received, NewSecond, SameSecond, Charge, FollowNull,
          DispatchNobody, DispatchUnset, TakeCpu, Start, Publish, End, OutsideMemory
    <3>. QED  BY <2>1, <3>1 DEF Accepted
  <2>. QED  BY <1>6, <2>2, <2>3, <2>4, <2>5, <2>6, <2>7 DEF Next, Loop, Allocating
<1>. QED  BY <1>5, <1>6

\* In the first state nobody was accepted.
LEMMA EndsInit == Init => Ends
<1>. SUFFICES ASSUME Init PROVE Ends
  OBVIOUS
<1>1. LeftQueues \in Nat
  BY AlwaysInit, CountsAre
<1>2. At({"spin", "kill", "up"}) = {} /\ At({"spin", "kill"}) = {}
  BY DEF At, Init, SimInit
<1>3. Cardinality({}) = 0
  BY FS_EmptySet
<1>4. sem = 0 /\ pCount = 0 /\ sig = FALSE
  BY DEF Init, SimInit
<1>. QED  BY <1>1, <1>2, <1>3, <1>4 DEF Ends

\* A process goes from one place of process.c to the next.
LEMMA AtMoves ==
  ASSUME NEW p \in Id, NEW s, child \in [Id -> {"none", "spin", "kill", "up", "gone"}],
         child' = [child EXCEPT ![p] = s]
  PROVE  /\ \A S : s \notin S /\ child[p] \in S => Cardinality(At(S)) = Cardinality(At(S)') + 1
         /\ \A S : s \in S /\ child[p] \in S => At(S)' = At(S)
         /\ \A S : Cardinality(At(S)') <= Cardinality(At(S)) + 1
<1>1. \A q \in Id : child'[q] = IF q = p THEN s ELSE child[q]
  OBVIOUS
<1>2. ASSUME NEW S, s \notin S, child[p] \in S PROVE Cardinality(At(S)) = Cardinality(At(S)') + 1
  <2>1. At(S) = At(S)' \cup {p} /\ p \notin At(S)'
    BY <1>1, <1>2 DEF At
  <2>2. PICK A, B : A = At(S) /\ B = At(S)'
    OBVIOUS
  <2>3. IsFiniteSet(B) /\ A = B \cup {p} /\ p \notin B
    BY <2>1, <2>2, AtFinite
  <2>4. Cardinality(B \cup {p}) = Cardinality(B) + 1
    BY ONLY <2>3, FS_AddElement
  <2>. QED  BY <2>2, <2>3, <2>4
<1>3. ASSUME NEW S, s \in S, child[p] \in S PROVE At(S)' = At(S)
  BY <1>1, <1>3 DEF At
<1>4. ASSUME NEW S PROVE Cardinality(At(S)') <= Cardinality(At(S)) + 1
  <2>1. At(S)' \subseteq At(S) \cup {p}
    BY <1>1 DEF At
  <2>2. /\ IsFiniteSet(At(S) \cup {p})
        /\ Cardinality(At(S) \cup {p}) <= Cardinality(At(S)) + 1
    <3>1. PICK A : A = At(S)
      OBVIOUS
    <3>2. IsFiniteSet(A) /\ Cardinality(A) \in Nat
      BY <3>1, AtFinite
    <3>3. /\ IsFiniteSet(A \cup {p})
          /\ Cardinality(A \cup {p}) = Cardinality(A) \/ Cardinality(A \cup {p}) = Cardinality(A) + 1
      BY ONLY <3>2, FS_AddElement
    <3>. QED  BY <3>1, <3>2, <3>3
  <2>3. Cardinality(At(S)') <= Cardinality(At(S) \cup {p})
    BY <2>1, <2>2, FS_Subset
  <2>4. IsFiniteSet(At(S)')
    BY <2>1, <2>2, FS_Subset
  <2>5. PICK a \in Nat, b \in Nat, c \in Nat :
          /\ a = Cardinality(At(S)') /\ b = Cardinality(At(S))
          /\ c = Cardinality(At(S) \cup {p})
    BY <2>2, <2>4, FS_CardinalityType, AtFinite
  <2>6. a <= c /\ c <= b + 1
    BY <2>2, <2>3, <2>5
  <2>7. a <= b + 1
    BY ONLY <2>6, a \in Nat, b \in Nat, c \in Nat
  <2>. QED  BY <2>5, <2>7
<1>. QED  BY <1>2, <1>3, <1>4

\* A fork takes an entry of the queue with it; a process that ends is then counted
\* in one place after the other.
LEMMA EndsStep == Always /\ Ends /\ [Next]_vars => Ends'
<1>. SUFFICES ASSUME Always, Ends, [Next]_vars PROVE Ends'
  OBVIOUS
<1>1. Always'
  BY AlwaysStep
<1>. DEFINE Live == {"spin", "kill", "up"}
            Early == {"spin", "kill"}
<1>2. PICK l \in Nat, a \in Nat, b \in Nat :
        l = LeftQueues /\ a = Cardinality(At(Live)) /\ b = Cardinality(At(Early))
  BY CountsAre, AtFinite
<1>19. (Always => LeftQueues \in Nat /\ sem \in Nat /\ pCount \in Nat)'
  BY CountsAre, PTL
<1>3. PICK l1 \in Nat, a1 \in Nat, b1 \in Nat :
        l1 = LeftQueues' /\ a1 = Cardinality(At(Live)') /\ b1 = Cardinality(At(Early)')
  BY <1>1, <1>19, AtFinite
<1>4. PICK s \in Nat, n \in Nat, g \in Nat :
        s = sem /\ n = pCount /\ g = IF sig THEN 1 ELSE 0
  BY CountsAre
<1>5. PICK s1 \in Nat, n1 \in Nat, g1 \in Nat :
        s1 = sem' /\ n1 = pCount' /\ g1 = IF sig' THEN 1 ELSE 0
  BY <1>1, <1>19
<1>6. s + a <= l /\ n + g + b <= l
  BY <1>2, <1>4 DEF Ends
<1>7. SUFFICES s1 + a1 <= l1 /\ n1 + g1 + b1 <= l1
  BY <1>3, <1>5 DEF Ends
<1>8. child \in [Id -> {"none", "spin", "kill", "up", "gone"}]
  BY DEF Always, Typed
<1>. HIDE DEF Live, Early
<1>. USE DEF generator, processes, loop, cpu, pcb, memory, local, search
<1>9. ASSUME Next, ~Dispatch PROVE l <= l1
  BY <1>1, <1>2, <1>3, <1>9, LeftQueuesGrows
<1>10. CASE UNCHANGED <<sem, child, sig, pCount>> /\ l <= l1
  <2>1. s1 = s /\ n1 = n /\ g1 = g /\ a1 = a /\ b1 = b
    BY <1>2, <1>3, <1>4, <1>5, <1>10 DEF At
  <2>. QED  BY ONLY <1>6, <1>10, <2>1, s \in Nat, n \in Nat, g \in Nat, a \in Nat, b \in Nat,
                l \in Nat, l1 \in Nat
<1>11. CASE Dispatch
  <2>1. UNCHANGED <<sem, sig, pCount>>
    BY <1>11 DEF Dispatch
  <2>2. PICK p : child' = [child EXCEPT ![p] = "spin"]
    BY <1>11 DEF Dispatch
  <2>3. a1 <= a + 1 /\ b1 <= b + 1
    <3>1. CASE p \in Id
      BY <1>2, <1>3, <1>8, <2>2, <3>1, AtMoves
    <3>2. CASE p \notin Id
      <4>1. child' = child
        BY <1>8, <2>2, <3>2
      <4>. QED  BY <1>2, <1>3, <4>1 DEF At
    <3>. QED  BY <3>1, <3>2
  <2>4. s1 = s /\ n1 = n /\ g1 = g
    BY <1>4, <1>5, <2>1
  <2>5. l + 1 <= l1
    BY <1>1, <1>2, <1>3, <1>11, LeftQueuesGrows DEF Next, Loop
  <2>. QED  BY ONLY <1>6, <2>3, <2>4, <2>5, s \in Nat, n \in Nat, g \in Nat, a \in Nat, b \in Nat,
                l \in Nat, l1 \in Nat, a1 \in Nat, b1 \in Nat
<1>12. CASE Handler
  <2>1. /\ sig /\ sig' = FALSE /\ pCount' = pCount + 1 /\ UNCHANGED <<sem, child>>
        /\ UNCHANGED <<sent, msgq, newcomer>>
    BY <1>12 DEF Handler, processTerminate
  <2>2. s1 = s /\ n1 = n + 1 /\ g = 1 /\ g1 = 0 /\ a1 = a /\ b1 = b
    BY <1>2, <1>3, <1>4, <1>5, <2>1 DEF At
  <2>3. CASE ~Dispatch
    <3>1. l <= l1
      BY <1>9, <1>12, <2>3 DEF Next
    <3>. QED  BY ONLY <1>6, <2>2, <3>1, s \in Nat, n \in Nat, a \in Nat, b \in Nat,
                  l \in Nat, l1 \in Nat
  <2>. QED  BY <1>11, <2>3
<1>13. ASSUME NEW p \in Id, LeaveLoop(p), l <= l1
       PROVE  s1 + a1 <= l1 /\ n1 + g1 + b1 <= l1
  <2>1. child[p] = "spin" /\ child' = [child EXCEPT ![p] = "kill"] /\ UNCHANGED <<sem, sig, pCount>>
    BY <1>13 DEF LeaveLoop, Runs
  <2>2. a1 = a /\ b1 = b
    <3>1. {"spin", "kill"} \subseteq Live \cap Early
      BY DEF Live, Early
    <3>. QED  BY <1>2, <1>3, <1>8, <2>1, <3>1, AtMoves
  <2>3. s1 = s /\ n1 = n /\ g1 = g
    BY <1>4, <1>5, <2>1
  <2>. QED  BY ONLY <1>6, <1>13, <2>2, <2>3, s \in Nat, n \in Nat, g \in Nat, a \in Nat, b \in Nat,
                l \in Nat, l1 \in Nat
<1>14. ASSUME NEW p \in Id, Signal(p), l <= l1
       PROVE  s1 + a1 <= l1 /\ n1 + g1 + b1 <= l1
  <2>1. child[p] = "kill" /\ child' = [child EXCEPT ![p] = "up"] /\ sig' = TRUE
        /\ UNCHANGED <<sem, pCount>>
    BY <1>14 DEF Signal, Runs
  <2>2. a1 = a /\ b = b1 + 1
    <3>1. {"kill", "up"} \subseteq Live /\ "kill" \in Early /\ "up" \notin Early
      BY DEF Live, Early
    <3>. QED  BY <1>2, <1>3, <1>8, <2>1, <3>1, AtMoves
  <2>3. s1 = s /\ n1 = n /\ g1 = 1
    BY <1>4, <1>5, <2>1
  <2>. QED  BY ONLY <1>6, <1>14, <2>2, <2>3, s \in Nat, n \in Nat, g \in Nat, a \in Nat, b1 \in Nat,
                l \in Nat, l1 \in Nat
<1>15. ASSUME NEW p \in Id, Up(p), l <= l1
       PROVE  s1 + a1 <= l1 /\ n1 + g1 + b1 <= l1
  <2>1. child[p] = "up" /\ child' = [child EXCEPT ![p] = "gone"] /\ sem' = sem + 1
        /\ UNCHANGED <<sig, pCount>>
    BY <1>15 DEF Up, Runs
  <2>2. a = a1 + 1 /\ b1 = b
    <3>1. "up" \in Live /\ "gone" \notin Live
      BY DEF Live
    <3>2. At(Early)' = At(Early)
      BY <1>8, <2>1 DEF At, Early
    <3>. QED  BY <1>2, <1>3, <1>8, <2>1, <3>1, <3>2, AtMoves
  <2>3. s1 = s + 1 /\ n1 = n /\ g1 = g
    BY <1>4, <1>5, <2>1
  <2>. QED  BY ONLY <1>6, <1>15, <2>2, <2>3, s \in Nat, n \in Nat, g \in Nat, a1 \in Nat, b \in Nat,
                l \in Nat, l1 \in Nat
<1>16. CASE World
  <2>1. UNCHANGED <<ready, waitQ, newcomer>>
    BY <1>16 DEF World, Tick, Notice, Send, GoOn, Leave, LeaveLoop, Signal, Up
  <2>2. l1 = l
    BY <1>2, <1>3, <1>16, <2>1, WorldAlways DEF LeftQueues, Queued
  <2>3. CASE Tick \/ Notice \/ Send
    BY <1>10, <2>2, <2>3 DEF Tick, Notice, Send
  <2>4. CASE \E p \in Id : GoOn(p)
    BY <1>13, <1>14, <1>15, <2>2, <2>4 DEF GoOn, Leave
  <2>. QED  BY <1>16, <2>3, <2>4 DEF World
<1>17. CASE Loop /\ ~Dispatch
  <2>1. UNCHANGED <<sem, child, sig, pCount>>
    BY <1>17, AllocatingIs
    DEF Loop, Allocating, ReceiveNobody, PollEmpty, receiveNewProcess, StoreSlot, Grow, Received,
        NewSecond, SameSecond, Charge, FollowNull, DispatchNobody, DispatchUnset, TakeCpu, Start,
        Publish, End, OutsideMemory, InsertList
  <2>. QED  BY <1>9, <1>10, <1>17, <2>1 DEF Next
<1>18. CASE UNCHANGED vars
  <2>1. /\ UNCHANGED <<sem, child, sig, pCount>>
        /\ UNCHANGED <<ready, waitQ, newcomer, sent, msgq>>
    BY <1>18 DEF vars, simVars
  <2>2. l1 = l
    BY <1>2, <1>3, <2>1 DEF LeftQueues, Queued, Accepted
  <2>. QED  BY <1>10, <2>1, <2>2
<1>. QED  BY <1>11, <1>12, <1>16, <1>17, <1>18 DEF Next

\* Whatever windows the handler hits, the values keep their types: the queue's array
\* never overflows, there is a slot behind it whenever enqueue writes one, and no
\* more ends are counted, nor the semaphore raised more often, than there are processes.
THEOREM TypeCorrect == Spec => []TypeOK
<1>1. Init => Always /\ Ends
  BY AlwaysInit, EndsInit
<1>2. Always /\ Ends /\ [Next]_vars => (Always /\ Ends)'
  BY AlwaysStep, EndsStep
<1>3. Always /\ Ends => TypeOK
  <2>. SUFFICES ASSUME Always, Ends PROVE TypeOK
    OBVIOUS
  <2>1. PICK a \in Nat, b \in Nat, l \in Nat :
          /\ a = Cardinality(At({"spin", "kill", "up"})) /\ b = Cardinality(At({"spin", "kill"}))
          /\ l = LeftQueues
    BY AtFinite, CountsAre
  <2>2. PICK s \in Nat, n \in Nat, g \in Nat :
          s = sem /\ n = pCount /\ g = IF sig THEN 1 ELSE 0
    BY CountsAre
  <2>3. s + a <= l /\ n + g + b <= l /\ l <= N
    BY <2>1, <2>2, CountsAre DEF Ends
  <2>4. s \in 0 .. N /\ n \in 0 .. N
    BY ONLY <2>3, NAssumption, s \in Nat, n \in Nat, g \in Nat, a \in Nat, b \in Nat, l \in Nat
  <2>. QED  BY <2>2, <2>4 DEF Always, Typed, MemoryTyped, Labels, Slot, TypeOK
<1>. QED  BY <1>1, <1>2, <1>3, PTL DEF Spec

-----------------------------------------------------------------------------
(* Every process in its place.                                             *)

\* In the first state nobody is anywhere.
LEMMA IntactInit == Init => Intact
<1>. SUFFICES ASSUME Init PROVE Intact
  OBVIOUS
<1>. USE DEF Init, SimInit
<1>1. InHands = {}
  BY PointerAssumption DEF InHands
<1>2. Placed({})
  BY EmptyQueue DEF Placed, IsForked, Id
<1>3. FinishedOnes = {}
  BY DEF FinishedOnes, Finished
<1>. QED  BY <1>1, <1>2, <1>3, FS_EmptySet, PointerAssumption DEF Intact, Counted

\* Who is in the scheduler's hands.
LEMMA InHandsAre ==
  ASSUME Always
  PROVE  /\ newcomer \in Id => newcomer # cur
         /\ pc \notin Receiving \cup {"crashed"} => newcomer \notin Id
         /\ pc \in Receiving => newcomer \in Id
BY DEF Always, Hands

\* A step that moves nobody.
LEMMA QuietIntact ==
  ASSUME Always, Intact, cur' = cur \/ {cur, cur'} \cap Id = {}, newcomer' = newcomer,
         pc' = "grow" => Head(beyond') = newcomer, pc' = "done" => table = {},
         \A p \in Id \ table : rem'[p] = rem[p],
         UNCHANGED <<gen, sent, msgq, waitQ, ready, table, child, sig, pCount>>
  PROVE  Intact'
<1>1. InHands' = InHands
  BY DEF InHands
<1>2. PICK H : H = InHands
  OBVIOUS
<1>3. Placed(H)' /\ Counted'
  BY <1>2 DEF Intact, Placed, IsForked, Counted, FinishedOnes, Finished
<1>4. Placed(InHands)'
  BY <1>1, <1>2, <1>3 DEF Placed
<1>5. /\ \A p \in Id \ table' : child'[p] \in {"none", "up", "gone"}
      /\ \A p \in Id : p \notin table' /\ child'[p] = "none" => rem'[p] = 0
  BY DEF Intact
<1>6. sig' <=> cur' \in Id /\ child'[cur'] \in {"up", "gone"}
  BY DEF Intact
<1>. QED  BY <1>3, <1>4, <1>5, <1>6 DEF Intact

\* The loop's steps that move nobody.
LEMMA LoopIntact ==
  ASSUME Always, Intact,
         \/ ReceiveNobody \/ Allocating
         \/ StoreSlot \/ Received \/ NewSecond \/ SameSecond \/ Charge \/ FollowNull
         \/ DispatchNobody \/ DispatchUnset \/ TakeCpu \/ Start \/ Publish \/ End
  PROVE  Intact'
<1>. USE DEF generator, processes, loop, cpu, pcb, memory, local, search, OutsideMemory, Goto
<1>1. UNCHANGED <<gen, sent, msgq, waitQ, ready, table, child, sig, pCount, newcomer>>
  BY AllocatingIs
  DEF ReceiveNobody, PollEmpty, StoreSlot, Received, NewSecond, SameSecond, Charge, Decrement,
      FollowNull, DispatchNobody, DispatchUnset, TakeCpu, Start, Publish, End
<1>2. cur' = cur \/ (cur' = None /\ cpuFree /\ pc = "dispatch")
  BY AllocatingIs
  DEF ReceiveNobody, StoreSlot, Received, NewSecond, SameSecond, Charge, FollowNull,
      DispatchNobody, DispatchUnset, TakeCpu, Start, Publish, End
<1>3. cur' = cur \/ {cur, cur'} \cap Id = {}
  BY <1>2, PointerAssumption DEF Always, Hands
<1>4. pc' = "grow" => Head(beyond') = newcomer
  <2>1. ASSUME StoreSlot PROVE Head(beyond') = newcomer
    BY <2>1, StoreAlways
  <2>. QED
    BY <2>1, AllocatingIs
    DEF ReceiveNobody, Received, NewSecond, SameSecond, Charge, FollowNull, DispatchNobody,
        DispatchUnset, TakeCpu, Start, Publish, End
<1>5. pc' = "done" => table = {}
  <2>1. pc' = "done" => pCount = N
    BY AllocatingIs
    DEF ReceiveNobody, StoreSlot, Received, NewSecond, SameSecond, Charge, FollowNull,
        DispatchNobody, DispatchUnset, TakeCpu, Start, Publish, End, Receiving
  <2>. QED  BY <2>1, AllFinished DEF Intact, Always, Typed
<1>6. \A p \in Id \ table : rem'[p] = rem[p]
  BY AllocatingIs
  DEF ReceiveNobody, PollEmpty, StoreSlot, Received, NewSecond, SameSecond, Charge, Decrement,
      Present, FollowNull, DispatchNobody, DispatchUnset, TakeCpu, Start, Publish, End, Always,
      Typed
<1>. QED  BY <1>1, <1>3, <1>4, <1>5, <1>6, QuietIntact

\* The steps of the other processes.
LEMMA WorldIntact ==
  ASSUME Always, Intact, World
  PROVE  Intact'
<1>. USE DEF generator, processes, loop, cpu, pcb, memory, local, search
<1>1. UNCHANGED <<cur, newcomer, pc, beyond, table, rem>>
  BY DEF World, Tick, Notice, Send, GoOn, Leave, LeaveLoop, Signal, Up
<1>2. Environment
  BY DEF World, Environment, GoOn, Leave
<1>3. PICK H : H = InHands
  OBVIOUS
<1>4. Placed(H)' /\ Counted'
  BY <1>2, <1>3, EnvironmentPlaced DEF Always, Typed, Intact
<1>5. InHands' = InHands
  BY <1>1 DEF InHands
<1>6. Placed(InHands)'
  BY <1>3, <1>4, <1>5 DEF Placed
<1>7. child \in [Id -> {"none", "spin", "kill", "up", "gone"}]
  BY DEF Always, Typed
<1>8. ASSUME NEW p \in Id, child[p] \in {"spin", "kill"} PROVE p = cur
  BY <1>8 DEF Always, Hands, Intact
<1>9. CASE Tick \/ Notice \/ Send
  <2>1. UNCHANGED <<child, sig>>
    BY <1>9 DEF Tick, Notice, Send
  <2>. QED  BY <1>1, <1>4, <1>6, <2>1 DEF Intact
<1>10. ASSUME NEW p \in Id, Leave(p) PROVE Intact'
  <2>1. child[p] = "spin" /\ child' = [child EXCEPT ![p] = "kill"] /\ UNCHANGED sig /\ p = cur
    BY <1>8, <1>10 DEF Leave, LeaveLoop, Runs
  <2>2. p \in table
    BY <2>1 DEF Intact
  <2>3. \A q \in Id \ table : child'[q] = child[q]
    BY <1>7, <2>1, <2>2
  <2>4. child'[cur] = "kill"
    BY <1>7, <2>1
  <2>. QED  BY <1>1, <1>4, <1>6, <2>1, <2>2, <2>3, <2>4 DEF Intact
<1>11. ASSUME NEW p \in Id, Signal(p) PROVE Intact'
  <2>1. child[p] = "kill" /\ child' = [child EXCEPT ![p] = "up"] /\ sig' = TRUE /\ p = cur
    BY <1>8, <1>11 DEF Signal, Runs
  <2>2. p \in table
    BY <2>1 DEF Intact
  <2>3. \A q \in Id \ table : child'[q] = child[q]
    BY <1>7, <2>1, <2>2
  <2>4. child'[cur] = "up"
    BY <1>7, <2>1
  <2>. QED  BY <1>1, <1>4, <1>6, <2>1, <2>2, <2>3, <2>4 DEF Intact
<1>12. ASSUME NEW p \in Id, Up(p) PROVE Intact'
  <2>1. child[p] = "up" /\ child' = [child EXCEPT ![p] = "gone"] /\ UNCHANGED sig
    BY <1>12 DEF Up, Runs
  <2>2. /\ \A q \in Id : q # p => child'[q] = child[q]
        /\ child'[p] = "gone"
    BY <1>7, <2>1
  <2>3. /\ \A q \in Id \ table' : child'[q] \in {"none", "up", "gone"}
        /\ \A q \in Id : q \notin table' /\ child'[q] = "none" => rem'[q] = 0
    BY <1>1, <2>2 DEF Intact
  <2>4. sig' <=> cur' \in Id /\ child'[cur'] \in {"up", "gone"}
    BY <1>1, <2>1, <2>2 DEF Intact
  <2>. QED  BY <1>1, <1>4, <1>6, <2>3, <2>4 DEF Intact
<1>. QED  BY <1>9, <1>10, <1>11, <1>12 DEF World, GoOn

\* A process is received.
LEMMA ReceiveIntact ==
  ASSUME Always, Intact, receiveNewProcess
  PROVE  Intact'
<1>. USE DEF generator, processes, loop, cpu, pcb, memory, local, search, Goto
<1>1. PICK p \in Id : Receive(p) /\ newcomer' = p
  BY DEF receiveNewProcess
<1>2. /\ UNCHANGED <<gen, sent, child, sig, cur, pCount, ready, waitQ>>
      /\ pc = "receive" /\ pc' = "allocate"
      /\ table' = table \cup {p} /\ rem' = [rem EXCEPT ![p] = job.run[p]]
  BY <1>1 DEF receiveNewProcess, Receive
<1>3. /\ p \in Range(msgq) /\ msgq' \in Queue /\ Range(msgq') = Range(msgq) \ {p}
  BY <1>1, TailQueue DEF Receive, Always, Typed
<1>4. newcomer \notin Id
  BY <1>2, InHandsAre DEF Receiving
<1>5. PICK H : H = InHands
  OBVIOUS
<1>6. InHands' = H \cup {p}
  BY <1>1, <1>2, <1>4, <1>5 DEF InHands
<1>7. p \notin table /\ ~IsForked(p)
  BY <1>3 DEF Intact, Placed, IsForked
<1>8. Placed(H \cup {p})'
  BY <1>2, <1>3, <1>5, <1>7 DEF Intact, Placed, IsForked
<1>9. Placed(InHands)'
  BY <1>6, <1>8 DEF Placed
<1>10. FinishedOnes' = FinishedOnes
  BY <1>2, <1>7 DEF FinishedOnes, Finished, IsForked
<1>11. rem \in [Id -> Int]
  BY DEF Always, Typed
<1>. QED  BY <1>2, <1>7, <1>9, <1>10, <1>11 DEF Intact, Counted

\* The newcomer goes to the end of a queue.
LEMMA NewcomerQueued ==
  ASSUME Always, Intact, newcomer \in Id, pc' = "receive", newcomer' = None,
         \/ waitQ' = Append(waitQ, newcomer) /\ UNCHANGED ready
         \/ ready' = Append(ready, newcomer) /\ UNCHANGED waitQ,
         UNCHANGED <<gen, sent, msgq, child, sig, cur, pCount, table, rem>>
  PROVE  /\ Intact'
         /\ \/ Range(waitQ') = Range(waitQ) \cup {newcomer} /\ UNCHANGED ready
            \/ Range(ready') = Range(ready) \cup {newcomer} /\ UNCHANGED waitQ
<1>1. PICK H : H = InHands
  OBVIOUS
<1>2. PICK p \in Id : p = newcomer
  OBVIOUS
<1>3. Placed(H) /\ p \in H
  BY <1>1, <1>2 DEF Intact, InHands
<1>4. p \notin Range(waitQ) /\ p \notin Range(ready) /\ child[p] = "none"
  BY <1>2, <1>3 DEF Placed, Always, Hands
<1>5. InHands' = H \ {p}
  BY <1>1, <1>2, InHandsAre, PointerAssumption DEF InHands
<1>6. CASE waitQ' = Append(waitQ, newcomer) /\ UNCHANGED ready
  <2>1. waitQ' \in Queue /\ Range(waitQ') = Range(waitQ) \cup {p}
    BY <1>2, <1>3, <1>4, <1>6, AppendQueue DEF Placed
  <2>2. Placed(H \ {p})'
    BY <1>3, <1>4, <1>6, <2>1 DEF Placed, IsForked
  <2>. QED  BY <1>2, <1>5, <1>6, <2>1, <2>2
            DEF Placed, Intact, Counted, FinishedOnes, Finished
<1>7. CASE ready' = Append(ready, newcomer) /\ UNCHANGED waitQ
  <2>1. ready' \in Queue /\ Range(ready') = Range(ready) \cup {p}
    BY <1>2, <1>3, <1>4, <1>7, AppendQueue DEF Placed
  <2>2. Placed(H \ {p})'
    BY <1>3, <1>4, <1>7, <2>1 DEF Placed, IsForked
  <2>. QED  BY <1>2, <1>5, <1>7, <2>1, <2>2
            DEF Placed, Intact, Counted, FinishedOnes, Finished
<1>. QED  BY <1>6, <1>7

\* Either by InsertList or by enqueue.
LEMMA QueuedIntact ==
  ASSUME Always, Intact, InsertList \/ Grow
  PROVE  /\ Intact' /\ newcomer \in Id /\ newcomer' = None
         /\ \/ Range(waitQ') = Range(waitQ) \cup {newcomer} /\ UNCHANGED ready
            \/ Range(ready') = Range(ready) \cup {newcomer} /\ UNCHANGED waitQ
<1>. USE DEF generator, processes, loop, cpu, pcb, memory, local, search, OutsideMemory, Goto
<1>1. newcomer \in Id
  BY InHandsAre DEF InsertList, Grow, Receiving
<1>2. Grow => Head(beyond) = newcomer
  BY DEF Grow, Intact
<1>. QED  BY <1>1, <1>2, InsertedAtEnd, NewcomerQueued DEF InsertList, Grow

\* A process leaves the queue for *currentProc.
LEMMA DispatchIntact ==
  ASSUME Always, Intact, Dispatch
  PROVE  /\ Intact' /\ cur' \in Id /\ cur' \in Range(ready) /\ Range(ready') = Range(ready) \ {cur'}
         /\ InHands = {} /\ InHands' = {cur'}
<1>. USE DEF generator, processes, loop, cpu, pcb, memory, local, search, Goto
<1>1. PICK prio \in Priorities :
        LET k == peek(ready, prio, Arrivals)
        IN  /\ ready[k] # Unset
            /\ cur' = ready[k]
            /\ child' = [child EXCEPT ![ready[k]] = "spin"]
            /\ Dequeue(k)
  BY DEF Dispatch
<1>2. PICK k : k = peek(ready, prio, Arrivals)
  OBVIOUS
<1>3. /\ pc = "dispatch" /\ pc' = "busy" /\ ready # <<>>
      /\ UNCHANGED <<gen, sent, msgq, sig, pCount, table, rem, waitQ, newcomer>>
  BY DEF Dispatch
<1>4. newcomer \notin Id /\ cur \notin Id
  BY DispatchAlways
<1>5. InHands = {} /\ Placed({})
  BY <1>4 DEF InHands, Intact
<1>6. ready \in Queue /\ ready \in Seq(Id)
  BY <1>5 DEF Placed, Queue
<1>7. k \in DOMAIN ready
  BY <1>2, <1>3, <1>6, PeekInArray
<1>8. PICK p : p = ready[k]
  OBVIOUS
<1>9. p \in Id /\ p \in Range(ready)
  BY <1>6, <1>7, <1>8, ElementOfSeq, LenProperties DEF Range
<1>10. cur' = p /\ child' = [child EXCEPT ![p] = "spin"]
  BY <1>1, <1>2, <1>8
<1>11. ready' \in Queue /\ Range(ready') = Range(ready) \ {p}
  BY <1>1, <1>2, <1>6, <1>7, <1>8, RemoveFromQueue DEF Dequeue
<1>12. InHands' = {p}
  BY <1>3, <1>4, <1>9, <1>10 DEF InHands
<1>13. p \in table /\ child[p] = "none"
  BY <1>4, <1>5, <1>9 DEF Placed, Always, Hands
<1>14. child \in [Id -> {"none", "spin", "kill", "up", "gone"}]
  BY DEF Always, Typed
<1>15. child'[p] = "spin" /\ \A q \in Id : q # p => child'[q] = child[q]
  BY <1>9, <1>10, <1>14
<1>16. Placed({p})'
  <2>1. \A q \in Range(msgq) \cup Range(waitQ) : q \in Id /\ q # p
    <3>1. \A q \in Range(msgq) \cup Range(waitQ) : q \in Id
      BY <1>5, ElementOfSeq, LenProperties DEF Placed, Queue, Range
    <3>. QED  BY <1>5, <1>9, <1>13, <3>1 DEF Placed
  <2>2. \A q \in Id : q <= sent <=> (q \in Range(msgq) \cup table \/ child'[q] # "none")
    BY <1>5, <1>13, <1>15 DEF Placed, IsForked
  <2>. QED  BY <1>3, <1>5, <1>9, <1>11, <1>15, <2>1, <2>2 DEF Placed, IsForked
<1>17. Placed(InHands)'
  BY <1>12, <1>16 DEF Placed
<1>18. FinishedOnes' = FinishedOnes
  BY <1>3, <1>13, <1>15 DEF FinishedOnes, Finished
<1>19. /\ \A q \in Id \ table' : child'[q] \in {"none", "up", "gone"}
       /\ \A q \in Id : q \notin table' /\ child'[q] = "none" => rem'[q] = 0
  BY <1>3, <1>13, <1>15 DEF Intact
<1>20. sig' = sig /\ ~sig /\ cur' \in Id /\ child'[cur'] = "spin"
  BY <1>3, <1>4, <1>9, <1>10, <1>15 DEF Dispatch, Intact
<1>21. Intact'
  BY <1>3, <1>17, <1>18, <1>19, <1>20 DEF Intact, Counted
<1>. QED  BY <1>5, <1>9, <1>10, <1>11, <1>12, <1>21

\* The handler takes the current process out.
LEMMA HandlerIntact ==
  ASSUME Always, Intact, Handler, "grow" \notin raced'
  PROVE  /\ Intact' /\ pc' = pc /\ cur \in Id /\ cur' = None /\ table' = table \ {cur}
         /\ child[cur] \in {"up", "gone"} /\ UNCHANGED <<job, rem, child, shm, clk, newcomer>>
         /\ Range(waitQ') \cup Range(ready') = Range(waitQ) \cup Range(ready)
         /\ Range(waitQ') \subseteq Range(waitQ)
<1>1. processTerminate /\ sig /\ ~Stopped /\ newcomer' = newcomer
      /\ raced' = raced \cup ({pc} \cap HandlerWindows)
  BY DEF Handler, processTerminate
<1>2. cur \in Id /\ child[cur] \in {"up", "gone"}
  BY <1>1 DEF Intact
<1>3. PICK H : H = InHands
  OBVIOUS
<1>4. PICK p \in Id : p = cur
  BY <1>2
<1>5. p \in H /\ Placed(H) /\ Counted /\ IsForked(p) /\ pCount \in Nat
  BY <1>2, <1>3, <1>4 DEF Intact, InHands, IsForked, Always, Typed
<1>6. /\ Placed(H \ {p})' /\ Counted' /\ pCount' \in 0 .. N
      /\ sig' = FALSE /\ table' = table \ {p} /\ cur' = None /\ pc' = pc
      /\ UNCHANGED <<job, clk, gen, sent, msgq, shm, sem, child, halted, polls, prevClk, rem,
                     lastClk, wait>>
      /\ Range(waitQ') \cup Range(ready') = Range(waitQ) \cup Range(ready)
      /\ Range(waitQ') \subseteq Range(waitQ)
  BY <1>1, <1>4, <1>5, HandlerPlaced
<1>7. InHands' = H \ {p}
  BY <1>1, <1>3, <1>4, <1>6, InHandsAre, PointerAssumption DEF InHands
<1>8. Placed(InHands)'
  BY <1>6, <1>7 DEF Placed
<1>9. pc' # "grow" /\ pc' # "done"
  BY <1>1, <1>6 DEF HandlerWindows, Stopped
<1>10. /\ \A q \in Id \ table' : child'[q] \in {"none", "up", "gone"}
       /\ \A q \in Id : q \notin table' /\ child'[q] = "none" => rem'[q] = 0
  BY <1>2, <1>4, <1>6 DEF Intact
<1>11. Intact'
  BY <1>6, <1>8, <1>9, <1>10, PointerAssumption DEF Intact
<1>. QED  BY <1>1, <1>2, <1>4, <1>6, <1>11

-----------------------------------------------------------------------------
(* While no window is hit but those that delay a newcomer.                 *)

\* A process in the scheduler's hands is in the table.
LEMMA CurrentPresent ==
  ASSUME Intact, cur \in Id
  PROVE  Present
BY DEF Intact, Placed, InHands, Present

\* The slots of the queue are all written.
LEMMA NeverUnset ==
  ASSUME Intact
  PROVE  ~DispatchUnset
<1>1. ready \in Seq(Id)
  BY DEF Intact, Placed, Queue
<1>. SUFFICES ASSUME NEW prio \in Priorities, peek(ready, prio, Arrivals) # 0,
                     ready[peek(ready, prio, Arrivals)] = Unset
              PROVE  FALSE
  BY DEF DispatchUnset
<1>2. peek(ready, prio, Arrivals) \in DOMAIN ready
  BY <1>1, PeekInArray
<1>. QED  BY <1>1, <1>2, ElementOfSeq, LenProperties, UnsetAssumption

\* The loop's tests find what they had found.
LEMMA LoopSafe ==
  ASSUME Always, Intact, Safe,
         \/ ReceiveNobody \/ StoreSlot \/ Received \/ NewSecond \/ SameSecond \/ FollowNull
         \/ DispatchNobody \/ DispatchUnset \/ TakeCpu \/ Start \/ Publish \/ End
  PROVE  Safe'
<1>. USE DEF generator, processes, loop, cpu, pcb, memory, local, search, OutsideMemory, Goto
<1>1. UNCHANGED <<job, child, table, rem>>
  BY DEF ReceiveNobody, PollEmpty, StoreSlot, Received, NewSecond, SameSecond, FollowNull,
         DispatchNobody, DispatchUnset, TakeCpu, Start, Publish, End
<1>2. ~FollowNull /\ ~DispatchUnset
  <2>1. pc \in {"charge", "start", "publish"} => Present
    BY CurrentPresent DEF Safe, ForkWindow
  <2>. QED  BY <2>1, NeverUnset DEF FollowNull
<1>3. cur' = cur \/ (cur' = None /\ pc = "dispatch" /\ cpuFree)
  BY <1>2 DEF ReceiveNobody, StoreSlot, Received, NewSecond, SameSecond,
              DispatchNobody, TakeCpu, Start, Publish, End
<1>4. \A p \in table : p # cur' => p # cur
  <2>1. cur' # cur => cur \notin Id
    BY <1>3 DEF Always, Hands
  <2>. QED  BY <2>1 DEF Always, Typed
<1>5. pc' \notin {"crashed", "carve", "walk", "busy"}
  BY <1>2 DEF ReceiveNobody, StoreSlot, Received, NewSecond, SameSecond,
              DispatchNobody, TakeCpu, Start, Publish, End
<1>6. /\ pc' \in ForkWindow => cur' = cur /\ pc \in ForkWindow
      /\ pc \in ForkWindow => pc' \in ForkWindow \/ Publish
  BY <1>2 DEF ReceiveNobody, StoreSlot, Received, NewSecond, SameSecond,
              DispatchNobody, TakeCpu, Start, Publish, End, ForkWindow
<1>7. pc' = "charge" => cur' = cur /\ cur \in Id
  BY <1>2 DEF ReceiveNobody, StoreSlot, Received, NewSecond, SameSecond,
              DispatchNobody, TakeCpu, Start, Publish, End, Always, Typed
<1>8. IF Publish THEN shm' = rem[cur] /\ cur' = cur ELSE shm' = shm
  BY <1>2 DEF ReceiveNobody, StoreSlot, Received, NewSecond, SameSecond,
              DispatchNobody, TakeCpu, Start, Publish, End
<1>9. cur' \in Id => cur' = cur
  BY <1>3, PointerAssumption
<1>10. cur' \in Id /\ pc' \notin ForkWindow => shm' = rem'[cur']
  BY <1>1, <1>6, <1>8, <1>9 DEF Safe
<1>. QED  BY <1>1, <1>4, <1>5, <1>6, <1>7, <1>9, <1>10 DEF Safe

\* The hole that was found is there, and so is the place in waitQ.
LEMMA AllocatingSafe ==
  ASSUME Always, Intact, Safe, Allocating
  PROVE  Safe'
<1>. USE DEF generator, processes, loop, cpu, pcb, memory, local, search, OutsideMemory, Goto
<1>1. ~TakeFromEmptyList /\ ~WalkPastEnd
  <2>1. ~TakeFromEmptyList
    BY DEF TakeFromEmptyList, Safe
  <2>2. pc = "walk" => position \in Nat /\ Len(waitQ) \in Nat /\ position <= Len(waitQ)
    BY NAssumption, LenProperties DEF Safe, Always, Typed
  <2>. QED  BY <2>1, <2>2 DEF WalkPastEnd
<1>2. UNCHANGED <<job, child, table, rem, cur, shm, waitQ>> /\ pc \in Receiving
  BY AllocatingIs
<1>3. pc' \in Receiving
  BY <1>1 DEF Allocating, Searching, SkipList, FindHole, FindNoHole, RemoveHole, InsertLower,
              InsertUpper, TakeHole, AddToWaitQ, Receiving
<1>4. pc' = "carve" => free'[source'] # <<>>
  <2>1. pc' = "carve" => FindHole \/ InsertUpper
    BY <1>1 DEF Allocating, Searching, SkipList, FindHole, FindNoHole, RemoveHole, InsertLower,
                TakeHole, AddToWaitQ
  <2>2. FindHole => free' = free
    BY DEF FindHole
  <2>. QED  BY <2>1, <2>2, SearchAlways, SplitAlways
<1>5. pc' = "walk" => position' <= Len(waitQ')
  <2>1. pc' = "walk" => position' = Len(waitQ)
    BY <1>1 DEF Allocating, Searching, SkipList, FindHole, FindNoHole, RemoveHole, InsertLower,
                InsertUpper, TakeHole, AddToWaitQ
  <2>2. Len(waitQ) \in Nat
    BY LenProperties DEF Always, Typed
  <2>. QED  BY <1>2, <2>1, <2>2
<1>. QED  BY <1>2, <1>3, <1>4, <1>5 DEF Safe, Receiving, ForkWindow

\* A process comes or is queued.
LEMMA ReceivingSafe ==
  ASSUME Always, Intact, Safe, receiveNewProcess \/ InsertList \/ Grow
  PROVE  Safe'
<1>. USE DEF generator, processes, loop, cpu, pcb, memory, local, search, OutsideMemory, Goto
<1>1. UNCHANGED <<job, child, cur, shm>> /\ pc' \in {"allocate", "receive"} /\ pc \notin ForkWindow
  BY DEF receiveNewProcess, InsertList, Grow, ForkWindow
<1>2. CASE UNCHANGED <<table, rem>>
  BY <1>1, <1>2 DEF Safe, ForkWindow
<1>3. ASSUME NEW p \in Id, Receive(p) PROVE Safe'
  <2>1. p \in Range(msgq) /\ table' = table \cup {p} /\ rem' = [rem EXCEPT ![p] = job.run[p]]
    BY <1>3, TailQueue DEF Receive, Always, Typed
  <2>2. p \notin table /\ p # cur
    BY <2>1 DEF Intact, Placed, InHands
  <2>3. rem \in [Id -> Int]
    BY DEF Always, Typed
  <2>4. rem'[p] = job.run[p] /\ \A q \in Id : q # p => rem'[q] = rem[q]
    BY <2>1, <2>3
  <2>5. table \subseteq Id
    BY DEF Always, Typed
  <2>. QED  BY <1>1, <2>1, <2>2, <2>4, <2>5 DEF Safe, ForkWindow
<1>. QED  BY <1>2, <1>3 DEF receiveNewProcess, InsertList, Grow

\* A second is charged, to the PCB and to the shared integer.
LEMMA ChargeSafe ==
  ASSUME Always, Intact, Safe, Charge
  PROVE  Safe' /\ cur \in Id /\ cur' = cur
<1>. USE DEF generator, processes, loop, cpu, pcb, memory, local, search, Goto
<1>1. /\ UNCHANGED <<job, child, cur, table>> /\ pc' = "dispatch" /\ pc = "charge"
      /\ rem' = [rem EXCEPT ![cur] = @ - 1] /\ shm' = rem[cur] - 1
  BY DEF Charge, Decrement
<1>2. cur \in Id
  BY <1>1 DEF Safe
<1>3. rem \in [Id -> Int] /\ table \subseteq Id
  BY DEF Always, Typed
<1>4. rem'[cur] = rem[cur] - 1 /\ \A q \in Id : q # cur => rem'[q] = rem[q]
  BY <1>1, <1>2, <1>3
<1>5. child[cur] # "spin" => rem'[cur] <= 0
  <2>1. child[cur] # "spin" => rem[cur] <= 0
    BY <1>2 DEF Safe
  <2>2. rem[cur] \in Int
    BY <1>2, <1>3
  <2>. QED  BY <1>4, <2>1, <2>2
<1>. QED  BY <1>1, <1>2, <1>3, <1>4, <1>5 DEF Safe, ForkWindow

\* A process that is dispatched has run nothing yet.
LEMMA DispatchSafe ==
  ASSUME Always, Intact, Safe, Dispatch
  PROVE  Safe'
<1>. USE DEF generator, processes, loop, cpu, pcb, memory, local, search, Goto
<1>1. cur' \in Id /\ cur' \in Range(ready) /\ cur \notin Id
  BY DispatchIntact, DispatchAlways
<1>2. cur' \in table
  BY <1>1 DEF Intact, Placed
<1>3. UNCHANGED <<job, table, rem>> /\ pc' = "busy" /\ child' = [child EXCEPT ![cur'] = "spin"]
  BY DEF Dispatch
<1>4. child'[cur'] = "spin"
  BY <1>1, <1>3 DEF Always, Typed
<1>5. table \subseteq Id
  BY DEF Always, Typed
<1>. QED  BY <1>1, <1>2, <1>3, <1>4, <1>5 DEF Safe, ForkWindow

\* The handler runs in no window but one in which it delays a newcomer.
LEMMA HandlerSafe ==
  ASSUME Always, Intact, Safe, Handler, raced' \subseteq DelayWindows
  PROVE  Safe'
<1>1. /\ pc' = pc /\ cur \in Id /\ cur' = None /\ table' = table \ {cur}
      /\ child[cur] \in {"up", "gone"} /\ UNCHANGED <<job, rem, child>>
  BY HandlerIntact DEF DelayWindows
<1>2. pc \notin {"carve", "walk", "grow", "charge", "crashed"}
  BY DEF Handler, HandlerWindows, DelayWindows, processTerminate, Stopped
<1>3. pc \notin ForkWindow
  BY <1>1 DEF Safe
<1>. QED  BY <1>1, <1>2, <1>3, PointerAssumption DEF Safe

\* A process leaves its loop when it has nothing left, unless it has not been given
\* its time yet.
LEMMA WorldSafe ==
  ASSUME Always, Intact, Safe, World, raced' \subseteq DelayWindows
  PROVE  Safe'
<1>. USE DEF generator, processes, loop, cpu, pcb, memory, local, search
<1>1. UNCHANGED <<job, cur, pc, free, waitQ, source, position, table, rem, shm>>
  BY DEF World, Tick, Notice, Send, GoOn, Leave, LeaveLoop, Signal, Up
<1>2. child \in [Id -> {"none", "spin", "kill", "up", "gone"}]
  BY DEF Always, Typed
<1>3. ASSUME NEW p \in Id, child[p] \in {"spin", "kill"} PROVE p = cur
  BY <1>3 DEF Always, Hands, Intact
<1>4. CASE Tick \/ Notice \/ Send
  BY <1>1, <1>4 DEF Tick, Notice, Send, Safe
<1>5. ASSUME NEW p \in Id, Leave(p) PROVE Safe'
  <2>1. /\ child[p] = "spin" /\ p = cur /\ shm <= 0
        /\ child' = [child EXCEPT ![p] = "kill"] /\ pc \notin ForkWindow
    BY <1>3, <1>5 DEF DelayWindows, Leave, LeaveLoop, Runs
  <2>2. rem[cur] <= 0
    BY <2>1 DEF Safe
  <2>. QED  BY <1>1, <2>1, <2>2 DEF Safe
<1>6. ASSUME NEW p \in Id, Signal(p) \/ Up(p) PROVE Safe'
  <2>1. child[p] # "spin" /\ \A q \in Id : q # p => child'[q] = child[q]
    BY <1>2, <1>6 DEF Signal, Up, Runs
  <2>2. p = cur => pc \notin ForkWindow /\ rem[cur] <= 0
    BY <2>1 DEF Safe
  <2>3. cur \in Id /\ child'[cur] # "spin" => rem[cur] <= 0
    BY <2>1, <2>2 DEF Safe
  <2>4. pc \in ForkWindow => child'[cur] = "spin"
    BY <2>1, <2>2 DEF Safe
  <2>. QED  BY <1>1, <2>3, <2>4 DEF Safe
<1>. QED  BY <1>4, <1>5, <1>6 DEF World, GoOn

\* In the first state nothing has happened.
LEMMA SafeInit == Init => Safe
BY PointerAssumption DEF Init, SimInit, Safe, ForkWindow

-----------------------------------------------------------------------------
(* The inductive invariant.                                                *)

\* The history of the windows only grows.
LEMMA RacedGrows ==
  ASSUME [Next]_vars
  PROVE  raced \subseteq raced'
BY AllocatingIs
DEF Next, World, GoOn, Leave, Handler, Loop, Allocating, vars, local, search, ReceiveNobody,
    receiveNewProcess, StoreSlot, Grow, Received, NewSecond, SameSecond, Charge, FollowNull,
    DispatchNobody, Dispatch, DispatchUnset, TakeCpu, Start, Publish, End, InsertList

LEMMA IntactStep ==
  ASSUME Always, Intact, [Next]_vars, "grow" \notin raced'
  PROVE  Intact'
<1>1. ASSUME UNCHANGED vars PROVE Intact'
  <2>1. UNCHANGED <<gen, sent, msgq, waitQ, ready, table, child, sig, pCount, cur, newcomer, pc,
                    beyond, rem>>
    BY <1>1 DEF vars, local, search, simVars, generator, processes, loop, cpu, pcb, memory
  <2>2. pc' = "grow" => Head(beyond') = newcomer
    BY <2>1 DEF Intact
  <2>3. pc' = "done" => table = {}
    BY <2>1 DEF Intact
  <2>. QED  BY <2>1, <2>2, <2>3, QuietIntact
<1>. QED
  BY <1>1, WorldIntact, HandlerIntact, LoopIntact, ReceiveIntact, QueuedIntact, DispatchIntact
  DEF Next, Loop, Allocating

LEMMA SafeStep ==
  ASSUME Always, Intact, Safe, [Next]_vars, raced' \subseteq DelayWindows
  PROVE  Safe'
<1>1. ASSUME UNCHANGED vars PROVE Safe'
  BY <1>1 DEF vars, local, search, simVars, generator, processes, loop, cpu, pcb, memory, Safe
<1>. QED
  BY <1>1, WorldSafe, HandlerSafe, LoopSafe, AllocatingSafe, ReceivingSafe, ChargeSafe, DispatchSafe
  DEF Next, Loop, Allocating

LEMMA IInvInit == Init => IInv
BY AlwaysInit, IntactInit, SafeInit DEF IInv

LEMMA IInvStep == IInv /\ [Next]_vars => IInv'
<1>. SUFFICES ASSUME IInv, [Next]_vars PROVE IInv'
  OBVIOUS
<1>1. Always'
  BY AlwaysStep DEF IInv
<1>2. raced \subseteq raced'
  BY RacedGrows
<1>3. "grow" \notin raced' => Intact'
  BY <1>2, IntactStep DEF IInv
<1>4. ASSUME raced' \subseteq DelayWindows PROVE Safe'
  <2>1. "grow" \notin raced /\ raced \subseteq DelayWindows
    BY <1>2, <1>4 DEF DelayWindows
  <2>. QED  BY <1>4, <2>1, SafeStep DEF IInv
<1>. QED  BY <1>1, <1>3, <1>4 DEF IInv

THEOREM Invariant == Spec => []IInv
BY IInvInit, IInvStep, PTL DEF Spec

-----------------------------------------------------------------------------
(* Nobody is lost, and what the windows are needed for.                    *)

\* Nobody is in two places and nobody in none, whatever the handler interrupts, as
\* long as it does not fill the slot that enqueue has written and not counted.
THEOREM NobodyIsLost == Spec => []OnePlace
<1>1. IInv => OnePlace
  <2>. SUFFICES ASSUME IInv, "grow" \notin raced, NEW p \in 1 .. sent
                PROVE  Places(p) + (IF cur = p THEN 1 ELSE 0) + (IF newcomer = p THEN 1 ELSE 0) = 1
    BY DEF OnePlace
  <2>1. PICK H : H = InHands
    OBVIOUS
  <2>2. Placed(H) /\ sent \in 0 .. N
    BY <2>1 DEF IInv, Intact, Always, Typed
  <2>3. Places(p) = IF p \in H THEN 0 ELSE 1
    BY <2>2, PlacedIsOnePlace
  <2>4. p \in Id
    BY <2>2, NAssumption DEF Id
  <2>5. newcomer = p => cur # p
    BY <2>4, InHandsAre DEF IInv
  <2>6. p \in H <=> (cur = p \/ newcomer = p)
    BY <2>1, <2>4 DEF InHands
  <2>. QED  BY <2>3, <2>5, <2>6
<1>. QED  BY <1>1, Invariant, PTL

\* The scheduler follows a null pointer, takes a hole from an empty list or walks past
\* the end of waitQ only after the handler has run where the loop goes on with what it
\* has read before: a run that merely delays a newcomer, during its search or before
\* the length of waitQ is read, crashes nothing.
THEOREM CrashesNeedAWindow == Spec => []CrashesOnlyInWindows
<1>1. IInv => CrashesOnlyInWindows
  BY DEF IInv, Safe, CrashesOnlyInWindows
<1>. QED  BY <1>1, Invariant, PTL

\* Nobody waits for memory that is free, unless the handler has run between the first
\* list that a newcomer's search passed over and its entry to waitQ.
THEOREM WaitersDoNotFit == Spec => []NobodyWaitsForFreeMemory
<1>1. IInv => NobodyWaitsForFreeMemory
  BY DEF IInv, Always, NoFit, NobodyWaitsForFreeMemory
<1>. QED  BY <1>1, Invariant, PTL

\* Until the handler has filled a slot that enqueue has written, it finds the process
\* whose end it handles in currentProc, with its PCB, and no signal is sent while one
\* is pending.
EndHandledUnlessRaced ==
  /\ []("grow" \notin raced => SignalIsOfCurrent)
  /\ [][\A p \in Id : Signal(p) /\ "grow" \notin raced => ~sig]_vars

\* The windows but that one do no harm here: a process that ends in the window of the
\* fork, or while a newcomer is given memory, is the one in currentProc.
THEOREM EveryEndIsHandled == Spec => EndHandledUnlessRaced
<1>1. IInv /\ "grow" \notin raced => SignalIsOfCurrent
  <2>. SUFFICES ASSUME IInv, "grow" \notin raced, sig PROVE SignalIsOfCurrent
    BY DEF SignalIsOfCurrent
  <2>1. cur \in table /\ child[cur] \in {"up", "gone"}
    BY DEF IInv, Intact, Placed, InHands
  <2>2. ASSUME NEW p \in table, p # cur PROVE child[p] = "none"
    BY <2>2 DEF IInv, Always, Hands, Intact, Placed, InHands
  <2>. QED  BY <2>1, <2>2 DEF SignalIsOfCurrent
<1>2. IInv => [\A p \in Id : Signal(p) /\ "grow" \notin raced => ~sig]_vars
  <2>. SUFFICES ASSUME IInv, NEW p \in Id, Signal(p), "grow" \notin raced PROVE ~sig
    OBVIOUS
  <2>1. child[p] = "kill"
    BY DEF Signal, Runs
  <2>2. p = cur
    BY <2>1 DEF IInv, Always, Hands, Intact
  <2>. QED  BY <2>1, <2>2 DEF IInv, Intact
<1>. QED  BY <1>1, <1>2, Invariant, PTL DEF EndHandledUnlessRaced

-----------------------------------------------------------------------------
(* Prompt processes.                                                       *)

\* processes.txt is in the order of arrival.
LEMMA ArrivalsGrow ==
  ASSUME job \in Jobs, NEW p \in Id, NEW q \in Id, p <= q
  PROVE  job.arrival[p] <= job.arrival[q]
<1>. DEFINE Bad == {r \in Id : p <= r /\ ~(job.arrival[p] <= job.arrival[r])}
<1>1. \A r \in Id : job.arrival[r] \in Nat
  BY JobsAssumption
<1>2. ASSUME Bad # {} PROVE FALSE
  <2>1. Bad \in SUBSET Nat
    BY DEF Id
  <2>2. Min(Bad) \in Bad /\ \A r \in Bad : Min(Bad) <= r
    BY <1>2, <2>1, LeastExists
  <2>3. PICK m \in Id : p <= m /\ ~(job.arrival[p] <= job.arrival[m]) /\ \A r \in Bad : m <= r
    BY <2>2
  <2>4. m # p
    BY <1>1, <2>3
  <2>5. m - 1 \in Id /\ p <= m - 1 /\ m - 1 < N /\ (m - 1) + 1 = m /\ m - 1 < m
    BY <2>3, <2>4, NAssumption DEF Id
  <2>6. m - 1 \notin Bad
    BY <2>3, <2>5 DEF Id
  <2>7. job.arrival[p] <= job.arrival[m - 1]
    BY <2>5, <2>6
  <2>8. job.arrival[m - 1] <= job.arrival[m]
    <3>1. PICK r \in Id : r = m - 1
      BY <2>5
    <3>2. job.arrival[r] <= job.arrival[r + 1]
      BY <2>5, <3>1, JobsAssumption
    <3>. QED  BY <2>5, <3>1, <3>2
  <2>. QED  BY <1>1, <2>3, <2>5, <2>7, <2>8
<1>. QED  BY <1>2

\* A process arrives when it is sent, and is received in the same second.
LEMMA OnTimeStep ==
  ASSUME IInv, OnTime, job.prompt, [Next]_vars, raced' \subseteq DelayWindows
  PROVE  OnTime'
<1>. USE DEF generator, processes, loop, cpu, pcb, memory, local, search, OutsideMemory, Goto
<1>1. job \in Jobs /\ sent \in 0 .. N /\ clk \in Nat /\ msgq \in Queue
  BY MaxClkAssumption DEF IInv, Always, Typed
<1>2. \A p \in Id : job.arrival[p] \in Nat
  BY <1>1, JobsAssumption
<1>3. \A p \in Range(msgq) : p \in Id
  BY <1>1, ElementOfSeq, LenProperties DEF Queue, Range
<1>4. CASE UNCHANGED <<job, clk, gen, sent>> /\ Range(msgq') \subseteq Range(msgq)
           /\ ({newcomer'} \cap Id) \subseteq Range(msgq) \cup {newcomer}
  BY <1>4 DEF OnTime
<1>5. CASE Tick /\ UNCHANGED local
  <2>1. Quiet /\ clk' = clk + 1 /\ UNCHANGED <<job, gen, sent, msgq, newcomer>>
    BY <1>5 DEF Tick
  <2>2. msgq = <<>> /\ gen = "watch" /\ (sent < N => clk # job.arrival[sent + 1])
    BY <2>1 DEF Quiet
  <2>3. newcomer \notin Id
    <3>1. pc \notin Receiving \cup {"crashed"}
      <4>1. raced \subseteq DelayWindows
        BY RacedGrows
      <4>. QED  BY <2>1, <4>1 DEF Quiet, Stopped, Receiving, IInv, Safe
    <3>. QED  BY <3>1, InHandsAre DEF IInv
  <2>4. sent < N => job.arrival[sent + 1] >= clk + 1
    <3>1. sent < N => sent + 1 \in Id
      BY <1>1, NAssumption DEF Id
    <3>2. sent < N => job.arrival[sent + 1] \in Nat
      BY <1>2, <3>1
    <3>. QED  BY <1>1, <2>2, <3>2 DEF OnTime
  <2>. QED  BY <2>1, <2>2, <2>3, <2>4, EmptyQueue DEF OnTime
<1>6. CASE Notice /\ UNCHANGED local
  BY <1>6 DEF Notice, OnTime
<1>7. CASE Send /\ UNCHANGED local
  <2>1. /\ gen = "send" /\ gen' = "watch" /\ sent' = sent + 1 /\ msgq' = Append(msgq, sent + 1)
        /\ UNCHANGED <<job, clk, newcomer>>
    BY <1>7 DEF Send
  <2>2. sent < N
    BY <2>1 DEF IInv, Always, Typed
  <2>3. sent + 1 \in Id /\ job.arrival[sent + 1] = clk
    BY <1>1, <2>1, <2>2, NAssumption DEF OnTime, Id
  <2>4. Range(msgq') = Range(msgq) \cup {sent + 1}
    <3>1. msgq \in Seq(Id)
      BY <1>1 DEF Queue
    <3>. QED  BY <2>1, <2>3, <3>1, AppendRange
  <2>5. ASSUME sent' < N PROVE job.arrival[sent' + 1] >= clk
    <3>1. PICK p \in Id, q \in Id : p = sent + 1 /\ q = sent' + 1 /\ p <= q
      BY <1>1, <2>1, <2>3, <2>5, NAssumption DEF Id
    <3>2. job.arrival[p] <= job.arrival[q]
      BY <1>1, <3>1, ArrivalsGrow
    <3>. QED  BY <1>1, <1>2, <2>3, <3>1, <3>2
  <2>. QED  BY <2>1, <2>3, <2>4, <2>5 DEF OnTime
<1>8. ASSUME NEW p \in Id, GoOn(p) PROVE OnTime'
  <2>1. UNCHANGED <<job, clk, gen, sent, msgq, newcomer>>
    BY <1>8 DEF GoOn, Leave, LeaveLoop, Signal, Up
  <2>. QED  BY <1>4, <2>1
<1>9. CASE Handler
  BY <1>4, <1>9 DEF Handler, processTerminate
<1>10. CASE receiveNewProcess
  <2>1. PICK p \in Id : Receive(p) /\ newcomer' = p /\ UNCHANGED <<job, clk, gen, sent>>
    BY <1>10 DEF receiveNewProcess, Receive
  <2>2. p \in Range(msgq) /\ Range(msgq') = Range(msgq) \ {p}
    BY <1>1, <2>1, TailQueue DEF Receive
  <2>. QED  BY <1>4, <2>1, <2>2
<1>11. CASE Loop /\ ~receiveNewProcess
  <2>1. UNCHANGED <<job, clk, gen, sent, msgq>>
    BY <1>11, AllocatingIs
    DEF Loop, Allocating, ReceiveNobody, PollEmpty, StoreSlot, Grow, Received, NewSecond,
        SameSecond, Charge, FollowNull, DispatchNobody, Dispatch, DispatchUnset, TakeCpu, Start,
        Publish, End, InsertList
  <2>2. newcomer' \in {newcomer, None}
    BY <1>11, AllocatingIs
    DEF Loop, Allocating, ReceiveNobody, StoreSlot, Grow, Received, NewSecond, SameSecond, Charge,
        FollowNull, DispatchNobody, Dispatch, DispatchUnset, TakeCpu, Start, Publish, End,
        InsertList
  <2>. QED  BY <1>4, <2>1, <2>2, PointerAssumption
<1>12. CASE UNCHANGED vars
  BY <1>4, <1>12 DEF vars, simVars
<1>. QED  BY <1>5, <1>6, <1>7, <1>8, <1>9, <1>10, <1>11, <1>12 DEF Next, World

\* What is charged and pending does not change by a step that changes no time of the
\* current process.
LEMMA QuietTimed ==
  ASSUME Timed, cur' = cur \/ cur' \notin Id, pc \notin ForkWindow, pc' \notin ForkWindow,
         pc \notin {"charge"}, pc' # "charge",
         pc' = "dispatch" => prevClk = clk \/ (pc = "dispatch" /\ ready' = ready /\ cpuFree' = cpuFree),
         cur \in Id => rem'[cur] = rem[cur],
         UNCHANGED <<job, clk, prevClk, wait>>
  PROVE  Timed'
BY DEF Timed, Pending, ForkWindow

\* The clock ticks when the current process has been charged for the second, and has
\* another one to go.
LEMMA TickTimed ==
  ASSUME IInv, Timed, job.prompt, Tick, UNCHANGED local, raced \subseteq DelayWindows
  PROVE  Timed'
<1>. USE DEF generator, processes, loop, cpu, pcb, memory, local, search
<1>1. /\ Quiet /\ clk' = clk + 1
      /\ UNCHANGED <<job, prevClk, pc, cpuFree, cur, ready, rem, wait, shm>>
  BY DEF Tick
<1>2. Always /\ Intact /\ Safe
  BY DEF IInv, DelayWindows
<1>3. clk \in Nat
  BY <1>2, MaxClkAssumption DEF Always, Typed
<1>4. CASE Stopped
  <2>1. pc = "done" /\ table = {}
    BY <1>2, <1>4 DEF Stopped, Safe, Intact
  <2>2. cur \notin Id
    BY <1>2, <2>1, CurrentPresent DEF Present
  <2>. QED  BY <1>1, <2>1, <2>2 DEF Timed, ForkWindow
<1>5. CASE ~Stopped
  <2>1. /\ prevClk = clk /\ pc \in {"receive", "dispatch", "tick", "end"}
        /\ cpuFree => ready = <<>>
    BY <1>1, <1>5 DEF Quiet
  <2>2. pc' \notin ForkWindow \cup {"charge"} /\ ~(pc' = "dispatch" /\ cpuFree' /\ ready' # <<>>)
    BY <1>1, <2>1 DEF ForkWindow
  <2>3. ASSUME cur \in Id PROVE rem[cur] >= 1
    <3>1. /\ ~sig /\ ~Runs(cur, "kill") /\ ~Runs(cur, "up") /\ (Runs(cur, "spin") => shm > 0)
      BY <1>1, <2>3 DEF Quiet
    <3>2. ~halted[cur]
      BY <1>2, <2>3 DEF Always, Typed
    <3>3. child[cur] = "spin"
      BY <1>2, <2>3, <3>1, <3>2 DEF Always, Typed, Hands, Intact, Runs
    <3>4. shm = rem[cur] /\ rem[cur] \in Int
      BY <1>2, <2>1, <2>3 DEF Safe, ForkWindow, Always, Typed
    <3>. QED  BY <3>1, <3>2, <3>3, <3>4 DEF Runs
  <2>4. ASSUME cur \in Id
        PROVE  /\ clk' = job.arrival[cur] + wait[cur] + job.run[cur] - rem[cur] + 1
               /\ Pending' = 1
    <3>1. clk = job.arrival[cur] + wait[cur] + job.run[cur] - rem[cur] + 0
      BY <2>1, <2>4 DEF Timed, Pending, ForkWindow
    <3>2. /\ job.arrival[cur] \in Int /\ job.run[cur] \in Int /\ wait[cur] \in Int
          /\ rem[cur] \in Int
      BY <1>2, <2>4, JobsAssumption DEF Always, Typed
    <3>3. prevClk' # clk'
      BY <1>1, <1>3, <2>1
    <3>. QED  BY <1>1, <1>3, <3>1, <3>2, <3>3 DEF Pending
  <2>5. cur' \in Id /\ pc' \notin ForkWindow =>
          /\ clk' = job'.arrival[cur'] + wait'[cur'] + job'.run[cur'] - rem'[cur'] + Pending'
          /\ rem'[cur'] >= Pending'
    BY <1>1, <2>3, <2>4
  <2>6. pc' # "publish"
    BY <2>2 DEF ForkWindow
  <2>. QED  BY <2>2, <2>5, <2>6 DEF Timed
<1>. QED  BY <1>4, <1>5

\* The accounting of the loop.
LEMMA TimedStep ==
  ASSUME IInv, Timed, job.prompt, [Next]_vars, raced' \subseteq DelayWindows
  PROVE  Timed'
<1>. USE DEF generator, processes, loop, cpu, pcb, memory, local, search, OutsideMemory, Goto
<1>1. Always /\ Intact /\ Safe /\ raced \subseteq DelayWindows
  BY RacedGrows DEF IInv, DelayWindows
<1>2. /\ job \in Jobs /\ clk \in Nat /\ prevClk \in Int /\ rem \in [Id -> Int]
      /\ wait \in [Id -> Int]
  BY <1>1, MaxClkAssumption DEF Always, Typed
<1>3. cur \in Id => job.arrival[cur] \in Int /\ job.run[cur] \in Int /\ job.run[cur] > 0
  BY <1>2, JobsAssumption
<1>4. CASE Tick /\ UNCHANGED local
  BY <1>1, <1>4, TickTimed
<1>5. CASE (Notice \/ Send) /\ UNCHANGED local
  BY <1>5 DEF Notice, Send, Timed, Pending
<1>6. ASSUME NEW p \in Id, GoOn(p) PROVE Timed'
  BY <1>6 DEF GoOn, Leave, LeaveLoop, Signal, Up, Timed, Pending
<1>7. CASE UNCHANGED vars
  BY <1>7 DEF vars, simVars, Timed, Pending
<1>8. CASE Handler
  <2>1. /\ pc' = pc /\ cur \in Id /\ cur' \notin Id /\ child[cur] \in {"up", "gone"}
        /\ UNCHANGED <<clk, prevClk>>
    <3>1. UNCHANGED prevClk
      BY <1>8 DEF Handler, processTerminate
    <3>. QED  BY <1>1, <1>8, <3>1, HandlerIntact, PointerAssumption DEF DelayWindows
  <2>2. rem[cur] <= 0 /\ pc \notin ForkWindow
    BY <1>1, <2>1 DEF Safe
  <2>3. rem[cur] \in Int /\ rem[cur] >= Pending
    BY <1>2, <2>1, <2>2 DEF Timed
  <2>4. prevClk = clk
    BY <2>2, <2>3 DEF Pending
  <2>5. pc' \notin ForkWindow
    BY <2>1, <2>2
  <2>. QED  BY <2>1, <2>4, <2>5 DEF Timed, ForkWindow
<1>9. CASE receiveNewProcess
  <2>1. PICK p \in Id : Receive(p)
    BY <1>9 DEF receiveNewProcess
  <2>2. p \in Range(msgq)
    BY <1>1, <2>1, TailQueue DEF Receive, Always, Typed
  <2>3. p # cur
    BY <1>1, <2>2 DEF Intact, Placed, InHands
  <2>4. cur \in Id => rem'[cur] = rem[cur]
    BY <1>2, <2>1, <2>3 DEF Receive
  <2>. QED  BY <1>9, <2>4, QuietTimed DEF receiveNewProcess, ForkWindow
<1>10. CASE ReceiveNobody \/ Allocating
            \/ InsertList \/ StoreSlot \/ Grow \/ Received
  <2>1. UNCHANGED <<job, clk, prevClk, wait, cur, rem>>
    BY <1>10, AllocatingIs DEF ReceiveNobody, PollEmpty, StoreSlot, Grow, Received, InsertList
  <2>2. {pc, pc'} \cap (ForkWindow \cup {"charge", "dispatch"}) = {}
    BY <1>10, AllocatingIs
    DEF ReceiveNobody, PollEmpty, StoreSlot, Grow, Received, ForkWindow, InsertList
  <2>. QED  BY <2>1, <2>2, QuietTimed
<1>11. CASE NewSecond
  <2>1. /\ prevClk # clk /\ prevClk' = clk /\ pc = "tick"
        /\ UNCHANGED <<job, clk, wait, cur, rem>>
        /\ IF cur # None THEN pc' = "charge" ELSE pc' = "dispatch"
    BY <1>11 DEF NewSecond
  <2>2. cur \in Id => Pending = 1 /\ Pending' = 1
    BY <2>1, PointerAssumption DEF Pending
  <2>3. cur \in Id => /\ clk = job.arrival[cur] + wait[cur] + job.run[cur] - rem[cur] + 1
                      /\ rem[cur] >= 1
    BY <2>1, <2>2 DEF Timed, ForkWindow
  <2>. QED  BY <2>1, <2>2, <2>3 DEF Timed, ForkWindow
<1>12. CASE SameSecond
  BY <1>12, QuietTimed DEF SameSecond, ForkWindow
<1>13. CASE Charge
  <2>1. /\ cur \in Id /\ cur' = cur /\ pc = "charge" /\ pc' = "dispatch"
        /\ UNCHANGED <<job, clk, prevClk, wait>> /\ rem' = [rem EXCEPT ![cur] = @ - 1]
    BY <1>1, <1>13, ChargeSafe DEF Charge, Decrement
  <2>2. /\ prevClk = clk /\ Pending = 1
        /\ clk = job.arrival[cur] + wait[cur] + job.run[cur] - rem[cur] + 1 /\ rem[cur] >= 1
    BY <2>1 DEF Timed, Pending, ForkWindow
  <2>3. rem'[cur] = rem[cur] - 1 /\ Pending' = 0
    BY <1>2, <2>1, <2>2 DEF Pending
  <2>4. clk = job.arrival[cur] + wait[cur] + job.run[cur] - (rem[cur] - 1) + 0 /\ rem[cur] - 1 >= 0
    BY <1>2, <1>3, <2>1, <2>2
  <2>. QED  BY <2>1, <2>2, <2>3, <2>4 DEF Timed, ForkWindow
<1>14. CASE FollowNull \/ DispatchUnset
  <2>1. pc' = "crashed"
    BY <1>14 DEF FollowNull, DispatchUnset
  <2>2. Safe'
    BY <1>1, <1>14, LoopSafe
  <2>. QED  BY <2>1, <2>2 DEF Safe
<1>15. CASE DispatchNobody
  BY <1>15, QuietTimed, PointerAssumption DEF DispatchNobody, ForkWindow
<1>16. CASE Dispatch
  <2>1. pc' = "busy" /\ prevClk = clk /\ UNCHANGED <<clk, prevClk>>
    BY <1>16 DEF Dispatch, Timed
  <2>. QED  BY <2>1 DEF Timed, ForkWindow
<1>17. CASE TakeCpu
  BY <1>17 DEF TakeCpu, Timed, ForkWindow
<1>18. CASE Start
  <2>1. /\ cur \in Id /\ cur' = cur /\ pc = "start" /\ pc' = "publish"
        /\ UNCHANGED <<job, clk, prevClk>>
        /\ wait' = [wait EXCEPT ![cur] = clk - job.arrival[cur]]
    BY <1>1, <1>18 DEF Start, Safe, ForkWindow
  <2>2. wait'[cur] = clk - job.arrival[cur] /\ clk = job.arrival[cur] + wait'[cur]
    BY <1>2, <1>3, <2>1
  <2>3. prevClk = clk
    BY <2>1 DEF Timed, ForkWindow
  <2>. QED  BY <2>1, <2>2, <2>3 DEF Timed, ForkWindow
<1>19. CASE Publish
  <2>1. /\ cur \in Id /\ cur' = cur /\ pc = "publish" /\ pc' = "end"
        /\ rem[cur] = job.run[cur] /\ UNCHANGED <<job, clk, prevClk, rem, wait>>
    BY <1>1, <1>19 DEF Publish, Safe, ForkWindow
  <2>2. prevClk = clk /\ clk = job.arrival[cur] + wait[cur]
    BY <2>1 DEF Timed, ForkWindow
  <2>3. Pending' = 0
    BY <2>1, <2>2 DEF Pending
  <2>4. wait[cur] \in Int
    BY <1>2, <2>1
  <2>5. /\ clk = job.arrival[cur] + wait[cur] + job.run[cur] - rem[cur] + 0
        /\ rem[cur] >= 0
    BY <1>3, <2>1, <2>2, <2>4
  <2>. QED  BY <2>1, <2>2, <2>3, <2>5 DEF Timed, ForkWindow
<1>20. CASE End
  BY <1>20, QuietTimed DEF End, ForkWindow
<1>. QED
  BY <1>4, <1>5, <1>6, <1>7, <1>8, <1>9, <1>10, <1>11, <1>12, <1>13, <1>14, <1>15, <1>16, <1>17,
     <1>18, <1>19, <1>20 DEF Next, World, Loop, Allocating

LEMMA PromptInit == Init => PromptInv
<1>. SUFFICES ASSUME Init PROVE Timed /\ OnTime
  BY DEF PromptInv
<1>1. Timed
  BY PointerAssumption DEF Init, SimInit, Timed, ForkWindow
<1>2. 1 \in Id
  BY NAssumption DEF Id
<1>3. job.arrival[1] >= 0
  BY <1>2, JobsAssumption DEF Init, SimInit
<1>4. OnTime
  BY <1>3, EmptyQueue, PointerAssumption DEF Init, SimInit, OnTime
<1>. QED  BY <1>1, <1>4

LEMMA PromptStep == IInv /\ PromptInv /\ [Next]_vars => PromptInv'
<1>. SUFFICES ASSUME IInv, PromptInv, [Next]_vars, job'.prompt, raced' \subseteq DelayWindows
              PROVE  Timed' /\ OnTime'
  BY DEF PromptInv
<1>1. job' = job
  BY AllocatingIs
  DEF Next, World, Tick, Notice, Send, GoOn, Leave, LeaveLoop, Signal, Up, Handler,
      processTerminate, Loop, Allocating, vars, simVars, ReceiveNobody, receiveNewProcess,
      StoreSlot, Grow, Received, OutsideMemory, NewSecond, SameSecond, Charge, FollowNull,
      DispatchNobody, Dispatch, DispatchUnset, TakeCpu, Start, Publish, End, InsertList
<1>2. raced \subseteq DelayWindows
  BY RacedGrows
<1>. QED  BY <1>1, <1>2, TimedStep, OnTimeStep DEF PromptInv

THEOREM PromptInvariant == Spec => []PromptInv
BY PromptInit, PromptStep, Invariant, PTL DEF Spec

\* A process that was started is charged for every second it has the CPU, until the
\* last: it finishes exactly its run time after its wait, even if the handler has
\* delayed newcomers.
THEOREM RunsToTheEnd == Spec => []RunsWithoutPause
<1>1. IInv /\ PromptInv => RunsWithoutPause
  <2>. SUFFICES ASSUME IInv, Timed, sig, raced \subseteq DelayWindows
                PROVE  cur \in Id /\ clk = job.arrival[cur] + wait[cur] + job.run[cur]
    BY DEF PromptInv, RunsWithoutPause
  <2>1. Always /\ Intact /\ Safe
    BY DEF IInv, DelayWindows
  <2>2. cur \in Id /\ child[cur] # "spin"
    BY <2>1 DEF Intact
  <2>3. rem[cur] <= 0 /\ pc \notin ForkWindow
    BY <2>1, <2>2 DEF Safe
  <2>4. /\ clk = job.arrival[cur] + wait[cur] + job.run[cur] - rem[cur] + Pending
        /\ rem[cur] >= Pending
    BY <2>2, <2>3 DEF Timed
  <2>5. /\ rem[cur] \in Int /\ job.arrival[cur] \in Int /\ job.run[cur] \in Int
        /\ wait[cur] \in Int
    BY <2>1, <2>2, JobsAssumption DEF Always, Typed
  <2>6. Pending = 0 /\ rem[cur] = 0
    BY <2>3, <2>4, <2>5 DEF Pending
  <2>. QED  BY <2>2, <2>4, <2>5, <2>6
<1>. QED  BY <1>1, Invariant, PromptInvariant, PTL

\* Whoever is started has the best priority of all that arrived in an earlier second
\* and have memory, and the earliest arrival among the best: the message queue was
\* emptied in every second, a newcomer that the handler delays is in waitQ, and peek
\* looks at everybody.
THEOREM HighestGoesFirst == Spec => HighestFirst
<1>. DEFINE Started == job.prompt /\ pc = "dispatch" /\ pc' = "busy" /\ raced \subseteq DelayWindows
            First(p) == \/ job.priority[cur'] < job.priority[p]
                        \/ job.priority[cur'] = job.priority[p] /\ job.arrival[cur'] <= job.arrival[p]
<1>1. ASSUME IInv, PromptInv, [Next]_vars, Started, NEW p \in Id, job.arrival[p] < clk,
             p # cur', ~HasLeftReady(p)
      PROVE  First(p)
  <2>. USE DEF generator, processes, loop, cpu, pcb, memory, local, search, Goto
  <2>1. Always /\ Intact /\ OnTime
    BY <1>1 DEF IInv, DelayWindows, PromptInv
  <2>2. Dispatch
    BY <1>1, AllocatingIs
    DEF Next, World, Tick, Notice, Send, GoOn, Leave, LeaveLoop, Signal, Up, Handler,
        processTerminate, Loop, Allocating, vars, simVars, ReceiveNobody, receiveNewProcess,
        StoreSlot, Grow, Received, OutsideMemory, NewSecond, SameSecond, Charge, FollowNull,
        DispatchNobody, DispatchUnset, TakeCpu, Start, Publish, End, InsertList, Receiving
  <2>3. /\ job \in Jobs /\ sent \in 0 .. N /\ clk \in Nat
    BY <2>1, MaxClkAssumption DEF Always, Typed
  <2>4. \A q \in Id : job.arrival[q] \in Nat /\ job.priority[q] \in Nat
    BY <2>3, JobsAssumption
  <2>5. p <= sent
    <3>1. ASSUME ~(p <= sent) PROVE FALSE
      <4>1. sent < N /\ sent + 1 \in Id /\ sent + 1 <= p
        BY <2>3, <3>1, NAssumption DEF Id
      <4>2. job.arrival[sent + 1] <= job.arrival[p] /\ job.arrival[sent + 1] >= clk
        BY <2>1, <2>3, <4>1, ArrivalsGrow DEF OnTime
      <4>. QED  BY <1>1, <2>3, <2>4, <4>1, <4>2
    <3>. QED  BY <3>1
  <2>6. p \notin Range(msgq)
    BY <1>1, <2>1, <2>3, <2>4 DEF OnTime
  <2>7. /\ cur' \in Id /\ cur' \in Range(ready) /\ InHands = {}
    BY <2>1, <2>2, DispatchIntact
  <2>8. p \in Range(ready) /\ ready \in Seq(Id) /\ ready # <<>>
    <3>1. p \in table
      BY <1>1, <2>1, <2>5, <2>6 DEF Intact, Placed, IsForked, HasLeftReady
    <3>2. p \in Range(ready)
      BY <1>1, <2>1, <2>7, <3>1 DEF Intact, Placed, HasLeftReady
    <3>. QED  BY <2>1, <2>2, <3>2 DEF Intact, Placed, Queue, Dispatch
  <2>9. PICK prio \in Priorities : cur' = ready[peek(ready, prio, Arrivals)]
    BY <2>2 DEF Dispatch
  <2>10. \A q \in Id : prio[q] = job.priority[q] /\ Arrivals[q] = job.arrival[q]
    BY <2>9, UnsetAssumption DEF Priorities, Arrivals
  <2>11. \A i \in DOMAIN ready : prio[ready[i]] \in Int /\ Arrivals[ready[i]] \in Int
    <3>1. \A i \in DOMAIN ready : ready[i] \in Id
      BY <2>8, ElementOfSeq, LenProperties
    <3>. QED  BY <2>4, <2>10, <3>1
  <2>12. PICK i \in DOMAIN ready : ready[i] = p
    BY <2>8 DEF Range
  <2>13. ~Better(prio, Arrivals, p, cur')
    BY <2>8, <2>9, <2>11, <2>12, PeekFindsBest
  <2>14. /\ ~(prio[p] < prio[cur'])
         /\ ~(prio[p] = prio[cur'] /\ Arrivals[p] < Arrivals[cur'])
    BY <2>13 DEF Better
  <2>15. PICK c \in Id : c = cur'
    BY <2>7
  <2>16. /\ ~(job.priority[p] < job.priority[c])
         /\ ~(job.priority[p] = job.priority[c] /\ job.arrival[p] < job.arrival[c])
    BY <2>10, <2>14, <2>15
  <2>17. \/ job.priority[c] < job.priority[p]
         \/ job.priority[c] = job.priority[p] /\ job.arrival[c] <= job.arrival[p]
    BY <2>4, <2>15, <2>16
  <2>. QED  BY <2>15, <2>17
<1>2. IInv /\ PromptInv /\ [Next]_vars =>
        [Started => \A p \in Id : job.arrival[p] < clk /\ p # cur' /\ ~HasLeftReady(p) => First(p)]_vars
  BY <1>1
<1>. QED  BY <1>2, Invariant, PromptInvariant, PTL DEF Spec, HighestFirst

-----------------------------------------------------------------------------
(* Lifecycle.                                                              *)

\* The stages and what is left, as the mapping to Lifecycle has them.
HStage(p) == IF p = newcomer THEN "outside" ELSE Stage(p)
HLeft(p) == IF p = newcomer \/ rem[p] < 0 THEN 0 ELSE rem[p]

HStagesAre ==
  \A p \in Id :
    /\ HStage(p) \in {"outside", "memory", "ready", "running", "finished"}
    /\ HStage(p) = "memory" <=> p \in Range(waitQ)
    /\ HStage(p) = "ready" <=> p \in Range(ready)
    /\ HStage(p) = "running" <=> p = cur
    /\ HStage(p) = "finished" <=> p \notin table /\ IsForked(p)

\* The place of a process gives its stage.
LEMMA HStagesFromPlaces == Always /\ Intact => HStagesAre
<1>. SUFFICES ASSUME Always, Intact PROVE HStagesAre
  OBVIOUS
<1>1. PICK H : H = InHands
  OBVIOUS
<1>2. StagesAre(H) /\ Placed(H)
  BY <1>1, StagesFromPlaces DEF Intact
<1>3. newcomer \in Id => newcomer # cur
  BY InHandsAre
<1>4. \A p \in Id : p \in H <=> (p = cur \/ p = newcomer)
  BY <1>1 DEF InHands
<1>5. newcomer \in Id => /\ newcomer \notin Range(waitQ) /\ newcomer \notin Range(ready)
                         /\ newcomer \in table
  BY <1>2, <1>4 DEF Placed
<1>. QED  BY <1>2, <1>3, <1>4, <1>5 DEF HStagesAre, HStage, StagesAre

\* A step that moves nobody and charges nobody.
LEMMA HStutters ==
  ASSUME HStagesAre, HStagesAre', UNCHANGED job,
         \A p \in Id : (p \in Range(waitQ') <=> p \in Range(waitQ))
                       /\ (p \in Range(ready') <=> p \in Range(ready))
                       /\ (p = cur' <=> p = cur)
                       /\ ((p \notin table /\ IsForked(p))' <=> p \notin table /\ IsForked(p)),
         \A p \in Id : HLeft(p)' = HLeft(p)
  PROVE  UNCHANGED AbstractHPF!vars
<1>1. \A p \in Id : HStage(p)' = HStage(p)
  BY DEF HStagesAre
<1>. QED  BY <1>1 DEF AbstractHPF!vars, HStage, HLeft

\* The loop's steps that move nobody.
LEMMA LoopMaps ==
  ASSUME Always, Intact, HStagesAre, HStagesAre',
         \/ ReceiveNobody \/ Allocating
         \/ StoreSlot \/ Received \/ NewSecond \/ SameSecond \/ FollowNull
         \/ DispatchNobody \/ DispatchUnset \/ TakeCpu \/ Start \/ Publish \/ End
  PROVE  UNCHANGED AbstractHPF!vars
<1>. USE DEF generator, processes, loop, cpu, pcb, memory, local, search, OutsideMemory, Goto
<1>1. UNCHANGED <<job, waitQ, ready, table, child, newcomer, rem>>
  BY AllocatingIs
  DEF ReceiveNobody, PollEmpty, StoreSlot, Received, NewSecond, SameSecond, FollowNull,
      DispatchNobody, DispatchUnset, TakeCpu, Start, Publish, End
<1>2. cur' = cur \/ (cur' = None /\ cpuFree /\ pc = "dispatch")
  BY AllocatingIs
  DEF ReceiveNobody, StoreSlot, Received, NewSecond, SameSecond, FollowNull, DispatchNobody,
      DispatchUnset, TakeCpu, Start, Publish, End
<1>3. \A p \in Id : p = cur' <=> p = cur
  BY <1>2, PointerAssumption DEF Always, Hands
<1>. QED  BY <1>1, <1>3, HStutters DEF HLeft, IsForked

\* Clock, generator and processes change no stage.
LEMMA WorldMaps ==
  ASSUME Always, HStagesAre, HStagesAre', World
  PROVE  UNCHANGED AbstractHPF!vars
<1>. USE DEF generator, processes, loop, cpu, pcb, memory, local, search
<1>1. UNCHANGED <<job, waitQ, ready, table, cur, newcomer, rem>>
  BY DEF World, Tick, Notice, Send, GoOn, Leave, LeaveLoop, Signal, Up
<1>2. \A p \in Id : child'[p] # "none" <=> child[p] # "none"
  BY DEF World, Tick, Notice, Send, GoOn, Leave, LeaveLoop, Signal, Up, Runs, Always, Typed
<1>. QED  BY <1>1, <1>2, HStutters DEF HLeft, IsForked

\* Who is received is still outside.
LEMMA ReceiveMaps ==
  ASSUME Always, Intact, HStagesAre, HStagesAre', receiveNewProcess
  PROVE  UNCHANGED AbstractHPF!vars
<1>. USE DEF generator, processes, loop, cpu, pcb, memory, local, search, Goto
<1>1. PICK p \in Id : Receive(p) /\ newcomer' = p
  BY DEF receiveNewProcess
<1>2. /\ UNCHANGED <<job, child, cur, ready, waitQ>> /\ pc = "receive"
      /\ table' = table \cup {p} /\ rem' = [rem EXCEPT ![p] = job.run[p]]
  BY <1>1 DEF receiveNewProcess, Receive
<1>3. p \in Range(msgq)
  BY <1>1, TailQueue DEF Receive, Always, Typed
<1>4. p \notin table /\ ~IsForked(p)
  BY <1>3 DEF Intact, Placed, IsForked
<1>5. newcomer \notin Id
  BY <1>2, InHandsAre DEF Receiving
<1>6. rem[p] = 0 /\ rem \in [Id -> Int]
  BY <1>4 DEF Intact, IsForked, Always, Typed
<1>7. \A q \in Id : HLeft(q)' = HLeft(q)
  <2>1. \A q \in Id : q # p => rem'[q] = rem[q] /\ q # newcomer' /\ q # newcomer
    BY <1>1, <1>2, <1>5, <1>6
  <2>2. HLeft(p)' = 0 /\ HLeft(p) = 0
    BY <1>1, <1>5, <1>6 DEF HLeft
  <2>. QED  BY <2>1, <2>2 DEF HLeft
<1>. QED  BY <1>2, <1>4, <1>7, HStutters DEF IsForked

\* It arrives when it is queued, with all of its run time left.
LEMMA QueuedMaps ==
  ASSUME Always, Intact, Safe, HStagesAre, HStagesAre', InsertList \/ Grow
  PROVE  AbstractHPF!Next
<1>. USE DEF generator, processes, loop, cpu, pcb, memory, local, search, OutsideMemory, Goto
<1>1. /\ newcomer \in Id /\ newcomer' = None
      /\ \/ Range(waitQ') = Range(waitQ) \cup {newcomer} /\ UNCHANGED ready
         \/ Range(ready') = Range(ready) \cup {newcomer} /\ UNCHANGED waitQ
  BY QueuedIntact
<1>2. UNCHANGED <<job, child, cur, table, rem>>
  BY DEF InsertList, Grow
<1>3. PICK p \in Id : p = newcomer
  BY <1>1
<1>4. rem[p] = job.run[p] /\ job.run[p] \in Int /\ job.run[p] > 0
  <2>1. p \in table /\ p # cur
    BY <1>3, InHandsAre DEF Always, Hands
  <2>. QED  BY <2>1, JobsAssumption DEF Safe, Always, Typed
<1>5. HStage(p) = "outside" /\ HStage(p)' \in {"memory", "ready"}
  <2>1. p \in Range(waitQ') \/ p \in Range(ready')
    BY <1>1, <1>3
  <2>. QED  BY <1>3, <2>1 DEF HStage, HStagesAre
<1>6. \A q \in Id : q # p => HStage(q)' = HStage(q)
  BY <1>1, <1>2, <1>3 DEF HStagesAre, IsForked
<1>7. HLeft(p)' = job.run[p] /\ \A q \in Id : q # p => HLeft(q)' = HLeft(q)
  BY <1>1, <1>2, <1>3, <1>4, PointerAssumption DEF HLeft
<1>8. AbstractHPF!Arrive(p)
  BY <1>2, <1>5, <1>6, <1>7 DEF AbstractHPF!Arrive, AbstractHPF!Move, HStage, HLeft
<1>. QED  BY <1>8 DEF AbstractHPF!Next

\* A process that is dispatched has the CPU, alone.
LEMMA DispatchMaps ==
  ASSUME Always, Intact, HStagesAre, HStagesAre', Dispatch
  PROVE  AbstractHPF!Next
<1>. USE DEF generator, processes, loop, cpu, pcb, memory, local, search, Goto
<1>1. /\ cur' \in Id /\ cur' \in Range(ready) /\ Range(ready') = Range(ready) \ {cur'}
      /\ cur \notin Id /\ newcomer \notin Id
  BY DispatchIntact, DispatchAlways
<1>2. PICK p \in Id : p = cur'
  BY <1>1
<1>3. UNCHANGED <<job, table, rem, waitQ, newcomer>> /\ child' = [child EXCEPT ![p] = "spin"]
  BY <1>2 DEF Dispatch
<1>4. p \in table
  BY <1>1, <1>2 DEF Intact, Placed
<1>5. \A q \in Id : (q \notin table /\ IsForked(q))' <=> q \notin table /\ IsForked(q)
  BY <1>3, <1>4 DEF IsForked
<1>6. HStage(p) = "ready" /\ HStage(p)' = "running" /\ \A q \in Id : HStage(q) # "running"
  BY <1>1, <1>2 DEF HStagesAre
<1>7. \A q \in Id : q # p => HStage(q)' = HStage(q)
  BY <1>1, <1>2, <1>3, <1>5 DEF HStagesAre
<1>8. \A q \in Id : HLeft(q)' = HLeft(q)
  BY <1>3 DEF HLeft
<1>9. AbstractHPF!Dispatch(p)
  BY <1>3, <1>6, <1>7, <1>8 DEF AbstractHPF!Dispatch, AbstractHPF!Move, HStage, HLeft
<1>. QED  BY <1>9 DEF AbstractHPF!Next

\* A second of the CPU, or one charged to a process that is late in noticing that it
\* has nothing left.
LEMMA ChargeMaps ==
  ASSUME Always, Intact, Safe, HStagesAre, HStagesAre', Charge
  PROVE  UNCHANGED AbstractHPF!vars \/ AbstractHPF!Next
<1>. USE DEF generator, processes, loop, cpu, pcb, memory, local, search, Goto
<1>1. cur \in Id /\ cur' = cur
  BY ChargeSafe
<1>2. PICK p \in Id : p = cur
  BY <1>1
<1>3. /\ UNCHANGED <<job, table, waitQ, ready, child, newcomer>>
      /\ rem' = [rem EXCEPT ![p] = @ - 1]
  BY <1>2 DEF Charge, Decrement
<1>4. rem \in [Id -> Int] /\ p # newcomer
  BY <1>2, InHandsAre DEF Always, Typed
<1>5. rem'[p] = rem[p] - 1 /\ \A q \in Id : q # p => rem'[q] = rem[q]
  BY <1>3, <1>4
<1>6. \A q \in Id : q # p => HLeft(q)' = HLeft(q)
  BY <1>3, <1>5 DEF HLeft
<1>7. CASE rem[p] > 0
  <2>1. HLeft(p) = rem[p] /\ HLeft(p)' = rem[p] - 1
    BY <1>3, <1>4, <1>5, <1>7 DEF HLeft
  <2>2. HStage(p) = "running" /\ \A q \in Id : HStage(q)' = HStage(q)
    BY <1>1, <1>2, <1>3 DEF HStagesAre, IsForked
  <2>3. AbstractHPF!Run(p)
    BY <1>3, <1>6, <1>7, <2>1, <2>2 DEF AbstractHPF!Run, HStage, HLeft
  <2>. QED  BY <2>3 DEF AbstractHPF!Next
<1>8. CASE ~(rem[p] > 0)
  <2>1. rem[p] \in Int
    BY <1>4
  <2>2. HLeft(p) = 0 /\ HLeft(p)' = 0
    BY <1>3, <1>4, <1>5, <1>8, <2>1 DEF HLeft
  <2>. QED  BY <1>1, <1>3, <1>6, <2>2, HStutters DEF IsForked
<1>. QED  BY <1>7, <1>8

\* The handler finishes the process that has the CPU and lets in who waited.
LEMMA HandlerMaps ==
  ASSUME Always, Intact, Safe, HStagesAre, HStagesAre', Handler, "grow" \notin raced'
  PROVE  AbstractHPF!Next
<1>1. /\ cur \in Id /\ cur' = None /\ table' = table \ {cur}
      /\ child[cur] \in {"up", "gone"} /\ UNCHANGED <<job, rem, child, newcomer>>
      /\ Range(waitQ') \cup Range(ready') = Range(waitQ) \cup Range(ready)
      /\ Range(waitQ') \subseteq Range(waitQ)
  BY HandlerIntact
<1>2. PICK p \in Id : p = cur
  BY <1>1
<1>3. HLeft(p) = 0
  <2>1. rem[p] <= 0 /\ rem[p] \in Int
    BY <1>1, <1>2 DEF Safe, Always, Typed
  <2>. QED  BY <2>1 DEF HLeft
<1>4. HStage(p) = "running" /\ HStage(p)' = "finished"
  BY <1>1, <1>2 DEF HStagesAre, IsForked
<1>. DEFINE in == {q \in Id : HStage(q) = "memory" /\ HStage(q)' = "ready"}
<1>5. Range(waitQ) \cap Range(ready) = {}
  BY DEF Intact, Placed
<1>6. \A q \in Id : q # p => HStage(q)' = IF q \in in THEN "ready" ELSE HStage(q)
  BY <1>1, <1>2, <1>5, PointerAssumption DEF HStagesAre, IsForked
<1>7. \A q \in Id : HLeft(q)' = HLeft(q)
  BY <1>1 DEF HLeft
<1>8. AbstractHPF!Finish(p)
  BY <1>1, <1>3, <1>4, <1>6, <1>7 DEF AbstractHPF!Finish, HStage, HLeft
<1>. QED  BY <1>8 DEF AbstractHPF!Next

\* While no window is hit but those that delay a newcomer, every step is a step of
\* Lifecycle or none: one process has the CPU, until it has nothing left, and it
\* finishes once.
THEOREM LifecycleKept == Spec => LifecycleUnlessRaced
<1>. DEFINE Staged == "grow" \notin raced => HStagesAre
<1>0. IInv => Staged
  BY HStagesFromPlaces DEF IInv
<1>1. ASSUME IInv, Staged', [Next]_vars, raced' \subseteq DelayWindows
      PROVE  UNCHANGED AbstractHPF!vars \/ AbstractHPF!Next
  <2>1. raced \subseteq DelayWindows
    BY <1>1, RacedGrows
  <2>2. Always /\ Intact /\ Safe /\ HStagesAre
    BY <1>1, <2>1, HStagesFromPlaces DEF IInv, DelayWindows
  <2>3. HStagesAre'
    BY <1>1 DEF DelayWindows
  <2>4. CASE UNCHANGED vars
    <3>1. UNCHANGED <<job, waitQ, ready, table, cur, newcomer, rem, child>>
      BY <2>4 DEF vars, simVars, local, search, processes, cpu, pcb, memory
    <3>. QED  BY <2>2, <2>3, <3>1, HStutters DEF HLeft, IsForked
  <2>. QED
    BY <1>1, <2>2, <2>3, <2>4, LoopMaps, WorldMaps, ReceiveMaps, QueuedMaps, DispatchMaps,
       ChargeMaps, HandlerMaps DEF DelayWindows, Next, Loop, Allocating
<1>2. IInv /\ Staged' /\ [Next]_vars =>
        [raced' \subseteq DelayWindows => UNCHANGED AbstractHPF!vars \/ AbstractHPF!Next]_vars
  BY <1>1
<1>. QED  BY <1>0, <1>2, Invariant, PTL DEF Spec, LifecycleUnlessRaced
=============================================================================
