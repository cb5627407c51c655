------------------------ MODULE CommandQueue_proofs -------------------------
(***************************************************************************)
(* Proofs about CommandQueue for every set of callers and call sites, every *)
(* size of the queue and every number of commands.                         *)
(***************************************************************************)
EXTENDS CommandQueue, SequenceFacts, FiniteSetTheorems

-----------------------------------------------------------------------------
(* What the promise needs to know of new commands *)

(* The commands that the call sites can make. *)
SiteCommands ==
    {[id |-> i, kind |-> s.kind, priority |-> s.priority,
      interruptible |-> s.interruptible] : i \in Ids, s \in CallSites}

(* A new command of one of the sites is among them. *)
LEMMA MadeBySite ==
    ASSUME NEW i \in Ids, NEW s \in CallSites
    PROVE  [id |-> i, kind |-> s.kind, priority |-> s.priority,
            interruptible |-> s.interruptible] \in SiteCommands
BY DEF SiteCommands

(* A step that adds a newer command to the waiting ones and bounds the
   result is the abstract Enqueue.                                          *)
LEMMA AddingIsEnqueue ==
    ASSUME NEW e \in SiteCommands,
           \A d \in Bounded(ToSet(queue), MaxQueueSize) \cup current : d.id < e.id,
           Bounded(ToSet(queue), MaxQueueSize)'
              = Promise!Bounded(Bounded(ToSet(queue), MaxQueueSize) \cup {e}, MaxQueueSize),
           current' = current
    PROVE  Promise!Enqueue
<1>1. PICK i \in Ids, s \in CallSites :
         e = [id |-> i, kind |-> s.kind, priority |-> s.priority,
              interruptible |-> s.interruptible]
  BY DEF SiteCommands
<1> QED  BY <1>1 DEF Promise!Enqueue

-----------------------------------------------------------------------------
(* The inductive invariant *)

(* Ids are drawn in order: none in use is as large as the next. *)
Fresh ==
    /\ \A i \in DOMAIN queue : queue[i].id < nextId
    /\ \A c \in current : c.id < nextId

(* PriorityFifo and the absence of duplicates, of any sequence. *)
Fifo(q) ==
    \A i, j \in DOMAIN q :
        i < j => \/ q[i].priority < q[j].priority
                 \/ q[i].priority = q[j].priority /\ q[i].id < q[j].id

Distinct(q) == \A i, j \in DOMAIN q : q[i].id = q[j].id => i = j

(* Only the loop that runs a command has a current one. *)
LoopRuns == proc # "running" => current = {}

(* The write lock is held by the caller that is trimming. *)
Locking == \A p \in Callers : pc[p] = "trim" <=> writer = p

IInv ==
    /\ TypeOK /\ Fresh /\ LoopRuns /\ Locking
    /\ PriorityFifo /\ OverLimitOnlyEssential /\ Conservation /\ NoLostWakeup

USE CallSitesAssumption, SizeAssumption, ApiAssumption, FreeAssumption

(* The queue holds commands. *)
LEMMA QueueElements ==
    ASSUME queue \in Seq(Command)
    PROVE  /\ Len(queue) \in Nat
           /\ DOMAIN queue = 1 .. Len(queue)
           /\ \A i \in DOMAIN queue :
                 /\ queue[i] \in Command
                 /\ queue[i].id \in Ids
                 /\ queue[i].priority \in Int
<1>1. \A i \in DOMAIN queue : queue[i] \in Command
  BY ElementOfSeq, LenProperties
<1>2. \A c \in Command : c.id \in Ids /\ c.priority \in Int
  BY DEF Command, CommandPriority, Critical, Low
<1> QED  BY <1>1, <1>2, LenProperties

LEMMA InitInvariant == Init => IInv
<1> SUFFICES ASSUME Init PROVE IInv
  OBVIOUS
<1>1. TypeOK
  <2>1. (CHOOSE s \in CallSites : TRUE) \in CallSites
    OBVIOUS
  <2>2. site \in [Callers -> CallSites]
    BY <2>1, Zenon DEF Init
  <2>3. /\ queue \in Seq(Command)
        /\ current \in SUBSET Command
        /\ \A c, d \in current : c = d
        /\ writer \in Callers \cup {Free}
    BY DEF Init
  <2>8. permit \in BOOLEAN
    BY Zenon DEF Init
  <2>4. /\ proc \in {"poll", "running", "park", "wait"}
        /\ pc \in [Callers -> CallerPc]
        /\ ticket \in [Callers -> 0 .. MaxCommands]
    BY DEF Init, CallerPc
  <2>5. /\ nextId \in 1 .. MaxCommands + 1
    BY DEF Init
  <2>6. aged \in SUBSET Ids
    BY DEF Init
  <2>7. fate \in [Ids -> Fate]
    BY DEF Init, Fate
  <2> QED  BY <2>2, <2>3, <2>4, <2>5, <2>6, <2>7, <2>8 DEF TypeOK
<1>2. Fresh /\ LoopRuns /\ Locking
  BY DEF Init, Fresh, LoopRuns, Locking
<1>3. PriorityFifo /\ OverLimitOnlyEssential /\ Conservation /\ NoLostWakeup
  BY DEF Init, PriorityFifo, OverLimitOnlyEssential, Conservation,
         NoLostWakeup, Queued, Running, Droppable
<1> QED  BY <1>1, <1>2, <1>3 DEF IInv

(* The steps that leave the queue and the current command alone. *)
LEMMA QuietSteps ==
    ASSUME IInv, NEW p \in Callers,
           \/ Call(p) \/ GuardReadCurrent(p) \/ GuardReadQueue(p)
           \/ Collapse(p) \/ Unlock(p) \/ NotifyOne(p)
           \/ PollCurrent(p) \/ PollQueue(p) \/ AwaitReturn(p)
           \/ AwaitTimeout(p)
    PROVE  IInv'
<1> USE DEF IInv, TypeOK, CallerPc, EntryPc, Returned, CallSite
<1>1. CASE Call(p)
  BY <1>1 DEF Call, Fresh, LoopRuns, Locking, PriorityFifo,
     OverLimitOnlyEssential, Conservation, NoLostWakeup, Queued, Running,
     Droppable
<1>2. CASE GuardReadCurrent(p)
  BY <1>2 DEF GuardReadCurrent, Fresh, LoopRuns, Locking, PriorityFifo,
     OverLimitOnlyEssential, Conservation, NoLostWakeup, Queued, Running,
     Droppable
<1>3. CASE GuardReadQueue(p)
  BY <1>3 DEF GuardReadQueue, Fresh, LoopRuns, Locking, PriorityFifo,
     OverLimitOnlyEssential, Conservation, NoLostWakeup, Queued, Running,
     Droppable
<1>4. CASE Collapse(p)
  <2>1. TypeOK'
    <3>1. ticket' \in [Callers -> 0 .. MaxCommands]
      <4>1. \A i \in DOMAIN queue : queue[i].id \in 0 .. MaxCommands
        BY QueueElements DEF Ids
      <4> QED  BY <1>4, <4>1 DEF Collapse
    <3> QED  BY <1>4, <3>1 DEF Collapse
  <2>2. (Fresh /\ LoopRuns /\ Locking /\ PriorityFifo)'
    BY <1>4 DEF Collapse, Fresh, LoopRuns, Locking, PriorityFifo
  <2>3. (OverLimitOnlyEssential /\ Conservation)'
    BY <1>4 DEF Collapse, OverLimitOnlyEssential, Conservation, Queued,
                Running, Droppable
  <2>4. NoLostWakeup'
    BY <1>4 DEF Collapse, NoLostWakeup
  <2> QED  BY <2>1, <2>2, <2>3, <2>4
<1>5. CASE Unlock(p)
  BY <1>5 DEF Unlock, MustTrim, Fresh, LoopRuns, Locking, PriorityFifo,
     OverLimitOnlyEssential, Conservation, NoLostWakeup, Queued, Running,
     Droppable
<1>6. CASE NotifyOne(p)
  BY <1>6 DEF NotifyOne, Fresh, LoopRuns, Locking, PriorityFifo,
     OverLimitOnlyEssential, Conservation, NoLostWakeup, Queued, Running,
     Droppable
<1>7. CASE PollCurrent(p)
  BY <1>7 DEF PollCurrent, Fresh, LoopRuns, Locking, PriorityFifo,
     OverLimitOnlyEssential, Conservation, NoLostWakeup, Queued, Running,
     Droppable
<1>8. CASE PollQueue(p)
  BY <1>8 DEF PollQueue, Fresh, LoopRuns, Locking, PriorityFifo,
     OverLimitOnlyEssential, Conservation, NoLostWakeup, Queued, Running,
     Droppable
<1>9. CASE AwaitReturn(p)
  BY <1>9 DEF AwaitReturn, Fresh, LoopRuns, Locking, PriorityFifo,
     OverLimitOnlyEssential, Conservation, NoLostWakeup, Queued, Running,
     Droppable
<1>10. CASE AwaitTimeout(p)
  BY <1>10 DEF AwaitTimeout, Fresh, LoopRuns, Locking, PriorityFifo,
     OverLimitOnlyEssential, Conservation, NoLostWakeup, Queued, Running,
     Droppable
<1> QED  BY <1>1, <1>2, <1>3, <1>4, <1>5, <1>6, <1>7, <1>8, <1>9, <1>10

-----------------------------------------------------------------------------
(* Removals *)

(* A subsequence of the queue is ordered and without duplicates. *)
LEMMA Subsequence ==
    ASSUME NEW q \in Seq(Command), Fifo(q), Distinct(q),
           NEW r \in Seq(Command), NEW f \in [DOMAIN r -> DOMAIN q],
           Increasing(f), \A i \in DOMAIN r : r[i] = q[f[i]]
    PROVE  Fifo(r) /\ Distinct(r)
<1>1. DOMAIN r \subseteq Int /\ DOMAIN q \subseteq Int
  BY LenProperties
<1>2. \A i \in DOMAIN r : f[i] \in DOMAIN q
  OBVIOUS
<1>3. \A i, j \in DOMAIN r : i < j => f[i] < f[j]
  BY DEF Increasing
<1>4. Fifo(r)
  BY <1>2, <1>3 DEF Fifo
<1>5. ASSUME NEW i \in DOMAIN r, NEW j \in DOMAIN r, r[i].id = r[j].id
      PROVE  i = j
  <2>1. f[i] = f[j]
    BY <1>2, <1>5 DEF Distinct
  <2>2. ~ (i < j) /\ ~ (j < i)
    BY <1>1, <1>2, <1>3, <2>1
  <2> QED  BY <1>1, <2>2
<1>6. Distinct(r)
  BY <1>5 DEF Distinct
<1> QED  BY <1>4, <1>6

(* A step that removes commands from the queue, and may start one of them, *)
(* keeps the invariant if the removed ones are recorded.                   *)
LEMMA RemovalStep ==
    ASSUME IInv, queue' \in Seq(Command),
           NEW f \in [DOMAIN queue' -> DOMAIN queue], Increasing(f),
           \A i \in DOMAIN queue' : queue'[i] = queue[f[i]],
           Len(queue') <= Len(queue),
           NEW started \in SUBSET Command,
           \A c \in started : \E i \in DOMAIN queue : c = queue[i]
    PROVE  /\ PriorityFifo'
           /\ Distinct(queue')
           /\ \A i \in DOMAIN queue' : queue'[i].id < nextId
           /\ \A c \in started : c.id < nextId
           /\ (Len(queue) > MaxQueueSize => Droppable(queue) = {}) =>
                 (Len(queue') > MaxQueueSize => Droppable(queue') = {})
           /\ queue' # <<>> => queue # <<>>
<1>1. queue \in Seq(Command) /\ Fifo(queue) /\ Distinct(queue)
  BY DEF IInv, TypeOK, PriorityFifo, Conservation, Fifo, Distinct
<1>2. Fifo(queue') /\ Distinct(queue')
  BY <1>1, Subsequence
<1>3. PriorityFifo'
  BY <1>2 DEF PriorityFifo, Fifo
<1>4. /\ \A i \in DOMAIN queue' : queue'[i].id < nextId
      /\ \A c \in started : c.id < nextId
  BY DEF IInv, Fresh
<1>5. Len(queue) \in Nat /\ Len(queue') \in Nat
  BY <1>1, LenProperties
<1>6. ASSUME Droppable(queue) = {}
      PROVE  Droppable(queue') = {}
  BY <1>6 DEF Droppable
<1>7. Len(queue') > MaxQueueSize => Len(queue) > MaxQueueSize
  BY <1>5
<1>8. queue' # <<>> => queue # <<>>
  <2> SUFFICES ASSUME queue = <<>> PROVE queue' = <<>>
    OBVIOUS
  <2>1. Len(queue) = 0
    OBVIOUS
  <2>2. Len(queue') = 0
    BY <1>5, <2>1
  <2> QED  BY <2>2, EmptySeq
<1> QED  BY <1>2, <1>3, <1>4, <1>6, <1>7, <1>8

(* VecDeque::retain keeps the invariant when it records what it removed.   *)
LEMMA RetainStep ==
    ASSUME IInv, NEW K \in SUBSET DOMAIN queue,
           NEW why \in {"cleared", "expired"}, Retain(K, why)
    PROVE  IInv'
<1> DEFINE n == Cardinality(K)
<1>1. n \in Nat
  <2>1. DOMAIN queue = 1 .. Len(queue) /\ Len(queue) \in Nat
    BY QueueElements DEF IInv, TypeOK
  <2>2. IsFiniteSet(DOMAIN queue)
    BY <2>1, FS_Interval
  <2> QED  BY <2>2, FS_Subset, FS_CardinalityType
<1>2. PICK f \in [1 .. n -> K] :
         /\ Increasing(f)
         /\ \A k \in K : \E i \in DOMAIN f : f[i] = k
         /\ queue' = [i \in 1 .. n |-> queue[f[i]]]
  BY DEF Retain
<1> HIDE DEF n
<1>3. /\ writer = Free
      /\ UNCHANGED <<current, writer, permit, proc, pc, site, ticket, nextId,
                     aged>>
      /\ fate' = [id \in Ids |->
                     IF \E i \in DOMAIN queue \ K : queue[i].id = id
                     THEN why ELSE fate[id]]
  BY DEF Retain
<1>4. \A i \in 1 .. n : f[i] \in DOMAIN queue
  OBVIOUS
<1>5. /\ queue' \in Seq(Command)
      /\ Len(queue') = n
      /\ DOMAIN queue' = 1 .. n
  <2>1. \A i \in 1 .. n : queue[f[i]] \in Command
    BY <1>4, QueueElements DEF IInv, TypeOK
  <2> QED  BY <1>1, <1>2, <2>1
<1>6. \A k \in K : \E i \in DOMAIN queue' : queue'[i] = queue[k]
  BY <1>2, <1>5
<1>7. Len(queue') <= Len(queue)
  <2>1. DOMAIN queue = 1 .. Len(queue) /\ Len(queue) \in Nat
    BY QueueElements DEF IInv, TypeOK
  <2>2. Cardinality(1 .. Len(queue)) = Len(queue) /\ IsFiniteSet(1 .. Len(queue))
    BY <2>1, FS_Interval, SMTT(30)
  <2>3. Cardinality(K) <= Len(queue)
    BY <2>1, <2>2, FS_Subset
  <2> QED  BY <1>5, <2>3 DEF n
<1>8. f \in [DOMAIN queue' -> DOMAIN queue]
  BY <1>4, <1>5
<1>9. \A i \in DOMAIN queue' : queue'[i] = queue[f[i]]
  BY <1>2, <1>5
<1>10. /\ PriorityFifo'
       /\ Distinct(queue')
       /\ \A i \in DOMAIN queue' : queue'[i].id < nextId
       /\ (Len(queue) > MaxQueueSize => Droppable(queue) = {}) =>
             (Len(queue') > MaxQueueSize => Droppable(queue') = {})
       /\ queue' # <<>> => queue # <<>>
  <2>1. /\ {} \in SUBSET Command
        /\ \A c \in {} : \E i \in DOMAIN queue : c = queue[i]
    OBVIOUS
  <2> QED  BY <1>2, <1>5, <1>7, <1>8, <1>9, <2>1, RemovalStep, Zenon
<1>11. TypeOK'
  <2>1. fate' \in [Ids -> Fate]
    BY <1>3 DEF IInv, TypeOK, Fate
  <2> QED  BY <1>3, <1>5, <2>1 DEF IInv, TypeOK
<1>12. (Fresh /\ LoopRuns /\ Locking)'
  BY <1>3, <1>10 DEF IInv, Fresh, LoopRuns, Locking
<1>13. OverLimitOnlyEssential'
  BY <1>3, <1>10 DEF IInv, OverLimitOnlyEssential
<1>14. Conservation'
  <2>1. \A i \in DOMAIN queue' : \E k \in K : queue'[i] = queue[k]
    BY <1>2, <1>5
  <2>2. ASSUME NEW id \in Ids
        PROVE  Queued(id)' <=> fate'[id] = "queued"
    <3>1. Queued(id) <=> fate[id] = "queued"
      BY DEF IInv, Conservation
    <3>2. CASE \E i \in DOMAIN queue \ K : queue[i].id = id
      <4>1. fate'[id] = why /\ why # "queued"
        BY <1>3, <3>2
      <4>2. ~ \E k \in K : queue[k].id = id
        BY <3>2 DEF IInv, Conservation
      <4>3. ~ Queued(id)'
        BY <2>1, <4>2 DEF Queued
      <4> QED  BY <4>1, <4>3
    <3>3. CASE ~ \E i \in DOMAIN queue \ K : queue[i].id = id
      <4>1. fate'[id] = fate[id]
        BY <1>3, <3>3
      <4>2. Queued(id) <=> \E k \in K : queue[k].id = id
        BY <3>3 DEF Queued
      <4>3. Queued(id)' <=> \E k \in K : queue[k].id = id
        BY <1>6, <2>1 DEF Queued
      <4> QED  BY <3>1, <4>1, <4>2, <4>3
    <3> QED  BY <3>2, <3>3
  <2>3. ASSUME NEW id \in Ids
        PROVE  Running(id)' <=> fate'[id] = "running"
    <3>1. Running(id)' <=> fate[id] = "running"
      BY <1>3 DEF IInv, Conservation, Running
    <3>2. CASE \E i \in DOMAIN queue \ K : queue[i].id = id
      <4>1. fate[id] = "queued" /\ fate'[id] = why
        BY <1>3, <3>2 DEF IInv, Conservation, Queued
      <4> QED  BY <3>1, <4>1
    <3>3. CASE ~ \E i \in DOMAIN queue \ K : queue[i].id = id
      BY <1>3, <3>1, <3>3
    <3> QED  BY <3>2, <3>3
  <2> QED  BY <1>10, <2>2, <2>3 DEF Conservation, Distinct
<1>15. NoLostWakeup'
  BY <1>3, <1>10 DEF IInv, NoLostWakeup
<1> QED  BY <1>10, <1>11, <1>12, <1>13, <1>14, <1>15 DEF IInv

(* Taking the n-th command out. *)
LEMMA TakeOut ==
    ASSUME IInv, NEW n \in DOMAIN queue,
           queue' \in Seq(Command), Len(queue') = Len(queue) - 1,
           \A i \in 1 .. Len(queue) - 1 :
              queue'[i] = IF i < n THEN queue[i] ELSE queue[i + 1]
    PROVE  /\ PriorityFifo'
           /\ Distinct(queue')
           /\ \A i \in DOMAIN queue' : queue'[i].id < nextId
           /\ (Len(queue) > MaxQueueSize => Droppable(queue) = {}) =>
                 (Len(queue') > MaxQueueSize => Droppable(queue') = {})
           /\ queue' # <<>> => queue # <<>>
           /\ \A id \in Ids : Queued(id)' <=> Queued(id) /\ id # queue[n].id
<1> DEFINE f == [i \in DOMAIN queue' |-> IF i < n THEN i ELSE i + 1]
<1>1. /\ Len(queue) \in Nat /\ DOMAIN queue = 1 .. Len(queue)
      /\ DOMAIN queue' = 1 .. Len(queue) - 1
      /\ n \in 1 .. Len(queue)
  BY QueueElements, LenProperties DEF IInv, TypeOK
<1>2. f \in [DOMAIN queue' -> DOMAIN queue] /\ Increasing(f)
  BY <1>1 DEF Increasing
<1>3. \A i \in DOMAIN queue' : queue'[i] = queue[f[i]]
  BY <1>1
<1>4. \A k \in DOMAIN queue \ {n} : \E i \in DOMAIN queue' : f[i] = k
  <2> SUFFICES ASSUME NEW k \in DOMAIN queue \ {n}
               PROVE  \E i \in DOMAIN queue' : f[i] = k
    OBVIOUS
  <2>1. CASE k < n
    BY <1>1, <2>1
  <2>2. CASE k > n
    <3>1. k - 1 \in DOMAIN queue' /\ f[k - 1] = k
      BY <1>1, <2>2
    <3> QED  BY <3>1
  <2> QED  BY <1>1, <2>1, <2>2
<1>5. \A i \in DOMAIN queue' : f[i] # n
  BY <1>1
<1> HIDE DEF f
<1>6. Len(queue') <= Len(queue)
  BY <1>1
<1>7. /\ {} \in SUBSET Command
      /\ \A c \in {} : \E i \in DOMAIN queue : c = queue[i]
  OBVIOUS
<1>8. /\ PriorityFifo'
      /\ Distinct(queue')
      /\ \A i \in DOMAIN queue' : queue'[i].id < nextId
      /\ (Len(queue) > MaxQueueSize => Droppable(queue) = {}) =>
            (Len(queue') > MaxQueueSize => Droppable(queue') = {})
      /\ queue' # <<>> => queue # <<>>
  BY <1>2, <1>3, <1>6, <1>7, RemovalStep, Zenon
<1>9. ASSUME NEW id \in Ids
      PROVE  Queued(id)' <=> Queued(id) /\ id # queue[n].id
  <2>1. ASSUME Queued(id)'
        PROVE  Queued(id) /\ id # queue[n].id
    <3>1. PICK i \in DOMAIN queue' : queue'[i].id = id
      BY <2>1 DEF Queued
    <3>2. f[i] \in DOMAIN queue /\ queue[f[i]].id = id /\ f[i] # n
      BY <1>2, <1>3, <1>5, <3>1
    <3> QED  BY <3>2 DEF Queued, IInv, Conservation
  <2>2. ASSUME Queued(id), id # queue[n].id
        PROVE  Queued(id)'
    <3>1. PICK k \in DOMAIN queue : queue[k].id = id
      BY <2>2 DEF Queued
    <3>2. PICK i \in DOMAIN queue' : f[i] = k
      BY <1>4, <2>2, <3>1
    <3>3. queue'[i].id = id
      BY <1>3, <3>1, <3>2
    <3> QED  BY <3>2, <3>3 DEF Queued
  <2> QED  BY <2>1, <2>2
<1> QED  BY <1>8, <1>9

LEMMA TrimStep ==
    ASSUME IInv, NEW p \in Callers, Trim(p)
    PROVE  IInv'
<1>1. PICK n \in DOMAIN queue :
         /\ IsLastDroppable(queue, n)
         /\ queue' = RemoveAt(queue, n)
         /\ fate' = [fate EXCEPT ![queue[n].id] = "trimmed"]
  BY DEF Trim
<1>2. /\ pc[p] = "trim"
      /\ UNCHANGED <<current, writer, permit, proc, pc, site, ticket, nextId,
                     aged>>
  BY DEF Trim
<1>3. queue \in Seq(Command) /\ n \in 1 .. Len(queue) /\ queue[n].id \in Ids
  BY QueueElements DEF IInv, TypeOK
<1>4. /\ queue' \in Seq(Command)
      /\ Len(queue') = Len(queue) - 1
      /\ \A i \in 1 .. Len(queue) - 1 :
            queue'[i] = IF i < n THEN queue[i] ELSE queue[i + 1]
  BY <1>1, <1>3, RemoveAtProperties
<1>5. /\ PriorityFifo'
      /\ Distinct(queue')
      /\ \A i \in DOMAIN queue' : queue'[i].id < nextId
      /\ \A id \in Ids : Queued(id)' <=> Queued(id) /\ id # queue[n].id
  BY <1>4, TakeOut
<1>6. TypeOK'
  BY <1>1, <1>2, <1>4 DEF IInv, TypeOK, Fate
<1>7. (Fresh /\ LoopRuns /\ Locking)'
  BY <1>2, <1>5 DEF IInv, Fresh, LoopRuns, Locking
<1>8. writer' # Free
  BY <1>2 DEF IInv, Locking
<1>9. OverLimitOnlyEssential'
  BY <1>8 DEF OverLimitOnlyEssential
<1>10. Conservation'
  <2>1. fate[queue[n].id] = "queued"
    BY <1>3 DEF IInv, Conservation, Queued
  <2>2. \A id \in Ids : fate'[id] = IF id = queue[n].id THEN "trimmed"
                                    ELSE fate[id]
    BY <1>1 DEF IInv, TypeOK
  <2>3. \A id \in Ids : Queued(id)' <=> fate'[id] = "queued"
    BY <1>5, <2>1, <2>2 DEF IInv, Conservation
  <2>4. \A id \in Ids : Running(id)' <=> fate'[id] = "running"
    BY <1>2, <2>1, <2>2 DEF IInv, Conservation, Running
  <2> QED  BY <1>5, <2>3, <2>4 DEF Conservation, Distinct
<1>11. NoLostWakeup'
  BY <1>2 DEF NoLostWakeup
<1> QED  BY <1>5, <1>6, <1>7, <1>9, <1>10, <1>11 DEF IInv

LEMMA StartStep ==
    ASSUME IInv, StartCurrent
    PROVE  IInv'
<1>1. /\ proc = "poll" /\ writer = Free /\ queue # <<>>
      /\ queue' = Tail(queue) /\ current' = {Head(queue)}
      /\ fate' = [fate EXCEPT ![Head(queue).id] = "running"]
      /\ proc' = "running"
      /\ UNCHANGED <<writer, permit, pc, site, ticket, nextId, aged>>
  BY DEF StartCurrent
<1>2. /\ queue \in Seq(Command) /\ Len(queue) \in Nat
      /\ 1 \in DOMAIN queue /\ Head(queue) = queue[1]
      /\ queue[1] \in Command /\ queue[1].id \in Ids
  <2>1. queue \in Seq(Command)
    BY DEF IInv, TypeOK
  <2>2. Len(queue) \in Nat \ {0} /\ DOMAIN queue = 1 .. Len(queue)
    BY <1>1, <2>1, EmptySeq, QueueElements
  <2>3. 1 \in DOMAIN queue
    BY <2>2
  <2> QED  BY <2>1, <2>2, <2>3, QueueElements
<1>3. /\ queue' \in Seq(Command)
      /\ Len(queue') = Len(queue) - 1
      /\ \A i \in 1 .. Len(queue) - 1 : queue'[i] = queue[i + 1]
  BY <1>1, <1>2, HeadTailProperties
<1>4. \A i \in 1 .. Len(queue) - 1 :
         queue'[i] = IF i < 1 THEN queue[i] ELSE queue[i + 1]
  BY <1>2, <1>3
<1>5. /\ PriorityFifo'
      /\ Distinct(queue')
      /\ \A i \in DOMAIN queue' : queue'[i].id < nextId
      /\ (Len(queue) > MaxQueueSize => Droppable(queue) = {}) =>
            (Len(queue') > MaxQueueSize => Droppable(queue') = {})
      /\ \A id \in Ids : Queued(id)' <=> Queued(id) /\ id # queue[1].id
  BY <1>2, <1>3, <1>4, TakeOut
<1>6. TypeOK'
  <2>1. current' \in SUBSET Command /\ \A c, d \in current' : c = d
    BY <1>1, <1>2
  <2>2. fate' \in [Ids -> Fate]
    BY <1>1, <1>2 DEF IInv, TypeOK, Fate
  <2> QED  BY <1>1, <1>3, <2>1, <2>2 DEF IInv, TypeOK
<1>7. (Fresh /\ LoopRuns /\ Locking)'
  BY <1>1, <1>2, <1>5 DEF IInv, Fresh, LoopRuns, Locking
<1>8. OverLimitOnlyEssential'
  BY <1>1, <1>5 DEF IInv, OverLimitOnlyEssential
<1>9. Conservation'
  <2>1. fate[queue[1].id] = "queued"
    BY <1>2 DEF IInv, Conservation, Queued
  <2>2. \A id \in Ids : fate'[id] = IF id = queue[1].id THEN "running"
                                    ELSE fate[id]
    BY <1>1, <1>2 DEF IInv, TypeOK
  <2>3. \A id \in Ids : Queued(id)' <=> fate'[id] = "queued"
    BY <1>5, <2>1, <2>2 DEF IInv, Conservation
  <2>4. \A id \in Ids : ~ Running(id)
    BY <1>1 DEF IInv, LoopRuns, Running
  <2>5. \A id \in Ids : Running(id)' <=> id = queue[1].id
    BY <1>1, <1>2 DEF Running
  <2>6. \A id \in Ids : Running(id)' <=> fate'[id] = "running"
    BY <2>2, <2>4, <2>5 DEF IInv, Conservation
  <2> QED  BY <1>5, <2>3, <2>6 DEF Conservation, Distinct
<1>10. NoLostWakeup'
  BY <1>1 DEF NoLostWakeup
<1> QED  BY <1>5, <1>6, <1>7, <1>8, <1>9, <1>10 DEF IInv

LEMMA InsertStep ==
    ASSUME IInv, NEW p \in Callers, Insert(p)
    PROVE  IInv'
<1> DEFINE c == NewCommand(p)
<1>1. /\ pc[p] = "insert" /\ writer = Free /\ nextId \in Ids
      /\ writer' = p
      /\ ticket' = [ticket EXCEPT ![p] = nextId]
      /\ fate' = [fate EXCEPT ![nextId] = "queued"]
      /\ nextId' = nextId + 1
      /\ pc' = [pc EXCEPT ![p] = "trim"]
      /\ UNCHANGED <<current, permit, proc, site, aged>>
  BY DEF Insert
<1>2. PICK n \in 1 .. Len(queue) + 1 :
         /\ InsertsAt(queue, n, site[p].priority)
         /\ queue' = InsertAt(queue, n, c)
  BY DEF Insert
<1>3. /\ site[p] \in CallSite
      /\ c \in Command
      /\ c.id = nextId
      /\ c.priority = site[p].priority
  BY <1>1 DEF IInv, TypeOK, CallSite, NewCommand, Command
<1> HIDE DEF c
<1>4. /\ queue \in Seq(Command) /\ Len(queue) \in Nat
      /\ DOMAIN queue = 1 .. Len(queue)
      /\ \A i \in DOMAIN queue : queue[i].id \in Ids /\ queue[i].priority \in Int
  BY QueueElements DEF IInv, TypeOK
<1>5. /\ queue' \in Seq(Command)
      /\ Len(queue') = Len(queue) + 1
      /\ \A i \in 1 .. Len(queue) + 1 :
            queue'[i] = IF i < n THEN queue[i]
                        ELSE IF i = n THEN c ELSE queue[i - 1]
  <2> DEFINE r == InsertAt(queue, n, c)
  <2>0. queue \in Seq(Command) /\ c \in Command
    BY <1>3, <1>4
  <2>1. /\ r \in Seq(Command)
        /\ Len(r) = Len(queue) + 1
        /\ \A i \in 1 .. Len(queue) + 1 :
              r[i] = IF i < n THEN queue[i]
                     ELSE IF i = n THEN c ELSE queue[i - 1]
    BY <2>0, InsertAtProperties
  <2>2. queue' = r
    BY <1>2
  <2> HIDE DEF r
  <2> QED  BY <2>1, <2>2
<1>6. DOMAIN queue' = 1 .. Len(queue) + 1
  <2>1. DOMAIN queue' = 1 .. Len(queue')
    BY <1>5
  <2> QED  BY <1>5, <2>1
<1>7. /\ \A i \in 1 .. n - 1 : queue[i].priority <= c.priority
      /\ \A i \in n .. Len(queue) : queue[i].priority > c.priority
  <2>1. /\ \A i \in 1 .. n - 1 : queue[i].priority <= c.priority
        /\ n <= Len(queue) => queue[n].priority > c.priority
    BY <1>2, <1>3 DEF InsertsAt
  <2>2. c.priority \in Int
    BY <1>3 DEF Command, CommandPriority, Critical, Low
  <2>3. ASSUME NEW i \in n .. Len(queue)
        PROVE  queue[i].priority > c.priority
    <3>1. n \in DOMAIN queue /\ i \in DOMAIN queue
      BY <1>4
    <3>2. n < i => queue[n].priority <= queue[i].priority
      BY <1>4, <3>1 DEF IInv, PriorityFifo
    <3> QED  BY <1>4, <2>1, <2>2, <3>1, <3>2, SMTT(30)
  <2> QED  BY <2>1, <2>3
<1>8. \A i \in DOMAIN queue : queue[i].id < c.id
  BY <1>3 DEF IInv, Fresh
<1>9. TypeOK'
  <2>1. nextId' \in 1 .. MaxCommands + 1
    BY <1>1 DEF Ids
  <2>2. fate' \in [Ids -> Fate]
    BY <1>1 DEF IInv, TypeOK, Fate
  <2>3. ticket' \in [Callers -> 0 .. MaxCommands]
    BY <1>1 DEF IInv, TypeOK, Ids
  <2>4. pc' \in [Callers -> CallerPc]
    BY <1>1 DEF IInv, TypeOK, CallerPc
  <2> QED  BY <1>1, <1>5, <2>1, <2>2, <2>3, <2>4 DEF IInv, TypeOK
<1>10. (LoopRuns /\ Locking)'
  <2>1. LoopRuns'
    BY <1>1 DEF IInv, LoopRuns
  <2>2. \A q \in Callers : pc[q] # "trim"
    BY <1>1 DEF IInv, Locking
  <2>3. \A q \in Callers : pc'[q] = IF q = p THEN "trim" ELSE pc[q]
    BY <1>1 DEF IInv, TypeOK
  <2>4. Locking'
    BY <1>1, <2>2, <2>3 DEF Locking
  <2> QED  BY <2>1, <2>4
<1>11. Fresh'
  <2>1. nextId \in Int
    BY <1>1 DEF Ids
  <2>2. \A i \in DOMAIN queue' : queue'[i].id < nextId + 1
    <3> SUFFICES ASSUME NEW i \in DOMAIN queue'
                 PROVE  queue'[i].id < nextId + 1
      OBVIOUS
    <3>1. CASE i = n
      BY <1>3, <1>5, <1>6, <2>1, <3>1
    <3>2. CASE i # n
      <4>1. \E j \in DOMAIN queue : queue'[i] = queue[j]
        <5>1. CASE i < n
          BY <1>4, <1>5, <1>6, <5>1
        <5>2. CASE ~ (i < n)
          <6>1. i - 1 \in DOMAIN queue /\ queue'[i] = queue[i - 1]
            BY <1>4, <1>5, <1>6, <3>2, <5>2
          <6> QED  BY <6>1
        <5> QED  BY <5>1, <5>2
      <4> QED  BY <1>4, <2>1, <4>1 DEF IInv, Fresh, Ids
    <3> QED  BY <3>1, <3>2
  <2>3. \A d \in current' : d.id < nextId + 1
    BY <1>1, <2>1 DEF IInv, TypeOK, Fresh, Command, Ids
  <2> QED  BY <1>1, <2>2, <2>3 DEF Fresh
<1>12. PriorityFifo'
  <2> SUFFICES ASSUME NEW i \in DOMAIN queue', NEW j \in DOMAIN queue', i < j
               PROVE  \/ queue'[i].priority < queue'[j].priority
                      \/ /\ queue'[i].priority = queue'[j].priority
                         /\ queue'[i].id < queue'[j].id
    BY DEF PriorityFifo
  <2>1. c.priority \in Int
    BY <1>3 DEF Command, CommandPriority, Critical, Low
  <2>2. CASE i = n
    <3>1. queue'[i] = c /\ queue'[j] = queue[j - 1] /\ j - 1 \in n .. Len(queue)
      BY <1>4, <1>5, <1>6, <2>2
    <3> QED  BY <1>4, <1>7, <2>1, <3>1
  <2>3. CASE j = n
    <3>1. queue'[j] = c /\ queue'[i] = queue[i] /\ i \in 1 .. n - 1
      BY <1>4, <1>5, <1>6, <2>3
    <3>2. i \in DOMAIN queue
      BY <1>4, <3>1
    <3> QED  BY <1>4, <1>7, <1>8, <2>1, <3>1, <3>2
  <2>4. CASE i # n /\ j # n
    <3>1. \E k, l \in DOMAIN queue :
             k < l /\ queue'[i] = queue[k] /\ queue'[j] = queue[l]
      <4> DEFINE k == IF i < n THEN i ELSE i - 1
                 l == IF j < n THEN j ELSE j - 1
      <4>1. k \in DOMAIN queue /\ l \in DOMAIN queue /\ k < l
        <5>1. /\ i \in 1 .. Len(queue) + 1 /\ j \in 1 .. Len(queue) + 1
              /\ n \in 1 .. Len(queue) + 1 /\ Len(queue) \in Nat
          BY <1>4, <1>6
        <5>2. k \in 1 .. Len(queue) /\ l \in 1 .. Len(queue)
          BY <5>1, <2>4
        <5>3. k < l
          BY <5>1, <2>4
        <5> QED  BY <1>4, <5>2, <5>3
      <4>2. queue'[i] = queue[k] /\ queue'[j] = queue[l]
        <5>1. \A m \in 1 .. Len(queue) + 1 :
                 m # n => queue'[m] = IF m < n THEN queue[m] ELSE queue[m - 1]
          BY <1>5
        <5> QED  BY <1>6, <2>4, <5>1
      <4> HIDE DEF k, l
      <4> QED  BY <4>1, <4>2
    <3> QED  BY <3>1 DEF IInv, PriorityFifo
  <2> QED  BY <2>2, <2>3, <2>4
<1>13. OverLimitOnlyEssential'
  BY <1>1 DEF OverLimitOnlyEssential
<1>14. Conservation'
  <2>1. \A i \in DOMAIN queue' :
           \/ i = n /\ queue'[i] = c
           \/ i < n /\ i \in DOMAIN queue /\ queue'[i] = queue[i]
           \/ i > n /\ i - 1 \in DOMAIN queue /\ queue'[i] = queue[i - 1]
    BY <1>4, <1>5, <1>6
  <2>2. \A i \in DOMAIN queue : \E j \in DOMAIN queue' : queue'[j] = queue[i]
    <3> SUFFICES ASSUME NEW i \in DOMAIN queue
                 PROVE  \E j \in DOMAIN queue' : queue'[j] = queue[i]
      OBVIOUS
    <3>1. CASE i < n
      BY <1>4, <1>5, <1>6, <3>1
    <3>2. CASE ~ (i < n)
      <4>1. i + 1 \in DOMAIN queue' /\ queue'[i + 1] = queue[i]
        BY <1>4, <1>5, <1>6, <3>2
      <4> QED  BY <4>1
    <3> QED  BY <3>1, <3>2
  <2>3. n \in DOMAIN queue' /\ queue'[n] = c
    BY <1>5, <1>6
  <2>4. \A i \in DOMAIN queue : queue[i].id # nextId
    BY <1>3, <1>4, <1>8 DEF Ids
  <2>5. \A i, j \in DOMAIN queue' : queue'[i].id = queue'[j].id => i = j
    <3> SUFFICES ASSUME NEW i \in DOMAIN queue', NEW j \in DOMAIN queue',
                        queue'[i].id = queue'[j].id
                 PROVE  i = j
      OBVIOUS
    <3>1. \A k, l \in DOMAIN queue : queue[k].id = queue[l].id => k = l
      BY DEF IInv, Conservation
    <3>2. i \in Int /\ j \in Int /\ n \in Int
      BY <1>4, <1>6
    <3>3. CASE i = n
      BY <1>3, <2>1, <2>4, <3>3
    <3>4. CASE j = n
      BY <1>3, <2>1, <2>4, <3>4
    <3>5. CASE i # n /\ j # n
      BY <2>1, <3>1, <3>2, <3>5
    <3> QED  BY <3>3, <3>4, <3>5
  <2>6. \A id \in Ids : Queued(id)' <=> (Queued(id) \/ id = nextId)
    BY <1>3, <2>1, <2>2, <2>3 DEF Queued
  <2>7. \A id \in Ids : fate'[id] = IF id = nextId THEN "queued" ELSE fate[id]
    BY <1>1 DEF IInv, TypeOK
  <2>8. ~ Running(nextId)
    BY <1>1 DEF IInv, Fresh, Running, Ids
  <2>9. \A id \in Ids : Queued(id)' <=> fate'[id] = "queued"
    BY <2>6, <2>7 DEF IInv, Conservation
  <2>10. \A id \in Ids : Running(id)' <=> fate'[id] = "running"
    BY <1>1, <2>7, <2>8 DEF IInv, Conservation, Running
  <2> QED  BY <2>5, <2>9, <2>10 DEF Conservation
<1>15. NoLostWakeup'
  BY <1>1 DEF IInv, TypeOK, NoLostWakeup
<1> QED
  BY <1>9, <1>10, <1>11, <1>12, <1>13, <1>14, <1>15 DEF IInv

-----------------------------------------------------------------------------
(* The processor's other steps, and time *)

LEMMA LoopSteps ==
    ASSUME IInv,
           \/ StartNothing \/ Park \/ Wake \/ WakeTimeout \/ Age
           \/ CompleteCurrent \/ InterruptCurrent
    PROVE  IInv'
<1> USE DEF IInv
<1>1. CASE StartNothing
  BY <1>1 DEF StartNothing, TypeOK, Fresh, LoopRuns, Locking, PriorityFifo,
     OverLimitOnlyEssential, Conservation, NoLostWakeup, Queued, Running,
     Droppable
<1>2. CASE Park
  BY <1>2 DEF Park, TypeOK, Fresh, LoopRuns, Locking, PriorityFifo,
     OverLimitOnlyEssential, Conservation, NoLostWakeup, Queued, Running,
     Droppable
<1>3. CASE Wake
  <2>1. permit' \in BOOLEAN
    BY <1>3, Zenon DEF Wake
  <2>2. proc' = "poll" /\ UNCHANGED <<queue, current, writer, pc, site, ticket,
                                     nextId, aged, fate>>
    BY <1>3, Zenon DEF Wake
  <2>3. proc = "wait"
    BY <1>3, Zenon DEF Wake
  <2> QED
    BY <2>1, <2>2, <2>3 DEF TypeOK, Fresh, LoopRuns, Locking, PriorityFifo,
       OverLimitOnlyEssential, Conservation, NoLostWakeup, Queued, Running,
       Droppable
<1>4. CASE WakeTimeout
  BY <1>4 DEF WakeTimeout, TypeOK, Fresh, LoopRuns, Locking, PriorityFifo,
     OverLimitOnlyEssential, Conservation, NoLostWakeup, Queued, Running,
     Droppable
<1>5. CASE Age
  <2>1. aged' \in SUBSET Ids
    BY <1>5, QueueElements DEF Age, TypeOK
  <2> QED
    BY <1>5, <2>1 DEF Age, TypeOK, Fresh, LoopRuns, Locking, PriorityFifo,
       OverLimitOnlyEssential, Conservation, NoLostWakeup, Queued, Running,
       Droppable
<1>6. ASSUME NEW after \in {"completed", "interrupted"}, current' = {},
             fate' = [id \in Ids |-> IF Running(id) THEN after ELSE fate[id]],
             proc' \in {"poll", proc}, proc = "running" \/ current # {},
             UNCHANGED <<queue, writer, permit, pc, site, ticket, nextId, aged>>
      PROVE  IInv'
  <2>1. TypeOK'
    <3>1. fate' \in [Ids -> Fate]
      BY <1>6 DEF TypeOK, Fate
    <3> QED  BY <1>6, <3>1 DEF TypeOK
  <2>2. (Fresh /\ LoopRuns /\ Locking /\ PriorityFifo)'
    BY <1>6 DEF Fresh, LoopRuns, Locking, PriorityFifo
  <2>3. OverLimitOnlyEssential'
    BY <1>6 DEF OverLimitOnlyEssential, Droppable
  <2>4. Conservation'
    <3>1. \A id \in Ids : Running(id) => fate[id] = "running"
      BY DEF Conservation
    <3>2. \A id \in Ids : Queued(id)' <=> fate'[id] = "queued"
      BY <1>6, <3>1 DEF Conservation, Queued
    <3>3. \A id \in Ids : ~ Running(id)' /\ fate'[id] # "running"
      BY <1>6 DEF Conservation, Running
    <3> QED  BY <1>6, <3>2, <3>3 DEF Conservation
  <2>5. NoLostWakeup'
    BY <1>6 DEF NoLostWakeup, LoopRuns
  <2> QED  BY <2>1, <2>2, <2>3, <2>4, <2>5
<1>7. CASE CompleteCurrent
  BY <1>6, <1>7 DEF CompleteCurrent
<1>8. CASE InterruptCurrent
  BY <1>6, <1>8 DEF InterruptCurrent
<1> QED  BY <1>1, <1>2, <1>3, <1>4, <1>5, <1>7, <1>8

-----------------------------------------------------------------------------
(* The theorems *)

LEMMA RemovalSteps ==
    ASSUME IInv, Clear \/ ClearBazaarOrders \/ Peek
    PROVE  IInv'
<1>1. CASE Clear
  BY <1>1, RetainStep DEF Clear
<1>2. CASE ClearBazaarOrders
  <2> DEFINE K == {i \in DOMAIN queue : queue[i].kind \notin BazaarOrder}
  <2>1. K \in SUBSET DOMAIN queue /\ Retain(K, "cleared")
    BY <1>2 DEF ClearBazaarOrders
  <2> HIDE DEF K
  <2> QED  BY <2>1, RetainStep
<1>3. CASE Peek
  <2> DEFINE K == DOMAIN queue \ {i \in DOMAIN queue :
                                    /\ queue[i].kind \in BazaarOrder
                                    /\ queue[i].id \in aged}
  <2>1. K \in SUBSET DOMAIN queue /\ Retain(K, "expired")
    BY <1>3 DEF Peek
  <2> HIDE DEF K
  <2> QED  BY <2>1, RetainStep
<1> QED  BY <1>1, <1>2, <1>3

LEMMA StepInvariant == IInv /\ [Next]_vars => IInv'
<1> SUFFICES ASSUME IInv, [Next]_vars PROVE IInv'
  OBVIOUS
<1>1. CASE \E p \in Callers : Call(p) \/ CallerStep(p) \/ AwaitTimeout(p)
  BY <1>1, QuietSteps, TrimStep, InsertStep, Zenon DEF CallerStep
<1>2. CASE ProcessorStep
  BY <1>2, StartStep, LoopSteps DEF ProcessorStep
<1>3. CASE Clear \/ ClearBazaarOrders \/ Peek
  BY <1>3, RemovalSteps
<1>4. CASE InterruptCurrent \/ Age
  BY <1>4, LoopSteps
<1>5. CASE UNCHANGED vars
  BY <1>5 DEF vars, IInv, TypeOK, Fresh, LoopRuns, Locking, PriorityFifo,
     OverLimitOnlyEssential, Conservation, NoLostWakeup, Queued, Running,
     Droppable
<1> QED  BY <1>1, <1>2, <1>3, <1>4, <1>5 DEF Next

(* The inductive invariant holds in every reachable state. *)
THEOREM Invariant == Spec => []IInv
<1>1. Init => IInv
  BY InitInvariant
<1>2. IInv /\ [Next]_vars => IInv'
  BY StepInvariant
<1> QED  BY <1>1, <1>2, PTL DEF Spec

(* Every variable keeps its type. *)
THEOREM TypeCorrect == Spec => []TypeOK
<1>1. IInv => TypeOK
  BY DEF IInv
<1> QED  BY <1>1, Invariant, PTL

(* The queue is always served by priority, first come first served. *)
THEOREM PriorityOrder == Spec => []PriorityFifo
<1>1. IInv => PriorityFifo
  BY DEF IInv
<1> QED  BY <1>1, Invariant, PTL

(* Over its limit, the unlocked queue holds essential commands only. *)
THEOREM LimitEnforced == Spec => []OverLimitOnlyEssential
<1>1. IInv => OverLimitOnlyEssential
  BY DEF IInv
<1> QED  BY <1>1, Invariant, PTL

(* No command is duplicated, lost, or both queued and executing. *)
THEOREM CommandsConserved == Spec => []Conservation
<1>1. IInv => Conservation
  BY DEF IInv
<1> QED  BY <1>1, Invariant, PTL

(* The processor never sleeps through an enqueue. *)
THEOREM WakeupsKept == Spec => []NoLostWakeup
<1>1. IInv => NoLostWakeup
  BY DEF IInv
<1> QED  BY <1>1, Invariant, PTL

(* A running command is completed or interrupted before another starts.    *)
THEOREM CurrentNotOverwritten == Spec => NeverOverwritesCurrent
<1>1. IInv /\ [Next]_vars => [current # {} => current' \subseteq current]_vars
  <2> SUFFICES ASSUME IInv, Next, current # {} PROVE current' \subseteq current
    BY DEF vars
  <2>1. proc = "running"
    BY DEF IInv, LoopRuns
  <2> QED
    BY <2>1 DEF Next, Call, CallerStep, GuardReadCurrent, GuardReadQueue,
       Collapse, Insert, Trim, Unlock, NotifyOne, PollCurrent, PollQueue,
       AwaitReturn, AwaitTimeout, ProcessorStep, StartCurrent, StartNothing,
       CompleteCurrent, Park, Wake, WakeTimeout, Clear, ClearBazaarOrders,
       Peek, Retain, InterruptCurrent, Age
<1> QED  BY <1>1, Invariant, PTL DEF Spec, NeverOverwritesCurrent

(* What has to be kept leaves the queue only by being started, by a clear, *)
(* or as an expired sell offer.                                            *)
THEOREM EssentialNotTrimmed == Spec => EssentialKept
<1> DEFINE Kept ==
      \A i \in DOMAIN queue :
          /\ queue[i].kind \in Essential
          /\ fate'[queue[i].id] # fate[queue[i].id]
          => \/ fate'[queue[i].id] \in {"running", "cleared"}
             \/ /\ fate'[queue[i].id] = "expired"
                /\ queue[i].kind = "BazaarSellOrder"
<1>1. IInv /\ [Next]_vars => [Kept]_vars
  <2> SUFFICES ASSUME IInv, Next, NEW i \in DOMAIN queue,
                      queue[i].kind \in Essential,
                      fate'[queue[i].id] # fate[queue[i].id]
               PROVE  \/ fate'[queue[i].id] \in {"running", "cleared"}
                      \/ /\ fate'[queue[i].id] = "expired"
                         /\ queue[i].kind = "BazaarSellOrder"
    BY DEF vars
  <2> DEFINE id == queue[i].id
  <2>1. /\ id \in Ids /\ fate[id] = "queued" /\ id < nextId
        /\ \A j \in DOMAIN queue : queue[j].id = id => j = i
    BY QueueElements DEF IInv, TypeOK, Fresh, Conservation, Queued
  <2> HIDE DEF id
  <2>2. UNCHANGED fate => FALSE
    BY DEF id
  <2>3. ASSUME NEW p \in Callers, Insert(p)
        PROVE  FALSE
    <3>1. fate' = [fate EXCEPT ![nextId] = "queued"] /\ nextId \in Int
      BY <2>3 DEF Insert, Ids
    <3> QED  BY <2>1, <3>1 DEF IInv, TypeOK, id, Ids
  <2>4. ASSUME NEW p \in Callers, Trim(p)
        PROVE  FALSE
    <3>1. PICK n \in DOMAIN queue :
             /\ n \in Droppable(queue)
             /\ fate' = [fate EXCEPT ![queue[n].id] = "trimmed"]
      BY <2>4 DEF Trim, IsLastDroppable
    <3>2. n # i
      BY <3>1 DEF Droppable
    <3>3. queue[n].id # id
      BY <2>1, <3>2
    <3> QED  BY <2>1, <3>1, <3>3 DEF id, IInv, TypeOK
  <2>5. ASSUME ProcessorStep
        PROVE  fate'[id] = "running"
    <3>1. ~ Running(id)
      BY <2>1 DEF IInv, Conservation
    <3> QED
      BY <2>1, <2>2, <2>5, <3>1 DEF ProcessorStep, StartCurrent, StartNothing,
         CompleteCurrent, Park, Wake, WakeTimeout, IInv, TypeOK, id
  <2>6. ASSUME InterruptCurrent
        PROVE  FALSE
    <3>1. ~ Running(id)
      BY <2>1 DEF IInv, Conservation
    <3> QED  BY <2>1, <2>6, <3>1 DEF InterruptCurrent, id
  <2>7. ASSUME NEW K, NEW why, Retain(K, why)
        PROVE  fate'[id] = why /\ i \notin K
    BY <2>1, <2>7 DEF Retain, id
  <2>8. ASSUME Clear \/ ClearBazaarOrders
        PROVE  fate'[id] = "cleared"
    BY <2>7, <2>8 DEF Clear, ClearBazaarOrders
  <2>9. ASSUME Peek
        PROVE  fate'[id] = "expired" /\ queue[i].kind = "BazaarSellOrder"
    <3> DEFINE K == DOMAIN queue \ {j \in DOMAIN queue :
                                      /\ queue[j].kind \in BazaarOrder
                                      /\ queue[j].id \in aged}
    <3>1. Retain(K, "expired")
      BY <2>9 DEF Peek
    <3> HIDE DEF K
    <3>2. fate'[id] = "expired" /\ i \notin K
      BY <2>7, <3>1
    <3>3. queue[i].kind \in BazaarOrder
      BY <3>2 DEF K
    <3> QED  BY <3>2, <3>3 DEF BazaarOrder, Essential
  <2>10. ASSUME NEW p \in Callers,
                \/ Call(p) \/ GuardReadCurrent(p) \/ GuardReadQueue(p)
                \/ Collapse(p) \/ Unlock(p) \/ NotifyOne(p)
                \/ PollCurrent(p) \/ PollQueue(p) \/ AwaitReturn(p)
                \/ AwaitTimeout(p)
         PROVE  FALSE
    BY <2>2, <2>10 DEF Call, GuardReadCurrent, GuardReadQueue, Collapse, Unlock,
       NotifyOne, PollCurrent, PollQueue, AwaitReturn, AwaitTimeout
  <2>11. CASE Age
    BY <2>2, <2>11 DEF Age
  <2> QED
    BY <2>3, <2>4, <2>5, <2>6, <2>8, <2>9, <2>10, <2>11
       DEF Next, CallerStep, id
<1> HIDE DEF Kept
<1>2. Spec => [][Kept]_vars
  BY <1>1, Invariant, PTL DEF Spec
<1> QED  BY <1>2 DEF EssentialKept, Kept

-----------------------------------------------------------------------------
(* The promise *)

(* The commands that wait, as the abstract queue has them. *)
Pending == Bounded(ToSet(queue), MaxQueueSize)

(* The abstract module bounds a set as this one does. *)
LEMMA SameBound == \A P, n : Promise!Bounded(P, n) = Bounded(P, n)
<1>1. \A S : Promise!Cardinality(S) = Cardinality(S)
  BY Zenon DEF Promise!Cardinality, Cardinality
<1> QED  BY <1>1 DEF Promise!Bounded, Bounded, Promise!Essential, Essential,
                     Promise!Before, Before

(* A set within the limit, or of essential commands only, is left as it is. *)
LEMMA WithinTheLimit ==
    ASSUME NEW P, NEW n \in Nat, IsFiniteSet(P),
           Cardinality(P) <= n \/ \A c \in P : c.kind \in Essential
    PROVE  Bounded(P, n) = P
<1>1. \A S \in SUBSET P : IsFiniteSet(S) /\ Cardinality(S) \in Nat
  BY FS_Subset, FS_CardinalityType
<1>2. Cardinality(P) \in Nat
  BY FS_CardinalityType
<1> DEFINE droppable == {c \in P : c.kind \notin Essential}
           behind(c) == Cardinality({d \in droppable : Before(c, d)})
<1>3. \A c \in droppable : behind(c) \in Nat
  BY <1>1
<1>4. {c \in droppable : behind(c) < Cardinality(P) - n} = {}
  BY <1>2, <1>3
<1> QED  BY <1>4 DEF Bounded

(* Giving up the last of the commands that may be given up does not change *)
(* what is left of a set over the limit: the loop that trims the queue one *)
(* command at a time comes to where the abstract step gets at once.        *)
LEMMA GivingUpTheLast ==
    ASSUME NEW P, NEW n \in Nat, IsFiniteSet(P), Cardinality(P) > n,
           NEW x \in P, x.kind \notin Essential, ~ Before(x, x),
           \A c \in P \ {x} : c.kind \notin Essential => Before(c, x) /\ ~ Before(x, c)
    PROVE  Bounded(P \ {x}, n) = Bounded(P, n)
<1> DEFINE drop(Q) == {c \in Q : c.kind \notin Essential}
           behind(Q, c) == {d \in drop(Q) : Before(c, d)}
           R == P \ {x}
<1>1. /\ IsFiniteSet(R) /\ Cardinality(R) = Cardinality(P) - 1
      /\ Cardinality(P) \in Nat
  BY FS_RemoveElement, FS_CardinalityType
<1>2. \A S \in SUBSET P : IsFiniteSet(S) /\ Cardinality(S) \in Nat
  BY FS_Subset, FS_CardinalityType
<1>3. behind(P, x) = {}
  OBVIOUS
<1>4. ASSUME NEW c \in drop(R)
      PROVE  Cardinality(behind(P, c)) = Cardinality(behind(R, c)) + 1
  <2>1. behind(P, c) = behind(R, c) \cup {x} /\ x \notin behind(R, c)
    BY <1>4
  <2>2. IsFiniteSet(behind(R, c))
    BY <1>2
  <2> QED  BY <2>1, <2>2, FS_AddElement
<1>5. drop(P) = drop(R) \cup {x}
  OBVIOUS
<1>6. Cardinality(behind(P, x)) < Cardinality(P) - n
  <2>1. Cardinality(behind(P, x)) = 0
    BY <1>3, FS_EmptySet
  <2> HIDE DEF behind
  <2> QED  BY <1>1, <2>1
<1>7. \A c \in drop(R) : Cardinality(behind(P, c)) < Cardinality(P) - n
                            <=> Cardinality(behind(R, c)) < Cardinality(R) - n
  <2> SUFFICES ASSUME NEW c \in drop(R)
               PROVE  Cardinality(behind(P, c)) < Cardinality(P) - n
                         <=> Cardinality(behind(R, c)) < Cardinality(R) - n
    OBVIOUS
  <2>1. Cardinality(behind(R, c)) \in Nat
    BY <1>2
  <2> HIDE DEF behind, drop, R
  <2> QED  BY <1>1, <1>4, <2>1
<1>8. {c \in drop(P) : Cardinality(behind(P, c)) < Cardinality(P) - n}
         = {c \in drop(R) : Cardinality(behind(R, c)) < Cardinality(R) - n} \cup {x}
  <2> HIDE DEF behind
  <2> QED  BY <1>5, <1>6, <1>7
<1> QED  BY <1>8 DEF Bounded

(* The set of waiting commands is finite and as large as the queue is long. *)
LEMMA QueueSet ==
    ASSUME IInv
    PROVE  /\ IsFiniteSet(ToSet(queue)) /\ Cardinality(ToSet(queue)) = Len(queue)
           /\ Len(queue) \in Nat
           /\ DOMAIN queue = 1 .. Len(queue)
<1>1. Len(queue) \in Nat /\ DOMAIN queue = 1 .. Len(queue)
        /\ \A i \in DOMAIN queue : queue[i] \in Command
  BY QueueElements DEF IInv, TypeOK
<1>2. [i \in 1 .. Len(queue) |-> queue[i]] \in Bijection(1 .. Len(queue), ToSet(queue))
  BY <1>1 DEF Bijection, Injection, Surjection, IsInjective, ToSet, IInv, Conservation
<1>3. ExistsBijection(1 .. Len(queue), ToSet(queue))
  BY <1>2 DEF ExistsBijection
<1> QED  BY <1>1, <1>3, FS_NatBijection, FS_CountingElements

(* While no caller holds the write lock, nothing has to be given up. *)
LEMMA PendingIsQueue == IInv /\ writer = Free => Pending = ToSet(queue)
<1> SUFFICES ASSUME IInv, writer = Free PROVE Pending = ToSet(queue)
  OBVIOUS
<1>1. \A c \in ToSet(queue) : \E i \in DOMAIN queue : c = queue[i]
  BY DEF ToSet
<1>2. Len(queue) > MaxQueueSize => \A c \in ToSet(queue) : c.kind \in Essential
  BY <1>1 DEF IInv, OverLimitOnlyEssential, Droppable
<1>3. Bounded(ToSet(queue), MaxQueueSize) = ToSet(queue)
  BY <1>2, QueueSet, WithinTheLimit
<1> QED  BY <1>3 DEF Pending

(* The first states are those of the abstract queue. *)
LEMMA RefinedInit == Init => Promise!Init
<1> SUFFICES ASSUME Init PROVE Promise!Init
  OBVIOUS
<1>1. IInv /\ writer = Free
  BY InitInvariant DEF Init
<1>2. Pending = {}
  BY <1>1, PendingIsQueue DEF Init, ToSet
<1> QED  BY <1>2 DEF Promise!Init, Init, Pending

(* Steps that leave the queue alone leave the pending commands alone. *)
LEMMA PendingStays == ASSUME queue' = queue PROVE Pending' = Pending
BY DEF Pending, ToSet

(* The commands without that at place n. *)
LEMMA WithoutOne ==
    ASSUME IInv, NEW n \in DOMAIN queue, queue' \in Seq(Command),
           Len(queue') = Len(queue) - 1,
           \A i \in 1 .. Len(queue) - 1 :
              queue'[i] = IF i < n THEN queue[i] ELSE queue[i + 1]
    PROVE  ToSet(queue') = ToSet(queue) \ {queue[n]}
<1>1. /\ Len(queue) \in Nat /\ DOMAIN queue = 1 .. Len(queue)
      /\ DOMAIN queue' = 1 .. Len(queue) - 1
  BY QueueSet, LenProperties
<1>2. \A i, j \in DOMAIN queue : queue[i] = queue[j] => i = j
  BY DEF IInv, Conservation
<1>3. ASSUME NEW i \in DOMAIN queue'
      PROVE  queue'[i] \in ToSet(queue) /\ queue'[i] # queue[n]
  <2> DEFINE k == IF i < n THEN i ELSE i + 1
  <2>1. k \in DOMAIN queue /\ k # n /\ queue'[i] = queue[k]
    BY <1>1
  <2> QED  BY <1>2, <2>1 DEF ToSet
<1>4. ASSUME NEW k \in DOMAIN queue, k # n
      PROVE  queue[k] \in ToSet(queue')
  <2> DEFINE i == IF k < n THEN k ELSE k - 1
  <2>1. i \in DOMAIN queue' /\ queue'[i] = queue[k]
    BY <1>1, <1>4
  <2> QED  BY <2>1 DEF ToSet
<1> QED  BY <1>3, <1>4 DEF ToSet

(* An insertion is the abstract Enqueue: the trimming that follows under   *)
(* the lock is part of it already.                                          *)
LEMMA EnqueueRefined ==
    ASSUME IInv, NEW p \in Callers, Insert(p)
    PROVE  Promise!Enqueue
<1>0. PICK c : c = NewCommand(p)
  OBVIOUS
<1>1. writer = Free /\ nextId \in Ids /\ current' = current
  BY DEF Insert
<1>2. PICK n \in 1 .. Len(queue) + 1 : queue' = InsertAt(queue, n, c)
  BY <1>0 DEF Insert
<1>3. site[p] \in CallSites /\ site[p] \in CallSite /\ c \in Command /\ c.id = nextId
  BY <1>0, <1>1 DEF IInv, TypeOK, CallSite, NewCommand, Command
<1>4. /\ queue \in Seq(Command) /\ Len(queue) \in Nat /\ DOMAIN queue = 1 .. Len(queue)
  BY QueueElements DEF IInv, TypeOK
<1>5. c \in SiteCommands
  <2>1. c = [id |-> nextId, kind |-> site[p].kind, priority |-> site[p].priority,
             interruptible |-> site[p].interruptible]
    BY <1>0 DEF NewCommand
  <2> QED  BY <1>1, <1>3, <2>1, MadeBySite
<1>6. /\ queue' \in Seq(Command) /\ Len(queue') = Len(queue) + 1
      /\ \A i \in 1 .. Len(queue) + 1 :
            queue'[i] = IF i < n THEN queue[i] ELSE IF i = n THEN c ELSE queue[i - 1]
  <2> DEFINE r == InsertAt(queue, n, c)
  <2>0. queue \in Seq(Command) /\ c \in Command
    BY <1>3, <1>4
  <2>1. /\ r \in Seq(Command)
        /\ Len(r) = Len(queue) + 1
        /\ \A i \in 1 .. Len(queue) + 1 :
              r[i] = IF i < n THEN queue[i]
                     ELSE IF i = n THEN c ELSE queue[i - 1]
    BY <2>0, InsertAtProperties
  <2>2. queue' = r
    BY <1>2
  <2> HIDE DEF r
  <2> QED  BY <2>1, <2>2
<1>7. ToSet(queue') = ToSet(queue) \cup {c}
  <2>1. DOMAIN queue' = 1 .. Len(queue) + 1
    BY <1>4, <1>6, LenProperties
  <2>2. ASSUME NEW i \in DOMAIN queue'
        PROVE  queue'[i] \in ToSet(queue) \cup {c}
    <3>1. i < n => i \in DOMAIN queue
      BY <1>4, <2>1
    <3>2. i > n => i - 1 \in DOMAIN queue
      BY <1>4, <2>1
    <3> QED  BY <1>6, <2>1, <3>1, <3>2 DEF ToSet
  <2>3. ASSUME NEW k \in DOMAIN queue
        PROVE  queue[k] \in ToSet(queue')
    <3> DEFINE i == IF k < n THEN k ELSE k + 1
    <3>1. i \in DOMAIN queue' /\ queue'[i] = queue[k]
      BY <1>4, <1>6, <2>1
    <3> QED  BY <3>1 DEF ToSet
  <2>4. n \in DOMAIN queue' /\ queue'[n] = c
    BY <1>6, <2>1
  <2>5. c \in ToSet(queue')
    BY <2>4 DEF ToSet
  <2> QED  BY <2>2, <2>3, <2>5 DEF ToSet
<1>8. Pending = ToSet(queue)
  BY <1>1, PendingIsQueue
<1>9. \A d \in ToSet(queue) \cup current : d.id < c.id
  BY <1>3 DEF ToSet, IInv, Fresh
<1>10. /\ Bounded(ToSet(queue), MaxQueueSize)'
           = Promise!Bounded(ToSet(queue) \cup {c}, MaxQueueSize)
       /\ Bounded(ToSet(queue), MaxQueueSize) = ToSet(queue)
  BY <1>7, <1>8, SameBound DEF Pending
<1>11. \A d \in Bounded(ToSet(queue), MaxQueueSize) \cup current : d.id < c.id
  BY <1>9, <1>10
<1> QED  BY <1>1, <1>5, <1>10, <1>11, AddingIsEnqueue

(* A step of the trimming loop changes nothing that others can see. *)
LEMMA TrimRefined ==
    ASSUME IInv, NEW p \in Callers, Trim(p)
    PROVE  Pending' = Pending /\ current' = current
<1>1. PICK n \in DOMAIN queue : IsLastDroppable(queue, n) /\ queue' = RemoveAt(queue, n)
  BY DEF Trim
<1>2. MustTrim(queue) /\ current' = current
  BY DEF Trim
<1>3. /\ queue \in Seq(Command) /\ DOMAIN queue = 1 .. Len(queue)
      /\ \A i \in DOMAIN queue : queue[i].id \in Int /\ queue[i].priority \in Int
  BY QueueElements DEF IInv, TypeOK, Ids
<1>4. ToSet(queue') = ToSet(queue) \ {queue[n]}
  <2>1. /\ queue' \in Seq(Command) /\ Len(queue') = Len(queue) - 1
        /\ \A i \in 1 .. Len(queue) - 1 :
              queue'[i] = IF i < n THEN queue[i] ELSE queue[i + 1]
    BY <1>1, <1>3, RemoveAtProperties
  <2> QED  BY <2>1, WithoutOne
<1>5. queue[n] \in ToSet(queue) /\ queue[n].kind \notin Essential
        /\ ~ Before(queue[n], queue[n])
  BY <1>1, <1>3 DEF ToSet, IsLastDroppable, Droppable, Before
<1>6. ASSUME NEW c \in ToSet(queue) \ {queue[n]}, c.kind \notin Essential
      PROVE  Before(c, queue[n]) /\ ~ Before(queue[n], c)
  <2>1. PICK i \in DOMAIN queue : c = queue[i]
    BY <1>6 DEF ToSet
  <2>2. i < n
    BY <1>1, <1>3, <1>6, <2>1 DEF IsLastDroppable, Droppable
  <2>3. \/ queue[i].priority < queue[n].priority
        \/ queue[i].priority = queue[n].priority /\ queue[i].id < queue[n].id
    BY <2>2 DEF IInv, PriorityFifo
  <2> QED  BY <1>3, <2>1, <2>3 DEF Before
<1>7. Cardinality(ToSet(queue)) > MaxQueueSize /\ IsFiniteSet(ToSet(queue))
  BY <1>2, QueueSet DEF MustTrim
<1>8. Bounded(ToSet(queue'), MaxQueueSize) = Bounded(ToSet(queue), MaxQueueSize)
  BY <1>4, <1>5, <1>6, <1>7, GivingUpTheLast
<1> QED  BY <1>2, <1>8 DEF Pending

(* start_current takes the first command of the order. *)
LEMMA StartRefined ==
    ASSUME IInv, IInv', StartCurrent
    PROVE  Promise!Start
<1>1. /\ writer = Free /\ writer' = writer /\ queue # <<>> /\ proc = "poll"
      /\ queue' = Tail(queue) /\ current' = {Head(queue)}
  BY DEF StartCurrent
<1>2. /\ queue \in Seq(Command) /\ Len(queue) \in Nat /\ DOMAIN queue = 1 .. Len(queue)
      /\ \A i \in DOMAIN queue : queue[i].id \in Int /\ queue[i].priority \in Int
  BY QueueElements DEF IInv, TypeOK, Ids
<1>3. 1 \in DOMAIN queue /\ Head(queue) = queue[1]
  BY <1>1, <1>2, EmptySeq
<1>4. /\ queue' \in Seq(Command) /\ Len(queue') = Len(queue) - 1
      /\ \A i \in 1 .. Len(queue) - 1 : queue'[i] = queue[i + 1]
  BY <1>1, <1>2, HeadTailProperties
<1>5. \A i \in 1 .. Len(queue) - 1 :
         queue'[i] = IF i < 1 THEN queue[i] ELSE queue[i + 1]
  BY <1>2, <1>4
<1>6. ToSet(queue') = ToSet(queue) \ {queue[1]}
  BY <1>3, <1>4, <1>5, WithoutOne
<1>7. Pending = ToSet(queue) /\ Pending' = ToSet(queue')
  <2>1. (IInv /\ writer = Free => Pending = ToSet(queue))'
    BY PendingIsQueue, PTL
  <2> QED  BY <1>1, <2>1, PendingIsQueue DEF ToSet
<1>8. ASSUME NEW d \in ToSet(queue) \ {queue[1]}
      PROVE  Promise!Before(queue[1], d)
  <2>1. PICK i \in DOMAIN queue : d = queue[i]
    BY <1>8 DEF ToSet
  <2>2. 1 < i
    BY <1>2, <1>8, <2>1
  <2> QED  BY <1>2, <1>3, <2>1, <2>2 DEF IInv, PriorityFifo, Promise!Before
<1>9. current = {}
  BY <1>1 DEF IInv, LoopRuns
<1>10. queue[1] \in ToSet(queue)
  BY <1>3 DEF ToSet
<1> QED  BY <1>1, <1>3, <1>6, <1>7, <1>8, <1>9, <1>10 DEF Promise!Start, Pending

(* What is kept of the queue is what is kept of the pending commands. *)
LEMMA RetainRefined ==
    ASSUME IInv, IInv', NEW K \in SUBSET DOMAIN queue, NEW why, Retain(K, why)
    PROVE  /\ current' = current
           /\ Pending = ToSet(queue)
           /\ Pending' = {queue[k] : k \in K}
<1>1. PICK f \in [1 .. Cardinality(K) -> K] :
         /\ \A k \in K : \E i \in DOMAIN f : f[i] = k
         /\ queue' = [i \in 1 .. Cardinality(K) |-> queue[f[i]]]
  BY DEF Retain
<1>2. writer = Free /\ writer' = writer /\ current' = current
  BY DEF Retain
<1>3. Pending = ToSet(queue) /\ Pending' = ToSet(queue')
  <2>1. (IInv /\ writer = Free => Pending = ToSet(queue))'
    BY PendingIsQueue, PTL
  <2> QED  BY <1>2, <2>1, PendingIsQueue DEF ToSet
<1>4. ToSet(queue') = {queue[k] : k \in K}
  BY <1>1 DEF ToSet
<1> QED  BY <1>2, <1>3, <1>4

(* The clearings and the expiry of old recommendations withdraw commands. *)
LEMMA WithdrawRefined ==
    ASSUME IInv, IInv', Clear \/ ClearBazaarOrders \/ Peek
    PROVE  Promise!Withdraw
<1>1. CASE Clear
  <2>1. current' = current /\ Pending' = {}
    <3>1. Retain({}, "cleared") /\ {} \in SUBSET DOMAIN queue
      BY <1>1 DEF Clear
    <3>2. current' = current /\ Pending' = {queue[k] : k \in {}}
      BY <3>1, RetainRefined
    <3> QED  BY <3>2
  <2> QED  BY <2>1 DEF Promise!Withdraw, Pending
<1>2. ASSUME NEW K \in SUBSET DOMAIN queue, NEW why, Retain(K, why),
             \A i \in DOMAIN queue \ K : queue[i].kind \in BazaarOrder
      PROVE  Promise!Withdraw
  <2>1. /\ current' = current /\ Pending = ToSet(queue)
        /\ Pending' = {queue[k] : k \in K}
    BY <1>2, RetainRefined
  <2>2. Pending' \in SUBSET Pending
    BY <2>1 DEF ToSet
  <2>3. \A c \in Pending \ Pending' : c.kind \in Promise!BazaarOrder
    BY <1>2, <2>1 DEF ToSet, Promise!BazaarOrder, BazaarOrder
  <2> QED  BY <2>1, <2>2, <2>3 DEF Promise!Withdraw, Pending
<1>3. CASE ClearBazaarOrders
  <2> DEFINE K == {i \in DOMAIN queue : queue[i].kind \notin BazaarOrder}
  <2>1. /\ K \in SUBSET DOMAIN queue /\ Retain(K, "cleared")
        /\ \A i \in DOMAIN queue \ K : queue[i].kind \in BazaarOrder
    BY <1>3 DEF ClearBazaarOrders
  <2> HIDE DEF K
  <2> QED  BY <1>2, <2>1
<1>4. CASE Peek
  <2> DEFINE K == DOMAIN queue \ {i \in DOMAIN queue :
                                    /\ queue[i].kind \in BazaarOrder
                                    /\ queue[i].id \in aged}
  <2>1. /\ K \in SUBSET DOMAIN queue /\ Retain(K, "expired")
        /\ \A i \in DOMAIN queue \ K : queue[i].kind \in BazaarOrder
    BY <1>4 DEF Peek
  <2> HIDE DEF K
  <2> QED  BY <1>2, <2>1
<1> QED  BY <1>1, <1>3, <1>4

(* Every step is an abstract one or a stutter. *)
LEMMA StepRefined ==
    ASSUME IInv, IInv', [Next]_vars
    PROVE  [Promise!Next]_<<Pending, current>>
<1>1. CASE UNCHANGED <<queue, current>>
  BY <1>1, PendingStays
<1>2. ASSUME NEW p \in Callers, Insert(p) \/ Trim(p)
      PROVE  [Promise!Next]_<<Pending, current>>
  BY <1>2, EnqueueRefined, TrimRefined DEF Promise!Next
<1>3. CASE StartCurrent
  BY <1>3, StartRefined DEF Promise!Next
<1>4. CASE Clear \/ ClearBazaarOrders \/ Peek
  BY <1>4, WithdrawRefined DEF Promise!Next
<1>5. CASE CompleteCurrent \/ InterruptCurrent
  <2>1. queue' = queue /\ current' = {}
    BY <1>5 DEF CompleteCurrent, InterruptCurrent
  <2>2. Pending' = Pending
    BY <2>1, PendingStays
  <2>3. CASE current = {}
    BY <2>1, <2>2, <2>3
  <2>4. CASE current # {}
    BY <2>1, <2>2, <2>4 DEF Promise!Next, Promise!Finish, Pending
  <2> QED  BY <2>3, <2>4
<1> QED
  BY <1>1, <1>2, <1>3, <1>4, <1>5
  DEF Next, vars, CallerStep, ProcessorStep, Call, GuardReadCurrent, GuardReadQueue,
      Collapse, Unlock, NotifyOne, PollCurrent, PollQueue, AwaitReturn, AwaitTimeout,
      StartNothing, Park, Wake, WakeTimeout, Age

(* The queue with its locks, guards and trimming loop implements the       *)
(* priority queue of PriorityQueue (command_queue.rs:56-200).               *)
THEOREM QueueRefines == Spec => ImplementsPriorityQueue
<1>1. Init => Promise!Init
  BY RefinedInit
<1>2. IInv /\ IInv' /\ [Next]_vars
         => [Promise!Next]_<<Bounded(ToSet(queue), MaxQueueSize), current>>
  BY StepRefined DEF Pending
<1> QED  BY <1>1, <1>2, Invariant, PTL DEF Spec, ImplementsPriorityQueue, Promise!Spec
=============================================================================
