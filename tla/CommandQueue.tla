---------------------------- MODULE CommandQueue ----------------------------
(***************************************************************************)
(* The command queue (src/src/state/command_queue.rs) at the grain of its  *)
(* two locks.  `queue` and `current_command` are behind separate RwLocks,  *)
(* every task of the program holds a clone, and the runtime is             *)
(* multi-threaded: a method that takes a lock, drops it and takes another  *)
(* is several steps here.                                                  *)
(*                                                                         *)
(* A caller is a task that uses the queue: the websocket event loop, a web *)
(* panel request, a periodic task, the startup workflow.  A call site is   *)
(* what one such task asks for: a command, whether a has_* test comes      *)
(* first, and whether the caller then polls contains_command_id.           *)
(***************************************************************************)
EXTENDS Integers, Sequences, SequencesExt, FiniteSets, CommandTypes

CONSTANTS
    Callers,        \* tasks that enqueue
    CallSites,      \* the requests they make
    MaxQueueSize,   \* MAX_QUEUE_SIZE, 5 in the code
    MaxCommands,    \* bound of the model: commands enqueued in a behaviour
    LibraryApi,     \* TRUE: also the methods no task of the program calls
    Free            \* nobody holds the write lock

CallSite == [kind : CommandType, priority : CommandPriority,
             interruptible : BOOLEAN, guard : BOOLEAN, await : BOOLEAN]

ASSUME CallSitesAssumption == CallSites \subseteq CallSite /\ CallSites # {}
ASSUME SizeAssumption == MaxQueueSize \in Nat /\ MaxCommands \in Nat
ASSUME ApiAssumption == LibraryApi \in BOOLEAN
ASSUME FreeAssumption == Free \notin Callers

VARIABLES
    queue,      \* the VecDeque, front first
    current,    \* current_command: {} or the set of the one command
    writer,     \* the caller inside enqueue's write-locked section, or Free
    permit,     \* the Notify holds a stored permit
    proc,       \* where the processor loop is
    pc,         \* where each caller is
    site,       \* the call site each caller is at
    ticket,     \* the id enqueue returned to each caller
    nextId,     \* the next fresh command id
    aged,       \* ids of commands queued for more than 60 s
    fate        \* history: what became of each id

vars == <<queue, current, writer, permit, proc, pc, site, ticket, nextId,
          aged, fate>>

Ids == 1 .. MaxCommands
Command == [id : Ids, kind : CommandType, priority : CommandPriority,
            interruptible : BOOLEAN]
Fate == {"unused", "queued", "running", "completed", "interrupted",
         "trimmed", "cleared", "expired"}
CallerPc == {"idle", "readCurrent", "readQueue", "collapse", "insert", "trim",
             "notify", "pollCurrent", "pollQueue", "answered"}

Queued(id)  == \E i \in DOMAIN queue : queue[i].id = id
Running(id) == \E c \in current : c.id = id

-----------------------------------------------------------------------------
(* enqueue *)

InsertsBeforeEqual(q, n, p) ==    \* mutant: >= for >
    /\ \A i \in 1 .. n - 1 : q[i].priority < p
    /\ n <= Len(q) => q[n].priority >= p

(* n is the place of the first command that is strictly less urgent, or    *)
(* the end: everything before it is at least as urgent.                    *)
InsertsAt(q, n, p) ==
    /\ \A i \in 1 .. n - 1 : q[i].priority <= p
    /\ n <= Len(q) => q[n].priority > p

DroppableManage(q) ==             \* mutant: ManageOrders not protected
    {i \in DOMAIN q : q[i].kind \notin Essential \ {"ManageOrders"}}

Droppable(q) == {i \in DOMAIN q : q[i].kind \notin Essential}

IsLastDroppable(q, n) ==
    n \in Droppable(q) /\ \A j \in Droppable(q) : j <= n

MustTrimLate(q) ==                \* mutant: off by one
    Len(q) > MaxQueueSize + 1 /\ Droppable(q) # {}

MustTrim(q) == Len(q) > MaxQueueSize /\ Droppable(q) # {}

EntryPc(s) == IF s.kind = "ClaimPurchasedItem" THEN "collapse" ELSE "insert"

(* A task reaches a call site. *)
Call(p) ==
    /\ pc[p] = "idle"
    /\ nextId <= MaxCommands
    /\ \E s \in CallSites :
          /\ site' = [site EXCEPT ![p] = s]
          /\ pc' = [pc EXCEPT ![p] = IF s.guard THEN "readCurrent"
                                     ELSE EntryPc(s)]
    /\ UNCHANGED <<queue, current, writer, permit, proc, ticket, nextId, aged,
                   fate>>

(* has_manage_orders / has_claim_sold: current_command first ... *)
GuardReadCurrent(p) ==
    /\ pc[p] = "readCurrent"
    /\ pc' = [pc EXCEPT ![p] =
                 IF \E c \in current : c.kind = site[p].kind
                 THEN "idle" ELSE "readQueue"]
    /\ UNCHANGED <<queue, current, writer, permit, proc, site, ticket, nextId,
                   aged, fate>>

(* ... then, that lock released, the queue. *)
GuardReadQueue(p) ==
    /\ pc[p] = "readQueue"
    /\ writer = Free
    /\ pc' = [pc EXCEPT ![p] =
                 IF \E i \in DOMAIN queue : queue[i].kind = site[p].kind
                 THEN "idle" ELSE EntryPc(site[p])]
    /\ UNCHANGED <<queue, current, writer, permit, proc, site, ticket, nextId,
                   aged, fate>>

Returned(p) == IF site[p].await THEN "pollCurrent" ELSE "idle"

(* A pending ClaimPurchasedItem absorbs the new one: found under a read     *)
(* lock that is released before the write lock of Insert is taken.         *)
Collapse(p) ==
    /\ pc[p] = "collapse"
    /\ writer = Free
    /\ LET same == {i \in DOMAIN queue : queue[i].kind = "ClaimPurchasedItem"}
       IN  IF same = {}
           THEN /\ pc' = [pc EXCEPT ![p] = "insert"]
                /\ UNCHANGED ticket
           ELSE \E i \in same :
                /\ \A j \in same : i <= j
                /\ ticket' = [ticket EXCEPT ![p] = queue[i].id]
                /\ pc' = [pc EXCEPT ![p] = Returned(p)]
    /\ UNCHANGED <<queue, current, writer, permit, proc, site, nextId, aged,
                   fate>>

NewCommand(p) ==
    [id |-> nextId, kind |-> site[p].kind, priority |-> site[p].priority,
     interruptible |-> site[p].interruptible]

Insert(p) ==
    /\ pc[p] = "insert"
    /\ writer = Free
    /\ nextId \in Ids
    /\ \E n \in 1 .. Len(queue) + 1 :
          /\ InsertsAt(queue, n, site[p].priority)
          /\ queue' = InsertAt(queue, n, NewCommand(p))
    /\ writer' = p
    /\ ticket' = [ticket EXCEPT ![p] = nextId]
    /\ fate' = [fate EXCEPT ![nextId] = "queued"]
    /\ nextId' = nextId + 1
    /\ pc' = [pc EXCEPT ![p] = "trim"]
    /\ UNCHANGED <<current, permit, proc, site, aged>>

(* One iteration of the while loop, still under the write lock. *)
Trim(p) ==
    /\ pc[p] = "trim"
    /\ MustTrim(queue)
    /\ \E n \in DOMAIN queue :
          /\ IsLastDroppable(queue, n)
          /\ queue' = RemoveAt(queue, n)
          /\ fate' = [fate EXCEPT ![queue[n].id] = "trimmed"]
    /\ UNCHANGED <<current, writer, permit, proc, pc, site, ticket, nextId,
                   aged>>

UnlockForgotten(p) ==             \* mutant: the write guard is leaked
    /\ pc[p] = "trim"
    /\ ~ MustTrim(queue)
    /\ pc' = [pc EXCEPT ![p] = "notify"]
    /\ UNCHANGED <<queue, current, writer, permit, proc, site, ticket, nextId,
                   aged, fate>>

Unlock(p) ==
    /\ pc[p] = "trim"
    /\ ~ MustTrim(queue)
    /\ writer' = Free
    /\ pc' = [pc EXCEPT ![p] = "notify"]
    /\ UNCHANGED <<queue, current, permit, proc, site, ticket, nextId, aged,
                   fate>>

NotifyWaiters(p) ==               \* mutant: notify_waiters, no permit stored
    /\ pc[p] = "notify"
    /\ permit' = (permit \/ proc = "wait")
    /\ pc' = [pc EXCEPT ![p] = Returned(p)]
    /\ UNCHANGED <<queue, current, writer, proc, site, ticket, nextId, aged,
                   fate>>

NotifyOne(p) ==
    /\ pc[p] = "notify"
    /\ permit' = TRUE
    /\ pc' = [pc EXCEPT ![p] = Returned(p)]
    /\ UNCHANGED <<queue, current, writer, proc, site, ticket, nextId, aged,
                   fate>>

-----------------------------------------------------------------------------
(* contains_command_id, as await_queued_command polls it *)

PollCurrent(p) ==
    /\ pc[p] = "pollCurrent"
    /\ ~ Running(ticket[p])
    /\ pc' = [pc EXCEPT ![p] = "pollQueue"]
    /\ UNCHANGED <<queue, current, writer, permit, proc, site, ticket, nextId,
                   aged, fate>>

PollQueue(p) ==
    /\ pc[p] = "pollQueue"
    /\ writer = Free
    /\ pc' = [pc EXCEPT ![p] = IF Queued(ticket[p]) THEN "pollCurrent"
                               ELSE "answered"]
    /\ UNCHANGED <<queue, current, writer, permit, proc, site, ticket, nextId,
                   aged, fate>>

(* The deadline of await_queued_command passes: it gives up. *)
AwaitTimeout(p) ==
    /\ pc[p] = "pollCurrent"
    /\ pc' = [pc EXCEPT ![p] = "idle"]
    /\ UNCHANGED <<queue, current, writer, permit, proc, site, ticket, nextId,
                   aged, fate>>

AwaitReturn(p) ==
    /\ pc[p] = "answered"
    /\ pc' = [pc EXCEPT ![p] = "idle"]
    /\ UNCHANGED <<queue, current, writer, permit, proc, site, ticket, nextId,
                   aged, fate>>

-----------------------------------------------------------------------------
(* The processor loop's use of the queue *)

StartWithoutPop ==                \* mutant: front() for pop_front()
    /\ proc = "poll"
    /\ writer = Free
    /\ queue # <<>>
    /\ current' = {Head(queue)}
    /\ fate' = [fate EXCEPT ![Head(queue).id] = "running"]
    /\ proc' = "running"
    /\ UNCHANGED <<queue, writer, permit, pc, site, ticket, nextId, aged>>

(* Pops under the queue's write lock and stores into current_command before *)
(* releasing it.                                                            *)
StartCurrent ==
    /\ proc = "poll"
    /\ writer = Free
    /\ queue # <<>>
    /\ queue' = Tail(queue)
    /\ current' = {Head(queue)}
    /\ fate' = [fate EXCEPT ![Head(queue).id] = "running"]
    /\ proc' = "running"
    /\ UNCHANGED <<writer, permit, pc, site, ticket, nextId, aged>>

StartNothing ==
    /\ proc = "poll"
    /\ writer = Free
    /\ queue = <<>>
    /\ proc' = "park"
    /\ UNCHANGED <<queue, current, writer, permit, pc, site, ticket, nextId,
                   aged, fate>>

(* The Notified future is polled: from here a notification wakes it. *)
Park ==
    /\ proc = "park"
    /\ proc' = "wait"
    /\ UNCHANGED <<queue, current, writer, permit, pc, site, ticket, nextId,
                   aged, fate>>

CompleteKeepsCurrent ==              \* mutant: the current command is not taken
    /\ proc = "running"
    /\ fate' = [id \in Ids |-> IF Running(id) THEN "completed" ELSE fate[id]]
    /\ proc' = "poll"
    /\ UNCHANGED <<queue, current, writer, permit, pc, site, ticket, nextId, aged>>

CompleteCurrent ==
    /\ proc = "running"
    /\ current' = {}
    /\ fate' = [id \in Ids |-> IF Running(id) THEN "completed" ELSE fate[id]]
    /\ proc' = "poll"
    /\ UNCHANGED <<queue, writer, permit, pc, site, ticket, nextId, aged>>

(* The Notified future resolves with the stored permit ... *)
Wake ==
    /\ proc = "wait"
    /\ permit
    /\ permit' = FALSE
    /\ proc' = "poll"
    /\ UNCHANGED <<queue, current, writer, pc, site, ticket, nextId, aged,
                   fate>>

(* ... or the 500 ms timeout around it does. *)
WakeTimeout ==
    /\ proc = "wait"
    /\ proc' = "poll"
    /\ UNCHANGED <<queue, current, writer, permit, pc, site, ticket, nextId,
                   aged, fate>>

-----------------------------------------------------------------------------
(* Removal *)

Injective(f) ==                   \* mutant: order not preserved
    \A i, j \in DOMAIN f : i # j => f[i] # f[j]

Increasing(f) == \A i, j \in DOMAIN f : i < j => f[i] < f[j]

(* VecDeque::retain: the commands at the indices K, in their order.         *)
Retain(K, why) ==
    /\ writer = Free
    /\ \E f \in [1 .. Cardinality(K) -> K] :
          /\ Increasing(f)
          /\ \A k \in K : \E i \in DOMAIN f : f[i] = k
          /\ queue' = [i \in 1 .. Cardinality(K) |-> queue[f[i]]]
    /\ fate' = [id \in Ids |->
                   IF \E i \in DOMAIN queue \ K : queue[i].id = id
                   THEN why ELSE fate[id]]
    /\ UNCHANGED <<current, writer, permit, proc, pc, site, ticket, nextId,
                   aged>>

(* clear: a stop from the web panel, a rest break, a restart. *)
Clear == queue # <<>> /\ Retain({}, "cleared")

ClearBazaarOrders ==
    /\ LibraryApi
    /\ \E i \in DOMAIN queue : queue[i].kind \in BazaarOrder
    /\ Retain({i \in DOMAIN queue : queue[i].kind \notin BazaarOrder},
              "cleared")

(* peek, when no command is current: remove_stale_commands. *)
Peek ==
    LET expired == {i \in DOMAIN queue : /\ queue[i].kind \in BazaarOrder
                                         /\ queue[i].id \in aged}
    IN  /\ LibraryApi
        /\ current = {}
        /\ expired # {}
        /\ Retain(DOMAIN queue \ expired, "expired")

(* interrupt_current. *)
InterruptCurrent ==
    /\ LibraryApi
    /\ current # {}
    /\ current' = {}
    /\ fate' = [id \in Ids |-> IF Running(id) THEN "interrupted" ELSE fate[id]]
    /\ UNCHANGED <<queue, writer, permit, proc, pc, site, ticket, nextId, aged>>

(* A queued command becomes more than BAZAAR_RECOMMENDATION_MAX_AGE_MS old. *)
Age ==
    /\ \E i \in DOMAIN queue :
          /\ queue[i].id \notin aged
          /\ queue[i].kind \in BazaarOrder
          /\ aged' = aged \cup {queue[i].id}
    /\ UNCHANGED <<queue, current, writer, permit, proc, pc, site, ticket,
                   nextId, fate>>

-----------------------------------------------------------------------------
Init ==
    /\ queue = <<>>
    /\ current = {}
    /\ writer = Free
    /\ permit = FALSE
    /\ proc = "poll"
    /\ pc = [p \in Callers |-> "idle"]
    /\ site = [p \in Callers |-> CHOOSE s \in CallSites : TRUE]
    /\ ticket = [p \in Callers |-> 0]
    /\ nextId = 1
    /\ aged = {}
    /\ fate = [id \in Ids |-> "unused"]

CallerStep(p) ==
    \/ GuardReadCurrent(p) \/ GuardReadQueue(p)
    \/ Collapse(p) \/ Insert(p) \/ Trim(p) \/ Unlock(p) \/ NotifyOne(p)
    \/ PollCurrent(p) \/ PollQueue(p) \/ AwaitReturn(p)

ProcessorStep ==
    \/ StartCurrent \/ StartNothing \/ CompleteCurrent
    \/ Park \/ Wake \/ WakeTimeout

Next ==
    \/ \E p \in Callers : Call(p) \/ CallerStep(p) \/ AwaitTimeout(p)
    \/ ProcessorStep
    \/ Clear \/ ClearBazaarOrders \/ Peek \/ InterruptCurrent
    \/ Age

Spec == Init /\ [][Next]_vars

(* Tokio runs every ready task: a caller inside a call and the processor    *)
(* loop keep moving.  Nothing obliges a task to make another call, a        *)
(* deadline to pass first, or anyone to clear the queue.                    *)
Fairness ==
    /\ \A p \in Callers : WF_vars(CallerStep(p))
    /\ WF_vars(ProcessorStep)

FairSpec == Spec /\ Fairness
-----------------------------------------------------------------------------
(* Properties *)

(* Every variable ranges over the values the code can give it; at most one *)
(* command is current.                                                     *)
TypeOK ==
    /\ queue \in Seq(Command)
    /\ current \in SUBSET Command
    /\ \A c, d \in current : c = d
    /\ writer \in Callers \cup {Free}
    /\ permit \in BOOLEAN
    /\ proc \in {"poll", "running", "park", "wait"}
    /\ pc \in [Callers -> CallerPc]
    /\ site \in [Callers -> CallSites]
    /\ ticket \in [Callers -> 0 .. MaxCommands]
    /\ nextId \in 1 .. MaxCommands + 1
    /\ aged \in SUBSET Ids
    /\ fate \in [Ids -> Fate]

(* The queue is ordered by priority, and within a priority by the order in *)
(* which enqueue inserted (ids are drawn in that order), whatever was      *)
(* trimmed, cleared, expired or started in between: an AH purchase is      *)
(* never behind a bazaar order, and equals are served first come first     *)
(* served (enqueue, command_queue.rs:82-88).                               *)
PriorityFifo ==
    \A i, j \in DOMAIN queue :
        i < j => \/ queue[i].priority < queue[j].priority
                 \/ /\ queue[i].priority = queue[j].priority
                    /\ queue[i].id < queue[j].id

(* Whenever enqueue's lock is not held, a queue longer than MAX_QUEUE_SIZE  *)
(* holds only commands that must be kept: the trim loop has always done    *)
(* its work, and no later removal or start brings a droppable excess back. *)
OverLimitOnlyEssential ==
    (writer = Free /\ Len(queue) > MaxQueueSize) => Droppable(queue) = {}

(* Commands are neither duplicated nor lost: the queue holds each queued   *)
(* command once and nothing else, and current_command is the one that      *)
(* was started and not yet completed; no command is in both.               *)
Conservation ==
    /\ \A i, j \in DOMAIN queue : queue[i].id = queue[j].id => i = j
    /\ \A id \in Ids : Queued(id) <=> fate[id] = "queued"
    /\ \A id \in Ids : Running(id) <=> fate[id] = "running"

(* A command that has to be kept is never trimmed and never expires unless *)
(* it is a sell offer past its age: trimming touches only what the comment *)
(* on enqueue (command_queue.rs:36-39) allows it to touch.                 *)
EssentialKept ==
    [][ \A i \in DOMAIN queue :
            /\ queue[i].kind \in Essential
            /\ fate'[queue[i].id] # fate[queue[i].id]
            => \/ fate'[queue[i].id] \in {"running", "cleared"}
               \/ /\ fate'[queue[i].id] = "expired"
                  /\ queue[i].kind = "BazaarSellOrder" ]_vars

(* The processor never sleeps on a non-empty queue without a wake-up due:  *)
(* a permit is stored, or the enqueue that will store one is under way.    *)
(* Otherwise a command would wait out the 500 ms timeout of the loop, the  *)
(* race that registering `notified` before start_current is there to       *)
(* prevent (main.rs:5416-5420).                                            *)
NoLostWakeup ==
    (proc \in {"park", "wait"} /\ queue # <<>>) =>
        permit \/ \E p \in Callers : pc[p] \in {"trim", "notify"}

(* The processor starts a new command only when none is current, so        *)
(* start_current never overwrites, and so loses, a running one.            *)
NeverOverwritesCurrent ==
    [][ current # {} => current' \subseteq current ]_vars

(* When await_queued_command is told its command is gone, it is gone for   *)
(* good: it is neither queued nor executing.  ("Returns true if a command  *)
(* with the given ID is still queued or currently executing",              *)
(* command_queue.rs:289.)                                                  *)
AnswerIsFinal ==
    \A p \in Callers :
        pc[p] = "answered" => ~ Queued(ticket[p]) /\ ~ Running(ticket[p])

(* When await_queued_command reports completion its command was not thrown  *)
(* away by the trim loop ("Returns true if the command completed, false on *)
(* timeout", client.rs:9056).                                              *)
AnsweredNotTrimmed ==
    \A p \in Callers : pc[p] = "answered" => fate[ticket[p]] # "trimmed"

(* Every accepted command leaves the queue: it is started, or removed by   *)
(* one of the ways above.  (Enqueues are finitely many in a behaviour of   *)
(* the model: an endless stream of more urgent commands may starve one.)   *)
EveryCommandLeaves ==
    \A id \in Ids : fate[id] = "queued" ~> fate[id] # "queued"

(* A caller that awaits its command is answered even if its own deadline   *)
(* never passes.                                                           *)
EveryAwaitEnds ==
    \A p \in Callers : pc[p] = "pollCurrent" ~> pc[p] = "idle"

(* The locked queue implements the promise: a command enters, with all the *)
(* trimming it causes, when it is inserted, since nobody reads the queue   *)
(* before the lock is released.                                            *)
Promise == INSTANCE PriorityQueue WITH
              pending <- Bounded(ToSet(queue), MaxQueueSize),
              Command <- {[id |-> i, kind |-> s.kind, priority |-> s.priority,
                           interruptible |-> s.interruptible] :
                             i \in Ids, s \in CallSites}

ImplementsPriorityQueue == Promise!Spec
=============================================================================
