----------------------------- MODULE JsonWriter -----------------------------
(***************************************************************************)
(* How the order tracker keeps its orders on disk: the tasks that change   *)
(* them (src/src/bazaar_tracker.rs), each of which then takes a snapshot   *)
(* and schedules it, and the background thread that debounces and writes   *)
(* (src/src/persistence.rs, AsyncJsonWriter).  The process may end at any  *)
(* moment and loads the file when it starts again.                         *)
(*                                                                         *)
(* The orders are abstracted to a version number: 0 is the empty tracker,  *)
(* every change makes a version of its own.                                *)
(***************************************************************************)
EXTENDS Integers, Sequences

CONSTANTS
    Tasks,          \* tasks that change the tracker: bot events, COFL
                    \* messages, web requests, the stale order cleanup
    MaxUpdates,     \* bound of the model: changes in a behaviour
    MaxRestarts     \* bound of the model: ends of the process

ASSUME UpdatesAssumption == MaxUpdates \in Nat /\ MaxRestarts \in Nat

VARIABLES
    value,      \* the tracker in memory
    updates,    \* changes made so far
    pc,         \* where each task is
    copy,       \* the snapshot each task holds
    channel,    \* snapshots scheduled and not yet received by the thread
    worker,     \* where the thread is
    pending,    \* the snapshot the thread holds
    file,       \* the content of the file, Torn when it does not parse
    restarts,   \* ends of the process so far
    lastSent,   \* history: what was scheduled last, or loaded
    saved       \* history: the last version completely written

memory == <<value, updates, pc, copy>>
thread == <<channel, worker, pending>>
disk   == <<file, saved>>
vars == <<memory, thread, disk, restarts, lastSent>>

Versions == 0 .. MaxUpdates
Torn == -1                  \* also: no file yet

(* load_from_disk: a file that cannot be parsed leaves the tracker empty.  *)
Load(f) == IF f = Torn THEN 0 ELSE f

-----------------------------------------------------------------------------
(* add_order, mark_filled, remove_order, ...: the change, under the write  *)
(* lock; then, that lock released, save_orders_to_disk.                    *)
Change(t) ==
    /\ pc[t] = "idle"
    /\ updates < MaxUpdates
    /\ updates' = updates + 1
    /\ value' = updates + 1
    /\ pc' = [pc EXCEPT ![t] = "clone"]
    /\ UNCHANGED <<copy, thread, disk, restarts, lastSent>>

ForgetsToSave(t) ==         \* mutant: an early return before the save
    /\ pc[t] = "clone"
    /\ pc' = [pc EXCEPT ![t] = "idle"]
    /\ UNCHANGED <<value, updates, copy, thread, disk, restarts, lastSent>>

Clone(t) ==
    /\ pc[t] = "clone"
    /\ copy' = [copy EXCEPT ![t] = value]
    /\ pc' = [pc EXCEPT ![t] = "schedule"]
    /\ UNCHANGED <<value, updates, thread, disk, restarts, lastSent>>

Schedule(t) ==
    /\ pc[t] = "schedule"
    /\ channel' = Append(channel, copy[t])
    /\ lastSent' = copy[t]
    /\ pc' = [pc EXCEPT ![t] = "idle"]
    /\ UNCHANGED <<value, updates, copy, worker, pending, disk, restarts>>

-----------------------------------------------------------------------------
(* run_worker: the newest snapshot replaces the one that waits; it is      *)
(* written when none has come for the debounce time.                       *)
Receive ==
    /\ worker \in {"idle", "debounce"}
    /\ channel # <<>>
    /\ pending' = Head(channel)
    /\ channel' = Tail(channel)
    /\ worker' = "debounce"
    /\ UNCHANGED <<memory, disk, restarts, lastSent>>

(* write_json: the file is truncated when it is opened ... *)
Open ==
    /\ worker = "debounce"
    /\ channel = <<>>
    /\ worker' = "write"
    /\ file' = Torn
    /\ UNCHANGED <<memory, channel, pending, saved, restarts, lastSent>>

(* ... and then written. *)
Write ==
    /\ worker = "write"
    /\ worker' = "idle"
    /\ file' = pending
    /\ saved' = pending
    /\ UNCHANGED <<memory, channel, pending, restarts, lastSent>>

-----------------------------------------------------------------------------
LoadsNothing ==             \* mutant: new() without load_from_disk
    /\ restarts < MaxRestarts
    /\ restarts' = restarts + 1
    /\ value' = 0
    /\ pc' = [t \in Tasks |-> "idle"]
    /\ channel' = <<>>
    /\ worker' = "idle"
    /\ lastSent' = file
    /\ UNCHANGED <<updates, copy, pending, disk>>

(* The process ends (an exit call, a kill, a restart by the updater) and   *)
(* is started again: what was not written is gone.                         *)
Restart ==
    /\ restarts < MaxRestarts
    /\ restarts' = restarts + 1
    /\ value' = Load(file)
    /\ pc' = [t \in Tasks |-> "idle"]
    /\ channel' = <<>>
    /\ worker' = "idle"
    /\ lastSent' = file
    /\ UNCHANGED <<updates, copy, pending, disk>>

Init ==
    /\ value = 0 /\ updates = 0
    /\ pc = [t \in Tasks |-> "idle"]
    /\ copy = [t \in Tasks |-> 0]
    /\ channel = <<>> /\ worker = "idle" /\ pending = 0
    /\ file = Torn /\ saved = 0 /\ restarts = 0
    /\ lastSent = Torn

TaskStep(t) == Clone(t) \/ Schedule(t)
WorkerStep == Receive \/ Open \/ Write

Next ==
    \/ \E t \in Tasks : Change(t) \/ TaskStep(t)
    \/ WorkerStep
    \/ Restart

Spec == Init /\ [][Next]_vars

(* A task that changed the tracker goes on to save it, and the thread      *)
(* runs.  Changes are finitely many in a behaviour of the model, so the    *)
(* debounce time passes.                                                   *)
Fairness == (\A t \in Tasks : WF_vars(TaskStep(t))) /\ WF_vars(WorkerStep)

FairSpec == Spec /\ Fairness
-----------------------------------------------------------------------------
(* Properties *)

(* Every variable ranges over the values the code can give it. *)
TypeOK ==
    /\ value \in Versions /\ updates \in Versions
    /\ pc \in [Tasks -> {"idle", "clone", "schedule"}]
    /\ copy \in [Tasks -> Versions]
    /\ channel \in Seq(Versions)
    /\ worker \in {"idle", "debounce", "write"}
    /\ pending \in Versions
    /\ file \in Versions \cup {Torn}
    /\ saved \in Versions
    /\ restarts \in 0 .. MaxRestarts
    /\ lastSent \in Versions \cup {Torn}

(* Whenever the thread has nothing left to do, the file holds the snapshot *)
(* that was scheduled last: coalescing never lets an older snapshot win,   *)
(* at whatever moment the process was restarted (persistence.rs:82-104).   *)
LastScheduledWins ==
    (worker = "idle" /\ channel = <<>>) => file = lastSent

Quiet ==
    /\ \A t \in Tasks : pc[t] = "idle"
    /\ channel = <<>> /\ worker = "idle"

(* When nothing is under way, a restart would load exactly the orders in   *)
(* memory ("Orders and buy costs are persisted to disk so profit tracking  *)
(* survives across bot restarts", bazaar_tracker.rs:6-7).                  *)
QuietDiskIsCurrent == Quiet => Load(file) = value

(* A restart finds at least the last version that was completely written   *)
(* ("survives across bot restarts", bazaar_tracker.rs:6-7).                *)
RestartRemembers ==
    [][ restarts' # restarts => value' = saved ]_vars

(* Every change reaches the disk, in the version it made or a later one,   *)
(* unless the process ends first.                                          *)
ChangesAreSaved ==
    []<>(value \in {0, file})
=============================================================================
