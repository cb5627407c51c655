---------------------------- MODULE PriorityQueue ---------------------------
(***************************************************************************)
(* What the command queue promises, without locks or positions: a set of   *)
(* pending commands, ordered by priority and then by age, of which the     *)
(* droppable ones give way when there are more than MaxQueueSize, and at   *)
(* most one command being executed.  CommandQueue implements it.           *)
(***************************************************************************)
EXTENDS Integers, FiniteSets, CommandTypes

CONSTANTS
    Command,        \* the commands that may be enqueued, each with its id
    MaxQueueSize

VARIABLES pending, current

Init == pending = {} /\ current = {}

(* The newest command enters; what the limit costs is decided at once, and *)
(* may be the new command itself.                                          *)
Enqueue ==
    /\ \E c \in Command :
          /\ \A d \in pending \cup current : d.id < c.id
          /\ pending' = Bounded(pending \cup {c}, MaxQueueSize)
    /\ UNCHANGED current

(* The most urgent command, the oldest of its priority, is executed next;  *)
(* never while another is.                                                 *)
Start ==
    /\ current = {}
    /\ \E c \in pending :
          /\ \A d \in pending \ {c} : Before(c, d)
          /\ pending' = pending \ {c}
          /\ current' = {c}

Finish ==
    /\ current # {}
    /\ current' = {}
    /\ UNCHANGED pending

(* Pending commands are withdrawn all at once, or only bazaar orders are.  *)
Withdraw ==
    /\ \/ pending' = {}
       \/ pending' \in {P \in SUBSET pending :
                           \A c \in pending \ P : c.kind \in BazaarOrder}
    /\ UNCHANGED current

Next == Enqueue \/ Start \/ Finish \/ Withdraw

Spec == Init /\ [][Next]_<<pending, current>>
=============================================================================
