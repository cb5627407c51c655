------------------------------- MODULE Hosting -------------------------------
(***************************************************************************)
(* The instances a hosting backend runs on this machine (vps/socket.rs).   *)
(* A link that is lost is made again; the first message on a new link      *)
(* names every instance of the host, later ones a single instance that     *)
(* changed.  While there is a link, a task looks once in a minute for      *)
(* instances whose time is over.                                           *)
(*                                                                         *)
(* The backend is external.  What it says travels in order and is lost     *)
(* with the link.  A START of what runs already is taken to change         *)
(* nothing: the hooks of the code are still empty.                         *)
(***************************************************************************)
EXTENDS Integers, Sequences

CONSTANTS
    Instances,
    Grace,                 \* PAID_UNTIL_GRACE_SECS, in units of the clock
    MaxTime, MaxNews, MaxDrops   \* bounds of the model

ASSUME HostingAssumption == {Grace, MaxTime, MaxNews, MaxDrops} \subseteq Nat

Undated == -1           \* a paidUntil that is no date
Terms == [off : BOOLEAN, until : 0 .. MaxTime \cup {Undated}]

VARIABLES
    now,
    assigned,    \* backend: the instances of this host, and their terms
    link,        \* is there a connection
    inbox,       \* what the backend has sent on it
    known,       \* instances: those tracked, their terms, and `running`
    launched,    \* the instances a START and no STOP was called for
    news, drops  \* how many changes and losses there were

hostVars == <<now, assigned, link, inbox, known, launched, news, drops>>

NoInstance == [i \in {} |-> 0]

-----------------------------------------------------------------------------
(* The backend and the network *)

Says(message) == inbox' = IF link THEN Append(inbox, message) ELSE inbox

Announces(i) ==            \* created, paid for, turned on or off
    /\ news < MaxNews /\ news' = news + 1
    /\ \E t \in Terms :
          /\ assigned' = [j \in DOMAIN assigned \cup {i} |-> IF j = i THEN t ELSE assigned[j]]
          /\ Says([is |-> "configUpdate", about |-> [j \in {i} |-> t]])
    /\ UNCHANGED <<now, link, known, launched, drops>>

Unassigns(i) ==            \* only the next init tells
    /\ news < MaxNews /\ news' = news + 1
    /\ i \in DOMAIN assigned
    /\ assigned' = [j \in DOMAIN assigned \ {i} |-> assigned[j]]
    /\ UNCHANGED <<now, link, inbox, known, launched, drops>>

Drops ==
    /\ link /\ drops < MaxDrops /\ drops' = drops + 1
    /\ link' = FALSE /\ inbox' = <<>>
    /\ UNCHANGED <<now, assigned, known, launched, news>>

Connects ==
    /\ ~ link /\ link' = TRUE
    /\ inbox' = <<[is |-> "init", about |-> assigned]>>
    /\ UNCHANGED <<now, assigned, known, launched, news, drops>>

Tick ==
    /\ now < MaxTime /\ now' = now + 1
    /\ UNCHANGED <<assigned, link, inbox, known, launched, news, drops>>

-----------------------------------------------------------------------------
(* The host *)

Valid(t)      == t.until # Undated
IsExpired(t)  == t.until < now
ShouldRun(t)  == ~ t.off /\ ~ IsExpired(t)
Tracked(t)      == [off |-> t.off, until |-> t.until, running |-> ShouldRun(t)]
Running(i)    == i \in DOMAIN known /\ known[i].running
GraceOver(t)  == t.until + Grace < now

Told(is) == inbox # <<>> /\ Head(inbox).is = is /\ inbox' = Tail(inbox)

(* Of the instances tracked, those that the message does not name. *)
Stale(named) == {i \in DOMAIN known \ DOMAIN named : known[i].running}

StartsUnknown ==           \* mutant: what is tracked is left as it is
    /\ Told("init")
    /\ LET named == Head(inbox).about
           valid == {i \in DOMAIN named \ DOMAIN known : Valid(named[i])}
       IN  /\ known' = [i \in (DOMAIN known \cap DOMAIN named) \cup valid |->
                           IF i \in valid THEN Tracked(named[i]) ELSE known[i]]
           /\ launched' = (launched \ Stale(named)) \cup {i \in valid : ShouldRun(named[i])}
    /\ UNCHANGED <<now, assigned, link, news, drops>>

(* One that runs and is named, but should not run, is not stopped. *)
HandleInit ==
    /\ Told("init")
    /\ LET named == Head(inbox).about
           valid == {i \in DOMAIN named : Valid(named[i])}
       IN  /\ known' = [i \in (DOMAIN known \cap DOMAIN named) \cup valid |->
                           IF i \in valid THEN Tracked(named[i]) ELSE known[i]]
           /\ launched' = (launched \ Stale(named)) \cup {i \in valid : ShouldRun(named[i])}
    /\ UNCHANGED <<now, assigned, link, news, drops>>

HandleConfigUpdate ==
    /\ Told("configUpdate")
    /\ LET named == Head(inbox).about
           i == CHOOSE j \in DOMAIN named : TRUE
           t == named[i]
       IN  IF Valid(t)
           THEN /\ known' = [j \in DOMAIN known \cup {i} |->
                                IF j = i THEN Tracked(t) ELSE known[j]]
                /\ launched' = IF ShouldRun(t) THEN launched \cup {i}
                               ELSE IF Running(i) THEN launched \ {i} ELSE launched
           ELSE UNCHANGED <<known, launched>>
    /\ UNCHANGED <<now, assigned, link, news, drops>>

Overdue == {i \in DOMAIN known :
               known[i].running /\ IsExpired(known[i]) /\ GraceOver(known[i])}

(* The checker ends with the link it was started for. *)
CheckAndStopExpired ==
    /\ link /\ Overdue # {}
    /\ known' = [i \in DOMAIN known |->
                    IF i \in Overdue THEN [known[i] EXCEPT !.running = FALSE] ELSE known[i]]
    /\ launched' = launched \ Overdue
    /\ UNCHANGED <<now, assigned, link, inbox, news, drops>>

HostInit ==
    /\ now = 0 /\ assigned = NoInstance /\ link = FALSE /\ inbox = <<>>
    /\ known = NoInstance /\ launched = {} /\ news = 0 /\ drops = 0

HostNext ==
    \/ \E i \in Instances : Announces(i) \/ Unassigns(i)
    \/ Drops \/ Connects \/ Tick
    \/ HandleInit \/ HandleConfigUpdate \/ CheckAndStopExpired

(* A lost link is made again, and what arrives is read. *)
HostFairness == WF_hostVars(Connects \/ HandleInit \/ HandleConfigUpdate)

HostSpec == HostInit /\ [][HostNext]_hostVars /\ HostFairness
-----------------------------------------------------------------------------
HostTypeOK ==
    /\ now \in 0 .. MaxTime /\ link \in BOOLEAN
    /\ DOMAIN assigned \subseteq Instances /\ DOMAIN known \subseteq Instances
    /\ launched \subseteq Instances

Entitled(i) == i \in DOMAIN assigned /\ Valid(assigned[i]) /\ ShouldRun(assigned[i])

(* An instance that is turned on and paid for runs in the end, whatever    *)
(* messages were lost with a link: the first message on the next link      *)
(* makes up for them (vps/socket.rs:184-189).                              *)
PaidRuns == \A i \in Instances : []<>(Entitled(i) => i \in launched)

(* "Instances that were previously running but are NOT in this update must *)
(* be stopped" (vps/socket.rs:187-189).                                    *)
UnassignedStops ==
    [][HandleInit => launched' \subseteq DOMAIN Head(inbox).about]_hostVars
=============================================================================
