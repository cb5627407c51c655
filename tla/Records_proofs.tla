--------------------------- MODULE Records_proofs ---------------------------
(***************************************************************************)
(* Proofs about the records the program keeps: the file of JsonWriter, for *)
(* every set of tasks and every number of changes and restarts, the        *)
(* sessions of Session, for any accounts, times, requests and crashes, and *)
(* what is counted of trades, the profit ledger of purchases (FlipLedger)  *)
(* and the costs of bazaar buys (BazaarBooks), for any names, items,       *)
(* orders, events and crashes.                                             *)
(***************************************************************************)
EXTENDS JsonWriter, Session, BazaarBooks, FlipLedger, SequenceTheorems,
        FiniteSetTheorems, TLAPS

-----------------------------------------------------------------------------
(* The writer of a file *)

(* Every variable keeps its type. *)
THEOREM TypeCorrect == Spec => []TypeOK
<1>1. Init => TypeOK
  BY UpdatesAssumption DEF Init, TypeOK, Versions, Torn
<1>2. TypeOK /\ [Next]_vars => TypeOK'
  <2> SUFFICES ASSUME TypeOK, [Next]_vars
               PROVE  TypeOK'
    OBVIOUS
  <2> USE UpdatesAssumption DEF TypeOK, memory, thread, disk, Versions
  <2>1. ASSUME NEW t \in Tasks, Change(t)
        PROVE  TypeOK'
    BY <2>1 DEF Change
  <2>2. ASSUME NEW t \in Tasks, Clone(t)
        PROVE  TypeOK'
    BY <2>2 DEF Clone
  <2>3. ASSUME NEW t \in Tasks, Schedule(t)
        PROVE  TypeOK'
    <3>1. copy[t] \in 0 .. MaxUpdates
      BY <2>3
    <3>2. channel' \in Seq(0 .. MaxUpdates)
      BY <2>3, <3>1, AppendProperties DEF Schedule
    <3> QED  BY <2>3, <3>1, <3>2 DEF Schedule
  <2>4. CASE Receive
    <3>1. Head(channel) \in 0 .. MaxUpdates /\ Tail(channel) \in Seq(0 .. MaxUpdates)
      BY <2>4, HeadTailProperties DEF Receive
    <3> QED  BY <2>4, <3>1 DEF Receive
  <2>5. CASE Open
    BY <2>5 DEF Open
  <2>6. CASE Write
    BY <2>6 DEF Write
  <2>7. CASE Restart
    <3>1. Load(file) \in 0 .. MaxUpdates
      BY DEF Load, Torn
    <3>2. <<>> \in Seq(0 .. MaxUpdates)
      OBVIOUS
    <3> QED  BY <2>7, <3>1, <3>2 DEF Restart
  <2>8. CASE UNCHANGED vars
    BY <2>8 DEF vars
  <2> QED  BY <2>1, <2>2, <2>3, <2>4, <2>5, <2>6, <2>7, <2>8
           DEF Next, TaskStep, WorkerStep
<1> QED  BY <1>1, <1>2, PTL DEF Spec

-----------------------------------------------------------------------------
(* The snapshot scheduled last is the last one in the channel; once the    *)
(* channel is empty, it is the one the thread holds, and, once the thread  *)
(* is idle, the one in the file.                                           *)
LastInFlight ==
    /\ channel # <<>> => channel[Len(channel)] = lastSent
    /\ (channel = <<>> /\ worker # "idle") => pending = lastSent
    /\ LastScheduledWins

LEMMA LastInFlightStep ==
    TypeOK /\ LastInFlight /\ [Next]_vars => LastInFlight'
<1> SUFFICES ASSUME TypeOK, LastInFlight, [Next]_vars
             PROVE  LastInFlight'
  OBVIOUS
<1> USE DEF LastInFlight, LastScheduledWins, memory, thread, disk
<1>1. ASSUME NEW t \in Tasks, Change(t)
      PROVE  LastInFlight'
  BY <1>1 DEF Change
<1>2. ASSUME NEW t \in Tasks, Clone(t)
      PROVE  LastInFlight'
  BY <1>2 DEF Clone
<1>3. ASSUME NEW t \in Tasks, Schedule(t)
      PROVE  LastInFlight'
  <2>1. copy[t] \in Versions /\ channel \in Seq(Versions)
    BY DEF TypeOK
  <2>2. channel' # <<>> /\ channel'[Len(channel')] = copy[t]
    BY <1>3, <2>1, AppendProperties DEF Schedule
  <2> QED  BY <1>3, <2>2 DEF Schedule
<1>4. CASE Receive
  <2>1. channel \in Seq(Versions) /\ channel # <<>>
    BY <1>4 DEF TypeOK, Receive
  <2>2. /\ Len(channel') = Len(channel) - 1
        /\ \A i \in 1 .. Len(channel') : channel'[i] = channel[i + 1]
        /\ channel' \in Seq(Versions)
        /\ Head(channel) = channel[1]
    BY <1>4, <2>1, HeadTailProperties DEF Receive
  <2>3. CASE channel' = <<>>
    <3>1. Len(channel) = 1
      BY <2>1, <2>2, <2>3, LenProperties
    <3> QED  BY <1>4, <2>1, <2>2, <2>3, <3>1 DEF Receive
  <2>4. CASE channel' # <<>>
    <3>1. Len(channel') \in Nat /\ Len(channel') # 0 /\ Len(channel) \in Nat
      BY <2>1, <2>2, <2>4, EmptySeq, LenProperties
    <3>2. channel'[Len(channel')] = channel[Len(channel)]
      BY <2>2, <3>1
    <3> QED  BY <1>4, <2>1, <2>4, <3>2 DEF Receive
  <2> QED  BY <2>3, <2>4
<1>5. CASE Open
  BY <1>5 DEF Open
<1>6. CASE Write
  BY <1>6 DEF Write
<1>7. CASE Restart
  BY <1>7 DEF Restart
<1>8. CASE UNCHANGED vars
  BY <1>8 DEF vars
<1> QED  BY <1>1, <1>2, <1>3, <1>4, <1>5, <1>6, <1>7, <1>8
         DEF Next, TaskStep, WorkerStep

(* Coalescing never lets an older snapshot win: an idle thread has written *)
(* the snapshot that was scheduled last.                                   *)
THEOREM NewestWins == Spec => []LastScheduledWins
<1>1. Init => LastInFlight
  BY DEF Init, LastInFlight, LastScheduledWins
<1>2. LastInFlight => LastScheduledWins
  BY DEF LastInFlight
<1> QED  BY <1>1, <1>2, TypeCorrect, LastInFlightStep, PTL DEF Spec

-----------------------------------------------------------------------------
(* With a single task: the snapshot it is about to schedule is the value   *)
(* in memory, and so is, when it is idle, the one scheduled last.          *)
SnapshotFresh ==
    /\ \A t \in Tasks : pc[t] = "schedule" => copy[t] = value
    /\ (\A t \in Tasks : pc[t] = "idle") => Load(lastSent) = value

LEMMA SnapshotFreshStep ==
    ASSUME \A t, u \in Tasks : t = u,
           TypeOK, LastInFlight, SnapshotFresh, [Next]_vars
    PROVE  SnapshotFresh'
<1> USE DEF SnapshotFresh, memory, thread, disk
<1>1. ASSUME NEW t \in Tasks, Change(t)
      PROVE  SnapshotFresh'
  <2>1. pc' = [u \in Tasks |-> "clone"]
    BY <1>1 DEF Change, TypeOK
  <2> QED  BY <1>1, <2>1
<1>2. ASSUME NEW t \in Tasks, Clone(t)
      PROVE  SnapshotFresh'
  <2>1. pc' = [u \in Tasks |-> "schedule"] /\ copy' = [u \in Tasks |-> value]
    BY <1>2 DEF Clone, TypeOK
  <2> QED  BY <1>2, <2>1 DEF Clone
<1>3. ASSUME NEW t \in Tasks, Schedule(t)
      PROVE  SnapshotFresh'
  <2>1. pc' = [u \in Tasks |-> "idle"] /\ lastSent' = value
    BY <1>3 DEF Schedule, TypeOK
  <2>2. Load(value) = value
    BY UpdatesAssumption DEF Load, Torn, TypeOK, Versions
  <2> QED  BY <1>3, <2>1, <2>2 DEF Schedule, Load
<1>4. CASE Receive
  BY <1>4 DEF Receive, Load
<1>5. CASE Open
  BY <1>5 DEF Open, Load
<1>6. CASE Write
  BY <1>6 DEF Write, Load
<1>7. CASE Restart
  BY <1>7 DEF Restart, Load
<1>8. CASE UNCHANGED vars
  BY <1>8 DEF vars, Load
<1> QED  BY <1>1, <1>2, <1>3, <1>4, <1>5, <1>6, <1>7, <1>8
         DEF Next, TaskStep, WorkerStep

(* If one task only changed the tracker, then whenever nothing is under    *)
(* way a restart would load exactly what is in memory.                     *)
THEOREM SingleTaskPersists ==
    ASSUME \A t, u \in Tasks : t = u
    PROVE  Spec => []QuietDiskIsCurrent
<1> DEFINE IInv == TypeOK /\ LastInFlight /\ SnapshotFresh
<1>1. Init => IInv
  BY UpdatesAssumption
     DEF Init, TypeOK, LastInFlight, LastScheduledWins, SnapshotFresh, Load,
         Torn, Versions
<1>2. TypeOK /\ TypeOK' /\ IInv /\ [Next]_vars => IInv'
  BY LastInFlightStep, SnapshotFreshStep
<1>3. IInv => QuietDiskIsCurrent
  BY DEF QuietDiskIsCurrent, Quiet, LastInFlight, LastScheduledWins,
         SnapshotFresh, Load
<1> QED  BY <1>1, <1>2, <1>3, TypeCorrect, PTL DEF Spec

-----------------------------------------------------------------------------
(* The sessions *)

(* A switch that is under way is the only one and has its marker; without  *)
(* one there is no marker, and when the process ends the account of the    *)
(* marker is the next to run.                                              *)
OneSwitch ==
    /\ switches = {} => switchMark = NoOne
    /\ \A s \in switches : switches = {s} /\ s.to = switchMark
                              /\ (s.by = "panel" => index = s.to)
    /\ phase \in {"restarting", "down"} => switchMark \in {NoOne, index}

(* Only a restart finds the marker of a break, no switch is under way      *)
(* then, and the uptime at the break is on file.                           *)
BreakOnFile ==
    restMark # NoOne =>
        /\ phase = "restarting" /\ switches = {}
        /\ resting # None => resting.who = restMark /\ times[restMark] >= resting.up

(* The types, as far as the argument needs them. *)
SessionTypes ==
    /\ phase \in {"down", "restarting", "resting", "up"}
    /\ me \in Accounts /\ index \in Accounts
    /\ times \in [Accounts -> -1 .. Limit]
    /\ uptime \in 0 .. Limit
    /\ restMark \in Accounts \cup {NoOne}
    /\ resting \in [who : Accounts \cup {NoOne}, up : 0 .. Limit]
    /\ switches \subseteq [to : Accounts, by : {"timer", "panel"}]

(* The inductive invariant *)
SessionInv == SessionTypes /\ OneSwitch /\ BreakOnFile /\ BreakKeepsSession

(* A rest break keeps the session's uptime, through whatever else ends the *)
(* process before and after it, if nothing does while the account is being *)
(* switched (main.rs:1022-1064, 1282-1286).                                *)
THEOREM BreaksKeepSessions == ASSUME OneAtATime PROVE SessionSpec => []BreakKeepsSession
<1> USE SessionAssumption DEF Accounts, NoOne, Limit, None
<1>1. SessionInit => SessionInv
  BY DEF SessionInit, SessionInv, SessionTypes, OneSwitch, BreakOnFile, BreakKeepsSession
<1>2. SessionInv /\ [SessionNext]_sessionVars => SessionInv'
  <2> SUFFICES ASSUME SessionInv, [SessionNext]_sessionVars  PROVE SessionInv'
    OBVIOUS
  <2> USE DEF SessionInv, SessionTypes, OneSwitch, BreakOnFile, BreakKeepsSession,
              process, files
  <2>1. CASE Boot
    BY <2>1 DEF Boot, AfterBreak, Switched, CarryTime
  <2>2. CASE Resume
    BY <2>2 DEF Resume
  <2>3. CASE Tick
    BY <2>3 DEF Tick, SaveTotals, SaveSessionTime
  <2>4. CASE BreakTimeOver
    BY <2>4 DEF BreakTimeOver
  <2>5. CASE Humanize \/ BreakOnDemand
    <3>1. /\ phase = "up" /\ switches = {} /\ restMark' = me /\ phase' = "restarting"
          /\ times' = [times EXCEPT ![me] = uptime]
          /\ resting' = [who |-> me, up |-> uptime]
          /\ UNCHANGED <<me, uptime, switches, index, switchMark>>
      BY <2>5 DEF Humanize, BreakOnDemand, TakeRestBreak, SaveTotals, SaveSessionTime
    <3>2. times' \in [Accounts -> -1 .. Limit] /\ times'[me] = uptime
      BY <3>1
    <3>3. SessionTypes'
      BY <3>1, <3>2
    <3>4. BreakOnFile'
      BY <3>1, <3>2
    <3> QED  BY <3>1, <3>3, <3>4
  <2>6. CASE SwitchTimer
    <3> DEFINE to == NextAccount(me)
    <3>1. to \in Accounts
      BY DEF NextAccount
    <3>2. /\ phase = "up" /\ switches = {} /\ switchMark' = to
          /\ switches' = {[to |-> to, by |-> "timer"]}
          /\ times' = [times EXCEPT ![me] = -1]
          /\ UNCHANGED <<phase, me, uptime, index, restMark, resting>>
      BY <2>6 DEF SwitchTimer, BeginSwitch
    <3> HIDE DEF to
    <3>3. OneSwitch'
      <4>1. PICK new : new = [to |-> to, by |-> "timer"]
        OBVIOUS
      <4>2. switches' = {new} /\ new.to = switchMark' /\ new.by # "panel"
        BY <3>2, <4>1
      <4> QED  BY <3>2, <4>2
    <3>4. SessionTypes'
      BY <3>1, <3>2
    <3> QED  BY <3>2, <3>3, <3>4
  <2>7. CASE RestartSession \/ Crash
    BY <2>7 DEF RestartSession, Crash, Undisturbed
  <2>8. CASE CtrlC
    BY <2>8 DEF CtrlC, Undisturbed, SaveTotals, SaveSessionTime
  <2>9. CASE RestBreakNow \/ PauseMacro
    BY <2>9 DEF RestBreakNow, PauseMacro
  <2>10. ASSUME NEW a \in Accounts, GapPasses(a)
         PROVE  SessionInv'
    BY <2>10 DEF GapPasses
  <2>11. ASSUME NEW a \in Accounts, SwitchAccount(a)
         PROVE  SessionInv'
    <3>1. /\ phase \in {"resting", "up"} /\ switches = {} /\ switchMark' = a /\ index' = a
          /\ switches' = {[to |-> a, by |-> "panel"]}
          /\ UNCHANGED <<phase, me, uptime, times, restMark, resting>>
      BY <2>11 DEF SwitchAccount, BeginSwitch
    <3>2. OneSwitch'
      <4>1. PICK new : new = [to |-> a, by |-> "panel"]
        OBVIOUS
      <4>2. switches' = {new} /\ new.to = switchMark' /\ new.to = index'
        BY <3>1, <4>1
      <4> QED  BY <3>1, <4>2
    <3>3. SessionTypes'
      BY <3>1
    <3> QED  BY <3>1, <3>2, <3>3
  <2>12. ASSUME NEW s \in switches, FinishSwitch(s)
         PROVE  SessionInv'
    BY <2>12 DEF FinishSwitch
  <2>13. CASE UNCHANGED sessionVars
    BY <2>13 DEF sessionVars
  <2> QED  BY <2>1, <2>2, <2>3, <2>4, <2>5, <2>6, <2>7, <2>8, <2>9, <2>10, <2>11,
              <2>12, <2>13 DEF SessionNext
<1>3. SessionInv => BreakKeepsSession
  BY DEF SessionInv
<1> QED  BY <1>1, <1>2, <1>3, PTL DEF SessionSpec

-----------------------------------------------------------------------------
(* The profit ledger *)

(* All that was ever bought *)
Bought == UNION {bought[n] : n \in Names}

(* The types the two files and the memory keep *)
LedgerTypes ==
    /\ tracker \in [Names -> {NoEntry, 0} \cup Purchases]
    /\ trackerFile \in [Names -> {NoEntry} \cup Purchases]
    /\ byName \in [Names -> {0} \cup Purchases] /\ byUuid \subseteq Purchases
    /\ ledgerFile[1] \in [Names -> {0} \cup Purchases] /\ ledgerFile[2] \subseteq Purchases
    /\ orders \subseteq Names /\ known \subseteq Names
    /\ held \in [Names -> SUBSET Purchases] /\ bought \in [Names -> SUBSET Purchases]
    /\ counted \in [Names -> Nat] /\ flips \in Nat /\ ends \in Nat

(* Purchases are numbered as they come, so the number of the next is new.  *)
Numbered ==
    /\ Bought = 1 .. Number /\ Number \in Nat
    /\ \A n \in Names : held[n] \subseteq bought[n]
    /\ byUuid \subseteq Bought /\ ledgerFile[2] \subseteq Bought

(* A purchase gets a number that no purchase had before. *)
LEMMA NextPurchase ==
    ASSUME LedgerTypes, Numbered, NEW n \in Names, ItemPurchased(n)
    PROVE  /\ Number + 1 \in Purchases
           /\ Number + 1 \notin Bought
           /\ Bought' = Bought \cup {Number + 1}
           /\ Number' = Number + 1
<1> DEFINE id == Number + 1
<1>1. id \in Purchases
  BY LedgerAssumption DEF ItemPurchased, Numbered, Purchases
<1>2. id \notin Bought
  BY DEF Numbered
<1>3. Bought' = Bought \cup {id}
  <2>1. bought' = [bought EXCEPT ![n] = @ \cup {id}]
    BY DEF ItemPurchased
  <2> QED  BY <2>1 DEF Bought, LedgerTypes
<1>4. Bought' = 1 .. id
  BY <1>3 DEF Numbered
<1>5. Cardinality(Bought') = id
  <2>1. Cardinality(1 .. id) = id
    BY FS_Interval DEF Numbered
  <2> QED  BY <2>1, <1>4
<1> QED  BY <1>1, <1>2, <1>3, <1>5 DEF Number, Bought

(* What both properties rest on *)
LedgerBase == LedgerTypes /\ Numbered

(* Types and numbers stay right through sales, writes, breaks and crashes. *)
LEMMA LedgerBaseInvariant == LedgerSpec => []LedgerBase
<1>1. LedgerInit => LedgerBase
  <2> SUFFICES ASSUME LedgerInit  PROVE LedgerBase
    OBVIOUS
  <2>1. LedgerTypes
    BY LedgerAssumption DEF LedgerInit, LedgerTypes, Purchases, NoEntry
  <2>2. Bought = {}
    BY DEF LedgerInit, Bought
  <2>3. Number = 0
    BY <2>2, FS_EmptySet DEF Number, Bought
  <2> QED  BY <2>1, <2>2, <2>3 DEF LedgerBase, Numbered, LedgerInit
<1>2. LedgerBase /\ [LedgerNext]_ledgerVars => LedgerBase'
  <2> SUFFICES ASSUME LedgerBase, [LedgerNext]_ledgerVars  PROVE LedgerBase'
    OBVIOUS
  <2> USE LedgerAssumption DEF LedgerBase, LedgerTypes, NoEntry
  <2> USE DEF inMemory, onDisk
  <2>0. Saved(tracker) \in [Names -> {NoEntry} \cup Purchases]
    BY DEF Saved
  <2>a. ASSUME bought' = bought  PROVE Bought' = Bought /\ Number' = Number
    BY <2>a DEF Bought, Number
  <2>1. CASE SaveFlipTracker
    BY <2>1, <2>0, <2>a DEF SaveFlipTracker, Numbered
  <2>2. CASE WriteLedger
    BY <2>2, <2>a DEF WriteLedger, Numbered
  <2>3. CASE BreakOfBot
    BY <2>3, <2>0, <2>a DEF BreakOfBot, Numbered
  <2>4. CASE CrashOfBot
    BY <2>4, <2>a DEF CrashOfBot, Numbered
  <2>5. ASSUME NEW n \in Names, AcceptFlip(n)  PROVE LedgerBase'
    BY <2>5, <2>a DEF AcceptFlip, Numbered
  <2>6. ASSUME NEW n \in Names, FlipMissed(n)  PROVE LedgerBase'
    BY <2>6, <2>a DEF FlipMissed, Numbered
  <2>7. ASSUME NEW n \in Names, ItemPurchased(n)  PROVE LedgerBase'
    <3> DEFINE id == Number + 1
    <3>1. /\ id \in Purchases /\ Bought' = Bought \cup {id} /\ Number' = id
      BY <2>7, NextPurchase
    <3>2. LedgerTypes'
      BY <2>7, <3>1 DEF ItemPurchased, EnterPurchase
    <3>3. Bought' = 1 .. id
      BY <3>1 DEF Numbered
    <3>4. byUuid' \subseteq byUuid \cup {id} /\ ledgerFile' = ledgerFile
      BY <2>7 DEF ItemPurchased, EnterPurchase
    <3>5. \A m \in Names : held'[m] \subseteq bought'[m]
      BY <2>7 DEF ItemPurchased, Numbered
    <3> QED  BY <3>1, <3>2, <3>3, <3>4, <3>5 DEF Numbered
  <2>8. ASSUME NEW n \in Names, NEW id \in held[n] \cup {0}, Sold(n, id)
        PROVE  LedgerBase'
    <3>1. /\ byUuid' \subseteq byUuid /\ bought' = bought /\ ledgerFile' = ledgerFile
          /\ held' = [held EXCEPT ![n] = @ \ {id}]
      BY <2>8 DEF Sold
    <3>2. counted' \in [Names -> Nat]
      BY <2>8 DEF Sold
    <3>3. LedgerTypes'
      BY <2>8, <3>1, <3>2 DEF Sold, DropName
    <3>4. Numbered'
      BY <3>1, <2>a DEF Numbered
    <3> QED  BY <3>3, <3>4
  <2>9. CASE UNCHANGED ledgerVars
    BY <2>9, <2>a DEF ledgerVars, Numbered
  <2> QED  BY <2>1, <2>2, <2>3, <2>4, <2>5, <2>6, <2>7, <2>8, <2>9
           DEF LedgerNext, ItemSold
<1> QED  BY <1>1, <1>2, PTL DEF LedgerSpec

-----------------------------------------------------------------------------
(* A name from which a sale may still take a profit *)
MayCount(n) == tracker[n] > 0 \/ byName[n] # 0

(* A profit still to be taken needs a purchase, or an end of the process,  *)
(* that was not yet counted for: the inductive form of CountedOnce.        *)
CountedInv == \A n \in Names :
    counted[n] + (IF MayCount(n) THEN 1 ELSE 0) <= Cardinality(bought[n]) + ends

(* The purchases of a name can be counted. *)
LEMMA BoughtFinite ==
    ASSUME LedgerTypes, NEW n \in Names
    PROVE  IsFiniteSet(bought[n]) /\ Cardinality(bought[n]) \in Nat
<1>1. IsFiniteSet(Purchases)
  BY LedgerAssumption, FS_Interval DEF Purchases
<1>2. bought[n] \subseteq Purchases
  BY DEF LedgerTypes
<1> QED  BY <1>1, <1>2, FS_Subset, FS_CardinalityType

(* No two sales take their profit from one purchase, but as often as a     *)
(* crash or a break brought back what the files held (main.rs:3339-3380).  *)
THEOREM NoPurchaseCountedTwice == LedgerSpec => []CountedOnce
<1>1. LedgerInit /\ LedgerBase => CountedInv
  BY FS_EmptySet DEF LedgerInit, CountedInv, MayCount, NoEntry
<1>2. LedgerBase /\ CountedInv /\ [LedgerNext]_ledgerVars => CountedInv'
  <2> SUFFICES ASSUME LedgerBase, CountedInv, [LedgerNext]_ledgerVars,
                      NEW m \in Names
               PROVE  counted'[m] + (IF MayCount(m)' THEN 1 ELSE 0)
                         <= Cardinality(bought'[m]) + ends'
    BY DEF CountedInv
  <2>b. Cardinality(bought[m]) \in Nat
    BY BoughtFinite DEF LedgerBase
  <2>c. counted[m] + (IF MayCount(m) THEN 1 ELSE 0) <= Cardinality(bought[m]) + ends
    BY DEF CountedInv
  <2> USE <2>b, <2>c DEF LedgerBase, LedgerTypes, MayCount, inMemory, onDisk
  <2>1. CASE SaveFlipTracker
    BY <2>1 DEF SaveFlipTracker
  <2>2. CASE WriteLedger
    BY <2>2 DEF WriteLedger
  <2>3. CASE BreakOfBot
    BY <2>3 DEF BreakOfBot, Saved, NoEntry
  <2>4. CASE CrashOfBot
    BY <2>4 DEF CrashOfBot
  <2>5. ASSUME NEW n \in Names, AcceptFlip(n)
        PROVE  counted'[m] + (IF MayCount(m)' THEN 1 ELSE 0)
                  <= Cardinality(bought'[m]) + ends'
    BY <2>5 DEF AcceptFlip, NoEntry
  <2>6. ASSUME NEW n \in Names, FlipMissed(n)
        PROVE  counted'[m] + (IF MayCount(m)' THEN 1 ELSE 0)
                  <= Cardinality(bought'[m]) + ends'
    BY <2>6 DEF FlipMissed
  <2>7. ASSUME NEW n \in Names, ItemPurchased(n)
        PROVE  counted'[m] + (IF MayCount(m)' THEN 1 ELSE 0)
                  <= Cardinality(bought'[m]) + ends'
    <3> DEFINE id == Number + 1
    <3>1. CASE m = n
      <4>1. id \notin bought[n]
        BY <2>7, NextPurchase DEF Bought
      <4>2. bought'[n] = bought[n] \cup {id}
        BY <2>7 DEF ItemPurchased
      <4>3. Cardinality(bought'[n]) = Cardinality(bought[n]) + 1
        BY <4>1, <4>2, BoughtFinite, FS_AddElement
      <4>4. counted' = counted /\ ends' = ends
        BY <2>7 DEF ItemPurchased
      <4> QED  BY <3>1, <4>3, <4>4
    <3>2. CASE m # n
      <4>1. /\ bought'[m] = bought[m] /\ tracker'[m] = tracker[m]
            /\ byName'[m] = byName[m] /\ counted' = counted /\ ends' = ends
        BY <2>7, <3>2 DEF ItemPurchased, EnterPurchase
      <4> QED  BY <4>1
    <3> QED  BY <3>1, <3>2
  <2>8. ASSUME NEW n \in Names, NEW id \in held[n] \cup {0}, Sold(n, id)
        PROVE  counted'[m] + (IF MayCount(m)' THEN 1 ELSE 0)
                  <= Cardinality(bought'[m]) + ends'
    <3>1. bought' = bought /\ ends' = ends
      BY <2>8 DEF Sold
    <3>2. CASE m = n
      <4>1. tracker'[n] = NoEntry /\ byName'[n] = 0
        BY <2>8 DEF Sold, DropName
      <4>2. counted'[n] = IF Resolved(n) THEN counted[n] + 1 ELSE counted[n]
        BY <2>8 DEF Sold
      <4>3. Resolved(n) => MayCount(n)
        BY DEF Resolved
      <4> QED  BY <3>1, <3>2, <4>1, <4>2, <4>3 DEF NoEntry
    <3>3. CASE m # n
      <4>1. /\ tracker'[m] = tracker[m] /\ byName'[m] = byName[m]
            /\ counted'[m] = counted[m]
        BY <2>8, <3>3 DEF Sold, DropName
      <4> QED  BY <3>1, <4>1
    <3> QED  BY <3>2, <3>3
  <2>9. CASE UNCHANGED ledgerVars
    BY <2>9 DEF ledgerVars
  <2> QED  BY <2>1, <2>2, <2>3, <2>4, <2>5, <2>6, <2>7, <2>8, <2>9
           DEF LedgerNext, ItemSold
<1>3. LedgerBase /\ CountedInv => CountedOnce
  <2> SUFFICES ASSUME LedgerBase, CountedInv, NEW n \in Names
               PROVE  counted[n] <= Cardinality(bought[n]) + ends
    BY DEF CountedOnce
  <2>1. Cardinality(bought[n]) \in Nat
    BY BoughtFinite DEF LedgerBase
  <2> QED  BY <2>1 DEF CountedInv, LedgerBase, LedgerTypes
<1> QED  BY <1>1, <1>2, <1>3, LedgerBaseInvariant, PTL DEF LedgerSpec

-----------------------------------------------------------------------------
(* A purchase that a sale must find is the only one of its name, and where *)
(* the ledger has it by its uuid, it has it by its name.                   *)
KnownInv == \A n \in known : \E id \in Purchases :
    /\ held[n] = {id}
    /\ id \in byUuid => byName[n] = id
    /\ id \in ledgerFile[2] => ledgerFile[1][n] = id

(* An item that a sale must find is found: by the tracker, or without it   *)
(* by the name, whatever was saved before a crash (main.rs:766-771).       *)
THEOREM HeldItemsResolve == LedgerSpec => []HeldIsResolved
<1>1. LedgerInit => KnownInv /\ HeldIsResolved
  BY DEF LedgerInit, KnownInv, HeldIsResolved
<1>2. LedgerBase /\ KnownInv /\ HeldIsResolved /\ [LedgerNext]_ledgerVars
         => (KnownInv /\ HeldIsResolved)'
  <2> SUFFICES ASSUME LedgerBase, KnownInv, HeldIsResolved, [LedgerNext]_ledgerVars,
                      NEW m \in known'
               PROVE  /\ Resolved(m)'
                      /\ \E id \in Purchases :
                            /\ held'[m] = {id}
                            /\ id \in byUuid' => byName'[m] = id
                            /\ id \in ledgerFile'[2] => ledgerFile'[1][m] = id
    BY DEF KnownInv, HeldIsResolved
  <2> DEFINE Goal == /\ Resolved(m)'
                     /\ \E id \in Purchases :
                           /\ held'[m] = {id}
                           /\ id \in byUuid' => byName'[m] = id
                           /\ id \in ledgerFile'[2] => ledgerFile'[1][m] = id
  <2>a. ASSUME m \in known
        PROVE  Resolved(m) /\ \E id \in Purchases :
                                /\ held[m] = {id}
                                /\ id \in byUuid => byName[m] = id
                                /\ id \in ledgerFile[2] => ledgerFile[1][m] = id
    BY <2>a DEF KnownInv, HeldIsResolved
  <2> USE DEF LedgerBase, LedgerTypes, inMemory, onDisk, Resolved
  <2>1. CASE SaveFlipTracker
    BY <2>1, <2>a DEF SaveFlipTracker
  <2>2. CASE WriteLedger
    BY <2>2, <2>a DEF WriteLedger
  <2>3. CASE BreakOfBot
    BY <2>3, <2>a DEF BreakOfBot, Saved, NoEntry
  <2>4. CASE CrashOfBot
    <3>1. m \in known /\ OnFile(m)
      BY <2>4 DEF CrashOfBot
    <3>2. PICK id \in Purchases :
             /\ held[m] = {id}
             /\ id \in ledgerFile[2] => ledgerFile[1][m] = id
      BY <3>1, <2>a
    <3>3. id > 0
      BY DEF Purchases
    <3>4. trackerFile[m] = id \/ (trackerFile[m] = NoEntry /\ ledgerFile[1][m] = id)
      BY <3>1, <3>2 DEF OnFile
    <3>5. /\ tracker' = trackerFile /\ byName' = ledgerFile[1] /\ byUuid' = ledgerFile[2]
          /\ held' = held /\ ledgerFile' = ledgerFile
      BY <2>4 DEF CrashOfBot
    <3> QED  BY <3>2, <3>3, <3>4, <3>5
  <2>5. ASSUME NEW n \in Names, AcceptFlip(n)  PROVE Goal
    BY <2>5, <2>a DEF AcceptFlip
  <2>6. ASSUME NEW n \in Names, FlipMissed(n)  PROVE Goal
    BY <2>6, <2>a DEF FlipMissed
  <2>7. ASSUME NEW n \in Names, ItemPurchased(n)  PROVE Goal
    <3> DEFINE id == Number + 1
    <3>1. id \in Purchases /\ id \notin Bought
      BY <2>7, NextPurchase
    <3>2. id \notin ledgerFile[2] /\ ledgerFile' = ledgerFile
      BY <2>7, <3>1 DEF ItemPurchased, Numbered
    <3>3. CASE m = n
      <4>1. held[n] = {}
        BY <2>7, <3>3 DEF ItemPurchased
      <4>2. held'[n] = {id} /\ byName'[n] = id
        BY <2>7, <4>1 DEF ItemPurchased, EnterPurchase
      <4>3. tracker'[n] \in {NoEntry, id}
        BY <2>7 DEF ItemPurchased
      <4> QED  BY <3>1, <3>2, <3>3, <4>2, <4>3 DEF Purchases
    <3>4. CASE m # n
      <4>1. m \in known
        BY <2>7, <3>4 DEF ItemPurchased
      <4>2. PICK old \in Purchases :
               /\ held[m] = {old}
               /\ old \in byUuid => byName[m] = old
               /\ old \in ledgerFile[2] => ledgerFile[1][m] = old
        BY <4>1, <2>a
      <4>3. old # id
        BY <4>1, <4>2, <3>1 DEF Numbered, Bought
      <4>4. /\ held'[m] = held[m] /\ byName'[m] = byName[m] /\ tracker'[m] = tracker[m]
            /\ byUuid' \subseteq byUuid \cup {id}
        BY <2>7, <3>4, <4>1 DEF ItemPurchased, EnterPurchase
      <4>5. Resolved(m)
        BY <4>1, <2>a
      <4> QED  BY <3>2, <4>2, <4>3, <4>4, <4>5
    <3> QED  BY <3>3, <3>4
  <2>8. ASSUME NEW n \in Names, NEW id \in held[n] \cup {0}, Sold(n, id)  PROVE Goal
    <3>1. m \in known /\ m # n
      BY <2>8 DEF Sold
    <3>2. /\ held'[m] = held[m] /\ byName'[m] = byName[m] /\ tracker'[m] = tracker[m]
          /\ byUuid' \subseteq byUuid /\ ledgerFile' = ledgerFile
      BY <2>8, <3>1 DEF Sold, DropName
    <3> QED  BY <3>1, <3>2, <2>a
  <2>9. CASE UNCHANGED ledgerVars
    BY <2>9, <2>a DEF ledgerVars
  <2> QED  BY <2>1, <2>2, <2>3, <2>4, <2>5, <2>6, <2>7, <2>8, <2>9
           DEF LedgerNext, ItemSold
<1> QED  BY <1>1, <1>2, LedgerBaseInvariant, PTL DEF LedgerSpec

-----------------------------------------------------------------------------
(* The costs of bazaar buys *)

(* What the event loop is told of units, it is told of an item.            *)
UnitsTold(e) == e.is = "collected" => e.units \in Nat /\ e.key \in Keys

(* An order of the game *)
InGame == [id : Int, key : Keys, fill : Nat, took : Nat]

(* All events of a sequence are told so. *)
Heard(s) == \E S : s \in Seq(S) /\ \A e \in S : UnitsTold(e)

(* The cost that is kept of an item is that of the units not yet sold.     *)
Costed ==
    /\ game \subseteq InGame /\ placed \in Int
    /\ Heard(events)
    /\ costs \in [Items -> Int] /\ unspent = costs

(* It is enough that they are of a set of such events. *)
LEMMA HeardOf ==
    ASSUME NEW s, NEW S, s \in Seq(S), \A e \in S : UnitsTold(e)
    PROVE  Heard(s)
BY DEF Heard

(* What is heard stays so when events are put together.                    *)
LEMMA HeardTogether ==
    ASSUME NEW s, NEW t, Heard(s), Heard(t)
    PROVE  Heard(s \o t)
<1>1. PICK S : s \in Seq(S) /\ \A e \in S : UnitsTold(e)
  BY DEF Heard
<1>2. PICK T : t \in Seq(T) /\ \A e \in T : UnitsTold(e)
  BY DEF Heard
<1>3. s \in Seq(S \cup T) /\ t \in Seq(S \cup T)
  BY <1>1, <1>2
<1>4. s \o t \in Seq(S \cup T)
  BY <1>3
<1>5. \A e \in S \cup T : UnitsTold(e)
  BY <1>1, <1>2
<1> QED  BY <1>4, <1>5, HeardOf, Zenon

(* None, one and two events *)
LEMMA HeardAlone ==
    /\ Heard(<<>>)
    /\ \A e : UnitsTold(e) => Heard(<<e>>)
    /\ \A d, e : UnitsTold(d) /\ UnitsTold(e) => Heard(<<d, e>>)
<1>1. ASSUME NEW s, s = <<>>  PROVE Heard(s)
  <2>1. s \in Seq({}) /\ \A e \in {} : UnitsTold(e)
    BY <1>1
  <2> QED  BY <2>1 DEF Heard
<1>2. ASSUME NEW e, UnitsTold(e), NEW s, s = <<e>>  PROVE Heard(s)
  <2>1. s \in Seq({e}) /\ \A d \in {e} : UnitsTold(d)
    BY <1>2
  <2> QED  BY <2>1 DEF Heard
<1>3. ASSUME NEW d, NEW e, UnitsTold(d), UnitsTold(e), NEW s, s = <<d, e>>
      PROVE  Heard(s)
  <2>1. s \in Seq({d, e}) /\ \A c \in {d, e} : UnitsTold(c)
    BY <1>3
  <2> QED  BY <2>1 DEF Heard
<1> QED  BY <1>1, <1>2, <1>3, Zenon

(* The event loop takes the first and leaves the others. *)
LEMMA HeardNext ==
    ASSUME NEW s, Heard(s), s # <<>>
    PROVE  UnitsTold(Head(s)) /\ Heard(Tail(s))
<1>1. PICK S : s \in Seq(S) /\ \A e \in S : UnitsTold(e)
  BY DEF Heard
<1>2. Head(s) \in S /\ Tail(s) \in Seq(S)
  BY <1>1
<1> QED  BY <1>1, <1>2, HeardOf

(* Only what is collected tells of units. *)
LEMMA EventTells ==
    \A is, k, n, l : is # "collected" =>
        UnitsTold(Event(is, k, n)) /\ UnitsTold([Event(is, k, n) EXCEPT !.seen = l])
BY DEF UnitsTold, Event

(* The events of a run that tell of units are of orders in the game.       *)
LEMMA EventsTell ==
    /\ \A is, k, n : is # "collected" => UnitsTold(Event(is, k, n))
    /\ \A o \in InGame : UnitsTold(Collected(o))
    /\ \A k, b : UnitsTold([Event("cancelled", k, 0) EXCEPT !.already = b])
    /\ \A done : UnitsTold(Snapshot(done))
<1>1. ASSUME NEW is, NEW k, NEW n, NEW b, NEW l
      PROVE  /\ Event(is, k, n).is = is
             /\ [Event(is, k, n) EXCEPT !.already = b].is = is
             /\ [Event(is, k, n) EXCEPT !.seen = l].is = is
  BY DEF Event
<1>2. \A is, k, n : is # "collected" => UnitsTold(Event(is, k, n))
  BY <1>1, Zenon DEF UnitsTold
<1>3. \A o \in InGame : UnitsTold(Collected(o))
  BY DEF UnitsTold, Event, Collected, InGame
<1>4. \A k, b : UnitsTold([Event("cancelled", k, 0) EXCEPT !.already = b])
  <2>1. "cancelled" # "collected"
    OBVIOUS
  <2> QED  BY <1>1, <2>1, Zenon DEF UnitsTold
<1>5. \A done : UnitsTold(Snapshot(done))
  <2>1. "snapshot" # "collected"
    OBVIOUS
  <2> QED  BY <1>1, <2>1, Zenon DEF UnitsTold, Snapshot
<1> QED  BY <1>2, <1>3, <1>4, <1>5

(* The sales of a session take no more cost than its tracked buys left     *)
(* behind, however events of runs, of the game and of the panel interleave *)
(* (bazaar_tracker.rs:348-385).                                            *)
THEOREM CostIsTakenOnce == BooksSpec => []CostSpentOnce
<1>1. BooksInit => Costed
  <2> SUFFICES ASSUME BooksInit  PROVE Costed
    OBVIOUS
  <2>1. game \subseteq InGame
    <3>1. PICK key \in [1 .. OrdersAtStart -> Keys] :
             game = {[id |-> n, key |-> key[n], fill |-> 0, took |-> 0]
                        : n \in 1 .. OrdersAtStart}
      BY DEF BooksInit
    <3>2. \A n \in 1 .. OrdersAtStart :
             [id |-> n, key |-> key[n], fill |-> 0, took |-> 0] \in InGame
      BY <3>1 DEF InGame
    <3> QED  BY <3>1, <3>2
  <2>2. events = <<>> /\ costs = [i \in Items |-> 1] /\ unspent = costs
    BY DEF BooksInit
  <2>3. placed \in Int
    BY BooksAssumption DEF BooksInit
  <2> QED  BY <2>1, <2>2, <2>3, HeardAlone DEF Costed
<1>2. Costed /\ [BooksNext]_booksVars => Costed'
  <2> SUFFICES ASSUME Costed, [BooksNext]_booksVars  PROVE Costed'
    OBVIOUS
  <2>a. /\ game \subseteq InGame /\ placed \in Int
        /\ Heard(events)
        /\ costs \in [Items -> Int] /\ unspent = costs
    BY DEF Costed
  <2>b. ASSUME game' \subseteq InGame, Heard(events'),
               placed' \in Int, UNCHANGED <<costs, unspent>>
        PROVE  Costed'
    BY <2>a, <2>b DEF Costed
  <2>c. ASSUME NEW es, Heard(es), Send(es)  PROVE Heard(events')
    BY <2>a, <2>c, HeardTogether DEF Send
  <2> USE DEF bookVars, histVars, runVars, gameVars
  <2>1. ASSUME NEW k \in Keys, Place(k)  PROVE Costed'
    <3>1. game' \subseteq InGame
      <4>1. [id |-> placed + 1, key |-> k, fill |-> 0, took |-> 0] \in InGame
        BY <2>a DEF InGame
      <4> QED  BY <2>a, <2>1, <4>1 DEF Place
    <3>2. Heard(events')
      <4>1. Heard(<<Event("placed", k, Units)>>)
        BY HeardAlone, EventsTell
      <4>2. Send(<<Event("placed", k, Units)>>) \/ events' = events
        BY <2>1 DEF Place
      <4> QED  BY <2>a, <2>c, <4>1, <4>2
    <3>3. placed' \in Int /\ UNCHANGED <<costs, unspent>>
      BY <2>a, <2>1 DEF Place
    <3> QED  BY <2>b, <3>1, <3>2, <3>3
  <2>2. ASSUME NEW o \in game, Fill(o)  PROVE Costed'
    <3>1. PICK n \in o.fill + 1 .. Units :
             /\ game' = (game \ {o}) \cup {[o EXCEPT !.fill = n]}
             /\ IF n = Units THEN Send(<<Event("filled", o.key, 0)>>)
                ELSE UNCHANGED events
      BY <2>2 DEF Fill
    <3>2. [o EXCEPT !.fill = n] \in InGame
      <4>1. n \in Nat /\ o \in InGame
        BY <2>a, <3>1 DEF Units, InGame
      <4> QED  BY <4>1 DEF InGame
    <3>3. game' \subseteq InGame
      BY <2>a, <3>1, <3>2, Zenon
    <3>4. Heard(events')
      <4>1. Heard(<<Event("filled", o.key, 0)>>)
        BY HeardAlone, EventsTell
      <4> QED  BY <2>a, <2>c, <3>1, <4>1
    <3>5. placed' \in Int /\ UNCHANGED <<costs, unspent>>
      BY <2>a, <2>2 DEF Fill
    <3> QED  BY <2>b, <3>3, <3>4, <3>5
  <2>3. CASE Start
    <3>1. Heard(<<Snapshot({})>>)
      BY HeardAlone, EventsTell
    <3>2. Heard(events')
      BY <2>3, <2>c, <3>1 DEF Start
    <3> QED  BY <2>a, <2>b, <2>3, <3>2 DEF Start
  <2>4. CASE Leave
    <3>1. Heard(events')
      <4>1. ASSUME NEW o \in game  PROVE Heard(<<Collected(o)>>)
        BY <2>a, HeardAlone, EventsTell
      <4> QED  BY <2>a, <2>c, <2>4, <4>1 DEF Leave
    <3> QED  BY <2>a, <2>b, <2>4, <3>1 DEF Leave
  <2>5. CASE StartupComplete
    <3>1. Heard(<<Event("startup", AnyKey, 0)>>)
      BY HeardAlone, EventsTell
    <3>2. Heard(events')
      BY <2>5, <2>c, <3>1 DEF StartupComplete
    <3> QED  BY <2>a, <2>b, <2>5, <3>2 DEF StartupComplete
  <2>6. ASSUME NEW o \in game, Collect(o)  PROVE Costed'
    <3>1. game' \subseteq InGame
      <4>1. o \in InGame
        BY <2>a
      <4>2. [o EXCEPT !.took = o.fill] \in InGame
        BY <4>1 DEF InGame
      <4>3. game' \in {game \ {o}, (game \ {o}) \cup {[o EXCEPT !.took = o.fill]}}
        BY <2>6, Zenon DEF Collect
      <4> QED  BY <2>a, <4>2, <4>3, Zenon
    <3>2. UnitsTold(Collected(o))
      BY <2>a, EventsTell
    <3>3. UnitsTold(Snapshot({o.key})')
      <4>1. "snapshot" # "collected"
        OBVIOUS
      <4> QED  BY <4>1, EventTells, Zenon DEF Snapshot
    <3>4. Heard(<<Collected(o)>>) /\ Heard(<<Collected(o), Snapshot({o.key})'>>)
      BY <3>2, <3>3, HeardAlone
    <3>5. Heard(events')
      BY <2>6, <2>c, <3>4 DEF Collect
    <3>6. placed' \in Int /\ UNCHANGED <<costs, unspent>>
      BY <2>a, <2>6 DEF Collect
    <3> QED  BY <2>b, <3>1, <3>5, <3>6
  <2>7. ASSUME NEW o \in game, Cancel(o)  PROVE Costed'
    <3>1. PICK c : /\ c = [Event("cancelled", o.key, 0) EXCEPT !.already = Claimable(o)]
                   /\ Send((IF Claimable(o) THEN <<Collected(o)>> ELSE <<>>) \o <<c>>)
      BY <2>7 DEF Cancel
    <3>2. UnitsTold(c)
      BY <3>1 DEF UnitsTold, Event
    <3>3. Heard(IF Claimable(o) THEN <<Collected(o)>> ELSE <<>>)
      BY <2>a, HeardAlone, EventsTell
    <3>4. Heard((IF Claimable(o) THEN <<Collected(o)>> ELSE <<>>) \o <<c>>)
      BY <3>2, <3>3, HeardAlone, HeardTogether
    <3>5. Heard(events')
      BY <2>c, <3>1, <3>4
    <3> QED  BY <2>a, <2>b, <2>7, <3>5 DEF Cancel
  <2>8. CASE Handle
    <3>1. events # <<>> /\ events' = Tail(events) /\ game' = game /\ placed' = placed
      BY <2>8 DEF Handle
    <3>2. Heard(events') /\ UnitsTold(Head(events))
      BY <2>a, <3>1, HeardNext
    <3>3. CASE UNCHANGED <<costs, unspent>>
      BY <2>a, <2>b, <3>1, <3>2, <3>3
    <3>4. CASE Head(events).is = "collected" /\ OnCollected(Head(events))
      <4> DEFINE e == Head(events)
      <4>1. e.units \in Nat /\ e.key[1] \in Items
        BY <3>2, <3>4 DEF UnitsTold, Keys
      <4>2. /\ costs' \in [Items -> Int] /\ unspent' = costs'
        BY <2>a, <3>3, <3>4, <4>1 DEF OnCollected, RecordBuyCost, TakeBuyCost, Costed
      <4> QED  BY <2>a, <3>1, <3>2, <4>2 DEF Costed
    <3> QED  BY <2>8, <3>3, <3>4 DEF Handle, OnFilled, OnCancelled
  <2>9. CASE AskStep
    BY <2>a, <2>b, <2>9 DEF AskStep, CancelAll, CancelOrder
  <2>10. CASE ClockStep
    BY <2>a, <2>b, <2>10 DEF ClockStep, RemoveStaleOrders, Periodic, Expire
  <2>11. CASE UNCHANGED booksVars
    BY <2>a, <2>b, <2>11 DEF booksVars
  <2> QED  BY <2>1, <2>2, <2>3, <2>4, <2>5, <2>6, <2>7, <2>8, <2>9, <2>10, <2>11
           DEF BooksNext, GameStep, RunStep
<1>3. Costed => CostSpentOnce
  BY DEF Costed, CostSpentOnce
<1> QED  BY <1>1, <1>2, <1>3, PTL DEF BooksSpec

=============================================================================
