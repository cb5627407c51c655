------------------------------ MODULE Session --------------------------------
(***************************************************************************)
(* The sessions of the program's accounts: what is carried over a restart  *)
(* of the process, and what is not.  A session's uptime and its profit are *)
(* in two files; a rest break, a switch of the account and the account's   *)
(* index are a marker file each.  The process ends by restarting itself,   *)
(* by being killed, or by a crash, after which it may stay down for long.  *)
(*                                                                         *)
(* A unit of uptime is the minute between two saves.  Of profit only the   *)
(* session it belongs to matters.  One account is named by its number.     *)
(***************************************************************************)
EXTENDS Integers

CONSTANTS
    NumAccounts,    \* the configured ingame names
    SwitchAfter,    \* multi_switch_time, 0 if there is none
    OneAtATime,     \* nothing else ends the process while a switch is under way
    QuietBreaks,    \* nothing ends the process while it waits out a break
    MaxPanel,       \* bound of the model: requests from the panel
    MaxCrashes      \* bound of the model

Accounts == 0 .. NumAccounts - 1
NoOne    == -1
Limit    == SwitchAfter + 1         \* bound of the model: uptime told apart

ASSUME SessionAssumption ==
    /\ NumAccounts \in Nat \ {0} /\ SwitchAfter \in Nat
    /\ OneAtATime \in BOOLEAN /\ QuietBreaks \in BOOLEAN
    /\ MaxPanel \in Nat /\ MaxCrashes \in Nat

VARIABLES
    phase,      \* of the process
    me,         \* the account it runs, or last ran
    index,      \* file: the account to run next
    times,      \* file: the uptime saved for each account, or -1
    profits,    \* file: whether there is a profit saved for each account
    recent,     \* whether the files' entries are within MAX_SESSION_GAP_SECS
    agrees,     \* history: both entries are of one session
    restMark,   \* file: whose rest break is under way, or NoOne
    switchMark, \* file: the account a switch is to, or NoOne
    uptime,     \* of the running session
    carried,    \* its profit includes that of an earlier process
    together,   \* history: uptime and profit began together
    ticked,     \* the process has run for a minute
    paused,     \* macro_paused
    switches,   \* switches under way: the accounts they are to, by who asked
    breakAsked, \* the panel has asked for a break
    resting,    \* history: the break whose time is not over: account and uptime
    asked,      \* panel requests so far
    crashes

files   == <<index, times, profits, recent, agrees>>
process == <<me, uptime, carried, together, ticked, paused, switches, breakAsked>>
sessionVars == <<phase, process, files, restMark, switchMark, resting, asked, crashes>>

None == [who |-> NoOne, up |-> 0]

-----------------------------------------------------------------------------
(* The files *)

SaveElapsed(secs) ==                    \* mutant: what was carried is not saved
    times' = [times EXCEPT ![me] = IF ticked THEN 1 ELSE 0]

SaveSessionTime(secs) == times' = [times EXCEPT ![me] = secs]

SaveProfitStats == profits' = [profits EXCEPT ![me] = TRUE]

(* Both, one right after the other. *)
SaveTotals(secs) ==
    /\ SaveSessionTime(secs) /\ SaveProfitStats
    /\ recent' = [recent EXCEPT ![me] = TRUE]
    /\ agrees' = [agrees EXCEPT ![me] = together]

-----------------------------------------------------------------------------
(* A start of the process *)

AfterBreak == restMark = index
Switched   == switchMark = index
CarryTime   == ~ Switched /\ times[index] >= 0 /\ (recent[index] \/ AfterBreak)

CarryProfit == ~ Switched /\ profits[index] /\ (recent[index] \/ AfterBreak)

(* The marker of a break is deleted before the wait it asks for. *)
Boot ==
    /\ phase \in {"restarting", "down"}
    /\ me' = index
    /\ uptime' = IF CarryTime THEN times[index] ELSE 0
    /\ carried' = CarryProfit
    /\ together' = IF CarryTime /\ CarryProfit THEN agrees[index]
                   ELSE CarryTime = CarryProfit
    /\ ticked' = FALSE /\ paused' = FALSE /\ switches' = {} /\ breakAsked' = FALSE
    /\ switchMark' = IF Switched THEN NoOne ELSE switchMark
    /\ restMark' = NoOne
    /\ phase' = IF AfterBreak /\ resting.who = index THEN "resting" ELSE "up"
    /\ UNCHANGED <<files, resting, asked, crashes>>

(* The sleep for what is left of the break is over. *)
Resume ==
    /\ phase = "resting" /\ resting = None
    /\ phase' = "up"
    /\ UNCHANGED <<process, files, restMark, switchMark, resting, asked, crashes>>

-----------------------------------------------------------------------------
(* A minute of the running process *)

NextAccount(a) == (a + 1) % NumAccounts

TimerDue ==
    /\ NumAccounts > 1 /\ SwitchAfter > 0 /\ uptime >= SwitchAfter
    /\ ~ \E s \in switches : s.by = "timer"

Tick ==
    /\ phase = "up" /\ ~ TimerDue
    /\ LET secs == IF uptime = Limit THEN Limit ELSE uptime + 1
       IN  /\ uptime' = secs
           /\ SaveTotals(secs)
    /\ ticked' = TRUE
    /\ UNCHANGED <<phase, me, carried, together, paused, switches, breakAsked, index,
                   restMark, switchMark, resting, asked, crashes>>

(* The gap to another account's last save, and while the process is down   *)
(* or waits, to that of its own, gets too long.                            *)
GapPasses(a) ==
    /\ recent[a]
    /\ a = me => phase \in {"down", "resting"}
    /\ recent' = [recent EXCEPT ![a] = FALSE]
    /\ UNCHANGED <<phase, process, index, times, profits, agrees, restMark,
                   switchMark, resting, asked, crashes>>

BreakTimeOver ==
    /\ resting # None
    /\ resting' = None
    /\ UNCHANGED <<phase, process, files, restMark, switchMark, asked, crashes>>

-----------------------------------------------------------------------------
(* Rest breaks *)

TakeRestBreak ==
    /\ OneAtATime => switches = {}
    /\ SaveTotals(uptime)
    /\ restMark' = me
    /\ resting' = [who |-> me, up |-> uptime]
    /\ phase' = "restarting"
    /\ UNCHANGED <<process, index, switchMark, asked, crashes>>

(* The scheduled one, after an interval of minutes, and not while paused.  *)
Humanize ==
    /\ phase = "up" /\ ticked /\ ~ paused
    /\ TakeRestBreak

BreakOnDemand ==
    /\ phase = "up" /\ breakAsked
    /\ TakeRestBreak

-----------------------------------------------------------------------------
(* Switches of the account *)

BeginSwitch(to, who) ==
    /\ switchMark' = to
    /\ switches' = switches \cup {[to |-> to, by |-> who]}

(* Between this and the restart the license is transferred, which may take *)
(* seconds, and the other tasks go on.                                     *)
SwitchTimer ==
    /\ phase = "up" /\ TimerDue
    /\ OneAtATime => switches = {}
    /\ times' = [times EXCEPT ![me] = -1]
    /\ BeginSwitch(NextAccount(me), "timer")
    /\ UNCHANGED <<phase, me, uptime, carried, together, ticked, paused, breakAsked,
                   index, profits, recent, agrees, restMark, resting, asked, crashes>>

SwitchAccount(to) ==
    /\ phase \in {"resting", "up"} /\ asked < MaxPanel
    /\ OneAtATime => switches = {}
    /\ QuietBreaks => phase = "up"
    /\ NumAccounts > 1
    /\ asked' = asked + 1
    /\ index' = to
    /\ BeginSwitch(to, "panel")
    /\ UNCHANGED <<phase, me, uptime, carried, together, ticked, paused, breakAsked,
                   times, profits, recent, agrees, restMark, resting, crashes>>

FinishSwitch(s) ==
    /\ s \in switches
    /\ index' = IF s.by = "timer" THEN s.to ELSE index
    /\ phase' = "restarting"
    /\ UNCHANGED <<process, times, profits, recent, agrees, restMark, switchMark,
                   resting, asked, crashes>>

-----------------------------------------------------------------------------
(* The other ends *)

Undisturbed == (OneAtATime => switches = {}) /\ (QuietBreaks => phase # "resting")

(* Reconnect, restart and update save nothing. *)
RestartSession ==
    /\ phase \in {"resting", "up"} /\ Undisturbed /\ asked < MaxPanel
    /\ asked' = asked + 1
    /\ phase' = "restarting"
    /\ UNCHANGED <<process, files, restMark, switchMark, resting, crashes>>

(* A crash, or Kill from the panel. *)
Crash ==
    /\ phase \in {"resting", "up"} /\ Undisturbed /\ crashes < MaxCrashes
    /\ crashes' = crashes + 1
    /\ phase' = "down"
    /\ UNCHANGED <<process, files, restMark, switchMark, resting, asked>>

CtrlC ==
    /\ phase = "up" /\ Undisturbed /\ crashes < MaxCrashes
    /\ crashes' = crashes + 1
    /\ SaveTotals(uptime)
    /\ phase' = "down"
    /\ UNCHANGED <<process, index, restMark, switchMark, resting, asked>>

RestBreakNow ==
    /\ phase \in {"resting", "up"} /\ asked < MaxPanel
    /\ asked' = asked + 1
    /\ breakAsked' = TRUE
    /\ UNCHANGED <<phase, me, uptime, carried, together, ticked, paused, switches,
                   files, restMark, switchMark, resting, crashes>>

PauseMacro ==
    /\ phase = "up" /\ asked < MaxPanel
    /\ asked' = asked + 1
    /\ paused' = ~ paused
    /\ UNCHANGED <<phase, me, uptime, carried, together, ticked, switches, breakAsked,
                   files, restMark, switchMark, resting, crashes>>

-----------------------------------------------------------------------------
SessionInit ==
    /\ phase = "down" /\ me = 0 /\ index = 0
    /\ times = [a \in Accounts |-> -1] /\ profits = [a \in Accounts |-> FALSE]
    /\ recent = [a \in Accounts |-> FALSE] /\ agrees = [a \in Accounts |-> TRUE]
    /\ restMark = NoOne /\ switchMark = NoOne
    /\ uptime = 0 /\ carried = FALSE /\ together = TRUE
    /\ ticked = FALSE /\ paused = FALSE /\ switches = {} /\ breakAsked = FALSE
    /\ resting = None /\ asked = 0 /\ crashes = 0

SessionNext ==
    \/ Boot \/ Resume \/ Tick \/ BreakTimeOver \/ Humanize \/ BreakOnDemand
    \/ SwitchTimer \/ RestartSession \/ Crash \/ CtrlC \/ RestBreakNow \/ PauseMacro
    \/ \E a \in Accounts : GapPasses(a) \/ SwitchAccount(a)
    \/ \E s \in switches : FinishSwitch(s)

(* The process is started again when it is down, by its service or its     *)
(* user; its timers fire, and a break is over some time.                   *)
SessionFairness ==
    /\ WF_sessionVars(Boot) /\ WF_sessionVars(Resume) /\ WF_sessionVars(Tick)
    /\ WF_sessionVars(BreakTimeOver) /\ WF_sessionVars(SwitchTimer)
    /\ WF_sessionVars(\E s \in switches : FinishSwitch(s))

-----------------------------------------------------------------------------
SessionTypeOK ==
    /\ phase \in {"down", "restarting", "resting", "up"}
    /\ me \in Accounts /\ index \in Accounts
    /\ times \in [Accounts -> -1 .. Limit] /\ profits \in [Accounts -> BOOLEAN]
    /\ recent \in [Accounts -> BOOLEAN] /\ agrees \in [Accounts -> BOOLEAN]
    /\ {restMark, switchMark, resting.who} \subseteq Accounts \cup {NoOne}
    /\ uptime \in 0 .. Limit /\ resting.up \in 0 .. Limit
    /\ {carried, together, ticked, paused, breakAsked} \subseteq BOOLEAN
    /\ switches \subseteq [to : Accounts, by : {"timer", "panel"}]

(* A rest break of any length is a pause of the session: the uptime is     *)
(* what it was, so that the breaks do not put off the switch               *)
(* (main.rs:1282-1286, 6818-6819).                                         *)
BreakKeepsSession ==
    phase = "resting" /\ resting # None => uptime >= resting.up

(* Every account has its turn, again and again, with all the rest breaks   *)
(* in between: each break restarts the process before the time is up       *)
(* (main.rs:6652-6654).                                                    *)
EveryAccountPlays == \A a \in Accounts : []<>(phase = "up" /\ me = a)

SessionSpec == SessionInit /\ [][SessionNext]_sessionVars /\ SessionFairness
=============================================================================
