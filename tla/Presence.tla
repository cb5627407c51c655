------------------------------ MODULE Presence -------------------------------
(***************************************************************************)
(* How the bot gets to its island and stays there: the connection and its  *)
(* renewal, the start-up run that each login asks for, and the two guards  *)
(* that bring the bot back, one when the sidebar shows another place, one  *)
(* when no window has opened for long, which in the end restarts the       *)
(* process.  A task holds the client of the connection it was made in:     *)
(* what it sends after that connection has ended reaches nobody.           *)
(*                                                                         *)
(* Time is in three grades: what takes a second or two (packets, chat, a   *)
(* command that only sends) is done before what waits for ten seconds or   *)
(* more (timers, guards, the end of a flow), and that before 15 minutes of *)
(* silence are over.                                                       *)
(***************************************************************************)
EXTENDS Integers, Sequences

CONSTANTS
    Friends,        \* visitfriend: {TRUE}, {FALSE} or both
    Steps,          \* commands of a start-up run, one after the other
    RejoinCap,      \* REJOIN_MAX_ATTEMPTS
    StallMax,       \* STALL_MAX_ATTEMPTS
    MaxDrops,       \* bound of the model: ends of the connection, evacuations
    MaxOutages,     \* bound of the model: maintenances
    MaxLeaves,      \* bound of the model: disconnects asked for by the panel
    MaxCommands     \* bound of the model: commands waiting

ASSUME PresenceAssumption ==
    /\ Friends \subseteq BOOLEAN
    /\ {Steps, MaxDrops, MaxOutages, MaxLeaves} \subseteq Nat
    /\ {RejoinCap, StallMax, MaxCommands} \subseteq Nat \ {0}

Conns    == 1 .. MaxDrops + 1
SkyBlock == {"hub", "own", "friend"}
Places   == SkyBlock \cup {"lobby", "nowhere"}

VARIABLES
    conn,       \* the newest connection of this process, 0 before the first
    online,
    dialing,    \* the reconnect loop is in its delay before start()
    place,      \* where the server has the character
    spawned,    \* an Event::Init is under way
    refusal,    \* "Couldn't warp you" is under way
    down,       \* the server is under maintenance
    joined, teleported,     \* joined_skyblock, teleported_to_island
    timing,     \* skyblock_join_time is set
    starting,   \* startup_in_progress
    mode,       \* bot_state
    timers,     \* sleeping tasks of a login: kind and connection
    runs,       \* for each login, the start-up run claimed for it
    finished,   \* history: logins after which a start-up run began and ended
    driver,     \* the connection whose client command_processor holds
    commands,   \* queue and channel, one sequence
    visiting,   \* go_to_island waits for the window of /visit
    board,      \* the sidebar as last received
    guard, rejoins,         \* the island guard and its attempts in a row
    stall, attempts,        \* the stall guard and its attempts in a row
    silence,    \* since LAST_ACTIVITY_MS: turns of the island guard, or Quiet
    maintenance,            \* MAINTENANCE_UNTIL_MS is in the future
    visits, disabled,       \* visitfriend: configured, DISABLED_FOR_SESSION
    away,       \* disconnect_requested
    drops, outages, leaves

netVars   == <<conn, online, dialing, place, spawned, refusal, down>>
loginVars == <<joined, teleported, timing, timers, runs, finished>>
procVars  == <<driver, commands, visiting>>
guardVars == <<guard, rejoins, stall, attempts>>
friendVars == <<visits, disabled>>
bounds    == <<drops, outages, leaves>>
presenceVars == <<netVars, loginVars, starting, mode, procVars, board, guardVars,
                  silence, maintenance, friendVars, away, bounds>>

Quiet == 3
NoRun == [at |-> "none", bot |-> 0, since |-> 0, left |-> Steps]

(* What a process starts with. *)
Fresh ==
    /\ conn = 0 /\ online = FALSE /\ dialing = TRUE /\ place = "nowhere"
    /\ spawned = FALSE /\ refusal = FALSE
    /\ joined = FALSE /\ teleported = FALSE /\ timing = FALSE
    /\ starting = FALSE /\ mode = "GracePeriod"
    /\ timers = {} /\ runs = [c \in Conns |-> NoRun] /\ finished = {}
    /\ driver = 0 /\ commands = <<>> /\ visiting = FALSE /\ board = "nowhere"
    /\ guard = "watch" /\ rejoins = 0 /\ stall = "watch" /\ attempts = 0
    /\ silence = 0 /\ maintenance = FALSE /\ disabled = FALSE /\ away = FALSE

PresenceInit ==
    /\ Fresh /\ down = FALSE /\ visits \in Friends
    /\ drops = 0 /\ outages = 0 /\ leaves = 0

(* restart_process *)
Restart ==
    /\ conn' = 0 /\ online' = FALSE /\ dialing' = TRUE /\ place' = "nowhere"
    /\ spawned' = FALSE /\ refusal' = FALSE
    /\ joined' = FALSE /\ teleported' = FALSE /\ timing' = FALSE
    /\ starting' = FALSE /\ mode' = "GracePeriod"
    /\ timers' = {} /\ runs' = [c \in Conns |-> NoRun] /\ finished' = {}
    /\ driver' = 0 /\ commands' = <<>> /\ visiting' = FALSE /\ board' = "nowhere"
    /\ guard' = "watch" /\ rejoins' = 0 /\ stall' = "watch" /\ attempts' = 0
    /\ silence' = 0 /\ maintenance' = FALSE /\ disabled' = FALSE /\ away' = FALSE
    /\ UNCHANGED <<down, visits, bounds>>

-----------------------------------------------------------------------------
(* What is sent, and what the server makes of it *)

Friend == visits /\ ~ disabled          \* active_friend

Live(c) == online /\ c = conn

MarkActivity == silence' = 0

(* A change of place is an Init of the client, as some servers make it. *)
Arrive(p) == place' = p /\ spawned' \in {TRUE, spawned}
Stay      == UNCHANGED <<place, spawned>>

(* /play sb is answered by the maintenance line while the server is down. *)
Bounced(c) == Live(c) /\ down
PlaySkyBlock(c) ==
    IF Live(c) /\ place = "lobby" /\ ~ down
    THEN \E p \in {"hub", "own"} : Arrive(p)
    ELSE Stay
Lobby(c) == IF Live(c) THEN Arrive("lobby") ELSE Stay
Is(c)    == IF Live(c) /\ place \in SkyBlock THEN Arrive("own") ELSE Stay

(* note_maintenance, for the line that answers *)
NoteMaintenance(c) == maintenance' = (maintenance \/ Bounced(c))

Enqueue(cmds) == /\ Len(commands) + Len(cmds) <= MaxCommands
                 /\ commands' = commands \o cmds

(* Something is about to be done that takes a second or two. *)
Soon ==
    /\ ~ away
    /\ \/ online /\ (spawned \/ refusal \/ board # place)
       \/ visiting
       \/ commands # <<>> /\ driver # 0 /\ mode # "Busy"
       \/ \E t \in timers : t.is = "play"
       \/ \E l \in Conns : runs[l].at \in {"teleport", "visit", "enter"}

(* A login's timers and its start-up take some minutes. *)
Starting == timers # {} \/ \E l \in Conns : runs[l].at # "none"

-----------------------------------------------------------------------------
(* The connection *)

(* mutant: a start-up under way stays so *)
LoginKeepsStarting ==
    joined' = FALSE /\ teleported' = FALSE /\ timing' = FALSE /\ UNCHANGED starting

(* Event::Login.  The command processor is made for the first login only. *)
(* While the bot is to stay away a login is ended at once.                *)
LoginFlags == joined' = FALSE /\ teleported' = FALSE /\ timing' = FALSE /\ starting' = FALSE

Login ==
    /\ dialing /\ ~ online /\ ~ away
    /\ conn' = conn + 1 /\ conn' \in Conns
    /\ online' = TRUE /\ dialing' = FALSE
    /\ place' = "lobby" /\ spawned' = TRUE
    /\ LoginFlags
    /\ mode' = "GracePeriod"
    /\ timers' = timers \cup {[is |-> "watchdog", bot |-> conn']}
    /\ driver' = IF driver = 0 THEN conn' ELSE driver
    /\ UNCHANGED <<refusal, down, runs, finished, commands, visiting, board, guardVars,
                   silence, maintenance, friendVars, away, bounds>>

(* Event::Init.  Before SkyBlock is joined each asks for it. *)
Spawn ==
    /\ spawned /\ online /\ ~ away
    /\ spawned' = FALSE
    /\ MarkActivity
    /\ IF joined THEN UNCHANGED <<timing, timers>>
       ELSE /\ timing' = TRUE
            /\ timers' = timers \cup {[is |-> k, bot |-> conn] : k \in {"play", "join"}}
    /\ UNCHANGED <<conn, online, dialing, place, refusal, down, joined, teleported, runs,
                   finished, starting, mode, procVars, board, guardVars,
                   maintenance, friendVars, away, bounds>>

(* The connection ends: the loop dials again, unless the bot is to stay away. *)
EndConnection ==
    /\ online' = FALSE /\ dialing' = ~ away
    /\ place' = "nowhere" /\ spawned' = FALSE /\ refusal' = FALSE
    /\ UNCHANGED <<conn, down, loginVars, starting, mode, procVars, board, guardVars,
                   silence, maintenance, friendVars, away>>

Drop ==
    /\ online /\ drops < MaxDrops
    /\ drops' = drops + 1
    /\ UNCHANGED <<outages, leaves>>
    /\ EndConnection

(* enforce_offline, at the next event or command *)
EnforceOffline == away /\ online /\ EndConnection /\ UNCHANGED bounds

(* The panel's Disconnect and Reconnect. *)
Disconnect ==
    /\ ~ away /\ leaves < MaxLeaves
    /\ leaves' = leaves + 1 /\ away' = TRUE
    /\ commands' = <<>> /\ mode' = "Idle"
    /\ UNCHANGED <<netVars, loginVars, starting, driver, visiting, board, guardVars,
                   silence, maintenance, friendVars, drops, outages>>

Reconnect == away /\ Restart

(* The server moves the character, or goes down and comes back. *)
Evacuate ==
    /\ online /\ place # "lobby" /\ drops < MaxDrops
    /\ drops' = drops + 1
    /\ \E p \in {"lobby", "hub"} \ {place} : Arrive(p)
    /\ UNCHANGED <<conn, online, dialing, refusal, down, loginVars, starting, mode, procVars,
                   board, guardVars, silence, maintenance, friendVars, away, outages, leaves>>

GoDown ==
    /\ ~ down /\ outages < MaxOutages
    /\ down' = TRUE /\ outages' = outages + 1
    /\ maintenance' \in {maintenance, maintenance \/ online}      \* announced or not
    /\ UNCHANGED <<conn, online, dialing, place, spawned, refusal, loginVars, starting, mode,
                   procVars, board, guardVars, silence, friendVars, away, drops, leaves>>

ComeUp ==
    /\ down /\ down' = FALSE
    /\ UNCHANGED <<conn, online, dialing, place, spawned, refusal, loginVars, starting, mode,
                   procVars, board, guardVars, silence, maintenance, friendVars, away, bounds>>

(* MAINTENANCE_COOLDOWN_SECS pass. *)
MaintenanceEnds ==
    /\ maintenance /\ maintenance' = FALSE
    /\ UNCHANGED <<netVars, loginVars, starting, mode, procVars, board, guardVars, silence,
                   friendVars, away, bounds>>

(* Scoreboard packets *)
Sidebar ==
    /\ online /\ ~ away /\ board # place
    /\ board' = place
    /\ UNCHANGED <<netVars, loginVars, starting, mode, procVars, guardVars, silence,
                   maintenance, friendVars, away, bounds>>

-----------------------------------------------------------------------------
(* The claim of a login's start-up, and the run *)

(* claim_startup_transition and spawn_startup_after_teleport *)
Claim(c, at) ==
    /\ ~ teleported
    /\ teleported' = TRUE /\ joined' = TRUE
    /\ runs' = [runs EXCEPT ![conn] = [NoRun EXCEPT !.at = at, !.bot = c]]

(* A line of the chat: SkyBlock is joined, or the time to join it is over. *)
ChatLine ==
    /\ online /\ ~ away /\ timing /\ ~ teleported
    /\ Claim(conn, "teleport")
    /\ UNCHANGED <<netVars, timing, timers, finished, starting, mode, procVars, board,
                   guardVars, silence, maintenance, friendVars, away, bounds>>

(* LOBBY_COMMAND_DELAY_SECS after an Init *)
PlayTimer(t) ==
    /\ t.is = "play" /\ timers' = timers \ {t}
    /\ PlaySkyBlock(t.bot) /\ NoteMaintenance(t.bot)
    /\ UNCHANGED <<joined, teleported, runs>>

(* SKYBLOCK_JOIN_TIMEOUT_SECS after an Init *)
JoinTimer(t) ==
    /\ t.is = "join" /\ ~ Soon /\ timers' = timers \ {t}
    /\ \/ Claim(t.bot, "teleport")
       \/ teleported /\ UNCHANGED <<joined, teleported, runs>>
    /\ UNCHANGED <<place, spawned, maintenance>>

(* The watchdog of a login polls for 90 s, then claims itself; if SkyBlock *)
(* was never seen it asks for it once more.                                *)
WatchdogTimer(t) ==
    /\ t.is = "watchdog" /\ ~ Soon /\ timers' = timers \ {t}
    /\ \/ /\ Claim(t.bot, IF joined THEN "teleport" ELSE "retry")
          /\ IF joined THEN Stay /\ UNCHANGED maintenance
             ELSE PlaySkyBlock(t.bot) /\ NoteMaintenance(t.bot)
       \/ teleported /\ Stay /\ UNCHANGED <<joined, teleported, runs, maintenance>>

Timer(t) ==
    /\ t \in timers
    /\ PlayTimer(t) \/ JoinTimer(t) \/ WatchdogTimer(t)
    /\ UNCHANGED <<conn, online, dialing, refusal, down, timing, finished, starting, mode,
                   procVars, board, guardVars, silence, friendVars, away, bounds>>

At(l, at)   == runs' = [runs EXCEPT ![l].at = at]
Finish(l)   == /\ runs' = [runs EXCEPT ![l] = NoRun]
               /\ finished' = finished \cup {runs[l].since}

(* go_to_island: /visit and a click in its window once that is open, or /is. *)
GoHome(c) == IF Friend THEN Stay ELSE Is(c)
Visit(c) ==
    \/ Is(c) /\ UNCHANGED <<refusal, silence>>           \* no window has opened
    \/ /\ Live(c) /\ place \in SkyBlock
       /\ MarkActivity
       /\ \/ Arrive("friend") /\ UNCHANGED refusal
          \/ Stay /\ refusal' = TRUE

Teleport(l) ==
    /\ runs[l].at = "teleport" \/ (runs[l].at = "retry" /\ ~ Soon)
    /\ IF runs[l].at = "retry" THEN Stay /\ At(l, "teleport")
       ELSE GoHome(runs[l].bot) /\ At(l, IF Friend THEN "visit" ELSE "enter")
    /\ UNCHANGED <<refusal, silence, finished, starting, mode, commands>>

VisitClick(l) ==
    /\ runs[l].at = "visit"
    /\ Visit(runs[l].bot) /\ At(l, "enter")
    /\ UNCHANGED <<finished, starting, mode, commands>>

(* run_startup_workflow: one at a time, by the flag. *)
Enter(l) ==
    /\ runs[l].at = "enter"
    /\ IF starting THEN runs' = [runs EXCEPT ![l] = NoRun] /\ UNCHANGED starting
       ELSE /\ starting' = TRUE
            /\ runs' = [runs EXCEPT ![l].at = "wait", ![l].since = conn]
    /\ UNCHANGED <<place, spawned, refusal, silence, finished, mode, commands>>

(* It waits for a free bot, for STARTUP_ENTRY_TIMEOUT_SECS at most ... *)
Await(l) ==
    /\ ~ Soon /\ runs[l].at = "wait"
    /\ \/ mode \in {"GracePeriod", "Idle"} /\ At(l, "step") /\ UNCHANGED <<finished, starting>>
       \/ mode \notin {"GracePeriod", "Idle"} /\ Finish(l) /\ starting' = FALSE
    /\ UNCHANGED <<place, spawned, refusal, silence, mode, commands>>

(* ... and for each of its commands until that is done or its time is over. *)
Step(l) ==
    /\ ~ Soon /\ runs[l].at = "step" /\ runs[l].left > 0
    /\ runs' = [runs EXCEPT ![l].left = @ - 1]
    /\ Enqueue(<<"step">>)
    /\ UNCHANGED <<place, spawned, refusal, silence, finished, starting, mode>>

(* StartupComplete *)
Complete(l) ==
    /\ ~ Soon /\ runs[l].at = "step" /\ runs[l].left = 0
    /\ Finish(l)
    /\ mode' = "Idle" /\ starting' = FALSE
    /\ MarkActivity
    /\ UNCHANGED <<place, spawned, refusal, commands>>

Run(l) ==
    /\ \/ Teleport(l) \/ VisitClick(l) \/ Enter(l) \/ Await(l) \/ Step(l) \/ Complete(l)
    /\ UNCHANGED <<conn, online, dialing, down, joined, teleported, timing, timers,
                   driver, visiting, board, guardVars, maintenance, friendVars, away, bounds>>

-----------------------------------------------------------------------------
(* The commands: those of the guards, of the start-up run, and other work *)

OfStartup == {"step"}

(* The gate of a start-up under way completes what is not its own. *)
Gate ==
    /\ commands # <<>> /\ starting /\ Head(commands) \notin OfStartup
    /\ ~ visiting /\ mode # "Busy"
    /\ commands' = Tail(commands)
    /\ UNCHANGED <<place, spawned, mode, silence, maintenance, visiting>>

Execute ==
    /\ commands # <<>> /\ driver # 0 /\ ~ visiting /\ mode # "Busy" /\ ~ away
    /\ starting => Head(commands) \in OfStartup
    /\ commands' = Tail(commands)
    /\ LET c == Head(commands)
       IN  CASE c = "/lobby" -> /\ Lobby(driver)
                                /\ UNCHANGED <<mode, silence, maintenance, visiting>>
             [] c = "/play sb" -> /\ PlaySkyBlock(driver) /\ NoteMaintenance(driver)
                                  /\ UNCHANGED <<mode, silence, visiting>>
             [] c = "GoToIsland" -> /\ GoHome(driver) /\ visiting' = Friend
                                    /\ UNCHANGED <<mode, silence, maintenance>>
             [] OTHER -> /\ mode' = "Busy"
                         /\ IF Live(driver) THEN MarkActivity ELSE UNCHANGED silence
                         /\ Stay /\ UNCHANGED <<maintenance, visiting>>

Click ==
    /\ visiting /\ visiting' = FALSE
    /\ Visit(driver)
    /\ UNCHANGED <<commands, mode, maintenance>>

(* A flow ends by its windows, its watchdog or its deadline. *)
Rest ==
    /\ mode = "Busy" /\ mode' = "Idle"
    /\ UNCHANGED <<place, spawned, commands, silence, maintenance, visiting>>

Processor ==
    /\ \/ Click
       \/ (Gate \/ Execute \/ Rest) /\ UNCHANGED refusal
    /\ UNCHANGED <<conn, online, dialing, down, loginVars, starting, driver, board, guardVars,
                   friendVars, away, bounds>>

(* A flip, an order or a claim arrives and is executed. *)
Work ==
    /\ mode = "Idle" /\ ~ starting /\ online /\ ~ away
    /\ commands = <<>> /\ ~ visiting
    /\ mode' = "Busy"
    /\ IF Live(driver) THEN MarkActivity ELSE UNCHANGED silence
    /\ UNCHANGED <<netVars, loginVars, starting, procVars, board, guardVars, maintenance,
                   friendVars, away, bounds>>

(* mutant: the friend is tried again *)
KeepVisiting == UNCHANGED disabled

(* The line of a refused visit, at most 20 s after the /visit *)
Disable == disabled' = TRUE

Refused ==
    /\ refusal /\ refusal' = FALSE
    /\ IF Friend THEN Disable /\ Enqueue(<<"GoToIsland">>)
       ELSE UNCHANGED <<disabled, commands>>
    /\ UNCHANGED <<conn, online, dialing, place, spawned, down, loginVars, starting, mode,
                   driver, visiting, board, guardVars, silence, maintenance, visits, away, bounds>>

-----------------------------------------------------------------------------
(* The guards *)

(* "Your Island", or any island while the friend's is the home *)
Home(b) == b = "own" \/ (Friend /\ b = "friend")

Calm == ~ away /\ ~ maintenance /\ mode = "Idle"

(* A turn every 10 s, a sequence or a back-off of 5 minutes at most: there *)
(* are two turns at least in 15 minutes of silence.                        *)
GuardWatch ==
    /\ guard = "watch"
    /\ silence' = IF silence < Quiet - 1 /\ (board = place \/ ~ online) THEN silence + 1
                  ELSE silence
    /\ IF ~ Calm \/ Home(board)
       THEN rejoins' = 0 /\ UNCHANGED <<guard, commands>>
       ELSE /\ board # "nowhere"
            /\ rejoins' = IF rejoins + 1 >= RejoinCap THEN 1 ELSE rejoins + 1
            /\ IF rejoins' > 1 THEN guard' = "backoff" /\ UNCHANGED commands
               ELSE guard' = "lobby" /\ Enqueue(<<"/lobby">>)

(* An empty sidebar tells nothing. *)
GuardSkips ==
    /\ guard = "watch" /\ Calm /\ board = "nowhere"
    /\ silence' = IF silence < Quiet - 1 /\ ~ online THEN silence + 1 ELSE silence
    /\ UNCHANGED <<rejoins, guard, commands>>

GuardActs ==
    /\ UNCHANGED <<rejoins, silence>>
    /\ \/ guard = "backoff" /\ guard' = "lobby" /\ Enqueue(<<"/lobby">>)
       \/ /\ guard \in {"lobby", "play"} /\ mode # "Idle"
          /\ guard' = "watch" /\ UNCHANGED commands
       \/ guard = "lobby" /\ mode = "Idle" /\ guard' = "play" /\ Enqueue(<<"/play sb">>)
       \/ guard = "play" /\ mode = "Idle" /\ guard' = "settle" /\ Enqueue(<<"GoToIsland">>)
       \/ guard = "settle" /\ guard' = "watch" /\ UNCHANGED commands

IslandGuard ==
    /\ ~ Soon
    /\ GuardWatch \/ GuardSkips \/ GuardActs
    /\ UNCHANGED <<netVars, loginVars, starting, mode, driver, visiting, board, stall, attempts,
                   maintenance, friendVars, away, bounds>>

(* STALL_THRESHOLD_SECS are over: the checks meanwhile found it quiet for *)
(* less.                                                                  *)
Silent ==
    /\ ~ Starting /\ silence = Quiet - 1 /\ stall = "watch" /\ attempts = 0
    /\ silence' = Quiet
    /\ UNCHANGED <<netVars, loginVars, starting, mode, procVars, board, guardVars, maintenance,
                   friendVars, away, bounds>>

Alive == away \/ maintenance \/ silence < Quiet

(* mutant: a soft recovery is taken for a success *)
ForgetAttempts == 1

(* The attempts since the last sign of life *)
Attempt == attempts + 1

StallWatch ==
    /\ stall = "watch"
    /\ IF Alive
       THEN attempts' = 0 /\ UNCHANGED <<stall, commands>>
       ELSE /\ Attempt < StallMax
            /\ attempts' = Attempt
            /\ stall' = "lobby" /\ Enqueue(<<"/lobby">>)

StallActs ==
    /\ UNCHANGED attempts
    /\ \/ stall = "lobby" /\ stall' = "play" /\ Enqueue(<<"/play sb">>)
       \/ stall = "play" /\ stall' = "grace" /\ Enqueue(<<"GoToIsland">>)
       \/ stall = "grace" /\ stall' = "watch" /\ UNCHANGED commands

StallGuard ==
    /\ StallWatch \/ StallActs
    /\ UNCHANGED <<netVars, loginVars, starting, mode, driver, visiting, board, guard, rejoins,
                   silence, maintenance, friendVars, away, bounds>>

GiveUp ==
    /\ stall = "watch" /\ ~ Alive /\ ~ spawned /\ Attempt >= StallMax
    /\ Restart

-----------------------------------------------------------------------------
Resume ==
    \/ Login \/ Spawn \/ EnforceOffline \/ ComeUp \/ MaintenanceEnds \/ Sidebar
    \/ \E t \in timers : Timer(t)
    \/ \E l \in Conns : Run(l)
    \/ Processor \/ Refused \/ IslandGuard \/ Silent \/ StallGuard \/ GiveUp

PresenceNext ==
    \/ Resume
    \/ ChatLine \/ Drop \/ Disconnect \/ Reconnect \/ Evacuate \/ GoDown \/ Work

PresenceFairness ==
    /\ WF_presenceVars(Login) /\ WF_presenceVars(Spawn) /\ WF_presenceVars(ComeUp)
    /\ WF_presenceVars(MaintenanceEnds) /\ WF_presenceVars(Sidebar)
    /\ WF_presenceVars(\E t \in timers : Timer(t))
    /\ WF_presenceVars(\E l \in Conns : Run(l))
    /\ WF_presenceVars(Processor) /\ WF_presenceVars(Refused)
    /\ WF_presenceVars(IslandGuard)
    /\ WF_presenceVars(Silent) /\ WF_presenceVars(StallGuard \/ GiveUp)

PresenceSpec == PresenceInit /\ [][PresenceNext]_presenceVars /\ PresenceFairness

-----------------------------------------------------------------------------
PresenceTypeOK ==
    /\ conn \in {0} \cup Conns /\ driver \in {0} \cup Conns
    /\ place \in Places /\ board \in Places
    /\ timers \subseteq [is : {"play", "join", "watchdog"}, bot : Conns]
    /\ Len(commands) <= MaxCommands
    /\ silence \in 0 .. Quiet /\ rejoins \in 0 .. RejoinCap /\ attempts \in 0 .. StallMax

(* A login that lasts gets its start-up: a run that began after it, of     *)
(* whatever claim, ends, though a run of an earlier login may be under way *)
(* with the flag set (bot/client.rs:2631); and the process is not given up *)
(* for silence before that.                                                *)
StartedUp(l) == \E s \in finished : s >= l
StartupComes ==
    /\ \A l \in Conns : conn = l /\ online ~> StartedUp(l) \/ ~ online \/ away
    /\ [][conn' = 0 /\ online /\ ~ away => StartedUp(conn)]_presenceVars

(* The bot always comes to have a command processor whose client is        *)
(* connected, at least by a restart of the process, unless it is to stay   *)
(* away: after a reconnection the processor holds the client of the        *)
(* connection that has ended.                                              *)
Served == online /\ driver = conn
ServesAgain == []<>(away \/ Served)

(* A bot that is let alone comes home, whoever moved it and whatever the   *)
(* friend answers.                                                         *)
AtHome == online /\ Home(place)
ComesHome == []<>(away \/ AtHome \/ mode = "Busy")
=============================================================================
