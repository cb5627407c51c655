------------------------------- MODULE Settings -------------------------------
(***************************************************************************)
(* config.toml and those who change it while the bot runs: the requests of *)
(* the panel (web/server.rs), each a task on a thread of its own, and the  *)
(* Discord id that the backend sends (backend/mod.rs).  All go through one *)
(* ConfigLoader (config/loader.rs), which has no lock: load() reads the    *)
(* file and writes it back, save() truncates it and then writes, and what  *)
(* changes a setting does both.                                            *)
(*                                                                         *)
(* Of the settings there are: `ah`, which the running bot has as a flag of *)
(* its own; the password, of which the panel has a copy; the owner's       *)
(* Discord id; the COFL session, which the panel never sees.               *)
(***************************************************************************)
EXTENDS Integers

CONSTANTS
    Parallel,       \* requests come while others are under way
    MaxRequests,    \* bound of the model: requests
    MaxRestarts     \* bound of the model: restarts of the bot

ASSUME SettingsAssumption == Parallel \in BOOLEAN /\ {MaxRequests, MaxRestarts} \subseteq Nat

Passwords == 1 .. 2         \* chosen by the user; 0 is one that load() generates
Sessions  == 0 .. MaxRestarts + 1       \* 0 for no session

Config ==
    [ah : BOOLEAN, password : {0} \cup Passwords, owner : BOOLEAN, session : Sessions]

Torn   == [torn |-> TRUE]       \* truncated, or partly written
Broken == [broken |-> TRUE]     \* one write over another, longer one

(* What an empty file is read as. *)
Default == [ah |-> TRUE, password |-> 0, owner |-> FALSE, session |-> 0]

VARIABLES
    file,       \* config.toml
    flag,       \* enable_ah_flips, which the bot goes by
    panel,      \* the panel's password
    tasks,      \* [n, kind, set, at, config]
    page,       \* what the panel shows: the settings as last got
    asked,      \* history: what every setting was last set to
    requests, restarts

settingsVars == <<file, flag, panel, tasks, page, asked, requests, restarts>>

Visible(c) == [ah |-> c.ah, password |-> c.password, owner |-> c.owner]
With(c, set) == [k \in DOMAIN c |-> IF k \in DOMAIN set THEN set[k] ELSE c[k]]

Rest == tasks = {}
-----------------------------------------------------------------------------
Request(kind, set) ==
    /\ requests < MaxRequests /\ (Parallel \/ Rest)
    /\ requests' = requests + 1
    /\ tasks' = tasks \cup {[n |-> requests', kind |-> kind, set |-> set, at |-> "load",
                             config |-> Default]}
    /\ asked' = With(asked, set)
    /\ UNCHANGED <<file, panel, page, restarts>>

Nothing == <<>>
Edits   == {[ah |-> v] : v \in BOOLEAN} \cup {[password |-> p] : p \in Passwords}

GetConfig      == Request("get", Nothing) /\ UNCHANGED flag
ToggleAh(v)    == Request("toggle", [ah |-> v]) /\ flag' = v
SavePatch(set) == Request("patch", set) /\ UNCHANGED flag
SavePage(set)  == Request("page", With(page, set)) /\ UNCHANGED flag
SetDiscordId   == Request("owner", [owner |-> TRUE]) /\ UNCHANGED flag

(* "toggle_ah" of the backend is not written to the file. *)
BackendToggle ==
    /\ requests < MaxRequests /\ requests' = requests + 1 /\ flag' = ~ flag
    /\ UNCHANGED <<file, panel, tasks, page, asked, restarts>>

-----------------------------------------------------------------------------
Becomes(t, u) == tasks' = (tasks \ {t}) \cup {u}
To(t, at)     == Becomes(t, [t EXCEPT !.at = at])

(* A saved page or patch sets the flag of the running bot before the file. *)
Applies(t) == t.kind \in {"patch", "page"}
Flagged(t, c) == flag' = IF Applies(t) THEN c.ah ELSE flag

(* What cannot be loaded ends the task, or has no session to keep. *)
Unreadable(t) ==
    /\ IF t.kind = "page"
          THEN LET c == With(Default, t.set)
               IN  Becomes(t, [t EXCEPT !.config = c, !.at = "save"]) /\ Flagged(t, c)
          ELSE tasks' = tasks \ {t} /\ UNCHANGED flag

Load(t) ==
    /\ t.at = "load"
    /\ \/ /\ file \in {Torn, Broken} /\ Unreadable(t)
       \/ /\ file # Broken /\ UNCHANGED flag
          /\ Becomes(t, [t EXCEPT !.config = IF file = Torn THEN Default ELSE file,
                                  !.at = "heal"])
    /\ UNCHANGED <<file, panel, page, asked, requests, restarts>>

WithoutSessions(t) == With([t.config EXCEPT !.session = 0], t.set)    \* mutant

Changed(t) == With(t.config, t.set)

Change(t) ==
    /\ t.at = "change"
    /\ Becomes(t, [t EXCEPT !.config = Changed(t), !.at = "save"])
    /\ Flagged(t, Changed(t))
    /\ UNCHANGED <<file, panel, page, asked, requests, restarts>>

Truncate(t) ==
    /\ t.at \in {"heal", "save"}
    /\ To(t, IF t.at = "heal" THEN "healing" ELSE "saving")
    /\ file' = Torn
    /\ UNCHANGED <<flag, panel, page, asked, requests, restarts>>

Written(t) == file' \in {t.config} \cup IF file = Torn THEN {} ELSE {Broken}

Heal(t) ==
    /\ t.at = "healing" /\ Written(t)
    /\ IF t.kind = "get"
          THEN tasks' = tasks \ {t} /\ page' = Visible(t.config)
          ELSE To(t, "change") /\ UNCHANGED page
    /\ UNCHANGED <<flag, panel, asked, requests, restarts>>

Save(t) ==
    /\ t.at = "saving" /\ Written(t)
    /\ tasks' = tasks \ {t}
    /\ panel' = IF Applies(t) THEN t.config.password ELSE panel
    /\ UNCHANGED <<flag, page, asked, requests, restarts>>

(* The process ends and starts again, and makes itself a session if it has *)
(* none.  It does not start with a file it cannot read.                    *)
RestartBot ==
    /\ restarts < MaxRestarts /\ (Parallel \/ Rest)
    /\ restarts' = restarts + 1
    /\ file # Broken
    /\ LET c == IF file = Torn THEN Default ELSE file
       IN  /\ file' = IF c.session = 0 THEN [c EXCEPT !.session = restarts' + 1] ELSE c
           /\ flag' = c.ah /\ panel' = c.password
    /\ tasks' = {}
    /\ UNCHANGED <<page, asked, requests>>

SettingsInit ==
    /\ file = [ah |-> TRUE, password |-> 1, owner |-> FALSE, session |-> 1]
    /\ flag = TRUE /\ panel = 1
    /\ tasks = {} /\ page = Visible(file) /\ asked = file
    /\ requests = 0 /\ restarts = 0

SettingsNext ==
    \/ GetConfig \/ SetDiscordId \/ BackendToggle
    \/ \E v \in BOOLEAN : ToggleAh(v)
    \/ \E set \in Edits : SavePatch(set) \/ SavePage(set)
    \/ \E t \in tasks : Load(t) \/ Truncate(t) \/ Heal(t) \/ Change(t) \/ Save(t)
    \/ RestartBot

SettingsSpec == SettingsInit /\ [][SettingsNext]_settingsVars
-----------------------------------------------------------------------------
SettingsTypeOK ==
    /\ file \in Config \cup {Torn, Broken} /\ asked \in Config
    /\ flag \in BOOLEAN /\ panel \in {0} \cup Passwords
    /\ \A t \in tasks : t.config \in Config

(* When nothing is under way the file has every setting as it was last set *)
(* and the session of the start, and the panel its password: a patch "only *)
(* carries what the user actually edited, so unknown, unedited and         *)
(* server-managed fields are preserved by construction"                    *)
(* (web/server.rs:2429-2431).                                              *)
SettingsKept == Rest => file = asked /\ panel = file.password

(* Whatever is under way, the account stays signed in: the panel's changes *)
(* are made so that "saving from the panel never wipes the user's          *)
(* authenticated COFL sessions" (web/server.rs:2508-2509).                 *)
SessionsStay == Rest => file = Broken \/ file.session = 1
=============================================================================
