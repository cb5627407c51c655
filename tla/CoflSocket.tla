------------------------------ MODULE CoflSocket ------------------------------
(***************************************************************************)
(* The connections to COFL and to the private flip finder, and how their   *)
(* messages become one stream of events (websocket/client.rs:15-676,       *)
(* main.rs:1571-1815).                                                     *)
(*                                                                         *)
(* One task reads each COFL socket; it keeps two process-wide flags, the   *)
(* session is signed in and COFL has asked to sign in, and sends events to *)
(* a channel of its socket.  A forwarder per socket drops flips another    *)
(* socket has announced before and passes the rest on to agg, which the    *)
(* event loop reads (CoflEvents).  A region switch repoints the primary    *)
(* socket while all this goes on.                                          *)
(*                                                                         *)
(* The flags are set before the events are sent: an event in the inbox may *)
(* be one that is about to be sent.  That a connection is closed or opened *)
(* is told to the panel; that text is left out.                            *)
(***************************************************************************)
EXTENDS Integers, Sequences, SequencesExt, FiniteSets

CONSTANTS
    Primary, Extras,    \* sockets to COFL: the configured one, multisocket_urls
    Feeds,              \* sockets to the private finder
    Hosts, FirstHost,   \* of COFL
    Uuids,              \* of auctions
    Kinds,              \* of each socket: other messages COFL sends, [is, about]
    Rare,               \* bound of the model: kinds that count twice
    Breaking,           \* bound of the model: sockets that lose connections
    SeenCap,            \* SEEN_FLIPS_CAP, 512 in the code
    MaxMessages         \* bound of the model: messages read

CoflSockets == {Primary} \cup Extras

ASSUME SocketAssumption ==
    /\ Primary \notin Extras /\ Feeds \cap CoflSockets = {}
    /\ FirstHost \in Hosts /\ Breaking \subseteq CoflSockets
    /\ SeenCap \in Nat \ {0} /\ MaxMessages \in Nat

VARIABLES
    conn,       \* of each socket: connected or not
    host,       \* the primary socket is, or was last, connected to
    url,        \* full_url: where it is to connect
    bump,       \* switch_tx was bumped and the read task has not seen it
    session,    \* of each socket, COFL's view: signed in or not
    loggedIn,   \* COFL_LOGGED_IN
    linkShown,  \* COFL_AUTH_LINK_SHOWN
    inbox,      \* of each socket: events not yet forwarded
    seen,       \* uuids, oldest first: the FIFO of flip_already_seen
    agg,        \* the events for the event loop
    sent,       \* messages read so far
    asked,      \* history: COFL asked to sign in since the last switch
    resets,     \* history: region switches carried out
    seenLog     \* history: every uuid that was new when a flip came

linkVars  == <<conn, host, url, bump, session>>
authVars  == <<loggedIn, linkShown, asked, resets>>
flowVars  == <<inbox, seen, agg, sent, seenLog>>
socketVars == <<linkVars, authVars, flowVars>>

(* An event carries, for the properties, how many switches had been made   *)
(* and whether COFL had asked to sign in when it was read.                 *)
Event(is, about, own) ==
    [is |-> is, about |-> about, own |-> own, at |-> resets, asked |-> asked]

Authenticated == Event("Authenticated", "", FALSE)

-----------------------------------------------------------------------------
(* COFL, as far as the code relies on it *)

(* Flips and recommendations go to signed-in sessions only.                *)
Pushed == {"flip", "bazaarFlip"}

Messages(s) ==
    LET flips == {[is |-> "flip", about |-> u] : u \in Uuids}
        all   == flips \cup Kinds[s] \cup {[is |-> "loggedIn", about |-> ""],
                                        [is |-> "authmod", about |-> ""]}
    IN  {m \in all : /\ m.is \in Pushed \cup {"loggedIn"} => session[s] = "in"
                     /\ m.is = "authmod" => session[s] = "out"}

(* The user follows the link. *)
SignIn(s) ==
    /\ session[s] = "out" /\ asked
    /\ session' = [session EXCEPT ![s] = "in"]
    /\ UNCHANGED <<conn, host, url, bump, authVars, flowVars>>

-----------------------------------------------------------------------------
(* The read task of a COFL socket: handle_message *)

(* note_authenticated_traffic: a flip proves that the session is signed in,*)
(* unless COFL has asked to sign in.                                       *)
Notes(m) == m.is \in Pushed /\ ~ linkShown /\ ~ loggedIn

Events(m) ==
    (IF Notes(m) THEN <<Authenticated>> ELSE <<>>) \o
    CASE m.is = "loggedIn" -> <<Authenticated>>
      [] m.is = "authmod"  -> <<Event("ChatMessage", "link", FALSE)>>
      [] m.is = "finderFlip" -> <<Event("flip", m.about, TRUE)>>
      [] OTHER             -> <<Event(m.is, m.about, FALSE)>>

Read(s) ==
    /\ conn[s] = "up"
    /\ \E m \in Messages(s) :
          /\ sent' = sent + (IF m \in Rare THEN 2 ELSE 1)
          /\ sent' <= MaxMessages
          /\ loggedIn' = (loggedIn \/ Notes(m) \/ m.is = "loggedIn")
          /\ linkShown' = (linkShown \/ m.is = "authmod")
          /\ asked' = (asked \/ m.is = "authmod")
          /\ inbox' = [inbox EXCEPT ![s] = @ \o Events(m)]
    /\ UNCHANGED <<linkVars, resets, seen, agg, seenLog>>

(* The connection is closed, by COFL or by an error. *)
Drop(s) ==
    /\ s \in Breaking
    /\ conn[s] = "up"
    /\ conn' = [conn EXCEPT ![s] = "down"]
    /\ UNCHANGED <<host, url, bump, session, authVars, flowVars>>

(* The read task sees the bump and leaves the connection. *)
LeaveRegion ==
    /\ bump /\ conn[Primary] = "up"
    /\ bump' = FALSE
    /\ conn' = [conn EXCEPT ![Primary] = "down"]
    /\ UNCHANGED <<host, url, session, authVars, flowVars>>

ReconnectAsBefore(s) ==                 \* mutant: the URL it had
    /\ conn[s] = "down"
    /\ conn' = [conn EXCEPT ![s] = "up"]
    /\ \E known \in {"in", "out"} : session' = [session EXCEPT ![s] = known]
    /\ UNCHANGED <<host, url, bump, authVars, flowVars>>

(* The URL is read again at every attempt; the host may or may not know    *)
(* the session.  A failed attempt is tried again after 5 to 60 s.          *)
Reconnect(s) ==
    /\ conn[s] = "down"
    /\ conn' = [conn EXCEPT ![s] = "up"]
    /\ host' = IF s = Primary THEN url ELSE host
    /\ \E known \in {"in", "out"} : session' = [session EXCEPT ![s] = known]
    /\ UNCHANGED <<url, bump, authVars, flowVars>>

-----------------------------------------------------------------------------
(* switch_region, in a task of its own *)

ResetLoginOnly ==                       \* mutant: the link stays shown
    loggedIn' = FALSE /\ UNCHANGED linkShown

ResetAuth == loggedIn' = FALSE /\ linkShown' = FALSE

SwitchRegion(h) ==
    /\ url' = h
    /\ ResetAuth
    /\ asked' = FALSE
    /\ resets' = resets + 1
    /\ bump' = TRUE
    /\ UNCHANGED <<conn, host, session, flowVars>>

-----------------------------------------------------------------------------
(* The forwarders *)

SeenUpTo(u, cap) ==
    /\ seenLog' = Append(seenLog, u)
    /\ seen' = IF Len(seen) + 1 > cap THEN Tail(Append(seen, u))
               ELSE Append(seen, u)

NewForgets(u) ==                        \* mutant: off by one
    u \notin ToSet(seen) /\ SeenUpTo(u, SeenCap - 1)
(* flip_already_seen said no, and remembers the uuid. *)
New(u) == u \notin ToSet(seen) /\ SeenUpTo(u, SeenCap)
Known(u) == u \in ToSet(seen) /\ UNCHANGED <<seen, seenLog>>

(* A duplicate is dropped. *)
DropDuplicate(e) == e.is = "flip" /\ Known(e.about) /\ UNCHANGED agg
Pass(e) ==
    /\ IF e.is = "flip" THEN New(e.about) ELSE UNCHANGED <<seen, seenLog>>
    /\ agg' = Append(agg, e)

(* Only flips and the sign-in count from the extra sockets. *)
Ignore(s, e) ==
    /\ s \in Extras /\ e.is \notin {"flip", "Authenticated"}
    /\ UNCHANGED <<seen, seenLog, agg>>

Forward(s) ==
    /\ inbox[s] # <<>>
    /\ LET e == Head(inbox[s])
       IN  \/ DropDuplicate(e)
           \/ Ignore(s, e)
           \/ (s \in Extras => e.is \in {"flip", "Authenticated"}) /\ Pass(e)
    /\ inbox' = [inbox EXCEPT ![s] = Tail(@)]
    /\ UNCHANGED <<linkVars, authVars, sent>>

(* A flip of the finder is looked up before it is known to name a price.   *)
FeedFlip ==
    /\ sent < MaxMessages
    /\ sent' = sent + 1
    /\ \E u \in Uuids :
          \/ Known(u) /\ UNCHANGED agg
          \/ New(u) /\ agg' = Append(agg, Event("flip", u, TRUE))
          \/ New(u) /\ UNCHANGED agg
    /\ UNCHANGED <<linkVars, authVars, inbox>>

-----------------------------------------------------------------------------
SocketInit ==
    /\ conn = [s \in CoflSockets |-> "up"]
    /\ host = FirstHost /\ url = FirstHost /\ bump = FALSE
    /\ session \in [CoflSockets -> {"in", "out"}]
    /\ loggedIn = FALSE /\ linkShown = FALSE
    /\ inbox = [s \in CoflSockets |-> <<>>]
    /\ seen = <<>> /\ agg = <<>> /\ sent = 0
    /\ asked = FALSE /\ resets = 0 /\ seenLog = <<>>

SocketNext ==
    \/ \E s \in CoflSockets : \/ SignIn(s) \/ Read(s) \/ Drop(s)
                              \/ Reconnect(s) \/ Forward(s)
    \/ LeaveRegion
    \/ Feeds # {} /\ FeedFlip
=============================================================================
