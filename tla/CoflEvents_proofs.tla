-------------------------- MODULE CoflEvents_proofs --------------------------
(***************************************************************************)
(* Proofs about CoflEvents: for any number of sockets, hosts and auctions, *)
(* any messages of the types the read tasks know, and any size of the      *)
(* memory of flips.                                                        *)
(***************************************************************************)
EXTENDS CoflEvents, SequenceFacts, FiniteSetTheorems

-----------------------------------------------------------------------------
(* Nobody is refused without a reason *)

Nouns  == Uuids \cup {"", "link"}
             \cup UNION {{m.about : m \in Kinds[s]} : s \in CoflSockets}
Verbs  == (Handled \ {"finderFlip"}) \cup {"flip", "Authenticated"}
AnyEvent == [is : Verbs, about : Nouns, own : BOOLEAN, at : Nat, asked : BOOLEAN]

(* A flip of COFL that came although COFL had not asked to sign in shows   *)
(* that the session is signed in.                                          *)
Telling(e) == e.is = "flip" /\ ~ e.own /\ ~ e.asked

(* The events that may be in a channel: after one that tells, the flag is  *)
(* set until a region switch clears it.                                    *)
Sound == {e \in AnyEvent : /\ e.at <= resets
                           /\ Telling(e) => e.at < resets \/ loggedIn}

(* The event the loop holds was received after the self-heal. *)
HeldSound ==
    \/ at = Waiting
    \/ /\ at \in AnyEvent /\ at.at <= resets
       /\ Telling(at) => at.at < resets \/ authenticated

Channels ==
    /\ resets \in Nat /\ {loggedIn, linkShown, asked, authenticated} \subseteq BOOLEAN
    /\ linkShown => asked
    /\ inbox \in [CoflSockets -> Seq(Sound)]
    /\ agg \in Seq(Sound) /\ refused \subseteq AnyEvent
    /\ HeldSound

(* What is in the channels stays sound while the flag is not cleared, and  *)
(* when it is, the switches count.                                         *)
LEMMA SoundStays ==
    ASSUME Channels, resets' \in Nat,
           \/ resets' = resets /\ (loggedIn => loggedIn')
           \/ resets' = resets + 1
    PROVE  /\ Sound \subseteq Sound'
           /\ inbox \in [CoflSockets -> Seq(Sound')] /\ agg \in Seq(Sound')
<1>1. Sound \subseteq Sound'
  BY DEF Sound, Channels, AnyEvent
<1>2. \A q \in Seq(Sound) : q \in Seq(Sound')
  BY <1>1, SeqMonotonic
<1> QED  BY <1>1, <1>2 DEF Channels

(* What an event says of itself. *)
LEMMA EventTyped ==
    ASSUME Channels, NEW is \in Verbs, NEW about \in Nouns, NEW own \in BOOLEAN,
           NEW e, e = Event(is, about, own)
    PROVE  /\ e \in AnyEvent /\ e.is = is /\ e.own = own
           /\ e.at = resets /\ e.asked = asked
BY DEF Event, AnyEvent, Channels

(* The messages are of the types and about the things the events are. *)
LEMMA MessageTyped ==
    ASSUME NEW s \in CoflSockets, NEW m \in Messages(s)
    PROVE  \/ m.is \in Handled \cup {"flip"} /\ m.about \in Nouns
           \/ m.is \in {"loggedIn", "authmod"}
<1>1. \/ m \in {[is |-> "flip", about |-> u] : u \in Uuids}
      \/ m \in Kinds[s]
      \/ m \in {[is |-> "loggedIn", about |-> ""], [is |-> "authmod", about |-> ""]}
  BY DEF Messages
<1>2. ASSUME m \in {[is |-> "flip", about |-> u] : u \in Uuids}
      PROVE  m.is \in Handled \cup {"flip"} /\ m.about \in Nouns
  <2>1. PICK u \in Uuids : m = [is |-> "flip", about |-> u]
    BY <1>2
  <2>2. m.is = "flip" /\ m.about = u
    BY <2>1
  <2> QED  BY <2>2 DEF Nouns
<1>3. ASSUME m \in Kinds[s]
      PROVE  m.is \in Handled \cup {"flip"} /\ m.about \in Nouns
  <2>1. m.is \in Handled
    BY <1>3, KindsAssumption
  <2>2. m.about \in {n.about : n \in Kinds[s]}
    BY <1>3
  <2>3. m.about \in Nouns
    BY <2>2, Zenon DEF Nouns
  <2> QED  BY <2>1, <2>3
<1>4. ASSUME m \in {[is |-> "loggedIn", about |-> ""], [is |-> "authmod", about |-> ""]}
      PROVE  m.is \in {"loggedIn", "authmod"}
  <2>1. m = [is |-> "loggedIn", about |-> ""] \/ m = [is |-> "authmod", about |-> ""]
    BY <1>4
  <2>2. ASSUME m = [is |-> "loggedIn", about |-> ""]  PROVE m.is = "loggedIn"
    BY <2>2
  <2>3. ASSUME m = [is |-> "authmod", about |-> ""]  PROVE m.is = "authmod"
    BY <2>3
  <2> QED  BY <2>1, <2>2, <2>3
<1> QED  BY <1>1, <1>2, <1>3, <1>4

(* The events of a message that was read are sound. *)
LEMMA EventsSound ==
    ASSUME Channels, NEW s \in CoflSockets, NEW m \in Messages(s),
           loggedIn' = (loggedIn \/ Notes(m) \/ m.is = "loggedIn"),
           resets' = resets
    PROVE  Events(m) \in Seq(Sound')
<1>1. /\ m.is \in Handled \cup {"flip", "loggedIn", "authmod"}
      /\ m.is \notin {"loggedIn", "authmod"} => m.about \in Nouns
  BY MessageTyped
<1>2. ASSUME NEW is \in Verbs, NEW about \in Nouns, NEW own \in BOOLEAN,
             is = "flip" /\ ~ own => Notes(m) \/ loggedIn \/ asked
      PROVE  Event(is, about, own) \in Sound'
  <2> DEFINE e == Event(is, about, own)
  <2>1. /\ e \in AnyEvent /\ e.is = is /\ e.own = own /\ e.at = resets
        /\ e.asked = asked
    BY EventTyped
  <2>2. Notes(m) \/ loggedIn => loggedIn'
    OBVIOUS
  <2>3. Telling(e) => loggedIn'
    BY <1>2, <2>1, <2>2 DEF Telling
  <2> HIDE DEF e
  <2> QED  BY <2>1, <2>3 DEF Sound, Channels, e
<1>3. Authenticated \in Sound'
  BY <1>2 DEF Authenticated, Nouns, Verbs
<1>4. ASSUME m.is \notin {"loggedIn", "authmod", "finderFlip"}
      PROVE  Event(m.is, m.about, FALSE) \in Sound'
  <2>1. m.is = "flip" => Notes(m) \/ loggedIn \/ asked
    BY DEF Notes, Pushed, Channels
  <2> QED  BY <1>1, <1>2, <1>4, <2>1 DEF Verbs
<1>5. Event("ChatMessage", "link", FALSE) \in Sound'
  BY <1>2 DEF Nouns, Verbs, Handled
<1>6. m.is = "finderFlip" => Event("flip", m.about, TRUE) \in Sound'
  BY <1>1, <1>2 DEF Nouns, Verbs, Handled
<1>7. ASSUME NEW e \in Sound'
      PROVE  <<e>> \in Seq(Sound')
  BY <1>7
<1>8. PICK first : first = IF Notes(m) THEN <<Authenticated>> ELSE <<>>
  OBVIOUS
<1>9. PICK second :
        second = CASE m.is = "loggedIn" -> <<Authenticated>>
                   [] m.is = "authmod"  -> <<Event("ChatMessage", "link", FALSE)>>
                   [] m.is = "finderFlip" -> <<Event("flip", m.about, TRUE)>>
                   [] OTHER             -> <<Event(m.is, m.about, FALSE)>>
  OBVIOUS
<1>10. first \in Seq(Sound')
  <2>1. <<>> \in Seq(Sound')
    BY EmptySeq
  <2> QED  BY <1>3, <1>7, <1>8, <2>1
<1>11. second \in Seq(Sound')
  <2>1. CASE m.is = "loggedIn"
    BY <1>3, <1>7, <1>9, <2>1
  <2>2. CASE m.is = "authmod"
    BY <1>5, <1>7, <1>9, <2>2
  <2>3. CASE m.is = "finderFlip"
    BY <1>6, <1>7, <1>9, <2>3
  <2>4. CASE m.is \notin {"loggedIn", "authmod", "finderFlip"}
    BY <1>4, <1>7, <1>9, <2>4
  <2> QED  BY <2>1, <2>2, <2>3, <2>4
<1>12. Events(m) = first \o second
  BY <1>8, <1>9 DEF Events
<1> QED  BY <1>10, <1>11, <1>12, ConcatProperties

(* A flip of the finder tells nothing of COFL. *)
LEMMA FeedSound ==
    ASSUME resets \in Nat, asked \in BOOLEAN, NEW u \in Uuids
    PROVE  Event("flip", u, TRUE) \in Sound
<1>1. "flip" \in Verbs /\ u \in Nouns
  BY DEF Verbs, Nouns
<1>2. PICK e : e = Event("flip", u, TRUE)
  OBVIOUS
<1>3. e \in AnyEvent /\ e.own /\ e.at = resets
  BY <1>1, <1>2 DEF Event, AnyEvent
<1>4. e \in Sound
  BY <1>3 DEF Sound, Telling
<1> QED  BY <1>2, <1>4

(* A step of the sockets keeps the channels sound. *)
LEMMA SocketsKeepSound ==
    ASSUME Channels, SocketNext, UNCHANGED <<at, authenticated, refused>>
    PROVE  Channels'
<1>1. ASSUME UNCHANGED <<authVars, inbox, agg>>
      PROVE  Channels'
  BY <1>1 DEF authVars, Sound, HeldSound, Channels
<1>2. ASSUME NEW s \in CoflSockets, Read(s)
      PROVE  Channels'
  <2>1. PICK m \in Messages(s) :
           /\ loggedIn' = (loggedIn \/ Notes(m) \/ m.is = "loggedIn")
           /\ linkShown' = (linkShown \/ m.is = "authmod")
           /\ asked' = (asked \/ m.is = "authmod")
           /\ inbox' = [inbox EXCEPT ![s] = @ \o Events(m)]
    BY <1>2 DEF Read
  <2>2. resets' = resets /\ agg' = agg
    BY <1>2 DEF Read
  <2>3. inbox \in [CoflSockets -> Seq(Sound')] /\ agg \in Seq(Sound')
    <3>1. resets' \in Nat /\ (loggedIn => loggedIn')
      BY <2>1, <2>2 DEF Channels
    <3> QED  BY <2>1, <2>2, <3>1, SoundStays
  <2>4. Events(m) \in Seq(Sound')
    BY <2>1, <2>2, EventsSound
  <2>5. inbox[s] \o Events(m) \in Seq(Sound')
    BY <2>3, <2>4, ConcatProperties
  <2>6. inbox' \in [CoflSockets -> Seq(Sound')]
    BY <2>1, <2>3, <2>5
  <2> QED  BY <2>1, <2>2, <2>3, <2>6 DEF HeldSound, Channels
<1>3. ASSUME NEW s \in CoflSockets, Forward(s)
      PROVE  Channels'
  <2>1. /\ UNCHANGED authVars
        /\ inbox' = [inbox EXCEPT ![s] = Tail(@)]
        /\ agg' = agg \/ agg' = Append(agg, Head(inbox[s]))
        /\ inbox[s] # <<>>
    BY <1>3 DEF Forward, DropDuplicate, Ignore, Pass
  <2>2. Sound' = Sound
    BY <2>1 DEF Sound, authVars
  <2>3. Head(inbox[s]) \in Sound /\ Tail(inbox[s]) \in Seq(Sound)
    BY <2>1, HeadTailProperties DEF Channels
  <2>4. inbox' \in [CoflSockets -> Seq(Sound)]
    BY <2>1, <2>3 DEF Channels
  <2>5. agg' \in Seq(Sound)
    <3>1. Append(agg, Head(inbox[s])) \in Seq(Sound)
      BY <2>3, AppendProperties DEF Channels
    <3> QED  BY <2>1, <3>1 DEF Channels
  <2> QED  BY <2>1, <2>2, <2>4, <2>5 DEF authVars, HeldSound, Channels
<1>4. CASE FeedFlip
  <2>a. resets \in Nat /\ asked \in BOOLEAN
    BY DEF Channels
  <2>1. PICK u \in Uuids : agg' = agg \/ agg' = Append(agg, Event("flip", u, TRUE))
    BY <1>4 DEF FeedFlip
  <2>2. UNCHANGED authVars /\ inbox' = inbox
    BY <1>4 DEF FeedFlip
  <2>3. Sound' = Sound
    BY <2>2 DEF Sound, authVars
  <2>4. Event("flip", u, TRUE) \in Sound
    BY <2>a, FeedSound
  <2>5. agg' \in Seq(Sound)
    <3>1. Append(agg, Event("flip", u, TRUE)) \in Seq(Sound)
      BY <2>4, AppendProperties DEF Channels
    <3> QED  BY <2>1, <3>1 DEF Channels
  <2> QED  BY <2>2, <2>3, <2>5 DEF authVars, HeldSound, Channels
<1> QED
  BY <1>1, <1>2, <1>3, <1>4
  DEF SocketNext, SignIn, Drop, Reconnect, LeaveRegion, flowVars

(* A handler refuses nothing but a flip of COFL that comes unauthenticated. *)
LEMMA OnlyUnauthenticated ==
    ASSUME Channels, Dispatch
    PROVE  /\ at' = Waiting /\ UNCHANGED socketVars
           /\ authenticated' \in BOOLEAN
           /\ refused' = refused \/ /\ refused' = refused \cup {at}
                                    /\ at \in AnyEvent /\ at.is = "flip" /\ ~ at.own
                                    /\ ~ authenticated
<1>1. at \in AnyEvent /\ at.is \in Verbs /\ at' = Waiting /\ UNCHANGED socketVars
  BY DEF Dispatch, Channels, HeldSound, AnyEvent
<1>2. CASE at.is = "flip"
  <2>1. PICK closed : AuctionFlip(at, closed)
    BY <1>2 DEF Dispatch
  <2> QED  BY <1>1, <1>2, <2>1 DEF AuctionFlip, Channels, Skip, OnlyQueues
<1>3. CASE at.is \in {"bazaarFlip", "cancelOrder", "ChatMessage", "connect"}
  <2>1. PICK closed : \/ BazaarFlip(at.about, closed) \/ CancelBazaarOrder(closed)
                      \/ ChatMessage(at, closed) \/ Connect(at.about)
    BY <1>3 DEF Dispatch
  <2>2. refused' = refused /\ authenticated' \in BOOLEAN
    BY <2>1 DEF BazaarFlip, CancelBazaarOrder, ChatMessage, Connect, Skip, OnlyQueues,
       ChatRecommendation, LicenseIsSent, BzHeader, BzLine, Channels
  <2> QED  BY <1>1, <2>2
<1>4. CASE at.is \in {"createAuction", "countdown", "collectAuctions", "LicenseList",
                     "listInstructions", "request"}
  <2>1. PICK closed : \/ CreateAuction(closed) \/ Countdown(closed) \/ CollectAuctions
                      \/ LicenseList(at.about) \/ ListInstructions(closed)
                      \/ Request(at.about)
    BY <1>4 DEF Dispatch
  <2>2. refused' = refused /\ authenticated' = authenticated
    BY <2>1 DEF CreateAuction, Countdown, CollectAuctions, LicenseList,
       ListInstructions, Request, Skip, OnlyQueues, LicenseIsSent
  <2> QED  BY <1>1, <2>2 DEF Channels
<1>5. CASE at.is = "Authenticated"
  <2>1. authenticated' = TRUE /\ refused' = refused
    BY <1>5 DEF Dispatch
  <2> QED  BY <1>1, <2>1
<1> QED  BY <1>1, <1>2, <1>3, <1>4, <1>5 DEF Verbs, Handled
(* The channels stay sound, and nothing but what comes of them is refused. *)
LEMMA ChannelsStaySound == Spec => [](Channels /\ RefusedForAReason)
<1>1. Init => Channels /\ RefusedForAReason
  <2> SUFFICES ASSUME Init PROVE Channels /\ RefusedForAReason
    OBVIOUS
  <2>1. <<>> \in Seq(Sound)
    BY EmptySeq
  <2> QED  BY <2>1 DEF Init, SocketInit, Channels, HeldSound, RefusedForAReason
<1>2. Channels /\ RefusedForAReason /\ [Next]_vars => (Channels /\ RefusedForAReason)'
  <2> SUFFICES ASSUME Channels, RefusedForAReason, [Next]_vars
               PROVE  (Channels /\ RefusedForAReason)'
    OBVIOUS
  <2>a. ASSUME UNCHANGED <<socketVars, at, authenticated, refused>>
        PROVE  (Channels /\ RefusedForAReason)'
    BY <2>a DEF socketVars, authVars, flowVars, Channels, Sound, HeldSound,
       RefusedForAReason
  <2>b. ASSUME resets' \in Nat, resets' >= resets, refused' = refused
        PROVE  RefusedForAReason'
    <3>1. \A e \in refused : e.at \in Nat
      BY DEF Channels, AnyEvent
    <3> QED  BY <2>b, <3>1 DEF RefusedForAReason, Channels
  <2>1. CASE Sockets
    <3>1. Channels' /\ refused' = refused
      BY <2>1, SocketsKeepSound DEF Sockets, eventVars
    <3>2. resets' = resets
      BY <2>1 DEF Sockets, SocketNext, SignIn, Read, Drop, Reconnect, Forward,
         LeaveRegion, FeedFlip, authVars
    <3> QED  BY <2>b, <3>1, <3>2 DEF Channels
  <2>2. CASE Receive
    <3>1. /\ agg # <<>> /\ at' = Head(agg) /\ agg' = Tail(agg)
          /\ authenticated' = (authenticated \/ loggedIn)
          /\ UNCHANGED <<authVars, inbox, refused>>
      BY <2>2 DEF Receive, Latch
    <3>2. Head(agg) \in Sound /\ Tail(agg) \in Seq(Sound)
      BY <3>1, HeadTailProperties DEF Channels
    <3>3. Sound' = Sound
      BY <3>1 DEF Sound, authVars
    <3>4. HeldSound'
      BY <3>1, <3>2 DEF HeldSound, Sound, authVars, Channels
    <3>5. Channels'
      BY <3>1, <3>2, <3>3, <3>4 DEF Channels, authVars
    <3> QED  BY <2>b, <3>1, <3>5 DEF Channels, authVars
  <2>3. CASE Dispatch
    <3>1. /\ at' = Waiting /\ UNCHANGED socketVars /\ authenticated' \in BOOLEAN
          /\ refused' = refused \/ /\ refused' = refused \cup {at}
                                   /\ at \in AnyEvent /\ at.is = "flip" /\ ~ at.own
                                   /\ ~ authenticated
      BY <2>3, OnlyUnauthenticated
    <3>2. Sound' = Sound
      BY <3>1 DEF Sound, socketVars, authVars
    <3>3. Channels'
      BY <3>1, <3>2 DEF Channels, socketVars, authVars, flowVars, HeldSound
    <3>4. CASE refused' = refused
      BY <2>b, <3>1, <3>3, <3>4 DEF Channels, socketVars, authVars
    <3>5. CASE /\ refused' = refused \cup {at}
               /\ at \in AnyEvent /\ at.is = "flip" /\ ~ at.own
               /\ ~ authenticated
      <4>1. at # Waiting
        BY <2>3 DEF Dispatch
      <4>2. at.asked \/ at.at < resets
        BY <3>5, <4>1 DEF Channels, HeldSound, Telling
      <4>3. resets' = resets
        BY <3>1 DEF socketVars, authVars
      <4> QED  BY <3>3, <3>5, <4>2, <4>3 DEF RefusedForAReason
    <3> QED  BY <3>1, <3>4, <3>5
  <2>4. CASE Switch
    <3>1. /\ resets' = resets + 1 /\ loggedIn' = FALSE /\ linkShown' = FALSE
          /\ asked' = FALSE /\ UNCHANGED <<inbox, agg, at, authenticated, refused>>
      BY <2>4 DEF Switch, SwitchRegion, ResetAuth, flowVars
    <3>2. resets' \in Nat /\ resets' > resets
      BY <3>1 DEF Channels
    <3>3. inbox \in [CoflSockets -> Seq(Sound')] /\ agg \in Seq(Sound')
      BY <3>1, <3>2, SoundStays
    <3>4. HeldSound'
      BY <3>1, <3>2 DEF HeldSound, Channels, AnyEvent
    <3>5. Channels'
      BY <3>1, <3>2, <3>3, <3>4 DEF Channels
    <3> QED  BY <2>b, <3>1, <3>2, <3>5 DEF Channels
  <2> QED
    BY <2>a, <2>1, <2>2, <2>3, <2>4
    DEF Next, Boot, Loop, Tasks, Grace, AwaitSignIn, Login, bootUnchanged, Watch,
        Deferred, Summary, WindowEnds, Processed, vars, eventVars
<1> QED  BY <1>1, <1>2, PTL DEF Spec

(* A flip is refused as unauthenticated only after COFL asked to sign in   *)
(* or while a region switch had been carried out since it was read         *)
(* (main.rs:4026-4035, websocket/client.rs:395-410).                       *)
THEOREM RefusalsJustified == Spec => []RefusedForAReason
BY ChannelsStaySound, PTL

-----------------------------------------------------------------------------
(* The memory of flips *)

(* What is remembered are the last flips that were new, as many as fit. *)
Memory ==
    /\ seenLog \in Seq(Nouns) /\ seen \in Seq(Nouns)
    /\ Len(seen) = IF Len(seenLog) < SeenCap THEN Len(seenLog) ELSE SeenCap
    /\ \A k \in 1 .. Len(seen) : seen[k] = seenLog[Len(seenLog) - Len(seen) + k]

(* A flip that passes for new differs from the last SeenCap that did. *)
LEMMA NewIsRemembered ==
    ASSUME Memory, DuplicatesApart, NEW u \in Nouns, New(u)
    PROVE  Memory' /\ DuplicatesApart'
<1> DEFINE L == Len(seenLog)
           c == Len(seen)
           all == Append(seen, u)
<1>1. /\ u \notin ToSet(seen) /\ seenLog' = Append(seenLog, u)
      /\ seen' = IF c + 1 > SeenCap THEN Tail(all) ELSE all
  BY DEF New, SeenUpTo
<1>2. L \in Nat /\ c \in Nat /\ SeenCap \in Nat \ {0}
  BY LenProperties, SocketAssumption DEF Memory
<1>3. /\ seenLog' \in Seq(Nouns) /\ Len(seenLog') = L + 1
      /\ \A i \in 1 .. L + 1 : seenLog'[i] = IF i <= L THEN seenLog[i] ELSE u
  BY <1>1, <1>2, AppendProperties DEF Memory
<1>4. /\ all \in Seq(Nouns) /\ Len(all) = c + 1
      /\ \A i \in 1 .. c + 1 : all[i] = IF i <= c THEN seen[i] ELSE u
  BY <1>2, AppendProperties DEF Memory
<1>5. \A k \in 1 .. c : seen[k] = seenLog[L - c + k] /\ seen[k] # u
  <2>1. DOMAIN seen = 1 .. c
    BY LenProperties DEF Memory
  <2> QED  BY <1>1, <2>1 DEF Memory, ToSet
<1>6. c = IF L < SeenCap THEN L ELSE SeenCap
  BY DEF Memory
<1> HIDE DEF L, c, all
<1>7. Memory'
  <2>1. CASE c + 1 > SeenCap
    <3>1. /\ seen' \in Seq(Nouns) /\ Len(seen') = c
          /\ \A k \in 1 .. c : seen'[k] = all[k + 1]
      <4>1. all # <<>>
        BY <1>2, <1>4, EmptySeq
      <4>2. seen' = Tail(all)
        BY <1>1, <2>1
      <4> QED  BY <1>2, <1>4, <4>1, <4>2, HeadTailProperties
    <3>2. c = SeenCap /\ L >= SeenCap
      BY <1>2, <1>6, <2>1
    <3>3. \A k \in 1 .. c : seen'[k] = seenLog'[L + 1 - c + k]
      <4> SUFFICES ASSUME NEW k \in 1 .. c
                   PROVE  seen'[k] = seenLog'[L + 1 - c + k]
        OBVIOUS
      <4>1. seen'[k] = all[k + 1] /\ L + 1 - c + k \in 1 .. L + 1
        BY <1>2, <3>1, <3>2
      <4>2. CASE k < c
        <5>1. k + 1 \in 1 .. c /\ L - c + (k + 1) = L + 1 - c + k
          BY <1>2, <4>2
        <5>2. all[k + 1] = seen[k + 1]
          BY <1>2, <1>4, <5>1
        <5>3. seen[k + 1] = seenLog[L + 1 - c + k]
          BY <1>5, <5>1
        <5>4. L + 1 - c + k <= L
          BY <1>2, <4>2
        <5> QED  BY <1>3, <4>1, <5>2, <5>3, <5>4
      <4>3. CASE k = c
        <5>1. all[k + 1] = u
          BY <1>2, <1>4, <4>3
        <5>2. L + 1 - c + k = L + 1
          BY <1>2, <4>3
        <5>3. seenLog'[L + 1] = u
          BY <1>2, <1>3
        <5> QED  BY <4>1, <5>1, <5>2, <5>3
      <4> QED  BY <1>2, <4>2, <4>3
    <3> QED  BY <1>2, <1>3, <3>1, <3>2, <3>3 DEF Memory
  <2>2. CASE ~ (c + 1 > SeenCap)
    <3>1. c = L /\ seen' = all
      BY <1>1, <1>2, <1>6, <2>2
    <3>2. \A k \in 1 .. c + 1 : seen'[k] = seenLog'[k]
      BY <1>2, <1>3, <1>4, <1>5, <3>1
    <3> QED  BY <1>2, <1>3, <1>4, <2>2, <3>1, <3>2 DEF Memory
  <2> QED  BY <2>1, <2>2
<1>8. DuplicatesApart'
  <2> SUFFICES ASSUME NEW i \in 1 .. L + 1, NEW j \in 1 .. L + 1,
                      i < j, seenLog'[i] = seenLog'[j]
               PROVE  j - i > SeenCap
    <3>1. DOMAIN seenLog' = 1 .. L + 1
      BY <1>3, LenProperties
    <3> QED  BY <3>1 DEF DuplicatesApart
  <2>1. CASE j <= L
    <3>1. seenLog[i] = seenLog[j] /\ i \in 1 .. L /\ j \in 1 .. L
      BY <1>2, <1>3, <2>1
    <3>2. DOMAIN seenLog = 1 .. L
      BY LenProperties DEF Memory, L
    <3> QED  BY <3>1, <3>2 DEF DuplicatesApart
  <2>2. CASE j = L + 1
    <3>1. seenLog[i] = u /\ i \in 1 .. L
      BY <1>2, <1>3, <2>2
    <3>2. i <= L - c
      <4>1. SUFFICES ASSUME i > L - c  PROVE FALSE
        BY <1>2
      <4>2. i - (L - c) \in 1 .. c
        BY <1>2, <3>1, <4>1
      <4>3. L - c + (i - (L - c)) = i
        BY <1>2, <3>1
      <4> QED  BY <1>5, <3>1, <4>2, <4>3
    <3> QED  BY <1>2, <1>6, <2>2, <3>1, <3>2
  <2> QED  BY <1>2, <2>1, <2>2
<1> QED  BY <1>7, <1>8

(* Between two times the same auction passes for new, as many others did   *)
(* as the memory holds (main.rs:1571-1600).                                *)
THEOREM DuplicatesAreApart == Spec => []DuplicatesApart
<1>1. Init => Memory /\ DuplicatesApart
  <2> SUFFICES ASSUME Init PROVE Memory /\ DuplicatesApart
    OBVIOUS
  <2>1. seen = <<>> /\ seenLog = <<>>
    BY DEF Init, SocketInit
  <2>2. <<>> \in Seq(Nouns) /\ Len(<<>>) = 0 /\ DOMAIN <<>> = {}
    BY EmptySeq
  <2> QED  BY <2>1, <2>2, SocketAssumption DEF Memory, DuplicatesApart
<1>2. Channels /\ Memory /\ DuplicatesApart /\ [Next]_vars
         => (Memory /\ DuplicatesApart)'
  <2> SUFFICES ASSUME Channels, Memory, DuplicatesApart, [Next]_vars
               PROVE  (Memory /\ DuplicatesApart)'
    OBVIOUS
  <2>1. ASSUME UNCHANGED <<seen, seenLog>>
        PROVE  (Memory /\ DuplicatesApart)'
    BY <2>1 DEF Memory, DuplicatesApart
  <2>2. ASSUME NEW s \in CoflSockets, Forward(s)
        PROVE  (Memory /\ DuplicatesApart)'
    <3>1. /\ inbox[s] # <<>>
          /\ UNCHANGED <<seen, seenLog>> \/ New(Head(inbox[s]).about)
      BY <2>2 DEF Forward, DropDuplicate, Ignore, Pass, Known
    <3>2. Head(inbox[s]) \in Sound
      BY <3>1, HeadTailProperties DEF Channels
    <3>3. Head(inbox[s]).about \in Nouns
      BY <3>2 DEF Sound, AnyEvent
    <3> QED  BY <2>1, <3>1, <3>3, NewIsRemembered
  <2>3. CASE FeedFlip
    <3>1. PICK u \in Uuids : New(u) \/ UNCHANGED <<seen, seenLog>>
      BY <2>3 DEF FeedFlip, Known
    <3>2. u \in Nouns
      BY DEF Nouns
    <3> QED  BY <2>1, <3>1, <3>2, NewIsRemembered
  <2> QED
    BY <2>1, <2>2, <2>3
    DEF Next, Sockets, SocketNext, SignIn, Read, Drop, Reconnect, LeaveRegion,
        flowVars, socketVars, Boot, Loop, Tasks, Grace, AwaitSignIn, Login,
        bootUnchanged, Receive, Dispatch, Switch, SwitchRegion, Watch, Deferred,
        Summary, WindowEnds, Processed, vars
<1> QED  BY <1>1, <1>2, ChannelsStaySound, PTL DEF Spec

-----------------------------------------------------------------------------
(* The watcher of a pause *)

Busy == {"sleeps", "clears"}

(* While the bazaar is paused, one watcher has yet to clear the flag, and  *)
(* the others, of earlier pauses, have only to look after the orders.      *)
Watched ==
    /\ watchers \in Seq({"sleeps", "clears", "resumes"}) /\ paused \in BOOLEAN
    /\ paused => \E i \in DOMAIN watchers :
                    /\ watchers[i] \in Busy
                    /\ \A j \in DOMAIN watchers : watchers[j] \in Busy => j = i
    /\ ~ paused => \A j \in DOMAIN watchers : watchers[j] \notin Busy

(* A handler leaves the watchers and the flag alone, or it is that of a    *)
(* countdown, which adds a watcher if there is no pause.                   *)
LEMMA HandlerWatched ==
    ASSUME Dispatch, Channels
    PROVE  \/ UNCHANGED <<paused, watchers>>
           \/ paused' = TRUE /\ watchers' = WatchersAfter
<1>1. at \in AnyEvent /\ at.is \in Verbs
  BY DEF Dispatch, Channels, HeldSound, AnyEvent
<1>2. CASE at.is \in {"Authenticated", "flip", "bazaarFlip", "cancelOrder"}
  <2>1. PICK closed : \/ UNCHANGED pauseVars \/ AuctionFlip(at, closed)
                      \/ BazaarFlip(at.about, closed) \/ CancelBazaarOrder(closed)
    BY <1>2 DEF Dispatch
  <2> QED  BY <2>1 DEF AuctionFlip, BazaarFlip, CancelBazaarOrder, Skip, OnlyQueues,
              pauseVars
<1>3. CASE at.is \in {"ChatMessage", "connect", "createAuction"}
  <2>1. PICK closed : \/ ChatMessage(at, closed) \/ Connect(at.about)
                      \/ CreateAuction(closed)
    BY <1>3 DEF Dispatch
  <2> QED  BY <2>1 DEF ChatMessage, Connect, CreateAuction, Skip, OnlyQueues, pauseVars,
              ChatRecommendation, LicenseIsSent, BzHeader, BzLine
<1>4. CASE at.is \in {"collectAuctions", "LicenseList", "listInstructions", "request"}
  <2>1. PICK closed : \/ CollectAuctions \/ LicenseList(at.about)
                      \/ ListInstructions(closed) \/ Request(at.about)
    BY <1>4 DEF Dispatch
  <2> QED  BY <2>1 DEF CollectAuctions, LicenseList, ListInstructions, Request, Skip,
              OnlyQueues, pauseVars, LicenseIsSent
<1>5. CASE at.is = "countdown"
  <2>1. PICK closed : Countdown(closed)
    BY <1>5 DEF Dispatch
  <2> QED  BY <2>1 DEF Countdown, Skip, OnlyQueues, pauseVars
<1> QED  BY <1>1, <1>2, <1>3, <1>4, <1>5 DEF Verbs, Handled

(* A pause has one watcher to end it, however many countdowns come, and    *)
(* when it has cleared the flag there is none (main.rs:5174-5230).         *)
THEOREM PauseHasOneWatcher == Spec => []OneWatcher
<1>1. Init => Watched
  <2> SUFFICES ASSUME Init PROVE Watched
    OBVIOUS
  <2>1. <<>> \in Seq({"sleeps", "clears", "resumes"}) /\ DOMAIN <<>> = {}
    BY EmptySeq
  <2> QED  BY <2>1 DEF Init, Watched
<1>2. Channels /\ Watched /\ [Next]_vars => Watched'
  <2> SUFFICES ASSUME Channels, Watched, [Next]_vars
               PROVE  Watched'
    OBVIOUS
  <2> DEFINE Stages == {"sleeps", "clears", "resumes"}
             n == Len(watchers)
  <2>0. /\ watchers \in Seq(Stages) /\ n \in Nat /\ DOMAIN watchers = 1 .. n
        /\ \A i \in 1 .. n : watchers[i] \in Stages
    BY LenProperties, ElementOfSeq DEF Watched
  <2>1. ASSUME UNCHANGED <<paused, watchers>>
        PROVE  Watched'
    BY <2>1 DEF Watched, Busy
  <2>2. CASE Dispatch
    <3>1. CASE paused \/ UNCHANGED <<paused, watchers>>
      <4>1. UNCHANGED <<paused, watchers>>
        BY <2>2, <3>1, HandlerWatched DEF WatchersAfter, Watched
      <4> QED  BY <2>1, <4>1
    <3>2. CASE ~ paused /\ paused' = TRUE /\ watchers' = WatchersAfter
      <4>1. watchers' = Append(watchers, "sleeps")
        BY <3>2 DEF WatchersAfter
      <4>2. /\ watchers' \in Seq(Stages) /\ DOMAIN watchers' = 1 .. n + 1
            /\ \A i \in 1 .. n : watchers'[i] = watchers[i]
            /\ watchers'[n + 1] = "sleeps"
        BY <2>0, <4>1, AppendProperties, LenProperties
      <4>3. \A i \in 1 .. n : watchers[i] \notin Busy
        BY <2>0, <3>2 DEF Watched
      <4>4. watchers'[n + 1] \in Busy /\ \A j \in 1 .. n + 1 : watchers'[j] \in Busy => j = n + 1
        BY <2>0, <4>2, <4>3 DEF Busy
      <4> QED  BY <2>0, <3>2, <4>2, <4>4 DEF Watched
    <3> QED  BY <2>2, <3>1, <3>2, HandlerWatched
  <2>3. ASSUME NEW i \in DOMAIN watchers, Watch(i)
        PROVE  Watched'
    <3>1. CASE WatcherStep(i, "sleeps", "clears") /\ UNCHANGED paused
      <4>1. watchers[i] = "sleeps" /\ watchers' = [watchers EXCEPT ![i] = "clears"]
        BY <3>1 DEF WatcherStep
      <4>2. /\ watchers' \in Seq(Stages) /\ DOMAIN watchers' = DOMAIN watchers
            /\ \A j \in 1 .. n : watchers'[j] = IF j = i THEN "clears" ELSE watchers[j]
        BY <2>0, <4>1, ExceptSeq
      <4>3. \A j \in 1 .. n : (watchers'[j] \in Busy <=> watchers[j] \in Busy)
        BY <4>1, <4>2 DEF Busy
      <4> QED  BY <2>0, <3>1, <4>2, <4>3 DEF Watched
    <3>2. CASE WatcherStep(i, "clears", "resumes") /\ paused' = FALSE
      <4>1. watchers[i] = "clears" /\ watchers' = [watchers EXCEPT ![i] = "resumes"]
        BY <3>2 DEF WatcherStep
      <4>2. /\ watchers' \in Seq(Stages) /\ DOMAIN watchers' = DOMAIN watchers
            /\ \A j \in 1 .. n : watchers'[j] = IF j = i THEN "resumes" ELSE watchers[j]
        BY <2>0, <4>1, ExceptSeq
      <4>3. watchers[i] \in Busy
        BY <4>1 DEF Busy
      <4>4. \A j \in 1 .. n : j # i => watchers[j] \notin Busy
        BY <2>0, <4>3 DEF Watched
      <4>5. \A j \in 1 .. n : watchers'[j] \notin Busy
        BY <2>0, <4>2, <4>4 DEF Busy
      <4> QED  BY <2>0, <3>2, <4>2, <4>5 DEF Watched
    <3>3. CASE WatcherStep(i, "resumes", "done") /\ UNCHANGED paused
      <4>1. watchers[i] = "resumes" /\ watchers' = RemoveAt(watchers, i)
        BY <3>3 DEF WatcherStep
      <4>2. /\ watchers' \in Seq(Stages) /\ Len(watchers') = n - 1
            /\ \A j \in 1 .. n - 1 :
                  watchers'[j] = IF j < i THEN watchers[j] ELSE watchers[j + 1]
        BY <2>0, <4>1, RemoveAtProperties
      <4>3. DOMAIN watchers' = 1 .. n - 1
        BY <4>2, LenProperties
      <4>4. watchers[i] \notin Busy
        BY <4>1 DEF Busy
      <4>5. \A j \in 1 .. n - 1 :
               (watchers'[j] \in Busy <=> watchers[IF j < i THEN j ELSE j + 1] \in Busy)
        BY <4>2 DEF Busy
      <4>6. CASE paused
        <5>1. PICK k \in 1 .. n : watchers[k] \in Busy /\ \A j \in 1 .. n : watchers[j] \in Busy => j = k
          BY <2>0, <4>6 DEF Watched
        <5>2. k # i
          BY <4>4, <5>1
        <5> DEFINE m == IF k < i THEN k ELSE k - 1
        <5>3. m \in 1 .. n - 1 /\ watchers'[m] \in Busy
          BY <2>0, <4>5, <5>1, <5>2
        <5>4. \A j \in 1 .. n - 1 : watchers'[j] \in Busy => j = m
          BY <2>0, <4>5, <5>1, <5>2
        <5> HIDE DEF m
        <5> QED  BY <3>3, <4>2, <4>3, <4>6, <5>3, <5>4 DEF Watched
      <4>7. CASE ~ paused
        <5>1. \A j \in 1 .. n - 1 : watchers'[j] \notin Busy
          BY <2>0, <4>5, <4>7 DEF Watched
        <5> QED  BY <3>3, <4>2, <4>3, <4>7, <5>1 DEF Watched
      <4> QED  BY <4>6, <4>7
    <3> QED  BY <2>3, <3>1, <3>2, <3>3 DEF Watch
  <2> QED
    BY <2>1, <2>2, <2>3
    DEF Next, Sockets, SocketNext, eventVars, pauseVars, Boot, Loop, Tasks, Grace,
        AwaitSignIn, Login, bootUnchanged, Receive, Switch, Deferred,
        Summary, WindowEnds, Processed, vars
<1>3. Watched => OneWatcher
  <2> SUFFICES ASSUME Watched PROVE OneWatcher
    OBVIOUS
  <2> DEFINE W == {i \in DOMAIN watchers : watchers[i] \in {"sleeps", "clears"}}
  <2>1. CASE paused
    <3>1. PICK i \in DOMAIN watchers : W = {i}
      BY <2>1 DEF Watched, Busy
    <3>2. Cardinality(W) = 1
      BY <3>1, FS_Singleton
    <3> QED  BY <2>1, <3>2 DEF OneWatcher
  <2>2. CASE ~ paused
    <3>1. W = {}
      BY <2>2 DEF Watched, Busy
    <3>2. Cardinality(W) = 0
      BY <3>1, FS_EmptySet
    <3> QED  BY <2>2, <3>2 DEF OneWatcher
  <2> QED  BY <2>1, <2>2
<1> QED  BY <1>1, <1>2, <1>3, ChannelsStaySound, PTL DEF Spec
=============================================================================
