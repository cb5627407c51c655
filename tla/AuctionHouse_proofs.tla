------------------------- MODULE AuctionHouse_proofs -------------------------
(***************************************************************************)
(* Proofs about the auction house (AuctionHouse): what one command leaves  *)
(* behind in the preview is never listed at the price of another; and      *)
(* about the settings that its flows and the panel share (Settings), for   *)
(* any number of commands, retries, requests and restarts.                 *)
(***************************************************************************)
EXTENDS AuctionHouse, Settings, SequenceTheorems, FiniteSetTheorems, TLAPS

-----------------------------------------------------------------------------
(* What the file and the page of the panel have *)
Fields == {"ah", "password", "owner", "session"}
PageFields == {"ah", "password", "owner"}

Pages == [ah : BOOLEAN, password : {0} \cup Passwords, owner : BOOLEAN]
Kinds == {"get", "toggle", "patch", "page", "owner"}

(* What a request of each kind may set *)
Partial(set) ==
    /\ "session" \notin DOMAIN set
    /\ "ah" \in DOMAIN set => set["ah"] \in BOOLEAN
    /\ "password" \in DOMAIN set => set["password"] \in {0} \cup Passwords
    /\ "owner" \in DOMAIN set => set["owner"] \in BOOLEAN

(* A get sets nothing; only the panel's edits set the password. *)
MaySet(kind, set) ==
    /\ Partial(set)
    /\ kind = "get" => DOMAIN set = {}
    /\ kind \in {"toggle", "owner"} => "password" \notin DOMAIN set

(* What is set goes into the settings and nothing else of them changes.    *)
LEMMA WithConfig ==
    ASSUME NEW c \in Config, NEW set, Partial(set)
    PROVE  /\ With(c, set) \in Config
           /\ With(c, set).session = c.session
           /\ DOMAIN set = {} => With(c, set) = c
           /\ "password" \notin DOMAIN set => With(c, set).password = c.password
<1>1. DOMAIN c = Fields /\ c["ah"] \in BOOLEAN /\ c["password"] \in {0} \cup Passwords
        /\ c["owner"] \in BOOLEAN /\ c["session"] \in Sessions
  BY DEF Config, Fields
<1>2. With(c, set) = [ah |-> With(c, set)["ah"], password |-> With(c, set)["password"],
        owner |-> With(c, set)["owner"], session |-> With(c, set)["session"]]
  BY <1>1 DEF With, Fields
<1>3. With(c, set) \in Config
  BY <1>1, <1>2 DEF With, Config, Partial, Fields
<1>4. With(c, set).session = c.session
  BY <1>1 DEF With, Partial, Fields
<1>5. ASSUME DOMAIN set = {}  PROVE With(c, set) = c
  <2>1. c = [k \in DOMAIN c |-> c[k]]
    BY DEF Config
  <2> QED  BY <2>1, <1>5 DEF With
<1>6. "password" \notin DOMAIN set => With(c, set).password = c.password
  BY <1>1 DEF With, Fields
<1> QED  BY <1>3, <1>4, <1>5, <1>6

(* The requests set settings of the panel only, to values of theirs. *)
LEMMA SetsArePartial ==
    /\ Partial(Nothing) /\ DOMAIN Nothing = {}
    /\ \A v \in BOOLEAN : Partial([ah |-> v]) /\ DOMAIN [ah |-> v] = {"ah"}
    /\ \A v \in BOOLEAN : Partial([owner |-> v]) /\ DOMAIN [owner |-> v] = {"owner"}
    /\ \A p \in Passwords : Partial([password |-> p])
    /\ \A p \in Pages : Partial(p)
BY DEF Partial, Nothing, Pages, PageFields

-----------------------------------------------------------------------------
(* Where a request that runs alone stands: what the file held, or what was *)
(* loaded of it, lacks its own setting; from the change on, the task holds *)
(* the settings as they were asked for.                                    *)
Standing(t) ==
    \/ t.at = "load" /\ file \in Config /\ asked = With(file, t.set)
    \/ t.at = "heal" /\ file = t.config /\ asked = With(t.config, t.set)
    \/ t.at = "healing" /\ file = Torn /\ asked = With(t.config, t.set)
    \/ t.at = "change" /\ file = t.config /\ asked = With(t.config, t.set)
    \/ t.at = "save" /\ file \in Config /\ t.config = asked
    \/ t.at = "saving" /\ file = Torn /\ t.config = asked

(* A task, and the panel's copy of the password, which it renews at its end *)
TaskFields == {"n", "kind", "set", "at", "config"}

TaskOK(t) ==
    /\ DOMAIN t = TaskFields
    /\ t.kind \in Kinds /\ t.config \in Config /\ MaySet(t.kind, t.set)
    /\ Standing(t)
    /\ Applies(t) \/ panel = asked.password

(* The inductive invariant of requests that come one after another *)
OneByOne ==
    /\ asked \in Config /\ asked.session # 0 /\ page \in Pages
    /\ requests \in Nat /\ restarts \in Nat
    /\ \/ Rest /\ file = asked /\ panel = file.password
       \/ \E t : tasks = {t} /\ TaskOK(t)

(* A file under way is no settings. *)
LEMMA TornApart == Torn \notin Config /\ Broken \notin Config /\ Torn # Broken
<1>1. DOMAIN Torn = {"torn"} /\ DOMAIN Broken = {"broken"}
  BY DEF Torn, Broken
<1>2. \A c \in Config : DOMAIN c = Fields
  BY DEF Config, Fields
<1> QED  BY <1>1, <1>2 DEF Fields

(* A request that comes when none is under way *)
LEMMA RequestKeeps ==
    ASSUME ~ Parallel, OneByOne, NEW kind \in Kinds, NEW set, MaySet(kind, set),
           Request(kind, set)
    PROVE  OneByOne'
<1>1. Rest /\ file = asked /\ panel = file.password /\ requests \in Nat
  BY DEF Request, OneByOne, Rest
<1>2. PICK t : /\ t = [n |-> requests', kind |-> kind, set |-> set, at |-> "load",
                       config |-> Default]
               /\ tasks' = {t}
  BY <1>1 DEF Request, Rest
<1>a. /\ t.kind = kind /\ t.set = set /\ t.at = "load" /\ t.config = Default
      /\ DOMAIN t = TaskFields
  BY <1>2 DEF TaskFields
<1>3. /\ file' = file /\ panel' = panel /\ page' = page /\ restarts' = restarts
      /\ requests' = requests + 1 /\ asked' = With(asked, set)
  BY DEF Request
<1>4. Default \in Config
  BY SettingsAssumption DEF Default, Config, Sessions
<1>5. /\ asked' \in Config /\ asked'.session = asked.session
      /\ "password" \notin DOMAIN set => asked'.password = asked.password
  BY <1>3, WithConfig DEF OneByOne, MaySet
<1>6. kind \in {"get", "toggle", "owner"} => "password" \notin DOMAIN set
  BY DEF MaySet
<1>7. kind \in {"patch", "page"} \/ panel' = asked'.password
  BY <1>1, <1>3, <1>5, <1>6 DEF Kinds
<1>8. Standing(t)'
  BY <1>1, <1>a, <1>3 DEF Standing, OneByOne
<1>9. TaskOK(t)'
  BY <1>a, <1>4, <1>7, <1>8 DEF TaskOK, Applies
<1> QED  BY <1>1, <1>2, <1>3, <1>5, <1>9 DEF OneByOne

(* Requests that come one after another keep every setting that each of    *)
(* them did not name, and the panel knows its password, restarts of the    *)
(* process included (web/server.rs:2429-2431, config/loader.rs).           *)
THEOREM SettingsAreKept == ASSUME ~ Parallel PROVE SettingsSpec => []SettingsKept
<1>1. SettingsInit => OneByOne
  <2> SUFFICES ASSUME SettingsInit  PROVE OneByOne
    OBVIOUS
  <2> DEFINE c == [ah |-> TRUE, password |-> 1, owner |-> FALSE, session |-> 1]
  <2>1. c \in Config /\ Visible(c) \in Pages /\ c.session = 1
    BY SettingsAssumption DEF Config, Sessions, Passwords, Visible, Pages
  <2> QED  BY <2>1 DEF SettingsInit, OneByOne, Rest
<1>2. OneByOne /\ [SettingsNext]_settingsVars => OneByOne'
  <2> SUFFICES ASSUME OneByOne, [SettingsNext]_settingsVars  PROVE OneByOne'
    OBVIOUS
  <2>1. CASE GetConfig
    <3>1. MaySet("get", Nothing)
      BY SetsArePartial DEF MaySet
    <3> QED  BY <2>1, <3>1, RequestKeeps DEF GetConfig, Kinds
  <2>2. CASE SetDiscordId
    <3>1. MaySet("owner", [owner |-> TRUE])
      BY SetsArePartial DEF MaySet
    <3> QED  BY <2>2, <3>1, RequestKeeps DEF SetDiscordId, Kinds
  <2>3. CASE BackendToggle
    BY <2>3 DEF BackendToggle, OneByOne, Rest, TaskOK, Standing, Applies
  <2>4. ASSUME NEW v \in BOOLEAN, ToggleAh(v)  PROVE OneByOne'
    <3>1. MaySet("toggle", [ah |-> v])
      BY SetsArePartial DEF MaySet
    <3> QED  BY <2>4, <3>1, RequestKeeps DEF ToggleAh, Kinds
  <2>5. ASSUME NEW set \in Edits, SavePatch(set)  PROVE OneByOne'
    <3>1. MaySet("patch", set)
      BY SetsArePartial DEF MaySet, Edits
    <3> QED  BY <2>5, <3>1, RequestKeeps DEF SavePatch, Kinds
  <2>6. ASSUME NEW set \in Edits, SavePage(set)  PROVE OneByOne'
    <3>1. With(page, set) \in Pages
      <4>1. DOMAIN page = PageFields /\ page["ah"] \in BOOLEAN
              /\ page["password"] \in {0} \cup Passwords /\ page["owner"] \in BOOLEAN
        BY DEF OneByOne, Pages, PageFields
      <4>2. With(page, set) = [ah |-> With(page, set)["ah"],
               password |-> With(page, set)["password"], owner |-> With(page, set)["owner"]]
        BY <4>1 DEF With, PageFields
      <4>3. Partial(set)
        BY SetsArePartial DEF Edits
      <4> QED  BY <4>1, <4>2, <4>3 DEF With, Pages, Partial, PageFields
    <3>2. MaySet("page", With(page, set))
      BY <3>1, SetsArePartial DEF MaySet
    <3> QED  BY <2>6, <3>2, RequestKeeps DEF SavePage, Kinds
  <2>7. ASSUME NEW t \in tasks, TaskOK(t), tasks = {t},
               Load(t) \/ Truncate(t) \/ Heal(t) \/ Change(t) \/ Save(t)
        PROVE  OneByOne'
    <3>0. /\ asked \in Config /\ asked.session # 0 /\ page \in Pages
          /\ requests \in Nat /\ restarts \in Nat
      BY DEF OneByOne
    <3>a. ASSUME NEW u, DOMAIN u = DOMAIN t, tasks' = {u}, u.kind = t.kind,
                 u.set = t.set, u.config \in Config, Standing(u)',
                 UNCHANGED <<panel, asked, page, requests, restarts>>
          PROVE  OneByOne'
      <4>1. TaskOK(u)'
        BY <2>7, <3>a DEF TaskOK, Applies
      <4> QED  BY <3>0, <3>a, <4>1 DEF OneByOne
    <3>b. /\ DOMAIN t = TaskFields /\ t.config \in Config /\ MaySet(t.kind, t.set)
          /\ t.kind \in Kinds /\ Standing(t)
          /\ tasks = {t}
      BY <2>7 DEF TaskOK
    <3>1. CASE Load(t)
      <4>1. file \in Config /\ asked = With(file, t.set)
        BY <3>b, <3>1 DEF Load, Standing
      <4>2. PICK u : u = [t EXCEPT !.config = file, !.at = "heal"] /\ tasks' = {u}
        BY <3>b, <3>1, <4>1, TornApart DEF Load, Becomes
      <4>3. /\ u.kind = t.kind /\ u.set = t.set /\ u.config = file /\ u.at = "heal"
            /\ DOMAIN u = DOMAIN t
        BY <3>b, <4>2 DEF TaskFields
      <4>4. file' = file /\ UNCHANGED <<panel, asked, page, requests, restarts>>
        BY <3>1 DEF Load
      <4>5. Standing(u)'
        BY <4>1, <4>3, <4>4 DEF Standing
      <4> QED  BY <3>a, <4>1, <4>2, <4>3, <4>4, <4>5
    <3>2. CASE Truncate(t)
      <4>1. PICK u : /\ u = [t EXCEPT !.at = IF t.at = "heal" THEN "healing" ELSE "saving"]
                     /\ tasks' = {u}
        BY <3>b, <3>2 DEF Truncate, To, Becomes
      <4>2. /\ u.kind = t.kind /\ u.set = t.set /\ u.config = t.config
            /\ u.at = (IF t.at = "heal" THEN "healing" ELSE "saving")
            /\ DOMAIN u = DOMAIN t
        BY <3>b, <4>1 DEF TaskFields
      <4>3. file' = Torn /\ UNCHANGED <<panel, asked, page, requests, restarts>>
        BY <3>2 DEF Truncate
      <4>4. Standing(u)'
        BY <3>b, <3>2, <4>2, <4>3 DEF Standing, Truncate
      <4> QED  BY <3>a, <3>b, <4>1, <4>2, <4>3, <4>4
    <3>3. CASE Heal(t)
      <4>1. file = Torn /\ asked = With(t.config, t.set)
        BY <3>b, <3>3 DEF Heal, Standing
      <4>2. file' = t.config /\ UNCHANGED <<panel, asked, requests, restarts>>
        BY <3>3, <4>1 DEF Heal, Written
      <4>3. CASE t.kind = "get"
        <5>1. tasks' = {} /\ page' = Visible(t.config)
          BY <3>3, <3>b, <4>3 DEF Heal
        <5>2. asked = t.config
          BY <4>1, <4>3, <3>b, WithConfig DEF MaySet
        <5>3. panel = asked.password
          BY <2>7, <4>3 DEF TaskOK, Applies
        <5>4. Visible(t.config) \in Pages
          BY <3>b DEF Visible, Pages, Config
        <5> QED  BY <3>0, <4>2, <5>1, <5>2, <5>3, <5>4 DEF OneByOne, Rest
      <4>4. CASE t.kind # "get"
        <5>1. PICK u : u = [t EXCEPT !.at = "change"] /\ tasks' = {u} /\ page' = page
          BY <3>3, <3>b, <4>4 DEF Heal, To, Becomes
        <5>2. /\ u.kind = t.kind /\ u.set = t.set /\ u.config = t.config
              /\ u.at = "change" /\ DOMAIN u = DOMAIN t
          BY <3>b, <5>1 DEF TaskFields
        <5>3. Standing(u)'
          BY <4>1, <4>2, <5>2 DEF Standing
        <5> QED  BY <3>a, <3>b, <4>2, <5>1, <5>2, <5>3
      <4> QED  BY <4>3, <4>4
    <3>4. CASE Change(t)
      <4>1. file = t.config /\ asked = With(t.config, t.set)
        BY <3>b, <3>4 DEF Change, Standing
      <4>2. PICK u : u = [t EXCEPT !.config = asked, !.at = "save"] /\ tasks' = {u}
        BY <3>b, <3>4, <4>1 DEF Change, Becomes, Changed
      <4>3. /\ u.kind = t.kind /\ u.set = t.set /\ u.config = asked /\ u.at = "save"
            /\ DOMAIN u = DOMAIN t
        BY <3>b, <4>2 DEF TaskFields
      <4>4. file' = file /\ UNCHANGED <<panel, asked, page, requests, restarts>>
        BY <3>4 DEF Change
      <4>5. Standing(u)'
        BY <3>b, <4>1, <4>3, <4>4 DEF Standing
      <4> QED  BY <3>0, <3>a, <4>2, <4>3, <4>4, <4>5
    <3>5. CASE Save(t)
      <4>1. file = Torn /\ t.config = asked
        BY <3>b, <3>5 DEF Save, Standing
      <4>2. /\ file' = asked /\ tasks' = {}
            /\ UNCHANGED <<asked, page, requests, restarts>>
        BY <3>b, <3>5, <4>1 DEF Save, Written
      <4>3. panel' = asked.password
        BY <2>7, <3>5, <4>1 DEF Save, TaskOK
      <4> QED  BY <3>0, <4>2, <4>3 DEF OneByOne, Rest
    <3> QED  BY <2>7, <3>1, <3>2, <3>3, <3>4, <3>5
  <2>8. CASE RestartBot
    <3>1. Rest /\ file = asked /\ panel = file.password
      BY <2>8 DEF RestartBot, OneByOne, Rest
    <3>2. file # Torn
      BY <3>1, TornApart DEF OneByOne
    <3>3. file' = file /\ panel' = file.password /\ tasks' = {} /\ asked' = asked
            /\ page' = page /\ requests' = requests /\ restarts' = restarts + 1
      BY <2>8, <3>1, <3>2 DEF RestartBot, OneByOne
    <3> QED  BY <3>1, <3>3 DEF OneByOne, Rest
  <2>9. CASE UNCHANGED settingsVars
    BY <2>9 DEF settingsVars, OneByOne, Rest, TaskOK, Standing, Applies
  <2> QED  BY <2>1, <2>2, <2>3, <2>4, <2>5, <2>6, <2>7, <2>8, <2>9
           DEF SettingsNext, OneByOne, Rest
<1>3. OneByOne => SettingsKept
  BY DEF OneByOne, SettingsKept, Rest
<1> QED  BY <1>1, <1>2, <1>3, PTL DEF SettingsSpec

-----------------------------------------------------------------------------
(* Windows, signs and lines *)
Signs == {"priceSign", "durationSign"}
Menus == {"house", "manage", "create", "bin", "duration", "confirm", "bids", "view"}
WindowKinds == Menus \cup Signs \cup {"none"}
Goods == Items \cup {NoItem}
Windows == [id : Nat, kind : WindowKinds, about : Nat]
Said == {"open", "sign", "stuck", "started", "sold", "cancelled", "missing"}
Modes == {"Idle", "Selling", "ClaimingSold", "ClaimingPurchased", "CancellingAuction", "Purchasing"}
Clicks == {"clicks manage", "clicks create", "clicks BIN", "clicks duration", "clicks custom",
           "clicks confirm", "clicks yes"}
Stages == Modes \cup Clicks \cup {"starts", "clears", "finds none", "picks", "prices", "listed"}
Packets == [is : Said, id : Nat, kind : WindowKinds, about : Nat]
Lines == {p \in Packets : p.is \notin {"open", "sign"}}
Auctions == [item : Goods \cup {Theirs}, price : Nat, by : Nat, wanted : Goods \cup {Theirs},
             at : {"active", "sold", "gone"}]
WindowHandlers == [window : Nat, kind : WindowKinds, about : Nat, at : Stages,
                   slots : SUBSET Slots]

HouseTypes ==
    /\ inventory \in [Slots -> Goods] /\ price \in Nat
    /\ preview \in [item : Goods, by : Nat, wanted : Goods]
    /\ auctions \in Seq(Auctions)
    /\ window \in Windows /\ opened \in Nat /\ current \in Nat /\ generation \in Nat
    /\ packets \in Seq(Packets) /\ mode \in Modes
    /\ context \in [item : Goods, slot : Nat, price : Nat]
    /\ uuids \in Seq(Nat) /\ handlers \subseteq WindowHandlers

(* Windows come in the order of their numbers, and each has one handler.   *)
(* A sign is answered before any window that was asked for later; until    *)
(* then the sign is open, or the house that was asked for instead.         *)
WindowsInOrder ==
    /\ current <= opened
    /\ window.id = IF window.kind \in Menus THEN opened ELSE 0
    /\ window.kind \in Signs => current = opened
    /\ \A k \in DOMAIN packets : packets[k].is = "open" =>
          /\ current < packets[k].id /\ packets[k].id <= opened
          /\ packets[k].kind \in Menus
          /\ packets[k].id = window.id => packets[k].kind = window.kind
    /\ \A j, k \in DOMAIN packets :
          j < k /\ packets[k].is = "open" /\ packets[j].is = "open" =>
             packets[j].id < packets[k].id
    /\ \A j, k \in DOMAIN packets :
          j < k /\ packets[k].is = "sign" => packets[j].is \notin {"open", "sign"}
    /\ \A k \in DOMAIN packets : packets[k].is = "sign" =>
          window.kind \in Signs \/ (window.id > current /\ window.kind \in {"house", "view"})
    /\ \A h \in handlers : /\ h.window \in 1 .. current
                           /\ h.window = window.id => h.kind = window.kind
    /\ \A g, h \in handlers : g.window = h.window => g = h

(* What a step may do to the windows *)
QuietAfter(rest) ==
    /\ opened' = opened
    /\ window' = window \/ (window.id \in 1 .. current /\ window' = NoWindow)
    /\ packets' = rest \/ \E p \in Lines : packets' = Append(rest, p)

OpensOne(rest, kinds) == \E kind \in kinds, about \in Nat : OpensAfter(rest, kind, about)

AtWindow == window.id = current /\ current # 0

OpensThere ==
    /\ AtWindow
    /\ OpensOne(packets, Menus) \/ \E kind \in Signs : SignOpens(kind)

SignIsWritten ==
    /\ window.kind \in Signs /\ packets # <<>> /\ Head(packets).is = "sign"
    /\ OpensOne(Tail(packets), {"bin"})

Rests == {packets} \cup {q \in {Tail(packets)} : packets # <<>>}

WindowStep ==
    \/ \E rest \in Rests : QuietAfter(rest) \/ OpensOne(rest, {"house", "view"})
    \/ OpensThere
    \/ SignIsWritten

(* ... and to the handlers: one goes on or ends *)
HandlersAfter(h, at, slots) ==
    handlers' = (handlers \ {h}) \cup {[h EXCEPT !.at = at, !.slots = slots]}

HandlersStep(h) ==
    Ends(h) \/ \E at \in Stages, slots \in SUBSET Slots : HandlersAfter(h, at, slots)

(* What is left of the packets when the first is taken *)
LEMMA Later ==
    ASSUME NEW S, NEW q \in Seq(S), q # <<>>
    PROVE  /\ Tail(q) \in Seq(S) /\ Head(q) = q[1] /\ q[1] \in S /\ 1 \in DOMAIN q
           /\ \A k \in DOMAIN Tail(q) : k + 1 \in DOMAIN q /\ Tail(q)[k] = q[k + 1]
<1>1. /\ Tail(q) \in Seq(S) /\ Head(q) = q[1] /\ Len(q) \in Nat /\ Len(q) > 0
      /\ Len(Tail(q)) = Len(q) - 1
      /\ \A k \in 1 .. Len(Tail(q)) : Tail(q)[k] = q[k + 1]
  BY HeadTailProperties, EmptySeq, LenProperties
<1>2. DOMAIN q = 1 .. Len(q) /\ DOMAIN Tail(q) = 1 .. Len(Tail(q))
  BY <1>1, LenProperties
<1> QED  BY <1>1, <1>2, ElementOfSeq

(* ... and when one more is sent *)
LEMMA Appended ==
    ASSUME NEW S, NEW q \in Seq(S), NEW e \in S
    PROVE  /\ Append(q, e) \in Seq(S)
           /\ \A k \in DOMAIN q : k \in DOMAIN Append(q, e) /\ Append(q, e)[k] = q[k]
           /\ \A k \in DOMAIN Append(q, e) :
                 \/ k \in DOMAIN q /\ Append(q, e)[k] = q[k]
                 \/ k = Len(q) + 1 /\ Append(q, e)[k] = e
           /\ \A k \in DOMAIN q : k \in Nat /\ k <= Len(q)
<1>1. /\ Append(q, e) \in Seq(S) /\ Len(Append(q, e)) = Len(q) + 1
      /\ \A k \in 1 .. Len(q) : Append(q, e)[k] = q[k]
      /\ Append(q, e)[Len(q) + 1] = e
  BY AppendProperties
<1>2. DOMAIN q = 1 .. Len(q) /\ DOMAIN Append(q, e) = 1 .. Len(q) + 1 /\ Len(q) \in Nat
  BY <1>1, LenProperties
<1> QED  BY <1>1, <1>2

(* A rest is in order as the packets were. *)
InOrder(q) ==
    /\ \A k \in DOMAIN q : q[k].is = "open" =>
          /\ current < q[k].id /\ q[k].id <= opened /\ q[k].kind \in Menus
          /\ q[k].id = window.id => q[k].kind = window.kind
    /\ \A j, k \in DOMAIN q :
          j < k /\ q[k].is = "open" /\ q[j].is = "open" => q[j].id < q[k].id
    /\ \A j, k \in DOMAIN q :
          j < k /\ q[k].is = "sign" => q[j].is \notin {"open", "sign"}
    /\ \A k \in DOMAIN q : q[k].is = "sign" =>
          window.kind \in Signs \/ (window.id > current /\ window.kind \in {"house", "view"})

LEMMA RestInOrder ==
    ASSUME HouseTypes, WindowsInOrder, NEW rest \in Rests
    PROVE  rest \in Seq(Packets) /\ InOrder(rest)
<1>0. packets \in Seq(Packets) /\ InOrder(packets)
  BY DEF HouseTypes, WindowsInOrder, InOrder
<1>1. CASE rest = packets
  BY <1>0, <1>1
<1>2. CASE packets # <<>> /\ rest = Tail(packets)
  <2>1. /\ rest \in Seq(Packets)
        /\ \A k \in DOMAIN rest : k + 1 \in DOMAIN packets /\ rest[k] = packets[k + 1]
    BY <1>0, <1>2, Later
  <2>2. \A k \in DOMAIN rest : k \in Nat
    BY <2>1, LenProperties
  <2>3. \A j, k \in DOMAIN rest : j < k => j + 1 < k + 1
    BY <2>2
  <2>4. \A j, k \in DOMAIN rest : j < k =>
          /\ rest[k].is = "open" /\ rest[j].is = "open" => rest[j].id < rest[k].id
          /\ rest[k].is = "sign" => rest[j].is \notin {"open", "sign"}
    <3> SUFFICES ASSUME NEW j \in DOMAIN rest, NEW k \in DOMAIN rest, j < k
                 PROVE  /\ rest[k].is = "open" /\ rest[j].is = "open" => rest[j].id < rest[k].id
                        /\ rest[k].is = "sign" => rest[j].is \notin {"open", "sign"}
      OBVIOUS
    <3>1. /\ j + 1 \in DOMAIN packets /\ k + 1 \in DOMAIN packets /\ j + 1 < k + 1
          /\ rest[j] = packets[j + 1] /\ rest[k] = packets[k + 1]
      BY <2>1, <2>3
    <3> QED  BY <3>1, <1>0 DEF InOrder
  <2> QED  BY <2>1, <2>4, <1>0 DEF InOrder
<1> QED  BY <1>1, <1>2 DEF Rests

(* The handlers that are left *)
LEMMA HandlersLeft ==
    ASSUME HouseTypes, WindowsInOrder,
           handlers' = handlers \/ \E h \in handlers : HandlersStep(h)
    PROVE  /\ handlers' \subseteq WindowHandlers
           /\ \A f \in handlers' : \E h \in handlers : f.window = h.window /\ f.kind = h.kind
           /\ \A f, g \in handlers' : f.window = g.window => f = g
<1>1. CASE handlers' = handlers
  BY <1>1 DEF HouseTypes, WindowsInOrder
<1>2. ASSUME NEW h \in handlers, Ends(h)
      PROVE  handlers' \subseteq handlers
  BY <1>2 DEF Ends
<1>3. ASSUME NEW h \in handlers, NEW at \in Stages, NEW slots \in SUBSET Slots,
             HandlersAfter(h, at, slots)
      PROVE  /\ handlers' \subseteq WindowHandlers
             /\ \A f \in handlers' : \E g \in handlers : f.window = g.window /\ f.kind = g.kind
             /\ \A f, g \in handlers' : f.window = g.window => f = g
  <2> DEFINE f == [h EXCEPT !.at = at, !.slots = slots]
  <2>1. f \in WindowHandlers /\ f.window = h.window /\ f.kind = h.kind
    BY DEF HouseTypes, WindowHandlers
  <2>2. handlers' = (handlers \ {h}) \cup {f}
    BY <1>3 DEF HandlersAfter
  <2> HIDE DEF f
  <2>3. \A g \in handlers' : g = f \/ (g \in handlers /\ g # h)
    BY <2>2
  <2>4. handlers' \subseteq WindowHandlers
    BY <2>1, <2>3 DEF HouseTypes
  <2>5. \A e, g \in handlers' : e.window = g.window => e = g
    BY <2>1, <2>3 DEF WindowsInOrder
  <2> QED  BY <2>1, <2>3, <2>4, <2>5
<1>4. ASSUME NEW h \in handlers, Ends(h)
      PROVE  /\ handlers' \subseteq WindowHandlers
             /\ \A f \in handlers' : \E g \in handlers : f.window = g.window /\ f.kind = g.kind
             /\ \A f, g \in handlers' : f.window = g.window => f = g
  BY <1>4, <1>2 DEF HouseTypes, WindowsInOrder
<1> QED  BY <1>1, <1>3, <1>4 DEF HandlersStep

(* Windows stay in order whatever a step opens, writes or closes. *)
WindowTypes == /\ packets \in Seq(Packets) /\ window \in Windows /\ opened \in Nat
               /\ current \in Nat /\ handlers \subseteq WindowHandlers

LEMMA WindowsStay ==
    ASSUME HouseTypes, WindowsInOrder, WindowStep, current' = current,
           handlers' = handlers \/ \E h \in handlers : HandlersStep(h)
    PROVE  WindowsInOrder' /\ WindowTypes'
<1>h. /\ handlers' \subseteq WindowHandlers
      /\ \A f \in handlers' : \E h \in handlers : f.window = h.window /\ f.kind = h.kind
      /\ \A f, g \in handlers' : f.window = g.window => f = g
  BY HandlersLeft
<1>t. /\ window \in Windows /\ opened \in Nat /\ current \in Nat /\ packets \in Seq(Packets)
      /\ window.id \in Nat /\ window.kind \in WindowKinds
  BY DEF HouseTypes, Windows
<1>m. "none" \notin Menus /\ Signs \cap Menus = {} /\ {"house", "view", "bin"} \subseteq Menus
  BY DEF Menus, Signs
<1>w. /\ current <= opened
      /\ window.id = IF window.kind \in Menus THEN opened ELSE 0
      /\ window.kind \in Signs => current = opened
      /\ \A h \in handlers : /\ h.window \in 1 .. current
                             /\ h.window = window.id => h.kind = window.kind
  BY DEF WindowsInOrder
<1>1. ASSUME NEW rest \in Rests, QuietAfter(rest)
      PROVE  WindowsInOrder' /\ WindowTypes'
  <2>0. rest \in Seq(Packets) /\ InOrder(rest)
    BY RestInOrder
  <2>1. /\ opened' = opened /\ window' \in Windows
        /\ \/ window' = window
           \/ window.id \in 1 .. current /\ window'.kind = "none" /\ window'.id = 0
    BY <1>1, <1>t DEF QuietAfter, NoWindow, Windows, WindowKinds
  <2>2. /\ packets' \in Seq(Packets)
        /\ \A k \in DOMAIN packets' :
              \/ k \in DOMAIN rest /\ packets'[k] = rest[k]
              \/ packets'[k].is \notin {"open", "sign"} /\ k = Len(rest) + 1
        /\ \A k \in DOMAIN rest : k \in Nat /\ k <= Len(rest)
    <3>1. CASE packets' = rest
      BY <3>1, <2>0, LenProperties
    <3>2. ASSUME NEW p \in Lines, packets' = Append(rest, p)
          PROVE  /\ packets' \in Seq(Packets)
                 /\ \A k \in DOMAIN packets' :
                       \/ k \in DOMAIN rest /\ packets'[k] = rest[k]
                       \/ packets'[k].is \notin {"open", "sign"} /\ k = Len(rest) + 1
                 /\ \A k \in DOMAIN rest : k \in Nat /\ k <= Len(rest)
      <4>1. p \in Packets /\ p.is \notin {"open", "sign"}
        BY DEF Lines
      <4> QED  BY <2>0, <3>2, <4>1, Appended
    <3> QED  BY <3>1, <3>2, <1>1 DEF QuietAfter
  <2>3. \A k \in DOMAIN packets' :
           packets'[k].is \in {"open", "sign"} => k \in DOMAIN rest /\ packets'[k] = rest[k]
    BY <2>2
  <2>r. \A k \in DOMAIN rest : rest[k] \in Packets
    BY <2>0, ElementOfSeq, LenProperties
  <2>i. \A k \in DOMAIN rest : rest[k].id \in Nat
    BY <2>r DEF Packets
  <2>4. \A k \in DOMAIN packets' : packets'[k].is = "open" =>
          /\ current < packets'[k].id /\ packets'[k].id <= opened /\ packets'[k].kind \in Menus
          /\ packets'[k].id = window'.id => packets'[k].kind = window'.kind
    <3> SUFFICES ASSUME NEW k \in DOMAIN packets', packets'[k].is = "open"
                 PROVE  /\ current < packets'[k].id /\ packets'[k].id <= opened
                        /\ packets'[k].kind \in Menus
                        /\ packets'[k].id = window'.id => packets'[k].kind = window'.kind
      OBVIOUS
    <3>1. k \in DOMAIN rest /\ packets'[k] = rest[k]
      BY <2>3
    <3>2. /\ current < rest[k].id /\ rest[k].id <= opened /\ rest[k].kind \in Menus
          /\ rest[k].id = window.id => rest[k].kind = window.kind
      BY <3>1, <2>0 DEF InOrder
    <3>3. rest[k].id # 0
      BY <3>1, <3>2, <2>i, <1>t
    <3> QED  BY <3>1, <3>2, <3>3, <2>1
  <2>5. \A j, k \in DOMAIN packets' :
          j < k /\ packets'[k].is = "open" /\ packets'[j].is = "open" =>
             packets'[j].id < packets'[k].id
    BY <2>0, <2>3 DEF InOrder
  <2>6. \A j, k \in DOMAIN packets' :
          j < k /\ packets'[k].is = "sign" => packets'[j].is \notin {"open", "sign"}
    BY <2>0, <2>3 DEF InOrder
  <2>7. \A k \in DOMAIN packets' : packets'[k].is = "sign" =>
          window'.kind \in Signs \/ (window'.id > current /\ window'.kind \in {"house", "view"})
    <3> SUFFICES ASSUME NEW k \in DOMAIN packets', packets'[k].is = "sign"
                 PROVE  window'.kind \in Signs
                        \/ (window'.id > current /\ window'.kind \in {"house", "view"})
      OBVIOUS
    <3>1. window.kind \in Signs \/ (window.id > current /\ window.kind \in {"house", "view"})
      BY <2>0, <2>3 DEF InOrder
    <3>2. window.id \notin 1 .. current
      BY <3>1, <1>w, <1>m, <1>t
    <3> QED  BY <3>1, <3>2, <2>1
  <2>8. \A h \in handlers' : /\ h.window \in 1 .. current
                             /\ h.window = window'.id => h.kind = window'.kind
    BY <1>h, <1>w, <2>1, <1>t
  <2>9. /\ window'.id = IF window'.kind \in Menus THEN opened ELSE 0
        /\ window'.kind \in Signs => current = opened
    BY <1>w, <1>m, <2>1 DEF Signs
  <2>10. WindowTypes'
    BY <2>1, <2>2, <1>h, <1>t DEF WindowTypes
  <2> QED  BY <2>1, <2>4, <2>5, <2>6, <2>7, <2>8, <2>9, <2>10, <1>w, <1>h DEF WindowsInOrder
<1>2. ASSUME NEW rest \in Rests, NEW kinds \in SUBSET Menus, OpensOne(rest, kinds),
             \/ \A k \in DOMAIN rest : rest[k].is # "sign"
             \/ kinds = {"house", "view"}
      PROVE  WindowsInOrder' /\ WindowTypes'
  <2>0. rest \in Seq(Packets) /\ InOrder(rest)
    BY RestInOrder
  <2>1. PICK kind \in kinds, about \in Nat : OpensAfter(rest, kind, about)
    BY <1>2 DEF OpensOne
  <2> DEFINE p == [is |-> "open", id |-> opened + 1, kind |-> kind, about |-> about]
  <2>2. /\ window' \in Windows /\ opened' = opened + 1 /\ window'.id = opened + 1
        /\ window'.kind = kind /\ packets' = Append(rest, p) /\ p \in Packets /\ kind \in Menus
    <3>1. kind \in Menus /\ kind \in WindowKinds /\ opened + 1 \in Nat /\ about \in Nat
      BY <1>t DEF WindowKinds
    <3>2. p \in Packets
      BY <3>1 DEF Packets, Said
    <3>3. /\ window' = [id |-> opened + 1, kind |-> kind, about |-> about]
          /\ packets' = Append(rest, p) /\ opened' = opened + 1
      BY <2>1 DEF OpensAfter
    <3> QED  BY <3>1, <3>2, <3>3 DEF Windows
  <2>p. p.is = "open" /\ p.id = opened + 1 /\ p.kind = kind
    OBVIOUS
  <2> HIDE DEF p
  <2>3. /\ packets' \in Seq(Packets)
        /\ \A k \in DOMAIN packets' : \/ k \in DOMAIN rest /\ packets'[k] = rest[k]
                                      \/ k = Len(rest) + 1 /\ packets'[k] = p
        /\ \A k \in DOMAIN rest : k \in Nat /\ k <= Len(rest)
    BY <2>0, <2>2, Appended
  <2>e. \A k \in DOMAIN rest : rest[k] \in Packets
    BY <2>0, ElementOfSeq, LenProperties
  <2>r. \A k \in DOMAIN rest : rest[k] \in Packets /\ rest[k].id \in Nat
    BY <2>e DEF Packets
  <2>l. Len(rest) \in Nat
    BY <2>0, LenProperties
  <2>4. \A k \in DOMAIN packets' : packets'[k].is = "open" =>
          /\ current < packets'[k].id /\ packets'[k].id <= opened' /\ packets'[k].kind \in Menus
          /\ packets'[k].id = window'.id => packets'[k].kind = window'.kind
    BY <2>0, <2>2, <2>p, <2>3, <2>r, <1>t, <1>w DEF InOrder
  <2>5. \A j, k \in DOMAIN packets' :
          j < k => j \in DOMAIN rest /\ packets'[j] = rest[j]
    BY <2>3, <2>l
  <2>6. \A j, k \in DOMAIN packets' :
          j < k /\ packets'[k].is = "open" /\ packets'[j].is = "open" =>
             packets'[j].id < packets'[k].id
    <3> SUFFICES ASSUME NEW j \in DOMAIN packets', NEW k \in DOMAIN packets', j < k,
                        packets'[k].is = "open", packets'[j].is = "open"
                 PROVE  packets'[j].id < packets'[k].id
      OBVIOUS
    <3>1. j \in DOMAIN rest /\ packets'[j] = rest[j] /\ rest[j].id <= opened
      BY <2>5, <2>0 DEF InOrder
    <3>2. CASE k \in DOMAIN rest /\ packets'[k] = rest[k]
      BY <3>1, <3>2, <2>0 DEF InOrder
    <3>3. CASE packets'[k] = p
      BY <3>1, <3>3, <2>p, <2>r, <1>t
    <3> QED  BY <2>3, <3>2, <3>3
  <2>7. \A j, k \in DOMAIN packets' :
          j < k /\ packets'[k].is = "sign" => packets'[j].is \notin {"open", "sign"}
    <3> SUFFICES ASSUME NEW j \in DOMAIN packets', NEW k \in DOMAIN packets', j < k,
                        packets'[k].is = "sign"
                 PROVE  packets'[j].is \notin {"open", "sign"}
      OBVIOUS
    <3>1. j \in DOMAIN rest /\ packets'[j] = rest[j] /\ k \in DOMAIN rest /\ packets'[k] = rest[k]
      BY <2>3, <2>5, <2>p
    <3> QED  BY <3>1, <2>0 DEF InOrder
  <2>8. \A k \in DOMAIN packets' : packets'[k].is = "sign" =>
          window'.kind \in Signs \/ (window'.id > current /\ window'.kind \in {"house", "view"})
    BY <2>2, <2>3, <2>p, <1>2, <1>t, <1>w
  <2>9. \A h \in handlers' : /\ h.window \in 1 .. current
                             /\ h.window = window'.id => h.kind = window'.kind
    BY <1>h, <1>w, <2>2, <1>t
  <2>10. /\ window'.id = IF window'.kind \in Menus THEN opened' ELSE 0
         /\ window'.kind \notin Signs /\ current <= opened'
    BY <1>w, <1>m, <2>2, <1>t
  <2>11. WindowTypes'
    BY <2>2, <2>3, <1>h, <1>t DEF WindowTypes
  <2> QED  BY <2>4, <2>6, <2>7, <2>8, <2>9, <2>10, <2>11, <1>h DEF WindowsInOrder
<1>3. ASSUME NEW kind \in Signs, SignOpens(kind), AtWindow
      PROVE  WindowsInOrder' /\ WindowTypes'
  <2>0. packets \in Rests
    BY DEF Rests
  <2>1. packets \in Seq(Packets) /\ InOrder(packets)
    BY <2>0, RestInOrder
  <2>2. window.id = current /\ current # 0 /\ current = opened /\ window.kind \in Menus
    BY <1>3, <1>w DEF AtWindow
  <2> DEFINE p == [is |-> "sign", id |-> 0, kind |-> "none", about |-> 0]
  <2>3. /\ window' \in Windows /\ opened' = opened /\ window'.id = 0
        /\ window'.kind = kind /\ packets' = Append(packets, p) /\ p \in Packets
    <3>1. kind \in WindowKinds /\ "none" \in WindowKinds
      BY DEF WindowKinds
    <3>2. p \in Packets
      BY <3>1 DEF Packets, Said
    <3>3. /\ window' = [id |-> 0, kind |-> kind, about |-> 0]
          /\ packets' = Append(packets, p) /\ opened' = opened
      BY <1>3 DEF SignOpens, Sends, NoWindow
    <3> QED  BY <3>1, <3>2, <3>3 DEF Windows
  <2>p. p.is = "sign"
    OBVIOUS
  <2> HIDE DEF p
  <2>4. /\ packets' \in Seq(Packets)
        /\ \A k \in DOMAIN packets' : \/ k \in DOMAIN packets /\ packets'[k] = packets[k]
                                      \/ k = Len(packets) + 1 /\ packets'[k] = p
        /\ \A k \in DOMAIN packets : k \in Nat /\ k <= Len(packets)
    BY <2>1, <2>3, Appended
  <2>e. \A k \in DOMAIN packets : packets[k] \in Packets
    BY <2>1, ElementOfSeq, LenProperties
  <2>r. \A k \in DOMAIN packets : packets[k] \in Packets /\ packets[k].id \in Nat
    BY <2>e DEF Packets
  <2>5. \A k \in DOMAIN packets : packets[k].is \notin {"open", "sign"}
    BY <2>1, <2>2, <2>r, <1>t, <1>m DEF InOrder
  <2>6. \A k \in DOMAIN packets' : /\ packets'[k].is # "open"
                                   /\ packets'[k].is = "sign" => k = Len(packets) + 1
    BY <2>4, <2>5, <2>p
  <2>l. Len(packets) \in Nat
    BY <2>1, LenProperties
  <2>7. \A j, k \in DOMAIN packets' :
          j < k /\ packets'[k].is = "sign" => packets'[j].is \notin {"open", "sign"}
    BY <2>4, <2>6, <2>l
  <2>8. \A h \in handlers' : /\ h.window \in 1 .. current
                             /\ h.window = window'.id => h.kind = window'.kind
    BY <1>h, <1>w, <2>3, <1>t
  <2>9. /\ window'.id = IF window'.kind \in Menus THEN opened' ELSE 0
        /\ current = opened'
    BY <1>m, <2>2, <2>3
  <2>10. WindowTypes'
    BY <2>3, <2>4, <1>h, <1>t DEF WindowTypes
  <2> QED  BY <2>3, <2>6, <2>7, <2>8, <2>9, <2>10, <1>h, <1>t DEF WindowsInOrder
<1>4. CASE OpensThere
  <2>1. packets \in Rests
    BY DEF Rests
  <2>2. packets \in Seq(Packets) /\ InOrder(packets)
    BY <2>1, RestInOrder
  <2>3. \A k \in DOMAIN packets : packets[k].is # "sign"
    BY <2>2, <1>4, <1>w, <1>m, <1>t DEF InOrder, OpensThere, AtWindow
  <2> QED  BY <1>4, <2>1, <2>3, <1>2, <1>3 DEF OpensThere
<1>5. CASE SignIsWritten
  <2>1. Tail(packets) \in Rests
    BY <1>5 DEF Rests, SignIsWritten
  <2>2. /\ \A k \in DOMAIN Tail(packets) :
              k + 1 \in DOMAIN packets /\ Tail(packets)[k] = packets[k + 1]
        /\ Tail(packets) \in Seq(Packets) /\ packets[1].is = "sign" /\ 1 \in DOMAIN packets
    BY <1>5, <1>t, Later DEF SignIsWritten
  <2>3. \A k \in DOMAIN Tail(packets) : k \in Nat /\ 1 < k + 1
    BY <2>2, LenProperties
  <2>4. \A k \in DOMAIN Tail(packets) : Tail(packets)[k].is # "sign"
    BY <2>2, <2>3 DEF WindowsInOrder
  <2>5. {"bin"} \in SUBSET Menus
    BY <1>m
  <2> QED  BY <1>5, <2>1, <2>4, <2>5, <1>2 DEF SignIsWritten
<1> QED  BY <1>1, <1>2, <1>4, <1>5, <1>m DEF WindowStep

(* A window is reported to the client. *)
LEMMA WindowReported ==
    ASSUME HouseTypes, WindowsInOrder, OnOpenScreen
    PROVE  /\ WindowsInOrder' /\ WindowTypes' /\ window.kind \notin Signs
           /\ \A k \in DOMAIN packets : packets[k].is # "sign"
<1> DEFINE p == Head(packets)
           h == [window |-> p.id, kind |-> p.kind, about |-> p.about, at |-> "starts",
                 slots |-> {}]
<1>0. packets # <<>> /\ p.is = "open" /\ packets' = Tail(packets)
  BY DEF OnOpenScreen, Take, Done
<1>t. /\ window \in Windows /\ opened \in Nat /\ current \in Nat /\ packets \in Seq(Packets)
      /\ window.id \in Nat /\ window.kind \in WindowKinds
  BY DEF HouseTypes, Windows
<1>1. /\ p = packets[1] /\ 1 \in DOMAIN packets /\ p \in Packets
      /\ Tail(packets) \in Seq(Packets)
      /\ \A k \in DOMAIN Tail(packets) :
            k + 1 \in DOMAIN packets /\ Tail(packets)[k] = packets[k + 1]
  BY <1>0, <1>t, Later
<1>2. /\ p.id \in Nat /\ p.kind \in Menus /\ p.about \in Nat
      /\ current < p.id /\ p.id <= opened /\ (p.id = window.id => p.kind = window.kind)
  BY <1>0, <1>1 DEF WindowsInOrder, Packets
<1>3. \A k \in DOMAIN packets : k \in Nat /\ k >= 1 /\ packets[k] \in Packets
  BY <1>t, LenProperties, ElementOfSeq
<1>4. \A k \in DOMAIN packets : packets[k].is # "sign"
  <2>1. \A k \in DOMAIN packets : k = 1 \/ 1 < k
    BY <1>3
  <2> QED  BY <2>1, <1>0, <1>1 DEF WindowsInOrder
<1>5. \A k \in DOMAIN Tail(packets) : k \in Nat /\ k + 1 > 1
  BY <1>1, LenProperties
<1>6. window.kind \notin Signs
  BY <1>2, <1>t DEF WindowsInOrder
<1>7. /\ current' = p.id /\ handlers' = handlers \cup {h}
      /\ opened' = opened /\ window' = window
  BY DEF OnOpenScreen, serverVars
<1> HIDE DEF p
<1>8. h \in WindowHandlers /\ h.window = p.id /\ h.kind = p.kind
  <2>1. p.kind \in WindowKinds /\ p.id \in Nat /\ p.about \in Nat
    BY <1>2 DEF WindowKinds
  <2> QED  BY <2>1 DEF WindowHandlers, Stages
<1> HIDE DEF h
<1>9. WindowTypes'
  BY <1>0, <1>1, <1>2, <1>7, <1>8, <1>t DEF WindowTypes, HouseTypes
<1>10. \A k \in DOMAIN packets' :
          /\ packets'[k].is # "sign"
          /\ packets'[k].is = "open" =>
                /\ p.id < packets'[k].id /\ packets'[k].id <= opened /\ packets'[k].kind \in Menus
                /\ packets'[k].id = window.id => packets'[k].kind = window.kind
  BY <1>0, <1>1, <1>4, <1>5 DEF WindowsInOrder
<1>11. \A j, k \in DOMAIN packets' :
          j < k /\ packets'[k].is = "open" /\ packets'[j].is = "open" =>
             packets'[j].id < packets'[k].id
  <2>1. \A j, k \in DOMAIN Tail(packets) : j < k => j + 1 < k + 1
    BY <1>5
  <2> QED  BY <2>1, <1>0, <1>1 DEF WindowsInOrder
<1>12. \A g \in handlers' : /\ g.window \in 1 .. p.id
                            /\ g.window = window.id => g.kind = window.kind
  BY <1>2, <1>7, <1>8, <1>t DEF WindowsInOrder
<1>13. \A f, g \in handlers' : f.window = g.window => f = g
  <2>1. \A g \in handlers : g.window # p.id
    BY <1>2, <1>t DEF WindowsInOrder
  <2> QED  BY <2>1, <1>7, <1>8 DEF WindowsInOrder
<1>14. window.id = IF window.kind \in Menus THEN opened ELSE 0
  BY DEF WindowsInOrder
<1> QED  BY <1>2, <1>4, <1>6, <1>7, <1>9, <1>10, <1>11, <1>12, <1>13, <1>14 DEF WindowsInOrder

-----------------------------------------------------------------------------
(* What is in the preview, and whose price it gets *)
Opening == {"Initial", "OpenManage", "ClickCreate", "SelectBIN", "PriceSign"}
Leading == {"clicks manage", "clicks create", "clicks BIN", "clears", "picks", "prices"}

(* What is in the preview carries the price that was written last. *)
Good == preview = Empty \/ price = preview.by

Listing == mode = "Selling" /\ ~ aborted

(* The line of the stuck item comes before the next sign. *)
StuckFirst(q) ==
    \E j \in DOMAIN q : q[j].is = "stuck" /\ \A k \in DOMAIN q : k < j => q[k].is # "sign"

OwnPreview == preview = Empty \/ preview.by = context.price \/ StuckFirst(packets)

HandlerOK(h) ==
    /\ h.at \in {"clears", "picks", "prices", "clicks duration", "clicks confirm"} => h.kind = "bin"
    /\ h.at = "clicks custom" => h.kind = "duration"
    /\ h.at = "clicks yes" => h.kind = "confirm"
    /\ h.at = "Selling" => context.item # NoItem
    /\ h.window = window.id =>
          /\ h.at \in Leading => step \in Opening
          /\ h.at \in {"clicks duration", "clicks confirm"} => Good
          /\ h.at \in {"clears", "picks"} => \A s \in h.slots : inventory[s] # NoItem
          /\ h.at = "prices" /\ Listing => OwnPreview

WindowOK ==
    /\ window.kind \in {"duration", "durationSign", "confirm"} => Good
    /\ window.kind = "bin" /\ step \notin Opening => Good
    /\ window.kind = "priceSign" => step \in Opening /\ (Listing => OwnPreview)

ContextOK ==
    /\ mode = "Selling" => context.price = generation /\ context.item # NoItem
    /\ context.item # NoItem => context.slot \in Slots

PreviewOK == preview # Empty => preview.item # NoItem

AuctionsOK ==
    \A n \in DOMAIN auctions :
       /\ auctions[n].price = auctions[n].by
       /\ auctions[n].item # Theirs => auctions[n].item # NoItem

Priced == (\A h \in handlers : HandlerOK(h)) /\ WindowOK /\ ContextOK /\ PreviewOK /\ AuctionsOK

House == HouseTypes /\ WindowsInOrder /\ Priced

(* What a step may do to the goods: what it takes from the preview goes    *)
(* back, and auctions keep what they are about                             *)
PreviewKept ==
    /\ inventory' \in [Slots -> Goods]
    /\ \A s \in Slots : inventory[s] # NoItem => inventory'[s] # NoItem
    /\ preview' \in {preview, Empty}

AuctionsKept ==
    /\ auctions' \in Seq(Auctions)
    /\ \A n \in DOMAIN auctions' :
          /\ n \in DOMAIN auctions /\ auctions'[n].item = auctions[n].item
          /\ auctions'[n].price = auctions[n].price /\ auctions'[n].by = auctions[n].by

GoodsKept == PreviewKept /\ AuctionsKept /\ price' = price

(* ... and to the flow of a listing *)
FlowKept ==
    /\ context' = context /\ generation' \in {generation, generation + 1}
    /\ mode' = "Selling" => mode = "Selling" /\ generation' = generation
    /\ Listing' => Listing
    /\ step \in Opening => step' \in Opening

HandlersFine == \A g \in handlers' : g \in handlers \/ HandlerOK(g)'

Interesting == Clicks \cup {"clears", "picks", "prices", "Selling"}

LEMMA PlainIsOK == ASSUME NEW g, g.at \notin Interesting PROVE HandlerOK(g)'
BY DEF HandlerOK, Interesting, Clicks, Leading

LEMMA StuckStays ==
    ASSUME packets \in Seq(Packets), NEW rest \in Rests,
           rest = packets \/ Head(packets).is # "stuck",
           packets' = rest \/ \E p \in Packets : packets' = Append(rest, p),
           StuckFirst(packets)
    PROVE  StuckFirst(packets')
<1>1. rest \in Seq(Packets) /\ StuckFirst(rest)
  <2>1. CASE rest = packets
    BY <2>1
  <2>2. CASE packets # <<>> /\ rest = Tail(packets) /\ Head(packets).is # "stuck"
    <3>1. PICK j \in DOMAIN packets :
             packets[j].is = "stuck" /\ \A k \in DOMAIN packets : k < j => packets[k].is # "sign"
      BY DEF StuckFirst
    <3>2. /\ rest \in Seq(Packets) /\ packets[1].is # "stuck"
          /\ Len(packets) \in Nat /\ Len(packets) > 0 /\ Len(rest) = Len(packets) - 1
          /\ \A k \in 1 .. Len(rest) : rest[k] = packets[k + 1]
      BY <2>2, Later, HeadTailProperties, EmptySeq, LenProperties
    <3>3. DOMAIN packets = 1 .. Len(packets) /\ DOMAIN rest = 1 .. Len(rest)
      BY <3>2, LenProperties
    <3>4. j \in Nat /\ j # 1 /\ j - 1 \in DOMAIN rest /\ rest[j - 1] = packets[j]
      BY <3>1, <3>2, <3>3
    <3>5. \A k \in DOMAIN rest : k < j - 1 => k + 1 \in DOMAIN packets /\ k + 1 < j
      BY <3>2, <3>3, <3>4
    <3>6. \A k \in DOMAIN rest : k < j - 1 => rest[k].is # "sign"
      BY <3>1, <3>2, <3>3, <3>5
    <3> QED  BY <3>1, <3>2, <3>4, <3>6 DEF StuckFirst
  <2> QED  BY <2>1, <2>2 DEF Rests
<1>2. ASSUME NEW p \in Packets, packets' = Append(rest, p)
      PROVE  StuckFirst(packets')
  <2>1. PICK j \in DOMAIN rest :
           rest[j].is = "stuck" /\ \A k \in DOMAIN rest : k < j => rest[k].is # "sign"
    BY <1>1 DEF StuckFirst
  <2>2. /\ \A k \in DOMAIN rest : k \in DOMAIN packets' /\ packets'[k] = rest[k]
        /\ \A k \in DOMAIN packets' :
              (k \in DOMAIN rest /\ packets'[k] = rest[k]) \/ k = Len(rest) + 1
        /\ \A k \in DOMAIN rest : k \in Nat /\ k <= Len(rest)
    BY <1>1, <1>2, Appended
  <2>3. Len(rest) \in Nat
    BY <1>1, LenProperties
  <2>4. \A k \in DOMAIN packets' : k < j => k \in DOMAIN rest
    BY <2>2, <2>3
  <2> QED  BY <2>1, <2>2, <2>4 DEF StuckFirst
<1> QED  BY <1>1, <1>2

(* The goods that are kept are in order. *)
GoodsOK == /\ inventory \in [Slots -> Goods] /\ price \in Nat /\ auctions \in Seq(Auctions)
           /\ preview \in [item : Goods, by : Nat, wanted : Goods]
           /\ PreviewOK /\ AuctionsOK

LEMMA GoodsStayOK == ASSUME House, GoodsKept PROVE GoodsOK' /\ (Good => Good')
<1>1. GoodsOK
  BY DEF House, Priced, HouseTypes, GoodsOK
<1>2. Empty \in [item : Goods, by : Nat, wanted : Goods]
  BY DEF Empty, Goods
<1>3. PreviewOK' /\ (Good => Good')
  BY <1>1 DEF GoodsOK, GoodsKept, PreviewKept, PreviewOK, Good
<1>4. AuctionsOK'
  BY <1>1 DEF GoodsOK, GoodsKept, AuctionsKept, AuctionsOK
<1> QED  BY <1>1, <1>2, <1>3, <1>4 DEF GoodsOK, GoodsKept, PreviewKept, AuctionsKept

(* A step that opens nothing *)
LEMMA QuietStep ==
    ASSUME House, GoodsOK', GoodsKept \/ window' = NoWindow, FlowKept,
           NEW rest \in Rests, QuietAfter(rest),
           rest = packets \/ (Head(packets).is = "stuck" => ~ Listing'),
           current' = current, mode' \in Modes, uuids' \in Seq(Nat),
           handlers' = handlers \/ \E h \in handlers : HandlersStep(h), HandlersFine
    PROVE  House'
<1>1. WindowsInOrder' /\ WindowTypes'
  <2>1. WindowStep
    BY DEF WindowStep
  <2> QED  BY <2>1, WindowsStay DEF House
<1>2. HouseTypes'
  BY <1>1 DEF House, HouseTypes, WindowTypes, FlowKept, GoodsOK
<1>3. PreviewOK' /\ AuctionsOK' /\ ContextOK' /\ (Good /\ GoodsKept => Good')
  BY GoodsStayOK DEF House, Priced, ContextOK, FlowKept, GoodsOK
<1>4. Listing' => Listing /\ (StuckFirst(packets) => StuckFirst(packets'))
  <2>1. packets \in Seq(Packets) /\ (Listing' => Listing)
    BY DEF House, HouseTypes, FlowKept
  <2>2. packets' = rest \/ \E p \in Packets : packets' = Append(rest, p)
    BY DEF QuietAfter, Lines
  <2> QED  BY <2>1, <2>2, StuckStays
<1>5. Listing' /\ OwnPreview /\ GoodsKept => OwnPreview'
  BY <1>4 DEF OwnPreview, GoodsKept, PreviewKept, FlowKept
<1>6. (window' = window /\ GoodsKept) \/ (window'.kind = "none" /\ window'.id = 0)
  BY DEF QuietAfter, NoWindow
<1>7. WindowOK'
  BY <1>3, <1>4, <1>5, <1>6 DEF House, Priced, WindowOK, FlowKept, Signs
<1>8. \A h \in handlers : HandlerOK(h)'
  <2> SUFFICES ASSUME NEW h \in handlers  PROVE HandlerOK(h)'
    OBVIOUS
  <2>1. HandlerOK(h) /\ context' = context /\ (step \in Opening => step' \in Opening)
    BY DEF House, Priced, FlowKept
  <2>2. h.window \in 1 .. current /\ current \in Nat /\ h \in WindowHandlers
    BY DEF House, WindowsInOrder, HouseTypes
  <2>3. h.window = window'.id => window' = window /\ GoodsKept
    BY <1>6, <2>2
  <2>4. h.slots \subseteq Slots
    BY <2>2 DEF WindowHandlers
  <2>5. \A s \in h.slots : GoodsKept /\ inventory[s] # NoItem => inventory'[s] # NoItem
    BY <2>4 DEF GoodsKept, PreviewKept
  <2> QED  BY <1>3, <1>4, <1>5, <2>1, <2>3, <2>5 DEF HandlerOK
<1> QED  BY <1>1, <1>2, <1>3, <1>7, <1>8 DEF House, Priced, HandlersFine

(* A step that opens a window *)
LEMMA OpeningStep ==
    ASSUME House, GoodsOK', WindowStep, NEW rest \in Rests,
           NEW kind \in Menus, NEW about \in Nat, OpensAfter(rest, kind, about),
           kind = "bin" => step' \in Opening \/ Good',
           kind \in {"duration", "confirm"} => Good',
           ContextOK', context' \in [item : Goods, slot : Nat, price : Nat],
           context.item # NoItem => context'.item # NoItem,
           generation' \in Nat, current' = current, mode' \in Modes, uuids' \in Seq(Nat),
           handlers' = handlers \/ \E h \in handlers : Ends(h)
    PROVE  House'
<1>1. WindowsInOrder' /\ WindowTypes'
  BY WindowsStay DEF House, HandlersStep
<1>2. HouseTypes'
  BY <1>1 DEF House, HouseTypes, WindowTypes, GoodsOK
<1>3. PreviewOK' /\ AuctionsOK'
  BY DEF GoodsOK
<1>4. window'.id = opened + 1 /\ window'.kind = kind
  BY DEF OpensAfter
<1>5. WindowOK'
  BY <1>3, <1>4 DEF WindowOK, Menus
<1>6. \A h \in handlers' : h \in handlers /\ HandlerOK(h) /\ h.window # window'.id
  <2>1. handlers' \subseteq handlers
    BY DEF Ends
  <2> QED  BY <2>1, <1>4 DEF House, HouseTypes, WindowsInOrder, Priced
<1>7. \A h \in handlers' : HandlerOK(h)'
  BY <1>6 DEF HandlerOK
<1> QED  BY <1>1, <1>2, <1>3, <1>5, <1>7 DEF House, Priced

-----------------------------------------------------------------------------
(* What the server does to the goods *)
LEMMA Returned ==
    ASSUME House, PreviewReturns \/ UNCHANGED <<inventory, preview>>
    PROVE  PreviewKept
<1>1. inventory \in [Slots -> Goods] /\ preview \in [item : Goods, by : Nat, wanted : Goods]
      /\ PreviewOK
  BY DEF House, HouseTypes, Priced
<1>2. CASE UNCHANGED <<inventory, preview>>
  BY <1>1, <1>2 DEF PreviewKept
<1>3. ASSUME NEW free, preview # Empty, inventory' = [inventory EXCEPT ![free] = preview.item],
             preview' = Empty
      PROVE  PreviewKept
  BY <1>1, <1>3 DEF PreviewKept, PreviewOK
<1> QED  BY <1>2, <1>3 DEF PreviewReturns

LEMMA StaysListed == ASSUME House, auctions' = auctions PROVE AuctionsKept
BY DEF House, HouseTypes, AuctionsKept

(* Auctions that keep what they are about are still a sequence. *)
LEMMA AuctionsChange ==
    ASSUME House, NEW a, DOMAIN a = DOMAIN auctions, a = [k \in DOMAIN auctions |-> a[k]],
           \A k \in DOMAIN auctions : \E at \in {"active", "sold", "gone"} :
              a[k] = auctions[k] \/ a[k] = [auctions[k] EXCEPT !.at = at]
    PROVE  /\ a \in Seq(Auctions)
           /\ \A k \in DOMAIN auctions :
                 /\ a[k].item = auctions[k].item
                 /\ a[k].price = auctions[k].price /\ a[k].by = auctions[k].by
<1>1. auctions \in Seq(Auctions)
  BY DEF House, HouseTypes
<1>2. /\ DOMAIN auctions = 1 .. Len(auctions) /\ Len(auctions) \in Nat
      /\ \A k \in DOMAIN auctions : auctions[k] \in Auctions
  BY <1>1, LenProperties, ElementOfSeq
<1>3. \A k \in DOMAIN auctions :
         /\ a[k] \in Auctions /\ a[k].item = auctions[k].item
         /\ a[k].price = auctions[k].price /\ a[k].by = auctions[k].by
  BY <1>2 DEF Auctions
<1>4. a \in [1 .. Len(auctions) -> Auctions]
  BY <1>2, <1>3
<1>5. a \in Seq(Auctions)
  BY <1>2, <1>4, SeqDef
<1> QED  BY <1>3, <1>5

LEMMA AuctionMoves ==
    ASSUME House, NEW n, NEW at \in {"active", "sold", "gone"},
           auctions' = [auctions EXCEPT ![n].at = at]
    PROVE  AuctionsKept
<1> DEFINE a == [auctions EXCEPT ![n].at = at]
<1>1. /\ DOMAIN a = DOMAIN auctions /\ a = [k \in DOMAIN auctions |-> a[k]]
      /\ \A k \in DOMAIN auctions : a[k] = auctions[k] \/ a[k] = [auctions[k] EXCEPT !.at = at]
  OBVIOUS
<1>2. auctions' = a
  OBVIOUS
<1> HIDE DEF a
<1>3. /\ a \in Seq(Auctions) /\ DOMAIN a = DOMAIN auctions
      /\ \A k \in DOMAIN auctions :
            /\ a[k].item = auctions[k].item
            /\ a[k].price = auctions[k].price /\ a[k].by = auctions[k].by
  BY <1>1, AuctionsChange
<1> QED  BY <1>2, <1>3, Zenon DEF AuctionsKept

LEMMA AllCollected == ASSUME House, CollectsAll PROVE AuctionsKept
<1> DEFINE a == auctions'
<1>2. auctions' = a
  OBVIOUS
<1>1. /\ DOMAIN a = DOMAIN auctions /\ a = [k \in DOMAIN auctions |-> a[k]]
      /\ \A k \in DOMAIN auctions : a[k] = auctions[k] \/ a[k] = [auctions[k] EXCEPT !.at = "gone"]
  BY DEF CollectsAll
<1> HIDE DEF a
<1>3. /\ a \in Seq(Auctions) /\ DOMAIN a = DOMAIN auctions
      /\ \A k \in DOMAIN auctions :
            /\ a[k].item = auctions[k].item
            /\ a[k].price = auctions[k].price /\ a[k].by = auctions[k].by
  BY <1>1, AuctionsChange
<1> QED  BY <1>2, <1>3, Zenon DEF AuctionsKept

LEMMA Untouched ==
    ASSUME House
    PROVE  /\ NoEffect => GoodsKept /\ QuietAfter(packets)
           /\ GoodsStay => GoodsKept
           /\ packets \in Rests
<1>1. packets \in Rests
  BY DEF Rests
<1>2. GoodsStay => GoodsKept
  BY Returned, StaysListed DEF GoodsStay, GoodsKept
<1>3. NoEffect => GoodsStay /\ QuietAfter(packets)
  BY DEF NoEffect, serverVars, GoodsStay, QuietAfter
<1> QED  BY <1>1, <1>2, <1>3

LEMMA Closed ==
    ASSUME House, NEW id \in 0 .. current, Close(id) \/ ClearsAndCloses(id)
    PROVE  /\ GoodsKept /\ opened' = opened
           /\ window' = window \/ (window.id \in 1 .. current /\ window' = NoWindow)
<1>1. PreviewReturns \/ UNCHANGED <<inventory, preview>>
  BY DEF Close, ClearsAndCloses
<1>2. GoodsKept
  BY <1>1, Returned, StaysListed DEF Close, ClearsAndCloses, GoodsKept
<1>3. id # 0 => id \in 1 .. current
  OBVIOUS
<1> QED  BY <1>2, <1>3 DEF Close, ClearsAndCloses

(* A line of the server's *)
LEMMA LineIsSaid ==
    \A line \in Said \ {"open", "sign"}, about \in Nat :
       [is |-> line, id |-> 0, kind |-> "none", about |-> about] \in Lines
BY DEF Lines, Packets, WindowKinds

-----------------------------------------------------------------------------
(* The handlers *)
LEMMA GoesOn ==
    ASSUME House, NEW h \in handlers, NEW at \in Stages, NEW slots \in SUBSET Slots,
           (Goes(h, at) /\ slots = h.slots) \/ GoesTo(h, at, slots)
    PROVE  /\ HandlersStep(h)
           /\ \E g : /\ handlers' = (handlers \ {h}) \cup {g} /\ g.window = h.window
                     /\ g.kind = h.kind /\ g.at = at /\ g.slots = slots
<1> DEFINE g == [h EXCEPT !.at = at, !.slots = slots]
<1>1. h \in WindowHandlers
  BY DEF House, HouseTypes
<1>2. g.window = h.window /\ g.kind = h.kind /\ g.at = at /\ g.slots = slots
  BY <1>1 DEF WindowHandlers
<1>3. slots = h.slots => g = [h EXCEPT !.at = at]
  BY <1>1 DEF WindowHandlers
<1>4. handlers' = (handlers \ {h}) \cup {g}
  BY <1>3 DEF Goes, GoesTo
<1>5. HandlersStep(h)
  BY <1>4 DEF HandlersStep, HandlersAfter
<1> HIDE DEF g
<1> QED  BY <1>2, <1>4, <1>5

LEMMA HandlerFacts ==
    ASSUME House, NEW h \in handlers
    PROVE  /\ h \in WindowHandlers /\ h.window \in 1 .. current /\ h.window \in 0 .. current
           /\ HandlerOK(h)
           /\ h.slots \in SUBSET Slots /\ h.kind \in WindowKinds /\ h.about \in Nat
           /\ h.window = window.id => h.kind = window.kind /\ AtWindow
           /\ mode \in Modes /\ uuids \in Seq(Nat)
           /\ \A g \in handlers : g.window = h.window => g = h
<1>1. /\ h \in WindowHandlers /\ h.window \in 1 .. current /\ HandlerOK(h)
      /\ h.window = window.id => h.kind = window.kind
      /\ mode \in Modes /\ uuids \in Seq(Nat)
      /\ \A g \in handlers : g.window = h.window => g = h
      /\ current \in Nat /\ opened \in Nat /\ current <= opened
      /\ window.id \in {0, opened}
  BY DEF House, HouseTypes, WindowsInOrder, Priced
<1>2. h.slots \in SUBSET Slots /\ h.kind \in WindowKinds /\ h.about \in Nat
  BY <1>1 DEF WindowHandlers
<1>3. h.window = window.id => AtWindow
  BY <1>1 DEF AtWindow
<1>4. h.window \in 0 .. current
  BY <1>1
<1> QED  BY <1>1, <1>2, <1>3, <1>4

(* A handler that opens nothing and does not go on to a click *)
LEMMA PlainHandler ==
    ASSUME House, NEW h \in handlers, GoodsKept, QuietAfter(packets), handlerUnchanged,
           mode' \in {mode, "Idle", "Purchasing"},
           aborted' = aborted, step \in Opening => step' \in Opening,
           \/ Ends(h)
           \/ \E at \in Stages \ Interesting : Goes(h, at)
    PROVE  House'
<1>1. HandlersStep(h) /\ HandlersFine
  <2>1. CASE Ends(h)
    BY <2>1 DEF Ends, HandlersStep, HandlersFine
  <2>2. ASSUME NEW at \in Stages \ Interesting, Goes(h, at)
        PROVE  HandlersStep(h) /\ HandlersFine
    <3>1. h.slots \in SUBSET Slots
      BY HandlerFacts
    <3>2. /\ HandlersStep(h)
          /\ \E g : handlers' = (handlers \ {h}) \cup {g} /\ g.at = at
      BY <2>2, <3>1, GoesOn
    <3> QED  BY <2>2, <3>2, PlainIsOK DEF HandlersFine
  <2> QED  BY <2>1, <2>2
<1>2. FlowKept
  BY DEF FlowKept, Listing, handlerUnchanged
<1>3. mode' \in Modes /\ uuids' \in Seq(Nat) /\ current' = current
  BY HandlerFacts DEF Modes, handlerUnchanged
<1>4. packets \in Rests
  BY Untouched
<1> QED  BY <1>1, <1>2, <1>3, <1>4, GoodsStayOK, QuietStep

(* A handler whose click opens a window *)
LEMMA OpeningHandler ==
    ASSUME House, NEW h \in handlers, handlerUnchanged, GoodsKept,
           h.window = window.id, NEW kind \in Menus, NEW about \in Nat, Opens(kind, about),
           mode' \in {mode, "Idle"}, step' = step, aborted' = aborted, Ends(h),
           kind = "bin" => step \in Opening,
           kind \in {"duration", "confirm"} => Good
    PROVE  House'
<1>1. OpensAfter(packets, kind, about)
  BY DEF Opens
<1>2. WindowStep
  BY <1>1, HandlerFacts DEF WindowStep, OpensThere, OpensOne
<1>3. GoodsOK' /\ (Good => Good')
  BY GoodsStayOK
<1>4. /\ mode' \in Modes /\ uuids' \in Seq(Nat) /\ current' = current /\ context' = context
      /\ generation' = generation /\ generation \in Nat
      /\ context \in [item : Goods, slot : Nat, price : Nat]
  BY HandlerFacts DEF Modes, handlerUnchanged, House, HouseTypes
<1>5. ContextOK'
  BY <1>4 DEF House, Priced, ContextOK
<1>6. packets \in Rests
  BY Untouched
<1> QED  BY <1>1, <1>2, <1>3, <1>4, <1>5, <1>6, OpeningStep

LEMMA QuitsPlainly ==
    ASSUME House, NEW h \in handlers, Quits(h)
    PROVE  GoodsKept /\ QuietAfter(packets) /\ Ends(h) /\ mode' = "Idle"
<1>1. h.window \in 0 .. current
  BY HandlerFacts
<1> QED  BY <1>1, Closed DEF Quits, QuietAfter

LEMMA WaitsPlainly ==
    ASSUME House, Waits
    PROVE  /\ GoodsKept /\ QuietAfter(packets)
           /\ UNCHANGED <<inventory, preview, price, auctions, window, opened, packets>>
BY Untouched DEF Waits, NoEffect, serverVars

(* A handler that does nothing to the server and goes on *)
LEMMA WaitingHandler ==
    ASSUME House, NEW h \in handlers, Waits, handlerUnchanged,
           NEW at \in Stages, NEW slots \in SUBSET Slots,
           (Goes(h, at) /\ slots = h.slots) \/ GoesTo(h, at, slots),
           mode' \in {mode, "Purchasing"}, aborted' = aborted,
           step \in Opening => step' \in Opening,
           \A g : /\ g.window = h.window /\ g.kind = h.kind /\ g.at = at /\ g.slots = slots
                  => HandlerOK(g)'
    PROVE  House'
<1>1. HandlersStep(h) /\ HandlersFine
  <2>1. /\ HandlersStep(h)
        /\ \E g : /\ handlers' = (handlers \ {h}) \cup {g} /\ g.window = h.window
                  /\ g.kind = h.kind /\ g.at = at /\ g.slots = slots
    BY GoesOn
  <2>2. PICK g : /\ handlers' = (handlers \ {h}) \cup {g} /\ g.window = h.window
                 /\ g.kind = h.kind /\ g.at = at /\ g.slots = slots
    BY <2>1
  <2>3. HandlerOK(g)'
    BY <2>2
  <2> QED  BY <2>1, <2>2, <2>3 DEF HandlersFine
<1>2. FlowKept
  BY DEF FlowKept, Listing, handlerUnchanged
<1>3. mode' \in Modes /\ uuids' \in Seq(Nat) /\ current' = current
  BY HandlerFacts DEF Modes, handlerUnchanged
<1>4. packets \in Rests
  BY Untouched
<1> QED  BY <1>1, <1>2, <1>3, <1>4, WaitsPlainly, GoodsStayOK, QuietStep

LEMMA StartsPriced == ASSUME House, NEW h \in handlers, Starts(h) PROVE House'
<1>0. /\ step' = step /\ aborted' = aborted /\ handlerUnchanged /\ Waits
      /\ GoodsKept /\ QuietAfter(packets)
  BY WaitsPlainly DEF Starts
<1>1. CASE Ends(h) /\ UNCHANGED mode
  BY <1>0, <1>1, PlainHandler
<1>2. CASE mode = "Idle" /\ mode' = "Purchasing" /\ Goes(h, "Purchasing")
  <2>1. "Purchasing" \in Stages \ Interesting
    BY DEF Stages, Modes, Interesting, Clicks
  <2> QED  BY <1>0, <1>2, <2>1, PlainHandler
<1>3. CASE mode # "Idle" /\ Goes(h, mode) /\ UNCHANGED mode
  <2>1. mode \in Stages /\ mode \in Modes /\ h.slots \in SUBSET Slots
    BY HandlerFacts DEF Stages
  <2>2. mode = "Selling" => context.item # NoItem
    BY DEF House, Priced, ContextOK
  <2>3. context' = context
    BY <1>0 DEF handlerUnchanged
  <2>4. \A g : g.at = mode => HandlerOK(g)'
    BY <2>1, <2>2, <2>3 DEF HandlerOK, Modes, Leading
  <2> QED  BY <1>0, <1>3, <2>1, <2>4, WaitingHandler
<1> QED  BY <1>1, <1>2, <1>3 DEF Starts

LEMMA QuitsPriced ==
    ASSUME House, NEW h \in handlers, GivesUpPurchase(h) \/ FindsNone(h) \/ Listed(h)
    PROVE  House'
<1>0. step' = step /\ aborted' = aborted /\ handlerUnchanged
  BY DEF GivesUpPurchase, FindsNone, Listed
<1>1. CASE Quits(h)
  BY <1>0, <1>1, QuitsPlainly, PlainHandler
<1>2. CASE Ends(h) /\ Waits /\ UNCHANGED mode
  BY <1>0, <1>2, WaitsPlainly, PlainHandler
<1> QED  BY <1>1, <1>2 DEF GivesUpPurchase, FindsNone, Listed

(* The step is read, and the click that follows is of that step. *)
LEMMA StepIsRead ==
    ASSUME House, NEW h \in handlers, h.at = "Selling",
           NEW from, NEW kinds, NEW to, NEW at \in Clicks,
           Steps(h, from, kinds, to, at), handlerUnchanged, aborted' = aborted,
           \/ /\ from \cup {to} \subseteq Opening
              /\ at \in {"clicks manage", "clicks create", "clicks BIN"}
           \/ /\ from \cap Opening = {}
              /\ \/ at = "clicks duration" /\ kinds = {"bin"}
                 \/ at = "clicks confirm" /\ kinds = {"bin"}
                 \/ at = "clicks custom" /\ kinds = {"duration"}
                 \/ at = "clicks yes" /\ kinds = {"confirm"}
    PROVE  House'
<1>0. /\ step \in from /\ h.kind \in kinds /\ step' = to /\ Goes(h, at) /\ Waits
      /\ mode' = mode
  BY DEF Steps
<1>1. /\ at \in Stages /\ h.slots \in SUBSET Slots
      /\ step \in Opening => step' \in Opening
  BY <1>0, HandlerFacts DEF Stages
<1>2. h.window = window.id => h.kind = window.kind
  BY HandlerFacts
<1>3. window' = window /\ (Good => Good')
  BY <1>0, WaitsPlainly DEF Good
<1>4. WindowOK
  BY DEF House, Priced
<1>5. \A g : g.window = h.window /\ g.kind = h.kind /\ g.at = at => HandlerOK(g)'
  BY <1>0, <1>2, <1>3, <1>4 DEF HandlerOK, WindowOK, Leading, Clicks
<1> QED  BY <1>0, <1>1, <1>5, WaitingHandler

LEMMA TargetsFilled ==
    ASSUME House, context.item # NoItem
    PROVE  Targets \in SUBSET Slots /\ \A s \in Targets : inventory[s] # NoItem
BY DEF House, Priced, ContextOK, Targets

LEMMA ReadsPriced == ASSUME House, NEW h \in handlers, ReadsStep(h) PROVE House'
<1>0. h.at = "Selling" /\ aborted' = aborted /\ handlerUnchanged /\ context.item # NoItem
  BY HandlerFacts DEF ReadsStep, HandlerOK
<1>1. CASE aborted
  <2>1. h.window \in 0 .. current
    BY HandlerFacts
  <2> QED  BY <1>0, <1>1, <2>1, Closed, PlainHandler DEF ReadsStep, QuietAfter
<1>2. CASE Steps(h, {"Initial"}, {"house"}, "OpenManage", "clicks manage")
  BY <1>0, <1>2, StepIsRead DEF Opening, Clicks
<1>3. CASE ReadsManage(h)
  <2>1. CASE Full
    BY <1>0, <1>3, <2>1, QuitsPlainly, PlainHandler DEF ReadsManage
  <2>2. CASE Steps(h, {"OpenManage"}, {"manage"}, "ClickCreate", "clicks create")
    BY <1>0, <2>2, StepIsRead DEF Opening, Clicks
  <2> QED  BY <1>3, <2>1, <2>2 DEF ReadsManage
<1>4. CASE Steps(h, {"OpenManage", "ClickCreate"}, {"create"}, "SelectBIN", "clicks BIN")
  BY <1>0, <1>4, StepIsRead DEF Opening, Clicks
<1>5. CASE ReadsBin(h)
  <2>0. step' = step /\ step \in Opening /\ h.kind = "bin"
    BY <1>5 DEF ReadsBin, Opening
  <2>1. CASE Quits(h)
    BY <1>0, <2>0, <2>1, QuitsPlainly, PlainHandler
  <2>2. ASSUME NEW at \in {"clears", "picks"}, GoesTo(h, at, Targets), Waits, UNCHANGED mode
        PROVE  House'
    <3>1. Targets \in SUBSET Slots /\ at \in Stages
      BY <1>0, <2>2, TargetsFilled DEF Stages
    <3>2. \A s \in Targets : inventory'[s] # NoItem
      BY <1>0, <2>2, TargetsFilled, WaitsPlainly
    <3> DEFINE T == Targets
    <3> HIDE DEF T
    <3>3. \A g : g.kind = h.kind /\ g.at = at /\ g.slots = T => HandlerOK(g)'
      BY <2>0, <2>2, <3>2 DEF HandlerOK, T
    <3>4. GoesTo(h, at, T) /\ T \in SUBSET Slots
      BY <2>2, <3>1 DEF T
    <3> QED  BY <1>0, <2>0, <2>2, <3>1, <3>3, <3>4, WaitingHandler
  <2> QED  BY <1>5, <2>1, <2>2 DEF ReadsBin
<1>6. CASE Steps(h, {"SetDuration"}, {"bin"}, "DurationSign", "clicks duration")
  BY <1>0, <1>6, StepIsRead DEF Opening, Clicks
<1>7. CASE Steps(h, {"DurationSign"}, {"duration"}, "DurationSign", "clicks custom")
  BY <1>0, <1>7, StepIsRead DEF Opening, Clicks
<1>8. CASE Steps(h, {"ConfirmSell"}, {"bin"}, "FinalConfirm", "clicks confirm")
  BY <1>0, <1>8, StepIsRead DEF Opening, Clicks
<1>9. CASE Steps(h, {"FinalConfirm"}, {"confirm"}, "FinalConfirm", "clicks yes")
  BY <1>0, <1>9, StepIsRead DEF Opening, Clicks
<1>10. CASE Ends(h) /\ Waits /\ UNCHANGED <<mode, step, atLimit>>
  BY <1>0, <1>10, WaitsPlainly, PlainHandler
<1> QED  BY <1>1, <1>2, <1>3, <1>4, <1>5, <1>6, <1>7, <1>8, <1>9, <1>10 DEF ReadsStep

(* A click that opens a sign *)
LEMMA SignStep ==
    ASSUME House, NEW h \in handlers, handlerUnchanged, GoodsStay, h.window = window.id,
           NEW kind \in Signs, SignOpens(kind), Ends(h), mode' = mode, aborted' = aborted,
           kind = "durationSign" => Good /\ step' = step,
           kind = "priceSign" => step' \in Opening /\ (Listing => OwnPreview)
    PROVE  House'
<1>1. WindowsInOrder' /\ WindowTypes'
  <2>1. WindowStep
    BY HandlerFacts DEF WindowStep, OpensThere
  <2> QED  BY <2>1, WindowsStay DEF House, HandlersStep, handlerUnchanged
<1>2. GoodsKept /\ GoodsOK' /\ (Good => Good')
  BY Untouched, GoodsStayOK
<1>3. HouseTypes'
  BY <1>1, <1>2 DEF House, HouseTypes, WindowTypes, GoodsOK, handlerUnchanged
<1>4. ContextOK' /\ (Listing' => Listing)
  BY DEF House, Priced, ContextOK, handlerUnchanged, Listing
<1>5. StuckFirst(packets) => StuckFirst(packets')
  <2>1. packets \in Seq(Packets) /\ packets \in Rests
    BY Untouched DEF House, HouseTypes
  <2>2. \E p \in Packets : packets' = Append(packets, p)
    BY DEF SignOpens, Sends, Packets, Said, WindowKinds
  <2> QED  BY <2>1, <2>2, StuckStays
<1>6. OwnPreview => OwnPreview'
  BY <1>5 DEF OwnPreview, GoodsStay, handlerUnchanged
<1>7. window'.kind = kind /\ window'.id = 0
  BY DEF SignOpens, NoWindow
<1>8. WindowOK'
  BY <1>2, <1>4, <1>6, <1>7 DEF WindowOK, Signs
<1>9. \A g \in handlers' : HandlerOK(g)'
  <2>1. handlers' \subseteq handlers
    BY DEF Ends
  <2>2. \A g \in handlers : HandlerOK(g) /\ g.window # window'.id
    BY <1>7 DEF House, HouseTypes, WindowsInOrder, Priced
  <2>3. context' = context
    BY DEF handlerUnchanged
  <2> QED  BY <2>1, <2>2, <2>3 DEF HandlerOK
<1> QED  BY <1>1, <1>2, <1>3, <1>4, <1>8, <1>9 DEF House, Priced, GoodsOK

(* The item in the preview is listed, at the price that was written last. *)
LEMMA ListingStep ==
    ASSUME House, NEW h \in handlers, handlerUnchanged, Lists, h.window = window.id,
           h.kind = "confirm", Ends(h) \/ Goes(h, "listed"),
           mode' \in {mode, "Idle"}, step' = step, aborted' = aborted
    PROVE  House'
<1>0. h.window \in 1 .. current /\ window.id \in 1 .. current /\ window' = NoWindow
      /\ opened' = opened
  BY HandlerFacts DEF Lists
<1>n. "listed" \in Stages \ Interesting
  BY DEF Stages, Interesting, Clicks
<1>1. CASE UNCHANGED <<auctions, preview, packets>>
  <2>1. GoodsKept
    BY <1>1, Returned, StaysListed DEF Lists, GoodsKept
  <2> QED  BY <1>0, <1>1, <1>n, <2>1, PlainHandler DEF QuietAfter
<1>2. ASSUME preview # Empty, preview' = Empty,
             auctions' = Append(auctions, [item |-> preview.item, price |-> price,
                                           by |-> preview.by, wanted |-> preview.wanted,
                                           at |-> "active"]),
             Sends("started", Len(auctions) + 1)
      PROVE  House'
  <2> DEFINE a == [item |-> preview.item, price |-> price, by |-> preview.by,
                   wanted |-> preview.wanted, at |-> "active"]
  <2>1. GoodsOK
    BY DEF House, HouseTypes, Priced, GoodsOK
  <2>2. price = preview.by
    BY <1>2, HandlerFacts DEF House, Priced, WindowOK, Good
  <2>3. preview.item \in Goods /\ preview.item # NoItem /\ preview.by \in Nat
        /\ preview.wanted \in Goods
    BY <1>2, <2>1 DEF GoodsOK, PreviewOK
  <2>4. a \in Auctions /\ a.price = a.by /\ a.item # NoItem
    BY <2>1, <2>2, <2>3 DEF GoodsOK, Auctions
  <2>5. auctions' = Append(auctions, a)
    BY <1>2
  <2> HIDE DEF a
  <2>6. /\ auctions' \in Seq(Auctions)
        /\ \A k \in DOMAIN auctions' : \/ k \in DOMAIN auctions /\ auctions'[k] = auctions[k]
                                       \/ auctions'[k] = a
    BY <2>1, <2>4, <2>5, Appended DEF GoodsOK
  <2>7. AuctionsOK'
    BY <2>1, <2>4, <2>6 DEF GoodsOK, AuctionsOK
  <2>8. GoodsOK'
    <3>1. Empty \in [item : Goods, by : Nat, wanted : Goods]
      BY DEF Empty, Goods
    <3>2. PreviewOK'
      BY <1>2 DEF PreviewOK
    <3>3. inventory' = inventory /\ price' = price
      BY DEF Lists
    <3> QED  BY <1>2, <2>1, <2>6, <2>7, <3>1, <3>2, <3>3 DEF GoodsOK
  <2>9. QuietAfter(packets)
    <3>1. Len(auctions) + 1 \in Nat
      BY <2>1, LenProperties DEF GoodsOK
    <3>2. [is |-> "started", id |-> 0, kind |-> "none", about |-> Len(auctions) + 1] \in Lines
      BY <3>1, LineIsSaid DEF Said
    <3> QED  BY <1>0, <1>2, <3>2 DEF QuietAfter, Sends
  <2>10. HandlersStep(h) /\ HandlersFine
    <3>1. CASE Ends(h)
      BY <3>1 DEF Ends, HandlersStep, HandlersFine
    <3>2. CASE Goes(h, "listed")
      <4>1. h.slots \in SUBSET Slots
        BY HandlerFacts
      <4>2. /\ HandlersStep(h)
            /\ \E g : handlers' = (handlers \ {h}) \cup {g} /\ g.at = "listed"
        BY <3>2, <4>1, <1>n, GoesOn
      <4> QED  BY <4>2, <1>n, PlainIsOK DEF HandlersFine
    <3> QED  BY <3>1, <3>2
  <2>11. FlowKept
    BY DEF FlowKept, Listing, handlerUnchanged
  <2>12. mode' \in Modes /\ uuids' \in Seq(Nat) /\ current' = current
    BY HandlerFacts DEF Modes, handlerUnchanged
  <2>13. packets \in Rests
    BY Untouched
  <2> QED  BY <1>0, <2>8, <2>9, <2>10, <2>11, <2>12, <2>13, QuietStep
<1> QED  BY <1>1, <1>2 DEF Lists

(* A click that leads to a menu *)
LEMMA LeadingHandler ==
    ASSUME House, NEW h \in handlers, handlerUnchanged, NEW kinds \in SUBSET Menus,
           Click(h, LeadsTo(kinds)), Ends(h),
           mode' = mode, step' = step, aborted' = aborted,
           h.window = window.id =>
              /\ "bin" \in kinds => step \in Opening
              /\ kinds \cap {"duration", "confirm"} # {} => Good
    PROVE  House'
<1>1. CASE NoEffect
  BY <1>1, Untouched, PlainHandler
<1>2. CASE h.window = window.id /\ LeadsTo(kinds)
  <2>1. PICK kind \in kinds : GoodsStay /\ Opens(kind, 0)
    BY <1>2 DEF LeadsTo
  <2>2. GoodsKept /\ kind \in Menus
    BY <2>1, Untouched
  <2> QED  BY <1>2, <2>1, <2>2, OpeningHandler
<1> QED  BY <1>1, <1>2 DEF Click

LEMMA ClicksPriced == ASSUME House, NEW h \in handlers, ClicksOn(h) PROVE House'
<1>0. mode' = mode /\ step' = step /\ aborted' = aborted /\ handlerUnchanged /\ HandlerOK(h)
  BY HandlerFacts DEF ClicksOn
<1>1. CASE h.at = "clicks manage" /\ Click(h, LeadsTo({"manage", "create"})) /\ Ends(h)
  BY <1>0, <1>1, LeadingHandler DEF Menus
<1>2. CASE h.at = "clicks create" /\ Click(h, LeadsTo({"create", "bin"})) /\ Ends(h)
  BY <1>0, <1>2, LeadingHandler DEF Menus, HandlerOK, Leading
<1>3. CASE h.at = "clicks BIN" /\ Click(h, LeadsTo({"bin"})) /\ Ends(h)
  BY <1>0, <1>3, LeadingHandler DEF Menus, HandlerOK, Leading
<1>4. CASE h.at = "clicks duration" /\ Click(h, LeadsTo({"duration"})) /\ Ends(h)
  BY <1>0, <1>4, LeadingHandler DEF Menus, HandlerOK
<1>5. CASE h.at = "clicks custom" /\ Click(h, AsksOnSign("durationSign")) /\ Ends(h)
  <2>1. CASE NoEffect
    BY <1>0, <1>5, <2>1, Untouched, PlainHandler
  <2>2. CASE h.window = window.id /\ AsksOnSign("durationSign")
    <3>1. Good
      BY <1>0, <1>5, <2>2, HandlerFacts DEF HandlerOK, House, Priced, WindowOK
    <3>2. CASE GoodsStay /\ NothingOpens
      BY <1>0, <1>5, <3>2, Untouched, PlainHandler DEF NothingOpens, QuietAfter
    <3>3. CASE GoodsStay /\ SignOpens("durationSign")
      BY <1>0, <1>5, <2>2, <3>1, <3>3, SignStep DEF Signs
    <3> QED  BY <2>2, <3>2, <3>3 DEF AsksOnSign
  <2> QED  BY <1>5, <2>1, <2>2 DEF Click
<1>6. CASE h.at = "clicks confirm" /\ Click(h, Reviews) /\ Ends(h)
  <2>1. CASE NoEffect
    BY <1>0, <1>6, <2>1, Untouched, PlainHandler
  <2>2. CASE h.window = window.id /\ Reviews
    <3>1. Good
      BY <1>0, <1>6, <2>2 DEF HandlerOK
    <3>2. CASE GoodsStay /\ NothingOpens
      BY <1>0, <1>6, <3>2, Untouched, PlainHandler DEF NothingOpens, QuietAfter
    <3>3. CASE GoodsStay /\ Opens("confirm", 0)
      <4>1. "confirm" \in Menus
        BY DEF Menus
      <4> QED  BY <1>0, <1>6, <2>2, <3>1, <3>3, <4>1, Untouched, OpeningHandler
    <3> QED  BY <2>2, <3>2, <3>3 DEF Reviews
  <2> QED  BY <1>6, <2>1, <2>2 DEF Click
<1>7. CASE h.at = "clicks yes" /\ Click(h, Lists) /\ Goes(h, "listed")
  <2>1. CASE NoEffect
    <3>1. "listed" \in Stages \ Interesting
      BY DEF Stages, Interesting, Clicks
    <3> QED  BY <1>0, <1>7, <2>1, <3>1, Untouched, PlainHandler
  <2>2. CASE h.window = window.id /\ Lists
    BY <1>0, <1>7, <2>2, ListingStep DEF HandlerOK
  <2> QED  BY <1>7, <2>1, <2>2 DEF Click
<1> QED  BY <1>1, <1>2, <1>3, <1>4, <1>5, <1>6, <1>7 DEF ClicksOn

(* What was seen in the inventory is there when the preview was cleared. *)
LEMMA ClearsPriced == ASSUME House, NEW h \in handlers, Clears(h) PROVE House'
<1>0. /\ mode' = mode /\ step' = step /\ aborted' = aborted /\ handlerUnchanged
      /\ HandlerOK(h) /\ h.at = "clears" /\ h.slots \in SUBSET Slots
  BY HandlerFacts DEF Clears
<1>1. GoodsKept /\ QuietAfter(packets) /\ window' = window
  <2>1. CASE NoEffect
    BY <2>1, Untouched DEF NoEffect, serverVars
  <2>2. CASE ReturnsItem
    BY <2>2, Returned, StaysListed DEF ReturnsItem, NothingOpens, QuietAfter, GoodsKept
  <2> QED  BY <2>1, <2>2 DEF Clears, Click
<1>2. CASE Goes(h, "finds none")
  <2>1. "finds none" \in Stages \ Interesting
    BY DEF Stages, Interesting, Clicks
  <2> QED  BY <1>0, <1>1, <1>2, <2>1, PlainHandler
<1>3. CASE Goes(h, "picks")
  <2>1. /\ HandlersStep(h)
        /\ \E g : /\ handlers' = (handlers \ {h}) \cup {g} /\ g.window = h.window
                  /\ g.kind = h.kind /\ g.at = "picks" /\ g.slots = h.slots
    <3>1. "picks" \in Stages
      BY DEF Stages
    <3> QED  BY <1>0, <1>3, <3>1, GoesOn
  <2>2. PICK g : /\ handlers' = (handlers \ {h}) \cup {g} /\ g.window = h.window
                 /\ g.kind = h.kind /\ g.at = "picks" /\ g.slots = h.slots
    BY <2>1
  <2>3. HandlerOK(g)'
    <3>1. \A s \in h.slots : inventory[s] # NoItem => inventory'[s] # NoItem
      BY <1>0, <1>1 DEF GoodsKept, PreviewKept
    <3> QED  BY <1>0, <1>1, <2>2, <3>1 DEF HandlerOK, Leading, Clicks
  <2>4. HandlersFine
    BY <2>2, <2>3 DEF HandlersFine
  <2>5. FlowKept
    BY <1>0 DEF FlowKept, Listing, handlerUnchanged
  <2>6. mode' \in Modes /\ uuids' \in Seq(Nat) /\ current' = current
    BY <1>0, HandlerFacts DEF Modes, handlerUnchanged
  <2> QED  BY <1>0, <1>1, <2>1, <2>4, <2>5, <2>6, Untouched, GoodsStayOK, QuietStep
<1> QED  BY <1>2, <1>3 DEF Clears

LEMMA NoSignComes ==
    ASSUME House, AtWindow
    PROVE  window.kind \in Menus /\ \A k \in DOMAIN packets : packets[k].is # "sign"
<1>1. /\ current \in Nat /\ window.id = current /\ current # 0
      /\ window.id = IF window.kind \in Menus THEN opened ELSE 0
  BY DEF House, HouseTypes, WindowsInOrder, AtWindow
<1>2. window.kind \in Menus
  BY <1>1
<1>3. window.kind \notin Signs
  BY <1>2 DEF Menus, Signs
<1> QED  BY <1>1, <1>2, <1>3 DEF House, WindowsInOrder

(* The item goes into the preview, or is stuck behind what another listing *)
(* left there, and the line of the stuck item comes before the next sign.  *)
LEMMA PicksPriced == ASSUME House, NEW h \in handlers, Picks(h) PROVE House'
<1>0. /\ mode' = mode /\ step' = step /\ aborted' = aborted /\ handlerUnchanged
      /\ HandlerOK(h) /\ h.at = "picks" /\ h.slots \in SUBSET Slots /\ h.kind = "bin"
      /\ h.window \in 1 .. current
  BY HandlerFacts DEF Picks, HandlerOK
<1>1. /\ HandlersStep(h)
      /\ \E g : /\ handlers' = (handlers \ {h}) \cup {g} /\ g.window = h.window
                /\ g.kind = h.kind /\ g.at = "prices" /\ g.slots = h.slots
  <2>1. "prices" \in Stages
    BY DEF Stages
  <2> QED  BY <1>0, <2>1, GoesOn DEF Picks
<1>2. PICK g : /\ handlers' = (handlers \ {h}) \cup {g} /\ g.window = h.window
               /\ g.kind = h.kind /\ g.at = "prices" /\ g.slots = h.slots
  BY <1>1
<1>3. FlowKept /\ mode' \in Modes /\ uuids' \in Seq(Nat) /\ current' = current
  BY <1>0, HandlerFacts DEF FlowKept, Listing, Modes, handlerUnchanged
<1>4. ASSUME GoodsKept, QuietAfter(packets), HandlerOK(g)'
      PROVE  House'
  <2>1. HandlersFine
    BY <1>2, <1>4 DEF HandlersFine
  <2> QED  BY <1>1, <1>3, <1>4, <2>1, Untouched, GoodsStayOK, QuietStep
<1>5. ASSUME window' = window, h.window = window.id => (Listing => OwnPreview')
      PROVE  HandlerOK(g)'
  BY <1>0, <1>2, <1>5 DEF HandlerOK, Leading, Clicks, Listing
<1>6. CASE h.window # window.id /\ NoEffect
  <2>1. window' = window
    BY <1>6 DEF NoEffect, serverVars
  <2> QED  BY <1>4, <1>5, <1>6, <2>1, Untouched
<1>7. CASE h.window = window.id
  <2>1. AtWindow /\ window.kind = "bin" /\ current \in Nat /\ current = opened
    BY <1>0, <1>7, HandlerFacts DEF AtWindow, House, HouseTypes, WindowsInOrder, Menus
  <2>2. \A k \in DOMAIN packets : packets[k].is # "sign"
    BY <2>1, NoSignComes
  <2>3. PICK s \in h.slots : Places(s)
    BY <1>0, <1>7, <2>1 DEF Picks, Click, AtWindow
  <2>4. inventory[s] # NoItem /\ s \in Slots /\ step \in Opening
    BY <1>0, <1>7, <2>3 DEF HandlerOK, Leading
  <2>5. CASE /\ preview # Empty /\ Sends("stuck", 0)
             /\ UNCHANGED <<inventory, preview, window, opened>>
    <3>0. GoodsKept
      BY <2>3, <2>5, Returned, StaysListed DEF Places, GoodsKept
    <3> DEFINE p == [is |-> "stuck", id |-> 0, kind |-> "none", about |-> 0]
    <3>1. p \in Lines /\ p \in Packets /\ p.is = "stuck" /\ packets' = Append(packets, p)
      BY <2>5, LineIsSaid DEF Said, Lines, Sends
    <3> HIDE DEF p
    <3>2. QuietAfter(packets)
      BY <2>5, <3>1 DEF QuietAfter
    <3>3. packets \in Seq(Packets)
      BY DEF House, HouseTypes
    <3>4. StuckFirst(packets')
      <4>1. /\ Len(packets') = Len(packets) + 1 /\ packets'[Len(packets) + 1] = p
            /\ packets' \in Seq(Packets) /\ Len(packets) \in Nat
        BY <3>1, <3>3, AppendProperties, LenProperties
      <4>2. Len(packets) + 1 \in DOMAIN packets'
        BY <4>1, LenProperties
      <4>3. \A k \in DOMAIN packets' : packets'[k].is # "sign"
        BY <2>2, <3>1, <3>3, Appended
      <4> QED  BY <3>1, <4>1, <4>2, <4>3 DEF StuckFirst
    <3>5. OwnPreview'
      BY <3>4 DEF OwnPreview
    <3> QED  BY <1>4, <1>5, <2>5, <3>0, <3>2, <3>5
  <2>6. CASE /\ preview = Empty
             /\ preview' = [item |-> inventory[s], by |-> generation, wanted |-> context.item]
             /\ inventory' = [inventory EXCEPT ![s] = NoItem] /\ NothingOpens
    <3>1. /\ GoodsOK /\ generation \in Nat /\ context \in [item : Goods, slot : Nat, price : Nat]
          /\ ContextOK
      BY DEF House, HouseTypes, Priced, GoodsOK
    <3>2. /\ inventory' \in [Slots -> Goods]
          /\ inventory[s] \in Goods /\ context.item \in Goods
      BY <2>4, <2>6, <3>1 DEF GoodsOK, Goods
    <3>3. /\ preview' \in [item : Goods, by : Nat, wanted : Goods]
          /\ preview'.item = inventory[s] /\ preview'.by = generation
      BY <2>6, <3>1, <3>2
    <3>4. GoodsOK'
      <4>1. auctions' = auctions /\ price' = price
        BY <2>3 DEF Places
      <4>2. PreviewOK'
        BY <2>4, <3>3 DEF PreviewOK
      <4>3. AuctionsOK'
        BY <3>1, <4>1 DEF GoodsOK, AuctionsOK
      <4> QED  BY <3>1, <3>2, <3>3, <4>1, <4>2, <4>3 DEF GoodsOK
    <3>5. WindowsInOrder' /\ WindowTypes' /\ window' = window
      <4>1. QuietAfter(packets) /\ packets \in Rests
        BY <2>6, Untouched DEF QuietAfter, NothingOpens
      <4>2. WindowStep
        BY <4>1 DEF WindowStep
      <4> QED  BY <1>1, <1>3, <2>6, <4>2, WindowsStay DEF House, NothingOpens
    <3>6. HouseTypes'
      BY <1>3, <3>1, <3>4, <3>5 DEF HouseTypes, WindowTypes, GoodsOK, FlowKept
    <3>7. ContextOK'
      BY <1>0, <3>1 DEF ContextOK, handlerUnchanged
    <3>8. WindowOK'
      BY <1>0, <2>1, <2>4, <3>5 DEF WindowOK
    <3>9. HandlerOK(g)'
      <4>1. Listing => OwnPreview'
        BY <1>0, <3>1, <3>3 DEF Listing, OwnPreview, ContextOK, handlerUnchanged
      <4> QED  BY <1>5, <3>5, <4>1
    <3>10. \A f \in handlers \ {h} : HandlerOK(f)'
      <4>1. \A f \in handlers \ {h} : HandlerOK(f) /\ f.window # window'.id
        BY <1>7, <3>5, HandlerFacts DEF House, Priced
      <4>2. context' = context
        BY <1>0 DEF handlerUnchanged
      <4> QED  BY <4>1, <4>2 DEF HandlerOK
    <3> QED  BY <1>2, <3>4, <3>5, <3>6, <3>7, <3>8, <3>9, <3>10 DEF House, Priced, GoodsOK
  <2> QED  BY <2>3, <2>4, <2>5, <2>6 DEF Places
<1> QED  BY <1>0, <1>6, <1>7 DEF Picks, Click

LEMMA PricesPriced == ASSUME House, NEW h \in handlers, Prices(h) PROVE House'
<1>0. /\ mode' = mode /\ aborted' = aborted /\ handlerUnchanged /\ Ends(h)
      /\ HandlerOK(h) /\ h.at = "prices" /\ step' \in Opening
  BY HandlerFacts DEF Prices, Opening
<1>1. CASE NoEffect
  BY <1>0, <1>1, Untouched, PlainHandler
<1>2. CASE h.window = window.id /\ AsksOnSign("priceSign")
  <2>1. Listing => OwnPreview
    BY <1>0, <1>2 DEF HandlerOK
  <2>2. CASE GoodsStay /\ NothingOpens
    BY <1>0, <2>2, Untouched, PlainHandler DEF NothingOpens, QuietAfter
  <2>3. CASE GoodsStay /\ SignOpens("priceSign")
    BY <1>0, <1>2, <2>1, <2>3, SignStep DEF Signs
  <2> QED  BY <1>2, <2>2, <2>3 DEF AsksOnSign
<1> QED  BY <1>1, <1>2 DEF Prices, Click

LEMMA ClaimsPriced == ASSUME House, NEW h \in handlers, Claims(h) PROVE House'
<1>0. /\ step' = step /\ aborted' = aborted /\ handlerUnchanged
      /\ h.about \in Nat /\ h.window \in 1 .. current
  BY HandlerFacts DEF Claims
<1>1. CASE Ends(h) /\ Click(h, LeadsTo({"manage"})) /\ mode' = mode
  BY <1>0, <1>1, LeadingHandler DEF Menus
<1>2. CASE QuitsClaim(h)
  BY <1>0, <1>2, QuitsPlainly, PlainHandler DEF QuitsClaim
<1>3. CASE ClaimsFromList(h)
  <2>1. CASE Ends(h) /\ Click(h, CollectsAll) /\ mode' = "Idle"
    <3>1. CASE NoEffect
      BY <1>0, <2>1, <3>1, Untouched, PlainHandler
    <3>2. CASE h.window = window.id /\ CollectsAll
      <4>1. GoodsKept /\ QuietAfter(packets)
        BY <1>0, <3>2, Returned, AllCollected DEF CollectsAll, GoodsKept, QuietAfter
      <4> QED  BY <1>0, <2>1, <4>1, PlainHandler
    <3> QED  BY <2>1, <3>1, <3>2 DEF Click
  <2>2. ASSUME NEW n \in DOMAIN auctions, Click(h, GoodsStay /\ Opens("view", n)), Ends(h),
               mode' = mode
        PROVE  House'
    <3>1. CASE NoEffect
      BY <1>0, <2>2, <3>1, Untouched, PlainHandler
    <3>2. CASE h.window = window.id /\ GoodsStay /\ Opens("view", n)
      <4>1. n \in Nat
        BY LenProperties DEF House, HouseTypes
      <4>2. "view" \in Menus
        BY DEF Menus
      <4> QED  BY <1>0, <2>2, <3>2, <4>1, <4>2, Untouched, OpeningHandler
    <3> QED  BY <2>2, <3>1, <3>2 DEF Click
  <2> QED  BY <1>2, <1>3, <2>1, <2>2 DEF ClaimsFromList
<1>4. CASE ClaimsFromView(h)
  <2>1. CASE Ends(h) /\ Click(h, Collects(h.about)) /\ mode' = mode
    <3>1. CASE NoEffect
      BY <1>0, <2>1, <3>1, Untouched, PlainHandler
    <3>2. CASE h.window = window.id /\ Collects(h.about)
      <4>1. AuctionsKept
        BY <3>2, AuctionMoves, StaysListed DEF Collects, Leaves
      <4>2. GoodsKept
        BY <3>2, <4>1, Returned DEF Collects, GoodsKept
      <4>3. CASE Opens("manage", 0)
        BY <1>0, <2>1, <3>2, <4>2, <4>3, OpeningHandler DEF Menus
      <4>4. CASE window' = NoWindow /\ UNCHANGED <<opened, packets>>
        BY <1>0, <2>1, <3>2, <4>2, <4>4, PlainHandler DEF QuietAfter
      <4> QED  BY <3>2, <4>3, <4>4 DEF Collects
    <3> QED  BY <2>1, <3>1, <3>2 DEF Click
  <2> QED  BY <1>2, <1>4, <2>1 DEF ClaimsFromView
<1> QED  BY <1>1, <1>2, <1>3, <1>4 DEF Claims

LEMMA PurchasesPriced == ASSUME House, NEW h \in handlers, ClaimsPurchased(h) PROVE House'
<1>0. step' = step /\ aborted' = aborted /\ handlerUnchanged
  BY DEF ClaimsPurchased
<1>1. ASSUME NEW kind \in {"bids", "view"}, Ends(h), Click(h, LeadsTo({kind})), mode' = mode
      PROVE  House'
  BY <1>0, <1>1, LeadingHandler DEF Menus
<1>2. CASE Quits(h)
  BY <1>0, <1>2, QuitsPlainly, PlainHandler
<1> QED  BY <1>1, <1>2 DEF ClaimsPurchased

LEMMA CancelsPriced == ASSUME House, NEW h \in handlers, Cancels(h) PROVE House'
<1>0. /\ step' = step /\ aborted' = aborted /\ handlerUnchanged
      /\ h.window \in 1 .. current
  BY HandlerFacts DEF Cancels
<1>1. CASE Ends(h) /\ Click(h, LeadsTo({"manage"})) /\ mode' = mode
  BY <1>0, <1>1, LeadingHandler DEF Menus
<1>2. CASE Quits(h)
  BY <1>0, <1>2, QuitsPlainly, PlainHandler
<1>3. ASSUME NEW n \in DOMAIN auctions, Click(h, GoodsStay /\ Opens("view", n)), Ends(h),
             mode' = mode
      PROVE  House'
  <2>1. CASE NoEffect
    BY <1>0, <1>3, <2>1, Untouched, PlainHandler
  <2>2. CASE h.window = window.id /\ GoodsStay /\ Opens("view", n)
    <3>1. n \in Nat
      BY LenProperties DEF House, HouseTypes
    <3>2. "view" \in Menus
      BY DEF Menus
    <3> QED  BY <1>0, <1>3, <2>2, <3>1, <3>2, Untouched, OpeningHandler
  <2> QED  BY <1>3, <2>1, <2>2 DEF Click
<1>4. CASE h.about \in Mine /\ Click(h, Withdraws(h.about)) /\ Ends(h) /\ mode' = mode
  <2>1. CASE NoEffect
    BY <1>0, <1>4, <2>1, Untouched, PlainHandler
  <2>2. CASE h.window = window.id /\ Withdraws(h.about)
    <3>1. /\ auctions \in Seq(Auctions) /\ h.about \in DOMAIN auctions
          /\ auctions[h.about].item # Theirs
          /\ inventory \in [Slots -> Goods] /\ AuctionsOK
      BY <1>4 DEF Mine, House, HouseTypes, Priced
    <3>2. auctions[h.about] \in Auctions
      BY <3>1, ElementOfSeq, LenProperties
    <3>3. auctions[h.about].item \in Goods /\ auctions[h.about].item # NoItem
      BY <3>1, <3>2 DEF Auctions, AuctionsOK
    <3>4. PreviewKept
      BY <2>2, <3>1, <3>3 DEF Withdraws, PreviewKept
    <3>5. GoodsKept
      BY <2>2, <3>4, AuctionMoves DEF Withdraws, Leaves, GoodsKept
    <3>6. QuietAfter(packets)
      <4>1. h.about \in Nat
        BY HandlerFacts
      <4>2. [is |-> "cancelled", id |-> 0, kind |-> "none", about |-> h.about] \in Lines
        BY <4>1, LineIsSaid DEF Said
      <4> QED  BY <1>0, <2>2, <4>2 DEF Withdraws, Sends, QuietAfter
    <3> QED  BY <1>0, <1>4, <3>5, <3>6, PlainHandler
  <2> QED  BY <1>4, <2>1, <2>2 DEF Click
<1>5. CASE h.kind = "confirm" /\ Click(h, Lists) /\ Ends(h) /\ mode' = "Idle"
  <2>1. CASE NoEffect
    BY <1>0, <1>5, <2>1, Untouched, PlainHandler
  <2>2. CASE h.window = window.id /\ Lists
    BY <1>0, <1>5, <2>2, ListingStep
  <2> QED  BY <1>5, <2>1, <2>2 DEF Click
<1>6. CASE Ends(h) /\ Waits /\ mode' = mode
  BY <1>0, <1>6, WaitsPlainly, PlainHandler
<1> QED  BY <1>1, <1>2, <1>3, <1>4, <1>5, <1>6 DEF Cancels, CancelsInView

LEMMA HandlerPriced == ASSUME House, NEW h \in handlers, Handler(h) PROVE House'
BY StartsPriced, QuitsPriced, ReadsPriced, ClicksPriced, ClearsPriced, PicksPriced,
   PricesPriced, ClaimsPriced, CancelsPriced, PurchasesPriced DEF Handler

-----------------------------------------------------------------------------
(* The packets, timers and commands *)

(* A step of no handler that opens nothing *)
LEMMA QuietElsewhere ==
    ASSUME House, GoodsKept, FlowKept, NEW rest \in Rests, QuietAfter(rest),
           rest = packets \/ (Head(packets).is = "stuck" => ~ Listing'),
           mode' \in {mode, "Idle", "ClaimingSold"}, uuids' \in Seq(Nat),
           UNCHANGED <<handlers, current>>
    PROVE  House'
<1>1. mode' \in Modes /\ HandlersFine
  BY DEF House, HouseTypes, Modes, HandlersFine
<1> QED  BY <1>1, GoodsStayOK, QuietStep

(* The packets that are taken *)
LEMMA TakenFirst ==
    ASSUME House, NEW is, Take(is)
    PROVE  /\ Tail(packets) \in Rests /\ Head(packets).is = is /\ Head(packets) \in Packets
           /\ packets # <<>> /\ Tail(packets) \in Seq(Packets)
           /\ 1 \in DOMAIN packets /\ packets[1] = Head(packets)
<1>1. packets \in Seq(Packets) /\ packets # <<>>
  BY DEF House, HouseTypes, Take
<1> QED  BY <1>1, Later DEF Take, Rests

LEMMA ScreenPriced == ASSUME House, OnOpenScreen PROVE House'
<1>0. Take("open")
  BY DEF OnOpenScreen
<1>1. /\ WindowsInOrder' /\ WindowTypes' /\ window.kind \notin Signs
      /\ \A k \in DOMAIN packets : packets[k].is # "sign"
  BY WindowReported DEF House
<1>2. /\ UNCHANGED <<inventory, preview, price, auctions, window, opened, mode, step, context,
                     aborted, uuids, generation>>
      /\ \A g \in handlers' : g \in handlers \/ g.at = "starts"
      /\ packets' = Tail(packets)
  BY DEF OnOpenScreen, serverVars, flowVars, Done
<1>3. HouseTypes'
  BY <1>1, <1>2 DEF House, HouseTypes, WindowTypes
<1>4. StuckFirst(packets) => StuckFirst(packets')
  <2>1. Tail(packets) \in Rests /\ Head(packets).is # "stuck" /\ packets \in Seq(Packets)
    BY <1>0, TakenFirst DEF House, HouseTypes
  <2> QED  BY <1>2, <2>1, StuckStays
<1>5. OwnPreview => OwnPreview'
  BY <1>2, <1>4 DEF OwnPreview
<1>6. WindowOK' /\ ContextOK' /\ PreviewOK' /\ AuctionsOK'
  BY <1>2, <1>5 DEF House, Priced, WindowOK, ContextOK, PreviewOK, AuctionsOK, Good, Listing
<1>7. \A g \in handlers : HandlerOK(g) => HandlerOK(g)'
  BY <1>2, <1>5 DEF HandlerOK, Good, Listing
<1>8. "starts" \notin Interesting
  BY DEF Interesting, Clicks
<1> QED  BY <1>1, <1>2, <1>3, <1>6, <1>7, <1>8, PlainIsOK DEF House, Priced

(* What is written on a sign is the price of what is in the preview. *)
LEMMA WritingPriced ==
    ASSUME House, Take("sign"), Listing,
           Writes(IF step = "PriceSign" THEN context.price ELSE Hours),
           step \in {"PriceSign", "DurationSign"}, step' \notin Opening,
           UNCHANGED <<mode, context, aborted, uuids, generation, taskVars>>
    PROVE  House'
<1>0. /\ Tail(packets) \in Rests /\ Head(packets).is = "sign" /\ packets # <<>>
      /\ 1 \in DOMAIN packets /\ packets[1].is = "sign"
      /\ UNCHANGED <<handlers, current, inventory, preview, auctions>>
  BY TakenFirst DEF taskVars, Writes
<1>g. /\ GoodsOK /\ WindowOK /\ ContextOK /\ context.price \in Nat
  BY DEF House, HouseTypes, Priced, GoodsOK
<1>1. CASE window.kind \in Signs
  <2>1. /\ price' = IF window.kind = "priceSign"
                    THEN (IF step = "PriceSign" THEN context.price ELSE Hours) ELSE price
        /\ OpensAfter(Tail(packets), "bin", 0)
    BY <1>1 DEF Writes, Signs
  <2>2. ~ StuckFirst(packets)
    <3>1. \A k \in DOMAIN packets : k = 1 \/ 1 < k
      BY LenProperties DEF House, HouseTypes
    <3> QED  BY <1>0, <3>1 DEF StuckFirst
  <2>3. Good'
    <3>1. CASE window.kind = "priceSign"
      BY <1>0, <1>g, <2>1, <2>2, <3>1 DEF WindowOK, OwnPreview, Good, Opening
    <3>2. CASE window.kind = "durationSign"
      BY <1>0, <1>g, <2>1, <3>2 DEF WindowOK, Good
    <3> QED  BY <1>1, <3>1, <3>2 DEF Signs
  <2>4. GoodsOK'
    BY <1>0, <1>g, <2>1 DEF GoodsOK, PreviewOK, AuctionsOK, Hours
  <2>5. WindowStep /\ "bin" \in Menus
    BY <1>0, <1>1, <2>1 DEF WindowStep, SignIsWritten, OpensOne, Menus
  <2>6. /\ ContextOK' /\ context' \in [item : Goods, slot : Nat, price : Nat]
        /\ generation' \in Nat /\ mode' \in Modes /\ uuids' \in Seq(Nat)
    BY <1>g DEF House, HouseTypes, ContextOK
  <2> QED  BY <1>0, <2>1, <2>3, <2>4, <2>5, <2>6, OpeningStep
<1>2. CASE window.kind \notin Signs
  <2>1. packets' = Tail(packets) /\ UNCHANGED <<price, window, opened>>
    BY <1>2 DEF Writes, Done, Signs
  <2>2. window.id > current /\ window.kind \in {"house", "view"}
    BY <1>0, <1>2 DEF House, WindowsInOrder
  <2>3. QuietAfter(Tail(packets))
    BY <2>1 DEF QuietAfter
  <2>4. WindowsInOrder' /\ WindowTypes'
    <3>1. WindowStep
      BY <1>0, <2>3 DEF WindowStep
    <3> QED  BY <1>0, <3>1, WindowsStay DEF House
  <2>5. HouseTypes'
    BY <1>0, <2>1, <2>4 DEF House, HouseTypes, WindowTypes
  <2>6. WindowOK' /\ ContextOK' /\ PreviewOK' /\ AuctionsOK'
    BY <1>0, <1>g, <2>1, <2>2 DEF WindowOK, ContextOK, PreviewOK, AuctionsOK, GoodsOK
  <2>7. \A h \in handlers : HandlerOK(h) /\ h.window # window.id
    BY <2>2 DEF House, HouseTypes, WindowsInOrder, Priced, Windows
  <2>8. \A h \in handlers : HandlerOK(h)'
    BY <2>1, <2>7 DEF HandlerOK
  <2> QED  BY <1>0, <2>4, <2>5, <2>6, <2>8 DEF House, Priced
<1> QED  BY <1>1, <1>2

LEMMA EventPriced == ASSUME House, Event PROVE House'
<1>t. uuids \in Seq(Nat) /\ current \in Nat /\ current \in 0 .. current
  BY DEF House, HouseTypes
<1>1. CASE OnOpenScreen
  BY <1>1, ScreenPriced
<1>2. CASE OnSign
  <2>0. /\ Take("sign") /\ UNCHANGED <<mode, context, aborted, uuids, generation, taskVars>>
    BY <1>2 DEF OnSign
  <2>1. CASE Listing /\ step = "PriceSign" /\ step' = "SetDuration" /\ Writes(context.price)
    BY <2>0, <2>1, WritingPriced DEF Opening
  <2>2. CASE Listing /\ step = "DurationSign" /\ step' = "ConfirmSell" /\ Writes(Hours)
    BY <2>0, <2>2, WritingPriced DEF Opening
  <2>3. CASE Done /\ UNCHANGED <<serverVars, step>>
    <3>1. GoodsKept
      BY <2>3, Returned, StaysListed DEF serverVars, GoodsKept
    <3>2. FlowKept
      BY <2>0, <2>3 DEF FlowKept, Listing
    <3>3. Tail(packets) \in Rests /\ QuietAfter(Tail(packets)) /\ Head(packets).is # "stuck"
      BY <2>0, <2>3, TakenFirst DEF QuietAfter, Done, serverVars
    <3> QED  BY <1>t, <2>0, <3>1, <3>2, <3>3, QuietElsewhere DEF taskVars
  <2> QED  BY <1>2, <2>1, <2>2, <2>3 DEF OnSign, Listing
<1>3. CASE OnStuck
  <2>0. Take("stuck") /\ Done /\ Tail(packets) \in Rests
        /\ UNCHANGED <<context, uuids, generation, handlers, current>>
    BY <1>3, TakenFirst DEF OnStuck
  <2>1. CASE mode = "Selling"
    <3>1. /\ GoodsKept /\ opened' = opened
          /\ window' = window \/ (window.id \in 1 .. current /\ window' = NoWindow)
      BY <1>3, <1>t, <2>1, Closed DEF OnStuck
    <3>2. /\ aborted' = TRUE /\ mode' \in {mode, "Idle"} /\ step' \in {step, "Initial"}
      BY <1>3, <2>1 DEF OnStuck
    <3>3. FlowKept /\ ~ Listing'
      BY <2>0, <3>2 DEF FlowKept, Listing, Opening
    <3>4. QuietAfter(Tail(packets))
      BY <2>0, <3>1 DEF QuietAfter, Done
    <3> QED  BY <1>t, <2>0, <3>1, <3>2, <3>3, <3>4, QuietElsewhere
  <2>2. CASE mode # "Selling"
    <3>1. UNCHANGED <<serverVars, aborted, mode, step>>
      BY <1>3, <2>2 DEF OnStuck
    <3>2. GoodsKept
      BY <3>1, Returned, StaysListed DEF serverVars, GoodsKept
    <3>3. FlowKept /\ ~ Listing'
      BY <2>0, <2>2, <3>1 DEF FlowKept, Listing
    <3>4. QuietAfter(Tail(packets))
      BY <2>0, <3>1 DEF QuietAfter, Done, serverVars
    <3> QED  BY <1>t, <2>0, <3>1, <3>2, <3>3, <3>4, QuietElsewhere
  <2> QED  BY <2>1, <2>2
<1>4. ASSUME NEW is \in {"started", "sold", "cancelled"}, Take(is), Done,
             UNCHANGED <<serverVars, mode, step, context, aborted, generation, taskVars>>,
             uuids' \in Seq(Nat)
      PROVE  House'
  <2>1. Tail(packets) \in Rests /\ QuietAfter(Tail(packets)) /\ Head(packets).is # "stuck"
    BY <1>4, TakenFirst DEF QuietAfter, Done, serverVars
  <2>2. GoodsKept
    BY <1>4, Returned, StaysListed DEF serverVars, GoodsKept
  <2>3. FlowKept
    BY <1>4 DEF FlowKept, Listing
  <2> QED  BY <1>4, <2>1, <2>2, <2>3, QuietElsewhere DEF taskVars
<1>5. CASE OnStarted
  <2>1. uuids' \in Seq(Nat)
    BY <1>5, <1>t DEF OnStarted
  <2> QED  BY <1>4, <1>5, <2>1 DEF OnStarted
<1>6. CASE OnSold
  <2>1. Head(packets).about \in Nat
    BY <1>6, TakenFirst DEF OnSold, Packets
  <2>2. Append(uuids, Head(packets).about) \in Seq(Nat)
    BY <1>t, <2>1, AppendProperties
  <2>3. uuids' \in Seq(Nat)
    BY <1>6, <1>t, <2>2 DEF OnSold
  <2> QED  BY <1>4, <1>6, <2>3 DEF OnSold
<1>7. CASE OnCancelled
  <2>1. uuids' \in Seq(Nat)
    BY <1>7, <1>t DEF OnCancelled, flowVars
  <2> QED  BY <1>4, <1>7, <2>1 DEF OnCancelled, flowVars
<1>8. CASE OnMissing
  <2>0. /\ Take("missing") /\ Done /\ UNCHANGED <<step, context, aborted, uuids, generation,
                                                  handlers, current>>
    BY <1>8 DEF OnMissing, flowVars, taskVars
  <2>1. /\ GoodsKept /\ opened' = opened /\ mode' \in {mode, "Idle"}
        /\ window' = window \/ (window.id \in 1 .. current /\ window' = NoWindow)
    <3>1. CASE mode \in {"ClaimingSold", "ClaimingPurchased"}
      BY <1>8, <1>t, <3>1, Closed DEF OnMissing
    <3>2. CASE UNCHANGED <<mode, serverVars>>
      BY <3>2, Returned, StaysListed DEF serverVars, GoodsKept
    <3> QED  BY <1>8, <3>1, <3>2 DEF OnMissing
  <2>2. Tail(packets) \in Rests /\ QuietAfter(Tail(packets)) /\ Head(packets).is # "stuck"
    BY <2>0, <2>1, TakenFirst DEF QuietAfter, Done
  <2>3. FlowKept
    BY <2>0, <2>1 DEF FlowKept, Listing
  <2> QED  BY <1>t, <2>0, <2>1, <2>2, <2>3, QuietElsewhere
<1> QED  BY <1>1, <1>2, <1>3, <1>5, <1>6, <1>7, <1>8 DEF Event

LEMMA TimerPriced ==
    ASSUME House, (\E t \in timers : Expires(t)) \/ Watchdog
    PROVE  House'
<1>t. /\ uuids \in Seq(Nat) /\ current \in Nat /\ current \in 0 .. current /\ packets \in Rests
      /\ generation \in Nat /\ context \in [item : Goods, slot : Nat, price : Nat]
      /\ mode \in Modes
  BY Untouched DEF House, HouseTypes
<1>1. ASSUME UNCHANGED <<packets, step, context, uuids, generation, handlers, current, aborted>>,
             GoodsKept, opened' = opened, mode' \in {mode, "Idle"},
             window' = window \/ (window.id \in 1 .. current /\ window' = NoWindow)
      PROVE  House'
  <2>1. QuietAfter(packets) /\ FlowKept
    BY <1>1 DEF QuietAfter, FlowKept, Listing
  <2> QED  BY <1>1, <1>t, <2>1, QuietElsewhere
<1>2. UNCHANGED serverVars => /\ GoodsKept /\ opened' = opened /\ window' = window
  BY Returned, StaysListed DEF serverVars, GoodsKept
<1>3. CASE Watchdog
  <2>1. CASE Close(current) /\ mode' = "Idle"
    BY <1>1, <1>3, <1>t, <2>1, Closed DEF Watchdog, timerUnchanged
  <2>2. CASE UNCHANGED <<serverVars, mode>>
    BY <1>1, <1>2, <1>3, <2>2 DEF Watchdog, timerUnchanged
  <2> QED  BY <1>3, <2>1, <2>2 DEF Watchdog
<1>4. ASSUME NEW t, NEW flow, GoesIdle(t, flow)
      PROVE  House'
  BY <1>1, <1>2, <1>4 DEF GoesIdle, timerUnchanged
<1>5. ASSUME NEW t, Retry(t)
      PROVE  House'
  <2>0. UNCHANGED <<mode, step, context, uuids, generation, handlers, current>>
    BY <1>5 DEF Retry
  <2>1. CASE GoodsStay /\ Opens("house", 0)
    <3>1. GoodsOK'
      BY <2>1, Untouched, GoodsStayOK
    <3>2. WindowStep /\ "house" \in Menus
      BY <1>t, <2>1 DEF WindowStep, OpensOne, Opens, Menus
    <3>3. ContextOK'
      BY <2>0 DEF House, Priced, ContextOK
    <3> QED  BY <1>t, <2>0, <2>1, <3>1, <3>2, <3>3, OpeningStep DEF Opens
  <2>2. CASE UNCHANGED <<aborted, serverVars, packets>>
    BY <1>1, <1>2, <2>0, <2>2
  <2> QED  BY <1>5, <2>1, <2>2 DEF Retry
<1> QED  BY <1>3, <1>4, <1>5 DEF Expires

(* A command asks for the house, and nothing of an earlier one goes on. *)
LEMMA AskingStep ==
    ASSUME House, NEW kind \in {"house", "view"}, NEW about \in Nat, Asks(kind, about),
           mode' \in Modes, uuids' \in Seq(Nat),
           context' \in [item : Goods, slot : Nat, price : Nat], ContextOK',
           context.item # NoItem => context'.item # NoItem
    PROVE  House'
<1>1. GoodsKept
  BY Returned, StaysListed DEF Asks, GoodsKept
<1>2. GoodsOK' /\ packets \in Rests
  BY <1>1, Untouched, GoodsStayOK
<1>3. OpensAfter(packets, kind, about) /\ kind \in Menus
  BY DEF Asks, Opens, Menus
<1>4. WindowStep
  BY <1>2, <1>3 DEF WindowStep, OpensOne
<1>5. generation' \in Nat /\ UNCHANGED <<handlers, current>>
  BY DEF Asks, taskVars, House, HouseTypes
<1> QED  BY <1>2, <1>3, <1>4, <1>5, OpeningStep

LEMMA CommandPriced ==
    ASSUME House,
           SellToAuction \/ ClaimSoldItem \/ ClaimPurchasedItem \/ CancelAuction \/ IdleInventory
    PROVE  House'
<1>t. /\ uuids \in Seq(Nat) /\ current \in Nat /\ packets \in Rests
      /\ generation \in Nat /\ context \in [item : Goods, slot : Nat, price : Nat]
      /\ mode \in Modes /\ ContextOK
  BY Untouched DEF House, HouseTypes, Priced
<1>1. ASSUME NEW kind \in {"house", "view"}, NEW about \in Nat, Asks(kind, about),
             mode' \in Modes \ {"Selling"}, uuids' \in Seq(Nat), context' = context
      PROVE  House'
  <2>1. ContextOK'
    BY <1>1, <1>t DEF ContextOK
  <2> QED  BY <1>1, <1>t, <2>1, AskingStep
<1>2. CASE SellToAuction
  <2>1. PICK item \in Items, slot \in Slots :
           context' = [item |-> item, slot |-> slot, price |-> generation + 1]
    BY <1>2 DEF SellToAuction
  <2>2. Asks("house", 0) /\ mode' = "Selling" /\ uuids' = uuids /\ generation' = generation + 1
    BY <1>2 DEF SellToAuction, Asks
  <2>3. Slots \subseteq Nat /\ item # NoItem /\ item \in Goods
    BY AuctionHouseAssumption, FS_CardinalityType DEF Slots, Goods
  <2>4. context' \in [item : Goods, slot : Nat, price : Nat] /\ ContextOK'
        /\ context'.item # NoItem
    BY <1>t, <2>1, <2>2, <2>3 DEF ContextOK
  <2> QED  BY <1>t, <2>2, <2>4, AskingStep DEF Modes
<1>3. CASE ClaimSoldItem
  <2>0. mode' = "ClaimingSold" /\ context' = context /\ step' = step /\ aborted' = aborted
    BY <1>3 DEF ClaimSoldItem
  <2>1. CASE uuids = <<>>
    BY <1>1, <1>3, <1>t, <2>0, <2>1 DEF ClaimSoldItem, Modes
  <2>2. CASE uuids # <<>>
    <3>1. Tail(uuids) \in Seq(Nat) /\ Head(uuids) \in Nat /\ uuids' = Tail(uuids)
      BY <1>3, <1>t, <2>2, HeadTailProperties DEF ClaimSoldItem
    <3>2. CASE Asks("view", Head(uuids))
      BY <1>1, <2>0, <3>1, <3>2 DEF Modes
    <3>3. CASE /\ generation' = generation + 1 /\ Sends("missing", 0)
               /\ UNCHANGED <<serverVars, taskVars>>
      <4>1. GoodsKept
        BY <3>3, Returned, StaysListed DEF serverVars, GoodsKept
      <4>2. QuietAfter(packets)
        BY <3>3, LineIsSaid DEF QuietAfter, Sends, serverVars, Said
      <4>3. FlowKept
        BY <2>0, <3>3 DEF FlowKept, Listing
      <4> QED  BY <1>t, <2>0, <3>1, <3>3, <4>1, <4>2, <4>3, QuietElsewhere DEF taskVars
    <3> QED  BY <1>3, <2>2, <3>2, <3>3 DEF ClaimSoldItem
  <2> QED  BY <2>1, <2>2
<1>4. CASE ClaimPurchasedItem
  <2>1. <<>> \in Seq(Nat)
    BY EmptySeq
  <2> QED  BY <1>1, <1>4, <1>t, <2>1 DEF ClaimPurchasedItem, Modes
<1>5. CASE CancelAuction
  BY <1>1, <1>5, <1>t DEF CancelAuction, Modes
<1>6. CASE IdleInventory
  <2>1. GoodsKept /\ QuietAfter(packets)
    BY <1>6, Untouched DEF IdleInventory, NoEffect
  <2>2. FlowKept
    BY <1>6 DEF IdleInventory, FlowKept, Listing, flowVars
  <2> QED  BY <1>6, <1>t, <2>1, <2>2, QuietElsewhere DEF IdleInventory, flowVars, taskVars
<1> QED  BY <1>2, <1>3, <1>4, <1>5, <1>6

LEMMA SalePriced == ASSUME House, NEW n \in DOMAIN auctions, Sold(n) PROVE House'
<1>1. /\ uuids \in Seq(Nat) /\ packets \in Rests /\ n \in Nat
      /\ UNCHANGED <<mode, step, context, aborted, uuids, generation, handlers, current>>
  BY Untouched, LenProperties DEF House, HouseTypes, Sold, clientVars, flowVars, taskVars
<1>2. GoodsKept
  BY AuctionMoves, Returned DEF Sold, GoodsKept
<1>3. QuietAfter(packets)
  BY <1>1, LineIsSaid DEF Sold, QuietAfter, Sends, Said
<1>4. FlowKept
  BY <1>1 DEF FlowKept, Listing
<1> QED  BY <1>1, <1>2, <1>3, <1>4, QuietElsewhere

(* The inventory is rearranged, and nothing that was found in it is to be  *)
(* clicked.                                                                *)
LEMMA MovesPriced == ASSUME House, Moves, Settled PROVE House'
<1>1. /\ UNCHANGED <<preview, price, auctions, window, opened, packets, mode, step, context,
                     aborted, uuids, generation, handlers, current>>
  BY DEF Moves, clientVars, flowVars, taskVars
<1>2. inventory' \in [Slots -> Goods]
  BY DEF Moves, House, HouseTypes
<1>3. HouseTypes' /\ WindowsInOrder'
  BY <1>1, <1>2 DEF House, HouseTypes, WindowsInOrder
<1>4. WindowOK' /\ ContextOK' /\ PreviewOK' /\ AuctionsOK'
  BY <1>1 DEF House, Priced, WindowOK, ContextOK, PreviewOK, AuctionsOK, Good, Listing,
              OwnPreview, StuckFirst
<1>5. \A h \in handlers : HandlerOK(h) => HandlerOK(h)'
  BY <1>1 DEF HandlerOK, Settled, Good, Listing, OwnPreview, StuckFirst
<1> QED  BY <1>1, <1>3, <1>4, <1>5 DEF House, Priced

LEMMA HouseBegins == Init => House
<1> SUFFICES ASSUME Init PROVE House
  OBVIOUS
<1>1. Cardinality(Items) \in Nat /\ ExistsBijection(Slots, Items)
  BY AuctionHouseAssumption, FS_CardinalityType DEF Slots
<1>2. \E f \in [Slots -> Items] : \A s, t \in Slots : f[s] = f[t] => s = t
  BY <1>1 DEF ExistsBijection, Bijection, Injection, IsInjective
<1>3. inventory \in [Slots -> Goods]
  BY <1>2 DEF Init, Goods
<1> DEFINE a == [item |-> Theirs, price |-> 0, by |-> 0, wanted |-> Theirs, at |-> "active"]
<1>4. a \in Auctions /\ a.price = a.by /\ a.item = Theirs
  BY DEF Auctions
<1>5. auctions = <<a>>
  BY DEF Init
<1> HIDE DEF a
<1>6. auctions \in Seq(Auctions) /\ DOMAIN auctions = {1} /\ auctions[1] = a
  BY <1>4, <1>5
<1>7. AuctionsOK
  BY <1>4, <1>6 DEF AuctionsOK
<1>8. /\ preview \in [item : Goods, by : Nat, wanted : Goods] /\ preview = Empty
      /\ window \in Windows /\ window.kind = "none" /\ window.id = 0
      /\ context \in [item : Goods, slot : Nat, price : Nat] /\ context.item = NoItem
  BY DEF Init, Empty, NoWindow, Windows, WindowKinds, Goods
<1>9. /\ packets \in Seq(Packets) /\ uuids \in Seq(Nat) /\ packets = <<>> /\ handlers = {}
      /\ opened = 0 /\ current = 0 /\ generation = 0 /\ price = 0 /\ mode = "Idle"
      /\ DOMAIN packets = {}
  BY DEF Init
<1>10. HouseTypes
  BY <1>3, <1>6, <1>8, <1>9 DEF HouseTypes, Modes
<1>11. WindowsInOrder
  BY <1>8, <1>9 DEF WindowsInOrder, Menus, Signs
<1>12. WindowOK /\ ContextOK /\ PreviewOK
  BY <1>8, <1>9 DEF WindowOK, ContextOK, PreviewOK
<1> QED  BY <1>7, <1>9, <1>10, <1>11, <1>12 DEF House, Priced

LEMMA HouseStays == House /\ [Next /\ (Moves => Settled)]_houseVars => House'
<1> SUFFICES ASSUME House, [Next /\ (Moves => Settled)]_houseVars  PROVE House'
  OBVIOUS
<1>1. CASE UNCHANGED houseVars
  <2>1. UNCHANGED <<inventory, preview, price, auctions, window, opened, packets, mode, step,
                    context, aborted, uuids, generation, handlers, current>>
    BY <1>1 DEF houseVars, serverVars, flowVars, taskVars
  <2>2. HouseTypes' /\ WindowsInOrder'
    BY <2>1 DEF House, HouseTypes, WindowsInOrder
  <2>3. WindowOK' /\ ContextOK' /\ PreviewOK' /\ AuctionsOK'
    BY <2>1 DEF House, Priced, WindowOK, ContextOK, PreviewOK, AuctionsOK, Good, Listing,
                OwnPreview, StuckFirst
  <2>4. \A h \in handlers : HandlerOK(h) => HandlerOK(h)'
    BY <2>1 DEF HandlerOK, Good, Listing, OwnPreview, StuckFirst
  <2> QED  BY <2>1, <2>2, <2>3, <2>4 DEF House, Priced
<1>2. CASE Moves /\ Settled
  BY <1>2, MovesPriced
<1>3. CASE Next /\ ~ Moves
  BY <1>3, SalePriced, CommandPriced, EventPriced, HandlerPriced, TimerPriced DEF Next
<1> QED  BY <1>1, <1>2, <1>3

(* As long as the inventory is not rearranged between the look for an item *)
(* and the click on it, an auction carries the price of the command that   *)
(* picked its item, for any number of items, commands and retries, and     *)
(* with windows, signs and lines as late as they like                      *)
(* (bot/client.rs:3032-3088, 8908-8935).                                   *)
THEOREM PricesAreTheirOwn ==
    Spec /\ [][Moves => Settled]_houseVars => []PriceIsItsOwn
<1>1. House => PriceIsItsOwn
  BY DEF House, Priced, AuctionsOK, PriceIsItsOwn, Mine
<1>2. [Next]_houseVars /\ [Moves => Settled]_houseVars
         => [Next /\ (Moves => Settled)]_houseVars
  OBVIOUS
<1> QED  BY <1>1, <1>2, HouseBegins, HouseStays, PTL DEF Spec
=============================================================================
