------------------------------ MODULE DeviceSignIn ------------------------------
(***************************************************************************)
(* Staying signed in between launches: the desktop client                  *)
(* (src/src/client/synclient.cpp, not WebAssembly), its secure store       *)
(* (devicecredential.cpp), and the edge's half of the protocol, the        *)
(* /claim, /device and /logout routes (edge/identityprovider.cpp) over the *)
(* device registry (identity/deviceregistry.cpp).                          *)
(*                                                                         *)
(* A credential is a family and a secret; a redemption retires the secret  *)
(* and answers with the next.  The client's requests are asynchronous: a   *)
(* call is in flight until the client finishes with it, because an answer  *)
(* came, or because the transfer timeout or a crash made it stop waiting,  *)
(* and the edge may handle a request nobody waits for any more.            *)
(*                                                                         *)
(* The registry and the secure store survive crashes; the edge's sessions  *)
(* and claims and the client's fields do not.  The session table itself is *)
(* EdgeSessions; here a session is only there or gone.                     *)
(***************************************************************************)
EXTENDS Integers, Sequences, FiniteSets, SequencesExt

CONSTANTS
    Family, Secret, Session,       \* what randomSecret() and newToken() draw from
    NoCred, NoSecret, NoCookie,    \* the empty values
    Anon,           \* the cookie of an anonymous session
    Overlap,        \* m_config.overlapSeconds
    Inactivity,     \* m_config.inactivityDays
    Lifetime,       \* m_config.lifetimeDays
    OrphanAge,      \* the day a binding without a family is kept
    Events,         \* what visitor, network and machines do: see the actions
    Enrolled,       \* BOOLEAN: an earlier launch has stored a credential
    QuietFrom,      \* the time from which none of the Events happens any more
    InOrder,        \* BOOLEAN: requests reach the edge in the order they were sent
    MaxCalls,       \* bound on calls in flight, for model checking only
    MaxTime         \* bound on the clock, for model checking only

ASSUME DeviceAssumption ==
    /\ Overlap \in Nat /\ Inactivity \in Nat /\ Lifetime \in Nat /\ OrphanAge \in Nat
    /\ InOrder \in BOOLEAN /\ QuietFrom \in Nat
    /\ Events \subseteq {"login", "logout", "drop", "timeout", "crash", "restart", "busy",
                         "storeDown", "mapping", "saveFails", "saveLate", "rotate", "expiry"}
    /\ Enrolled \in BOOLEAN
    /\ MaxCalls \in Nat /\ MaxTime \in Nat
    /\ NoSecret \notin Secret
    /\ {NoCookie, Anon} \cap Session = {} /\ NoCookie # Anon

Cred == [id : Family, secret : Secret]
Cookie == Session \cup {NoCookie, Anon}

ASSUME CredAssumption == NoCred \notin Cred \cup Family

VARIABLES
    now,
    devices,    \* synqt_devices: family -> its generations and clocks
    bindings,   \* synqt_session_family: session -> family, and when
    sessions,   \* the edge's identified sessions
    claims,     \* the edge's ClaimStore: sessions a sign-in left to be claimed
    calls,      \* the client's requests in flight, in the order sent
    client,     \* the fields of SynClient
    disk,       \* what the secure store holds
    late,       \* writes abandoned by their deadline that may still land
    drawn,      \* every family, secret and session ever drawn
    history     \* for the properties: see History

vars == <<now, devices, bindings, sessions, claims, calls, client, disk, late, drawn, history>>
edge == <<devices, bindings, sessions, claims>>

--------------------------------------------------------------------------------
Device == [cur : Secret, prev : Secret \cup {NoSecret}, retired : Nat, used : Nat, expires : Nat]
Answer == [status : {200, 404, 429}, session : Session \cup {NoCookie}, cred : Cred \cup {NoCred}]
NoAnswer == [status |-> 0, session |-> NoCookie, cred |-> NoCred]
Call == [kind : {"redeem", "claim", "logout", "bootstrap"}, cred : Cred \cup {NoCred},
         cookie : Cookie, device : BOOLEAN,
         sent : BOOLEAN, waiting : BOOLEAN, answer : Answer \cup {NoAnswer}]
ClientFields ==
    [state : {"offline", "connecting", "connected", "reconnecting"},
     held : Cred \cup {NoCred},     \* m_held
     cookie : Cookie,               \* m_sessionCookie
     config : Cookie,               \* m_config.sessionCookie
     accepted : BOOLEAN,            \* m_sessionAccepted
     spent : BOOLEAN,               \* m_credentialSpent
     redeeming : BOOLEAN,           \* m_redeeming
     hold : BOOLEAN,                \* m_redeemNotBefore is running
     timer : BOOLEAN,               \* m_reconnectTimer is active
     handshake : BOOLEAN,           \* m_handshakeTimer is active
     socket : {"none", "opening", "open"},
     live : Cookie,                 \* the session the edge keeps the open socket under
     login : BOOLEAN,               \* a loopback receiver is open
     store : BOOLEAN]               \* DeviceCredential::m_available

Offline ==
    [state |-> "offline", held |-> NoCred, cookie |-> NoCookie, config |-> NoCookie,
     accepted |-> FALSE, spent |-> FALSE, redeeming |-> FALSE, hold |-> FALSE,
     timer |-> FALSE, handshake |-> FALSE, socket |-> "none", live |-> NoCookie,
     login |-> FALSE, store |-> TRUE]

\* Every name the model draws is drawn once, and from its own set.
ASSUME DrawAssumption ==
    Family \cap Secret = {} /\ Family \cap Session = {} /\ Secret \cap Session = {}

(***************************************************************************)
(* What the properties remember: the family each session descends from,    *)
(* when each secret was first retired, the families reuse was detected on, *)
(* and the session a credential bought in this process since the edge last *)
(* accepted one.                                                           *)
(***************************************************************************)
History ==
    [lineage : [Session -> Family \cup {NoCred}], retired : [Secret -> Int],
     reused : SUBSET Family, bought : Session \cup {NoCookie}]

NewDevice(secret) ==
    [cur |-> secret, prev |-> NoSecret, retired |-> 0, used |-> now, expires |-> now + Lifetime]

Init ==
    /\ now = 0
    /\ \/ /\ ~Enrolled
          /\ devices = [f \in {} |-> f]
          /\ disk = NoCred
          /\ drawn = {}
       \/ /\ Enrolled
          /\ \E f \in Family, secret \in Secret :
                /\ devices = [g \in {f} |-> NewDevice(secret)]
                /\ disk = [id |-> f, secret |-> secret]
                /\ drawn = {f, secret}
    /\ bindings = [s \in {} |-> s]
    /\ sessions = {} /\ claims = {}
    /\ calls = <<>>
    /\ client = Offline
    /\ late = {}
    /\ history = [lineage |-> [s \in Session |-> NoCred], retired |-> [x \in Secret |-> -1],
                  reused |-> {}, bought |-> NoCookie]

Happens(event) == event \in Events /\ now < QuietFrom

Put(f, k, v) == [x \in DOMAIN f \cup {k} |-> IF x = k THEN v ELSE f[x]]
Without(f, S) == [x \in DOMAIN f \ S |-> f[x]]

--------------------------------------------------------------------------------
(***************************************************************************)
(* The client.  Its methods are operators on the record of its fields.     *)
(***************************************************************************)
\* A request; a claim says whether this machine has a store to enrol (device).
Request(kind, cred, cookie) ==
    [kind |-> kind, cred |-> cred, cookie |-> cookie, device |-> client.store,
     sent |-> TRUE, waiting |-> TRUE, answer |-> NoAnswer]

\* A call that matters to nobody any more leaves: its answer was taken, and what the
\* edge has not read of it is nothing, or a request that changes nothing.
Settled(cs, i) ==
    IF cs[i].waiting \/ (cs[i].sent /\ cs[i].kind # "bootstrap") THEN cs ELSE RemoveAt(cs, i)

ConnectToEdge(c) ==
    [c EXCEPT !.state = "connecting", !.socket = "opening", !.handshake = TRUE]

\* Mutant: a lost connection schedules nothing.
OnDisconnected_NoTimer(c) == [c EXCEPT !.state = "reconnecting"]

OnDisconnected(c) ==
    IF c.state = "reconnecting" THEN c ELSE [c EXCEPT !.state = "reconnecting", !.timer = TRUE]

\* The last branches of openSession, which a failed redemption falls back to as well.
FallBack(c, others) ==
    \/ /\ c.config # NoCookie
       /\ client' = ConnectToEdge([c EXCEPT !.cookie = c.config])
       /\ calls' = others
    \/ /\ c.config = NoCookie
       /\ client' = [c EXCEPT !.state = "connecting"]
       /\ calls' = Append(others, Request("bootstrap", NoCred, NoCookie))

\* Mutant: a credential that has already bought a session may buy the next.
MayRedeem_Unspent(c) == ~c.redeeming /\ ~c.hold

MayRedeem(c) == ~c.redeeming /\ ~c.spent /\ ~c.hold
Loaded(c) ==
    IF MayRedeem(c) /\ c.held = NoCred /\ c.store THEN [c EXCEPT !.held = disk] ELSE c

\* openSession: the session in hand once more if it was accepted before, else the
\* stored credential, else the session in hand, else an anonymous one.
OpenSession(c, others) ==
    LET retries == c.config # NoCookie /\ c.accepted
        loaded  == Loaded(c)
        redeems == MayRedeem(c) /\ loaded.held # NoCred
    IN  /\ Len(others) < MaxCalls
        /\ \/ /\ retries
              /\ client' = ConnectToEdge([c EXCEPT !.accepted = FALSE, !.cookie = c.config])
              /\ calls' = others
           \/ /\ ~retries /\ redeems
              /\ client' = [loaded EXCEPT !.state = "connecting", !.redeeming = TRUE]
              /\ calls' = Append(others, Request("redeem", loaded.held, NoCookie))
           \/ /\ ~retries /\ ~redeems
              /\ FallBack(loaded, others)

\* start(), at launch and when the reconnect timer fires.
Launch ==
    /\ client.state = "offline"
    /\ OpenSession(client, calls)
    /\ UNCHANGED <<now, edge, disk, late, drawn, history>>

ReconnectTimer ==
    /\ client.timer
    /\ OpenSession([client EXCEPT !.timer = FALSE], calls)
    /\ UNCHANGED <<now, edge, disk, late, drawn, history>>

\* The edge accepts the socket: a session it knows, and an anonymous visitor.
SocketAccepted ==
    /\ client.socket = "opening"
    /\ client.cookie \in sessions \cup {Anon, NoCookie}
    /\ client' = [client EXCEPT !.socket = "open", !.live = client.cookie,
                                !.state = "connected", !.accepted = TRUE,
                                !.spent = FALSE, !.handshake = FALSE]
    /\ history' = [history EXCEPT !.bought = NoCookie]
    /\ UNCHANGED <<now, edge, calls, disk, late, drawn>>

\* A socket refused, dropped by the network, or closed because its session ended.
SocketLost ==
    /\ client.socket # "none"
    /\ \/ Happens("drop")
       \/ client.socket = "opening" /\ client.cookie \notin sessions \cup {Anon, NoCookie}
       \/ client.socket = "open" /\ client.live \notin sessions \cup {Anon, NoCookie}
    /\ client' = OnDisconnected([client EXCEPT !.socket = "none"])
    /\ UNCHANGED <<now, edge, calls, disk, late, drawn, history>>

\* Left running by a refused socket until the next connectToEdge.
HandshakeTimeout ==
    /\ client.handshake
    /\ Happens("timeout")
    /\ client' = OnDisconnected([client EXCEPT !.handshake = FALSE, !.socket = "none"])
    /\ UNCHANGED <<now, edge, calls, disk, late, drawn, history>>

HoldOver ==
    /\ client.hold
    /\ client' = [client EXCEPT !.hold = FALSE]
    /\ UNCHANGED <<now, edge, calls, disk, late, drawn, history>>

(***************************************************************************)
(* DeviceCredential::save of what an answer brought.  A write that fails   *)
(* is followed by an erase; one that misses its deadline too, and the      *)
(* store is written off while the abandoned worker may still write.        *)
(***************************************************************************)
Save(c, cred) ==
    \/ /\ ~c.store \/ cred = NoCred
       /\ client' = c
       /\ UNCHANGED <<disk, late>>
    \/ /\ c.store /\ cred # NoCred
       /\ client' = c
       /\ disk' = cred
       /\ UNCHANGED late
    \/ /\ c.store /\ cred # NoCred /\ Happens("saveFails")
       /\ client' = c
       /\ disk' = NoCred
       /\ UNCHANGED late
    \/ /\ c.store /\ cred # NoCred /\ Happens("saveLate")
       /\ client' = [c EXCEPT !.store = FALSE]
       /\ disk' = NoCred
       /\ late' = late \cup {cred}

LateWrite ==
    /\ \E cred \in late : disk' = cred /\ late' = late \ {cred}
    /\ UNCHANGED <<now, edge, calls, client, drawn, history>>

\* A 200 to a claim or a redemption: the next generation is stored before the
\* session is used, and the socket is opened with it.
Signed(c, cred, session) ==
    ConnectToEdge([c EXCEPT !.held = IF cred # NoCred THEN cred ELSE @,
                            !.cookie = session, !.config = session])

FinishRedeem(i) ==
    LET answer == calls[i].answer
        others == Settled([calls EXCEPT ![i].waiting = FALSE], i)
        c      == [client EXCEPT !.redeeming = FALSE]
    IN  /\ calls[i].kind = "redeem" /\ calls[i].waiting
        /\ \/ /\ answer.status = 200
              /\ Save([Signed(c, answer.cred, answer.session) EXCEPT !.spent = TRUE],
                      answer.cred)
              /\ calls' = others
              /\ history' = [history EXCEPT !.bought = answer.session]
           \/ /\ answer.status = 404
              /\ FallBack([c EXCEPT !.held = NoCred], others)
              /\ disk' = IF c.store THEN NoCred ELSE disk
              /\ UNCHANGED <<late, history>>
           \/ /\ answer.status = 429
              /\ FallBack([c EXCEPT !.hold = TRUE], others)
              /\ UNCHANGED <<disk, late, history>>
           \/ /\ Happens("timeout")
              /\ FallBack(c, others)
              /\ UNCHANGED <<disk, late, history>>
        /\ UNCHANGED <<now, edge, drawn>>

FinishClaim(i) ==
    LET answer == calls[i].answer
        others == Settled([calls EXCEPT ![i].waiting = FALSE], i)
        c      == [client EXCEPT !.login = FALSE]
    IN  /\ calls[i].kind = "claim" /\ calls[i].waiting
        /\ \/ /\ answer.status = 200
              /\ Save([Signed(c, answer.cred, answer.session) EXCEPT
                          !.spent = c.spent \/ answer.cred # NoCred], answer.cred)
              /\ history' = [history EXCEPT
                                !.bought = IF answer.cred # NoCred THEN answer.session ELSE @]
           \/ /\ answer.status = 404 \/ Happens("timeout")
              /\ client' = c
              /\ UNCHANGED <<disk, late, history>>
        /\ calls' = others
        /\ UNCHANGED <<now, edge, drawn>>

\* Session.login() opens a loopback port; the browser's sign-in ends with a session
\* of the edge's left to be claimed, and the port's answer sends the claim.
BeginLogin ==
    /\ Happens("login")
    /\ client.state # "offline" /\ ~client.login
    /\ client' = [client EXCEPT !.login = TRUE]
    /\ UNCHANGED <<now, edge, calls, disk, late, drawn, history>>

LoginAnswer ==
    /\ client.login
    /\ Len(calls) < MaxCalls
    /\ \A i \in 1..Len(calls) : calls[i].kind = "claim" => ~calls[i].waiting
    /\ \E s \in Session \ drawn :
          /\ sessions' = sessions \cup {s}
          /\ claims' = claims \cup {s}
          /\ drawn' = drawn \cup {s}
          /\ calls' = Append(calls, Request("claim", NoCred, s))
    /\ UNCHANGED <<now, devices, bindings, client, disk, late, history>>

\* endSession: the stored credential goes before the request is made.
EndSession ==
    /\ Happens("logout")
    /\ client.state # "offline"
    /\ Len(calls) < MaxCalls
    /\ client' = [client EXCEPT !.login = FALSE, !.held = NoCred]
    /\ disk' = IF client.store THEN NoCred ELSE disk
    /\ calls' = Append(calls, Request("logout", NoCred, client.cookie))
    /\ UNCHANGED <<now, edge, late, drawn, history>>

\* Whatever the edge answered, the client drops its session and starts over.
FinishLogout(i) ==
    /\ calls[i].kind = "logout" /\ calls[i].waiting
    /\ calls[i].answer # NoAnswer \/ Happens("timeout")
    /\ OpenSession([client EXCEPT !.cookie = NoCookie, !.config = NoCookie],
                   Settled([calls EXCEPT ![i].waiting = FALSE], i))
    /\ UNCHANGED <<now, edge, disk, late, drawn, history>>

FinishBootstrap(i) ==
    /\ calls[i].kind = "bootstrap" /\ calls[i].waiting
    /\ \E cookie \in IF calls[i].answer # NoAnswer THEN {Anon} ELSE {NoCookie} :
          client' = ConnectToEdge([client EXCEPT !.cookie = cookie])
    /\ calls[i].answer # NoAnswer \/ Happens("timeout")
    /\ calls' = Settled([calls EXCEPT ![i].waiting = FALSE], i)
    /\ UNCHANGED <<now, edge, disk, late, drawn, history>>

\* The process ends: nothing in memory survives it, requests already sent do.
Crash ==
    /\ Happens("crash")
    /\ client.state # "offline"
    /\ client' = Offline
    /\ calls' = [i \in 1..Len(calls) |-> [calls[i] EXCEPT !.waiting = FALSE]]
    /\ history' = [history EXCEPT !.bought = NoCookie]
    /\ UNCHANGED <<now, edge, disk, late, drawn>>

\* A request whose connection the client gave up is dropped before the edge reads it, or
\* its answer is dropped on the way to nobody.
RequestLost ==
    /\ \E i \in 1..Len(calls) : /\ ~calls[i].waiting
                               /\ calls' = RemoveAt(calls, i)
    /\ UNCHANGED <<now, edge, client, disk, late, drawn, history>>

--------------------------------------------------------------------------------
(***************************************************************************)
(* The edge.  A route handler is one step: the registry's queries are      *)
(* synchronous and nothing else runs on the edge in between.               *)
(***************************************************************************)
\* The request the edge takes up next, and the call once it is answered.
Arrives(i, kind) ==
    /\ calls[i].kind = kind /\ calls[i].sent
    /\ InOrder => \A j \in 1..(i - 1) : ~calls[j].sent

Replied(i, status, session, cred) ==
    Settled([calls EXCEPT ![i] = [@ EXCEPT !.sent = FALSE,
                                           !.answer = [status |-> status, session |-> session,
                                                       cred |-> cred]]], i)

\* Whether the registry's database answers (isOpen).
StoreAnswers == IF Happens("storeDown") THEN BOOLEAN ELSE {TRUE}

Lapsed(row) == now >= row.expires \/ now - row.used > Inactivity

\* What redeem makes of a secret presented for a row.
Verdict(row, secret) ==
    CASE Lapsed(row)                                            -> "lapsed"
      [] ~Lapsed(row) /\ secret = row.cur                       -> "current"
      [] ~Lapsed(row) /\ secret = row.prev /\ now - row.retired =< Overlap -> "overlap"
      [] ~Lapsed(row) /\ secret = row.prev /\ now - row.retired > Overlap  -> "reuse"
      [] OTHER                                                  -> "stranger"

\* Mutant: every redemption retires the live generation.
Issue_AlwaysRetires(row, next, verdict) ==
    [row EXCEPT !.cur = next, !.used = now, !.prev = row.cur, !.retired = now]
\* issue(): the next generation; only redeeming the live one starts a window.
Issue(row, next, verdict) ==
    [row EXCEPT !.cur = next, !.used = now,
                !.prev = IF verdict = "current" THEN row.cur ELSE row.prev,
                !.retired = IF verdict = "current" THEN now ELSE row.retired]

\* The history's own note of when a generation stopped being the live one.
FirstRetired(secret, verdict) ==
    IF verdict = "current" THEN [history.retired EXCEPT ![secret] = now] ELSE history.retired

OfFamily(f) == {s \in DOMAIN bindings : bindings[s].family = f}

\* purgeExpired: rows past either clock, then old bindings that lead nowhere.
Purged(rows) == Without(rows, {f \in DOMAIN rows : Lapsed(rows[f])})
PurgedBindings(rows) ==
    Without(bindings, {s \in DOMAIN bindings : /\ now - bindings[s].at > OrphanAge
                                               /\ bindings[s].family \notin DOMAIN rows})

\* handleDevice, granted: the generation rotates, and a session is made and bound.
RedeemGranted(i) ==
    LET cred    == calls[i].cred
        row     == devices[cred.id]
        verdict == Verdict(row, cred.secret)
    IN  /\ Arrives(i, "redeem")
        /\ cred.id \in DOMAIN devices
        /\ verdict \in {"current", "overlap"}
        /\ \E next \in Secret \ drawn, s \in Session \ drawn :
              /\ devices' = [devices EXCEPT ![cred.id] = Issue(row, next, verdict)]
              /\ sessions' = sessions \cup {s}
              /\ bindings' = Put(bindings, s, [family |-> cred.id, at |-> now])
              /\ calls' = Replied(i, 200, s, [id |-> cred.id, secret |-> next])
              /\ drawn' = drawn \cup {next, s}
              /\ history' = [history EXCEPT !.lineage = [@ EXCEPT ![s] = cred.id],
                                            !.retired = FirstRetired(row.cur, verdict)]
        /\ UNCHANGED <<now, claims, client, disk, late>>

\* handleDevice, granted by the registry and then refused by the mapping hook.
RedeemUnmapped(i) ==
    LET cred    == calls[i].cred
        row     == devices[cred.id]
        verdict == Verdict(row, cred.secret)
    IN  /\ Happens("mapping")
        /\ Arrives(i, "redeem")
        /\ cred.id \in DOMAIN devices
        /\ verdict \in {"current", "overlap"}
        /\ \E next \in Secret \ drawn :
              /\ devices' = [devices EXCEPT ![cred.id] = Issue(row, next, verdict)]
              /\ drawn' = drawn \cup {next}
              /\ history' = [history EXCEPT !.retired = FirstRetired(row.cur, verdict)]
        /\ calls' = Replied(i, 404, NoCookie, NoCred)
        /\ UNCHANGED <<now, bindings, sessions, claims, client, disk, late>>

\* handleDevice, refused: a lapsed family is deleted; a retired generation past its
\* window ends the family and every session it opened; anything else changes nothing.
RedeemRefused(i) ==
    LET cred    == calls[i].cred
        verdict == IF cred.id \notin DOMAIN devices THEN "stranger"
                   ELSE Verdict(devices[cred.id], cred.secret)
        opened  == IF verdict = "reuse" THEN OfFamily(cred.id) ELSE {}
    IN  /\ Arrives(i, "redeem")
        /\ verdict \in {"stranger", "lapsed", "reuse"}
        /\ devices' = IF verdict = "stranger" THEN devices ELSE Without(devices, {cred.id})
        /\ bindings' = Without(bindings, opened)
        /\ sessions' = sessions \ opened
        /\ calls' = Replied(i, 404, NoCookie, NoCred)
        /\ history' = IF verdict = "reuse"
                      THEN [history EXCEPT !.reused = @ \cup {cred.id}] ELSE history
        /\ UNCHANGED <<now, claims, client, disk, late, drawn>>

\* Mutant: a full table is answered like a dead credential.
RedeemTooMany_Refuses(i) ==
    /\ Happens("busy")
    /\ Arrives(i, "redeem")
    /\ calls' = Replied(i, 404, NoCookie, NoCred)
    /\ UNCHANGED <<now, edge, client, disk, late, drawn, history>>

\* The rate window or a full session table: asked before anything is spent.
RedeemTooMany(i) ==
    /\ Happens("busy")
    /\ Arrives(i, "redeem")
    /\ calls' = Replied(i, 429, NoCookie, NoCred)
    /\ UNCHANGED <<now, edge, client, disk, late, drawn, history>>

\* The registry's database is not there: redeem finds nothing.
RedeemStoreDown(i) ==
    /\ Happens("storeDown")
    /\ Arrives(i, "redeem")
    /\ calls' = Replied(i, 404, NoCookie, NoCred)
    /\ UNCHANGED <<now, edge, client, disk, late, drawn, history>>

\* handleClaim: the claim is taken, and a live session enrols a device that asked.
Claim(i) ==
    LET s == calls[i].cookie
    IN  /\ Arrives(i, "claim")
        /\ claims' = claims \ {s}
        /\ \/ /\ s \notin claims
              /\ calls' = Replied(i, 404, NoCookie, NoCred)
              /\ UNCHANGED <<devices, bindings, drawn, history>>
           \/ /\ s \in claims
              /\ s \notin sessions \/ ~calls[i].device \/ FALSE \in StoreAnswers
              /\ calls' = Replied(i, 200, s, NoCred)
              /\ UNCHANGED <<devices, bindings, drawn, history>>
           \/ /\ s \in claims \cap sessions /\ calls[i].device
              /\ \E f \in Family \ drawn, secret \in Secret \ drawn :
                   LET rows == Purged(devices)
                   IN  /\ devices' = Put(rows, f, NewDevice(secret))
                       /\ bindings' = Put(PurgedBindings(rows), s, [family |-> f, at |-> now])
                       /\ drawn' = drawn \cup {f, secret}
                       /\ calls' = Replied(i, 200, s, [id |-> f, secret |-> secret])
                       /\ history' = [history EXCEPT !.lineage[s] = f]
        /\ UNCHANGED <<now, sessions, client, disk, late>>

\* Mutant: signing out ends the session and keeps the family.
Logout_KeepsFamily(i) ==
    /\ Arrives(i, "logout")
    /\ bindings' = Without(bindings, {calls[i].cookie})
    /\ sessions' = sessions \ {calls[i].cookie}
    /\ calls' = Replied(i, 200, NoCookie, NoCred)
    /\ UNCHANGED <<now, devices, claims, client, disk, late, drawn, history>>

\* handleLogout: the family the session is bound to goes with the session.
Logout(i) ==
    LET s      == calls[i].cookie
        family == IF s \in DOMAIN bindings THEN {bindings[s].family} ELSE {}
    IN  /\ Arrives(i, "logout")
        /\ \E answers \in StoreAnswers :
              /\ devices' = IF answers THEN Without(devices, family) ELSE devices
              /\ bindings' = IF answers THEN Without(bindings, {s}) ELSE bindings
        /\ sessions' = sessions \ {s}
        /\ calls' = Replied(i, 200, NoCookie, NoCred)
        /\ UNCHANGED <<now, claims, client, disk, late, drawn, history>>

Bootstrap(i) ==
    /\ Arrives(i, "bootstrap")
    /\ calls' = Replied(i, 200, NoCookie, NoCred)
    /\ UNCHANGED <<now, edge, client, disk, late, drawn, history>>

\* Mutant: the binding does not follow the rotation.
Rotate_LeavesBinding ==
    /\ Happens("rotate")
    /\ client.socket = "open" /\ client.live \in sessions
    /\ \E to \in Session \ drawn :
          /\ sessions' = (sessions \ {client.live}) \cup {to}
          /\ drawn' = drawn \cup {to}
          /\ client' = [client EXCEPT !.live = to]
          /\ history' = [history EXCEPT !.lineage[to] = history.lineage[client.live]]
    /\ UNCHANGED <<now, devices, bindings, claims, calls, disk, late>>

\* Caller.setScope in a slot: the session moves to a new credential and its binding
\* follows (followRotation); the desktop client is told nothing.
Rotate ==
    LET s == client.live
    IN  /\ Happens("rotate")
        /\ client.socket = "open" /\ s \in sessions
        /\ \E to \in Session \ drawn :
              /\ sessions' = (sessions \ {s}) \cup {to}
              /\ \E answers \in StoreAnswers :
                    bindings' = IF answers /\ s \in DOMAIN bindings
                                THEN Put(Without(bindings, {s}), to,
                                         [family |-> bindings[s].family, at |-> now])
                                ELSE bindings
              /\ drawn' = drawn \cup {to}
              /\ client' = [client EXCEPT !.live = to]
              /\ history' = [history EXCEPT !.lineage[to] = history.lineage[s]]
        /\ UNCHANGED <<now, devices, claims, calls, disk, late>>

\* A session past its TTL: forgetSession drops the binding and keeps the family.
SessionExpired ==
    /\ Happens("expiry")
    /\ \E s \in sessions, answers \in StoreAnswers :
          /\ sessions' = sessions \ {s}
          /\ bindings' = IF answers THEN Without(bindings, {s}) ELSE bindings
    /\ UNCHANGED <<now, devices, claims, calls, client, disk, late, drawn, history>>

\* The edge restarts, which takes time: what it kept in memory is gone, and opening
\* the registry purges it.
EdgeRestart ==
    /\ Happens("restart")
    /\ now < MaxTime
    /\ now' = now + 1
    /\ sessions' = {} /\ claims' = {}
    /\ devices' = Purged(devices)
    /\ bindings' = PurgedBindings(Purged(devices))
    /\ UNCHANGED <<calls, client, disk, late, drawn, history>>

Tick ==
    /\ now < MaxTime
    /\ now' = now + 1
    /\ UNCHANGED <<edge, calls, client, disk, late, drawn, history>>

Finish ==
    \E i \in 1..Len(calls) : FinishRedeem(i) \/ FinishClaim(i) \/ FinishLogout(i)
                                             \/ FinishBootstrap(i)

EdgeStep ==
    \E i \in 1..Len(calls) : RedeemGranted(i) \/ RedeemUnmapped(i) \/ RedeemRefused(i)
                             \/ RedeemTooMany(i) \/ RedeemStoreDown(i) \/ Claim(i)
                             \/ Logout(i) \/ Bootstrap(i)

Next ==
    \/ Launch \/ ReconnectTimer \/ SocketAccepted \/ SocketLost \/ HandshakeTimeout
    \/ HoldOver \/ LateWrite \/ Finish \/ EdgeStep
    \/ BeginLogin \/ LoginAnswer \/ EndSession \/ Crash \/ RequestLost
    \/ Rotate \/ SessionExpired \/ EdgeRestart \/ Tick

Spec == Init /\ [][Next]_vars

\* What the two event loops guarantee, and that time passes.
LiveSpec ==
    /\ Spec
    /\ WF_vars(Launch) /\ WF_vars(ReconnectTimer) /\ WF_vars(SocketAccepted)
    /\ WF_vars(SocketLost) /\ WF_vars(Finish) /\ WF_vars(EdgeStep) /\ WF_vars(Tick)

--------------------------------------------------------------------------------
(***************************************************************************)
(* Properties.                                                             *)
(***************************************************************************)
\* The variables have their types.
TypeOK ==
    /\ now \in Nat
    /\ DOMAIN devices \subseteq Family /\ devices \in [DOMAIN devices -> Device]
    /\ DOMAIN bindings \subseteq Session
    /\ bindings \in [DOMAIN bindings -> [family : Family, at : Nat]]
    /\ sessions \subseteq Session /\ claims \subseteq Session
    /\ calls \in Seq(Call)
    /\ client \in ClientFields
    /\ disk \in Cred \cup {NoCred} /\ late \subseteq Cred
    /\ drawn \subseteq Family \cup Secret \cup Session
    /\ history \in History

Waiting(kinds) == {i \in 1..Len(calls) : calls[i].waiting /\ calls[i].kind \in kinds}
Known(cred) == cred.id \in DOMAIN devices /\ cred.secret \in {devices[cred.id].cur,
                                                              devices[cred.id].prev}
Redeemable(cred) ==
    cred.id \in DOMAIN devices
    /\ Verdict(devices[cred.id], cred.secret) \in {"current", "overlap"}

\* A client that loses answers or crashes before it stored one "keeps working"
\* (deviceregistry.cpp:189-192): while the edge has the family at all, what the machine
\* stores is its live generation or the one just retired, never one the edge takes for
\* a stranger's.
StoredCredentialIsKnown ==
    disk # NoCred /\ disk.id \in DOMAIN devices => Known(disk)

\* The client is never waiting for nothing: while it runs and is not connected, a
\* request, a socket or a timer of its own will move it.
NeverStuck ==
    client.state \in {"connecting", "reconnecting"} =>
        \/ client.timer
        \/ client.socket # "none"
        \/ Waiting({"redeem", "claim", "logout", "bootstrap"}) # {}

\* m_redeeming is true exactly while one redemption is awaited, so a launch cannot spend
\* one generation twice, and a late answer cannot leave the client unable to spend any.
RedeemingIsExact == Cardinality(Waiting({"redeem"})) = IF client.redeeming THEN 1 ELSE 0

\* Reuse ends everything the family opened (onReuseDetected): whatever rotations and
\* expiries came in between, no session descended from it is left.
ReuseEndsEverySession ==
    \A s \in sessions : history.lineage[s] \notin history.reused

\* Both windows are what they say: a redemption never succeeds with a generation first
\* retired longer than the overlap ago, however often that generation came back in time
\* (issue: "without extending the window a single time").
WindowIsNotExtended ==
    [][\A i \in 1..Len(calls) : RedeemGranted(i) =>
           LET at == history.retired[calls[i].cred.secret]
           IN  at = -1 \/ now - at =< Overlap]_vars

\* A credential buys a session, not a connection (docs/desktop.md): between the session it
\* bought and the next redemption the edge has accepted a connection.
SpentOncePerSession ==
    [][Cardinality(Waiting({"redeem"})') > Cardinality(Waiting({"redeem"}))
       => history.bought = NoCookie]_vars

\* What is stored is deleted only when the edge refuses that credential itself
\* (docs/desktop.md): not by an outage, and not by an answer about another one.
ErasedOnlyWhenRefused ==
    [][\A i \in 1..Len(calls) : FinishRedeem(i) /\ disk # NoCred /\ disk' = NoCred
           => calls[i].answer.status = 200 \/ ~Redeemable(disk)]_vars

\* Signing out ends the family at the edge: what the session's own sign-in enrolled or
\* redeemed is not redeemable by anybody once the logout request was handled by an edge
\* whose database answered (the binding is gone, handleLogout).
SignOutForgetsTheDevice ==
    [][\A i \in 1..Len(calls) :
           Logout(i) /\ calls[i].cookie \in Session \ DOMAIN bindings'
           => history.lineage[calls[i].cookie] \notin DOMAIN devices']_vars

--------------------------------------------------------------------------------
(***************************************************************************)
(* The inductive invariants behind these properties.                       *)
(***************************************************************************)
Sent(i) == calls[i].kind = "redeem" /\ calls[i].sent

\* What the registry, the edge and the history name was drawn, so a new name is none of them.
NamesAreDrawn ==
    /\ DOMAIN devices \cup DOMAIN bindings \cup sessions \cup claims
          \cup history.reused \subseteq drawn
    /\ \A s \in Session : history.lineage[s] # NoCred => {s, history.lineage[s]} \subseteq drawn

\* While the registry has a family, the binding of each session descended from it says so.
BoundToLineage(s) ==
    history.lineage[s] \in DOMAIN devices =>
        s \in DOMAIN bindings /\ bindings[s].family = history.lineage[s]

\* A family reuse was detected on is gone for good, and until then every session it opened
\* can be found through its binding.
RegistryInv ==
    /\ NamesAreDrawn
    /\ history.reused \cap DOMAIN devices = {}
    /\ ReuseEndsEverySession
    /\ \A s \in sessions : BoundToLineage(s)

\* At most one redemption is awaited, exactly while m_redeeming says so, and a credential
\* that bought a session the edge has not accepted yet is marked spent.
SpendingInv ==
    /\ \A i, j \in Waiting({"redeem"}) : i = j
    /\ client.redeeming <=> Waiting({"redeem"}) # {}
    /\ history.bought # NoCookie => client.spent

\* Why a client is never stuck: a lost connection has started the timer, and a client that
\* connects has a socket or awaits the answer that will open one.
ProgressInv ==
    /\ client.state = "reconnecting" => client.timer
    /\ client.state = "connecting" => \/ client.socket # "none"
                                      \/ Waiting({"redeem", "logout", "bootstrap"}) # {}

\* A generation is retired once, when the next takes its place: until then the history has
\* no time for it, and of the one before it the time the row has. No family has another's
\* live generation, so nothing else retires it.
NothingRetiredEarly(f) ==
    LET row == devices[f]
    IN  /\ row.cur \in drawn /\ row.prev \in drawn \cup {NoSecret}
        /\ row.prev # row.cur
        /\ history.retired[row.cur] = -1
        /\ row.prev # NoSecret => history.retired[row.prev] = row.retired
WindowInv ==
    /\ \A i \in 1..Len(calls) : calls[i].kind = "redeem" => calls[i].cred # NoCred
    /\ \A x \in Secret : history.retired[x] # -1 => x \in drawn
    /\ \A f \in DOMAIN devices : NothingRetiredEarly(f)
    /\ \A f, g \in DOMAIN devices :
          f # g => devices[f].cur \notin {devices[g].cur, devices[g].prev}

\* Every credential the client keeps, sends or is answered with was drawn, and so was every
\* generation of the registry; a redemption brings one.
Credentials ==
    ({disk, client.held} \cup late \cup {calls[i].cred : i \in 1..Len(calls)}
        \cup {calls[i].answer.cred : i \in 1..Len(calls)}) \ {NoCred}
CredentialsAreDrawn ==
    /\ \A i \in 1..Len(calls) : calls[i].kind = "redeem" => calls[i].cred # NoCred
    /\ \A cred \in Credentials : cred.id \in drawn /\ cred.secret \in drawn
    /\ \A f \in DOMAIN devices : /\ devices[f].cur \in drawn
                                 /\ devices[f].prev \in drawn \cup {NoSecret}

\* No redemption is sent behind one that is awaited, and once that one is answered no
\* other is left to be handled: requests arrive in order.
AnsweredInOrder ==
    /\ \A i \in 1..Len(calls) : calls[i].sent => calls[i].answer = NoAnswer
    /\ \A i \in Waiting({"redeem"}), j \in 1..Len(calls) : Sent(j) => j =< i /\ calls[i].sent

\* Memory and disk hold the same credential, when both hold one.
HeldIsStored ==
    client.held # NoCred /\ disk # NoCred => client.held = disk

\* A redemption on its way for the family stored brings the generation stored.
SentIsStored ==
    \A j \in 1..Len(calls) :
        Sent(j) /\ disk # NoCred /\ disk.id = calls[j].cred.id
        => calls[j].cred.secret = disk.secret

\* The credential in an answer somebody waits for is the live generation of its family.
AnswerIsLive ==
    \A i \in Waiting({"redeem", "claim"}) :
        LET cred == calls[i].answer.cred
        IN  cred # NoCred /\ cred.id \in DOMAIN devices => devices[cred.id].cur = cred.secret

\* A family just enrolled is nobody's but the claim's until its answer is taken.
EnrolmentIsPrivate ==
    \A i \in Waiting({"claim"}) :
        LET f == calls[i].answer.cred.id
        IN  calls[i].answer.cred # NoCred =>
                /\ disk = NoCred \/ disk.id # f
                /\ client.held = NoCred \/ client.held.id # f
                /\ \A j \in 1..Len(calls) : j # i =>
                      /\ calls[j].kind = "redeem" => calls[j].cred.id # f
                      /\ calls[j].answer.cred = NoCred \/ calls[j].answer.cred.id # f

\* What keeps a stored credential known: with requests in order and no abandoned write.
StorageInv ==
    /\ late = {}
    /\ client.store
    /\ CredentialsAreDrawn
    /\ AnsweredInOrder
    /\ HeldIsStored
    /\ SentIsStored
    /\ AnswerIsLive
    /\ EnrolmentIsPrivate
    /\ StoredCredentialIsKnown

\* A redemption refused was one of a credential the registry will never take again, and
\* what is stored is the credential sent, for want of any other source.
RefusalInv ==
    /\ ~client.login
    /\ \A i \in 1..Len(calls) :
          /\ calls[i].kind # "claim"
          /\ calls[i].kind = "redeem" =>
                /\ calls[i].answer.status = 404 => ~Known(calls[i].cred)
                /\ calls[i].waiting => disk \in {NoCred, calls[i].cred}

\* Once the network is quiet and the edge stays up, the client gets a connection accepted:
\* a session the edge has forgotten is not retried for ever (synclient.cpp, openSession).
\* (Said of the behaviours in which the bounded supply of names lasts.)
NamesLeft == Secret \ drawn # {} /\ Session \ drawn # {}
EventuallyConnected == []NamesLeft => <>[](client.state = "connected")
================================================================================
