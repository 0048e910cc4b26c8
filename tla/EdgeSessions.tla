------------------------------ MODULE EdgeSessions ------------------------------
(***************************************************************************)
(* One web edge: its SessionManager (SessionTable), the browsers' cookies, *)
(* the WebSocket connections it hosts (WebEdge, src/src/edge/webedge.cpp)  *)
(* and the provider tokens it holds for signed-in sessions                 *)
(* (IdentityProvider / OAuthBackend).                                      *)
(*                                                                         *)
(* The edge is one event loop, so a handler runs to its end: each action   *)
(* is one handler with every signal it raises delivered, in the order the  *)
(* code raises them.  What is NOT one step is closing a socket:            *)
(* dropSession asks the transport to shut down and the disconnected        *)
(* handler runs on a later turn, so a connection is "closing" in between.  *)
(***************************************************************************)
EXTENDS SessionTable

CONSTANTS
    Browser,        \* user agents, each holding one session cookie
    Conn,           \* connection slots; m_config.maxConnectionsGlobal of them
    IdentityRequired, \* BOOLEAN: m_config.identityRequired
    SignInRoute,    \* BOOLEAN: m_config.signInPath is set and has a gate
    SignInScope,    \* m_config.signInScope
    LoginScope,     \* what mapScope makes of a proven identity
    MaxTime         \* bound on the clock, for model checking only

ASSUME EdgeAssumption ==
    /\ IdentityRequired \in BOOLEAN
    /\ SignInRoute \in BOOLEAN
    /\ SignInScope \in Scope
    /\ LoginScope \in Scope
    /\ MaxTime \in Nat
    /\ IsFiniteSet(Conn)

VARIABLES
    table,      \* the SessionManager's table
    now,        \* QDateTime::currentMSecsSinceEpoch()
    origin,     \* history: origin[t] is the first credential of the chain of
                \* hand-offs t belongs to, NoToken while t was never minted
    cookie,     \* what each browser presents
    conn,       \* per slot: its phase and the session it is bound to (*liveSession)
    sockets,    \* m_sessionSockets, a set of <<session, connection>> pairs
    refs,       \* m_sessionSources: session -> SessionSources::connections
    tokens      \* sessions OAuthBackend::m_tokens holds provider tokens for

vars == <<table, now, origin, cookie, conn, sockets, refs, tokens>>

Free == [phase |-> "free", live |-> NoToken]

Init ==
    /\ table = EmptyTable
    /\ now = 0
    /\ origin = [t \in Token |-> NoToken]
    /\ cookie = [b \in Browser |-> NoToken]
    /\ conn = [c \in Conn |-> Free]
    /\ sockets = {}
    /\ refs = [x \in {} |-> x]
    /\ tokens = {}

(***************************************************************************)
(* The edge's reactions to the manager's signals.                          *)
(***************************************************************************)
\* setInUseCheck: sessions the socket table names.
InUse == {pair[1] : pair \in sockets}

\* newToken: 256 random bits, so never one that was drawn before.
Fresh == {t \in Token : origin[t] = NoToken}

\* The connections bound to a session, closing ones included.
BoundTo(id) == {c \in Conn : conn[c].phase # "free" /\ conn[c].live = id}

\* dropSession for sessions announced as removed or expired, given the table the
\* signal finds: a credential whose hand-off still leads somewhere was rotated,
\* not ended, and is left alone.
Ended(t, ids) == {id \in ids : RotationOf(t, id, now) = NoToken}

DropSessions(ended) ==
    /\ sockets' = {pair \in sockets : pair[1] \notin ended}
    /\ conn' = [c \in Conn |-> IF \E id \in ended : <<id, c>> \in sockets
                               THEN [conn[c] EXCEPT !.phase = "closing"]
                               ELSE conn[c]]

\* Mutants of followRotation: the Sources stay behind; the socket table is not told.
FollowRotation_LeavesSources(from, to) ==
    LET movers == BoundTo(from)
    IN  /\ conn' = [c \in Conn |-> IF c \in movers THEN [conn[c] EXCEPT !.live = to]
                                                   ELSE conn[c]]
        /\ sockets' = (sockets \ ({from} \X movers)) \cup ({to} \X movers)
        /\ tokens' = IF from \in tokens THEN (tokens \ {from}) \cup {to} ELSE tokens
        /\ UNCHANGED refs
FollowRotation_LeavesSockets(from, to) ==
    /\ conn' = [c \in Conn |-> IF c \in BoundTo(from) THEN [conn[c] EXCEPT !.live = to]
                                                      ELSE conn[c]]
    /\ tokens' = IF from \in tokens THEN (tokens \ {from}) \cup {to} ELSE tokens
    /\ UNCHANGED <<sockets, refs>>

\* followRotation, on the edge and on the identity provider: every connection
\* bound to the old credential, the Sources (moved once) and the provider
\* tokens go to the new one.
FollowRotation(from, to) ==
    LET movers == BoundTo(from)
    IN  /\ conn' = [c \in Conn |-> IF c \in movers THEN [conn[c] EXCEPT !.live = to]
                                                   ELSE conn[c]]
        /\ sockets' = (sockets \ ({from} \X movers)) \cup ({to} \X movers)
        /\ refs' = IF movers # {} /\ from \in DOMAIN refs
                   THEN Put(Without(refs, {from}), to,
                            refs[from] + IF to \in DOMAIN refs THEN refs[to] ELSE 0)
                   ELSE refs
        /\ tokens' = IF from \in tokens THEN (tokens \ {from}) \cup {to} ELSE tokens

\* createSession behind a route, with what its sweep and its eviction announce.
\* grants: the session gets the provider tokens of the login that made it.
Issue(b, scope, identity, grants) ==
    \E id \in Fresh :
      LET made  == CreateSession(table, id, scope, identity, now, InUse)
          ended == made.expired \cup made.evicted
      IN  /\ table' = made.table
          /\ DropSessions(Ended(made.table, ended))
          /\ tokens' = (tokens \ ended) \cup (IF made.ok /\ grants THEN {id} ELSE {})
          /\ origin' = IF made.ok THEN [origin EXCEPT ![id] = id] ELSE origin
          /\ cookie' = IF made.ok THEN [cookie EXCEPT ![b] = id] ELSE cookie
          /\ UNCHANGED <<now, refs>>

\* setScope with what it announces: the rotation first, then the removal of the
\* old credential, which by then names no connection and holds no tokens.
Elevate(previous, next, scope, identity, keep) ==
    /\ table' = SetScope(table, previous, next, scope, identity, keep, now)
    /\ origin' = [origin EXCEPT ![next] = IF keep THEN origin[previous] ELSE next]
    /\ FollowRotation(previous, next)
    /\ UNCHANGED now

\* revoke, announced as a removal when the table held it.
Revoke(id) ==
    LET removed == {id} \cap Held(table)
        left    == Forget(table, removed)
    IN  /\ table' = left
        /\ DropSessions(Ended(left, removed))
        /\ tokens' = tokens \ Ended(left, removed)
        /\ UNCHANGED <<now, origin, refs>>

(***************************************************************************)
(* The handlers.                                                           *)
(***************************************************************************)
\* A page request (sessionCookieFor): a live cookie is left alone, a
\* rotated-away one is exchanged for its successor, anything else starts over.
PageLoad(b) ==
    LET presented == cookie[b]
        successor == RotationOf(table, presented, now)
    IN  /\ ~IsLive(table, presented, now)
        /\ \/ /\ successor # NoToken
              /\ cookie' = [cookie EXCEPT ![b] = successor]
              /\ UNCHANGED <<table, now, origin, conn, sockets, refs, tokens>>
           \/ /\ successor = NoToken
              /\ Issue(b, DefaultScope, Nobody, FALSE)

\* An accepted WebSocket upgrade, verified and hosted in one event-loop turn
\* (verifyUpgrade, rememberVerifiedSession, hostConnection).
Upgrade(b, c) ==
    LET id == cookie[b]
    IN  /\ IsLive(table, id, now)
        /\ IdentityRequired => table.sessions[id].identity # Nobody
        /\ conn[c].phase = "free"
        /\ conn' = [conn EXCEPT ![c] = [phase |-> "open", live |-> id]]
        /\ sockets' = sockets \cup {<<id, c>>}
        /\ refs' = Put(refs, id, 1 + IF id \in DOMAIN refs THEN refs[id] ELSE 0)
        /\ UNCHANGED <<table, now, origin, cookie, tokens>>

\* Caller.setScope in a slot called over a connection.  Found, not looked up:
\* a session past its TTL that no sweep has reached is elevated too.
SlotSetScope(c, scope, identity) ==
    /\ conn[c].phase = "open"
    /\ conn[c].live \in Held(table)
    /\ \E id \in Fresh : Elevate(conn[c].live, id, scope, identity, TRUE)
    /\ UNCHANGED cookie

\* The password gate (handleSignIn) after its checks: raise the presented
\* session with no hand-off, or make one.  The answer carries the cookie.
SignIn(b) ==
    /\ SignInRoute
    /\ \/ /\ cookie[b] \in Held(table)
          /\ \E id \in Fresh : /\ Elevate(cookie[b], id, SignInScope, Nobody, FALSE)
                             /\ cookie' = [cookie EXCEPT ![b] = id]
       \/ /\ cookie[b] \notin Held(table)
          /\ Issue(b, SignInScope, Nobody, FALSE)

\* The end of an OAuth login in this browser (handleCallback).
LoginCallback(b, user) == Issue(b, LoginScope, user, TRUE)

\* A desktop client redeeming its device credential (handleDevice): refused
\* before anything is spent unless hasRoom().
DeviceSignIn(b, user) ==
    /\ HasRoom(table, InUse)
    /\ Issue(b, LoginScope, user, FALSE)

\* handleLogout: revoke what the cookie names, release its tokens, expire it.
Logout(b) ==
    /\ cookie[b] # NoToken
    /\ Revoke(cookie[b])
    /\ cookie' = [cookie EXCEPT ![b] = NoToken]

\* onReuseDetected -> revokeByKey: a session a device credential opened.
RevokeByKey(id) ==
    /\ id \in Held(table)
    /\ table.sessions[id].identity # Nobody
    /\ Revoke(id)
    /\ UNCHANGED cookie

\* The transport's disconnected signal: the tab went away, or the close that
\* dropSession asked for is done (releaseSessionSources).
Disconnected(c) ==
    LET id == conn[c].live
    IN  /\ conn[c].phase # "free"
        /\ conn' = [conn EXCEPT ![c] = Free]
        /\ sockets' = sockets \ {<<id, c>>}
        /\ refs' = IF id \notin DOMAIN refs THEN refs
                   ELSE IF refs[id] > 1 THEN [refs EXCEPT ![id] = @ - 1]
                   ELSE Without(refs, {id})
        /\ UNCHANGED <<table, now, origin, cookie, tokens>>

\* Mutant: what the sweep reclaims is not announced.
Sweep_Unannounced ==
    /\ table' = PurgeExpired(table, now)
    /\ tokens' = tokens \ Reclaimed(table, now)
    /\ UNCHANGED <<now, origin, cookie, conn, sockets, refs>>

\* m_sweepTimer.
Sweep ==
    /\ table' = PurgeExpired(table, now)
    /\ DropSessions(Ended(table', Reclaimed(table, now)))
    /\ tokens' = tokens \ Reclaimed(table, now)
    /\ UNCHANGED <<now, origin, cookie, refs>>

Tick ==
    /\ now < MaxTime
    /\ now' = now + 1
    /\ UNCHANGED <<table, origin, cookie, conn, sockets, refs, tokens>>

Next ==
    \/ \E b \in Browser : PageLoad(b)
    \/ \E b \in Browser, c \in Conn : Upgrade(b, c)
    \/ \E c \in Conn, s \in Scope, i \in Identity : SlotSetScope(c, s, i)
    \/ \E b \in Browser : SignIn(b)
    \/ \E b \in Browser, u \in User : LoginCallback(b, u)
    \/ \E b \in Browser, u \in User : DeviceSignIn(b, u)
    \/ \E b \in Browser : Logout(b)
    \/ \E id \in Token : RevokeByKey(id)
    \/ \E c \in Conn : Disconnected(c)
    \/ Sweep
    \/ Tick

Spec == Init /\ [][Next]_vars

\* The timers the event loop guarantees: the sweep, and the clock itself.
LiveSpec == Spec /\ WF_vars(Sweep) /\ WF_vars(Tick)

--------------------------------------------------------------------------------
(***************************************************************************)
(* Properties.                                                             *)
(***************************************************************************)
Open == {c \in Conn : conn[c].phase = "open"}

\* The variables have their types.
TypeOK ==
    /\ IsTable(table)
    /\ now \in Nat
    /\ origin \in [Token -> Token \cup {NoToken}]
    /\ cookie \in [Browser -> Token \cup {NoToken}]
    /\ conn \in [Conn -> [phase : {"free", "open", "closing"}, live : Token \cup {NoToken}]]
    /\ sockets \subseteq Token \X Conn
    /\ DOMAIN refs \subseteq Token
    /\ refs \in [DOMAIN refs -> Nat]
    /\ tokens \subseteq Token

\* Ending a session ends the connections it authorized (webedge.cpp:1262-1275):
\* an open connection is always bound to a session the table still holds, through
\* rotations, revocations, evictions and sweeps.
NoConnectionOutlivesItsSession == \A c \in Open : conn[c].live \in Held(table)

\* The socket table, which answers "is this session in use?" for eviction and finds
\* what to close, names exactly the open connections under the session each is bound to.
SocketTableAgrees == sockets = {<<conn[c].live, c>> : c \in Open}

\* A session's Sources are counted by the connections still bound to it, closing ones
\* included: never freed under a connection, never left behind by the last one.
SourcesAreCounted ==
    refs = [id \in {conn[c].live : c \in {d \in Conn : conn[d].phase # "free"}}
                |-> Cardinality(BoundTo(id))]

\* A session that ends takes its provider tokens with it, and a rotation carries them
\* along (webedge.cpp:1171-1195): no tokens are held for a session that is gone.
TokensDieWithTheSession == tokens \subseteq Held(table)

\* With a TTL, every record has a hint that still matches it, so the sweep that only
\* drains the front of the queue forgets no session (sessionmanager.cpp:481-488).
EverySessionIsHinted == EveryRecordHinted(table)

\* The table never holds more than m_maximumSessions.
CeilingHolds == WithinCeiling(table)

\* hasRoom() is a promise: handleDevice spends a device credential on it, and says of
\* the refusal after it "this is not reached" (identityprovider.cpp:1019-1020).
HasRoomIsHonest ==
    HasRoom(table, InUse) => HasRoom(PurgeExpired(table, now), InUse)

\* The redirection is never an authorization: an id with a hand-off is gone from the
\* table, so no upgrade or lookup accepts it (sessionmanager.h:141-145).
RotatedAwayIsGone == DOMAIN table.rotations \cap Held(table) = {}

\* Rotating a session never forks it: one chain of hand-offs has one session at most.
OneSessionPerChain ==
    \A a, b \in Held(table) : origin[a] = origin[b] => a = b

\* A credential only ever buys the session its own chain of hand-offs became; a sign-in
\* that leaves no hand-off starts a new chain (sessionmanager.cpp:260-263).
HandoffStaysInItsChain ==
    \A id \in Token : LET successor == RotationOf(table, id, now)
                      IN  successor # NoToken => origin[successor] = origin[id]

\* A visitor elevated in a slot gets the new credential at a page load within the
\* grace period: the id a live session replaced still leads to it.
ElevationReachesTheCookie ==
    \A id \in Held(table) :
        LET from == table.sessions[id].rotatedFrom
        IN  /\ from # NoToken
            /\ origin[from] = origin[id]
            /\ IsLive(table, id, now)
            /\ now - table.sessions[id].created =< Grace
            => RotationOf(table, from, now) = id

\* The whole chain is followed, "rather than broken" (sessionmanager.cpp:245-251): any
\* hand-off in its window leads to the session its chain has become.
WholeChainIsFollowed ==
    \A id \in DOMAIN table.rotations, live \in Held(table) :
        /\ origin[id] = origin[live]
        /\ IsLive(table, live, now)
        /\ now - table.rotations[id].at =< Grace
        => RotationOf(table, id, now) = live

\* With identity.required, every open connection belongs to somebody who signed in,
\* whatever happened to its session since the upgrade.
OnlyIdentifiedConnections ==
    IdentityRequired =>
        \A c \in Open : table.sessions[conn[c].live].identity # Nobody

\* Every credential in the table, in a hand-off or on a connection was drawn once, so a
\* new one is none of them; and a connection that was told to close names a session that
\* is over, so nothing moves it back among the open ones.
CredentialsAreMinted ==
    \A id \in Held(table) \cup DOMAIN table.rotations : origin[id] # NoToken

ClosingConnectionsAreOver ==
    \A c \in Conn : conn[c].phase = "closing" =>
        /\ conn[c].live \in Token \ Held(table)
        /\ origin[conn[c].live] # NoToken

\* The inductive invariant of the edge: what the properties above need of each other.
\* Closing a socket goes through the socket table, so that a connection ends with its
\* session rests on the table naming every open connection; that a rotation moves only
\* open ones rests on what is closing being over, which rests on credentials being
\* drawn once; and that an ended session is not mistaken for a rotated one rests on no
\* session of the table having a hand-off.
EdgeInv ==
    /\ TypeOK
    /\ CredentialsAreMinted
    /\ RotatedAwayIsGone
    /\ SocketTableAgrees
    /\ NoConnectionOutlivesItsSession
    /\ ClosingConnectionsAreOver
    /\ OnlyIdentifiedConnections
    /\ TokensDieWithTheSession
    /\ EverySessionIsHinted
    /\ CeilingHolds

\* Every credential belongs to a chain that begins with a credential of its own, so a
\* credential nobody has drawn begins a chain nobody is in.
ChainsAreRooted ==
    \A id \in Token : origin[id] # NoToken => origin[origin[id]] = origin[id]

\* What a record remembers having replaced is a credential drawn before, gone from the
\* table, and remembered by that record alone.
ReplacedOnce ==
    \A id \in Held(table) :
        LET from == table.sessions[id].rotatedFrom
        IN  from # NoToken =>
                /\ from \notin Held(table)
                /\ origin[from] # NoToken
                /\ \A other \in Held(table) :
                      table.sessions[other].rotatedFrom = from => other = id

\* The hand-off of an elevation leads straight to the session, on the clock of that
\* elevation, until its window is over.
HandoffLeadsHome ==
    \A id \in Held(table) :
        LET record == table.sessions[id]
            from   == record.rotatedFrom
        IN  from # NoToken /\ origin[from] = origin[id] =>
                \/ now - record.created > Grace
                \/ /\ from \in DOMAIN table.rotations
                   /\ table.rotations[from] = [to |-> id, at |-> record.created]

\* The inductive invariant of the hand-offs, on top of EdgeInv: a sweep or a revocation
\* drops the hand-off that led to what it takes, which is nobody else's because each
\* credential was replaced once.
HandoffInv == ChainsAreRooted /\ OneSessionPerChain /\ ReplacedOnce /\ HandoffLeadsHome

\* Making room never costs a visitor anything: a route that issues a session removes
\* only sessions past their TTL, and anonymous ones at the default scope with no open
\* connection on them (sessionmanager.h:82-90).
EvictionSparesVisitors ==
    [][(\E b \in Browser : PageLoad(b) \/ \E u \in User : LoginCallback(b, u)
                                                        \/ DeviceSignIn(b, u))
       => \A id \in Held(table) \ Held(table)' :
             \/ Expired(table.sessions[id].created, now)
             \/ /\ table.sessions[id].identity = Nobody
                /\ table.sessions[id].scope = DefaultScope
                /\ \A c \in Open : conn[c].live # id]_vars

\* A hand-off keeps the clock it started on, however often the session rotates again
\* (sessionmanager.cpp:253-255).
HandoffClockIsKept ==
    [][\A id \in DOMAIN table.rotations \cap DOMAIN table'.rotations :
           table'.rotations[id].at = table.rotations[id].at]_vars

\* Signing out ends the visitor's session: after logout, neither the credential the
\* browser held nor the one it would have been handed names a live session.
LogoutEndsTheSession ==
    [][\A b \in Browser : Logout(b) =>
           /\ ~IsLive(table', cookie[b], now)
           /\ RotationOf(table, cookie[b], now) # NoToken =>
                 ~IsLive(table', RotationOf(table, cookie[b], now), now)]_vars

\* A session past its TTL is reclaimed: it leaves the table, with its connections.
ExpiredIsReclaimed ==
    \A id \in Token :
        (id \in Held(table) /\ ~IsLive(table, id, now)) ~>
            (id \notin Held(table) /\ \A c \in Open : conn[c].live # id)

\* A hand-off past its window is reclaimed.
HandoffIsReclaimed ==
    \A id \in Token :
        (id \in DOMAIN table.rotations /\ now - table.rotations[id].at > Grace) ~>
            id \notin DOMAIN table.rotations

--------------------------------------------------------------------------------
(***************************************************************************)
(* What the edge implements.                                               *)
(***************************************************************************)
\* A session is its chain of hand-offs, named by the first credential of it.  It is
\* alive while the table holds a credential of the chain.
ChainStatus ==
    [s \in Token |->
        IF origin[s] # s THEN "unborn"
        ELSE IF \E id \in Held(table) : origin[id] = s THEN "alive" ELSE "ended"]

\* An open connection is attached to the chain of the credential it is bound to.
ChainOfConnection ==
    [c \in Conn |-> IF conn[c].phase = "open" THEN origin[conn[c].live] ELSE NoToken]

Lifecycle == INSTANCE SessionLifecycle WITH
    Session <- Token, Nothing <- NoToken,
    status <- ChainStatus, attached <- ChainOfConnection

\* The edge implements the lifecycle: an elevation is invisible, a session that ended
\* never comes back, and every way of ending one (sign-out, revocation, eviction,
\* sweep) lets go of its connections in the same step.
ImplementsLifecycle == Lifecycle!LifecycleSpec
================================================================================
