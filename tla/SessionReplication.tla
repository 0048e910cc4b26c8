--------------------------- MODULE SessionReplication ---------------------------
(***************************************************************************)
(* Several edges in front of one auth entity (identity.provider_entity).   *)
(* Every process runs the same SessionManager (SessionTable).  An edge     *)
(* applies a change to its own table at once and calls the store's slot    *)
(* (putSession, rotateSession, removeSession); the store applies it and    *)
(* announces it to every edge, the caller included, with a signal of the   *)
(* same content (sessionUpserted, sessionRotated, sessionRemoved).  Each   *)
(* link is one mutually authenticated stream: in order, and lost whole.    *)
(*                                                                         *)
(* What one edge does around its table is EdgeSessions' subject; here a    *)
(* connection is the edge that hosts it and the session it is bound to,    *)
(* and closing it is one step.                                             *)
(***************************************************************************)
EXTENDS SessionTable

CONSTANTS
    Edge,           \* the replicas of the edge entity
    Store,          \* the auth entity
    Browser,        \* user agents, balanced to any edge
    Conn,           \* connection slots
    NoEdge,         \* the edge of a free slot
    SlotScopes,     \* scopes the application's slots give
    Faults,         \* the faults that may happen: a subset of FaultKinds
    MaxFaults,      \* bound on them, for model checking only
    MaxBacklog,     \* how far behind an edge's links may be when a handler of it runs,
                    \* for model checking only
    MaxTime         \* bound on the clock, for model checking only

FaultKinds == {"linkLost", "edgeRestart"}

ASSUME ReplicationAssumption ==
    /\ Store \notin Edge
    /\ NoEdge \notin Edge
    /\ SlotScopes \subseteq Scope
    /\ Faults \subseteq FaultKinds
    /\ MaxFaults \in Nat
    /\ MaxBacklog \in Nat
    /\ MaxTime \in Nat

VARIABLES
    table,      \* the SessionManager of every process
    up,         \* slot calls on their way from each edge to the store
    down,       \* signals on their way from the store to each edge
    linked,     \* the edge's Replica of the session point is connected (m_remote)
    conn,       \* per slot: the edge that hosts it and the session it is bound to
    cookie,     \* what each browser presents
    now,        \* the clock, the same on every machine
    replaced,   \* history: the credential each one replaced; itself when it was
                \* created, NoToken while it was never minted
    visit,      \* history: the credential each one's visit to the site began with
    handed,     \* history: credentials that replaced another with a hand-off
    ended,      \* history: credentials revoked or evicted on an edge that held them
    signedOut,  \* history: credentials whose browser signed out, on any edge
    faults      \* how many faults have happened

vars == <<table, up, down, linked, conn, cookie, now, replaced, visit, handed, ended,
          signedOut, faults>>
history == <<replaced, visit, handed, ended, signedOut>>

Process == Edge \cup {Store}

PutMsg(id, r) == [op |-> "put", id |-> id, scope |-> r.scope, identity |-> r.identity,
                  created |-> r.created]
RotateMsg(from, to) == [op |-> "rotate", from |-> from, to |-> to]
RemoveMsg(id) == [op |-> "remove", id |-> id]

Message ==
    [op : {"put"}, id : Token, scope : Scope, identity : Identity, created : Nat]
    \cup [op : {"rotate"}, from : Token, to : Token]
    \cup [op : {"remove"}, id : Token]

Free == [edge |-> NoEdge, live |-> NoToken]

Init ==
    /\ table = [p \in Process |-> EmptyTable]
    /\ up = [e \in Edge |-> <<>>]
    /\ down = [e \in Edge |-> <<>>]
    /\ linked = [e \in Edge |-> TRUE]
    /\ conn = [c \in Conn |-> Free]
    /\ cookie = [b \in Browser |-> NoToken]
    /\ now = 0
    /\ replaced = [t \in Token |-> NoToken]
    /\ visit = [t \in Token |-> NoToken]
    /\ handed = {}
    /\ ended = {}
    /\ signedOut = {}
    /\ faults = 0

(***************************************************************************)
(* Applying a change that came from elsewhere (the manager's public slots, *)
(* the same on the store and on an edge).                                  *)
(***************************************************************************)
\* Mutant: the copy is dated by its arrival.
ApplyUpsert_Restamps(t, m) ==
    Insert(t, m.id, [scope |-> m.scope, identity |-> m.identity, created |-> now,
                     rotatedFrom |-> NoToken])

\* applyUpsert: overwrite the local copy.  The message does not carry rotatedFrom.
ApplyUpsert(t, m) ==
    Insert(t, m.id, [scope |-> m.scope, identity |-> m.identity, created |-> m.created,
                     rotatedFrom |-> NoToken])

\* Mutant: the hand-off is announced and not kept.
ApplyRotation_NotRecorded(t, m) ==
    [sessions  |-> IF m.to \in Held(t) THEN [t.sessions EXCEPT ![m.to].rotatedFrom = m.from]
                                       ELSE t.sessions,
     queue     |-> t.queue,
     rotations |-> t.rotations]

\* applyRotation, for a hand-off this table does not hold yet.
ApplyRotation(t, m) ==
    [sessions  |-> IF m.to \in Held(t) THEN [t.sessions EXCEPT ![m.to].rotatedFrom = m.from]
                                       ELSE t.sessions,
     queue     |-> t.queue,
     rotations |-> Put(t.rotations, m.from, [to |-> m.to, at |-> now])]

\* Whether the message changes the table: only then is it announced any further.
Changes(t, m) ==
    CASE m.op = "put"    -> TRUE
      [] m.op = "rotate" -> m.from \notin DOMAIN t.rotations
      [] m.op = "remove" -> m.id \in Held(t)

Apply(t, m) ==
    IF ~Changes(t, m) THEN t
    ELSE CASE m.op = "put"    -> ApplyUpsert(t, m)
           [] m.op = "rotate" -> ApplyRotation(t, m)
           [] m.op = "remove" -> Forget(t, {m.id})

(***************************************************************************)
(* What an edge does to its own table, its connections and the store.      *)
(***************************************************************************)
Fresh == {t \in Token : replaced[t] = NoToken}

InUse(e) == {conn[c].live : c \in {d \in Conn : conn[d].edge = e}}

Ready(e) == Len(up[e]) =< MaxBacklog /\ Len(down[e]) =< MaxBacklog

\* invokeMethod on the Replica: lost when the link is down.
Send(e, msgs) == Ready(e) /\ up' = IF linked[e] THEN [up EXCEPT ![e] = @ \o msgs] ELSE up

\* dropSession on edge e for sessions announced as removed or expired there.
DropSessions(e, t, ids) ==
    conn' = [c \in Conn |-> IF /\ conn[c].edge = e
                               /\ conn[c].live \in ids
                               /\ RotationOf(t, conn[c].live, now) = NoToken
                            THEN Free ELSE conn[c]]

\* followRotation and the Callers of edge e.
FollowRotation(e, from, to) ==
    conn' = [c \in Conn |-> IF conn[c] = [edge |-> e, live |-> from]
                            THEN [edge |-> e, live |-> to] ELSE conn[c]]

\* The removals createSession tells the store of: it evicts one session at most.
Evictions(evicted) ==
    IF evicted = {} THEN <<>> ELSE <<RemoveMsg(CHOOSE v \in evicted : TRUE)>>

\* createSession on edge e: what the eviction let go of is told first.
Issue(b, e, scope, identity) ==
    \E id \in Fresh :
      LET made == CreateSession(table[e], id, scope, identity, now, InUse(e))
      IN  /\ table' = [table EXCEPT ![e] = made.table]
          /\ DropSessions(e, made.table, made.expired \cup made.evicted)
          /\ Send(e, Evictions(made.evicted)
                     \o IF made.ok THEN <<PutMsg(id, made.table.sessions[id])>> ELSE <<>>)
          /\ cookie' = IF made.ok THEN [cookie EXCEPT ![b] = id] ELSE cookie
          /\ replaced' = IF made.ok THEN [replaced EXCEPT ![id] = id] ELSE replaced
          /\ visit' = IF made.ok THEN [visit EXCEPT ![id] = id] ELSE visit
          /\ ended' = ended \cup made.evicted
          /\ UNCHANGED <<down, linked, now, handed, signedOut, faults>>

\* Mutant: the removal of the old credential is told before the hand-off.
Elevate_RemovesFirst(e, previous, next, scope, identity, keep) ==
    LET left == SetScope(table[e], previous, next, scope, identity, keep, now)
    IN  /\ table' = [table EXCEPT ![e] = left]
        /\ FollowRotation(e, previous, next)
        /\ Send(e, <<PutMsg(next, left.sessions[next]), RemoveMsg(previous)>>
                   \o IF keep THEN <<RotateMsg(previous, next)>> ELSE <<>>)
        /\ replaced' = [replaced EXCEPT ![next] = previous]
        /\ visit' = [visit EXCEPT ![next] = visit[previous]]
        /\ handed' = IF keep THEN handed \cup {next} ELSE handed
        /\ UNCHANGED <<down, linked, now, ended, signedOut, faults>>

\* Mutant: the store is told of the scope the session had.
Elevate_TellsOldScope(e, previous, next, scope, identity, keep) ==
    LET left == SetScope(table[e], previous, next, scope, identity, keep, now)
    IN  /\ table' = [table EXCEPT ![e] = left]
        /\ FollowRotation(e, previous, next)
        /\ Send(e, <<PutMsg(next, [left.sessions[next] EXCEPT
                                      !.scope = table[e].sessions[previous].scope])>>
                   \o (IF keep THEN <<RotateMsg(previous, next)>> ELSE <<>>)
                   \o <<RemoveMsg(previous)>>)
        /\ replaced' = [replaced EXCEPT ![next] = previous]
        /\ visit' = [visit EXCEPT ![next] = visit[previous]]
        /\ handed' = IF keep THEN handed \cup {next} ELSE handed
        /\ UNCHANGED <<down, linked, now, ended, signedOut, faults>>

\* setScope on edge e: the new session, the hand-off, then the removal.
Elevate(e, previous, next, scope, identity, keep) ==
    LET left == SetScope(table[e], previous, next, scope, identity, keep, now)
    IN  /\ table' = [table EXCEPT ![e] = left]
        /\ FollowRotation(e, previous, next)
        /\ Send(e, <<PutMsg(next, left.sessions[next])>>
                   \o (IF keep THEN <<RotateMsg(previous, next)>> ELSE <<>>)
                   \o <<RemoveMsg(previous)>>)
        /\ replaced' = [replaced EXCEPT ![next] = previous]
        /\ visit' = [visit EXCEPT ![next] = visit[previous]]
        /\ handed' = IF keep THEN handed \cup {next} ELSE handed
        /\ UNCHANGED <<down, linked, now, ended, signedOut, faults>>

(***************************************************************************)
(* The handlers of an edge.                                                *)
(***************************************************************************)
\* sessionCookieFor, on whichever edge the balancer picked.
PageLoad(b, e) ==
    LET successor == RotationOf(table[e], cookie[b], now)
    IN  /\ ~IsLive(table[e], cookie[b], now)
        /\ \/ /\ successor # NoToken
              /\ cookie' = [cookie EXCEPT ![b] = successor]
              /\ UNCHANGED <<table, up, down, linked, conn, now, history, faults>>
           \/ /\ successor = NoToken
              /\ Issue(b, e, DefaultScope, Nobody)

\* verifyUpgrade and hostConnection.
Upgrade(b, c, e) ==
    /\ conn[c] = Free
    /\ IsLive(table[e], cookie[b], now)
    /\ conn' = [conn EXCEPT ![c] = [edge |-> e, live |-> cookie[b]]]
    /\ UNCHANGED <<table, up, down, linked, cookie, now, history, faults>>

Disconnected(c) ==
    /\ conn[c] # Free
    /\ conn' = [conn EXCEPT ![c] = Free]
    /\ UNCHANGED <<table, up, down, linked, cookie, now, history, faults>>

\* Caller.setScope in a slot.
SlotSetScope(c, scope) ==
    LET e == conn[c].edge
    IN  /\ conn[c] # Free
        /\ conn[c].live \in Held(table[e])
        /\ \E id \in Fresh : Elevate(e, conn[c].live, id, scope, Nobody, TRUE)
        /\ UNCHANGED cookie

\* handleSignIn on a session this edge holds: no hand-off, the answer is the cookie.
SignIn(b, e, scope) ==
    /\ cookie[b] \in Held(table[e])
    /\ \E id \in Fresh : /\ Elevate(e, cookie[b], id, scope, Nobody, FALSE)
                         /\ cookie' = [cookie EXCEPT ![b] = id]

\* handleCallback: a session of its own for the identity that was proven.
LoginCallback(b, e, scope, user) == Issue(b, e, scope, user)

\* Mutant: the store is not told.
Logout_LocalOnly(b, e) ==
    LET id   == cookie[b]
        left == Forget(table[e], {id} \cap Held(table[e]))
    IN  /\ id # NoToken
        /\ table' = [table EXCEPT ![e] = left]
        /\ DropSessions(e, left, {id} \cap Held(table[e]))
        /\ cookie' = [cookie EXCEPT ![b] = NoToken]
        /\ ended' = ended \cup ({id} \cap Held(table[e]))
        /\ signedOut' = signedOut \cup {id}
        /\ UNCHANGED <<up, down, linked, now, replaced, visit, handed, faults>>
\* handleLogout -> revoke: told to the store whether or not this edge held it.
Logout(b, e) ==
    LET id   == cookie[b]
        left == Forget(table[e], {id} \cap Held(table[e]))
    IN  /\ id # NoToken
        /\ table' = [table EXCEPT ![e] = left]
        /\ DropSessions(e, left, {id} \cap Held(table[e]))
        /\ Send(e, <<RemoveMsg(id)>>)
        /\ cookie' = [cookie EXCEPT ![b] = NoToken]
        /\ ended' = ended \cup ({id} \cap Held(table[e]))
        /\ signedOut' = signedOut \cup {id}
        /\ UNCHANGED <<down, linked, now, replaced, visit, handed, faults>>

\* m_sweepTimer of a process; nothing is told to anybody else.
Sweep(p) ==
    LET left == PurgeExpired(table[p], now)
    IN  /\ table' = [table EXCEPT ![p] = left]
        /\ DropSessions(p, left, Reclaimed(table[p], now))
        /\ UNCHANGED <<up, down, linked, cookie, now, history, faults>>

(***************************************************************************)
(* The links.                                                              *)
(***************************************************************************)
\* The store's Source runs the slot; the manager's signal reaches every link.
StoreReceives(e) ==
    LET m == Head(up[e])
    IN  /\ up[e] # <<>>
        /\ up' = [up EXCEPT ![e] = Tail(@)]
        /\ table' = [table EXCEPT ![Store] = Apply(@, m)]
        /\ down' = [d \in Edge |-> IF linked[d] /\ Changes(table[Store], m)
                                   THEN Append(down[d], m) ELSE down[d]]
        /\ UNCHANGED <<linked, conn, cookie, now, history, faults>>

\* The Replica's signal runs the manager's slot on the edge.
EdgeReceives(e) ==
    LET m    == Head(down[e])
        left == Apply(table[e], m)
    IN  /\ down[e] # <<>>
        /\ down' = [down EXCEPT ![e] = Tail(@)]
        /\ table' = [table EXCEPT ![e] = left]
        /\ CASE m.op = "rotate" /\ Changes(table[e], m) -> FollowRotation(e, m.from, m.to)
             [] m.op = "remove" /\ Changes(table[e], m) -> DropSessions(e, left, {m.id})
             [] OTHER -> UNCHANGED conn
        /\ UNCHANGED <<up, linked, cookie, now, history, faults>>

Fault(kind) == kind \in Faults /\ faults < MaxFaults /\ faults' = faults + 1

\* The mesh link drops: what was on it is gone.
LinkLost(e) ==
    /\ Fault("linkLost")
    /\ linked[e]
    /\ linked' = [linked EXCEPT ![e] = FALSE]
    /\ up' = [up EXCEPT ![e] = <<>>]
    /\ down' = [down EXCEPT ![e] = <<>>]
    /\ UNCHANGED <<table, conn, cookie, now, history>>

\* The edge process starts again: an empty table, no connections, no link.
EdgeRestart(e) ==
    /\ Fault("edgeRestart")
    /\ table' = [table EXCEPT ![e] = EmptyTable]
    /\ conn' = [c \in Conn |-> IF conn[c].edge = e THEN Free ELSE conn[c]]
    /\ linked' = [linked EXCEPT ![e] = FALSE]
    /\ up' = [up EXCEPT ![e] = <<>>]
    /\ down' = [down EXCEPT ![e] = <<>>]
    /\ UNCHANGED <<cookie, now, history>>

\* A link comes up.  Its Source is the one every replica of the entity shares, and a
\* Source that is new emits its snapshot while it is created, before it is remoted: the
\* edge that connected is told nothing of what the table holds.
LinkUp(e) ==
    /\ ~linked[e]
    /\ linked' = [linked EXCEPT ![e] = TRUE]
    /\ UNCHANGED <<table, up, down, conn, cookie, now, history, faults>>

Tick ==
    /\ now < MaxTime
    /\ now' = now + 1
    /\ UNCHANGED <<table, up, down, linked, conn, cookie, history, faults>>

Deliver == \E e \in Edge : StoreReceives(e) \/ EdgeReceives(e)

Next ==
    \/ \E b \in Browser, e \in Edge : PageLoad(b, e)
    \/ \E b \in Browser, c \in Conn, e \in Edge : Upgrade(b, c, e)
    \/ \E c \in Conn : Disconnected(c)
    \/ \E c \in Conn, s \in SlotScopes : SlotSetScope(c, s)
    \/ \E b \in Browser, e \in Edge, s \in Scope \ {DefaultScope} : SignIn(b, e, s)
    \/ \E b \in Browser, e \in Edge, s \in Scope \ {DefaultScope}, u \in User :
           LoginCallback(b, e, s, u)
    \/ \E b \in Browser, e \in Edge : Logout(b, e)
    \/ \E p \in Process : Sweep(p)
    \/ Deliver
    \/ \E e \in Edge : LinkLost(e) \/ EdgeRestart(e) \/ LinkUp(e)
    \/ Tick

Spec == Init /\ [][Next]_vars

--------------------------------------------------------------------------------
(***************************************************************************)
(* Properties.                                                             *)
(***************************************************************************)
\* Every link is up and nothing is on its way.
Quiet == \A e \in Edge : linked[e] /\ up[e] = <<>> /\ down[e] = <<>>

Live(p) == {id \in Held(table[p]) : IsLive(table[p], id, now)}

Told(p, id) == [scope |-> table[p].sessions[id].scope,
                identity |-> table[p].sessions[id].identity,
                created |-> table[p].sessions[id].created]

\* The variables have their types.
TypeOK ==
    /\ DOMAIN table = Process
    /\ \A p \in Process : IsTable(table[p])
    /\ up \in [Edge -> Seq(Message)]
    /\ down \in [Edge -> Seq(Message)]
    /\ linked \in [Edge -> BOOLEAN]
    /\ conn \in [Conn -> {Free} \cup [edge : Edge, live : Token]]
    /\ cookie \in [Browser -> Token \cup {NoToken}]
    /\ now \in Nat
    /\ replaced \in [Token -> Token \cup {NoToken}]
    /\ visit \in [Token -> Token \cup {NoToken}]
    /\ handed \subseteq Token
    /\ ended \subseteq Token
    /\ signedOut \subseteq Token
    /\ faults \in Nat

\* Once nothing is on its way, every edge accepts the sessions the store accepts, with
\* the same scope, identity and age, whichever edges created, elevated, revoked and
\* expired them and in whatever order: the one session table of
\* docs/authentication.md:420-422, and sessionmanager.h's "every holder of the record
\* reaches the same verdict from the same createdMs".
ReplicasAgree ==
    Quiet => \A e \in Edge : /\ Live(e) = Live(Store)
                             /\ \A id \in Live(e) : Told(e, id) = Told(Store, id)

\* A session an edge revoked is accepted only where its removal is still to arrive: the
\* creator's put always reaches a process before any edge's remove, so no order of calls
\* and echoes brings it back for good (createSession, revoke, applyUpsert, applyRemove).
RevocationIsOnItsWay ==
    \A id \in ended, p \in Process :
        id \in Live(p) =>
            \/ \E e \in Edge : RemoveMsg(id) \in ToSet(up[e])
            \/ p # Store /\ RemoveMsg(id) \in ToSet(down[p])

\* What docs/authentication.md:394-396 says of a revoked session, read on every edge: the
\* connections it authorized are closed. It fails where an edge hears its own creation back
\* after elevating it: applyUpsert revives the old credential, a connection opened on it is
\* not moved any more, and dropSession (webedge.cpp:1918) takes its removal for a rotation.
NoConnectionOutlivesItsSession ==
    \A c \in Conn : conn[c] # Free => conn[c].live \in Held(table[conn[c].edge])

\* Through lost links, restarts and any order of echoes, two processes that hold a
\* credential hold it with the same scope, identity and age: a credential is never
\* elevated in place, so a late echo (applyUpsert overwrites) cannot undo an elevation.
RecordsAgree ==
    \A p, q \in Process : \A id \in Held(table[p]) \cap Held(table[q]) :
        Told(p, id) = Told(q, id)

Successors(id) == {t \in handed : replaced[t] = id}

\* A credential elevated once leads to its successor on every edge for as long as a
\* hand-off lasts, whichever edge made the elevation (docs/authentication.md:422-425,
\* rotateSession, applyRotation).
HandoffReachesEveryReplica ==
    \A id \in Token, to \in Token :
        /\ Quiet /\ Successors(id) = {to} /\ to \in Live(Store)
        /\ now - table[Store].sessions[to].created =< Grace
        => \A e \in Edge : RotationOf(table[e], id, now) = to

\* What docs/authentication.md:393-394 says of logout: it "clears the session server side",
\* whichever edge the request was balanced to.
SignedOutEverywhere ==
    Quiet => \A id \in signedOut, p \in Process : id \notin Held(table[p])

--------------------------------------------------------------------------------
(***************************************************************************)
(* The inductive invariants behind these properties.                       *)
(***************************************************************************)
Minted == Token \ Fresh

IsPut(m, id) == m.op = "put" /\ m.id = id
IsRemove(m, id) == m.op = "remove" /\ m.id = id
HasPut(q, id) == \E i \in 1..Len(q) : IsPut(q[i], id)
HasRemove(q, id) == \E i \in 1..Len(q) : IsRemove(q[i], id)

\* A creation of id is followed by a removal of it.
RemovedLast(q, id) ==
    \A i \in 1..Len(q) : IsPut(q[i], id) => \E j \in (i + 1)..Len(q) : IsRemove(q[j], id)

\* What a process holds, a message names or a browser presents was minted.
NamesAreMinted ==
    /\ \A p \in Process : Held(table[p]) \subseteq Minted
    /\ \A e \in Edge, id \in Token :
          /\ HasPut(up[e], id) \/ HasRemove(up[e], id) => id \in Minted
          /\ HasPut(down[e], id) \/ HasRemove(down[e], id) => id \in Minted
    /\ \A b \in Browser : cookie[b] # NoToken => cookie[b] \in Minted
    /\ ended \subseteq Minted

\* What a message tells of the session it creates.
ToldBy(m) == [scope |-> m.scope, identity |-> m.identity, created |-> m.created]

\* Every copy of a session, held or on its way, with what it says of it.
Copies(id) ==
    {Told(p, id) : p \in {q \in Process : id \in Held(table[q])}}
    \cup UNION {{ToldBy(up[e][i]) : i \in {j \in 1..Len(up[e]) : IsPut(up[e][j], id)}}
                   \cup {ToldBy(down[e][i]) : i \in {j \in 1..Len(down[e]) :
                                                            IsPut(down[e][j], id)}}
                 : e \in Edge}
CopiesAgree == \A id \in Token : \A x, y \in Copies(id) : x = y

\* Past its TTL, by every copy there is.
Outlived(id) == \A x \in Copies(id) : Expired(x.created, now)

\* A creation on its way to the store is known to the edge that made it and to nobody else.
CreationIsPrivate ==
    \A c \in Edge : \A i \in 1..Len(up[c]) : up[c][i].op = "put" =>
        LET id == up[c][i].id
        IN  /\ id \notin Held(table[Store])
            /\ \A e \in Edge \ {c} : id \notin Held(table[e]) /\ ~HasPut(up[e], id)
            /\ \A e \in Edge : ~HasPut(down[e], id) /\ ~HasRemove(down[e], id)
            /\ \A j \in 1..Len(up[c]) : IsPut(up[c][j], id) => j = i

\* A removal is announced when the store has forgotten the session, and for good.
AnnouncedIsForgotten ==
    \A id \in Held(table[Store]), e \in Edge : ~HasRemove(down[e], id)

\* What the store does not hold any more, an edge is being told to forget.
EdgesFollow ==
    \A id \in Minted : id \notin Held(table[Store]) /\ (\A c \in Edge : ~HasPut(up[c], id))
        => \/ Outlived(id)
           \/ \A e \in Edge : /\ RemovedLast(down[e], id)
                              /\ id \in Held(table[e]) => HasRemove(down[e], id)

\* What the store holds, an edge holds or is being told of, unless some edge has let go.
StoreIsFollowed ==
    \A id \in Held(table[Store]) :
        \/ Outlived(id)
        \/ \E e \in Edge : HasRemove(up[e], id)
        \/ \A e \in Edge : id \in Held(table[e]) \/ HasPut(down[e], id)

\* No link brings id to the store for good, and the store has let go of it or is told to.
Doomed(id) ==
    /\ \A c \in Edge : RemovedLast(up[c], id)
    /\ id \in Held(table[Store]) => \E e \in Edge : HasRemove(up[e], id)

\* A revocation follows the creation it is about.
RevocationIsSent == \A id \in ended : Doomed(id)

\* What makes the replicas one table, while no link is lost.
ReplicationInv ==
    /\ \A e \in Edge : linked[e]
    /\ CreationIsPrivate
    /\ AnnouncedIsForgotten
    /\ EdgesFollow
    /\ StoreIsFollowed
    /\ RevocationIsSent

\* Made longer ago than a hand-off lasts, by every copy there is.
Lapsed(id) == \A x \in Copies(id) : now - x.created > Grace

\* Nothing is promised any more to whoever presents what id replaced.
Over(id) == Doomed(id) \/ Outlived(id) \/ Lapsed(id)
Settled(id) == \E t \in Successors(id) : Over(t)

\* The visitor signed out of it or signed in from it, or an edge revoked or evicted it.
LetGo(id) ==
    \/ id \in ended \cup signedOut
    \/ \E t \in Token \ handed : t # id /\ replaced[t] = id

\* An edge never closes, on the store's word, a connection whose session was elevated,
\* whichever edge made the elevation: the connection is moved. It is closed only where the
\* session itself was let go, or one it was elevated to has already been elevated or ended,
\* is expired, or is older than a hand-off lasts (the order in which setScope tells the
\* store, "so the removal that follows is read there as a rotation and not as the end of a
\* session", sessionmanager.cpp:274-277; the removal of evictOne, sessionmanager.cpp:138-142,
\* comes from any edge and may overtake the hand-off).
ElevationKeepsConnections ==
    [][\A c \in Conn : conn[c] # Free /\ conn'[c] = Free /\ down' # down =>
          LetGo(conn[c].live) \/ Settled(conn[c].live)]_vars

IsRotate(m, from, to) == m.op = "rotate" /\ m.from = from /\ m.to = to
HasRotate(q, from, to) == \E i \in 1..Len(q) : IsRotate(q[i], from, to)

\* No copy is of a session made later than now.
CopiesArePast == \A id \in Token : \A x \in Copies(id) : x.created =< now

\* The hand-off p keeps of id is an elevation somebody made of it, to a session p holds,
\* and as old as that session at the most.
LeadsOn(p, id) ==
    \E to \in Successors(id) :
        /\ table[p].rotations[id].to = to /\ to \in Held(table[p])
        /\ \A x \in Copies(to) : x.created =< table[p].rotations[id].at

\* Unless nothing is promised any more of what replaced a credential, the hand-off kept of
\* it leads on, and the sessions that remember it as the one they replaced did so.
KeptLead ==
    \A p \in Process : \A id \in DOMAIN table[p].rotations : Settled(id) \/ LeadsOn(p, id)
OriginsLead ==
    \A p \in Process : \A id \in Held(table[p]) : \A from \in Token :
        table[p].sessions[id].rotatedFrom = from => Settled(from) \/ id \in Successors(from)

\* What is told of a hand-off is an elevation somebody made.
ToldLead ==
    \A e \in Edge, from \in Token, to \in Token :
        HasRotate(up[e], from, to) \/ HasRotate(down[e], from, to) => to \in Successors(from)

\* No hand-off travels ahead of the session it leads to.
PutFirst(q) ==
    \A i, j \in 1..Len(q) : q[i].op = "rotate" /\ IsPut(q[j], q[i].to) => j < i
CreationComesFirst ==
    /\ \A e \in Edge : PutFirst(up[e]) /\ PutFirst(down[e])
    /\ \A c \in Edge, to \in Token : HasPut(up[c], to) =>
          \A e \in Edge, from \in Token : /\ e # c => ~HasRotate(up[e], from, to)
                                          /\ ~HasRotate(down[e], from, to)

\* The one elevation of a credential is on its way to the store, or the store keeps it and
\* every edge keeps it or is being told of it.
HandoffIsOnItsWay ==
    \A id \in Token : \A to \in Successors(id) : Successors(id) = {to} =>
        \/ Over(to)
        \/ /\ id \notin DOMAIN table[Store].rotations
           /\ \E c \in Edge : HasRotate(up[c], id, to)
        \/ /\ id \in DOMAIN table[Store].rotations
           /\ \A e \in Edge : id \in DOMAIN table[e].rotations \/ HasRotate(down[e], id, to)

\* A hand-off of id travels ahead of every removal of it, or has arrived.
Behind(q, id) ==
    \A i \in 1..Len(q) : IsRemove(q[i], id) =>
        \E j \in 1..(i - 1), to \in Token : IsRotate(q[j], id, to)
Trails(id) ==
    /\ \A e \in Edge : id \in DOMAIN table[Store].rotations \/ Behind(up[e], id)
    /\ \A e \in Edge : id \in DOMAIN table[e].rotations \/ Behind(down[e], id)

\* A hand-off of id the store keeps, every edge keeps or is being told of.
Spread(id) ==
    id \in DOMAIN table[Store].rotations =>
        \A e \in Edge : \/ id \in DOMAIN table[e].rotations
                        \/ \E to \in Token : HasRotate(down[e], id, to)

\* So it is while a credential was not let go of and what it was elevated to lives on.
RemovalFollowsHandoff ==
    \A id \in Token : LetGo(id) \/ Settled(id) \/ (Trails(id) /\ Spread(id))

\* What makes a hand-off known wherever the session it leads to is.
HandoffInv ==
    /\ handed \subseteq Minted
    /\ CopiesArePast
    /\ KeptLead
    /\ OriginsLead
    /\ ToldLead
    /\ CreationComesFirst
    /\ HandoffIsOnItsWay

================================================================================
