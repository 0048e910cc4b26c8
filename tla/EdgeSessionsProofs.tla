--------------------------- MODULE EdgeSessionsProofs ---------------------------
(***************************************************************************)
(* The edge's safety, for every set of browsers, connections, credentials, *)
(* scopes and users, every TTL, grace period, ceiling and search depth,    *)
(* and every configuration of the routes: EdgeInv is inductive.            *)
(***************************************************************************)
EXTENDS EdgeSessions, SessionTableProofs

\* An edge that has just started satisfies the invariant.
THEOREM InitEstablishesInv == Init => EdgeInv
  <1> SUFFICES ASSUME Init PROVE EdgeInv
    OBVIOUS
  <1>1. IsTable(EmptyTable) /\ Held(EmptyTable) = {} /\ DOMAIN EmptyTable.rotations = {}
    BY DEF IsTable, EmptyTable, Held
  <1>2. TypeOK
    BY <1>1, TableAssumption DEF Init, TypeOK, Free
  <1>3. CeilingHolds
    BY <1>1, FS_EmptySet, TableAssumption DEF Init, CeilingHolds, WithinCeiling
  <1> QED
    BY <1>1, <1>2, <1>3
       DEF Init, EdgeInv, Free, CredentialsAreMinted, RotatedAwayIsGone, SocketTableAgrees,
           NoConnectionOutlivesItsSession, ClosingConnectionsAreOver, Open,
           OnlyIdentifiedConnections, TokensDieWithTheSession, EverySessionIsHinted,
           EveryRecordHinted

\* A session of the table that is announced as gone is really over, never a rotation.
LEMMA EndedIsAll ==
    ASSUME RotatedAwayIsGone, NEW t, DOMAIN t.rotations \subseteq DOMAIN table.rotations,
           NEW ids, ids \subseteq Held(table)
    PROVE  Ended(t, ids) = ids
  BY DEF RotatedAwayIsGone, Ended, RotationOf

\* dropSession keeps the connections and the socket table in step with a table that
\* lost exactly the sessions dropped, and may have gained one never seen before.
LEMMA DropKeepsConnections ==
    ASSUME EdgeInv, NEW ended, ended \subseteq Held(table), DropSessions(ended),
           NEW added, \A id \in added : id \in Token /\ origin[id] = NoToken,
           Held(table') = (Held(table) \ ended) \cup added,
           \A id \in Held(table) \ ended : table'.sessions[id] = table.sessions[id],
           \A id \in Token : origin[id] # NoToken => origin'[id] # NoToken
    PROVE  /\ conn' \in [Conn -> [phase : {"free", "open", "closing"},
                                  live : Token \cup {NoToken}]]
           /\ sockets' \subseteq Token \X Conn
           /\ SocketTableAgrees'
           /\ NoConnectionOutlivesItsSession'
           /\ ClosingConnectionsAreOver'
           /\ OnlyIdentifiedConnections'
  <1>1. /\ conn \in [Conn -> [phase : {"free", "open", "closing"},
                              live : Token \cup {NoToken}]]
        /\ sockets \subseteq Token \X Conn
        /\ sockets = {<<conn[c].live, c>> : c \in {d \in Conn : conn[d].phase = "open"}}
        /\ Held(table) \subseteq Token
    BY DEF EdgeInv, TypeOK, SocketTableAgrees, Open, IsTable, Held
  <1>2. \A c \in Conn :
           conn'[c] = IF conn[c].phase = "open" /\ conn[c].live \in ended
                      THEN [conn[c] EXCEPT !.phase = "closing"] ELSE conn[c]
    <2>1. \A c \in Conn : (\E id \in ended : <<id, c>> \in sockets)
                              <=> (conn[c].phase = "open" /\ conn[c].live \in ended)
      BY <1>1
    <2> QED
      BY <2>1 DEF DropSessions
  <1>3. \A c \in Conn :
           /\ conn'[c].live = conn[c].live
           /\ conn'[c].phase = IF conn[c].phase = "open" /\ conn[c].live \in ended
                               THEN "closing" ELSE conn[c].phase
           /\ conn'[c] \in [phase : {"free", "open", "closing"}, live : Token \cup {NoToken}]
    BY <1>1, <1>2, ZenonT(60)
  <1>4. conn' \in [Conn -> [phase : {"free", "open", "closing"}, live : Token \cup {NoToken}]]
    BY <1>3 DEF DropSessions
  <1>5. sockets' \subseteq Token \X Conn
    BY <1>1 DEF DropSessions
  <1>6. SocketTableAgrees'
    BY <1>1, <1>3 DEF SocketTableAgrees, Open, DropSessions
  <1>7. NoConnectionOutlivesItsSession'
    BY <1>3 DEF EdgeInv, NoConnectionOutlivesItsSession, Open
  <1>8. ClosingConnectionsAreOver'
    <2> SUFFICES ASSUME NEW c \in Conn, conn'[c].phase = "closing"
                 PROVE  /\ conn'[c].live \in Token \ Held(table')
                        /\ origin'[conn'[c].live] # NoToken
      BY DEF ClosingConnectionsAreOver
    <2>1. CASE conn[c].phase = "closing"
      BY <1>1, <1>3, <2>1 DEF EdgeInv, ClosingConnectionsAreOver
    <2>2. CASE conn[c].phase # "closing"
      <3>1. conn[c].live \in ended
        BY <1>3, <2>2
      <3>2. origin[conn[c].live] # NoToken
        BY <3>1 DEF EdgeInv, CredentialsAreMinted
      <3> QED
        BY <1>1, <1>3, <3>1, <3>2
    <2> QED
      BY <2>1, <2>2
  <1>9. OnlyIdentifiedConnections'
    BY <1>3 DEF EdgeInv, OnlyIdentifiedConnections, NoConnectionOutlivesItsSession, Open
  <1> QED
    BY <1>4, <1>5, <1>6, <1>7, <1>8, <1>9

\* Issuing a session, with what its sweep and its eviction announce.
LEMMA IssuePreservesInv ==
    ASSUME EdgeInv, NEW b \in Browser, NEW scope \in Scope, NEW identity \in Identity,
           NEW grants \in BOOLEAN, Issue(b, scope, identity, grants)
    PROVE  EdgeInv'
  <1>1. PICK id \in Fresh :
          LET made  == CreateSession(table, id, scope, identity, now, InUse)
              ended == made.expired \cup made.evicted
          IN  /\ table' = made.table
              /\ DropSessions(Ended(made.table, ended))
              /\ tokens' = (tokens \ ended) \cup (IF made.ok /\ grants THEN {id} ELSE {})
              /\ origin' = IF made.ok THEN [origin EXCEPT ![id] = id] ELSE origin
              /\ cookie' = IF made.ok THEN [cookie EXCEPT ![b] = id] ELSE cookie
              /\ UNCHANGED <<now, refs>>
    BY DEF Issue
  <1> DEFINE made  == CreateSession(table, id, scope, identity, now, InUse)
             ended == made.expired \cup made.evicted
             added == IF made.ok THEN {id} ELSE {}
  <1>2. /\ id \in Token
        /\ origin[id] = NoToken
        /\ id \notin Held(table)
        /\ id \notin DOMAIN table.rotations
        /\ IsTable(table)
        /\ now \in Nat
        /\ origin \in [Token -> Token \cup {NoToken}]
    BY DEF Fresh, EdgeInv, TypeOK, CredentialsAreMinted
  <1>3. /\ IsTable(made.table)
        /\ ended \subseteq Held(table)
        /\ Held(made.table) = (Held(table) \ ended) \cup added
        /\ \A x \in Held(made.table) \ {id} : made.table.sessions[x] = table.sessions[x]
        /\ DOMAIN made.table.rotations \subseteq DOMAIN table.rotations
        /\ EveryRecordHinted(table) => EveryRecordHinted(made.table)
        /\ WithinCeiling(table) => WithinCeiling(made.table)
    BY <1>2, CreateProperties
  <1> HIDE DEF made, ended
  <1>4. /\ table' = made.table
        /\ DropSessions(Ended(made.table, ended))
        /\ tokens' = (tokens \ ended) \cup (IF made.ok /\ grants THEN {id} ELSE {})
        /\ origin' = IF made.ok THEN [origin EXCEPT ![id] = id] ELSE origin
        /\ cookie' = IF made.ok THEN [cookie EXCEPT ![b] = id] ELSE cookie
        /\ now' = now
        /\ refs' = refs
    BY <1>1 DEF made, ended
  <1>5. DropSessions(ended)
    BY <1>3, <1>4, EndedIsAll DEF EdgeInv
  <1>6. \A x \in Token : /\ origin[x] # NoToken => origin'[x] # NoToken
                         /\ x \in added => origin'[x] # NoToken
    BY <1>2, <1>4, TableAssumption
  <1>7. /\ conn' \in [Conn -> [phase : {"free", "open", "closing"},
                               live : Token \cup {NoToken}]]
        /\ sockets' \subseteq Token \X Conn
        /\ SocketTableAgrees'
        /\ NoConnectionOutlivesItsSession'
        /\ ClosingConnectionsAreOver'
        /\ OnlyIdentifiedConnections'
    <2>1. \A x \in added : x \in Token /\ origin[x] = NoToken
      BY <1>2
    <2>2. \A x \in Held(table) \ ended : table'.sessions[x] = table.sessions[x]
      BY <1>2, <1>3, <1>4
    <2>3. /\ ended \subseteq Held(table)
          /\ Held(table') = (Held(table) \ ended) \cup added
          /\ \A x \in Token : origin[x] # NoToken => origin'[x] # NoToken
      BY <1>3, <1>4, <1>6
    <2> HIDE DEF added
    <2> QED
      BY <1>5, <2>1, <2>2, <2>3, DropKeepsConnections
  <1>8. TypeOK'
    BY <1>2, <1>3, <1>4, <1>7 DEF EdgeInv, TypeOK
  <1>9. CredentialsAreMinted'
    BY <1>2, <1>3, <1>4, <1>6 DEF EdgeInv, CredentialsAreMinted, TypeOK, IsTable, Held
  <1>10. RotatedAwayIsGone'
    BY <1>2, <1>3, <1>4 DEF EdgeInv, RotatedAwayIsGone
  <1>11. TokensDieWithTheSession'
    BY <1>3, <1>4 DEF EdgeInv, TokensDieWithTheSession
  <1>12. EverySessionIsHinted' /\ CeilingHolds'
    BY <1>3, <1>4 DEF EdgeInv, EverySessionIsHinted, CeilingHolds
  <1> QED
    BY <1>7, <1>8, <1>9, <1>10, <1>11, <1>12 DEF EdgeInv

\* setScope moves the session, its connections, Sources and tokens to the new credential.
LEMMA ElevatePreservesInv ==
    ASSUME EdgeInv, NEW previous \in Held(table), NEW next \in Fresh, NEW scope \in Scope,
           NEW identity \in Identity, NEW keep \in BOOLEAN,
           Elevate(previous, next, scope, identity, keep),
           cookie' \in [Browser -> Token \cup {NoToken}]
    PROVE  EdgeInv'
  <1> DEFINE movers == BoundTo(previous)
  <1>1. /\ next \in Token
        /\ previous \in Token
        /\ previous # next
        /\ origin[next] = NoToken
        /\ origin[previous] # NoToken
        /\ next \notin Held(table)
        /\ next \notin DOMAIN table.rotations
        /\ IsTable(table)
        /\ now \in Nat
        /\ origin \in [Token -> Token \cup {NoToken}]
        /\ conn \in [Conn -> [phase : {"free", "open", "closing"},
                              live : Token \cup {NoToken}]]
    BY DEF Fresh, EdgeInv, TypeOK, CredentialsAreMinted, IsTable, Held
  <1>2. /\ IsTable(table')
        /\ Held(table') = (Held(table) \ {previous}) \cup {next}
        /\ DOMAIN table'.rotations \subseteq DOMAIN table.rotations \cup {previous}
        /\ \A x \in Held(table) \ {previous} : table'.sessions[x] = table.sessions[x]
        /\ table.sessions[previous].identity # Nobody
              => table'.sessions[next].identity # Nobody
        /\ EveryRecordHinted(table) => EveryRecordHinted(table')
        /\ WithinCeiling(table) => WithinCeiling(table')
    <2>1. table' = SetScope(table, previous, next, scope, identity, keep, now)
      BY DEF Elevate
    <2> QED
      BY <1>1, <2>1, SetScopeProperties
  <1>3. /\ origin' \in [Token -> Token \cup {NoToken}]
        /\ origin'[next] # NoToken
        /\ \A x \in Token : origin[x] # NoToken => origin'[x] # NoToken
        /\ now' = now
    BY <1>1, TableAssumption DEF Elevate
  <1>4. movers = {c \in Conn : conn[c].phase = "open" /\ conn[c].live = previous}
    BY <1>1 DEF BoundTo, EdgeInv, ClosingConnectionsAreOver
  <1>5. \A c \in Conn :
           /\ conn'[c].phase = conn[c].phase
           /\ conn'[c].live = IF c \in movers THEN next ELSE conn[c].live
           /\ conn'[c] \in [phase : {"free", "open", "closing"}, live : Token \cup {NoToken}]
    BY <1>1 DEF Elevate, FollowRotation
  <1>6. conn' \in [Conn -> [phase : {"free", "open", "closing"}, live : Token \cup {NoToken}]]
    BY <1>5 DEF Elevate, FollowRotation
  <1>7. sockets' = (sockets \ ({previous} \X movers)) \cup ({next} \X movers)
    BY DEF Elevate, FollowRotation
  <1> HIDE DEF movers
  <1>8. SocketTableAgrees'
    <2>1. sockets = {<<conn[c].live, c>> : c \in Open}
      BY DEF EdgeInv, SocketTableAgrees
    <2>2. Open' = Open /\ movers \subseteq Open /\ Open \subseteq Conn
      BY <1>4, <1>5 DEF Open
    <2>3. sockets' = {<<conn'[c].live, c>> : c \in Open}
      <3>1. ASSUME NEW p \in sockets' PROVE p \in {<<conn'[c].live, c>> : c \in Open}
        <4>1. CASE p \in {next} \X movers
          BY <1>5, <2>2, <4>1
        <4>2. CASE p \in sockets /\ p \notin {previous} \X movers
          <5>1. PICK c \in Open : p = <<conn[c].live, c>>
            BY <2>1, <4>2
          <5>2. c \notin movers
            BY <1>4, <4>2, <5>1
          <5> QED
            BY <1>5, <2>2, <5>1, <5>2
        <4> QED
          BY <1>7, <3>1, <4>1, <4>2
      <3>2. ASSUME NEW c \in Open PROVE <<conn'[c].live, c>> \in sockets'
        <4>1. CASE c \in movers
          BY <1>5, <1>7, <2>2, <4>1
        <4>2. CASE c \notin movers
          BY <1>5, <1>7, <2>1, <2>2, <4>2
        <4> QED
          BY <4>1, <4>2
      <3> QED
        BY <3>1, <3>2
    <2> QED
      BY <2>2, <2>3 DEF SocketTableAgrees
  <1>9. NoConnectionOutlivesItsSession'
    BY <1>2, <1>4, <1>5 DEF EdgeInv, NoConnectionOutlivesItsSession, Open
  <1>10. ClosingConnectionsAreOver'
    BY <1>1, <1>2, <1>3, <1>4, <1>5 DEF EdgeInv, ClosingConnectionsAreOver
  <1>11. OnlyIdentifiedConnections'
    BY <1>2, <1>4, <1>5 DEF EdgeInv, OnlyIdentifiedConnections,
                            NoConnectionOutlivesItsSession, Open
  <1>12. TypeOK'
    <2>1. sockets' \subseteq Token \X Conn
      BY <1>1, <1>4, <1>7 DEF EdgeInv, TypeOK
    <2>2. tokens' \subseteq Token
      BY <1>1 DEF EdgeInv, TypeOK, Elevate, FollowRotation
    <2>3. DOMAIN refs' \subseteq Token /\ refs' \in [DOMAIN refs' -> Nat]
      BY <1>1 DEF EdgeInv, TypeOK, Elevate, FollowRotation, Put, Without
    <2> QED
      BY <1>1, <1>2, <1>3, <1>6, <2>1, <2>2, <2>3 DEF TypeOK
  <1>13. CredentialsAreMinted'
    BY <1>1, <1>2, <1>3 DEF EdgeInv, CredentialsAreMinted, IsTable, Held
  <1>14. RotatedAwayIsGone'
    BY <1>1, <1>2 DEF EdgeInv, RotatedAwayIsGone
  <1>15. TokensDieWithTheSession'
    BY <1>1, <1>2 DEF EdgeInv, TokensDieWithTheSession, Elevate, FollowRotation
  <1>16. EverySessionIsHinted' /\ CeilingHolds'
    BY <1>2 DEF EdgeInv, EverySessionIsHinted, CeilingHolds
  <1> QED
    BY <1>8, <1>9, <1>10, <1>11, <1>12, <1>13, <1>14, <1>15, <1>16 DEF EdgeInv

\* Steps that only take sessions away, announcing each.
LEMMA RemovalPreservesInv ==
    ASSUME EdgeInv, NEW gone, gone \subseteq Held(table),
           IsTable(table'), Held(table') = Held(table) \ gone,
           DOMAIN table'.rotations \subseteq DOMAIN table.rotations,
           \A x \in Held(table') : table'.sessions[x] = table.sessions[x],
           EveryRecordHinted(table) => EveryRecordHinted(table'),
           WithinCeiling(table) => WithinCeiling(table'),
           DropSessions(Ended(table', gone)),
           tokens' = tokens \ gone,
           cookie' \in [Browser -> Token \cup {NoToken}],
           UNCHANGED <<now, origin, refs>>
    PROVE  EdgeInv'
  <1>1. DropSessions(gone)
    BY EndedIsAll DEF EdgeInv
  <1>2. /\ conn' \in [Conn -> [phase : {"free", "open", "closing"},
                               live : Token \cup {NoToken}]]
        /\ sockets' \subseteq Token \X Conn
        /\ SocketTableAgrees'
        /\ NoConnectionOutlivesItsSession'
        /\ ClosingConnectionsAreOver'
        /\ OnlyIdentifiedConnections'
    <2> DEFINE added == {}
    <2>1. /\ \A id \in added : id \in Token /\ origin[id] = NoToken
          /\ Held(table') = (Held(table) \ gone) \cup added
          /\ \A id \in Token : origin[id] # NoToken => origin'[id] # NoToken
      OBVIOUS
    <2> HIDE DEF added
    <2> QED
      BY <1>1, <2>1, DropKeepsConnections
  <1>3. TypeOK'
    BY <1>2 DEF EdgeInv, TypeOK
  <1>4. CredentialsAreMinted' /\ RotatedAwayIsGone' /\ TokensDieWithTheSession'
    BY DEF EdgeInv, CredentialsAreMinted, RotatedAwayIsGone, TokensDieWithTheSession
  <1>5. EverySessionIsHinted' /\ CeilingHolds'
    BY DEF EdgeInv, EverySessionIsHinted, CeilingHolds
  <1> QED
    BY <1>2, <1>3, <1>4, <1>5 DEF EdgeInv

\* Revoking a credential, held or not.
LEMMA RevokePreservesInv ==
    ASSUME EdgeInv, NEW id, Revoke(id), cookie' \in [Browser -> Token \cup {NoToken}]
    PROVE  EdgeInv'
  <1> DEFINE removed == {id} \cap Held(table)
  <1>1. IsTable(table) /\ removed \subseteq Held(table)
    BY DEF EdgeInv, TypeOK
  <1>2. /\ table' = Forget(table, removed)
        /\ DropSessions(Ended(table', removed))
        /\ tokens' = tokens \ Ended(table', removed)
        /\ UNCHANGED <<now, origin, refs>>
    BY DEF Revoke
  <1> HIDE DEF removed
  <1>3. /\ IsTable(table')
        /\ Held(table') = Held(table) \ removed
        /\ DOMAIN table'.rotations \subseteq DOMAIN table.rotations
        /\ \A x \in Held(table') : table'.sessions[x] = table.sessions[x]
        /\ EveryRecordHinted(table) => EveryRecordHinted(table')
        /\ WithinCeiling(table) => WithinCeiling(table')
    BY <1>1, <1>2, ForgetProperties, ForgetPreserves
  <1>4. Ended(table', removed) = removed
    BY <1>1, <1>3, EndedIsAll DEF EdgeInv
  <1> QED
    BY <1>1, <1>2, <1>3, <1>4, RemovalPreservesInv

\* A WebSocket upgrade binds a free slot to a session of the table.
LEMMA UpgradePreservesInv ==
    ASSUME EdgeInv, NEW b \in Browser, NEW c \in Conn, Upgrade(b, c)
    PROVE  EdgeInv'
  <1> DEFINE id == cookie[b]
  <1>1. /\ id \in Held(table)
        /\ id \in Token
        /\ IdentityRequired => table.sessions[id].identity # Nobody
        /\ conn[c].phase = "free"
        /\ conn \in [Conn -> [phase : {"free", "open", "closing"},
                              live : Token \cup {NoToken}]]
        /\ UNCHANGED <<table, now, origin, cookie, tokens>>
    BY DEF Upgrade, IsLive, EdgeInv, TypeOK, IsTable, Held
  <1>2. /\ conn' = [conn EXCEPT ![c] = [phase |-> "open", live |-> id]]
        /\ sockets' = sockets \cup {<<id, c>>}
        /\ refs' = Put(refs, id, 1 + IF id \in DOMAIN refs THEN refs[id] ELSE 0)
    BY DEF Upgrade
  <1> HIDE DEF id
  <1>3. \A d \in Conn : conn'[d] = IF d = c THEN [phase |-> "open", live |-> id] ELSE conn[d]
    BY <1>1, <1>2
  <1>4. Open' = Open \cup {c} /\ c \notin Open /\ Open \subseteq Conn
    BY <1>1, <1>3 DEF Open
  <1>5. SocketTableAgrees'
    <2>1. sockets' = {<<conn[d].live, d>> : d \in Open} \cup {<<id, c>>}
      BY <1>2 DEF EdgeInv, SocketTableAgrees
    <2>2. /\ \A d \in Open : <<conn'[d].live, d>> = <<conn[d].live, d>>
          /\ <<conn'[c].live, c>> = <<id, c>>
      BY <1>3, <1>4
    <2> QED
      BY <1>4, <2>1, <2>2 DEF SocketTableAgrees
  <1>6. TypeOK'
    <2>1. DOMAIN refs' \subseteq Token /\ refs' \in [DOMAIN refs' -> Nat]
      BY <1>1, <1>2 DEF EdgeInv, TypeOK, Put
    <2>2. sockets' \subseteq Token \X Conn
      BY <1>1, <1>2 DEF EdgeInv, TypeOK
    <2>3. conn' \in [Conn -> [phase : {"free", "open", "closing"},
                              live : Token \cup {NoToken}]]
      BY <1>1, <1>2
    <2> QED
      BY <1>1, <2>1, <2>2, <2>3 DEF EdgeInv, TypeOK
  <1>7. NoConnectionOutlivesItsSession' /\ OnlyIdentifiedConnections'
    BY <1>1, <1>3, <1>4 DEF EdgeInv, NoConnectionOutlivesItsSession, OnlyIdentifiedConnections
  <1>8. ClosingConnectionsAreOver'
    BY <1>1, <1>3 DEF EdgeInv, ClosingConnectionsAreOver
  <1>9. /\ CredentialsAreMinted'
        /\ RotatedAwayIsGone'
        /\ TokensDieWithTheSession'
        /\ EverySessionIsHinted'
        /\ CeilingHolds'
    BY <1>1 DEF EdgeInv, CredentialsAreMinted, RotatedAwayIsGone, TokensDieWithTheSession,
                EverySessionIsHinted, CeilingHolds
  <1> QED
    BY <1>5, <1>6, <1>7, <1>8, <1>9 DEF EdgeInv

\* The disconnected handler frees a slot and takes exactly its pair out of the socket table.
LEMMA DisconnectedPreservesInv ==
    ASSUME EdgeInv, NEW c \in Conn, Disconnected(c)
    PROVE  EdgeInv'
  <1>1. /\ conn \in [Conn -> [phase : {"free", "open", "closing"},
                              live : Token \cup {NoToken}]]
        /\ conn' = [conn EXCEPT ![c] = Free]
        /\ sockets' = sockets \ {<<conn[c].live, c>>}
        /\ UNCHANGED <<table, now, origin, cookie, tokens>>
    BY DEF EdgeInv, TypeOK, Disconnected
  <1>2. \A d \in Conn : conn'[d] = IF d = c THEN Free ELSE conn[d]
    BY <1>1
  <1>3. Open' = Open \ {c} /\ Open \subseteq Conn
    BY <1>2 DEF Open, Free
  <1>4. SocketTableAgrees'
    <2>1. sockets' = {<<conn[d].live, d>> : d \in Open} \ {<<conn[c].live, c>>}
      BY <1>1 DEF EdgeInv, SocketTableAgrees
    <2>2. \A d \in Open \ {c} : conn'[d].live = conn[d].live
      BY <1>2, <1>3
    <2>3. sockets' = {<<conn[d].live, d>> : d \in Open \ {c}}
      BY <2>1
    <2> QED
      BY <1>3, <2>2, <2>3 DEF SocketTableAgrees
  <1>5. TypeOK'
    <2>1. DOMAIN refs' \subseteq Token /\ refs' \in [DOMAIN refs' -> Nat]
      BY DEF EdgeInv, TypeOK, Disconnected, Without
    <2>2. conn' \in [Conn -> [phase : {"free", "open", "closing"},
                              live : Token \cup {NoToken}]]
      BY <1>1 DEF Free
    <2> QED
      BY <1>1, <2>1, <2>2 DEF EdgeInv, TypeOK
  <1>6. NoConnectionOutlivesItsSession' /\ OnlyIdentifiedConnections'
    BY <1>1, <1>2, <1>3 DEF EdgeInv, NoConnectionOutlivesItsSession, OnlyIdentifiedConnections
  <1>7. ClosingConnectionsAreOver'
    BY <1>1, <1>2 DEF EdgeInv, ClosingConnectionsAreOver, Free
  <1>8. /\ CredentialsAreMinted'
        /\ RotatedAwayIsGone'
        /\ TokensDieWithTheSession'
        /\ EverySessionIsHinted'
        /\ CeilingHolds'
    BY <1>1 DEF EdgeInv, CredentialsAreMinted, RotatedAwayIsGone, TokensDieWithTheSession,
                EverySessionIsHinted, CeilingHolds
  <1> QED
    BY <1>4, <1>5, <1>6, <1>7, <1>8 DEF EdgeInv

\* The sweep takes away what it reclaims and nothing else.
LEMMA SweepPreservesInv ==
    ASSUME EdgeInv, Sweep
    PROVE  EdgeInv'
  <1> DEFINE gone == Reclaimed(table, now)
  <1>1. /\ IsTable(table)
        /\ now \in Nat
        /\ cookie' \in [Browser -> Token \cup {NoToken}]
    BY DEF EdgeInv, TypeOK, Sweep
  <1>2. /\ table' = PurgeExpired(table, now)
        /\ DropSessions(Ended(table', gone))
        /\ tokens' = tokens \ gone
        /\ UNCHANGED <<now, origin, refs>>
    BY DEF Sweep
  <1>3. /\ IsTable(table')
        /\ gone \subseteq Held(table)
        /\ Held(table') = Held(table) \ gone
        /\ DOMAIN table'.rotations \subseteq DOMAIN table.rotations
        /\ \A x \in Held(table') : table'.sessions[x] = table.sessions[x]
        /\ EveryRecordHinted(table) => EveryRecordHinted(table')
        /\ WithinCeiling(table) => WithinCeiling(table')
    BY <1>1, <1>2, PurgeProperties, PurgePreserves
  <1> HIDE DEF gone
  <1> QED
    BY <1>1, <1>2, <1>3, RemovalPreservesInv

\* A page request hands over the successor, or issues a session.
LEMMA PageLoadPreservesInv ==
    ASSUME EdgeInv, NEW b \in Browser, PageLoad(b)
    PROVE  EdgeInv'
  <1> DEFINE successor == RotationOf(table, cookie[b], now)
  <1>1. CASE successor # NoToken
    <2>1. /\ cookie' = [cookie EXCEPT ![b] = successor]
          /\ UNCHANGED <<table, now, origin, conn, sockets, refs, tokens>>
      BY <1>1 DEF PageLoad
    <2>2. successor \in Token
      BY <1>1 DEF RotationOf, IsLive, EdgeInv, TypeOK, IsTable, Held
    <2>3. cookie' \in [Browser -> Token \cup {NoToken}]
      BY <2>1, <2>2 DEF EdgeInv, TypeOK
    <2> QED
      BY <2>1, <2>3
         DEF EdgeInv, TypeOK, CredentialsAreMinted, RotatedAwayIsGone, SocketTableAgrees,
             NoConnectionOutlivesItsSession, ClosingConnectionsAreOver, Open,
             OnlyIdentifiedConnections, TokensDieWithTheSession, EverySessionIsHinted,
             CeilingHolds
  <1>2. CASE successor = NoToken
    <2>1. Issue(b, DefaultScope, Nobody, FALSE)
      BY <1>2 DEF PageLoad
    <2>2. DefaultScope \in Scope /\ Nobody \in Identity
      BY TableAssumption DEF Identity
    <2> QED
      BY <2>1, <2>2, IssuePreservesInv
  <1> QED
    BY <1>1, <1>2

\* A sign-in through the password gate raises the session, or issues one.
LEMMA SignInPreservesInv ==
    ASSUME EdgeInv, NEW b \in Browser, SignIn(b)
    PROVE  EdgeInv'
  <1>1. SignInScope \in Scope /\ Nobody \in Identity
    BY EdgeAssumption DEF Identity
  <1>2. CASE cookie[b] \in Held(table)
    <2>1. PICK id \in Fresh : /\ Elevate(cookie[b], id, SignInScope, Nobody, FALSE)
                              /\ cookie' = [cookie EXCEPT ![b] = id]
      BY <1>2 DEF SignIn
    <2>2. cookie' \in [Browser -> Token \cup {NoToken}]
      BY <2>1 DEF EdgeInv, TypeOK, Fresh
    <2> QED
      BY <1>1, <1>2, <2>1, <2>2, ElevatePreservesInv
  <1>3. CASE cookie[b] \notin Held(table)
    <2>1. Issue(b, SignInScope, Nobody, FALSE)
      BY <1>3 DEF SignIn
    <2> QED
      BY <1>1, <2>1, IssuePreservesInv
  <1> QED
    BY <1>2, <1>3

\* Every handler of the edge preserves the invariant.
THEOREM NextPreservesInv == EdgeInv /\ [Next]_vars => EdgeInv'
  <1> SUFFICES ASSUME EdgeInv, [Next]_vars PROVE EdgeInv'
    OBVIOUS
  <1>0. LoginScope \in Scope /\ User \subseteq Identity
    BY EdgeAssumption DEF Identity
  <1>1. ASSUME NEW b \in Browser, PageLoad(b) PROVE EdgeInv'
    BY <1>1, PageLoadPreservesInv
  <1>2. ASSUME NEW b \in Browser, NEW c \in Conn, Upgrade(b, c) PROVE EdgeInv'
    BY <1>2, UpgradePreservesInv
  <1>3. ASSUME NEW c \in Conn, NEW s \in Scope, NEW i \in Identity, SlotSetScope(c, s, i)
        PROVE  EdgeInv'
    <2>1. /\ conn[c].live \in Held(table)
          /\ cookie' \in [Browser -> Token \cup {NoToken}]
      BY <1>3 DEF SlotSetScope, EdgeInv, TypeOK
    <2>2. PICK id \in Fresh : Elevate(conn[c].live, id, s, i, TRUE)
      BY <1>3 DEF SlotSetScope
    <2> QED
      BY <2>1, <2>2, ElevatePreservesInv
  <1>4. ASSUME NEW b \in Browser, SignIn(b) PROVE EdgeInv'
    BY <1>4, SignInPreservesInv
  <1>5. ASSUME NEW b \in Browser, NEW u \in User, LoginCallback(b, u) PROVE EdgeInv'
    <2>1. Issue(b, LoginScope, u, TRUE)
      BY <1>5 DEF LoginCallback
    <2> QED
      BY <1>0, <2>1, IssuePreservesInv
  <1>6. ASSUME NEW b \in Browser, NEW u \in User, DeviceSignIn(b, u) PROVE EdgeInv'
    <2>1. Issue(b, LoginScope, u, FALSE)
      BY <1>6 DEF DeviceSignIn
    <2> QED
      BY <1>0, <2>1, IssuePreservesInv
  <1>7. ASSUME NEW b \in Browser, Logout(b) PROVE EdgeInv'
    <2>1. Revoke(cookie[b]) /\ cookie' \in [Browser -> Token \cup {NoToken}]
      BY <1>7 DEF Logout, EdgeInv, TypeOK
    <2> QED
      BY <2>1, RevokePreservesInv
  <1>8. ASSUME NEW id \in Token, RevokeByKey(id) PROVE EdgeInv'
    <2>1. Revoke(id) /\ cookie' \in [Browser -> Token \cup {NoToken}]
      BY <1>8 DEF RevokeByKey, EdgeInv, TypeOK
    <2> QED
      BY <2>1, RevokePreservesInv
  <1>9. ASSUME NEW c \in Conn, Disconnected(c) PROVE EdgeInv'
    BY <1>9, DisconnectedPreservesInv
  <1>10. CASE Sweep
    BY <1>10, SweepPreservesInv
  <1>11. CASE Tick
    BY <1>11
       DEF Tick, EdgeInv, TypeOK, CredentialsAreMinted, RotatedAwayIsGone, SocketTableAgrees,
           NoConnectionOutlivesItsSession, ClosingConnectionsAreOver, Open,
           OnlyIdentifiedConnections, TokensDieWithTheSession, EverySessionIsHinted,
           CeilingHolds
  <1>12. CASE UNCHANGED vars
    BY <1>12
       DEF vars, EdgeInv, TypeOK, CredentialsAreMinted, RotatedAwayIsGone, SocketTableAgrees,
           NoConnectionOutlivesItsSession, ClosingConnectionsAreOver, Open,
           OnlyIdentifiedConnections, TokensDieWithTheSession, EverySessionIsHinted,
           CeilingHolds
  <1> QED
    BY <1>1, <1>2, <1>3, <1>4, <1>5, <1>6, <1>7, <1>8, <1>9, <1>10, <1>11, <1>12 DEF Next

\* EdgeInv holds in every reachable state of every edge.
THEOREM EdgeInvariant == Spec => []EdgeInv
  BY InitEstablishesInv, NextPreservesInv, PTL DEF Spec

\* The variables always have their types.
THEOREM TypeCorrectness == Spec => []TypeOK
  <1>1. EdgeInv => TypeOK
    BY DEF EdgeInv
  <1> QED
    BY <1>1, EdgeInvariant, PTL

\* Through every order of rotations, sign-ins, revocations, evictions, sweeps and
\* disconnects, an open connection is bound to a session the table holds.
THEOREM ConnectionsEndWithSessions == Spec => []NoConnectionOutlivesItsSession
  <1>1. EdgeInv => NoConnectionOutlivesItsSession
    BY DEF EdgeInv
  <1> QED
    BY <1>1, EdgeInvariant, PTL

\* The socket table names exactly the open connections, under their current sessions.
THEOREM SocketTableIsExact == Spec => []SocketTableAgrees
  <1>1. EdgeInv => SocketTableAgrees
    BY DEF EdgeInv
  <1> QED
    BY <1>1, EdgeInvariant, PTL

\* A credential with a hand-off is never one the table would accept.
THEOREM RedirectionNeverAuthorizes == Spec => []RotatedAwayIsGone
  <1>1. EdgeInv => RotatedAwayIsGone
    BY DEF EdgeInv
  <1> QED
    BY <1>1, EdgeInvariant, PTL

\* No provider tokens are held for a session that is gone.
THEOREM NoOrphanedTokens == Spec => []TokensDieWithTheSession
  <1>1. EdgeInv => TokensDieWithTheSession
    BY DEF EdgeInv
  <1> QED
    BY <1>1, EdgeInvariant, PTL

\* With identity.required every open connection belongs to somebody who signed in.
THEOREM ConnectionsAreIdentified == Spec => []OnlyIdentifiedConnections
  <1>1. EdgeInv => OnlyIdentifiedConnections
    BY DEF EdgeInv
  <1> QED
    BY <1>1, EdgeInvariant, PTL

\* With a TTL the sweep's queue has a matching hint for every session.
THEOREM SweepForgetsNoSession == Spec => []EverySessionIsHinted
  <1>1. EdgeInv => EverySessionIsHinted
    BY DEF EdgeInv
  <1> QED
    BY <1>1, EdgeInvariant, PTL

\* The table of one edge never grows past its ceiling.
THEOREM TableStaysWithinCeiling == Spec => []CeilingHolds
  <1>1. EdgeInv => CeilingHolds
    BY DEF EdgeInv
  <1> QED
    BY <1>1, EdgeInvariant, PTL

\* What issuing a session takes away is past its TTL, or nobody would miss it.
LEMMA IssueSparesVisitors ==
    ASSUME EdgeInv, NEW b \in Browser, NEW scope \in Scope, NEW identity \in Identity,
           NEW grants \in BOOLEAN, Issue(b, scope, identity, grants),
           NEW gone \in Held(table) \ Held(table')
    PROVE  \/ Expired(table.sessions[gone].created, now)
           \/ /\ table.sessions[gone].identity = Nobody
              /\ table.sessions[gone].scope = DefaultScope
              /\ \A c \in Open : conn[c].live # gone
  <1>1. PICK id \in Fresh : table' = CreateSession(table, id, scope, identity, now, InUse).table
    BY DEF Issue
  <1>2. /\ id \in Token
        /\ id \notin Held(table)
        /\ IsTable(table)
        /\ now \in Nat
    BY DEF Fresh, EdgeInv, TypeOK, CredentialsAreMinted
  <1> DEFINE made == CreateSession(table, id, scope, identity, now, InUse)
  <1>3. /\ made.expired = Reclaimed(table, now)
        /\ \A v \in made.evicted : IsEvictable(table, v, InUse)
        /\ Held(made.table) = (Held(table) \ (made.expired \cup made.evicted))
                                  \cup (IF made.ok THEN {id} ELSE {})
    BY <1>2, CreateProperties
  <1>4. gone \in Reclaimed(table, now) \/ IsEvictable(table, gone, InUse)
    BY <1>1, <1>3
  <1>5. CASE gone \in Reclaimed(table, now)
    <2>1. PICK i \in 1..Drained(table.queue, now) :
              table.queue[i].id = gone /\ Matches(table, table.queue[i])
      BY <1>5 DEF Reclaimed
    <2>2. Expired(table.queue[i].created, now)
      BY <1>2, <2>1, DrainedProperties DEF IsTable
    <2> QED
      BY <2>1, <2>2 DEF Matches
  <1>6. CASE IsEvictable(table, gone, InUse)
    <2>1. \A c \in Open : conn[c].live \in InUse
      <3> TAKE c \in Open
      <3>1. <<conn[c].live, c>> \in sockets
        BY DEF EdgeInv, SocketTableAgrees
      <3>2. <<conn[c].live, c>>[1] \in InUse
        BY <3>1 DEF InUse
      <3> QED
        BY <3>2
    <2> QED
      BY <1>6, <2>1 DEF IsEvictable
  <1> QED
    BY <1>4, <1>5, <1>6

\* Making room never costs a visitor anything.
THEOREM MakingRoomSparesVisitors == Spec => EvictionSparesVisitors
  <1> DEFINE Spared(id) ==
                 \/ Expired(table.sessions[id].created, now)
                 \/ /\ table.sessions[id].identity = Nobody
                    /\ table.sessions[id].scope = DefaultScope
                    /\ \A c \in Open : conn[c].live # id
             Issues == \E b \in Browser : PageLoad(b) \/ \E u \in User : LoginCallback(b, u)
                                                                       \/ DeviceSignIn(b, u)
             Sparing == Issues => \A id \in Held(table) \ Held(table)' : Spared(id)
  <1>1. EdgeInv /\ [Next]_vars => [Sparing]_vars
    <2> SUFFICES ASSUME EdgeInv, Issues, NEW id \in Held(table) \ Held(table)' PROVE Spared(id)
      OBVIOUS
    <2>0. /\ LoginScope \in Scope
          /\ DefaultScope \in Scope
          /\ User \subseteq Identity
          /\ Nobody \in Identity
      BY EdgeAssumption, TableAssumption DEF Identity
    <2>1. PICK b \in Browser : PageLoad(b) \/ \E u \in User : LoginCallback(b, u)
                                                           \/ DeviceSignIn(b, u)
      OBVIOUS
    <2>2. CASE PageLoad(b)
      <3>1. Issue(b, DefaultScope, Nobody, FALSE) \/ table' = table
        BY <2>2 DEF PageLoad
      <3>2. Issue(b, DefaultScope, Nobody, FALSE)
        BY <3>1
      <3> QED
        BY <2>0, <3>2, IssueSparesVisitors
    <2>3. CASE \E u \in User : LoginCallback(b, u) \/ DeviceSignIn(b, u)
      <3>1. PICK u \in User, grants \in BOOLEAN : Issue(b, LoginScope, u, grants)
        BY <2>3 DEF LoginCallback, DeviceSignIn
      <3> QED
        BY <2>0, <3>1, IssueSparesVisitors
    <2> QED
      BY <2>1, <2>2, <2>3
  <1> QED
    BY <1>1, EdgeInvariant, PTL DEF Spec, EvictionSparesVisitors

-----------------------------------------------------------------------------
(* Hand-offs, Source counts and the refinement, on top of EdgeInv: the sessions of an edge  *)
(* are chains of hand-offs that never fork, it implements SessionLifecycle step by step, it *)
(* counts the Sources of a session by the connections bound to it, and an elevation reaches *)
(* the cookie. Every step of the edge has one of five shapes (StepShapes), and each         *)
(* argument is made once per shape.                                                         *)

\* The sessions in ended leave the table and are dropped, those in added enter it, and
\* nothing else changes but the hand-offs of what left and those out of their window.
Turns(ended, added) ==
    /\ ended \subseteq Held(table)
    /\ added \subseteq Fresh
    /\ added = {} \/ \E id \in Fresh : added = {id}
    /\ Held(table') = (Held(table) \ ended) \cup added
    /\ DropSessions(ended)
    /\ origin' = [t \in Token |-> IF t \in added THEN t ELSE origin[t]]
    /\ \A x \in Held(table) \ ended : table'.sessions[x] = table.sessions[x]
    /\ \A x \in added : table'.sessions[x].rotatedFrom = NoToken
    /\ OnlyDropsHandoffs(table, table')
    /\ DistinctSources(table) => KeepsHandoffs(table, table', now)
    /\ now' = now
    /\ refs' = refs

SomeTurn == \E ended \in SUBSET Held(table), added \in SUBSET Fresh : Turns(ended, added)

SomeElevation ==
    \E previous \in Held(table), next \in Fresh, scope \in Scope, identity \in Identity,
       keep \in BOOLEAN : Elevate(previous, next, scope, identity, keep)

OnlyTimePasses ==
    /\ UNCHANGED <<table, origin, conn, refs>>
    /\ now' \in Nat
    /\ now' >= now

\* Issuing a session ends what its sweep and its eviction took and adds at most one.
LEMMA IssueTurns ==
    ASSUME EdgeInv, NEW b \in Browser, NEW scope \in Scope, NEW identity \in Identity,
           NEW grants \in BOOLEAN, Issue(b, scope, identity, grants)
    PROVE  SomeTurn
  <1>1. PICK id \in Fresh :
          LET made  == CreateSession(table, id, scope, identity, now, InUse)
              ended == made.expired \cup made.evicted
          IN  /\ table' = made.table
              /\ DropSessions(Ended(made.table, ended))
              /\ origin' = IF made.ok THEN [origin EXCEPT ![id] = id] ELSE origin
              /\ UNCHANGED <<now, refs>>
    BY DEF Issue
  <1> DEFINE made  == CreateSession(table, id, scope, identity, now, InUse)
             ended == made.expired \cup made.evicted
             added == IF made.ok THEN {id} ELSE {}
  <1>2. /\ id \in Token
        /\ id \notin Held(table)
        /\ IsTable(table)
        /\ now \in Nat
        /\ origin \in [Token -> Token \cup {NoToken}]
    BY DEF Fresh, EdgeInv, TypeOK, CredentialsAreMinted
  <1>3. /\ ended \subseteq Held(table)
        /\ Held(made.table) = (Held(table) \ ended) \cup added
        /\ \A x \in Held(made.table) \ {id} : made.table.sessions[x] = table.sessions[x]
        /\ DOMAIN made.table.rotations \subseteq DOMAIN table.rotations
    BY <1>2, CreateProperties
  <1>4. /\ OnlyDropsHandoffs(table, made.table)
        /\ DistinctSources(table) => KeepsHandoffs(table, made.table, now)
        /\ \A x \in added : made.table.sessions[x].rotatedFrom = NoToken
    BY <1>2, CreateHandoffs
  <1> HIDE DEF made, ended
  <1>5. /\ table' = made.table
        /\ DropSessions(Ended(made.table, ended))
        /\ origin' = IF made.ok THEN [origin EXCEPT ![id] = id] ELSE origin
        /\ now' = now
        /\ refs' = refs
    BY <1>1 DEF made, ended
  <1>6. DropSessions(ended)
    BY <1>3, <1>5, EndedIsAll DEF EdgeInv
  <1>7. origin' = [t \in Token |-> IF t \in added THEN t ELSE origin[t]]
    BY <1>2, <1>5
  <1>8. added \subseteq Fresh /\ (added = {} \/ \E x \in Fresh : added = {x})
    BY <1>1
  <1>9. \A x \in Held(table) \ ended : table'.sessions[x] = table.sessions[x]
    BY <1>2, <1>3, <1>5
  <1> HIDE DEF added
  <1>10. Turns(ended, added)
    BY <1>3, <1>4, <1>5, <1>6, <1>7, <1>8, <1>9 DEF Turns
  <1> QED
    BY <1>3, <1>8, <1>10 DEF SomeTurn

\* Taking sessions away ends those and adds none.
LEMMA RemovalTurns ==
    ASSUME EdgeInv, NEW gone, gone \subseteq Held(table), Held(table') = Held(table) \ gone,
           \A x \in Held(table') : table'.sessions[x] = table.sessions[x],
           OnlyDropsHandoffs(table, table'),
           DistinctSources(table) => KeepsHandoffs(table, table', now),
           DropSessions(Ended(table', gone)), UNCHANGED <<now, origin, refs>>
    PROVE  SomeTurn
  <1>1. DropSessions(gone)
    BY EndedIsAll DEF EdgeInv, OnlyDropsHandoffs
  <1>2. origin' = [t \in Token |-> IF t \in {} THEN t ELSE origin[t]]
    BY DEF EdgeInv, TypeOK
  <1>3. Turns(gone, {})
    BY <1>1, <1>2 DEF Turns
  <1> QED
    BY <1>3 DEF SomeTurn

LEMMA RevokeTurns ==
    ASSUME EdgeInv, NEW id, Revoke(id)
    PROVE  SomeTurn
  <1> DEFINE removed == {id} \cap Held(table)
  <1>1. IsTable(table) /\ removed \subseteq Held(table) /\ now \in Nat
    BY DEF EdgeInv, TypeOK
  <1>2. /\ table' = Forget(table, removed)
        /\ DropSessions(Ended(table', removed))
        /\ UNCHANGED <<now, origin, refs>>
    BY DEF Revoke
  <1> HIDE DEF removed
  <1>3. /\ Held(table') = Held(table) \ removed
        /\ \A x \in Held(table') : table'.sessions[x] = table.sessions[x]
        /\ OnlyDropsHandoffs(table, table')
        /\ DistinctSources(table) => KeepsHandoffs(table, table', now)
    BY <1>1, <1>2, ForgetProperties, ForgetHandoffs
  <1> QED
    BY <1>1, <1>2, <1>3, RemovalTurns

LEMMA SweepTurns ==
    ASSUME EdgeInv, Sweep
    PROVE  SomeTurn
  <1> DEFINE gone == Reclaimed(table, now)
  <1>1. IsTable(table) /\ now \in Nat
    BY DEF EdgeInv, TypeOK
  <1>2. /\ table' = PurgeExpired(table, now)
        /\ DropSessions(Ended(table', gone))
        /\ UNCHANGED <<now, origin, refs>>
    BY DEF Sweep
  <1>3. /\ gone \subseteq Held(table)
        /\ Held(table') = Held(table) \ gone
        /\ \A x \in Held(table') : table'.sessions[x] = table.sessions[x]
        /\ OnlyDropsHandoffs(table, table')
        /\ DistinctSources(table) => KeepsHandoffs(table, table', now)
    BY <1>1, <1>2, PurgeProperties, PurgeHandoffs
  <1> HIDE DEF gone
  <1> QED
    BY <1>2, <1>3, RemovalTurns

\* Every step of the edge ends and begins sessions, moves one to a new credential, adds
\* a connection, frees one, or leaves all of these alone.
LEMMA StepShapes ==
    ASSUME EdgeInv, [Next]_vars
    PROVE  \/ SomeTurn
           \/ SomeElevation
           \/ \E b \in Browser, c \in Conn : Upgrade(b, c)
           \/ \E c \in Conn : Disconnected(c)
           \/ OnlyTimePasses
  <1>0. /\ LoginScope \in Scope
        /\ SignInScope \in Scope
        /\ DefaultScope \in Scope
        /\ User \subseteq Identity
        /\ Nobody \in Identity
        /\ TRUE \in BOOLEAN
        /\ FALSE \in BOOLEAN
        /\ now \in Nat
    BY EdgeAssumption, TableAssumption DEF Identity, EdgeInv, TypeOK
  <1>1. ASSUME NEW b \in Browser, PageLoad(b) PROVE SomeTurn \/ OnlyTimePasses
    <2>1. \/ Issue(b, DefaultScope, Nobody, FALSE)
          \/ UNCHANGED <<table, now, origin, conn, sockets, refs, tokens>>
      BY <1>1 DEF PageLoad
    <2>2. CASE Issue(b, DefaultScope, Nobody, FALSE)
      BY <1>0, <2>2, IssueTurns
    <2>3. CASE UNCHANGED <<table, now, origin, conn, sockets, refs, tokens>>
      BY <1>0, <2>3 DEF OnlyTimePasses
    <2> QED
      BY <2>1, <2>2, <2>3
  <1>2. ASSUME NEW c \in Conn, NEW s \in Scope, NEW i \in Identity, SlotSetScope(c, s, i)
        PROVE  SomeElevation
    BY <1>0, <1>2 DEF SlotSetScope, SomeElevation
  <1>3. ASSUME NEW b \in Browser, SignIn(b) PROVE SomeTurn \/ SomeElevation
    <2>1. CASE cookie[b] \in Held(table)
      BY <1>0, <1>3, <2>1 DEF SignIn, SomeElevation
    <2>2. CASE cookie[b] \notin Held(table)
      <3>1. Issue(b, SignInScope, Nobody, FALSE)
        BY <1>3, <2>2 DEF SignIn
      <3> QED
        BY <1>0, <3>1, IssueTurns
    <2> QED
      BY <2>1, <2>2
  <1>4. ASSUME NEW b \in Browser, NEW u \in User, LoginCallback(b, u) PROVE SomeTurn
    <2>1. Issue(b, LoginScope, u, TRUE)
      BY <1>4 DEF LoginCallback
    <2> QED
      BY <1>0, <2>1, IssueTurns
  <1>5. ASSUME NEW b \in Browser, NEW u \in User, DeviceSignIn(b, u) PROVE SomeTurn
    <2>1. Issue(b, LoginScope, u, FALSE)
      BY <1>5 DEF DeviceSignIn
    <2> QED
      BY <1>0, <2>1, IssueTurns
  <1>6. ASSUME NEW b \in Browser, Logout(b) PROVE SomeTurn
    BY <1>6, RevokeTurns DEF Logout
  <1>7. ASSUME NEW id \in Token, RevokeByKey(id) PROVE SomeTurn
    BY <1>7, RevokeTurns DEF RevokeByKey
  <1>8. CASE Sweep
    BY <1>8, SweepTurns
  <1>9. CASE Tick
    BY <1>0, <1>9 DEF Tick, OnlyTimePasses
  <1>10. CASE UNCHANGED vars
    BY <1>0, <1>10 DEF vars, OnlyTimePasses
  <1> QED
    BY <1>1, <1>2, <1>3, <1>4, <1>5, <1>6, <1>7, <1>8, <1>9, <1>10 DEF Next

\* dropSession closes exactly the open connections of the sessions it is given.
LEMMA DropEffect ==
    ASSUME EdgeInv, NEW ended, ended \subseteq Held(table), DropSessions(ended)
    PROVE  \A c \in Conn :
              /\ conn'[c].live = conn[c].live
              /\ conn'[c].phase = IF conn[c].phase = "open" /\ conn[c].live \in ended
                                  THEN "closing" ELSE conn[c].phase
  <1>1. /\ conn \in [Conn -> [phase : {"free", "open", "closing"},
                              live : Token \cup {NoToken}]]
        /\ sockets = {<<conn[c].live, c>> : c \in {d \in Conn : conn[d].phase = "open"}}
    BY DEF EdgeInv, TypeOK, SocketTableAgrees, Open
  <1>2. \A c \in Conn : (\E id \in ended : <<id, c>> \in sockets)
                            <=> (conn[c].phase = "open" /\ conn[c].live \in ended)
    BY <1>1
  <1>3. \A c \in Conn :
           conn'[c] = IF conn[c].phase = "open" /\ conn[c].live \in ended
                      THEN [conn[c] EXCEPT !.phase = "closing"] ELSE conn[c]
    BY <1>2 DEF DropSessions
  <1> QED
    BY <1>1, <1>3

\* An elevation replaces one credential of the table by a new one and moves exactly the
\* open connections of the session, there being no closing one on it.
LEMMA ElevateEffect ==
    ASSUME EdgeInv, NEW previous \in Held(table), NEW next \in Fresh, NEW scope \in Scope,
           NEW identity \in Identity, NEW keep \in BOOLEAN,
           Elevate(previous, next, scope, identity, keep)
    PROVE  /\ next \in Token
           /\ previous \in Token
           /\ previous # next
           /\ origin[next] = NoToken
           /\ origin[previous] # NoToken
           /\ Held(table') = (Held(table) \ {previous}) \cup {next}
           /\ \A x \in Held(table) \ {previous} : table'.sessions[x] = table.sessions[x]
           /\ BoundTo(previous) = {c \in Open : conn[c].live = previous}
           /\ \A c \in Conn :
                 /\ conn'[c].phase = conn[c].phase
                 /\ conn'[c].live = IF c \in BoundTo(previous) THEN next ELSE conn[c].live
           /\ origin'[next] = IF keep THEN origin[previous] ELSE next
           /\ \A x \in Token \ {next} : origin'[x] = origin[x]
           /\ now' = now
  <1>1. /\ next \in Token
        /\ previous \in Token
        /\ previous # next
        /\ origin[next] = NoToken
        /\ origin[previous] # NoToken
        /\ next \notin Held(table)
        /\ IsTable(table)
        /\ now \in Nat
        /\ origin \in [Token -> Token \cup {NoToken}]
        /\ conn \in [Conn -> [phase : {"free", "open", "closing"},
                              live : Token \cup {NoToken}]]
    BY DEF Fresh, EdgeInv, TypeOK, CredentialsAreMinted, IsTable, Held
  <1>2. /\ Held(table') = (Held(table) \ {previous}) \cup {next}
        /\ \A x \in Held(table) \ {previous} : table'.sessions[x] = table.sessions[x]
    <2>1. table' = SetScope(table, previous, next, scope, identity, keep, now)
      BY DEF Elevate
    <2> QED
      BY <1>1, <2>1, SetScopeProperties
  <1>3. BoundTo(previous) = {c \in Open : conn[c].live = previous}
    BY <1>1 DEF BoundTo, Open, EdgeInv, ClosingConnectionsAreOver
  <1>4. \A c \in Conn :
           /\ conn'[c].phase = conn[c].phase
           /\ conn'[c].live = IF c \in BoundTo(previous) THEN next ELSE conn[c].live
    BY <1>1 DEF Elevate, FollowRotation
  <1>5. /\ origin'[next] = IF keep THEN origin[previous] ELSE next
        /\ \A x \in Token \ {next} : origin'[x] = origin[x]
        /\ now' = now
    BY <1>1 DEF Elevate
  <1> QED
    BY <1>1, <1>2, <1>3, <1>4, <1>5

--------------------------------------------------------------------------------
(***************************************************************************)
(* Chains of hand-offs.                                                    *)
(***************************************************************************)
\* Sessions that leave take their own hand-off with them, and one that begins starts a
\* chain of its own.
LEMMA TurnKeepsHandoffInv ==
    ASSUME EdgeInv, HandoffInv, NEW ended, NEW added, Turns(ended, added)
    PROVE  HandoffInv'
  <1>1. /\ ended \subseteq Held(table)
        /\ Held(table') = (Held(table) \ ended) \cup added
        /\ origin' = [t \in Token |-> IF t \in added THEN t ELSE origin[t]]
        /\ \A x \in Held(table) \ ended : table'.sessions[x] = table.sessions[x]
        /\ \A x \in added : table'.sessions[x].rotatedFrom = NoToken
        /\ OnlyDropsHandoffs(table, table')
        /\ DistinctSources(table) => KeepsHandoffs(table, table', now)
        /\ now' = now
    BY DEF Turns
  <1>2. added \subseteq {t \in Token : origin[t] = NoToken}
    BY DEF Turns, Fresh
  <1>3. \A x, y \in added : x = y
    BY DEF Turns
  <1>4. /\ origin \in [Token -> Token \cup {NoToken}]
        /\ Held(table) \subseteq Token
        /\ \A x \in Held(table) : /\ origin[x] # NoToken
                                  /\ table.sessions[x].rotatedFrom \in Token \cup {NoToken}
                                  /\ table.sessions[x].created \in Nat
        /\ now \in Nat
    BY DEF EdgeInv, TypeOK, IsTable, Held, CredentialsAreMinted, SessionRecord
  <1>5. \A x \in Token : origin[x] # NoToken => x \notin added /\ origin'[x] = origin[x]
    BY <1>1, <1>2
  <1>6. ChainsAreRooted'
    <2> SUFFICES ASSUME NEW id \in Token, origin'[id] # NoToken
                 PROVE  origin'[origin'[id]] = origin'[id]
      BY DEF ChainsAreRooted
    <2>1. CASE id \in added
      BY <1>1, <2>1
    <2>2. CASE id \notin added
      <3>1. /\ origin'[id] = origin[id]
            /\ origin[id] \in Token
            /\ origin[origin[id]] = origin[id]
        BY <1>1, <1>4, <2>2 DEF HandoffInv, ChainsAreRooted
      <3> QED
        BY <1>4, <1>5, <2>2, <3>1
    <2> QED
      BY <2>1, <2>2
  <1>7. ASSUME NEW a \in added, NEW b \in Held(table) PROVE origin'[a] # origin'[b]
    <2>1. origin'[a] = a /\ origin'[b] = origin[b] /\ origin[a] = NoToken
      BY <1>1, <1>2, <1>4, <1>5
    <2>2. origin[origin[b]] = origin[b] /\ origin[b] # NoToken
      BY <1>4 DEF HandoffInv, ChainsAreRooted
    <2> QED
      BY <2>1, <2>2
  <1>8. OneSessionPerChain'
    <2> SUFFICES ASSUME NEW a \in Held(table'), NEW b \in Held(table'), origin'[a] = origin'[b]
                 PROVE  a = b
      BY DEF OneSessionPerChain
    <2>1. CASE a \in Held(table) /\ b \in Held(table)
      BY <1>4, <1>5, <2>1 DEF HandoffInv, OneSessionPerChain
    <2> QED
      BY <1>1, <1>3, <1>7, <2>1
  <1>9. \A id \in Held(table') : table'.sessions[id].rotatedFrom # NoToken =>
            /\ id \in Held(table) \ ended
            /\ table'.sessions[id] = table.sessions[id]
    BY <1>1
  <1>10. ReplacedOnce'
    <2> SUFFICES ASSUME NEW id \in Held(table'), NEW from,
                        from = table'.sessions[id].rotatedFrom, from # NoToken
                 PROVE  /\ from \notin Held(table')
                        /\ origin'[from] # NoToken
                        /\ \A other \in Held(table') :
                              table'.sessions[other].rotatedFrom = from => other = id
      BY DEF ReplacedOnce
    <2>1. /\ id \in Held(table)
          /\ table.sessions[id].rotatedFrom = from
          /\ from \in Token
      BY <1>4, <1>9
    <2>2. /\ from \notin Held(table)
          /\ origin[from] # NoToken
          /\ \A other \in Held(table) :
                table.sessions[other].rotatedFrom = from => other = id
      BY <2>1 DEF HandoffInv, ReplacedOnce
    <2> QED
      BY <1>1, <1>5, <1>9, <2>1, <2>2
  <1>11. HandoffLeadsHome'
    <2> SUFFICES ASSUME NEW id \in Held(table'), NEW from,
                        from = table'.sessions[id].rotatedFrom, from # NoToken,
                        origin'[from] = origin'[id],
                        ~(now - table'.sessions[id].created > Grace)
                 PROVE  /\ from \in DOMAIN table'.rotations
                        /\ table'.rotations[from]
                              = [to |-> id, at |-> table'.sessions[id].created]
      BY <1>1 DEF HandoffLeadsHome
    <2>1. /\ id \in Held(table) \ ended
          /\ table'.sessions[id] = table.sessions[id]
          /\ from = table.sessions[id].rotatedFrom
          /\ from \in Token
      BY <1>4, <1>9
    <2>2. origin[from] = origin[id]
      BY <1>4, <1>5, <2>1 DEF HandoffInv, ReplacedOnce
    <2>3. /\ from \in DOMAIN table.rotations
          /\ table.rotations[from] = [to |-> id, at |-> table.sessions[id].created]
      BY <2>1, <2>2 DEF HandoffInv, HandoffLeadsHome
    <2>4. DistinctSources(table)
      BY DEF HandoffInv, ReplacedOnce, DistinctSources
    <2>5. /\ table.rotations[from].to = id
          /\ table.rotations[from].at = table.sessions[id].created
      BY <2>3
    <2>6. now - table.rotations[from].at =< Grace
      BY <1>4, <2>1, <2>5, TableAssumption
    <2>7. from \in DOMAIN table'.rotations
      BY <1>1, <2>1, <2>3, <2>4, <2>5, <2>6 DEF KeepsHandoffs
    <2> QED
      BY <1>1, <2>1, <2>3, <2>7 DEF OnlyDropsHandoffs
  <1> QED
    BY <1>6, <1>8, <1>10, <1>11 DEF HandoffInv

\* What an elevation does to the hand-offs.
LEMMA ElevateHandoffs ==
    ASSUME EdgeInv, NEW previous \in Held(table), NEW next \in Fresh, NEW scope \in Scope,
           NEW identity \in Identity, NEW keep \in BOOLEAN,
           Elevate(previous, next, scope, identity, keep)
    PROVE  /\ table'.sessions[next].created = now
           /\ table'.sessions[next].rotatedFrom =
                 IF keep THEN previous ELSE table.sessions[previous].rotatedFrom
           /\ keep => /\ previous \in DOMAIN table'.rotations
                      /\ table'.rotations[previous] = [to |-> next, at |-> now]
           /\ DOMAIN table.rotations \subseteq DOMAIN table'.rotations
           /\ \A id \in DOMAIN table.rotations :
                 id # table.sessions[previous].rotatedFrom =>
                     table'.rotations[id] = table.rotations[id]
           /\ KeepsClocks(table, table')
  <1>1. /\ next \in Token
        /\ previous \in Token
        /\ origin[next] = NoToken
        /\ IsTable(table)
        /\ now \in Nat
        /\ next \notin Held(table)
        /\ previous \notin DOMAIN table.rotations
    BY DEF Fresh, EdgeInv, TypeOK, IsTable, Held, CredentialsAreMinted, RotatedAwayIsGone
  <1>2. table' = SetScope(table, previous, next, scope, identity, keep, now)
    BY DEF Elevate
  <1> QED
    BY <1>1, <1>2, SetScopeHandoffs

\* An elevation replaces a credential nobody remembers having replaced, being held until
\* now, and its hand-off is written on the clock of the record.
LEMMA ElevateKeepsHandoffInv ==
    ASSUME EdgeInv, HandoffInv, NEW previous \in Held(table), NEW next \in Fresh,
           NEW scope \in Scope, NEW identity \in Identity, NEW keep \in BOOLEAN,
           Elevate(previous, next, scope, identity, keep)
    PROVE  HandoffInv'
  <1>1. /\ next \in Token
        /\ previous \in Token
        /\ previous # next
        /\ origin[next] = NoToken
        /\ origin[previous] # NoToken
        /\ Held(table') = (Held(table) \ {previous}) \cup {next}
        /\ \A x \in Held(table) \ {previous} : table'.sessions[x] = table.sessions[x]
        /\ origin'[next] = IF keep THEN origin[previous] ELSE next
        /\ \A x \in Token \ {next} : origin'[x] = origin[x]
        /\ now' = now
    BY ElevateEffect
  <1>2. /\ origin \in [Token -> Token \cup {NoToken}]
        /\ Held(table) \subseteq Token
        /\ \A x \in Held(table) : /\ origin[x] # NoToken
                                  /\ table.sessions[x].rotatedFrom \in Token \cup {NoToken}
                                  /\ table.sessions[x].created \in Nat
        /\ now \in Nat
        /\ IsTable(table)
        /\ next \notin Held(table)
        /\ previous \notin DOMAIN table.rotations
    BY <1>1 DEF EdgeInv, TypeOK, IsTable, Held, CredentialsAreMinted, SessionRecord,
                RotatedAwayIsGone
  <1>3. /\ table'.sessions[next].created = now
        /\ table'.sessions[next].rotatedFrom =
              IF keep THEN previous ELSE table.sessions[previous].rotatedFrom
        /\ keep => /\ previous \in DOMAIN table'.rotations
                   /\ table'.rotations[previous] = [to |-> next, at |-> now]
        /\ DOMAIN table.rotations \subseteq DOMAIN table'.rotations
        /\ \A id \in DOMAIN table.rotations :
              id # table.sessions[previous].rotatedFrom =>
                  table'.rotations[id] = table.rotations[id]
    BY ElevateHandoffs
  <1>4. \A x \in Token : origin[x] # NoToken => /\ x # next
                                                /\ origin'[x] = origin[x]
                                                /\ origin[x] \in Token
                                                /\ origin[origin[x]] = origin[x]
                                                /\ origin[x] # next
    BY <1>1, <1>2 DEF HandoffInv, ChainsAreRooted
  <1>5. \A x \in Held(table) :
            table.sessions[x].rotatedFrom # NoToken =>
                /\ table.sessions[x].rotatedFrom \in Token
                /\ table.sessions[x].rotatedFrom # next
                /\ table.sessions[x].rotatedFrom # previous
                /\ table.sessions[x].rotatedFrom \notin Held(table)
                /\ origin[table.sessions[x].rotatedFrom] # NoToken
                /\ \A y \in Held(table) :
                      table.sessions[y].rotatedFrom = table.sessions[x].rotatedFrom => y = x
    BY <1>1, <1>2, <1>4 DEF HandoffInv, ReplacedOnce
  <1>6. ChainsAreRooted'
    <2> SUFFICES ASSUME NEW id \in Token, origin'[id] # NoToken
                 PROVE  origin'[origin'[id]] = origin'[id]
      BY DEF ChainsAreRooted
    <2>1. CASE id # next
      <3>1. origin'[id] = origin[id] /\ origin[id] # NoToken
        BY <1>1, <2>1
      <3> QED
        BY <1>4, <3>1
    <2>2. CASE id = next /\ keep
      BY <1>1, <1>4, <2>2
    <2>3. CASE id = next /\ ~keep
      BY <1>1, <2>3
    <2> QED
      BY <2>1, <2>2, <2>3
  <1>7. ASSUME NEW b \in Held(table) \ {previous} PROVE origin'[next] # origin'[b]
    <2>1. origin'[b] = origin[b] /\ origin[b] # next
      BY <1>2, <1>4
    <2>2. origin[b] # origin[previous]
      BY DEF HandoffInv, OneSessionPerChain
    <2> QED
      BY <1>1, <2>1, <2>2
  <1>8. OneSessionPerChain'
    <2> SUFFICES ASSUME NEW a \in Held(table'), NEW b \in Held(table'), origin'[a] = origin'[b]
                 PROVE  a = b
      BY DEF OneSessionPerChain
    <2>1. CASE a # next /\ b # next
      BY <1>1, <1>2, <1>4, <2>1 DEF HandoffInv, OneSessionPerChain
    <2> QED
      BY <1>1, <1>7, <2>1
  <1>9. ReplacedOnce'
    <2> SUFFICES ASSUME NEW id \in Held(table'), NEW from,
                        from = table'.sessions[id].rotatedFrom, from # NoToken
                 PROVE  /\ from \notin Held(table')
                        /\ origin'[from] # NoToken
                        /\ \A other \in Held(table') :
                              table'.sessions[other].rotatedFrom = from => other = id
      BY DEF ReplacedOnce
    <2>1. CASE id = next /\ keep
      <3>1. from = previous
        BY <1>3, <2>1
      <3>2. from \notin Held(table') /\ origin'[from] # NoToken
        BY <1>1, <1>4, <3>1
      <3>3. \A other \in Held(table') : table'.sessions[other].rotatedFrom = from => other = id
        BY <1>1, <1>5, <2>1, <3>1
      <3> QED
        BY <3>2, <3>3
    <2>2. CASE id = next /\ ~keep
      <3>1. from = table.sessions[previous].rotatedFrom
        BY <1>3, <2>2
      <3>2. from \notin Held(table') /\ origin'[from] # NoToken
        BY <1>1, <1>4, <1>5, <3>1
      <3>3. \A other \in Held(table') : table'.sessions[other].rotatedFrom = from => other = id
        BY <1>1, <1>5, <2>2, <3>1
      <3> QED
        BY <3>2, <3>3
    <2>3. CASE id # next
      <3>1. /\ id \in Held(table) \ {previous}
            /\ from = table.sessions[id].rotatedFrom
        BY <1>1, <2>3
      <3>2. from \notin Held(table') /\ origin'[from] # NoToken
        BY <1>1, <1>4, <1>5, <3>1
      <3>3. from # table'.sessions[next].rotatedFrom
        BY <1>3, <1>5, <3>1
      <3>4. \A other \in Held(table') : table'.sessions[other].rotatedFrom = from => other = id
        BY <1>1, <1>5, <3>1, <3>3
      <3> QED
        BY <3>2, <3>4
    <2> QED
      BY <2>1, <2>2, <2>3
  <1>10. HandoffLeadsHome'
    <2> SUFFICES ASSUME NEW id \in Held(table'), NEW from,
                        from = table'.sessions[id].rotatedFrom, from # NoToken,
                        origin'[from] = origin'[id],
                        ~(now - table'.sessions[id].created > Grace)
                 PROVE  /\ from \in DOMAIN table'.rotations
                        /\ table'.rotations[from]
                              = [to |-> id, at |-> table'.sessions[id].created]
      BY <1>1 DEF HandoffLeadsHome
    <2>1. CASE id = next /\ keep
      BY <1>3, <2>1
    <2>2. CASE id = next /\ ~keep
      <3>1. from = table.sessions[previous].rotatedFrom
        BY <1>3, <2>2
      <3> QED
        BY <1>1, <1>4, <1>5, <2>2, <3>1
    <2>3. CASE id # next
      <3>1. /\ id \in Held(table) \ {previous}
            /\ table'.sessions[id] = table.sessions[id]
            /\ from = table.sessions[id].rotatedFrom
        BY <1>1, <2>3
      <3>2. origin[from] = origin[id]
        BY <1>2, <1>4, <1>5, <3>1
      <3>3. /\ from \in DOMAIN table.rotations
            /\ table.rotations[from] = [to |-> id, at |-> table.sessions[id].created]
        BY <3>1, <3>2 DEF HandoffInv, HandoffLeadsHome
      <3>4. from # table.sessions[previous].rotatedFrom
        BY <1>5, <3>1
      <3> QED
        BY <1>3, <3>1, <3>3, <3>4
    <2> QED
      BY <2>1, <2>2, <2>3
  <1> QED
    BY <1>6, <1>8, <1>9, <1>10 DEF HandoffInv

\* Every handler keeps the chains apart and their hand-offs leading home.
THEOREM NextPreservesHandoffs == EdgeInv /\ HandoffInv /\ [Next]_vars => HandoffInv'
  <1> SUFFICES ASSUME EdgeInv, HandoffInv, [Next]_vars PROVE HandoffInv'
    OBVIOUS
  <1>1. CASE SomeTurn
    BY <1>1, TurnKeepsHandoffInv DEF SomeTurn
  <1>2. CASE SomeElevation
    BY <1>2, ElevateKeepsHandoffInv DEF SomeElevation
  <1>3. ASSUME UNCHANGED <<table, now, origin>> PROVE HandoffInv'
    BY <1>3 DEF HandoffInv, ChainsAreRooted, OneSessionPerChain, ReplacedOnce, HandoffLeadsHome
  <1>4. CASE \E b \in Browser, c \in Conn : Upgrade(b, c)
    BY <1>3, <1>4 DEF Upgrade
  <1>5. CASE \E c \in Conn : Disconnected(c)
    BY <1>3, <1>5 DEF Disconnected
  <1>6. CASE OnlyTimePasses
    <2>1. /\ table' = table
          /\ origin' = origin
          /\ now \in Nat
          /\ now' \in Nat
          /\ now' >= now
          /\ \A x \in Held(table) : table.sessions[x].created \in Nat
      BY <1>6 DEF OnlyTimePasses, EdgeInv, TypeOK, IsTable, Held, SessionRecord
    <2>2. ChainsAreRooted' /\ OneSessionPerChain' /\ ReplacedOnce'
      BY <2>1 DEF HandoffInv, ChainsAreRooted, OneSessionPerChain, ReplacedOnce
    <2>3. \A x \in Held(table) : now - table.sessions[x].created > Grace =>
                                     now' - table.sessions[x].created > Grace
      BY <2>1, TableAssumption
    <2>4. HandoffLeadsHome'
      BY <2>1, <2>3 DEF HandoffInv, HandoffLeadsHome
    <2> QED
      BY <2>2, <2>4 DEF HandoffInv
  <1> QED
    BY <1>1, <1>2, <1>4, <1>5, <1>6, StepShapes

\* No chain forks, every record replaced a credential of its own, and a hand-off leads to
\* the session its elevation made, in every reachable state of every edge.
THEOREM HandoffInvariant == Spec => []HandoffInv
  <1>1. Init => HandoffInv
    BY DEF Init, HandoffInv, ChainsAreRooted, OneSessionPerChain, ReplacedOnce,
           HandoffLeadsHome, Held, EmptyTable
  <1> QED
    BY <1>1, NextPreservesHandoffs, EdgeInvariant, PTL DEF Spec

\* Rotating a session never forks it.
THEOREM ChainsNeverFork == Spec => []OneSessionPerChain
  <1>1. HandoffInv => OneSessionPerChain
    BY DEF HandoffInv
  <1> QED
    BY <1>1, HandoffInvariant, PTL

\* A visitor elevated in a slot is handed the new credential at a page load within the
\* grace period, whatever was swept, evicted, revoked or elevated since.
THEOREM ElevationIsHandedOver == Spec => []ElevationReachesTheCookie
  <1>1. EdgeInv /\ HandoffInv => ElevationReachesTheCookie
    <2> SUFFICES ASSUME EdgeInv, HandoffInv, NEW id \in Held(table), NEW from,
                        from = table.sessions[id].rotatedFrom, from # NoToken,
                        origin[from] = origin[id], IsLive(table, id, now),
                        now - table.sessions[id].created =< Grace
                 PROVE  RotationOf(table, from, now) = id
      BY DEF ElevationReachesTheCookie
    <2>1. table.sessions[id].created \in Nat /\ now \in Nat
      BY DEF EdgeInv, TypeOK, IsTable, Held, SessionRecord
    <2>2. ~(now - table.sessions[id].created > Grace)
      BY <2>1, TableAssumption
    <2>3. /\ from \in DOMAIN table.rotations
          /\ table.rotations[from] = [to |-> id, at |-> table.sessions[id].created]
      BY <2>2 DEF HandoffInv, HandoffLeadsHome
    <2> QED
      BY <2>3 DEF RotationOf
  <1> QED
    BY <1>1, EdgeInvariant, HandoffInvariant, PTL

\* A hand-off keeps the clock it started on, however often the session rotates again.
THEOREM HandoffClocksAreKept == Spec => HandoffClockIsKept
  <1> DEFINE Kept == \A id \in DOMAIN table.rotations \cap DOMAIN table'.rotations :
                         table'.rotations[id].at = table.rotations[id].at
  <1>1. EdgeInv /\ [Next]_vars => [Kept]_vars
    <2> SUFFICES ASSUME EdgeInv, [Next]_vars PROVE Kept
      OBVIOUS
    <2>1. CASE SomeTurn
      BY <2>1 DEF SomeTurn, Turns, OnlyDropsHandoffs
    <2>2. CASE SomeElevation
      <3>1. PICK previous \in Held(table), next \in Fresh, scope \in Scope,
                 identity \in Identity, keep \in BOOLEAN :
                    Elevate(previous, next, scope, identity, keep)
        BY <2>2 DEF SomeElevation
      <3> QED
        BY <3>1, ElevateHandoffs DEF KeepsClocks
    <2>3. CASE table' = table
      BY <2>3
    <2> QED
      BY <2>1, <2>2, <2>3, StepShapes DEF Upgrade, Disconnected, OnlyTimePasses
  <1> QED
    BY <1>1, EdgeInvariant, PTL DEF Spec, HandoffClockIsKept

\* What hasRoom() promises before the sweep of createSession still holds after it, so the
\* device credential spent on the promise buys a session.
THEOREM RoomIsHonest == Spec => []HasRoomIsHonest
  <1>1. EdgeInv => HasRoomIsHonest
    BY RoomSurvivesTheSweep DEF EdgeInv, TypeOK, CeilingHolds, HasRoomIsHonest
  <1> QED
    BY <1>1, EdgeInvariant, PTL

--------------------------------------------------------------------------------
(***************************************************************************)
(* The edge implements SessionLifecycle.                                   *)
(***************************************************************************)
\* What ends and begins sessions in the edge is a turnover of their chains.
LEMMA TurnIsTurnover ==
    ASSUME EdgeInv, HandoffInv, NEW ended, NEW added, Turns(ended, added)
    PROVE  Lifecycle!LifecycleNext
  <1> DEFINE over == {origin[id] : id \in ended}
  <1>1. /\ ended \subseteq Held(table)
        /\ Held(table') = (Held(table) \ ended) \cup added
        /\ origin' = [t \in Token |-> IF t \in added THEN t ELSE origin[t]]
        /\ DropSessions(ended)
    BY DEF Turns
  <1>2. /\ added \subseteq {t \in Token : origin[t] = NoToken}
        /\ added \in {{}} \cup {{s} : s \in added}
    BY DEF Turns, Fresh
  <1>3. /\ origin \in [Token -> Token \cup {NoToken}]
        /\ Held(table) \subseteq Token
        /\ NoToken \notin Token
        /\ \A id \in Held(table) : /\ origin[id] \in Token
                                   /\ origin[origin[id]] = origin[id]
        /\ \A a, b \in Held(table) : origin[a] = origin[b] => a = b
    BY TableAssumption DEF EdgeInv, TypeOK, IsTable, Held, CredentialsAreMinted, HandoffInv,
                           ChainsAreRooted, OneSessionPerChain
  <1>4. \A t \in Token : origin'[t] = IF t \in added THEN t ELSE origin[t]
    BY <1>1
  <1>5. \A id \in Held(table) : id \notin added /\ origin[id] \notin added
                                /\ origin'[id] = origin[id]
    BY <1>2, <1>3, <1>4
  <1>6. \A s \in over : s \in Token /\ ChainStatus[s] = "alive"
    BY <1>1, <1>3 DEF ChainStatus
  <1>7. \A s \in added : ChainStatus[s] = "unborn"
    BY <1>2, <1>3 DEF ChainStatus
  <1>8. ChainStatus' = [s \in Token |-> IF s \in added THEN "alive"
                                        ELSE IF s \in over THEN "ended" ELSE ChainStatus[s]]
    <2>1. ASSUME NEW s \in Token
          PROVE  (IF origin'[s] # s THEN "unborn"
                  ELSE IF \E id \in Held(table') : origin'[id] = s THEN "alive" ELSE "ended")
                 = IF s \in added THEN "alive"
                   ELSE IF s \in over THEN "ended" ELSE ChainStatus[s]
      <3>1. CASE s \in added
        BY <1>1, <1>4, <3>1
      <3>2. CASE s \notin added /\ s \in over
        <4>1. origin'[s] = s
          BY <1>1, <1>3, <1>4, <3>2
        <4>2. ASSUME NEW id \in Held(table'), origin'[id] = s PROVE FALSE
          <5>1. CASE id \in added
            BY <1>2, <1>4, <3>2, <4>2, <5>1
          <5>2. CASE id \in Held(table) \ ended
            BY <1>1, <1>3, <1>5, <3>2, <4>2, <5>2
          <5> QED
            BY <1>1, <4>2, <5>1, <5>2
        <4> QED
          BY <3>2, <4>1, <4>2
      <3>3. CASE s \notin added /\ s \notin over
        <4>1. origin'[s] = origin[s]
          BY <1>4, <3>3
        <4>2. (\E id \in Held(table') : origin'[id] = s)
                  <=> (\E id \in Held(table) : origin[id] = s)
          <5>1. ASSUME NEW id \in Held(table'), origin'[id] = s
                PROVE  \E x \in Held(table) : origin[x] = s
            BY <1>1, <1>2, <1>4, <1>5, <3>3, <5>1
          <5>2. ASSUME NEW id \in Held(table), origin[id] = s
                PROVE  \E x \in Held(table') : origin'[x] = s
            BY <1>1, <1>5, <3>3, <5>2
          <5> QED
            BY <5>1, <5>2
        <4> QED
          BY <3>3, <4>1, <4>2 DEF ChainStatus
      <3> QED
        BY <3>1, <3>2, <3>3
    <2> HIDE DEF over
    <2> QED
      BY <2>1 DEF ChainStatus
  <1>9. ChainOfConnection' = [c \in Conn |-> IF ChainOfConnection[c] \in over THEN NoToken
                                             ELSE ChainOfConnection[c]]
    <2>1. ASSUME NEW c \in Conn
          PROVE  (IF conn'[c].phase = "open" THEN origin'[conn'[c].live] ELSE NoToken)
                 = IF ChainOfConnection[c] \in over THEN NoToken ELSE ChainOfConnection[c]
      <3>1. /\ conn'[c].live = conn[c].live
            /\ conn'[c].phase = IF conn[c].phase = "open" /\ conn[c].live \in ended
                                THEN "closing" ELSE conn[c].phase
        BY <1>1, DropEffect
      <3>2. CASE conn[c].phase = "open"
        <4>1. conn[c].live \in Held(table) /\ ChainOfConnection[c] = origin[conn[c].live]
          BY <3>2 DEF EdgeInv, NoConnectionOutlivesItsSession, Open, ChainOfConnection
        <4>2. conn[c].live \in ended <=> ChainOfConnection[c] \in over
          BY <1>1, <1>3, <4>1
        <4> QED
          BY <1>5, <3>1, <3>2, <4>1, <4>2
      <3>3. CASE conn[c].phase # "open"
        BY <3>1, <3>3 DEF ChainOfConnection
      <3> QED
        BY <3>2, <3>3
    <2> HIDE DEF over
    <2> QED
      BY <2>1 DEF ChainOfConnection
  <1>10. Lifecycle!Turnover(added, over)
    <2> HIDE DEF over
    <2> QED
      BY <1>8, <1>9 DEF Lifecycle!Turnover
  <1>11. over \in SUBSET Lifecycle!Alive /\ added \in {{}} \cup {{s} : s \in Lifecycle!Unborn}
    <2> HIDE DEF over
    <2> QED
      BY <1>2, <1>6, <1>7 DEF Lifecycle!Alive, Lifecycle!Unborn
  <1> HIDE DEF over
  <1> QED
    BY <1>10, <1>11 DEF Lifecycle!LifecycleNext

\* An elevation with a hand-off is nothing at all; one without it goes on as another
\* session, with the connections.
LEMMA ElevationIsReissueOrNothing ==
    ASSUME EdgeInv, HandoffInv, NEW previous \in Held(table), NEW next \in Fresh,
           NEW scope \in Scope, NEW identity \in Identity, NEW keep \in BOOLEAN,
           Elevate(previous, next, scope, identity, keep)
    PROVE  [Lifecycle!LifecycleNext]_<<ChainStatus, ChainOfConnection>>
  <1> DEFINE chain == origin[previous]
  <1>1. /\ next \in Token
        /\ previous \in Token
        /\ origin[next] = NoToken
        /\ Held(table') = (Held(table) \ {previous}) \cup {next}
        /\ BoundTo(previous) = {c \in Open : conn[c].live = previous}
        /\ \A c \in Conn :
              /\ conn'[c].phase = conn[c].phase
              /\ conn'[c].live = IF c \in BoundTo(previous) THEN next ELSE conn[c].live
        /\ origin'[next] = IF keep THEN origin[previous] ELSE next
        /\ \A x \in Token \ {next} : origin'[x] = origin[x]
    BY ElevateEffect
  <1>2. /\ Held(table) \subseteq Token
        /\ NoToken \notin Token
        /\ \A id \in Held(table) : /\ origin[id] \in Token
                                   /\ origin[origin[id]] = origin[id]
                                   /\ id # next
                                   /\ origin[id] # next
                                   /\ origin'[id] = origin[id]
        /\ \A a, b \in Held(table) : origin[a] = origin[b] => a = b
    BY <1>1, TableAssumption DEF EdgeInv, TypeOK, IsTable, Held, CredentialsAreMinted,
                                 HandoffInv, ChainsAreRooted, OneSessionPerChain
  <1>3. \A c \in Conn :
           /\ ChainOfConnection[c] = IF conn[c].phase = "open" THEN origin[conn[c].live]
                                     ELSE NoToken
           /\ conn[c].phase = "open" => conn[c].live \in Held(table)
           /\ c \in BoundTo(previous) <=> conn[c].phase = "open" /\ conn[c].live = previous
    BY <1>1 DEF ChainOfConnection, EdgeInv, NoConnectionOutlivesItsSession, Open
  <1>4. \A c \in Conn : (IF conn'[c].phase = "open" THEN origin'[conn'[c].live] ELSE NoToken)
                        = IF ChainOfConnection[c] = chain THEN origin'[next]
                          ELSE ChainOfConnection[c]
    BY <1>1, <1>2, <1>3
  <1>5. CASE keep
    <2>1. ASSUME NEW s \in Token
          PROVE  (IF origin'[s] # s THEN "unborn"
                  ELSE IF \E id \in Held(table') : origin'[id] = s THEN "alive" ELSE "ended")
                 = (IF origin[s] # s THEN "unborn"
                    ELSE IF \E id \in Held(table) : origin[id] = s THEN "alive" ELSE "ended")
      <3>1. origin'[s] = s <=> origin[s] = s
        BY <1>1, <1>2, <1>5
      <3>2. (\E id \in Held(table') : origin'[id] = s) <=> (\E id \in Held(table) : origin[id] = s)
        BY <1>1, <1>2, <1>5
      <3> QED
        BY <3>1, <3>2
    <2>2. ChainStatus' = ChainStatus
      BY <2>1 DEF ChainStatus
    <2>3. \A c \in Conn : (IF conn'[c].phase = "open" THEN origin'[conn'[c].live] ELSE NoToken)
                          = ChainOfConnection[c]
      BY <1>1, <1>4, <1>5
    <2>4. ChainOfConnection' = ChainOfConnection
      BY <2>3 DEF ChainOfConnection
    <2> QED
      BY <2>2, <2>4
  <1>6. CASE ~keep
    <2>1. chain \in Token /\ chain # next /\ ChainStatus[chain] = "alive"
      BY <1>2 DEF ChainStatus
    <2>2. ChainStatus[next] = "unborn"
      BY <1>1, <1>2 DEF ChainStatus
    <2>3. ASSUME NEW s \in Token
          PROVE  (IF origin'[s] # s THEN "unborn"
                  ELSE IF \E id \in Held(table') : origin'[id] = s THEN "alive" ELSE "ended")
                 = IF s = next THEN "alive" ELSE IF s = chain THEN "ended" ELSE ChainStatus[s]
      <3>1. CASE s = next
        BY <1>1, <1>6, <3>1
      <3>2. CASE s = chain
        <4>1. origin'[s] = s
          BY <1>1, <1>2, <2>1, <3>2
        <4>2. ~\E id \in Held(table') : origin'[id] = s
          BY <1>1, <1>2, <1>6, <2>1, <3>2
        <4> QED
          BY <2>1, <3>2, <4>1, <4>2
      <3>3. CASE s # next /\ s # chain
        <4>1. origin'[s] = origin[s]
          BY <1>1, <3>3
        <4>2. (\E id \in Held(table') : origin'[id] = s)
                  <=> (\E id \in Held(table) : origin[id] = s)
          BY <1>1, <1>2, <1>6, <3>3
        <4> QED
          BY <3>3, <4>1, <4>2 DEF ChainStatus
      <3> QED
        BY <3>1, <3>2, <3>3
    <2>4. ChainStatus' = [ChainStatus EXCEPT ![chain] = "ended", ![next] = "alive"]
      <3>1. ChainStatus' = [s \in Token |-> IF s = next THEN "alive"
                                            ELSE IF s = chain THEN "ended" ELSE ChainStatus[s]]
        <4> HIDE DEF chain
        <4> QED
          BY <2>3 DEF ChainStatus
      <3>2. ChainStatus = [s \in Token |-> ChainStatus[s]]
        BY DEF ChainStatus
      <3> HIDE DEF chain
      <3> QED
        BY <2>1, <3>1, <3>2
    <2>5. ChainOfConnection' = [c \in Conn |-> IF ChainOfConnection[c] = chain THEN next
                                               ELSE ChainOfConnection[c]]
      <3>1. \A c \in Conn :
               (IF conn'[c].phase = "open" THEN origin'[conn'[c].live] ELSE NoToken)
               = IF ChainOfConnection[c] = chain THEN next ELSE ChainOfConnection[c]
        BY <1>1, <1>4, <1>6
      <3> HIDE DEF chain
      <3> QED
        BY <3>1 DEF ChainOfConnection
    <2>6. Lifecycle!Reissue(chain, next)
      BY <2>4, <2>5 DEF Lifecycle!Reissue
    <2>7. chain \in Lifecycle!Alive /\ next \in Lifecycle!Unborn
      BY <1>1, <2>1, <2>2 DEF Lifecycle!Alive, Lifecycle!Unborn
    <2> HIDE DEF chain
    <2> QED
      BY <2>6, <2>7 DEF Lifecycle!LifecycleNext
  <1> QED
    BY <1>5, <1>6

\* An upgrade attaches a free connection to a living chain.
LEMMA UpgradeAttaches ==
    ASSUME EdgeInv, HandoffInv, NEW b \in Browser, NEW c \in Conn, Upgrade(b, c)
    PROVE  Lifecycle!LifecycleNext
  <1> DEFINE id == cookie[b]
  <1>1. /\ id \in Held(table)
        /\ conn[c].phase = "free"
        /\ conn' = [conn EXCEPT ![c] = [phase |-> "open", live |-> id]]
        /\ table' = table
        /\ origin' = origin
    BY DEF Upgrade, IsLive
  <1>2. /\ conn \in [Conn -> [phase : {"free", "open", "closing"},
                              live : Token \cup {NoToken}]]
        /\ id \in Token
        /\ origin[id] \in Token
        /\ origin[origin[id]] = origin[id]
    BY <1>1 DEF EdgeInv, TypeOK, IsTable, Held, CredentialsAreMinted, HandoffInv,
                ChainsAreRooted
  <1> HIDE DEF id
  <1>3. \A d \in Conn : conn'[d] = IF d = c THEN [phase |-> "open", live |-> id] ELSE conn[d]
    BY <1>1, <1>2
  <1>4. ChainStatus' = ChainStatus
    BY <1>1 DEF ChainStatus
  <1>5. ChainOfConnection[c] = NoToken
    BY <1>1 DEF ChainOfConnection
  <1>6. ChainOfConnection' = [ChainOfConnection EXCEPT ![c] = origin[id]]
    <2>1. \A d \in Conn : (IF conn'[d].phase = "open" THEN origin'[conn'[d].live] ELSE NoToken)
                          = IF d = c THEN origin[id] ELSE ChainOfConnection[d]
      BY <1>1, <1>3 DEF ChainOfConnection
    <2>2. ChainOfConnection' = [d \in Conn |-> IF d = c THEN origin[id]
                                               ELSE ChainOfConnection[d]]
      BY <2>1 DEF ChainOfConnection
    <2>3. ChainOfConnection = [d \in Conn |-> ChainOfConnection[d]]
      BY DEF ChainOfConnection
    <2> QED
      BY <2>2, <2>3
  <1>7. Lifecycle!Attach(c, origin[id])
    BY <1>4, <1>5, <1>6 DEF Lifecycle!Attach
  <1>8. origin[id] \in Lifecycle!Alive
    BY <1>1, <1>2 DEF Lifecycle!Alive, ChainStatus
  <1> QED
    BY <1>7, <1>8 DEF Lifecycle!LifecycleNext

\* The disconnected handler detaches its connection.
LEMMA DisconnectedDetaches ==
    ASSUME EdgeInv, NEW c \in Conn, Disconnected(c)
    PROVE  Lifecycle!LifecycleNext
  <1>1. /\ conn' = [conn EXCEPT ![c] = Free]
        /\ conn \in [Conn -> [phase : {"free", "open", "closing"},
                              live : Token \cup {NoToken}]]
        /\ table' = table
        /\ origin' = origin
    BY DEF Disconnected, EdgeInv, TypeOK
  <1>2. ChainStatus' = ChainStatus
    BY <1>1 DEF ChainStatus
  <1>3. \A d \in Conn : (IF conn'[d].phase = "open" THEN origin'[conn'[d].live] ELSE NoToken)
                        = IF d = c THEN NoToken ELSE ChainOfConnection[d]
    BY <1>1 DEF ChainOfConnection, Free
  <1>4. ChainOfConnection' = [d \in Conn |-> IF d = c THEN NoToken ELSE ChainOfConnection[d]]
    BY <1>3 DEF ChainOfConnection
  <1>5. ChainOfConnection = [d \in Conn |-> ChainOfConnection[d]]
    BY DEF ChainOfConnection
  <1>6. ChainOfConnection' = [ChainOfConnection EXCEPT ![c] = NoToken]
    BY <1>4, <1>5
  <1>7. Lifecycle!Detach(c)
    BY <1>2, <1>6 DEF Lifecycle!Detach
  <1> QED
    BY <1>7 DEF Lifecycle!LifecycleNext

\* Every step of every edge is a step of the lifecycle of sessions or is invisible there.
THEOREM EdgeImplementsLifecycle == Spec => ImplementsLifecycle
  <1>1. Init => Lifecycle!LifecycleInit
    <2> SUFFICES ASSUME Init PROVE Lifecycle!LifecycleInit
      OBVIOUS
    <2>1. ChainStatus = [s \in Token |-> "unborn"]
      BY TableAssumption DEF Init, ChainStatus
    <2>2. ChainOfConnection = [c \in Conn |-> NoToken]
      BY DEF Init, ChainOfConnection, Free
    <2> QED
      BY <2>1, <2>2 DEF Lifecycle!LifecycleInit
  <1>2. EdgeInv /\ HandoffInv /\ [Next]_vars
            => [Lifecycle!LifecycleNext]_<<ChainStatus, ChainOfConnection>>
    <2> SUFFICES ASSUME EdgeInv, HandoffInv, [Next]_vars
                 PROVE  [Lifecycle!LifecycleNext]_<<ChainStatus, ChainOfConnection>>
      OBVIOUS
    <2>1. CASE SomeTurn
      BY <2>1, TurnIsTurnover DEF SomeTurn
    <2>2. CASE SomeElevation
      BY <2>2, ElevationIsReissueOrNothing DEF SomeElevation
    <2>3. CASE \E b \in Browser, c \in Conn : Upgrade(b, c)
      BY <2>3, UpgradeAttaches
    <2>4. CASE \E c \in Conn : Disconnected(c)
      BY <2>4, DisconnectedDetaches
    <2>5. CASE OnlyTimePasses
      BY <2>5 DEF OnlyTimePasses, ChainStatus, ChainOfConnection
    <2> QED
      BY <2>1, <2>2, <2>3, <2>4, <2>5, StepShapes
  <1> QED
    BY <1>1, <1>2, EdgeInvariant, HandoffInvariant, PTL
       DEF Spec, ImplementsLifecycle, Lifecycle!LifecycleSpec, Lifecycle!lifecycleVars

--------------------------------------------------------------------------------
(***************************************************************************)
(* Sources.                                                                *)
(***************************************************************************)
\* The sessions some connection is bound to, closing connections included.
Bound == {conn[c].live : c \in {d \in Conn : conn[d].phase # "free"}}

\* The connections bound to a session are counted by a natural number, a session is bound
\* when there are any, and a credential nobody has drawn is not.
LEMMA BoundProperties ==
    ASSUME EdgeInv
    PROVE  /\ \A id : IsFiniteSet(BoundTo(id)) /\ Cardinality(BoundTo(id)) \in Nat
           /\ \A id : id \in Bound <=> BoundTo(id) # {}
           /\ Bound \subseteq Token
           /\ \A id \in Fresh : BoundTo(id) = {}
  <1>1. \A id : BoundTo(id) \in SUBSET Conn
    BY DEF BoundTo
  <1>2. \A id : IsFiniteSet(BoundTo(id)) /\ Cardinality(BoundTo(id)) \in Nat
    BY <1>1, FS_Subset, FS_CardinalityType, EdgeAssumption
  <1>3. \A id : id \in Bound <=> BoundTo(id) # {}
    BY DEF Bound, BoundTo
  <1>4. \A c \in Conn : conn[c].phase # "free" => /\ conn[c].live \in Token
                                                  /\ origin[conn[c].live] # NoToken
    <2> SUFFICES ASSUME NEW c \in Conn, conn[c].phase # "free"
                 PROVE  conn[c].live \in Token /\ origin[conn[c].live] # NoToken
      OBVIOUS
    <2>1. conn[c].phase = "open" \/ conn[c].phase = "closing"
      BY DEF EdgeInv, TypeOK
    <2>2. CASE conn[c].phase = "open"
      BY <2>2 DEF EdgeInv, NoConnectionOutlivesItsSession, Open, CredentialsAreMinted,
                  TypeOK, IsTable, Held
    <2>3. CASE conn[c].phase = "closing"
      BY <2>3 DEF EdgeInv, ClosingConnectionsAreOver
    <2> QED
      BY <2>1, <2>2, <2>3
  <1>5. Bound \subseteq Token /\ \A id \in Fresh : BoundTo(id) = {}
    BY <1>4 DEF Bound, BoundTo, Fresh
  <1> QED
    BY <1>2, <1>3, <1>5

\* Closing a connection frees nothing: it is still bound to its session.
LEMMA TurnKeepsCount ==
    ASSUME EdgeInv, SourcesAreCounted, NEW ended, NEW added, Turns(ended, added)
    PROVE  SourcesAreCounted'
  <1>1. ended \subseteq Held(table) /\ DropSessions(ended) /\ refs' = refs
    BY DEF Turns
  <1>2. \A c \in Conn : /\ conn'[c].live = conn[c].live
                        /\ conn'[c].phase # "free" <=> conn[c].phase # "free"
    BY <1>1, DropEffect
  <1>3. Bound' = Bound /\ \A id : BoundTo(id)' = BoundTo(id)
    BY <1>2 DEF Bound, BoundTo
  <1>4. refs = [id \in Bound |-> Cardinality(BoundTo(id))]
    BY DEF SourcesAreCounted, Bound
  <1>5. refs' = [id \in Bound' |-> Cardinality(BoundTo(id)')]
    BY <1>1, <1>3, <1>4
  <1> QED
    BY <1>5 DEF SourcesAreCounted, Bound

\* followRotation moves the count with the connections.
LEMMA ElevateKeepsCount ==
    ASSUME EdgeInv, SourcesAreCounted, NEW previous \in Held(table), NEW next \in Fresh,
           NEW scope \in Scope, NEW identity \in Identity, NEW keep \in BOOLEAN,
           Elevate(previous, next, scope, identity, keep)
    PROVE  SourcesAreCounted'
  <1> DEFINE movers == BoundTo(previous)
  <1>1. /\ previous # next
        /\ \A c \in Conn :
              /\ conn'[c].phase = conn[c].phase
              /\ conn'[c].live = IF c \in movers THEN next ELSE conn[c].live
    BY ElevateEffect
  <1>2. /\ BoundTo(next) = {}
        /\ \A id : id \in Bound <=> BoundTo(id) # {}
        /\ \A id : Cardinality(BoundTo(id)) \in Nat
    BY BoundProperties
  <1>3. refs = [id \in Bound |-> Cardinality(BoundTo(id))]
    BY DEF SourcesAreCounted, Bound
  <1>4. refs' = IF movers # {} /\ previous \in DOMAIN refs
                THEN Put(Without(refs, {previous}), next,
                         refs[previous] + IF next \in DOMAIN refs THEN refs[next] ELSE 0)
                ELSE refs
    BY DEF Elevate, FollowRotation
  <1>5. /\ BoundTo(next)' = movers
        /\ BoundTo(previous)' = {}
        /\ \A id : id # next /\ id # previous => BoundTo(id)' = BoundTo(id)
    BY <1>1, <1>2 DEF BoundTo
  <1>6. \A id : id \in Bound' <=> BoundTo(id)' # {}
    BY DEF Bound, BoundTo
  <1> HIDE DEF movers
  <1>7. refs' = [id \in Bound' |-> Cardinality(BoundTo(id)')]
    <2>1. CASE movers = {}
      <3>1. \A id : BoundTo(id)' = BoundTo(id)
        BY <1>2, <1>5, <2>1 DEF movers
      <3>2. Bound' = Bound
        BY <1>2, <1>6, <3>1
      <3> QED
        BY <1>3, <1>4, <2>1, <3>1, <3>2
    <2>2. CASE movers # {}
      <3>1. previous \in Bound /\ next \notin Bound
        BY <1>2, <2>2 DEF movers
      <3>2. Bound' = (Bound \ {previous}) \cup {next}
        BY <1>1, <1>2, <1>5, <1>6, <2>2
      <3>3. DOMAIN refs = Bound /\ refs[previous] = Cardinality(movers)
        BY <1>3, <3>1 DEF movers
      <3>4. Cardinality(movers) + 0 = Cardinality(movers)
        BY <1>2 DEF movers
      <3>5. refs' = Put(Without(refs, {previous}), next, Cardinality(movers))
        BY <1>4, <2>2, <3>1, <3>3, <3>4
      <3>6. refs' = [id \in Bound' |-> IF id = next THEN Cardinality(movers) ELSE refs[id]]
        BY <1>1, <3>2, <3>3, <3>5 DEF Put, Without
      <3>7. \A id \in Bound' : (IF id = next THEN Cardinality(movers) ELSE refs[id])
                               = Cardinality(BoundTo(id)')
        BY <1>1, <1>3, <1>5, <3>2
      <3> QED
        BY <3>6, <3>7
    <2> QED
      BY <2>1, <2>2
  <1> QED
    BY <1>7 DEF SourcesAreCounted, Bound

\* A new connection is one more on its session.
LEMMA UpgradeKeepsCount ==
    ASSUME EdgeInv, SourcesAreCounted, NEW b \in Browser, NEW c \in Conn, Upgrade(b, c)
    PROVE  SourcesAreCounted'
  <1>0. PICK id : id = cookie[b]
    OBVIOUS
  <1>1. /\ conn[c].phase = "free"
        /\ conn' = [conn EXCEPT ![c] = [phase |-> "open", live |-> id]]
        /\ refs' = Put(refs, id, 1 + IF id \in DOMAIN refs THEN refs[id] ELSE 0)
        /\ conn \in [Conn -> [phase : {"free", "open", "closing"},
                              live : Token \cup {NoToken}]]
    BY <1>0 DEF Upgrade, EdgeInv, TypeOK
  <1>2. \A d \in Conn : conn'[d] = IF d = c THEN [phase |-> "open", live |-> id] ELSE conn[d]
    BY <1>1
  <1>3. \A d \in Conn : /\ conn'[d].phase # "free" <=> d = c \/ conn[d].phase # "free"
                        /\ conn'[d].live = IF d = c THEN id ELSE conn[d].live
    BY <1>2
  <1>4. /\ BoundTo(id)' = BoundTo(id) \cup {c}
        /\ c \notin BoundTo(id)
        /\ \A x : x # id => BoundTo(x)' = BoundTo(x)
    BY <1>1, <1>3 DEF BoundTo
  <1>5. /\ IsFiniteSet(BoundTo(id))
        /\ Cardinality(BoundTo(id)) \in Nat
        /\ \A x : x \in Bound <=> BoundTo(x) # {}
    BY BoundProperties
  <1>6. Cardinality(BoundTo(id)') = Cardinality(BoundTo(id)) + 1
    BY <1>4, <1>5, FS_AddElement, SMTT(30)
  <1>7. Bound' = Bound \cup {id}
    <2>1. \A x : x \in Bound' <=> BoundTo(x)' # {}
      BY DEF Bound, BoundTo
    <2> QED
      BY <1>4, <1>5, <2>1
  <1>8. refs = [x \in Bound |-> Cardinality(BoundTo(x))]
    BY DEF SourcesAreCounted, Bound
  <1>9. (IF id \in DOMAIN refs THEN refs[id] ELSE 0) = Cardinality(BoundTo(id))
    BY <1>5, <1>8, FS_EmptySet
  <1>10. refs' = [x \in Bound' |-> IF x = id THEN 1 + Cardinality(BoundTo(id)) ELSE refs[x]]
    BY <1>1, <1>7, <1>8, <1>9 DEF Put
  <1>11. \A x \in Bound' : (IF x = id THEN 1 + Cardinality(BoundTo(id)) ELSE refs[x])
                           = Cardinality(BoundTo(x)')
    <2> TAKE x \in Bound'
    <2>1. CASE x = id
      BY <1>5, <1>6, <2>1
    <2>2. CASE x # id
      BY <1>4, <1>7, <1>8, <2>2
    <2> QED
      BY <2>1, <2>2
  <1>12. refs' = [x \in Bound' |-> Cardinality(BoundTo(x)')]
    BY <1>10, <1>11
  <1> QED
    BY <1>12 DEF SourcesAreCounted, Bound

\* A connection that goes away is one less, and the last one takes the Sources with it.
LEMMA DisconnectedKeepsCount ==
    ASSUME EdgeInv, SourcesAreCounted, NEW c \in Conn, Disconnected(c)
    PROVE  SourcesAreCounted'
  <1>0. PICK id : id = conn[c].live
    OBVIOUS
  <1>1. /\ conn[c].phase # "free"
        /\ conn' = [conn EXCEPT ![c] = Free]
        /\ refs' = IF id \notin DOMAIN refs THEN refs
                   ELSE IF refs[id] > 1 THEN [refs EXCEPT ![id] = @ - 1]
                   ELSE Without(refs, {id})
        /\ conn \in [Conn -> [phase : {"free", "open", "closing"},
                              live : Token \cup {NoToken}]]
    BY <1>0 DEF Disconnected, EdgeInv, TypeOK
  <1>2. \A d \in Conn : conn'[d] = IF d = c THEN Free ELSE conn[d]
    BY <1>1
  <1>3. \A d \in Conn : /\ conn'[d].phase # "free" <=> d # c /\ conn[d].phase # "free"
                        /\ d # c => conn'[d].live = conn[d].live
    BY <1>2 DEF Free
  <1>4. /\ BoundTo(id)' = BoundTo(id) \ {c}
        /\ c \in BoundTo(id)
        /\ \A x : x # id => BoundTo(x)' = BoundTo(x)
    BY <1>0, <1>1, <1>3 DEF BoundTo
  <1>5. /\ IsFiniteSet(BoundTo(id))
        /\ Cardinality(BoundTo(id)) \in Nat
        /\ \A x : x \in Bound <=> BoundTo(x) # {}
    BY BoundProperties
  <1>6. /\ IsFiniteSet(BoundTo(id)')
        /\ Cardinality(BoundTo(id)') = Cardinality(BoundTo(id)) - 1
    BY <1>4, <1>5, FS_RemoveElement
  <1>7. \A x : x \in Bound' <=> BoundTo(x)' # {}
    BY DEF Bound, BoundTo
  <1>8. /\ refs = [x \in Bound |-> Cardinality(BoundTo(x))]
        /\ id \in Bound
        /\ refs[id] = Cardinality(BoundTo(id))
    BY <1>4, <1>5 DEF SourcesAreCounted, Bound
  <1>9. Cardinality(BoundTo(id)') = 0 <=> BoundTo(id)' = {}
    BY <1>6, FS_EmptySet
  <1>10. CASE refs[id] > 1
    <2>1. BoundTo(id)' # {}
      BY <1>5, <1>6, <1>8, <1>9, <1>10
    <2>2. Bound' = Bound
      BY <1>4, <1>5, <1>7, <2>1
    <2>3. refs' = [x \in Bound' |-> IF x = id THEN refs[id] - 1 ELSE refs[x]]
      BY <1>1, <1>8, <1>10, <2>2
    <2>4. \A x \in Bound' : (IF x = id THEN refs[id] - 1 ELSE refs[x])
                            = Cardinality(BoundTo(x)')
      BY <1>4, <1>6, <1>8, <2>2
    <2>5. refs' = [x \in Bound' |-> Cardinality(BoundTo(x)')]
      BY <2>3, <2>4
    <2> QED
      BY <2>5 DEF SourcesAreCounted, Bound
  <1>11. CASE ~(refs[id] > 1)
    <2>1. BoundTo(id)' = {}
      <3>1. Cardinality(BoundTo(id)) # 0
        BY <1>4, <1>5, FS_EmptySet
      <3> QED
        BY <1>5, <1>6, <1>8, <1>9, <1>11, <3>1
    <2>2. Bound' = Bound \ {id}
      BY <1>4, <1>5, <1>7, <2>1
    <2>3. refs' = [x \in Bound' |-> refs[x]]
      BY <1>1, <1>8, <1>11, <2>2 DEF Without
    <2>4. \A x \in Bound' : refs[x] = Cardinality(BoundTo(x)')
      BY <1>4, <1>8, <2>2
    <2>5. refs' = [x \in Bound' |-> Cardinality(BoundTo(x)')]
      BY <2>3, <2>4
    <2> QED
      BY <2>5 DEF SourcesAreCounted, Bound
  <1> QED
    BY <1>10, <1>11

\* The Sources of a session are counted by the connections bound to it, through upgrades,
\* rotations, closes and late disconnects, in every reachable state of every edge.
THEOREM SourcesFollowConnections == Spec => []SourcesAreCounted
  <1>1. Init => SourcesAreCounted
    <2> SUFFICES ASSUME Init PROVE SourcesAreCounted
      OBVIOUS
    <2>1. Bound = {} /\ refs = [x \in {} |-> x]
      BY DEF Init, Bound, Free
    <2>2. refs = [id \in Bound |-> Cardinality(BoundTo(id))]
      BY <2>1
    <2> QED
      BY <2>2 DEF SourcesAreCounted, Bound
  <1>2. EdgeInv /\ SourcesAreCounted /\ [Next]_vars => SourcesAreCounted'
    <2> SUFFICES ASSUME EdgeInv, SourcesAreCounted, [Next]_vars PROVE SourcesAreCounted'
      OBVIOUS
    <2>1. CASE SomeTurn
      BY <2>1, TurnKeepsCount DEF SomeTurn
    <2>2. CASE SomeElevation
      BY <2>2, ElevateKeepsCount DEF SomeElevation
    <2>3. CASE \E b \in Browser, c \in Conn : Upgrade(b, c)
      BY <2>3, UpgradeKeepsCount
    <2>4. CASE \E c \in Conn : Disconnected(c)
      BY <2>4, DisconnectedKeepsCount
    <2>5. CASE OnlyTimePasses
      BY <2>5 DEF OnlyTimePasses, SourcesAreCounted, BoundTo
    <2> QED
      BY <2>1, <2>2, <2>3, <2>4, <2>5, StepShapes
  <1> QED
    BY <1>1, <1>2, EdgeInvariant, PTL DEF Spec

================================================================================
