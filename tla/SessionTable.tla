------------------------------ MODULE SessionTable ------------------------------
(***************************************************************************)
(* The session table kept by SessionManager                                *)
(* (src/src/service/sessionmanager.{h,cpp}): the records, the expiry       *)
(* queue of hints and the hand-offs ("rotations") that a rotated-away      *)
(* credential leaves behind.  The table is a VALUE here and every method   *)
(* that changes it is an operator on that value, so that one edge          *)
(* (EdgeSessions) and several edges behind one auth entity                 *)
(* (SessionReplication) run the same code, as they do in the program.      *)
(*                                                                         *)
(*   t.sessions    m_sessions     credential -> record                     *)
(*   t.queue       m_expiryQueue  <<created, id>> hints, insertion order   *)
(*   t.rotations   m_rotations    old credential -> successor and when     *)
(*                                                                         *)
(* A credential is a member of Token: the code draws 256 random bits, the  *)
(* model draws a token nobody has used.  An identity is a user or Nobody   *)
(* (the empty QVariantMap).  Milliseconds are natural numbers.             *)
(***************************************************************************)
EXTENDS Integers, Sequences, FiniteSets, SequencesExt

CONSTANTS
    Token,          \* session credentials
    NoToken,        \* the empty credential
    Scope,          \* the scope vocabulary
    DefaultScope,   \* m_defaultScope
    User,           \* identities a login can prove
    Nobody,         \* the empty identity
    Ttl,            \* m_ttlMs; 0 is "no TTL"
    Grace,          \* RotationGraceMs
    MaxSessions,    \* m_maximumSessions; 0 is "no ceiling"
    SearchDepth     \* EvictionSearchDepth

ASSUME TableAssumption ==
    /\ IsFiniteSet(Token)
    /\ NoToken \notin Token
    /\ DefaultScope \in Scope
    /\ Nobody \notin User
    /\ Ttl \in Nat
    /\ Grace \in Nat
    /\ MaxSessions \in Nat
    /\ SearchDepth \in Nat \ {0}

Identity == User \cup {Nobody}
SessionRecord == [scope : Scope, identity : Identity, created : Nat,
                  rotatedFrom : Token \cup {NoToken}]
Rotation == [to : Token, at : Nat]
Hint == [created : Nat, id : Token]

\* What a table is made of, for the type invariants.
IsTable(t) ==
    /\ DOMAIN t.sessions \subseteq Token
    /\ t.sessions \in [DOMAIN t.sessions -> SessionRecord]
    /\ t.queue \in Seq(Hint)
    /\ DOMAIN t.rotations \subseteq Token
    /\ t.rotations \in [DOMAIN t.rotations -> Rotation]
    /\ t = [sessions |-> t.sessions, queue |-> t.queue, rotations |-> t.rotations]

EmptyTable == [sessions |-> [x \in {} |-> x], queue |-> <<>>, rotations |-> [x \in {} |-> x]]

\* f with k mapped to v, and f without the keys in S: QHash::insert and remove.
Put(f, k, v) == [x \in DOMAIN f \cup {k} |-> IF x = k THEN v ELSE f[x]]
Without(f, S) == [x \in DOMAIN f \ S |-> f[x]]

(***************************************************************************)
(* Reading the table.                                                      *)
(***************************************************************************)
Held(t) == DOMAIN t.sessions

Expired(created, now) == Ttl > 0 /\ now - created > Ttl

\* lookup() found something.
IsLive(t, id, now) == id \in Held(t) /\ ~Expired(t.sessions[id].created, now)

\* The successor a rotated-away credential may still be exchanged for.
RotationOf(t, id, now) ==
    IF /\ id \in DOMAIN t.rotations
       /\ now - t.rotations[id].at =< Grace
       /\ IsLive(t, t.rotations[id].to, now)
    THEN t.rotations[id].to
    ELSE NoToken

\* A hint still names the record it was written for.
Matches(t, hint) == hint.id \in Held(t) /\ t.sessions[hint.id].created = hint.created

\* Mutant: eviction does not ask whether the session is in use.
IsEvictable_Unasked(t, id, inUse) ==
    /\ t.sessions[id].identity = Nobody
    /\ t.sessions[id].scope = DefaultScope

\* Anonymous, at the default scope, and no connection on it.
IsEvictable(t, id, inUse) ==
    /\ t.sessions[id].identity = Nobody
    /\ t.sessions[id].scope = DefaultScope
    /\ id \notin inUse

\* Every record has a hint that matches it, whenever hints are kept at all.
EveryRecordHinted(t) ==
    Ttl > 0 => \A id \in Held(t) :
        \E i \in 1..Len(t.queue) : t.queue[i].id = id /\ Matches(t, t.queue[i])

\* The table is within its ceiling.
WithinCeiling(t) == MaxSessions > 0 => Cardinality(Held(t)) =< MaxSessions

AtCeiling(t) == MaxSessions > 0 /\ Cardinality(Held(t)) >= MaxSessions

\* The hints the eviction scan would stop at, oldest first.
EvictableHints(t, inUse) ==
    {i \in 1..Len(t.queue) : /\ i =< SearchDepth
                             /\ Matches(t, t.queue[i])
                             /\ IsEvictable(t, t.queue[i].id, inUse)}

HasRoom(t, inUse) == AtCeiling(t) => EvictableHints(t, inUse) # {}

(***************************************************************************)
(* Changing the table.                                                     *)
(***************************************************************************)
\* Erase records; each takes the hand-off that led to it (dropRotationTo).
Forget(t, ids) ==
    [sessions  |-> Without(t.sessions, ids),
     queue     |-> t.queue,
     rotations |-> Without(t.rotations, {t.sessions[id].rotatedFrom : id \in ids})]

\* trackExpiry: without a TTL the queue is kept empty.
TrackExpiry(queue, id, created) ==
    IF Ttl > 0 THEN Append(queue, [created |-> created, id |-> id]) ELSE queue

Insert(t, id, record) ==
    [sessions  |-> Put(t.sessions, id, record),
     queue     |-> TrackExpiry(t.queue, id, record.created),
     rotations |-> t.rotations]

\* How many hints the sweep drains: the front, up to the first one still live.
Drained(queue, now) ==
    LET fresh == {i \in 1..Len(queue) : ~Expired(queue[i].created, now)}
    IN  IF fresh = {} THEN Len(queue) ELSE Min(fresh) - 1

\* The sessions a sweep reclaims.
Reclaimed(t, now) ==
    {id \in Held(t) : \E i \in 1..Drained(t.queue, now) :
                          t.queue[i].id = id /\ Matches(t, t.queue[i])}

\* Mutant: the window is off by one.
KeptRotations_OffByOne(t, now) ==
    {id \in DOMAIN t.rotations : /\ now - t.rotations[id].at < Grace
                                 /\ t.rotations[id].to \in Held(t)}
\* The sweep's first half: hand-offs out of their window, or leading nowhere.
KeptRotations(t, now) ==
    {id \in DOMAIN t.rotations : /\ now - t.rotations[id].at =< Grace
                                 /\ t.rotations[id].to \in Held(t)}

PurgeExpired(t, now) ==
    LET swept == [sessions  |-> t.sessions,
                  queue     |-> SubSeq(t.queue, Drained(t.queue, now) + 1, Len(t.queue)),
                  rotations |-> Restrict(t.rotations, KeptRotations(t, now))]
    IN  Forget(swept, Reclaimed(t, now))

\* The oldest session nobody would miss, and the table without it.
Victim(t, inUse) == t.queue[Min(EvictableHints(t, inUse))].id
EvictOne(t, inUse) ==
    LET unhinted == [sessions  |-> t.sessions,
                     queue     |-> RemoveAt(t.queue, Min(EvictableHints(t, inUse))),
                     rotations |-> t.rotations]
    IN  Forget(unhinted, {Victim(t, inUse)})

(***************************************************************************)
(* createSession: purge, make room, insert.  The outcome names what was    *)
(* swept and what was evicted, because each is announced by a signal of    *)
(* its own; a refusal keeps the sweep's effect.                            *)
(***************************************************************************)
CreateSession(t, id, scope, identity, now, inUse) ==
    LET swept    == PurgeExpired(t, now)
        expired  == Reclaimed(t, now)
        admitted == HasRoom(swept, inUse)
        evicts   == AtCeiling(swept) /\ admitted
        roomy    == IF evicts THEN EvictOne(swept, inUse) ELSE swept
    IN  [ok      |-> admitted,
         expired |-> expired,
         evicted |-> IF evicts THEN {Victim(swept, inUse)} ELSE {},
         table   |-> IF admitted
                     THEN Insert(roomy, id,
                                 [scope |-> scope, identity |-> identity,
                                  created |-> now, rotatedFrom |-> NoToken])
                     ELSE roomy]

(***************************************************************************)
(* Mutants of setScope: the new record gets no hint; the old record stays; *)
(* a hand-off moved along restarts its clock; a caller that passes no      *)
(* identity erases the one the session has.                                *)
(***************************************************************************)
Elevated(t, previous, scope, identity, keep, created) ==
    [scope |-> scope, created |-> created,
     identity |-> IF identity = Nobody THEN t.sessions[previous].identity ELSE identity,
     rotatedFrom |-> IF keep THEN previous ELSE t.sessions[previous].rotatedFrom]

\* Mutant: the new record is not queued for the sweep.
SetScope_NoHint(t, previous, next, scope, identity, keep, now) ==
    [sessions  |-> Put(Without(t.sessions, {previous}), next,
                       Elevated(t, previous, scope, identity, keep, now)),
     queue     |-> t.queue,
     rotations |-> IF keep THEN Put(t.rotations, previous, [to |-> next, at |-> now])
                           ELSE t.rotations]

(***************************************************************************)
(* setScope on a credential the table holds: the record moves to a new     *)
(* credential.  With keep (Handoff::Keep) the old credential is remembered *)
(* as leading to the new one, and the hand-off that led to the old one,    *)
(* if the record remembers it, is moved along without a new clock.         *)
(***************************************************************************)
SetScope(t, previous, next, scope, identity, keep, now) ==
    LET was    == t.sessions[previous]
        record == [scope |-> scope,
                   identity |-> IF identity = Nobody THEN was.identity ELSE identity,
                   created |-> now,
                   rotatedFrom |-> IF keep THEN previous ELSE was.rotatedFrom]
        linked == Put(t.rotations, previous, [to |-> next, at |-> now])
        moved  == [sessions  |-> Without(t.sessions, {previous}),
                   queue     |-> t.queue,
                   rotations |-> IF ~keep THEN t.rotations
                                 ELSE IF was.rotatedFrom \in DOMAIN linked
                                 THEN Put(linked, was.rotatedFrom,
                                          [to |-> next, at |-> linked[was.rotatedFrom].at])
                                 ELSE linked]
    IN  Insert(moved, next, record)

================================================================================
