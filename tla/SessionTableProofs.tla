--------------------------- MODULE SessionTableProofs ---------------------------
(***************************************************************************)
(* What each operation of the session table returns, proved once for every *)
(* value of the constants and cited by the proofs about one edge.          *)
(***************************************************************************)
EXTENDS SessionTable, TLAPS, FiniteSetTheorems, SequenceTheorems, WellFoundedInduction

\* A non-empty set of natural numbers has a least element, and Min finds it.  The
\* element is the one whose interval 1..n is minimal for strict inclusion.
LEMMA MinProperties ==
    ASSUME NEW S, S \subseteq Nat, S # {}
    PROVE  Min(S) \in S /\ \A y \in S : Min(S) =< y
  <1> DEFINE R == StrictSubsetOrdering(Nat)
             T == {1..n : n \in S}
  <1>1. T \subseteq FiniteSubsetsOf(Nat)
    <2>1. \A n \in S : IsFiniteSet(1..n)
      BY FS_Interval
    <2> QED
      BY <2>1 DEF FiniteSubsetsOf
  <1>2. IsWellFoundedOn(R, FiniteSubsetsOf(Nat))
    BY FS_StrictSubsetOrderingWellFounded
  <1>3. PICK X \in T : \A Y \in T : ~ (<<Y, X>> \in R)
    <2>1. T # {}
      OBVIOUS
    <2> HIDE DEF R, T
    <2> QED
      BY <1>1, <1>2, <2>1, WFMin
  <1>4. PICK x \in S : X = 1..x
    BY <1>3
  <1>5. \A y \in S : x =< y
    <2> SUFFICES ASSUME NEW y \in S, y < x
                 PROVE  FALSE
      OBVIOUS
    <2>1. 1..y \in T /\ 1..y \subseteq 1..x /\ x \in 1..x /\ x \notin 1..y
      OBVIOUS
    <2>2. 1..y \in SUBSET Nat /\ 1..x \in SUBSET Nat
      OBVIOUS
    <2>3. 1..y # 1..x
      BY <2>1
    <2>4. <<1..y, 1..x>> \in R
      BY <2>1, <2>2, <2>3 DEF StrictSubsetOrdering
    <2> QED
      BY <1>3, <1>4, <2>1, <2>4
  <1> QED
    BY <1>5 DEF Min

\* Erasing records erases nothing else, and drops hand-offs only.
LEMMA ForgetProperties ==
    ASSUME NEW t, IsTable(t), NEW ids, ids \subseteq Held(t)
    PROVE  /\ IsTable(Forget(t, ids))
           /\ Held(Forget(t, ids)) = Held(t) \ ids
           /\ Forget(t, ids).queue = t.queue
           /\ DOMAIN Forget(t, ids).rotations \subseteq DOMAIN t.rotations
           /\ \A id \in Held(t) \ ids : Forget(t, ids).sessions[id] = t.sessions[id]
  BY DEF Forget, Without, Held, IsTable

\* trackExpiry appends the hint of the record, or does nothing without a TTL.
LEMMA TrackExpiryProperties ==
    ASSUME NEW q \in Seq(Hint), NEW id \in Token, NEW created \in Nat
    PROVE  /\ TrackExpiry(q, id, created) \in Seq(Hint)
           /\ Len(TrackExpiry(q, id, created)) >= Len(q)
           /\ \A i \in 1..Len(q) : TrackExpiry(q, id, created)[i] = q[i]
           /\ Ttl > 0 => /\ Len(TrackExpiry(q, id, created)) = Len(q) + 1
                         /\ TrackExpiry(q, id, created)[Len(q) + 1]
                               = [created |-> created, id |-> id]
  <1> DEFINE hint == [created |-> created, id |-> id]
  <1>1. hint \in Hint
    BY DEF Hint
  <1> HIDE DEF hint
  <1>2. /\ Append(q, hint) \in Seq(Hint)
        /\ Len(Append(q, hint)) = Len(q) + 1
        /\ \A i \in 1..Len(q) : Append(q, hint)[i] = q[i]
        /\ Append(q, hint)[Len(q) + 1] = hint
    BY <1>1
  <1>3. TrackExpiry(q, id, created) = IF Ttl > 0 THEN Append(q, hint) ELSE q
    BY DEF TrackExpiry, hint
  <1> QED
    BY <1>2, <1>3, TableAssumption DEF hint

\* insert adds one record under its credential and leaves the others and the hand-offs.
LEMMA InsertProperties ==
    ASSUME NEW t, IsTable(t), NEW id \in Token, NEW record \in SessionRecord
    PROVE  /\ IsTable(Insert(t, id, record))
           /\ Held(Insert(t, id, record)) = Held(t) \cup {id}
           /\ Insert(t, id, record).rotations = t.rotations
           /\ Insert(t, id, record).queue = TrackExpiry(t.queue, id, record.created)
           /\ Insert(t, id, record).sessions[id] = record
           /\ \A x \in Held(t) \ {id} : Insert(t, id, record).sessions[x] = t.sessions[x]
  <1>1. record.created \in Nat
    BY DEF SessionRecord
  <1>2. TrackExpiry(t.queue, id, record.created) \in Seq(Hint)
    BY <1>1, TrackExpiryProperties DEF IsTable
  <1> QED
    BY <1>2 DEF Insert, Put, Held, IsTable

\* A record is inserted with its hint, behind those of the others.
LEMMA InsertPreservesHints ==
    ASSUME NEW t, IsTable(t), NEW id \in Token, id \notin Held(t),
           NEW record \in SessionRecord, EveryRecordHinted(t)
    PROVE  EveryRecordHinted(Insert(t, id, record))
  <1> DEFINE u == Insert(t, id, record)
  <1> SUFFICES ASSUME Ttl > 0, NEW x \in Held(u)
               PROVE  \E i \in 1..Len(u.queue) : u.queue[i].id = x /\ Matches(u, u.queue[i])
    BY DEF EveryRecordHinted
  <1>1. record.created \in Nat
    BY DEF SessionRecord
  <1>2. /\ Held(u) = Held(t) \cup {id}
        /\ u.queue = TrackExpiry(t.queue, id, record.created)
        /\ u.sessions[id] = record
        /\ \A y \in Held(t) \ {id} : u.sessions[y] = t.sessions[y]
    BY InsertProperties
  <1> HIDE DEF u
  <1>3. /\ Len(u.queue) = Len(t.queue) + 1
        /\ \A i \in 1..Len(t.queue) : u.queue[i] = t.queue[i]
        /\ u.queue[Len(t.queue) + 1] = [created |-> record.created, id |-> id]
    BY <1>1, <1>2, TrackExpiryProperties DEF IsTable
  <1>4. Len(t.queue) \in Nat
    BY DEF IsTable
  <1>5. CASE x = id
    <2>1. Len(t.queue) + 1 \in 1..Len(u.queue)
      BY <1>3, <1>4
    <2> QED
      BY <1>2, <1>3, <1>5, <2>1 DEF Matches
  <1>6. CASE x # id
    <2>1. PICK i \in 1..Len(t.queue) : t.queue[i].id = x /\ Matches(t, t.queue[i])
      BY <1>2, <1>6 DEF EveryRecordHinted
    <2>2. i \in 1..Len(u.queue) /\ u.queue[i] = t.queue[i]
      BY <1>3, <1>4, <2>1
    <2> QED
      BY <1>2, <1>6, <2>1, <2>2 DEF Matches
  <1> QED
    BY <1>5, <1>6

\* The sweep drains a prefix of the queue, all of it past the TTL, and stops only at a
\* hint that is not.
LEMMA DrainedProperties ==
    ASSUME NEW q \in Seq(Hint), NEW now \in Nat
    PROVE  /\ Drained(q, now) \in 0..Len(q)
           /\ \A i \in 1..Drained(q, now) : Expired(q[i].created, now)
           /\ Drained(q, now) < Len(q) => ~Expired(q[Drained(q, now) + 1].created, now)
  <1> DEFINE fresh == {i \in 1..Len(q) : ~Expired(q[i].created, now)}
  <1>1. CASE fresh = {}
    BY <1>1 DEF Drained
  <1>2. CASE fresh # {}
    <2>0. fresh \subseteq Nat
      OBVIOUS
    <2> HIDE DEF fresh
    <2>1. Min(fresh) \in fresh /\ \A y \in fresh : Min(fresh) =< y
      BY <1>2, <2>0, MinProperties
    <2>2. Drained(q, now) = Min(fresh) - 1
      BY <1>2 DEF Drained, fresh
    <2>3. Min(fresh) \in 1..Len(q) /\ ~Expired(q[Min(fresh)].created, now)
      BY <2>1 DEF fresh
    <2>4. \A i \in 1..Len(q) : i < Min(fresh) => Expired(q[i].created, now)
      BY <2>1, <2>3 DEF fresh
    <2> HIDE DEF fresh
    <2> QED
      BY <2>2, <2>3, <2>4
  <1> QED
    BY <1>1, <1>2

\* purgeExpired takes the reclaimed records and the drained hints, and adds no hand-off.
LEMMA PurgeProperties ==
    ASSUME NEW t, IsTable(t), NEW now \in Nat
    PROVE  /\ IsTable(PurgeExpired(t, now))
           /\ Reclaimed(t, now) \subseteq Held(t)
           /\ Held(PurgeExpired(t, now)) = Held(t) \ Reclaimed(t, now)
           /\ PurgeExpired(t, now).queue
                 = SubSeq(t.queue, Drained(t.queue, now) + 1, Len(t.queue))
           /\ DOMAIN PurgeExpired(t, now).rotations \subseteq DOMAIN t.rotations
           /\ \A id \in Held(PurgeExpired(t, now)) :
                 PurgeExpired(t, now).sessions[id] = t.sessions[id]
  <1> DEFINE kept  == Restrict(t.rotations, KeptRotations(t, now))
             queue == SubSeq(t.queue, Drained(t.queue, now) + 1, Len(t.queue))
             swept == [sessions |-> t.sessions, queue |-> queue, rotations |-> kept]
  <1>1. Drained(t.queue, now) \in 0..Len(t.queue)
    BY DrainedProperties DEF IsTable
  <1>2. queue \in Seq(Hint)
    <2>1. \A i \in (Drained(t.queue, now) + 1)..Len(t.queue) : t.queue[i] \in Hint
      BY <1>1 DEF IsTable
    <2> QED
      BY <1>1, <2>1, SubSeqProperties DEF IsTable
  <1>3. /\ DOMAIN kept \subseteq DOMAIN t.rotations
        /\ kept \in [DOMAIN kept -> Rotation]
    BY DEF Restrict, KeptRotations, IsTable
  <1>4. IsTable(swept)
    BY <1>2, <1>3 DEF IsTable
  <1>5. Reclaimed(t, now) \subseteq Held(t) /\ Held(swept) = Held(t)
    BY DEF Reclaimed, Held
  <1>6. PurgeExpired(t, now) = Forget(swept, Reclaimed(t, now))
    BY DEF PurgeExpired
  <1> HIDE DEF swept
  <1>7. /\ IsTable(PurgeExpired(t, now))
        /\ Held(PurgeExpired(t, now)) = Held(t) \ Reclaimed(t, now)
        /\ PurgeExpired(t, now).queue = swept.queue
        /\ DOMAIN PurgeExpired(t, now).rotations \subseteq DOMAIN swept.rotations
        /\ \A id \in Held(t) \ Reclaimed(t, now) :
              PurgeExpired(t, now).sessions[id] = swept.sessions[id]
    BY <1>4, <1>5, <1>6, ForgetProperties
  <1> QED
    BY <1>3, <1>5, <1>7 DEF swept

\* purgeExpired leaves every remaining record with its hint, and the table no larger.
LEMMA PurgePreserves ==
    ASSUME NEW t, IsTable(t), NEW now \in Nat
    PROVE  /\ EveryRecordHinted(t) => EveryRecordHinted(PurgeExpired(t, now))
           /\ WithinCeiling(t) => WithinCeiling(PurgeExpired(t, now))
  <1> DEFINE u == PurgeExpired(t, now)
             n == Drained(t.queue, now)
  <1>1. /\ IsTable(u)
        /\ Held(u) = Held(t) \ Reclaimed(t, now)
        /\ u.queue = SubSeq(t.queue, n + 1, Len(t.queue))
        /\ \A id \in Held(u) : u.sessions[id] = t.sessions[id]
    BY PurgeProperties
  <1>2. n \in 0..Len(t.queue)
    BY DrainedProperties DEF IsTable
  <1>3. ASSUME Ttl > 0, EveryRecordHinted(t), NEW id \in Held(u)
        PROVE  \E i \in 1..Len(u.queue) : u.queue[i].id = id /\ Matches(u, u.queue[i])
    <2>1. PICK i \in 1..Len(t.queue) : t.queue[i].id = id /\ Matches(t, t.queue[i])
      BY <1>1, <1>3 DEF EveryRecordHinted
    <2>2. i > n
      BY <1>1, <1>2, <1>3, <2>1 DEF Reclaimed, IsTable
    <2>3. \A j \in (n + 1)..Len(t.queue) : t.queue[j] \in Hint
      BY <1>2 DEF IsTable
    <2>4. /\ Len(u.queue) = Len(t.queue) - n
          /\ u.queue[i - n] = t.queue[i]
      BY <1>1, <1>2, <2>2, <2>3, SubSeqProperties DEF IsTable
    <2>5. i - n \in 1..Len(u.queue)
      BY <1>2, <2>2, <2>4 DEF IsTable
    <2> QED
      BY <1>1, <1>3, <2>1, <2>4, <2>5, ZenonT(60) DEF Matches
  <1>4. IsFiniteSet(Held(t)) /\ Cardinality(Held(u)) =< Cardinality(Held(t))
    BY <1>1, FS_Subset, TableAssumption DEF IsTable, Held
  <1>5. Cardinality(Held(u)) \in Nat /\ Cardinality(Held(t)) \in Nat
    BY <1>1, FS_Subset, FS_CardinalityType, TableAssumption DEF IsTable, Held
  <1> QED
    BY <1>3, <1>4, <1>5, TableAssumption DEF EveryRecordHinted, WithinCeiling

\* Taking the i-th element out of a sequence shifts only what came after it.
LEMMA RemoveAtProperties ==
    ASSUME NEW S, NEW q \in Seq(S), NEW i \in 1..Len(q)
    PROVE  /\ RemoveAt(q, i) \in Seq(S)
           /\ Len(RemoveAt(q, i)) = Len(q) - 1
           /\ \A j \in 1..(i - 1) : RemoveAt(q, i)[j] = q[j]
           /\ \A j \in (i + 1)..Len(q) : RemoveAt(q, i)[j - 1] = q[j]
  <1> DEFINE front == SubSeq(q, 1, i - 1)
             back  == SubSeq(q, i + 1, Len(q))
  <1>1. /\ front \in Seq(S)
        /\ Len(front) = i - 1
        /\ \A j \in 1..(i - 1) : front[j] = q[j]
    BY SubSeqProperties
  <1>2. /\ back \in Seq(S)
        /\ Len(back) = Len(q) - i
        /\ \A j \in 1..(Len(q) - i) : back[j] = q[i + j]
    BY SubSeqProperties
  <1>3. RemoveAt(q, i) = front \o back
    BY DEF RemoveAt
  <1> HIDE DEF front, back
  <1>4. /\ front \o back \in Seq(S)
        /\ Len(front \o back) = Len(q) - 1
        /\ \A j \in 1..(Len(q) - 1) : (front \o back)[j] =
                IF j =< i - 1 THEN front[j] ELSE back[j - (i - 1)]
    BY <1>1, <1>2, ConcatProperties
  <1>5. ASSUME NEW j \in (i + 1)..Len(q)
        PROVE  (front \o back)[j - 1] = q[j]
    <2>1. (front \o back)[j - 1] = back[j - i]
      <3>1. /\ j - 1 \in 1..(Len(q) - 1)
            /\ ~(j - 1 =< i - 1)
            /\ (j - 1) - (i - 1) = j - i
        OBVIOUS
      <3> QED
        BY <1>4, <3>1
    <2>2. back[j - i] = q[j]
      BY <1>2
    <2> QED
      BY <2>1, <2>2
  <1> QED
    BY <1>1, <1>3, <1>4, <1>5

\* evictOne, when its scan finds something, takes one record nobody would miss and that
\* record's hint, and nothing else.
LEMMA EvictProperties ==
    ASSUME NEW t, IsTable(t), NEW inUse, EvictableHints(t, inUse) # {}
    PROVE  /\ IsTable(EvictOne(t, inUse))
           /\ Victim(t, inUse) \in Held(t)
           /\ IsEvictable(t, Victim(t, inUse), inUse)
           /\ Held(EvictOne(t, inUse)) = Held(t) \ {Victim(t, inUse)}
           /\ DOMAIN EvictOne(t, inUse).rotations \subseteq DOMAIN t.rotations
           /\ \A id \in Held(EvictOne(t, inUse)) :
                 EvictOne(t, inUse).sessions[id] = t.sessions[id]
           /\ EveryRecordHinted(t) => EveryRecordHinted(EvictOne(t, inUse))
  <1> DEFINE i == Min(EvictableHints(t, inUse))
             v == Victim(t, inUse)
             unhinted == [sessions |-> t.sessions, queue |-> RemoveAt(t.queue, i),
                          rotations |-> t.rotations]
             u == EvictOne(t, inUse)
  <1>1. i \in EvictableHints(t, inUse)
    <2>1. EvictableHints(t, inUse) \subseteq Nat
      BY DEF EvictableHints
    <2> QED
      BY <2>1, MinProperties
  <1>2. /\ i \in 1..Len(t.queue)
        /\ v = t.queue[i].id
        /\ v \in Held(t)
        /\ IsEvictable(t, v, inUse)
    BY <1>1 DEF EvictableHints, Matches, Victim
  <1> HIDE DEF i, v
  <1>3. /\ RemoveAt(t.queue, i) \in Seq(Hint)
        /\ Len(RemoveAt(t.queue, i)) = Len(t.queue) - 1
        /\ \A j \in 1..(i - 1) : RemoveAt(t.queue, i)[j] = t.queue[j]
        /\ \A j \in (i + 1)..Len(t.queue) : RemoveAt(t.queue, i)[j - 1] = t.queue[j]
    BY <1>2, RemoveAtProperties DEF IsTable
  <1>4. IsTable(unhinted) /\ Held(unhinted) = Held(t)
    BY <1>3 DEF IsTable, Held
  <1>5. u = Forget(unhinted, {v})
    BY DEF EvictOne, i, v
  <1>6. /\ unhinted.queue = RemoveAt(t.queue, i)
        /\ unhinted.rotations = t.rotations
        /\ unhinted.sessions = t.sessions
    OBVIOUS
  <1> HIDE DEF unhinted
  <1>7. /\ IsTable(u)
        /\ Held(u) = Held(t) \ {v}
        /\ u.queue = RemoveAt(t.queue, i)
        /\ DOMAIN u.rotations \subseteq DOMAIN t.rotations
        /\ \A id \in Held(u) : u.sessions[id] = t.sessions[id]
    <2>1. {v} \subseteq Held(unhinted)
      BY <1>2, <1>4
    <2> QED
      BY <1>4, <1>5, <1>6, <2>1, ForgetProperties
  <1>8. ASSUME Ttl > 0, EveryRecordHinted(t), NEW id \in Held(u)
        PROVE  \E k \in 1..Len(u.queue) : u.queue[k].id = id /\ Matches(u, u.queue[k])
    <2>1. PICK j \in 1..Len(t.queue) : t.queue[j].id = id /\ Matches(t, t.queue[j])
      BY <1>7, <1>8 DEF EveryRecordHinted
    <2>2. j # i
      BY <1>2, <1>7, <2>1
    <2>3. PICK k \in 1..Len(u.queue) : u.queue[k] = t.queue[j]
      <3>1. CASE j < i
        <4>1. j \in 1..(i - 1) /\ j \in 1..(Len(t.queue) - 1)
          BY <1>2, <3>1 DEF IsTable
        <4> QED
          BY <1>3, <1>7, <4>1
      <3>2. CASE j > i
        <4>1. j \in (i + 1)..Len(t.queue) /\ j - 1 \in 1..(Len(t.queue) - 1)
          BY <1>2, <3>2 DEF IsTable
        <4> QED
          BY <1>3, <1>7, <4>1
      <3> QED
        BY <1>2, <2>2, <3>1, <3>2 DEF IsTable
    <2> QED
      BY <1>7, <2>1, <2>3 DEF Matches
  <1> QED
    BY <1>2, <1>7, <1>8 DEF v, EveryRecordHinted

\* createSession: what it takes is what its signals announce, what it adds is the new
\* record, and the ceiling holds after it if it held before.
LEMMA CreateProperties ==
    ASSUME NEW t, IsTable(t), NEW id \in Token, id \notin Held(t), NEW scope \in Scope,
           NEW identity \in Identity, NEW now \in Nat, NEW inUse,
           NEW made, made = CreateSession(t, id, scope, identity, now, inUse)
    PROVE  /\ IsTable(made.table)
           /\ made.expired = Reclaimed(t, now)
           /\ made.expired \subseteq Held(t)
           /\ made.evicted \subseteq Held(t)
           /\ \A v \in made.evicted : IsEvictable(t, v, inUse)
           /\ Held(made.table) = (Held(t) \ (made.expired \cup made.evicted))
                                     \cup (IF made.ok THEN {id} ELSE {})
           /\ \A x \in Held(made.table) \ {id} : made.table.sessions[x] = t.sessions[x]
           /\ DOMAIN made.table.rotations \subseteq DOMAIN t.rotations
           /\ EveryRecordHinted(t) => EveryRecordHinted(made.table)
           /\ WithinCeiling(t) => WithinCeiling(made.table)
  <1> DEFINE swept  == PurgeExpired(t, now)
             admitted == HasRoom(swept, inUse)
             evicts == AtCeiling(swept) /\ admitted
             victims == IF evicts THEN {Victim(swept, inUse)} ELSE {}
             roomy  == IF evicts THEN EvictOne(swept, inUse) ELSE swept
             record == [scope |-> scope, identity |-> identity,
                        created |-> now, rotatedFrom |-> NoToken]
  <1>1. /\ made.ok = admitted
        /\ made.expired = Reclaimed(t, now)
        /\ made.evicted = victims
        /\ made.table = IF admitted THEN Insert(roomy, id, record) ELSE roomy
    BY DEF CreateSession
  <1>2. /\ IsTable(swept)
        /\ Reclaimed(t, now) \subseteq Held(t)
        /\ Held(swept) = Held(t) \ Reclaimed(t, now)
        /\ DOMAIN swept.rotations \subseteq DOMAIN t.rotations
        /\ \A x \in Held(swept) : swept.sessions[x] = t.sessions[x]
        /\ EveryRecordHinted(t) => EveryRecordHinted(swept)
        /\ WithinCeiling(t) => WithinCeiling(swept)
    BY PurgeProperties, PurgePreserves
  <1> HIDE DEF swept
  <1>3. /\ IsTable(roomy)
        /\ victims \subseteq Held(swept)
        /\ \A v \in victims : IsEvictable(t, v, inUse)
        /\ Held(roomy) = Held(swept) \ victims
        /\ \A x \in Held(roomy) : roomy.sessions[x] = swept.sessions[x]
        /\ DOMAIN roomy.rotations \subseteq DOMAIN swept.rotations
        /\ EveryRecordHinted(swept) => EveryRecordHinted(roomy)
    <2>1. CASE evicts
      <3>1. EvictableHints(swept, inUse) # {}
        BY <2>1 DEF HasRoom
      <3>2. IsEvictable(swept, Victim(swept, inUse), inUse)
        BY <1>2, <3>1, EvictProperties
      <3>3. Victim(swept, inUse) \in Held(swept)
        BY <1>2, <3>1, EvictProperties
      <3>4. IsEvictable(t, Victim(swept, inUse), inUse)
        BY <1>2, <3>2, <3>3 DEF IsEvictable
      <3> QED
        BY <1>2, <2>1, <3>1, <3>3, <3>4, EvictProperties
    <2>2. CASE ~evicts
      BY <1>2, <2>2
    <2> QED
      BY <2>1, <2>2
  <1>4. admitted /\ WithinCeiling(t) /\ MaxSessions > 0 =>
            Cardinality(Held(roomy)) + 1 =< MaxSessions
    <2> SUFFICES ASSUME admitted, WithinCeiling(t), MaxSessions > 0
                 PROVE  Cardinality(Held(roomy)) + 1 =< MaxSessions
      OBVIOUS
    <2>1. IsFiniteSet(Held(swept)) /\ Cardinality(Held(swept)) \in Nat
      BY <1>2, FS_Subset, FS_CardinalityType, TableAssumption DEF IsTable, Held
    <2>2. CASE evicts
      <3>1. Victim(swept, inUse) \in Held(swept)
        BY <1>3, <2>2
      <3>2. Cardinality(Held(roomy)) = Cardinality(Held(swept)) - 1
        BY <1>3, <2>1, <2>2, <3>1, FS_RemoveElement
      <3> QED
        BY <1>2, <2>1, <3>2, TableAssumption DEF WithinCeiling
    <2>3. CASE ~evicts
      <3>1. Cardinality(Held(swept)) < MaxSessions
        BY <2>1, <2>3, TableAssumption DEF AtCeiling
      <3> QED
        BY <2>1, <2>3, <3>1, TableAssumption
    <2> QED
      BY <2>2, <2>3
  <1>5. record \in SessionRecord
    BY DEF SessionRecord
  <1>6. record.created = now
    OBVIOUS
  <1> HIDE DEF roomy, admitted, victims, record
  <1>7. CASE admitted
    <2>1. made.table = Insert(roomy, id, record) /\ id \notin Held(roomy)
      BY <1>1, <1>2, <1>3, <1>7
    <2>2. /\ IsTable(made.table)
          /\ Held(made.table) = Held(roomy) \cup {id}
          /\ made.table.rotations = roomy.rotations
          /\ made.table.queue = TrackExpiry(roomy.queue, id, now)
          /\ made.table.sessions[id] = record
          /\ \A x \in Held(roomy) \ {id} : made.table.sessions[x] = roomy.sessions[x]
      BY <1>3, <1>5, <1>6, <2>1, InsertProperties
    <2>3. EveryRecordHinted(roomy) => EveryRecordHinted(made.table)
      BY <1>3, <1>5, <2>1, InsertPreservesHints
    <2>4. WithinCeiling(t) => WithinCeiling(made.table)
      <3>1. IsFiniteSet(Held(roomy)) /\ Cardinality(Held(roomy)) \in Nat
        BY <1>3, FS_Subset, FS_CardinalityType, TableAssumption DEF IsTable, Held
      <3>2. Cardinality(Held(made.table)) = Cardinality(Held(roomy)) + 1
        BY <2>1, <2>2, <3>1, FS_AddElement
      <3> QED
        BY <1>4, <1>7, <3>2 DEF WithinCeiling
    <2> QED
      BY <1>1, <1>2, <1>3, <1>7, <2>2, <2>3, <2>4
  <1>8. CASE ~admitted
    <2>1. made.table = swept /\ victims = {}
      BY <1>1, <1>8 DEF victims, roomy
    <2> QED
      BY <1>1, <1>2, <1>8, <2>1
  <1> QED
    BY <1>7, <1>8

\* setScope replaces one credential by another: the table neither grows nor shrinks, the
\* hand-offs gain at most the replaced credential, and every record keeps a hint.
LEMMA SetScopeProperties ==
    ASSUME NEW t, IsTable(t), NEW previous \in Held(t), NEW next \in Token,
           next \notin Held(t), NEW scope \in Scope, NEW identity \in Identity,
           NEW keep \in BOOLEAN, NEW now \in Nat,
           NEW u, u = SetScope(t, previous, next, scope, identity, keep, now)
    PROVE  /\ IsTable(u)
           /\ Held(u) = (Held(t) \ {previous}) \cup {next}
           /\ DOMAIN u.rotations \subseteq DOMAIN t.rotations \cup {previous}
           /\ \A x \in Held(t) \ {previous} : u.sessions[x] = t.sessions[x]
           /\ t.sessions[previous].identity # Nobody => u.sessions[next].identity # Nobody
           /\ EveryRecordHinted(t) => EveryRecordHinted(u)
           /\ WithinCeiling(t) => WithinCeiling(u)
  <1> DEFINE was    == t.sessions[previous]
             record == [scope |-> scope,
                        identity |-> IF identity = Nobody THEN was.identity ELSE identity,
                        created |-> now,
                        rotatedFrom |-> IF keep THEN previous ELSE was.rotatedFrom]
             linked == Put(t.rotations, previous, [to |-> next, at |-> now])
             led    == IF ~keep THEN t.rotations
                       ELSE IF was.rotatedFrom \in DOMAIN linked
                       THEN Put(linked, was.rotatedFrom,
                                [to |-> next, at |-> linked[was.rotatedFrom].at])
                       ELSE linked
             moved  == [sessions |-> Without(t.sessions, {previous}), queue |-> t.queue,
                        rotations |-> led]
  <1>1. u = Insert(moved, next, record)
    BY DEF SetScope
  <1>2. previous \in Token /\ was \in SessionRecord
    BY DEF IsTable, Held
  <1>3. record \in SessionRecord
    BY <1>2 DEF SessionRecord
  <1>4. /\ DOMAIN linked = DOMAIN t.rotations \cup {previous}
        /\ linked \in [DOMAIN linked -> Rotation]
    <2>1. [to |-> next, at |-> now] \in Rotation
      BY DEF Rotation
    <2> QED
      BY <2>1 DEF Put, IsTable
  <1>5. /\ DOMAIN led \subseteq DOMAIN t.rotations \cup {previous}
        /\ led \in [DOMAIN led -> Rotation]
    <2> HIDE DEF linked, was
    <2>1. CASE ~keep
      BY <2>1 DEF IsTable
    <2>2. CASE keep /\ was.rotatedFrom \notin DOMAIN linked
      BY <1>4, <2>2
    <2>3. CASE keep /\ was.rotatedFrom \in DOMAIN linked
      <3>1. linked[was.rotatedFrom].at \in Nat
        BY <1>4, <2>3 DEF Rotation
      <3>2. [to |-> next, at |-> linked[was.rotatedFrom].at] \in Rotation
        BY <3>1 DEF Rotation
      <3> QED
        BY <1>4, <2>3, <3>2 DEF Put
    <2> QED
      BY <2>1, <2>2, <2>3
  <1> HIDE DEF led
  <1>6. /\ IsTable(moved)
        /\ Held(moved) = Held(t) \ {previous}
        /\ moved.queue = t.queue
        /\ moved.rotations = led
        /\ \A x \in Held(moved) : moved.sessions[x] = t.sessions[x]
    BY <1>2, <1>5 DEF Without, IsTable, Held
  <1> HIDE DEF moved
  <1>7. /\ IsTable(u)
        /\ Held(u) = Held(moved) \cup {next}
        /\ u.rotations = moved.rotations
        /\ u.sessions[next] = record
        /\ \A x \in Held(moved) \ {next} : u.sessions[x] = moved.sessions[x]
    BY <1>1, <1>3, <1>6, InsertProperties
  <1>8. t.sessions[previous].identity # Nobody => u.sessions[next].identity # Nobody
    BY <1>7
  <1> HIDE DEF record
  <1>9. EveryRecordHinted(t) => EveryRecordHinted(u)
    <2>1. EveryRecordHinted(t) => EveryRecordHinted(moved)
      BY <1>6, SMTT(30) DEF EveryRecordHinted, Matches
    <2> QED
      BY <1>1, <1>3, <1>6, <2>1, InsertPreservesHints
  <1>10. WithinCeiling(t) => WithinCeiling(u)
    <2>1. IsFiniteSet(Held(t)) /\ Cardinality(Held(t)) \in Nat
      BY FS_Subset, FS_CardinalityType, TableAssumption DEF IsTable, Held
    <2>2. /\ IsFiniteSet(Held(moved))
          /\ Cardinality(Held(moved)) = Cardinality(Held(t)) - 1
      BY <1>6, <2>1, FS_RemoveElement
    <2>3. Cardinality(Held(u)) = Cardinality(Held(moved)) + 1
      BY <1>6, <1>7, <2>2, FS_AddElement
    <2> QED
      BY <2>1, <2>2, <2>3 DEF WithinCeiling
  <1> QED
    BY <1>5, <1>6, <1>7, <1>8, <1>9, <1>10

\* Erasing records keeps the table within its ceiling and the others hinted.
LEMMA ForgetPreserves ==
    ASSUME NEW t, IsTable(t), NEW ids, ids \subseteq Held(t)
    PROVE  /\ EveryRecordHinted(t) => EveryRecordHinted(Forget(t, ids))
           /\ WithinCeiling(t) => WithinCeiling(Forget(t, ids))
  <1> DEFINE u == Forget(t, ids)
  <1>1. /\ Held(u) = Held(t) \ ids
        /\ u.queue = t.queue
        /\ \A id \in Held(u) : u.sessions[id] = t.sessions[id]
    BY ForgetProperties
  <1> HIDE DEF u
  <1>2. EveryRecordHinted(t) => EveryRecordHinted(u)
    BY <1>1 DEF EveryRecordHinted, Matches
  <1>3. /\ Cardinality(Held(u)) =< Cardinality(Held(t))
        /\ Cardinality(Held(u)) \in Nat
        /\ Cardinality(Held(t)) \in Nat
    BY <1>1, FS_Subset, FS_CardinalityType, TableAssumption DEF IsTable, Held
  <1> QED
    BY <1>2, <1>3, TableAssumption DEF u, WithinCeiling

\* u has no hand-off that t has not, and none of them leads elsewhere or restarted.
OnlyDropsHandoffs(t, u) ==
    /\ DOMAIN u.rotations \subseteq DOMAIN t.rotations
    /\ \A id \in DOMAIN u.rotations : u.rotations[id] = t.rotations[id]

\* No hand-off of both tables has another clock in u.
KeepsClocks(t, u) ==
    \A id \in DOMAIN t.rotations \cap DOMAIN u.rotations :
        u.rotations[id].at = t.rotations[id].at

\* What leads straight to a session that both tables hold, in its window, is kept.
KeepsHandoffs(t, u, now) ==
    \A x \in Held(u) \cap Held(t) :
        LET from == t.sessions[x].rotatedFrom
        IN  /\ from \in DOMAIN t.rotations
            /\ t.rotations[from].to = x
            /\ now - t.rotations[from].at =< Grace
            => from \in DOMAIN u.rotations

\* No two records remember having replaced the same credential.
DistinctSources(t) ==
    \A a, b \in Held(t) : /\ t.sessions[a].rotatedFrom = t.sessions[b].rotatedFrom
                          /\ t.sessions[a].rotatedFrom # NoToken
                          => a = b

\* A record takes only its own hand-off with it.
LEMMA ForgetHandoffs ==
    ASSUME NEW t, IsTable(t), NEW ids, ids \subseteq Held(t), NEW now \in Nat
    PROVE  /\ OnlyDropsHandoffs(t, Forget(t, ids))
           /\ DistinctSources(t) => KeepsHandoffs(t, Forget(t, ids), now)
  <1>1. /\ Forget(t, ids).rotations
              = Without(t.rotations, {t.sessions[id].rotatedFrom : id \in ids})
        /\ Held(Forget(t, ids)) = Held(t) \ ids
    BY ForgetProperties DEF Forget
  <1>2. NoToken \notin DOMAIN t.rotations
    BY TableAssumption DEF IsTable
  <1> QED
    BY <1>1, <1>2 DEF OnlyDropsHandoffs, KeepsHandoffs, DistinctSources, Without

\* The sweep drops hand-offs out of their window or leading nowhere, and those of the
\* records it reclaims.
LEMMA PurgeHandoffs ==
    ASSUME NEW t, IsTable(t), NEW now \in Nat
    PROVE  /\ OnlyDropsHandoffs(t, PurgeExpired(t, now))
           /\ DistinctSources(t) => KeepsHandoffs(t, PurgeExpired(t, now), now)
  <1> DEFINE gone == Reclaimed(t, now)
             u    == PurgeExpired(t, now)
  <1>1. u.rotations = Without(Restrict(t.rotations, KeptRotations(t, now)),
                              {t.sessions[id].rotatedFrom : id \in gone})
    BY DEF PurgeExpired, Forget
  <1>2. Held(u) = Held(t) \ gone /\ gone \subseteq Held(t)
    BY PurgeProperties
  <1>3. NoToken \notin DOMAIN t.rotations
    BY TableAssumption DEF IsTable
  <1> HIDE DEF gone, u
  <1>4. KeptRotations(t, now) \subseteq DOMAIN t.rotations
    BY DEF KeptRotations
  <1>5. /\ DOMAIN u.rotations
              = KeptRotations(t, now) \ {t.sessions[id].rotatedFrom : id \in gone}
        /\ \A id \in DOMAIN u.rotations : u.rotations[id] = t.rotations[id]
    BY <1>1, <1>4 DEF Restrict, Without
  <1> QED
    BY <1>2, <1>3, <1>4, <1>5 DEF OnlyDropsHandoffs, KeepsHandoffs, DistinctSources,
                                  KeptRotations, u

\* Eviction takes the hand-off of its victim.
LEMMA EvictHandoffs ==
    ASSUME NEW t, IsTable(t), NEW inUse, EvictableHints(t, inUse) # {}, NEW now \in Nat
    PROVE  /\ OnlyDropsHandoffs(t, EvictOne(t, inUse))
           /\ DistinctSources(t) => KeepsHandoffs(t, EvictOne(t, inUse), now)
  <1> DEFINE v == Victim(t, inUse)
             u == EvictOne(t, inUse)
  <1>1. u.rotations = Without(t.rotations, {t.sessions[id].rotatedFrom : id \in {v}})
    BY DEF EvictOne, Forget
  <1>2. Held(u) = Held(t) \ {v} /\ v \in Held(t)
    BY EvictProperties
  <1>3. NoToken \notin DOMAIN t.rotations
    BY TableAssumption DEF IsTable
  <1> HIDE DEF v, u
  <1> QED
    BY <1>1, <1>2, <1>3 DEF OnlyDropsHandoffs, KeepsHandoffs, DistinctSources, Without, u

\* createSession: the sweep and the eviction in turn, and a record that replaced nothing.
LEMMA CreateHandoffs ==
    ASSUME NEW t, IsTable(t), NEW id \in Token, id \notin Held(t), NEW scope \in Scope,
           NEW identity \in Identity, NEW now \in Nat, NEW inUse,
           NEW made, made = CreateSession(t, id, scope, identity, now, inUse)
    PROVE  /\ OnlyDropsHandoffs(t, made.table)
           /\ DistinctSources(t) => KeepsHandoffs(t, made.table, now)
           /\ made.ok => made.table.sessions[id].rotatedFrom = NoToken
  <1> DEFINE swept  == PurgeExpired(t, now)
             admitted == HasRoom(swept, inUse)
             evicts == AtCeiling(swept) /\ admitted
             roomy  == IF evicts THEN EvictOne(swept, inUse) ELSE swept
             record == [scope |-> scope, identity |-> identity,
                        created |-> now, rotatedFrom |-> NoToken]
  <1>1. /\ made.ok = admitted
        /\ made.table = IF admitted THEN Insert(roomy, id, record) ELSE roomy
    BY DEF CreateSession
  <1>2. /\ IsTable(swept)
        /\ Held(swept) \subseteq Held(t)
        /\ \A x \in Held(swept) : swept.sessions[x] = t.sessions[x]
        /\ OnlyDropsHandoffs(t, swept)
        /\ DistinctSources(t) => KeepsHandoffs(t, swept, now)
    BY PurgeProperties, PurgeHandoffs
  <1> HIDE DEF swept
  <1>3. /\ IsTable(roomy)
        /\ Held(roomy) \subseteq Held(swept)
        /\ OnlyDropsHandoffs(swept, roomy)
        /\ DistinctSources(swept) => KeepsHandoffs(swept, roomy, now)
    <2>1. CASE evicts
      <3>1. EvictableHints(swept, inUse) # {}
        BY <2>1 DEF HasRoom
      <3>2. /\ IsTable(EvictOne(swept, inUse))
            /\ Held(EvictOne(swept, inUse)) \subseteq Held(swept)
        BY <1>2, <3>1, EvictProperties
      <3>3. /\ OnlyDropsHandoffs(swept, EvictOne(swept, inUse))
            /\ DistinctSources(swept) => KeepsHandoffs(swept, EvictOne(swept, inUse), now)
        BY <1>2, <3>1, EvictHandoffs
      <3> QED
        BY <2>1, <3>2, <3>3
    <2>2. CASE ~evicts
      BY <1>2, <2>2 DEF OnlyDropsHandoffs, KeepsHandoffs
    <2> QED
      BY <2>1, <2>2
  <1>4. record \in SessionRecord /\ record.rotatedFrom = NoToken
    BY DEF SessionRecord
  <1> HIDE DEF roomy, admitted, record
  <1>5. OnlyDropsHandoffs(t, roomy)
    BY <1>2, <1>3 DEF OnlyDropsHandoffs
  <1>6. DistinctSources(t) => KeepsHandoffs(t, roomy, now)
    <2> SUFFICES ASSUME DistinctSources(t), NEW x \in Held(roomy) \cap Held(t),
                        t.sessions[x].rotatedFrom \in DOMAIN t.rotations,
                        t.rotations[t.sessions[x].rotatedFrom].to = x,
                        now - t.rotations[t.sessions[x].rotatedFrom].at =< Grace
                 PROVE  t.sessions[x].rotatedFrom \in DOMAIN roomy.rotations
      BY DEF KeepsHandoffs
    <2>1. DistinctSources(swept)
      BY <1>2 DEF DistinctSources
    <2>2. x \in Held(swept) /\ swept.sessions[x] = t.sessions[x]
      BY <1>2, <1>3
    <2>3. t.sessions[x].rotatedFrom \in DOMAIN swept.rotations
      BY <1>2, <2>2 DEF KeepsHandoffs
    <2>4. swept.rotations[t.sessions[x].rotatedFrom] = t.rotations[t.sessions[x].rotatedFrom]
      BY <1>2, <2>3 DEF OnlyDropsHandoffs
    <2> QED
      BY <1>3, <2>1, <2>2, <2>3, <2>4 DEF KeepsHandoffs
  <1>7. CASE admitted
    <2>1. /\ Held(made.table) = Held(roomy) \cup {id}
          /\ made.table.rotations = roomy.rotations
          /\ made.table.sessions[id] = record
      BY <1>1, <1>3, <1>4, <1>7, InsertProperties
    <2> QED
      BY <1>4, <1>5, <1>6, <2>1 DEF OnlyDropsHandoffs, KeepsHandoffs
  <1>8. CASE ~admitted
    BY <1>1, <1>5, <1>6, <1>8
  <1> QED
    BY <1>7, <1>8

\* setScope with a hand-off: the replaced credential leads to the new one from now on,
\* the hand-off that led to it is moved along on its own clock, and no other is touched.
\* Without one, no hand-off is touched.
LEMMA SetScopeHandoffs ==
    ASSUME NEW t, IsTable(t), NEW previous \in Held(t), NEW next \in Token,
           next \notin Held(t), NEW scope \in Scope, NEW identity \in Identity,
           NEW keep \in BOOLEAN, NEW now \in Nat, previous \notin DOMAIN t.rotations,
           NEW u, u = SetScope(t, previous, next, scope, identity, keep, now)
    PROVE  /\ u.sessions[next].created = now
           /\ u.sessions[next].rotatedFrom =
                 IF keep THEN previous ELSE t.sessions[previous].rotatedFrom
           /\ keep => /\ previous \in DOMAIN u.rotations
                      /\ u.rotations[previous] = [to |-> next, at |-> now]
           /\ ~keep => u.rotations = t.rotations
           /\ DOMAIN t.rotations \subseteq DOMAIN u.rotations
           /\ KeepsClocks(t, u)
           /\ \A id \in DOMAIN t.rotations :
                 id # t.sessions[previous].rotatedFrom => u.rotations[id] = t.rotations[id]
  <1> DEFINE was    == t.sessions[previous]
             record == [scope |-> scope,
                        identity |-> IF identity = Nobody THEN was.identity ELSE identity,
                        created |-> now,
                        rotatedFrom |-> IF keep THEN previous ELSE was.rotatedFrom]
             linked == Put(t.rotations, previous, [to |-> next, at |-> now])
             led    == IF ~keep THEN t.rotations
                       ELSE IF was.rotatedFrom \in DOMAIN linked
                       THEN Put(linked, was.rotatedFrom,
                                [to |-> next, at |-> linked[was.rotatedFrom].at])
                       ELSE linked
  <1>1. u.sessions[next] = record /\ u.rotations = led
    BY DEF SetScope, Insert, Put
  <1>2. /\ DOMAIN linked = DOMAIN t.rotations \cup {previous}
        /\ linked[previous] = [to |-> next, at |-> now]
        /\ \A id \in DOMAIN t.rotations : linked[id] = t.rotations[id]
    BY DEF Put
  <1>3. /\ record.created = now
        /\ record.rotatedFrom = IF keep THEN previous ELSE was.rotatedFrom
    OBVIOUS
  <1> HIDE DEF linked, was, record
  <1>4. CASE ~keep
    BY <1>1, <1>3, <1>4 DEF was, KeepsClocks
  <1>5. CASE keep /\ was.rotatedFrom \notin DOMAIN linked
    BY <1>1, <1>2, <1>3, <1>5 DEF was, KeepsClocks
  <1>6. CASE keep /\ was.rotatedFrom \in DOMAIN linked
    <2>1. /\ DOMAIN led = DOMAIN linked
          /\ \A id \in DOMAIN linked :
                led[id] = IF id = was.rotatedFrom
                          THEN [to |-> next, at |-> linked[id].at] ELSE linked[id]
      BY <1>6 DEF Put
    <2> HIDE DEF led
    <2>2. led[previous] = [to |-> next, at |-> now]
      <3>1. linked[previous].at = now /\ previous \in DOMAIN linked
        BY <1>2
      <3> QED
        BY <1>2, <2>1, <3>1
    <2>3. \A id \in DOMAIN t.rotations : led[id].at = t.rotations[id].at
      <3> TAKE id \in DOMAIN t.rotations
      <3>1. linked[id] = t.rotations[id] /\ id \in DOMAIN linked
        BY <1>2
      <3> QED
        BY <2>1, <3>1
    <2> QED
      BY <1>1, <1>2, <1>3, <1>6, <2>1, <2>2, <2>3 DEF was, KeepsClocks
  <1> QED
    BY <1>4, <1>5, <1>6

\* hasRoom() before the sweep is hasRoom() after it: if the sweep leaves the table full it
\* reclaimed nothing, so what it drained from the queue names no session.
LEMMA RoomSurvivesTheSweep ==
    ASSUME NEW t, IsTable(t), NEW now \in Nat, NEW inUse, WithinCeiling(t), HasRoom(t, inUse)
    PROVE  HasRoom(PurgeExpired(t, now), inUse)
  <1> DEFINE u == PurgeExpired(t, now)
             n == Drained(t.queue, now)
  <1> SUFFICES ASSUME AtCeiling(u) PROVE EvictableHints(u, inUse) # {}
    BY DEF HasRoom
  <1>1. /\ Held(u) = Held(t) \ Reclaimed(t, now)
        /\ Reclaimed(t, now) \subseteq Held(t)
        /\ u.queue = SubSeq(t.queue, n + 1, Len(t.queue))
        /\ \A id \in Held(u) : u.sessions[id] = t.sessions[id]
    BY PurgeProperties
  <1>2. n \in 0..Len(t.queue)
    BY DrainedProperties DEF IsTable
  <1> HIDE DEF u
  <1>3. /\ IsFiniteSet(Held(t))
        /\ Cardinality(Held(t)) \in Nat
        /\ Cardinality(Held(u)) =< Cardinality(Held(t))
        /\ Cardinality(Held(u)) = Cardinality(Held(t)) => Held(u) = Held(t)
        /\ Cardinality(Held(u)) \in Nat
    BY <1>1, FS_Subset, FS_CardinalityType, TableAssumption DEF IsTable, Held
  <1>4. Held(u) = Held(t) /\ Reclaimed(t, now) = {} /\ AtCeiling(t)
    <2>1. MaxSessions \in Nat /\ MaxSessions > 0 /\ Cardinality(Held(u)) >= MaxSessions
      BY TableAssumption DEF AtCeiling
    <2>2. Cardinality(Held(t)) =< MaxSessions
      BY <2>1 DEF WithinCeiling
    <2>3. Cardinality(Held(u)) = Cardinality(Held(t))
      BY <1>3, <2>1, <2>2
    <2> QED
      BY <1>1, <1>3, <2>1, <2>2, <2>3 DEF AtCeiling
  <1>5. PICK i \in EvictableHints(t, inUse) : TRUE
    BY <1>4 DEF HasRoom
  <1>6. /\ i \in 1..Len(t.queue)
        /\ i =< SearchDepth
        /\ Matches(t, t.queue[i])
        /\ IsEvictable(t, t.queue[i].id, inUse)
    BY <1>5 DEF EvictableHints
  <1>7. i > n
    BY <1>2, <1>4, <1>6 DEF Reclaimed, Matches
  <1>8. \A j \in (n + 1)..Len(t.queue) : t.queue[j] \in Hint
    BY <1>2 DEF IsTable
  <1>9. Len(u.queue) = Len(t.queue) - n /\ u.queue[i - n] = t.queue[i]
    BY <1>1, <1>2, <1>6, <1>7, <1>8, SubSeqProperties DEF IsTable
  <1>10. i - n \in 1..Len(u.queue) /\ i - n =< SearchDepth
    BY <1>2, <1>6, <1>7, <1>9, TableAssumption DEF IsTable
  <1>11. Matches(u, u.queue[i - n]) /\ IsEvictable(u, u.queue[i - n].id, inUse)
    BY <1>1, <1>4, <1>6, <1>9 DEF Matches, IsEvictable
  <1> QED
    BY <1>10, <1>11 DEF EvictableHints

================================================================================
