------------------------ MODULE SessionReplicationProofs ------------------------
(***************************************************************************)
(* What holds of any number of edges in front of one auth entity: any sets *)
(* of credentials, browsers and connections, any TTL, ceiling and backlog, *)
(* and the faults each theorem names.                                      *)
(***************************************************************************)
EXTENDS SessionReplication, SessionTableProofs

(***************************************************************************)
(* Messages in a queue.                                                    *)
(***************************************************************************)
OnePut(q, id) ==
    \A i, j \in 1..Len(q) : IsPut(q[i], id) /\ IsPut(q[j], id) => i = j

\* A queue that creates id says this of it.
Says(q, id, x) == \E i \in 1..Len(q) : IsPut(q[i], id) /\ x = ToldBy(q[i])

\* n is q with r behind it.
Joined(n, q, r) ==
    \A id \in Token :
        /\ HasPut(n, id) <=> HasPut(q, id) \/ HasPut(r, id)
        /\ HasRemove(n, id) <=> HasRemove(q, id) \/ HasRemove(r, id)
        /\ (RemovedLast(q, id) \/ HasRemove(r, id)) /\ ~HasPut(r, id) => RemovedLast(n, id)
        /\ OnePut(q, id) /\ ~HasPut(r, id) => OnePut(n, id)
        /\ ~HasPut(q, id) /\ OnePut(r, id) => OnePut(n, id)
        /\ \A x : Says(n, id, x) <=> Says(q, id, x) \/ Says(r, id, x)

\* n is q without its head m.
Taken(n, q, m) ==
    \A id \in Token :
        /\ HasPut(q, id) <=> IsPut(m, id) \/ HasPut(n, id)
        /\ HasRemove(q, id) <=> IsRemove(m, id) \/ HasRemove(n, id)
        /\ RemovedLast(q, id) => /\ RemovedLast(n, id)
                                 /\ IsPut(m, id) => HasRemove(n, id)
        /\ OnePut(q, id) => OnePut(n, id) /\ (IsPut(m, id) => ~HasPut(n, id))
        /\ \A x : Says(n, id, x) => Says(q, id, x)
        /\ IsPut(m, id) => Says(q, id, ToldBy(m))

LEMMA ConcatJoins ==
    ASSUME NEW q \in Seq(Message), NEW r \in Seq(Message)
    PROVE  q \o r \in Seq(Message) /\ Joined(q \o r, q, r)
  <1> DEFINE n == q \o r
             k == Len(q)
             l == Len(r)
  <1>0. /\ n \in Seq(Message) /\ Len(n) = k + l
        /\ \A i \in 1..(k + l) : n[i] = IF i =< k THEN q[i] ELSE r[i - k]
    BY ConcatProperties
  <1>00. k \in Nat /\ l \in Nat
    OBVIOUS
  <1> HIDE DEF n
  <1>1. \A i \in 1..k : i \in 1..(k + l) /\ n[i] = q[i]
    BY <1>0, <1>00
  <1>2. \A j \in 1..l : k + j \in 1..(k + l) /\ n[k + j] = r[j] /\ k + j > k
    BY <1>0, <1>00
  <1>3. \A i \in 1..(k + l) : \/ i \in 1..k /\ n[i] = q[i]
                              \/ i - k \in 1..l /\ n[i] = r[i - k] /\ i > k
    BY <1>0, <1>00
  <1> SUFFICES ASSUME NEW id \in Token
               PROVE  /\ HasPut(n, id) <=> HasPut(q, id) \/ HasPut(r, id)
                      /\ HasRemove(n, id) <=> HasRemove(q, id) \/ HasRemove(r, id)
                      /\ (RemovedLast(q, id) \/ HasRemove(r, id)) /\ ~HasPut(r, id)
                         => RemovedLast(n, id)
                      /\ OnePut(q, id) /\ ~HasPut(r, id) => OnePut(n, id)
                      /\ ~HasPut(q, id) /\ OnePut(r, id) => OnePut(n, id)
                      /\ \A x : Says(n, id, x) <=> Says(q, id, x) \/ Says(r, id, x)
    BY <1>0 DEF Joined, n
  <1> HIDE DEF k, l
  <1>l. k = Len(q) /\ l = Len(r)
    BY DEF k, l
  <1>4. HasPut(n, id) <=> HasPut(q, id) \/ HasPut(r, id)
    BY <1>0, <1>1, <1>2, <1>3, <1>l DEF HasPut
  <1>5. HasRemove(n, id) <=> HasRemove(q, id) \/ HasRemove(r, id)
    BY <1>0, <1>1, <1>2, <1>3, <1>l DEF HasRemove
  <1>6. ASSUME NEW x
        PROVE  Says(n, id, x) <=> Says(q, id, x) \/ Says(r, id, x)
    <2>1. ASSUME NEW i \in 1..(k + l), IsPut(n[i], id), x = ToldBy(n[i])
          PROVE  Says(q, id, x) \/ Says(r, id, x)
      BY <1>3, <1>l, <2>1 DEF Says
    <2>2. ASSUME NEW i \in 1..k, IsPut(q[i], id), x = ToldBy(q[i])
          PROVE  Says(n, id, x)
      BY <1>0, <1>1, <2>2 DEF Says
    <2>3. ASSUME NEW i \in 1..l, IsPut(r[i], id), x = ToldBy(r[i])
          PROVE  Says(n, id, x)
      BY <1>0, <1>2, <2>3 DEF Says
    <2> QED
      BY <1>0, <1>l, <2>1, <2>2, <2>3 DEF Says
  <1>7. ASSUME ~HasPut(r, id), RemovedLast(q, id) \/ HasRemove(r, id)
        PROVE  RemovedLast(n, id)
    <2> SUFFICES ASSUME NEW i \in 1..(k + l), IsPut(n[i], id)
                 PROVE  \E j \in (i + 1)..(k + l) : IsRemove(n[j], id)
      BY <1>0 DEF RemovedLast
    <2>1. i \in 1..k /\ n[i] = q[i]
      BY <1>3, <1>7, <1>l DEF HasPut
    <2>2. CASE HasRemove(r, id)
      <3>1. PICK j \in 1..l : IsRemove(r[j], id)
        BY <1>l, <2>2 DEF HasRemove
      <3>2. k + j \in (i + 1)..(k + l) /\ IsRemove(n[k + j], id)
        BY <1>00, <1>2, <2>1, <3>1
      <3> QED
        BY <3>2
    <2>3. CASE RemovedLast(q, id)
      <3>1. PICK j \in (i + 1)..k : IsRemove(q[j], id)
        BY <1>l, <2>1, <2>3 DEF RemovedLast
      <3>2. j \in 1..k /\ j \in (i + 1)..(k + l)
        BY <1>00, <2>1, <3>1
      <3> QED
        BY <1>1, <3>1, <3>2
    <2> QED
      BY <1>7, <2>2, <2>3
  <1>8. ASSUME OnePut(q, id), ~HasPut(r, id)
        PROVE  OnePut(n, id)
    BY <1>0, <1>3, <1>8, <1>l DEF OnePut, HasPut
  <1>9. ASSUME ~HasPut(q, id), OnePut(r, id)
        PROVE  OnePut(n, id)
    <2> SUFFICES ASSUME NEW i \in 1..(k + l), NEW j \in 1..(k + l),
                        IsPut(n[i], id), IsPut(n[j], id)
                 PROVE  i = j
      BY <1>0 DEF OnePut
    <2>1. i - k \in 1..l /\ n[i] = r[i - k] /\ j - k \in 1..l /\ n[j] = r[j - k]
      BY <1>3, <1>9, <1>l DEF HasPut
    <2>2. i - k = j - k
      BY <1>9, <1>l, <2>1 DEF OnePut
    <2> QED
      BY <1>00, <2>2
  <1> QED
    BY <1>4, <1>5, <1>6, <1>7, <1>8, <1>9

LEMMA AppendJoins ==
    ASSUME NEW q \in Seq(Message), NEW m \in Message
    PROVE  Append(q, m) \in Seq(Message) /\ Joined(Append(q, m), q, <<m>>)
  <1>1. <<m>> \in Seq(Message)
    OBVIOUS
  <1>2. Append(q, m) = q \o <<m>>
    BY AppendIsConcat
  <1> QED
    BY <1>1, <1>2, ConcatJoins

LEMMA TailTakes ==
    ASSUME NEW q \in Seq(Message), q # <<>>
    PROVE  /\ Head(q) \in Message /\ Tail(q) \in Seq(Message)
           /\ Taken(Tail(q), q, Head(q))
  <1> DEFINE n == Tail(q)
             m == Head(q)
             k == Len(q)
  <1>0. /\ k \in Nat /\ k >= 1 /\ m \in Message /\ m = q[1] /\ n \in Seq(Message)
        /\ Len(n) = k - 1 /\ \A i \in 1..(k - 1) : n[i] = q[i + 1]
    OBVIOUS
  <1> HIDE DEF n, m, k
  <1>l. k = Len(q)
    BY DEF k
  <1>1. \A i \in 1..(k - 1) : i + 1 \in 1..k /\ n[i] = q[i + 1] /\ i + 1 # 1
    BY <1>0
  <1>2. \A i \in 1..k : \/ i = 1 /\ q[i] = m
                        \/ i - 1 \in 1..(k - 1) /\ q[i] = n[i - 1]
    BY <1>0
  <1> SUFFICES ASSUME NEW id \in Token
               PROVE  /\ HasPut(q, id) <=> IsPut(m, id) \/ HasPut(n, id)
                      /\ HasRemove(q, id) <=> IsRemove(m, id) \/ HasRemove(n, id)
                      /\ RemovedLast(q, id) => /\ RemovedLast(n, id)
                                               /\ IsPut(m, id) => HasRemove(n, id)
                      /\ OnePut(q, id) => /\ OnePut(n, id)
                                          /\ IsPut(m, id) => ~HasPut(n, id)
                      /\ \A x : Says(n, id, x) => Says(q, id, x)
                      /\ IsPut(m, id) => Says(q, id, ToldBy(m))
    BY <1>0 DEF Taken, n, m
  <1>3. 1 \in 1..k
    BY <1>0
  <1>4. HasPut(q, id) <=> IsPut(m, id) \/ HasPut(n, id)
    BY <1>0, <1>1, <1>2, <1>3, <1>l DEF HasPut
  <1>5. HasRemove(q, id) <=> IsRemove(m, id) \/ HasRemove(n, id)
    BY <1>0, <1>1, <1>2, <1>3, <1>l DEF HasRemove
  <1>6. /\ \A x : Says(n, id, x) => Says(q, id, x)
        /\ IsPut(m, id) => Says(q, id, ToldBy(m))
    BY <1>0, <1>1, <1>3, <1>l DEF Says
  <1>7. ASSUME OnePut(q, id)
        PROVE  OnePut(n, id) /\ (IsPut(m, id) => ~HasPut(n, id))
    <2>1. ASSUME NEW i \in 1..(k - 1), NEW j \in 1..(k - 1), IsPut(n[i], id), IsPut(n[j], id)
          PROVE  i = j
      <3>1. i + 1 = j + 1
        BY <1>1, <1>7, <1>l, <2>1 DEF OnePut
      <3> QED
        BY <3>1
    <2>2. ASSUME IsPut(m, id), NEW i \in 1..(k - 1), IsPut(n[i], id)
          PROVE  FALSE
      <3>1. i + 1 = 1
        BY <1>0, <1>1, <1>3, <1>7, <1>l, <2>2 DEF OnePut
      <3> QED
        BY <1>1, <3>1
    <2> QED
      BY <1>0, <2>1, <2>2 DEF OnePut, HasPut
  <1>8. ASSUME RemovedLast(q, id)
        PROVE  RemovedLast(n, id) /\ (IsPut(m, id) => HasRemove(n, id))
    <2>1. ASSUME NEW i \in 1..(k - 1), IsPut(n[i], id)
          PROVE  \E j \in (i + 1)..(k - 1) : IsRemove(n[j], id)
      <3>1. PICK j \in ((i + 1) + 1)..k : IsRemove(q[j], id)
        BY <1>1, <1>8, <1>l, <2>1 DEF RemovedLast
      <3>2. j - 1 \in (i + 1)..(k - 1) /\ j \in 1..k /\ j # 1
        BY <1>0, <3>1
      <3>3. IsRemove(n[j - 1], id)
        BY <1>2, <3>1, <3>2
      <3> QED
        BY <3>2, <3>3
    <2>2. ASSUME IsPut(m, id)
          PROVE  HasRemove(n, id)
      <3>1. PICK j \in (1 + 1)..k : IsRemove(q[j], id)
        BY <1>0, <1>3, <1>8, <1>l, <2>2 DEF RemovedLast
      <3>2. j \in 1..k /\ j # 1 /\ j - 1 \in 1..(k - 1)
        BY <1>0, <3>1
      <3>3. IsRemove(n[j - 1], id)
        BY <1>2, <3>1, <3>2
      <3> QED
        BY <1>0, <3>2, <3>3 DEF HasRemove
    <2> QED
      BY <1>0, <2>1, <2>2 DEF RemovedLast
  <1> QED
    BY <1>4, <1>5, <1>6, <1>7, <1>8

\* An empty queue and a queue of one message.
LEMMA ShortQueues ==
    /\ <<>> \in Seq(Message)
    /\ \A id \in Token : ~HasPut(<<>>, id) /\ ~HasRemove(<<>>, id) /\ OnePut(<<>>, id)
    /\ \A id \in Token : \A x : ~Says(<<>>, id, x)
  BY DEF HasPut, HasRemove, OnePut, Says

LEMMA SingleQueue ==
    ASSUME NEW m \in Message
    PROVE  /\ <<m>> \in Seq(Message)
           /\ \A id \in Token : /\ HasPut(<<m>>, id) <=> IsPut(m, id)
                                /\ HasRemove(<<m>>, id) <=> IsRemove(m, id)
                                /\ OnePut(<<m>>, id)
           /\ \A id \in Token : \A x : Says(<<m>>, id, x) <=> IsPut(m, id) /\ x = ToldBy(m)
  <1> DEFINE q == <<m>>
  <1>1. q \in Seq(Message) /\ Len(q) = 1 /\ q[1] = m /\ 1..1 = {1}
    OBVIOUS
  <1> HIDE DEF q
  <1>2. \A id \in Token : /\ HasPut(q, id) <=> IsPut(m, id)
                          /\ HasRemove(q, id) <=> IsRemove(m, id)
                          /\ OnePut(q, id)
    BY <1>1 DEF HasPut, HasRemove, OnePut
  <1>3. \A id \in Token : \A x : Says(q, id, x) <=> IsPut(m, id) /\ x = ToldBy(m)
    BY <1>1 DEF Says
  <1> QED
    BY <1>1, <1>2, <1>3 DEF q

\* What a table says of a session it holds.
ToldIn(t, id) == [scope |-> t.sessions[id].scope, identity |-> t.sessions[id].identity,
                  created |-> t.sessions[id].created]

LEMMA MessageTypes ==
    /\ \A id \in Token, r \in SessionRecord : PutMsg(id, r) \in Message
    /\ \A from \in Token, to \in Token : RotateMsg(from, to) \in Message
    /\ \A id \in Token : RemoveMsg(id) \in Message
  BY DEF PutMsg, RotateMsg, RemoveMsg, Message, SessionRecord

LEMMA MessageKinds ==
    /\ \A id, r, x : IsPut(PutMsg(id, r), x) <=> x = id
    /\ \A id, r, x : ~IsRemove(PutMsg(id, r), x)
    /\ \A from, to, x : ~IsPut(RotateMsg(from, to), x) /\ ~IsRemove(RotateMsg(from, to), x)
    /\ \A id, x : ~IsPut(RemoveMsg(id), x) /\ (IsRemove(RemoveMsg(id), x) <=> x = id)
    /\ \A id, t : ToldBy(PutMsg(id, t.sessions[id])) = ToldIn(t, id)
  <1>1. \A id, r, x : IsPut(PutMsg(id, r), x) <=> x = id
    BY DEF IsPut, PutMsg
  <1>2. \A id, r, x : ~IsRemove(PutMsg(id, r), x)
    BY DEF IsRemove, PutMsg
  <1>3. \A from, to, x : ~IsPut(RotateMsg(from, to), x) /\ ~IsRemove(RotateMsg(from, to), x)
    BY DEF IsPut, IsRemove, RotateMsg
  <1>4. \A id, x : ~IsPut(RemoveMsg(id), x) /\ (IsRemove(RemoveMsg(id), x) <=> x = id)
    BY DEF IsPut, IsRemove, RemoveMsg
  <1>5. \A id, t : ToldBy(PutMsg(id, t.sessions[id])) = ToldIn(t, id)
    BY DEF ToldBy, PutMsg, ToldIn
  <1> QED
    BY <1>1, <1>2, <1>3, <1>4, <1>5

\* A message of a kind is the message of that kind, and says which session it is about.
LEMMA MessageForms ==
    ASSUME NEW m \in Message
    PROVE  /\ m.op \in {"put", "rotate", "remove"}
           /\ m.op = "put" => m.id \in Token /\ m.scope \in Scope /\ m.identity \in Identity
                              /\ m.created \in Nat
           /\ m.op = "rotate" => m.from \in Token /\ m.to \in Token
           /\ m.op = "remove" => m.id \in Token /\ m = RemoveMsg(m.id)
  <1>1. CASE m \in [op : {"put"}, id : Token, scope : Scope, identity : Identity, created : Nat]
    BY <1>1
  <1>2. CASE m \in [op : {"rotate"}, from : Token, to : Token]
    BY <1>2
  <1>3. CASE m \in [op : {"remove"}, id : Token]
    BY <1>3 DEF RemoveMsg
  <1> QED
    BY <1>1, <1>2, <1>3 DEF Message

\* The hand-offs on n, where n is q with r behind it.
JoinedHandoffs(n, q, r) ==
    /\ \A from, to \in Token :
          HasRotate(n, from, to) <=> HasRotate(q, from, to) \/ HasRotate(r, from, to)
    /\ /\ PutFirst(q) /\ PutFirst(r)
       /\ \A from, to \in Token : HasRotate(q, from, to) => ~HasPut(r, to)
       => PutFirst(n)

\* The hand-offs on n, where n is q without its head m.
TakenHandoffs(n, q, m) ==
    /\ \A from, to \in Token :
          HasRotate(q, from, to) <=> IsRotate(m, from, to) \/ HasRotate(n, from, to)
    /\ PutFirst(q) => /\ PutFirst(n)
                      /\ \A from, to \in Token : IsRotate(m, from, to) => ~HasPut(n, to)

LEMMA ConcatHandoffs ==
    ASSUME NEW q \in Seq(Message), NEW r \in Seq(Message)
    PROVE  JoinedHandoffs(q \o r, q, r)
  <1> DEFINE n == q \o r
             k == Len(q)
             l == Len(r)
  <1>0. /\ n \in Seq(Message) /\ Len(n) = k + l
        /\ \A i \in 1..(k + l) : n[i] = IF i =< k THEN q[i] ELSE r[i - k]
    BY ConcatProperties
  <1>00. k \in Nat /\ l \in Nat
    OBVIOUS
  <1> HIDE DEF n
  <1>1. \A i \in 1..k : i \in 1..(k + l) /\ n[i] = q[i]
    BY <1>0, <1>00
  <1>2. \A j \in 1..l : k + j \in 1..(k + l) /\ n[k + j] = r[j] /\ k + j > k
    BY <1>0, <1>00
  <1>3. \A i \in 1..(k + l) : \/ i \in 1..k /\ n[i] = q[i]
                              \/ i - k \in 1..l /\ n[i] = r[i - k] /\ i > k
    BY <1>0, <1>00
  <1> HIDE DEF k, l
  <1>l. k = Len(q) /\ l = Len(r)
    BY DEF k, l
  <1>4. ASSUME NEW from \in Token, NEW to \in Token
        PROVE  HasRotate(n, from, to) <=> HasRotate(q, from, to) \/ HasRotate(r, from, to)
    BY <1>0, <1>1, <1>2, <1>3, <1>l DEF HasRotate
  <1>5. ASSUME PutFirst(q), PutFirst(r),
               \A from, to \in Token : HasRotate(q, from, to) => ~HasPut(r, to)
        PROVE  PutFirst(n)
    <2> SUFFICES ASSUME NEW i \in 1..(k + l), NEW j \in 1..(k + l), n[i].op = "rotate",
                        IsPut(n[j], n[i].to)
                 PROVE  j < i
      BY <1>0 DEF PutFirst
    <2>1. PICK m \in Message : m = n[i]
      BY <1>0
    <2>2. PICK from \in Token, to \in Token : from = m.from /\ to = m.to
      BY <2>1, MessageForms
    <2>3. IsRotate(m, from, to) /\ IsPut(n[j], to)
      BY <2>1, <2>2 DEF IsRotate
    <2>4. CASE i \in 1..k /\ j \in 1..k
      <3>1. q[i].op = "rotate" /\ IsPut(q[j], q[i].to)
        BY <1>1, <2>4
      <3> QED
        BY <1>5, <1>l, <2>4, <3>1 DEF PutFirst
    <2>5. CASE i \in 1..k /\ j \notin 1..k
      <3>1. HasRotate(q, from, to)
        BY <1>1, <1>l, <2>1, <2>3, <2>5 DEF HasRotate
      <3>2. HasPut(r, to)
        BY <1>3, <1>l, <2>3, <2>5 DEF HasPut
      <3> QED
        BY <1>5, <3>1, <3>2
    <2>6. CASE i \notin 1..k /\ j \in 1..k
      BY <1>00, <2>6 DEF k
    <2>7. CASE i \notin 1..k /\ j \notin 1..k
      <3>1. PICK a, b : a = i - k /\ b = j - k
        OBVIOUS
      <3>2. a \in 1..l /\ b \in 1..l /\ n[i] = r[a] /\ n[j] = r[b]
        BY <1>3, <2>7, <3>1
      <3>3. r[a].op = "rotate" /\ IsPut(r[b], r[a].to)
        BY <3>2
      <3>4. b < a
        BY <1>5, <1>l, <3>2, <3>3 DEF PutFirst
      <3> QED
        BY <1>00, <3>1, <3>2, <3>4 DEF k, l
    <2> QED
      BY <2>4, <2>5, <2>6, <2>7
  <1> QED
    BY <1>4, <1>5 DEF JoinedHandoffs, n

LEMMA TailHandoffs ==
    ASSUME NEW q \in Seq(Message), q # <<>>
    PROVE  TakenHandoffs(Tail(q), q, Head(q))
  <1> DEFINE n == Tail(q)
             m == Head(q)
             k == Len(q)
  <1>0. /\ k \in Nat /\ k >= 1 /\ m \in Message /\ m = q[1] /\ n \in Seq(Message)
        /\ Len(n) = k - 1 /\ \A i \in 1..(k - 1) : n[i] = q[i + 1]
    OBVIOUS
  <1> HIDE DEF n, m, k
  <1>l. k = Len(q)
    BY DEF k
  <1>1. \A i \in 1..(k - 1) : i + 1 \in 1..k /\ n[i] = q[i + 1] /\ i + 1 # 1
    BY <1>0
  <1>2. \A i \in 1..k : \/ i = 1 /\ q[i] = m
                        \/ i - 1 \in 1..(k - 1) /\ q[i] = n[i - 1]
    BY <1>0
  <1>3. 1 \in 1..k
    BY <1>0
  <1>4. ASSUME NEW from \in Token, NEW to \in Token
        PROVE  HasRotate(q, from, to) <=> IsRotate(m, from, to) \/ HasRotate(n, from, to)
    BY <1>0, <1>1, <1>2, <1>3, <1>l DEF HasRotate
  <1>5. ASSUME PutFirst(q) PROVE PutFirst(n)
    <2> SUFFICES ASSUME NEW i \in 1..(k - 1), NEW j \in 1..(k - 1), n[i].op = "rotate",
                        IsPut(n[j], n[i].to)
                 PROVE  j < i
      BY <1>0 DEF PutFirst
    <2>1. PICK a, b : a = i + 1 /\ b = j + 1
      OBVIOUS
    <2>2. a \in 1..k /\ b \in 1..k /\ n[i] = q[a] /\ n[j] = q[b]
      BY <1>1, <2>1
    <2>3. q[a].op = "rotate" /\ IsPut(q[b], q[a].to)
      BY <2>2
    <2>4. b < a
      BY <1>5, <1>l, <2>2, <2>3 DEF PutFirst
    <2> QED
      BY <1>0, <2>1, <2>4
  <1>6. ASSUME PutFirst(q), NEW from \in Token, NEW to \in Token, IsRotate(m, from, to)
        PROVE  ~HasPut(n, to)
    <2> SUFFICES ASSUME NEW j \in 1..(k - 1), IsPut(n[j], to) PROVE FALSE
      BY <1>0 DEF HasPut
    <2>1. PICK b : b = j + 1
      OBVIOUS
    <2>2. b \in 1..k /\ n[j] = q[b] /\ b > 1
      BY <1>0, <1>1, <2>1
    <2>3. q[1].op = "rotate" /\ IsPut(q[b], q[1].to)
      BY <1>0, <1>6, <2>2 DEF IsRotate
    <2>4. b < 1
      BY <1>3, <1>6, <1>l, <2>2, <2>3 DEF PutFirst
    <2> QED
      BY <1>0, <2>1, <2>4
  <1> QED
    BY <1>4, <1>5, <1>6 DEF TakenHandoffs, n, m

\* The removals on n, where n is q with r behind it.
JoinedRemovals(n, q, r) ==
    \A id \in Token :
        Behind(q, id) /\ (Behind(r, id) \/ \E to \in Token : HasRotate(q, id, to)) => Behind(n, id)

\* The removals on n, where n is q without its head m.
TakenRemovals(n, q, m) ==
    \A id \in Token : Behind(q, id) =>
        /\ ~IsRemove(m, id)
        /\ Behind(n, id) \/ \E to \in Token : IsRotate(m, id, to)

LEMMA ConcatRemovals ==
    ASSUME NEW q \in Seq(Message), NEW r \in Seq(Message)
    PROVE  JoinedRemovals(q \o r, q, r)
  <1> DEFINE n == q \o r
             k == Len(q)
             l == Len(r)
  <1>0. /\ n \in Seq(Message) /\ Len(n) = k + l
        /\ \A i \in 1..(k + l) : n[i] = IF i =< k THEN q[i] ELSE r[i - k]
    BY ConcatProperties
  <1>00. k \in Nat /\ l \in Nat
    OBVIOUS
  <1> HIDE DEF n
  <1> SUFFICES ASSUME NEW id \in Token, Behind(q, id),
                      Behind(r, id) \/ \E to \in Token : HasRotate(q, id, to),
                      NEW i \in 1..(k + l), IsRemove(n[i], id)
               PROVE  \E j \in 1..(i - 1), to \in Token : IsRotate(n[j], id, to)
    BY <1>0 DEF JoinedRemovals, Behind, n
  <1>1. CASE i =< k
    <2>1. i \in 1..k /\ IsRemove(q[i], id)
      BY <1>0, <1>00, <1>1
    <2>2. PICK j \in 1..(i - 1), to \in Token : IsRotate(q[j], id, to)
      BY <2>1 DEF Behind
    <2>3. j \in 1..(k + l) /\ j =< k
      BY <1>00, <1>1
    <2> QED
      BY <1>0, <2>2, <2>3
  <1>2. CASE i > k
    <2>0. i - k \in 1..l
      BY <1>00, <1>2 DEF k, l
    <2>1. PICK a \in 1..l : a = i - k
      BY <2>0
    <2>2. IsRemove(r[a], id)
      BY <1>0, <1>00, <1>2, <2>1
    <2>3. CASE Behind(r, id)
      <3>1. PICK b \in 1..(a - 1), to \in Token : IsRotate(r[b], id, to)
        BY <2>2, <2>3 DEF Behind
      <3>2. k + b \in 1..(i - 1) /\ k + b \in 1..(k + l) /\ k + b > k /\ (k + b) - k = b
        BY <1>00, <2>1
      <3>3. n[k + b] = r[b]
        BY <1>0, <1>00, <3>2
      <3> QED
        BY <3>1, <3>2, <3>3
    <2>4. CASE \E to \in Token : HasRotate(q, id, to)
      <3>1. PICK to \in Token, j \in 1..k : IsRotate(q[j], id, to)
        BY <2>4 DEF HasRotate
      <3>2. j \in 1..(i - 1) /\ j \in 1..(k + l) /\ j =< k
        BY <1>00, <1>2
      <3> QED
        BY <1>0, <3>1, <3>2
    <2> QED
      BY <2>3, <2>4
  <1> QED
    BY <1>00, <1>1, <1>2

LEMMA TailRemovals ==
    ASSUME NEW q \in Seq(Message), q # <<>>
    PROVE  TakenRemovals(Tail(q), q, Head(q))
  <1> DEFINE n == Tail(q)
             m == Head(q)
             k == Len(q)
  <1>0. /\ k \in Nat /\ k >= 1 /\ m = q[1]
        /\ Len(n) = k - 1 /\ \A i \in 1..(k - 1) : n[i] = q[i + 1]
    OBVIOUS
  <1> HIDE DEF n, m
  <1> SUFFICES ASSUME NEW id \in Token, Behind(q, id)
               PROVE  /\ ~IsRemove(m, id)
                      /\ Behind(n, id) \/ \E to \in Token : IsRotate(m, id, to)
    BY DEF TakenRemovals, n, m
  <1>1. ~IsRemove(m, id)
    <2>1. 1 \in 1..k /\ \A j \in 1..(1 - 1) : FALSE
      BY <1>0
    <2> QED
      BY <1>0, <2>1 DEF Behind
  <1>2. ASSUME \A to \in Token : ~IsRotate(m, id, to), NEW i \in 1..(k - 1), IsRemove(n[i], id)
        PROVE  \E j \in 1..(i - 1), to \in Token : IsRotate(n[j], id, to)
    <2>1. PICK a \in 1..k : a = i + 1
      BY <1>0
    <2>2. IsRemove(q[a], id)
      BY <1>0, <1>2, <2>1
    <2>3. PICK b \in 1..(a - 1), to \in Token : IsRotate(q[b], id, to)
      BY <2>2 DEF Behind
    <2>4. b # 1
      BY <1>0, <1>2, <2>3
    <2>5. b - 1 \in 1..(i - 1) /\ b - 1 \in 1..(k - 1) /\ (b - 1) + 1 = b
      BY <1>0, <2>1, <2>4
    <2>6. n[b - 1] = q[b]
      BY <1>0, <2>5
    <2> QED
      BY <2>3, <2>5, <2>6
  <1> QED
    BY <1>0, <1>1, <1>2 DEF Behind

LEMMA NoRemovalBehind ==
    ASSUME NEW q, NEW id, ~HasRemove(q, id)
    PROVE  Behind(q, id)
  BY DEF HasRemove, Behind

\* A queue of one message, and what no rotation is.
LEMMA SingleHandoff ==
    ASSUME NEW m \in Message
    PROVE  /\ \A from, to \in Token : HasRotate(<<m>>, from, to) <=> IsRotate(m, from, to)
           /\ PutFirst(<<m>>)
  <1> DEFINE q == <<m>>
  <1>1. q \in Seq(Message) /\ Len(q) = 1 /\ q[1] = m /\ 1..1 = {1}
    OBVIOUS
  <1> HIDE DEF q
  <1>2. \A from, to \in Token : HasRotate(q, from, to) <=> IsRotate(m, from, to)
    BY <1>1 DEF HasRotate
  <1>3. PutFirst(q)
    BY <1>1 DEF PutFirst, IsPut
  <1> QED
    BY <1>2, <1>3 DEF q

LEMMA NoHandoffInside ==
    ASSUME NEW q \in Seq(Message), \A i \in 1..Len(q) : q[i].op # "rotate"
    PROVE  PutFirst(q) /\ \A from, to \in Token : ~HasRotate(q, from, to)
  BY DEF PutFirst, HasRotate, IsRotate

LEMMA NothingHanded == PutFirst(<<>>) /\ \A from, to \in Token : ~HasRotate(<<>>, from, to)
  BY DEF PutFirst, HasRotate, IsRotate

LEMMA HandoffKinds ==
    /\ \A id, r, from, to : ~IsRotate(PutMsg(id, r), from, to)
    /\ \A id, from, to : ~IsRotate(RemoveMsg(id), from, to)
    /\ \A a, b, from, to : IsRotate(RotateMsg(a, b), from, to) <=> a = from /\ b = to
  BY DEF IsRotate, PutMsg, RemoveMsg, RotateMsg

(***************************************************************************)
(* What the steps do to the hand-offs.                                     *)
(***************************************************************************)
\* u is t without the hand-offs that led to the sessions gone, those out of their window
\* and those that lead nowhere.
Prunes(t, u, gone) ==
    /\ \A f \in DOMAIN u.rotations : f \in DOMAIN t.rotations /\ u.rotations[f] = t.rotations[f]
    /\ \A f \in DOMAIN t.rotations : f \notin DOMAIN u.rotations =>
          \/ now - t.rotations[f].at > Grace
          \/ t.rotations[f].to \notin Held(t)
          \/ \E x \in gone : t.sessions[x].rotatedFrom = f

\* u is t after m.
Hears(t, u, m) ==
    /\ \A f \in DOMAIN u.rotations :
          \/ f \in DOMAIN t.rotations /\ u.rotations[f] = t.rotations[f]
          \/ IsRotate(m, f, u.rotations[f].to) /\ u.rotations[f].at = now
    /\ \A f \in DOMAIN t.rotations : f \notin DOMAIN u.rotations =>
          \E x \in Held(t) : IsRemove(m, x) /\ t.sessions[x].rotatedFrom = f
    /\ \A x \in Held(u) :
          \/ u.sessions[x].rotatedFrom = NoToken
          \/ x \in Held(t) /\ u.sessions[x].rotatedFrom = t.sessions[x].rotatedFrom
          \/ IsRotate(m, u.sessions[x].rotatedFrom, x)
    /\ \A f, to \in Token : IsRotate(m, f, to) => f \in DOMAIN u.rotations

\* Nobody is handed anything; only the credentials new are minted.
NoHandoff(new) == handed' = handed /\ \A t \in Token : t \notin new => replaced'[t] = replaced[t]

\* What an edge does that elevates nobody.
Trims(e, gone, new, msgs) ==
    /\ Prunes(table[e], table'[e], gone)
    /\ \A id \in new : /\ table'[e].sessions[id].rotatedFrom = NoToken
                       /\ table'[e].sessions[id].created = now
    /\ PutFirst(msgs) /\ \A from, to \in Token : ~HasRotate(msgs, from, to)
    /\ \A id \in Token : HasRemove(msgs, id) => id \in ended' \cup signedOut'
    /\ NoHandoff(new)

\* What an edge does that elevates previous to next.
Hands(e, previous, next, keep, msgs) ==
    /\ previous \in Held(table[e]) /\ next \in Fresh /\ keep \in BOOLEAN
    /\ DOMAIN table[e].rotations \subseteq DOMAIN table'[e].rotations
    /\ \A f \in DOMAIN table'[e].rotations :
          \/ f \in DOMAIN table[e].rotations /\ table'[e].rotations[f] = table[e].rotations[f]
          \/ keep /\ f = previous /\ table'[e].rotations[f] = [to |-> next, at |-> now]
          \/ keep /\ f = table[e].sessions[previous].rotatedFrom
    /\ \/ table'[e].sessions[next].rotatedFrom = table[e].sessions[previous].rotatedFrom
       \/ keep /\ table'[e].sessions[next].rotatedFrom = previous
    /\ table'[e].sessions[next].created = now
    /\ PutFirst(msgs)
    /\ \A from, to \in Token :
          HasRotate(msgs, from, to) <=> keep /\ from = previous /\ to = next
    /\ \A id \in Token : /\ HasRemove(msgs, id) => id = previous
                         /\ keep => Behind(msgs, id)
    /\ handed' = IF keep THEN handed \cup {next} ELSE handed
    /\ replaced' = [replaced EXCEPT ![next] = previous]

LEMMA ForgetPrunes ==
    ASSUME NEW t, NEW ids
    PROVE  Prunes(t, Forget(t, ids), ids)
  <1>1. Forget(t, ids).rotations
            = Without(t.rotations, {t.sessions[id].rotatedFrom : id \in ids})
    BY DEF Forget
  <1> QED
    BY <1>1 DEF Prunes, Without

LEMMA PurgePrunes ==
    ASSUME NEW t, IsTable(t), now \in Nat
    PROVE  Prunes(t, PurgeExpired(t, now), Reclaimed(t, now))
  <1> DEFINE gone == Reclaimed(t, now)
             kept == KeptRotations(t, now)
             u    == PurgeExpired(t, now)
  <1>1. u.rotations = Without(Restrict(t.rotations, kept),
                              {t.sessions[id].rotatedFrom : id \in gone})
    BY DEF PurgeExpired, Forget
  <1>2. \A f : f \in kept <=> /\ f \in DOMAIN t.rotations
                              /\ now - t.rotations[f].at =< Grace
                              /\ t.rotations[f].to \in Held(t)
    BY DEF KeptRotations
  <1> HIDE DEF gone, kept, u
  <1>3. /\ DOMAIN u.rotations = kept \ {t.sessions[id].rotatedFrom : id \in gone}
        /\ \A f \in DOMAIN u.rotations : u.rotations[f] = t.rotations[f]
    BY <1>1 DEF Restrict, Without
  <1>4. \A f \in DOMAIN t.rotations :
           ~(now - t.rotations[f].at =< Grace) => now - t.rotations[f].at > Grace
    <2>1. \A f \in DOMAIN t.rotations : t.rotations[f].at \in Nat
      BY DEF IsTable, Rotation
    <2> QED
      BY <2>1, TableAssumption
  <1> QED
    BY <1>2, <1>3, <1>4 DEF Prunes, gone, u

\* createSession sweeps, evicts, and inserts a record that replaced nothing.
LEMMA CreatePrunes ==
    ASSUME NEW t, IsTable(t), NEW id \in Token, id \notin Held(t), NEW scope \in Scope,
           NEW identity \in Identity, now \in Nat, NEW inUse,
           NEW made, made = CreateSession(t, id, scope, identity, now, inUse)
    PROVE  /\ Prunes(t, made.table, made.expired \cup made.evicted)
           /\ made.ok => /\ made.table.sessions[id].rotatedFrom = NoToken
                         /\ made.table.sessions[id].created = now
  <1> DEFINE swept  == PurgeExpired(t, now)
             admitted == HasRoom(swept, inUse)
             evicts == AtCeiling(swept) /\ admitted
             v == Victim(swept, inUse)
             roomy  == IF evicts THEN EvictOne(swept, inUse) ELSE swept
             record == [scope |-> scope, identity |-> identity,
                        created |-> now, rotatedFrom |-> NoToken]
  <1>1. /\ made.ok = admitted
        /\ made.expired = Reclaimed(t, now)
        /\ made.evicted = IF evicts THEN {v} ELSE {}
        /\ made.table = IF admitted THEN Insert(roomy, id, record) ELSE roomy
    BY DEF CreateSession
  <1>2. /\ IsTable(swept) /\ Held(swept) \subseteq Held(t)
        /\ \A x \in Held(swept) : swept.sessions[x] = t.sessions[x]
        /\ Prunes(t, swept, made.expired)
    BY <1>1, PurgeProperties, PurgePrunes
  <1>3. record \in SessionRecord /\ record.rotatedFrom = NoToken /\ record.created = now
    BY DEF SessionRecord
  <1>4. evicts => /\ IsTable(EvictOne(swept, inUse)) /\ v \in Held(swept)
                  /\ Held(EvictOne(swept, inUse)) = Held(swept) \ {v}
                  /\ EvictOne(swept, inUse).rotations
                        = Without(swept.rotations, {swept.sessions[x].rotatedFrom : x \in {v}})
    <2> SUFFICES ASSUME evicts
                 PROVE  /\ IsTable(EvictOne(swept, inUse)) /\ v \in Held(swept)
                        /\ Held(EvictOne(swept, inUse)) = Held(swept) \ {v}
                        /\ EvictOne(swept, inUse).rotations
                              = Without(swept.rotations, {swept.sessions[x].rotatedFrom : x \in {v}})
      OBVIOUS
    <2>1. EvictableHints(swept, inUse) # {}
      BY DEF HasRoom
    <2>2. IsTable(EvictOne(swept, inUse)) /\ v \in Held(swept)
          /\ Held(EvictOne(swept, inUse)) = Held(swept) \ {v}
      BY <1>2, <2>1, EvictProperties
    <2> QED
      BY <2>2 DEF EvictOne, Forget
  <1> HIDE DEF swept, admitted, record, v
  <1>5. /\ IsTable(roomy)
        /\ \A f \in DOMAIN roomy.rotations :
              f \in DOMAIN swept.rotations /\ roomy.rotations[f] = swept.rotations[f]
        /\ \A f \in DOMAIN swept.rotations : f \notin DOMAIN roomy.rotations =>
              \E x \in made.evicted : t.sessions[x].rotatedFrom = f
    <2>1. CASE evicts
      <3>1. roomy.rotations = Without(swept.rotations, {swept.sessions[x].rotatedFrom : x \in {v}})
            /\ IsTable(roomy) /\ v \in Held(swept) /\ made.evicted = {v}
        BY <1>1, <1>4, <2>1
      <3>2. swept.sessions[v] = t.sessions[v]
        BY <1>2, <3>1
      <3> HIDE DEF roomy, evicts
      <3> QED
        BY <3>1, <3>2 DEF Without
    <2>2. CASE ~evicts
      BY <1>2, <2>2
    <2> QED
      BY <2>1, <2>2
  <1> HIDE DEF roomy, evicts
  <1>6. Prunes(t, roomy, made.expired \cup made.evicted)
    BY <1>2, <1>5 DEF Prunes
  <1>7. CASE admitted
    <2>1. made.table.rotations = roomy.rotations /\ made.table.sessions[id] = record
      BY <1>1, <1>3, <1>5, <1>7, InsertProperties
    <2> QED
      BY <1>3, <1>6, <2>1 DEF Prunes
  <1>8. CASE ~admitted
    BY <1>1, <1>6, <1>8
  <1> QED
    BY <1>7, <1>8

\* setScope keeps every hand-off, but for the one that led to the session: it is moved along.
LEMMA SetScopeHands ==
    ASSUME NEW t, IsTable(t), NEW previous \in Held(t), NEW next \in Token,
           next \notin Held(t), NEW scope, NEW identity, NEW keep \in BOOLEAN,
           NEW u, u = SetScope(t, previous, next, scope, identity, keep, now)
    PROVE  /\ DOMAIN t.rotations \subseteq DOMAIN u.rotations
           /\ \A f \in DOMAIN u.rotations :
                 \/ f \in DOMAIN t.rotations /\ u.rotations[f] = t.rotations[f]
                 \/ keep /\ f = previous /\ u.rotations[f] = [to |-> next, at |-> now]
                 \/ keep /\ f = t.sessions[previous].rotatedFrom
           /\ \/ u.sessions[next].rotatedFrom = t.sessions[previous].rotatedFrom
              \/ keep /\ u.sessions[next].rotatedFrom = previous
           /\ u.sessions[next].created = now
  <1> DEFINE was    == t.sessions[previous]
             record == [scope |-> scope,
                        identity |-> IF identity = Nobody THEN was.identity ELSE identity,
                        created |-> now,
                        rotatedFrom |-> IF keep THEN previous ELSE was.rotatedFrom]
             linkd == Put(t.rotations, previous, [to |-> next, at |-> now])
             led    == IF ~keep THEN t.rotations
                       ELSE IF was.rotatedFrom \in DOMAIN linkd
                       THEN Put(linkd, was.rotatedFrom,
                                [to |-> next, at |-> linkd[was.rotatedFrom].at])
                       ELSE linkd
  <1>1. u.sessions[next] = record /\ u.rotations = led
    BY DEF SetScope, Insert, Put
  <1>2. /\ DOMAIN linkd = DOMAIN t.rotations \cup {previous}
        /\ linkd[previous] = [to |-> next, at |-> now]
        /\ \A f \in DOMAIN t.rotations : f # previous => linkd[f] = t.rotations[f]
    BY DEF Put
  <1>3. /\ record.created = now
        /\ record.rotatedFrom = IF keep THEN previous ELSE was.rotatedFrom
    OBVIOUS
  <1> HIDE DEF linkd, was, record
  <1>4. CASE ~keep
    BY <1>1, <1>3, <1>4 DEF was
  <1>5. CASE keep /\ was.rotatedFrom \notin DOMAIN linkd
    BY <1>1, <1>2, <1>3, <1>5 DEF was
  <1>6. CASE keep /\ was.rotatedFrom \in DOMAIN linkd
    <2>1. /\ DOMAIN led = DOMAIN linkd
          /\ \A f \in DOMAIN linkd : f # was.rotatedFrom => led[f] = linkd[f]
      BY <1>6 DEF Put
    <2> HIDE DEF led
    <2> QED
      BY <1>1, <1>2, <1>3, <1>6, <2>1 DEF was
  <1> QED
    BY <1>4, <1>5, <1>6

\* applyUpsert, applyRotation and applyRemove.
LEMMA ApplyHears ==
    ASSUME NEW t, IsTable(t), NEW m \in Message, now \in Nat
    PROVE  Hears(t, Apply(t, m), m)
  <1> DEFINE u == Apply(t, m)
  <1>0. Held(t) \subseteq Token /\ DOMAIN t.rotations \subseteq Token
    BY DEF IsTable, Held
  <1>1. CASE m.op = "put"
    <2>1. m.id \in Token /\ m.scope \in Scope /\ m.identity \in Identity /\ m.created \in Nat
      BY <1>1, MessageForms
    <2>a. PICK sc \in Scope, i \in Identity, c \in Nat :
             sc = m.scope /\ i = m.identity /\ c = m.created
      BY <2>1
    <2>b. [scope |-> sc, identity |-> i, created |-> c, rotatedFrom |-> NoToken] \in SessionRecord
      BY DEF SessionRecord
    <2>2. PICK r \in SessionRecord : /\ r = [scope |-> m.scope, identity |-> m.identity,
                                             created |-> m.created, rotatedFrom |-> NoToken]
                                     /\ r.rotatedFrom = NoToken
      BY <2>a, <2>b
    <2>3. u = Insert(t, m.id, r)
      BY <1>1, <2>2 DEF Apply, Changes, ApplyUpsert
    <2>4. PICK id : id = m.id
      OBVIOUS
    <2>5. /\ u.rotations = t.rotations /\ Held(u) = Held(t) \cup {id} /\ u.sessions[id] = r
          /\ \A x \in Held(t) \ {id} : u.sessions[x] = t.sessions[x]
      BY <2>1, <2>3, <2>4, InsertProperties
    <2>6. \A f, x : ~IsRotate(m, f, x)
      BY <1>1 DEF IsRotate
    <2> HIDE DEF u
    <2> QED
      BY <2>2, <2>5, <2>6 DEF Hears, u
  <1>2. CASE m.op = "rotate"
    <2>1. PICK from \in Token, to \in Token : from = m.from /\ to = m.to
      BY <1>2, MessageForms
    <2>2. \A f, x : IsRotate(m, f, x) <=> f = from /\ x = to
      BY <1>2, <2>1 DEF IsRotate
    <2>3. CASE from \in DOMAIN t.rotations
      <3>1. u = t
        BY <1>2, <2>1, <2>3 DEF Apply, Changes
      <3> QED
        BY <2>2, <2>3, <3>1 DEF Hears
    <2>4. CASE from \notin DOMAIN t.rotations
      <3>1. u = ApplyRotation(t, m)
        BY <1>2, <2>1, <2>4 DEF Apply, Changes
      <3>2. PICK ss, rs :
               /\ ss = IF to \in Held(t) THEN [t.sessions EXCEPT ![to].rotatedFrom = from]
                                         ELSE t.sessions
               /\ rs = Put(t.rotations, from, [to |-> to, at |-> now])
        OBVIOUS
      <3>3. u.sessions = ss /\ u.rotations = rs
        BY <2>1, <3>1, <3>2 DEF ApplyRotation
      <3>4. /\ DOMAIN rs = DOMAIN t.rotations \cup {from}
            /\ rs[from].to = to /\ rs[from].at = now
            /\ \A f \in DOMAIN t.rotations : rs[f] = t.rotations[f]
        BY <2>4, <3>2 DEF Put
      <3>5. /\ DOMAIN ss = DOMAIN t.sessions
            /\ \A x \in DOMAIN ss : x # to => ss[x] = t.sessions[x]
            /\ to \in DOMAIN ss => ss[to].rotatedFrom = from
        <4>1. t.sessions \in [DOMAIN t.sessions -> SessionRecord]
          BY DEF IsTable
        <4>2. CASE to \notin Held(t)
          BY <3>2, <4>2 DEF Held
        <4>3. CASE to \in Held(t)
          <5>1. PICK r : r = [t.sessions[to] EXCEPT !.rotatedFrom = from]
            OBVIOUS
          <5>2. ss = [t.sessions EXCEPT ![to] = r]
            BY <3>2, <4>3, <5>1
          <5>3. r.rotatedFrom = from
            BY <4>1, <4>3, <5>1 DEF SessionRecord, Held
          <5> QED
            BY <4>1, <4>3, <5>2, <5>3 DEF Held
        <4> QED
          BY <4>2, <4>3
      <3> HIDE DEF u
      <3>6. \A f \in DOMAIN u.rotations :
               \/ f \in DOMAIN t.rotations /\ u.rotations[f] = t.rotations[f]
               \/ IsRotate(m, f, u.rotations[f].to) /\ u.rotations[f].at = now
        BY <2>2, <3>3, <3>4
      <3>7. \A x \in Held(u) :
               \/ x \in Held(t) /\ u.sessions[x].rotatedFrom = t.sessions[x].rotatedFrom
               \/ IsRotate(m, u.sessions[x].rotatedFrom, x)
        BY <2>2, <3>3, <3>5 DEF Held
      <3> QED
        BY <2>2, <3>3, <3>4, <3>6, <3>7 DEF Hears, u
    <2> QED
      BY <2>3, <2>4
  <1>3. CASE m.op = "remove"
    <2>0. PICK id : id = m.id
      OBVIOUS
    <2>1. \A x : (IsRemove(m, x) <=> x = id) /\ \A f : ~IsRotate(m, f, x)
      BY <1>3, <2>0 DEF IsRemove, IsRotate
    <2>2. CASE id \notin Held(t)
      <3>1. u = t
        BY <1>3, <2>0, <2>2 DEF Apply, Changes
      <3> QED
        BY <2>1, <3>1 DEF Hears
    <2>3. CASE id \in Held(t)
      <3>1. PICK ids : ids = {id}
        OBVIOUS
      <3>2. u = Forget(t, ids) /\ ids \subseteq Held(t)
        BY <1>3, <2>0, <2>3, <3>1 DEF Apply, Changes
      <3>3. /\ Held(u) = Held(t) \ ids
            /\ \A x \in Held(t) \ ids : u.sessions[x] = t.sessions[x]
        BY <3>2, ForgetProperties
      <3>4. u.rotations = Without(t.rotations, {t.sessions[x].rotatedFrom : x \in ids})
        BY <3>2 DEF Forget
      <3> HIDE DEF u
      <3>5. /\ \A f \in DOMAIN u.rotations : f \in DOMAIN t.rotations /\ u.rotations[f] = t.rotations[f]
            /\ \A f \in DOMAIN t.rotations : f \notin DOMAIN u.rotations =>
                  t.sessions[id].rotatedFrom = f
        BY <3>1, <3>4 DEF Without
      <3> QED
        BY <2>1, <2>3, <3>1, <3>3, <3>5 DEF Hears, u
    <2> QED
      BY <2>2, <2>3
  <1> QED
    BY <1>1, <1>2, <1>3, MessageForms

(***************************************************************************)
(* The steps.                                                              *)
(***************************************************************************)
\* An edge changes its own table, forgetting gone and creating new, and tells the store.
Acts(e, gone, new, msgs) ==
    /\ e \in Edge /\ gone \subseteq Held(table[e]) /\ new \subseteq Fresh
    /\ DOMAIN table' = Process /\ IsTable(table'[e])
    /\ \A p \in Process \ {e} : table'[p] = table[p]
    /\ Held(table'[e]) = (Held(table[e]) \ gone) \cup new
    /\ \A id \in Held(table[e]) \ gone : table'[e].sessions[id] = table[e].sessions[id]
    /\ msgs \in Seq(Message)
    /\ up' \in [Edge -> Seq(Message)]
    /\ \A d \in Edge \ {e} : up'[d] = up[d]
    /\ linked[e] => up'[e] = up[e] \o msgs
    /\ ~linked[e] => up'[e] = up[e]
    /\ \A id \in Token : /\ HasPut(msgs, id) <=> id \in new
                         /\ OnePut(msgs, id)
                         /\ \A x : Says(msgs, id, x) => x = ToldIn(table'[e], id)
                         /\ HasRemove(msgs, id) => id \in Minted
    /\ \A id \in gone : Expired(table[e].sessions[id].created, now) \/ HasRemove(msgs, id)
    /\ Minted' = Minted \cup new
    /\ ended \subseteq ended'
    /\ \A id \in ended' \ ended : id \in Held(table[e]) /\ HasRemove(msgs, id)
    /\ \A b \in Browser : cookie'[b] \in {cookie[b], NoToken} \cup new
    /\ UNCHANGED <<down, linked, now>>

\* Whoever sweeps forgets only what is past its TTL.
LEMMA ReclaimedIsExpired ==
    ASSUME NEW t, IsTable(t), NEW at \in Nat, NEW id \in Reclaimed(t, at)
    PROVE  id \in Held(t) /\ Expired(t.sessions[id].created, at)
  <1>1. PICK i \in 1..Drained(t.queue, at) : t.queue[i].id = id /\ Matches(t, t.queue[i])
    BY DEF Reclaimed
  <1>2. Expired(t.queue[i].created, at)
    BY <1>1, DrainedProperties DEF IsTable
  <1> QED
    BY <1>1, <1>2 DEF Matches, Reclaimed

\* createSession evicts one session at most.
LEMMA OneIsEvicted ==
    ASSUME NEW t, NEW id, NEW scope, NEW identity, NEW at, NEW inUse,
           NEW made, made = CreateSession(t, id, scope, identity, at, inUse),
           NEW v \in made.evicted, NEW w \in made.evicted
    PROVE  v = w
  BY DEF CreateSession

LEMMA EvictionsTold ==
    ASSUME NEW evicted, evicted \subseteq Token, \A v, w \in evicted : v = w
    PROVE  /\ Evictions(evicted) \in Seq(Message)
           /\ \A id \in Token : /\ ~HasPut(Evictions(evicted), id)
                                /\ OnePut(Evictions(evicted), id)
                                /\ HasRemove(Evictions(evicted), id) <=> id \in evicted
           /\ \A id \in Token : \A x : ~Says(Evictions(evicted), id, x)
  <1>1. CASE evicted = {}
    <2>1. Evictions(evicted) = <<>>
      BY <1>1 DEF Evictions
    <2> QED
      BY <1>1, <2>1, ShortQueues
  <1>2. CASE evicted # {}
    <2>1. PICK v : v = CHOOSE w \in evicted : TRUE
      OBVIOUS
    <2>2. v \in Token /\ evicted = {v}
      BY <1>2, <2>1
    <2>3. Evictions(evicted) = <<RemoveMsg(v)>>
      BY <1>2, <2>1 DEF Evictions
    <2>4. RemoveMsg(v) \in Message
      BY <2>2, MessageTypes
    <2>5. PICK m \in Message : m = RemoveMsg(v)
      BY <2>4
    <2>6. \A x : ~IsPut(m, x) /\ (IsRemove(m, x) <=> x = v)
      BY <2>5, MessageKinds
    <2>7. Evictions(evicted) = <<m>>
      BY <2>3, <2>5
    <2> QED
      BY <2>2, <2>6, <2>7, SingleQueue
  <1> QED
    BY <1>1, <1>2

LEMMA EvictionsHandNothing ==
    ASSUME NEW evicted, evicted \subseteq Token, \A v, w \in evicted : v = w
    PROVE  /\ PutFirst(Evictions(evicted))
           /\ \A from, to \in Token : ~HasRotate(Evictions(evicted), from, to)
  <1>1. CASE evicted = {}
    <2>1. Evictions(evicted) = <<>>
      BY <1>1 DEF Evictions
    <2> QED
      BY <2>1, NothingHanded
  <1>2. CASE evicted # {}
    <2>1. PICK v : v = CHOOSE w \in evicted : TRUE
      OBVIOUS
    <2>2. v \in Token
      BY <1>2, <2>1
    <2>3. PICK m \in Message : m = RemoveMsg(v)
      BY <2>2, MessageTypes
    <2>4. Evictions(evicted) = <<m>>
      BY <1>2, <2>1, <2>3 DEF Evictions
    <2>5. \A from, to : ~IsRotate(m, from, to)
      BY <2>3, HandoffKinds
    <2> QED
      BY <2>4, <2>5, SingleHandoff
  <1> QED
    BY <1>1, <1>2

\* The credentials minted after a step that mints one.
LEMMA MintingOne ==
    ASSUME replaced \in [Token -> Token \cup {NoToken}], NEW id \in Token, NEW by \in Token,
           replaced' = [replaced EXCEPT ![id] = by]
    PROVE  Minted' = Minted \cup {id}
  BY TableAssumption DEF Minted, Fresh

LEMMA IssueActs ==
    ASSUME TypeOK, NamesAreMinted, NEW b \in Browser, NEW e \in Edge, NEW scope \in Scope,
           NEW identity \in Identity, Issue(b, e, scope, identity)
    PROVE  \E gone, new, msgs : Acts(e, gone, new, msgs) /\ Trims(e, gone, new, msgs)
  <1> USE DEF TypeOK
  <1>0. e \in Process /\ IsTable(table[e])
    BY DEF Process
  <1>1. PICK id, made :
            /\ id \in Fresh
            /\ made = CreateSession(table[e], id, scope, identity, now, InUse(e))
            /\ table' = [table EXCEPT ![e] = made.table]
            /\ Send(e, Evictions(made.evicted)
                       \o IF made.ok THEN <<PutMsg(id, made.table.sessions[id])>> ELSE <<>>)
            /\ cookie' = IF made.ok THEN [cookie EXCEPT ![b] = id] ELSE cookie
            /\ replaced' = IF made.ok THEN [replaced EXCEPT ![id] = id] ELSE replaced
            /\ ended' = ended \cup made.evicted
            /\ UNCHANGED <<down, linked, now, handed>>
    BY DEF Issue
  <1>2. id \in Token /\ id \notin Held(table[e])
    BY <1>0, <1>1 DEF Fresh, NamesAreMinted, Minted
  <1>3. /\ IsTable(made.table)
        /\ made.expired = Reclaimed(table[e], now)
        /\ made.expired \subseteq Held(table[e]) /\ made.evicted \subseteq Held(table[e])
        /\ Held(made.table) = (Held(table[e]) \ (made.expired \cup made.evicted))
                                  \cup (IF made.ok THEN {id} ELSE {})
        /\ \A x \in Held(made.table) \ {id} : made.table.sessions[x] = table[e].sessions[x]
    BY <1>0, <1>1, <1>2, CreateProperties
  <1>4. \A v \in made.expired : Expired(table[e].sessions[v].created, now)
    BY <1>0, <1>3, ReclaimedIsExpired
  <1>5. \A v, w \in made.evicted : v = w
    BY <1>1, OneIsEvicted
  <1> DEFINE gone == made.expired \cup made.evicted
             new  == IF made.ok THEN {id} ELSE {}
             told == Evictions(made.evicted)
             put  == IF made.ok THEN <<PutMsg(id, made.table.sessions[id])>> ELSE <<>>
             msgs == told \o put
  <1>6. /\ told \in Seq(Message)
        /\ \A x \in Token : /\ ~HasPut(told, x) /\ OnePut(told, x)
                            /\ HasRemove(told, x) <=> x \in made.evicted
        /\ \A x \in Token : \A y : ~Says(told, x, y)
    BY <1>0, <1>3, <1>5, EvictionsTold DEF IsTable, Held
  <1>7. /\ put \in Seq(Message)
        /\ \A x \in Token : /\ HasPut(put, x) <=> x \in new
                            /\ ~HasRemove(put, x) /\ OnePut(put, x)
        /\ \A x \in Token : \A y : Says(put, x, y) => y = ToldIn(made.table, x)
    <2>1. CASE ~made.ok
      BY <2>1, ShortQueues
    <2>2. CASE made.ok
      <3>1. made.table.sessions[id] \in SessionRecord
        BY <1>3, <2>2 DEF IsTable, Held
      <3>2. PICK m \in Message : m = PutMsg(id, made.table.sessions[id])
        BY <1>2, <3>1, MessageTypes
      <3>3. /\ \A x : (IsPut(m, x) <=> x = id) /\ ~IsRemove(m, x)
            /\ ToldBy(m) = ToldIn(made.table, id)
        BY <3>2, MessageKinds
      <3>4. put = <<m>> /\ new = {id}
        BY <2>2, <3>2
      <3> HIDE DEF put, new
      <3> QED
        BY <3>3, <3>4, SingleQueue
    <2> QED
      BY <2>1, <2>2
  <1>67. PutFirst(put) /\ \A from, to \in Token : ~HasRotate(put, from, to)
    <2>1. CASE ~made.ok
      <3>1. put = <<>>
        BY <2>1
      <3> HIDE DEF put
      <3> QED
        BY <3>1, NothingHanded
    <2>2. CASE made.ok
      <3>1. made.table.sessions[id] \in SessionRecord
        BY <1>3, <2>2 DEF IsTable, Held
      <3>2. PICK m \in Message : m = PutMsg(id, made.table.sessions[id])
        BY <1>2, <3>1, MessageTypes
      <3>3. \A from, to : ~IsRotate(m, from, to)
        BY <3>2, HandoffKinds
      <3>4. put = <<m>>
        BY <2>2, <3>2
      <3> HIDE DEF put
      <3> QED
        BY <3>3, <3>4, SingleHandoff
    <2> QED
      BY <2>1, <2>2
  <1>68. PutFirst(told) /\ \A from, to \in Token : ~HasRotate(told, from, to)
    BY <1>0, <1>3, <1>5, EvictionsHandNothing DEF IsTable, Held
  <1> HIDE DEF told, put
  <1>8. /\ msgs \in Seq(Message) /\ Joined(msgs, told, put)
        /\ PutFirst(msgs) /\ \A from, to \in Token : ~HasRotate(msgs, from, to)
    <2>1. msgs \in Seq(Message) /\ Joined(msgs, told, put) /\ JoinedHandoffs(msgs, told, put)
      BY <1>6, <1>7, ConcatJoins, ConcatHandoffs
    <2> HIDE DEF msgs
    <2> QED
      BY <1>67, <1>68, <2>1 DEF JoinedHandoffs
  <1>9. \A x \in Token : /\ HasPut(msgs, x) <=> x \in new
                         /\ OnePut(msgs, x)
                         /\ HasRemove(msgs, x) <=> x \in made.evicted
                         /\ \A y : Says(msgs, x, y) => y = ToldIn(made.table, x)
    <2> HIDE DEF new, msgs
    <2> QED
      BY <1>6, <1>7, <1>8 DEF Joined
  <1>10. Held(table[e]) \subseteq Token /\ Held(table[e]) \subseteq Minted
    BY <1>0 DEF IsTable, Held, NamesAreMinted
  <1>11. /\ up' \in [Edge -> Seq(Message)]
         /\ \A d \in Edge \ {e} : up'[d] = up[d]
         /\ linked[e] => up'[e] = up[e] \o msgs
         /\ ~linked[e] => up'[e] = up[e]
    <2>1. Send(e, msgs)
      BY <1>1 DEF told, put
    <2> HIDE DEF msgs
    <2>2. up[e] \o msgs \in Seq(Message)
      BY <1>8, ConcatProperties
    <2> QED
      BY <2>1, <2>2 DEF Send
  <1> HIDE DEF msgs
  <1>12. Minted' = Minted \cup new
    <2>1. CASE made.ok
      BY <1>1, <1>2, <2>1, MintingOne
    <2>2. CASE ~made.ok
      BY <1>1, <2>2 DEF Minted, Fresh
    <2> QED
      BY <2>1, <2>2
  <1>13. \A c \in Browser : cookie'[c] \in {cookie[c], NoToken} \cup new
    BY <1>1
  <1>14. /\ DOMAIN table' = Process /\ table'[e] = made.table
         /\ \A p \in Process \ {e} : table'[p] = table[p]
    BY <1>0, <1>1
  <1>15. \A x \in gone : Expired(table[e].sessions[x].created, now) \/ HasRemove(msgs, x)
    BY <1>3, <1>4, <1>9, <1>10
  <1>16. new \subseteq Fresh /\ gone \subseteq Held(table[e])
    BY <1>1, <1>3
  <1>17. \A x \in Held(table[e]) \ gone : table'[e].sessions[x] = table[e].sessions[x]
    BY <1>2, <1>3, <1>14
  <1>18. Held(table'[e]) = (Held(table[e]) \ gone) \cup new /\ IsTable(table'[e])
    BY <1>3, <1>14
  <1>19. \A x \in Token : HasRemove(msgs, x) => x \in Minted
    BY <1>3, <1>9, <1>10
  <1>21. /\ Prunes(table[e], made.table, gone)
         /\ \A x \in new : /\ made.table.sessions[x].rotatedFrom = NoToken
                           /\ made.table.sessions[x].created = now
    <2>0. now \in Nat
      OBVIOUS
    <2>1. PICK t, inUse : t = table[e] /\ inUse = InUse(e)
      OBVIOUS
    <2> HIDE DEF TypeOK
    <2>2. IsTable(t) /\ id \notin Held(t) /\ made = CreateSession(t, id, scope, identity, now, inUse)
      BY <1>0, <1>1, <1>2, <2>1
    <2>3. /\ Prunes(t, made.table, made.expired \cup made.evicted)
          /\ made.ok => /\ made.table.sessions[id].rotatedFrom = NoToken
                        /\ made.table.sessions[id].created = now
      BY <1>2, <2>0, <2>2, CreatePrunes
    <2> QED
      BY <2>1, <2>3
  <1>22. NoHandoff(new)
    BY <1>1, <1>2 DEF NoHandoff
  <1>24. /\ ended \subseteq ended'
         /\ \A x \in ended' \ ended : x \in Held(table[e]) /\ HasRemove(msgs, x)
         /\ \A x \in Token : HasRemove(msgs, x) => x \in ended' \cup signedOut'
    BY <1>1, <1>3, <1>9, <1>10
  <1> HIDE DEF gone, new
  <1>20. Acts(e, gone, new, msgs)
    BY <1>1, <1>8, <1>9, <1>11, <1>12, <1>13, <1>14, <1>15, <1>16, <1>17, <1>18, <1>19, <1>24
       DEF Acts
  <1>23. Trims(e, gone, new, msgs)
    BY <1>8, <1>14, <1>21, <1>22, <1>24 DEF Trims
  <1> QED
    BY <1>20, <1>23

\* setScope tells the store of the new session, the hand-off and the end of the old one.
ElevationMsgs(t, previous, next, keep) ==
    <<PutMsg(next, t.sessions[next])>>
    \o (IF keep THEN <<RotateMsg(previous, next)>> ELSE <<>>)
    \o <<RemoveMsg(previous)>>

ElevationIsTold(msgs, t, previous, next) ==
    /\ msgs \in Seq(Message)
    /\ \A x \in Token : /\ HasPut(msgs, x) <=> x = next
                        /\ OnePut(msgs, x)
                        /\ HasRemove(msgs, x) <=> x = previous
                        /\ \A y : Says(msgs, x, y) => y = ToldIn(t, x)

LEMMA ElevationTold ==
    ASSUME NEW t, NEW previous \in Token, NEW next \in Token, NEW keep \in BOOLEAN,
           t.sessions[next] \in SessionRecord,
           NEW msgs, msgs = ElevationMsgs(t, previous, next, keep)
    PROVE  ElevationIsTold(msgs, t, previous, next)
  <1>1. PICK put \in Message : put = PutMsg(next, t.sessions[next])
    BY MessageTypes
  <1>2. PICK rotate \in Message : rotate = RotateMsg(previous, next)
    BY MessageTypes
  <1>3. PICK remove \in Message : remove = RemoveMsg(previous)
    BY MessageTypes
  <1>4. PICK a : a = <<put>>
    OBVIOUS
  <1>5. PICK b : b = IF keep THEN <<rotate>> ELSE <<>>
    OBVIOUS
  <1>6. PICK c : c = <<remove>>
    OBVIOUS
  <1>7. /\ a \in Seq(Message)
        /\ \A x \in Token : /\ HasPut(a, x) <=> x = next
                            /\ ~HasRemove(a, x) /\ OnePut(a, x)
                            /\ \A y : Says(a, x, y) => y = ToldIn(t, x)
    <2>1. /\ \A x : (IsPut(put, x) <=> x = next) /\ ~IsRemove(put, x)
          /\ ToldBy(put) = ToldIn(t, next)
      BY <1>1, MessageKinds
    <2> QED
      BY <1>4, <2>1, SingleQueue
  <1>8. /\ b \in Seq(Message)
        /\ \A x \in Token : /\ ~HasPut(b, x) /\ ~HasRemove(b, x) /\ OnePut(b, x)
                            /\ \A y : ~Says(b, x, y)
    <2>1. \A x : ~IsPut(rotate, x) /\ ~IsRemove(rotate, x)
      BY <1>2, MessageKinds
    <2>2. CASE keep
      BY <1>5, <2>1, <2>2, SingleQueue
    <2>3. CASE ~keep
      BY <1>5, <2>3, ShortQueues
    <2> QED
      BY <2>2, <2>3
  <1>9. /\ c \in Seq(Message)
        /\ \A x \in Token : /\ ~HasPut(c, x) /\ OnePut(c, x)
                            /\ HasRemove(c, x) <=> x = previous
                            /\ \A y : ~Says(c, x, y)
    <2>1. \A x : ~IsPut(remove, x) /\ (IsRemove(remove, x) <=> x = previous)
      BY <1>3, MessageKinds
    <2> QED
      BY <1>6, <2>1, SingleQueue
  <1>10. PICK ab : ab = a \o b
    OBVIOUS
  <1>11. ab \in Seq(Message) /\ Joined(ab, a, b)
    BY <1>7, <1>8, <1>10, ConcatJoins
  <1>12. msgs = ab \o c
    BY <1>1, <1>2, <1>3, <1>4, <1>5, <1>6, <1>10 DEF ElevationMsgs
  <1>13. msgs \in Seq(Message) /\ Joined(msgs, ab, c)
    BY <1>9, <1>11, <1>12, ConcatJoins
  <1>14. \A x \in Token : /\ HasPut(ab, x) <=> x = next
                          /\ ~HasRemove(ab, x) /\ OnePut(ab, x)
                          /\ \A y : Says(ab, x, y) => y = ToldIn(t, x)
    BY <1>7, <1>8, <1>11 DEF Joined
  <1> QED
    BY <1>9, <1>13, <1>14 DEF Joined, ElevationIsTold

ElevationIsHanded(msgs, previous, next, keep) ==
    /\ PutFirst(msgs)
    /\ \A from, to \in Token :
          HasRotate(msgs, from, to) <=> keep /\ from = previous /\ to = next
    /\ keep => \A id \in Token : Behind(msgs, id)

LEMMA ElevationHands ==
    ASSUME NEW t, NEW previous \in Token, NEW next \in Token, NEW keep \in BOOLEAN,
           t.sessions[next] \in SessionRecord,
           NEW msgs, msgs = ElevationMsgs(t, previous, next, keep)
    PROVE  ElevationIsHanded(msgs, previous, next, keep)
  <1>1. PICK put \in Message : put = PutMsg(next, t.sessions[next])
    BY MessageTypes
  <1>2. PICK rotate \in Message : rotate = RotateMsg(previous, next)
    BY MessageTypes
  <1>3. PICK remove \in Message : remove = RemoveMsg(previous)
    BY MessageTypes
  <1>4. PICK a, b, c : a = <<put>> /\ b = (IF keep THEN <<rotate>> ELSE <<>>) /\ c = <<remove>>
    OBVIOUS
  <1>5. a \in Seq(Message) /\ PutFirst(a) /\ \A from, to \in Token : ~HasRotate(a, from, to)
    <2>1. \A from, to : ~IsRotate(put, from, to)
      BY <1>1, HandoffKinds
    <2> QED
      BY <1>4, <2>1, SingleHandoff, SingleQueue
  <1>6. /\ b \in Seq(Message) /\ PutFirst(b)
        /\ \A from, to \in Token :
              HasRotate(b, from, to) <=> keep /\ from = previous /\ to = next
    <2>1. \A from, to : IsRotate(rotate, from, to) <=> previous = from /\ next = to
      BY <1>2, HandoffKinds
    <2>2. CASE keep
      BY <1>4, <2>1, <2>2, SingleHandoff, SingleQueue
    <2>3. CASE ~keep
      BY <1>4, <2>3, NothingHanded
    <2> QED
      BY <2>2, <2>3
  <1>7. /\ c \in Seq(Message) /\ PutFirst(c)
        /\ \A from, to \in Token : ~HasRotate(c, from, to) /\ ~HasPut(c, to)
    <2>1. \A from, to : ~IsRotate(remove, from, to) /\ ~IsPut(remove, to)
      BY <1>3, HandoffKinds, MessageKinds
    <2> QED
      BY <1>4, <2>1, SingleHandoff, SingleQueue
  <1>8. PICK ab : ab = a \o b
    OBVIOUS
  <1>9. ab \in Seq(Message) /\ JoinedHandoffs(ab, a, b)
    BY <1>5, <1>6, <1>8, ConcatHandoffs, ConcatJoins
  <1>10. msgs = ab \o c
    BY <1>1, <1>2, <1>3, <1>4, <1>8 DEF ElevationMsgs
  <1>11. JoinedHandoffs(msgs, ab, c)
    BY <1>7, <1>9, <1>10, ConcatHandoffs
  <1>12. /\ PutFirst(ab)
         /\ \A from, to \in Token :
               HasRotate(ab, from, to) <=> keep /\ from = previous /\ to = next
    BY <1>5, <1>6, <1>9 DEF JoinedHandoffs
  <1>13. ASSUME keep, NEW id \in Token PROVE Behind(msgs, id)
    <2>1. \A x : ~IsRemove(put, x) /\ ~IsRemove(rotate, x) /\ (IsRemove(remove, x) <=> x = previous)
      BY <1>1, <1>2, <1>3, MessageKinds
    <2>2. ~HasRemove(a, id) /\ ~HasRemove(b, id) /\ (HasRemove(c, id) => id = previous)
      BY <1>4, <1>13, <2>1, SingleQueue
    <2>3. Behind(a, id) /\ Behind(b, id) /\ (id # previous => Behind(c, id))
      BY <2>2, NoRemovalBehind
    <2>4. JoinedRemovals(ab, a, b) /\ JoinedRemovals(msgs, ab, c)
      BY <1>5, <1>6, <1>7, <1>8, <1>9, <1>10, ConcatRemovals
    <2>5. Behind(ab, id)
      BY <2>3, <2>4 DEF JoinedRemovals
    <2> QED
      BY <1>12, <1>13, <2>3, <2>4, <2>5 DEF JoinedRemovals
  <1> QED
    BY <1>7, <1>11, <1>12, <1>13 DEF JoinedHandoffs, ElevationIsHanded

\* What Send does to the links.
LEMMA SendAdds ==
    ASSUME TypeOK, NEW e \in Edge, NEW msgs \in Seq(Message), Send(e, msgs)
    PROVE  /\ up' \in [Edge -> Seq(Message)]
           /\ \A d \in Edge \ {e} : up'[d] = up[d]
           /\ linked[e] => up'[e] = up[e] \o msgs
           /\ ~linked[e] => up'[e] = up[e]
  <1>1. up \in [Edge -> Seq(Message)] /\ up[e] \in Seq(Message)
    BY DEF TypeOK
  <1>2. up[e] \o msgs \in Seq(Message)
    BY <1>1, ConcatProperties
  <1> QED
    BY <1>1, <1>2 DEF Send

LEMMA ElevateActs ==
    ASSUME TypeOK, NamesAreMinted, NEW e \in Edge, NEW previous \in Held(table[e]),
           NEW next \in Fresh, NEW scope \in Scope, NEW identity \in Identity,
           NEW keep \in BOOLEAN, Elevate(e, previous, next, scope, identity, keep),
           \A b \in Browser : cookie'[b] \in {cookie[b], next}
    PROVE  \E msgs : Acts(e, {previous}, {next}, msgs) /\ Hands(e, previous, next, keep, msgs)
  <1> USE DEF TypeOK
  <1>0. e \in Process /\ IsTable(table[e])
    BY DEF Process
  <1>1. PICK left, msgs :
            /\ left = SetScope(table[e], previous, next, scope, identity, keep, now)
            /\ msgs = <<PutMsg(next, left.sessions[next])>>
                      \o (IF keep THEN <<RotateMsg(previous, next)>> ELSE <<>>)
                      \o <<RemoveMsg(previous)>>
            /\ table' = [table EXCEPT ![e] = left]
            /\ Send(e, msgs)
            /\ replaced' = [replaced EXCEPT ![next] = previous]
            /\ handed' = IF keep THEN handed \cup {next} ELSE handed
            /\ UNCHANGED <<down, linked, now, ended>>
    BY DEF Elevate
  <1>2. /\ next \in Token /\ next \notin Held(table[e])
        /\ previous \in Token /\ previous \in Minted
        /\ Held(table[e]) \subseteq Token
    BY <1>0 DEF Fresh, NamesAreMinted, Minted, Held, IsTable
  <1>3. /\ IsTable(left)
        /\ Held(left) = (Held(table[e]) \ {previous}) \cup {next}
        /\ \A x \in Held(table[e]) \ {previous} : left.sessions[x] = table[e].sessions[x]
    BY <1>0, <1>1, <1>2, SetScopeProperties
  <1>4. left.sessions[next] \in SessionRecord
    BY <1>3 DEF IsTable, Held
  <1>5. /\ msgs \in Seq(Message)
        /\ \A x \in Token : /\ HasPut(msgs, x) <=> x = next
                            /\ OnePut(msgs, x)
                            /\ HasRemove(msgs, x) <=> x = previous
                            /\ \A y : Says(msgs, x, y) => y = ToldIn(left, x)
    <2>1. msgs = ElevationMsgs(left, previous, next, keep)
      BY <1>1 DEF ElevationMsgs
    <2>2. ElevationIsTold(msgs, left, previous, next)
      BY <1>2, <1>4, <2>1, ElevationTold
    <2> QED
      BY <2>2 DEF ElevationIsTold
  <1>6. /\ up' \in [Edge -> Seq(Message)]
        /\ \A d \in Edge \ {e} : up'[d] = up[d]
        /\ linked[e] => up'[e] = up[e] \o msgs
        /\ ~linked[e] => up'[e] = up[e]
    <2> HIDE DEF TypeOK
    <2> QED
      BY <1>1, <1>5, SendAdds
  <1>7. Minted' = Minted \cup {next}
    BY <1>1, <1>2, MintingOne
  <1>8. /\ DOMAIN table' = Process /\ table'[e] = left
        /\ \A p \in Process \ {e} : table'[p] = table[p]
    BY <1>0, <1>1
  <1>9. Acts(e, {previous}, {next}, msgs)
    <2>1. \A b \in Browser : cookie'[b] \in {cookie[b], NoToken} \cup {next}
      OBVIOUS
    <2>2. \A x \in {previous} :
              Expired(table[e].sessions[x].created, now) \/ HasRemove(msgs, x)
      BY <1>2, <1>5
    <2> QED
      BY <1>1, <1>2, <1>3, <1>5, <1>6, <1>7, <1>8, <2>1, <2>2, ZenonT(60) DEF Acts
  <1>10. PICK t : t = table[e]
    OBVIOUS
  <1>11. /\ DOMAIN t.rotations \subseteq DOMAIN left.rotations
         /\ \A f \in DOMAIN left.rotations :
               \/ f \in DOMAIN t.rotations /\ left.rotations[f] = t.rotations[f]
               \/ keep /\ f = previous /\ left.rotations[f] = [to |-> next, at |-> now]
               \/ keep /\ f = t.sessions[previous].rotatedFrom
         /\ \/ left.sessions[next].rotatedFrom = t.sessions[previous].rotatedFrom
            \/ keep /\ left.sessions[next].rotatedFrom = previous
         /\ left.sessions[next].created = now
    <2>1. /\ IsTable(t) /\ previous \in Held(t) /\ next \notin Held(t)
          /\ left = SetScope(t, previous, next, scope, identity, keep, now)
      BY <1>0, <1>1, <1>2, <1>10
    <2> QED
      BY <1>2, <2>1, SetScopeHands
  <1>12. /\ PutFirst(msgs)
         /\ \A from, to \in Token :
               HasRotate(msgs, from, to) <=> keep /\ from = previous /\ to = next
         /\ keep => \A id \in Token : Behind(msgs, id)
    <2>1. msgs = ElevationMsgs(left, previous, next, keep)
      BY <1>1 DEF ElevationMsgs
    <2> HIDE DEF TypeOK
    <2>2. ElevationIsHanded(msgs, previous, next, keep)
      BY <1>2, <1>4, <2>1, ElevationHands
    <2> QED
      BY <2>2 DEF ElevationIsHanded
  <1>13. Hands(e, previous, next, keep, msgs)
    BY <1>1, <1>5, <1>8, <1>10, <1>11, <1>12 DEF Hands
  <1> QED
    BY <1>9, <1>13

LEMMA LogoutActs ==
    ASSUME TypeOK, NamesAreMinted, NEW b \in Browser, NEW e \in Edge, Logout(b, e)
    PROVE  \E gone, new, msgs : Acts(e, gone, new, msgs) /\ Trims(e, gone, new, msgs)
  <1> USE DEF TypeOK
  <1>0. e \in Process /\ IsTable(table[e])
    BY DEF Process
  <1>1. PICK id, gone, left :
            /\ id = cookie[b] /\ id # NoToken
            /\ gone = {id} \cap Held(table[e])
            /\ left = Forget(table[e], gone)
            /\ table' = [table EXCEPT ![e] = left]
            /\ Send(e, <<RemoveMsg(id)>>)
            /\ cookie' = [cookie EXCEPT ![b] = NoToken]
            /\ ended' = ended \cup gone
            /\ signedOut' = signedOut \cup {id}
            /\ UNCHANGED <<down, linked, now, replaced, handed>>
    BY DEF Logout
  <1>2. id \in Token /\ id \in Minted /\ gone \subseteq Held(table[e]) /\ gone \subseteq {id}
    BY <1>1 DEF NamesAreMinted
  <1>3. /\ IsTable(left) /\ Held(left) = Held(table[e]) \ gone
        /\ \A x \in Held(table[e]) \ gone : left.sessions[x] = table[e].sessions[x]
    <2>1. PICK t : t = table[e]
      OBVIOUS
    <2>2. IsTable(t) /\ gone \subseteq Held(t) /\ left = Forget(t, gone)
      BY <1>0, <1>1, <1>2, <2>1
    <2>3. /\ IsTable(left) /\ Held(left) = Held(t) \ gone
          /\ \A x \in Held(t) \ gone : left.sessions[x] = t.sessions[x]
      BY <2>2, ForgetProperties
    <2> QED
      BY <2>1, <2>3
  <1>4. PICK m \in Message : m = RemoveMsg(id)
    BY <1>2, MessageTypes
  <1>5. PICK msgs : msgs = <<m>>
    OBVIOUS
  <1>6. /\ msgs \in Seq(Message)
        /\ \A x \in Token : /\ ~HasPut(msgs, x) /\ OnePut(msgs, x)
                            /\ HasRemove(msgs, x) <=> x = id
                            /\ \A y : ~Says(msgs, x, y)
    <2>1. \A x : ~IsPut(m, x) /\ (IsRemove(m, x) <=> x = id)
      BY <1>4, MessageKinds
    <2> QED
      BY <1>5, <2>1, SingleQueue
  <1>7. /\ up' \in [Edge -> Seq(Message)]
        /\ \A d \in Edge \ {e} : up'[d] = up[d]
        /\ linked[e] => up'[e] = up[e] \o msgs
        /\ ~linked[e] => up'[e] = up[e]
    <2>1. Send(e, msgs)
      BY <1>1, <1>4, <1>5
    <2> HIDE DEF TypeOK
    <2> QED
      BY <1>6, <2>1, SendAdds
  <1>8. /\ DOMAIN table' = Process /\ table'[e] = left
        /\ \A p \in Process \ {e} : table'[p] = table[p]
    BY <1>0, <1>1
  <1>9. Minted' = Minted \cup {}
    BY <1>1 DEF Minted, Fresh
  <1>10. Acts(e, gone, {}, msgs)
    <2>1. \A c \in Browser : cookie'[c] \in {cookie[c], NoToken} \cup {}
      BY <1>1
    <2>2. \A x \in gone : Expired(table[e].sessions[x].created, now) \/ HasRemove(msgs, x)
      BY <1>2, <1>6
    <2>3. /\ ended \subseteq ended'
          /\ \A x \in ended' \ ended : x \in Held(table[e]) /\ HasRemove(msgs, x)
      BY <1>1, <1>2, <1>6
    <2>4. \A x \in Token : /\ HasPut(msgs, x) <=> x \in {}
                           /\ OnePut(msgs, x)
                           /\ \A y : Says(msgs, x, y) => y = ToldIn(table'[e], x)
                           /\ HasRemove(msgs, x) => x \in Minted
      BY <1>2, <1>6
    <2>5. {} \subseteq Fresh /\ Held(table'[e]) = (Held(table[e]) \ gone) \cup {}
      BY <1>3, <1>8
    <2>6. \A x \in Held(table[e]) \ gone : table'[e].sessions[x] = table[e].sessions[x]
      BY <1>3, <1>8
    <2>7. DOMAIN table' = Process /\ IsTable(table'[e]) /\ UNCHANGED <<down, linked, now>>
      BY <1>1, <1>3, <1>8
    <2> HIDE DEF TypeOK
    <2> QED
      BY <1>2, <1>6, <1>7, <1>8, <1>9, <2>1, <2>2, <2>3, <2>4, <2>5, <2>6, <2>7 DEF Acts
  <1>11. Trims(e, gone, {}, msgs)
    <2>1. Prunes(table[e], table'[e], gone)
      BY <1>1, <1>8, ForgetPrunes
    <2>2. \A from, to : ~IsRotate(m, from, to)
      BY <1>4, HandoffKinds
    <2>3. PutFirst(msgs) /\ \A from, to \in Token : ~HasRotate(msgs, from, to)
      BY <1>5, <2>2, SingleHandoff
    <2>4. NoHandoff({})
      BY <1>1 DEF NoHandoff
    <2>5. \A x \in Token : HasRemove(msgs, x) => x \in ended' \cup signedOut'
      BY <1>1, <1>6
    <2> QED
      BY <2>1, <2>3, <2>4, <2>5 DEF Trims
  <1> QED
    BY <1>10, <1>11

\* A process forgets what is past its TTL, and tells nobody.
Sweeps(p, gone) ==
    /\ p \in Process /\ gone \subseteq Held(table[p])
    /\ DOMAIN table' = Process /\ IsTable(table'[p])
    /\ \A q \in Process \ {p} : table'[q] = table[q]
    /\ Held(table'[p]) = Held(table[p]) \ gone
    /\ \A id \in Held(table[p]) \ gone : table'[p].sessions[id] = table[p].sessions[id]
    /\ \A id \in gone : Expired(table[p].sessions[id].created, now)
    /\ Minted' = Minted
    /\ UNCHANGED <<up, down, linked, now, ended, cookie>>

\* No table and no link changes.
Rests ==
    /\ UNCHANGED <<table, up, down, ended>>
    /\ Minted' = Minted
    /\ now' \in Nat /\ now' >= now
    /\ linked' \in [Edge -> BOOLEAN] /\ \A e \in Edge : linked[e] => linked'[e]
    /\ \A b \in Browser : cookie'[b] # NoToken => cookie'[b] \in Minted

\* u is t with m applied.
AppliesTo(t, u, m) ==
    /\ IsTable(u)
    /\ \A id \in Token :
          /\ id \in Held(u) <=> (id \in Held(t) /\ ~IsRemove(m, id)) \/ IsPut(m, id)
          /\ IsPut(m, id) => ToldIn(u, id) = ToldBy(m)
          /\ id \in Held(t) /\ ~IsRemove(m, id) /\ ~IsPut(m, id)
                => ToldIn(u, id) = ToldIn(t, id)

\* The store takes m from the link of e; said: it announces it.
Stores(e, m, said) ==
    /\ e \in Edge /\ m \in Message /\ said \in BOOLEAN
    /\ DOMAIN table' = Process /\ AppliesTo(table[Store], table'[Store], m)
    /\ \A p \in Process \ {Store} : table'[p] = table[p]
    /\ up' \in [Edge -> Seq(Message)] /\ Taken(up'[e], up[e], m)
    /\ \A d \in Edge \ {e} : up'[d] = up[d]
    /\ down' \in [Edge -> Seq(Message)]
    /\ \A d \in Edge : /\ linked[d] /\ said => Joined(down'[d], down[d], <<m>>)
                       /\ ~(linked[d] /\ said) => down'[d] = down[d]
    /\ \A id \in Token : /\ IsPut(m, id) => said
                         /\ IsRemove(m, id) => (said <=> id \in Held(table[Store]))
    /\ Minted' = Minted
    /\ UNCHANGED <<linked, now, ended, cookie>>

\* The edge e takes m from its link.
Takes(e, m) ==
    /\ e \in Edge /\ m \in Message
    /\ DOMAIN table' = Process /\ AppliesTo(table[e], table'[e], m)
    /\ \A p \in Process \ {e} : table'[p] = table[p]
    /\ down' \in [Edge -> Seq(Message)] /\ Taken(down'[e], down[e], m)
    /\ \A d \in Edge \ {e} : down'[d] = down[d]
    /\ Minted' = Minted
    /\ UNCHANGED <<up, linked, now, ended, cookie>>

\* The link of e is lost, with the process behind it or not.
Cuts(e) ==
    /\ e \in Edge /\ Faults # {}
    /\ DOMAIN table' = Process /\ table'[e] \in {table[e], EmptyTable}
    /\ \A p \in Process \ {e} : table'[p] = table[p]
    /\ up' \in [Edge -> Seq(Message)] /\ up'[e] = <<>>
    /\ down' \in [Edge -> Seq(Message)] /\ down'[e] = <<>>
    /\ \A d \in Edge \ {e} : up'[d] = up[d] /\ down'[d] = down[d]
    /\ linked' \in [Edge -> BOOLEAN]
    /\ Minted' = Minted
    /\ UNCHANGED <<now, ended, cookie>>

\* What a sweep, a message to the store and a message to an edge do to the hand-offs.
Cleans(p, gone) == Prunes(table[p], table'[p], gone) /\ NoHandoff({})

Relays(e, m, said) ==
    /\ Hears(table[Store], table'[Store], m)
    /\ TakenHandoffs(up'[e], up[e], m) /\ TakenRemovals(up'[e], up[e], m)
    /\ \A d \in Edge : linked[d] /\ said => /\ JoinedHandoffs(down'[d], down[d], <<m>>)
                                           /\ JoinedRemovals(down'[d], down[d], <<m>>)
    /\ \A from, to \in Token :
          IsRotate(m, from, to) => (said <=> from \notin DOMAIN table[Store].rotations)
    /\ NoHandoff({})

Learns(e, m) ==
    /\ Hears(table[e], table'[e], m)
    /\ TakenHandoffs(down'[e], down[e], m) /\ TakenRemovals(down'[e], down[e], m)
    /\ NoHandoff({})

LEMMA SweepSweeps ==
    ASSUME TypeOK, NEW p \in Process, Sweep(p)
    PROVE  \E gone : Sweeps(p, gone) /\ Cleans(p, gone)
  <1>1. IsTable(table[p]) /\ now \in Nat /\ DOMAIN table = Process
    BY DEF TypeOK
  <1>2. PICK t, left, gone : /\ t = table[p] /\ left = PurgeExpired(t, now)
                             /\ gone = Reclaimed(t, now)
    OBVIOUS
  <1>3. /\ table' = [table EXCEPT ![p] = left]
        /\ UNCHANGED <<up, down, linked, now, ended, cookie, replaced, handed>>
    BY <1>2 DEF Sweep, history
  <1>4. /\ IsTable(left) /\ gone \subseteq Held(t) /\ Held(left) = Held(t) \ gone
        /\ \A id \in Held(left) : left.sessions[id] = t.sessions[id]
    BY <1>1, <1>2, PurgeProperties
  <1>5. \A id \in gone : Expired(t.sessions[id].created, now)
    BY <1>1, <1>2, ReclaimedIsExpired
  <1>6. Minted' = Minted
    BY <1>3 DEF Minted, Fresh
  <1>7. Sweeps(p, gone)
    BY <1>1, <1>2, <1>3, <1>4, <1>5, <1>6 DEF Sweeps
  <1>8. Cleans(p, gone)
    <2>1. Prunes(t, left, gone)
      BY <1>1, <1>2, PurgePrunes
    <2> QED
      BY <1>1, <1>2, <1>3, <2>1 DEF Cleans, NoHandoff
  <1> QED
    BY <1>7, <1>8

LEMMA ApplyProperties ==
    ASSUME NEW t, IsTable(t), NEW m \in Message, now \in Nat
    PROVE  AppliesTo(t, Apply(t, m), m)
  <1> DEFINE u == Apply(t, m)
  <1>0. Held(t) \subseteq Token
    BY DEF IsTable, Held
  <1>1. CASE m.op = "put"
    <2>1. m.id \in Token /\ m.scope \in Scope /\ m.identity \in Identity /\ m.created \in Nat
      BY <1>1, MessageForms
    <2>2. PICK r \in SessionRecord : r = [scope |-> m.scope, identity |-> m.identity,
                                          created |-> m.created, rotatedFrom |-> NoToken]
      BY <2>1 DEF SessionRecord
    <2>3. u = Insert(t, m.id, r)
      BY <1>1, <2>2 DEF Apply, Changes, ApplyUpsert
    <2>4. PICK id : id = m.id
      OBVIOUS
    <2>5. /\ IsTable(u) /\ Held(u) = Held(t) \cup {id} /\ u.sessions[id] = r
          /\ \A x \in Held(t) \ {id} : u.sessions[x] = t.sessions[x]
      BY <2>1, <2>3, <2>4, InsertProperties
    <2>6. \A x : (IsPut(m, x) <=> x = id) /\ ~IsRemove(m, x)
      BY <1>1, <2>4 DEF IsPut, IsRemove
    <2>7. ToldIn(u, id) = ToldBy(m)
      BY <2>2, <2>5 DEF ToldIn, ToldBy
    <2> HIDE DEF u
    <2> QED
      BY <1>0, <2>1, <2>4, <2>5, <2>6, <2>7 DEF AppliesTo, ToldIn, u
  <1>2. CASE m.op = "rotate"
    <2>1. \A x : ~IsPut(m, x) /\ ~IsRemove(m, x)
      BY <1>2 DEF IsPut, IsRemove
    <2>2. CASE m.from \in DOMAIN t.rotations
      <3>1. u = t
        BY <1>2, <2>2 DEF Apply, Changes
      <3> QED
        BY <2>1, <3>1 DEF AppliesTo
    <2>3. CASE m.from \notin DOMAIN t.rotations
      <3>1. u = ApplyRotation(t, m)
        BY <1>2, <2>3 DEF Apply, Changes
      <3>2. m.from \in Token /\ m.to \in Token
        BY <1>2, MessageForms
      <3>3. PICK to, from, ss, rs :
               /\ to = m.to /\ from = m.from
               /\ ss = IF to \in Held(t) THEN [t.sessions EXCEPT ![to].rotatedFrom = from]
                                         ELSE t.sessions
               /\ rs = Put(t.rotations, from, [to |-> to, at |-> now])
        OBVIOUS
      <3>4. u = [sessions |-> ss, queue |-> t.queue, rotations |-> rs]
        BY <3>1, <3>3 DEF ApplyRotation
      <3>5. /\ DOMAIN rs \subseteq Token /\ rs \in [DOMAIN rs -> Rotation]
        <4>1. [to |-> to, at |-> now] \in Rotation
          BY <3>2, <3>3 DEF Rotation
        <4> QED
          BY <3>2, <3>3, <4>1 DEF Put, IsTable
      <3>6. /\ DOMAIN ss = DOMAIN t.sessions
            /\ ss \in [DOMAIN ss -> SessionRecord]
            /\ \A x \in DOMAIN ss : /\ ss[x].scope = t.sessions[x].scope
                                    /\ ss[x].identity = t.sessions[x].identity
                                    /\ ss[x].created = t.sessions[x].created
        <4>1. /\ t.sessions \in [DOMAIN t.sessions -> SessionRecord]
              /\ from \in Token \cup {NoToken}
          BY <3>2, <3>3 DEF IsTable
        <4>2. CASE to \notin Held(t)
          BY <3>3, <4>1, <4>2
        <4>3. CASE to \in Held(t)
          <5>1. ss = [t.sessions EXCEPT ![to] = [@ EXCEPT !.rotatedFrom = from]]
            BY <3>3, <4>3
          <5>2. PICK r : r = [t.sessions[to] EXCEPT !.rotatedFrom = from]
            OBVIOUS
          <5>3. t.sessions[to] \in SessionRecord
            BY <4>1, <4>3 DEF Held
          <5>4. /\ r \in SessionRecord /\ r.scope = t.sessions[to].scope
                /\ r.identity = t.sessions[to].identity
                /\ r.created = t.sessions[to].created
            BY <4>1, <5>2, <5>3 DEF SessionRecord
          <5>5. ss = [t.sessions EXCEPT ![to] = r]
            BY <5>1, <5>2
          <5> QED
            BY <4>1, <4>3, <5>4, <5>5 DEF Held
        <4> QED
          BY <4>2, <4>3
      <3>7. IsTable(u) /\ Held(u) = Held(t)
        BY <3>4, <3>5, <3>6 DEF IsTable, Held
      <3>8. \A x \in Held(t) : ToldIn(u, x) = ToldIn(t, x)
        BY <3>4, <3>6 DEF ToldIn, Held
      <3> QED
        BY <2>1, <3>7, <3>8 DEF AppliesTo
    <2> QED
      BY <2>2, <2>3
  <1>3. CASE m.op = "remove"
    <2>0. PICK id : id = m.id
      OBVIOUS
    <2>1. id \in Token /\ \A x : ~IsPut(m, x) /\ (IsRemove(m, x) <=> x = id)
      BY <1>3, <2>0, MessageForms DEF IsPut, IsRemove
    <2>2. CASE id \notin Held(t)
      <3>1. u = t
        BY <1>3, <2>0, <2>2 DEF Apply, Changes
      <3> QED
        BY <2>1, <2>2, <3>1 DEF AppliesTo
    <2>3. CASE id \in Held(t)
      <3>1. PICK ids : ids = {id}
        OBVIOUS
      <3>2. u = Forget(t, ids) /\ ids \subseteq Held(t)
        BY <1>3, <2>0, <2>3, <3>1 DEF Apply, Changes
      <3>3. /\ IsTable(u) /\ Held(u) = Held(t) \ ids
            /\ \A x \in Held(t) \ ids : u.sessions[x] = t.sessions[x]
        BY <3>2, ForgetProperties
      <3> HIDE DEF u
      <3> QED
        BY <1>0, <2>1, <3>1, <3>3 DEF AppliesTo, ToldIn, u
    <2> QED
      BY <2>2, <2>3
  <1> QED
    BY <1>1, <1>2, <1>3, MessageForms

LEMMA StoreReceivesStores ==
    ASSUME TypeOK, NEW e \in Edge, StoreReceives(e)
    PROVE  \E m, said : Stores(e, m, said) /\ Relays(e, m, said)
  <1>1. /\ up \in [Edge -> Seq(Message)] /\ up[e] \in Seq(Message)
        /\ down \in [Edge -> Seq(Message)] /\ \A d \in Edge : down[d] \in Seq(Message)
        /\ Store \in Process /\ DOMAIN table = Process /\ IsTable(table[Store]) /\ now \in Nat
    BY DEF TypeOK, Process
  <1>2. PICK m, n, t, u, said :
            /\ m = Head(up[e]) /\ n = Tail(up[e]) /\ t = table[Store] /\ u = Apply(t, m)
            /\ said = Changes(t, m)
    OBVIOUS
  <1>3. /\ up[e] # <<>> /\ up' = [up EXCEPT ![e] = n] /\ table' = [table EXCEPT ![Store] = u]
        /\ down' = [d \in Edge |-> IF linked[d] /\ said THEN Append(down[d], m) ELSE down[d]]
        /\ UNCHANGED <<linked, now, ended, cookie, replaced, handed>>
    BY <1>2 DEF StoreReceives, history
  <1>4. /\ m \in Message /\ n \in Seq(Message) /\ Taken(n, up[e], m)
        /\ TakenHandoffs(n, up[e], m) /\ TakenRemovals(n, up[e], m)
    BY <1>1, <1>2, <1>3, TailTakes, TailHandoffs, TailRemovals
  <1>5. AppliesTo(t, u, m)
    BY <1>1, <1>2, <1>4, ApplyProperties
  <1>6. \A d \in Edge : /\ Append(down[d], m) \in Seq(Message)
                        /\ Joined(Append(down[d], m), down[d], <<m>>)
    BY <1>1, <1>4, AppendJoins
  <1>7. Minted' = Minted
    BY <1>3 DEF Minted, Fresh
  <1>8. /\ said \in BOOLEAN
        /\ \A id \in Token : /\ IsPut(m, id) => said
                             /\ IsRemove(m, id) => (said <=> id \in Held(t))
    <2>1. m.op \in {"put", "rotate", "remove"}
      BY <1>4, MessageForms
    <2>2. CASE m.op = "put"
      <3>1. said = TRUE
        BY <1>2, <2>2 DEF Changes
      <3> QED
        BY <2>2, <3>1 DEF IsRemove
    <2>3. CASE m.op = "rotate"
      <3>1. said = (m.from \notin DOMAIN t.rotations)
        BY <1>2, <2>3 DEF Changes
      <3> QED
        BY <2>3, <3>1 DEF IsRemove, IsPut
    <2>4. CASE m.op = "remove"
      <3>1. said = (m.id \in Held(t))
        BY <1>2, <2>4 DEF Changes
      <3>2. said \in BOOLEAN
        BY <3>1
      <3> QED
        BY <2>4, <3>1, <3>2 DEF IsRemove, IsPut
    <2> QED
      BY <2>1, <2>2, <2>3, <2>4
  <1>9. /\ down' \in [Edge -> Seq(Message)]
        /\ \A d \in Edge : /\ linked[d] /\ said => Joined(down'[d], down[d], <<m>>)
                           /\ ~(linked[d] /\ said) => down'[d] = down[d]
    BY <1>1, <1>3, <1>6
  <1>10. /\ up' \in [Edge -> Seq(Message)] /\ Taken(up'[e], up[e], m)
         /\ \A d \in Edge \ {e} : up'[d] = up[d]
    BY <1>1, <1>3, <1>4
  <1>11. /\ DOMAIN table' = Process /\ AppliesTo(table[Store], table'[Store], m)
         /\ \A p \in Process \ {Store} : table'[p] = table[p]
    BY <1>1, <1>2, <1>3, <1>5
  <1>12. Stores(e, m, said)
    BY <1>2, <1>3, <1>4, <1>7, <1>8, <1>9, <1>10, <1>11 DEF Stores
  <1>13. Relays(e, m, said)
    <2>1. Hears(t, u, m)
      BY <1>1, <1>2, <1>4, ApplyHears
    <2>2. \A d \in Edge : /\ JoinedHandoffs(Append(down[d], m), down[d], <<m>>)
                          /\ JoinedRemovals(Append(down[d], m), down[d], <<m>>)
      <3> TAKE d \in Edge
      <3>1. PICK q \in Seq(Message) : q = down[d]
        BY <1>1
      <3>2. Append(q, m) = q \o <<m>> /\ <<m>> \in Seq(Message)
        BY <1>4, AppendIsConcat
      <3> QED
        BY <3>1, <3>2, ConcatHandoffs, ConcatRemovals
    <2>3. ASSUME NEW from \in Token, NEW to \in Token, IsRotate(m, from, to)
          PROVE  said <=> from \notin DOMAIN t.rotations
      <3>1. m.op = "rotate" /\ m.from = from
        BY <2>3 DEF IsRotate
      <3>2. said = (m.from \notin DOMAIN t.rotations)
        BY <1>2, <3>1 DEF Changes
      <3> QED
        BY <3>1, <3>2
    <2>4. NoHandoff({})
      BY <1>3 DEF NoHandoff
    <2>5. table'[Store] = u /\ up'[e] = n
      BY <1>1, <1>3
    <2>6. \A d \in Edge : linked[d] /\ said => down'[d] = Append(down[d], m)
      BY <1>3
    <2> QED
      BY <1>2, <1>4, <2>1, <2>2, <2>3, <2>4, <2>5, <2>6 DEF Relays
  <1> QED
    BY <1>12, <1>13

LEMMA EdgeReceivesTakes ==
    ASSUME TypeOK, NEW e \in Edge, EdgeReceives(e)
    PROVE  \E m : Takes(e, m) /\ Learns(e, m)
  <1>1. /\ down \in [Edge -> Seq(Message)] /\ down[e] \in Seq(Message)
        /\ e \in Process /\ DOMAIN table = Process /\ IsTable(table[e]) /\ now \in Nat
    BY DEF TypeOK, Process
  <1>2. PICK m, n, t, u :
            m = Head(down[e]) /\ n = Tail(down[e]) /\ t = table[e] /\ u = Apply(t, m)
    OBVIOUS
  <1>3. /\ down[e] # <<>> /\ down' = [down EXCEPT ![e] = n] /\ table' = [table EXCEPT ![e] = u]
        /\ UNCHANGED <<up, linked, now, ended, cookie, replaced, handed>>
    BY <1>2 DEF EdgeReceives, history
  <1>4. /\ m \in Message /\ n \in Seq(Message) /\ Taken(n, down[e], m)
        /\ TakenHandoffs(n, down[e], m) /\ TakenRemovals(n, down[e], m)
    BY <1>1, <1>2, <1>3, TailTakes, TailHandoffs, TailRemovals
  <1>5. AppliesTo(t, u, m)
    BY <1>1, <1>2, <1>4, ApplyProperties
  <1>6. Minted' = Minted
    BY <1>3 DEF Minted, Fresh
  <1>7. /\ down' \in [Edge -> Seq(Message)] /\ Taken(down'[e], down[e], m)
        /\ \A d \in Edge \ {e} : down'[d] = down[d]
    BY <1>1, <1>3, <1>4
  <1>8. /\ DOMAIN table' = Process /\ AppliesTo(table[e], table'[e], m)
        /\ \A p \in Process \ {e} : table'[p] = table[p]
    BY <1>1, <1>2, <1>3, <1>5
  <1>9. Takes(e, m)
    BY <1>3, <1>4, <1>6, <1>7, <1>8 DEF Takes
  <1>10. Learns(e, m)
    <2>1. Hears(t, u, m)
      BY <1>1, <1>2, <1>4, ApplyHears
    <2>2. NoHandoff({})
      BY <1>3 DEF NoHandoff
    <2>3. table'[e] = u /\ down'[e] = n
      BY <1>1, <1>3
    <2> QED
      BY <1>2, <1>4, <2>1, <2>2, <2>3 DEF Learns
  <1> QED
    BY <1>9, <1>10

LEMMA LossCuts ==
    ASSUME TypeOK, NEW e \in Edge, LinkLost(e) \/ EdgeRestart(e)
    PROVE  Cuts(e)
  <1>1. /\ down \in [Edge -> Seq(Message)] /\ up \in [Edge -> Seq(Message)]
        /\ linked \in [Edge -> BOOLEAN] /\ e \in Process /\ DOMAIN table = Process
        /\ <<>> \in Seq(Message)
    BY ShortQueues DEF TypeOK, Process
  <1>2. /\ Faults # {}
        /\ linked' = [linked EXCEPT ![e] = FALSE]
        /\ up' = [up EXCEPT ![e] = <<>>] /\ down' = [down EXCEPT ![e] = <<>>]
        /\ UNCHANGED <<now, ended, cookie, replaced>>
        /\ table' = table \/ table' = [table EXCEPT ![e] = EmptyTable]
    BY DEF LinkLost, EdgeRestart, Fault, history
  <1>3. Minted' = Minted
    BY <1>2 DEF Minted, Fresh
  <1>4. /\ DOMAIN table' = Process /\ table'[e] \in {table[e], EmptyTable}
        /\ \A p \in Process \ {e} : table'[p] = table[p]
    BY <1>1, <1>2
  <1> QED
    BY <1>1, <1>2, <1>3, <1>4 DEF Cuts

\* sessionCookieFor answers a credential that was handed on with its successor.
Exchange(b, e) ==
    /\ cookie' = [cookie EXCEPT ![b] = RotationOf(table[e], cookie[b], now)]
    /\ RotationOf(table[e], cookie[b], now) # NoToken
    /\ UNCHANGED <<table, up, down, linked, conn, now, history, faults>>

LEMMA ExchangeRests ==
    ASSUME TypeOK, NamesAreMinted, NEW b \in Browser, NEW e \in Edge, Exchange(b, e)
    PROVE  Rests /\ NoHandoff({})
  <1>1. PICK to : to = RotationOf(table[e], cookie[b], now)
    OBVIOUS
  <1>2. to \in Held(table[e]) /\ e \in Process
    BY <1>1 DEF Exchange, RotationOf, IsLive, Process
  <1>3. to \in Minted
    BY <1>2 DEF NamesAreMinted
  <1>4. /\ cookie \in [Browser -> Token \cup {NoToken}]
        /\ \A c \in Browser : cookie[c] # NoToken => cookie[c] \in Minted
        /\ now \in Nat /\ linked \in [Edge -> BOOLEAN]
    BY DEF TypeOK, NamesAreMinted
  <1>5. cookie' = [cookie EXCEPT ![b] = to]
    BY <1>1 DEF Exchange
  <1>6. \A c \in Browser : cookie'[c] # NoToken => cookie'[c] \in Minted
    BY <1>3, <1>4, <1>5
  <1>7. UNCHANGED <<table, up, down, linked, now, ended, replaced, handed>>
    BY DEF Exchange, history
  <1>8. Minted' = Minted
    BY <1>7 DEF Minted, Fresh
  <1> QED
    BY <1>4, <1>6, <1>7, <1>8 DEF Rests, NoHandoff

LEMMA OthersRest ==
    ASSUME TypeOK, NamesAreMinted,
           \/ \E b \in Browser, c \in Conn, e \in Edge : Upgrade(b, c, e)
           \/ \E c \in Conn : Disconnected(c)
           \/ \E e \in Edge : LinkUp(e)
           \/ Tick
           \/ UNCHANGED vars
    PROVE  Rests /\ NoHandoff({})
  <1>1. /\ now \in Nat /\ linked \in [Edge -> BOOLEAN]
        /\ \A c \in Browser : cookie[c] # NoToken => cookie[c] \in Minted
    BY DEF TypeOK, NamesAreMinted
  <1>2. UNCHANGED <<table, up, down, ended, cookie, replaced, handed>>
    BY DEF Upgrade, Disconnected, LinkUp, Tick, vars, history
  <1>3. Minted' = Minted
    BY <1>2 DEF Minted, Fresh
  <1>4. now' \in Nat /\ now' >= now
    BY <1>1 DEF Upgrade, Disconnected, LinkUp, Tick, vars
  <1>5. linked' \in [Edge -> BOOLEAN] /\ \A e \in Edge : linked[e] => linked'[e]
    BY <1>1 DEF Upgrade, Disconnected, LinkUp, Tick, vars
  <1>6. NoHandoff({})
    BY <1>2 DEF NoHandoff
  <1> QED
    BY <1>1, <1>2, <1>3, <1>4, <1>5, <1>6 DEF Rests

\* Every step of the system has one of these shapes.
Shaped ==
    \/ \E e, gone, new, msgs : Acts(e, gone, new, msgs)
    \/ \E p, gone : Sweeps(p, gone)
    \/ \E e, m, said : Stores(e, m, said)
    \/ \E e, m : Takes(e, m)
    \/ \E e : Cuts(e)
    \/ Rests

\* An elevation on e.
Elevates(e, previous, next, keep, msgs) ==
    Acts(e, {previous}, {next}, msgs) /\ Hands(e, previous, next, keep, msgs)

\* The same, with what each step does to the hand-offs.
Moves ==
    \/ \E e, gone, new, msgs : Acts(e, gone, new, msgs) /\ Trims(e, gone, new, msgs)
    \/ \E e, previous, next, keep, msgs : Elevates(e, previous, next, keep, msgs)
    \/ \E p, gone : Sweeps(p, gone) /\ Cleans(p, gone)
    \/ \E e, m, said : Stores(e, m, said) /\ Relays(e, m, said)
    \/ \E e, m : Takes(e, m) /\ Learns(e, m)
    \/ \E e : Cuts(e)
    \/ Rests /\ NoHandoff({})

LEMMA SlotSetScopeActs ==
    ASSUME TypeOK, NamesAreMinted, NEW c \in Conn, NEW s \in Scope, SlotSetScope(c, s)
    PROVE  Moves
  <1>1. PICK e, live : e = conn[c].edge /\ live = conn[c].live
    OBVIOUS
  <1>2. /\ conn[c] # Free /\ live \in Held(table[e]) /\ UNCHANGED cookie
        /\ \E id \in Fresh : Elevate(e, live, id, s, Nobody, TRUE)
    BY <1>1 DEF SlotSetScope
  <1>3. e \in Edge
    BY <1>1, <1>2 DEF TypeOK
  <1>4. PICK id \in Fresh : Elevate(e, live, id, s, Nobody, TRUE)
    BY <1>2
  <1>5. Nobody \in Identity /\ \A b \in Browser : cookie'[b] \in {cookie[b], id}
    BY <1>2 DEF Identity
  <1>6. \E msgs : Acts(e, {live}, {id}, msgs) /\ Hands(e, live, id, TRUE, msgs)
    BY <1>2, <1>3, <1>4, <1>5, ElevateActs
  <1> QED
    BY <1>6 DEF Moves, Elevates

LEMMA SignInActs ==
    ASSUME TypeOK, NamesAreMinted, NEW b \in Browser, NEW e \in Edge, NEW s \in Scope,
           SignIn(b, e, s)
    PROVE  Moves
  <1>1. PICK live : live = cookie[b]
    OBVIOUS
  <1>2. PICK id \in Fresh : /\ Elevate(e, live, id, s, Nobody, FALSE)
                            /\ cookie' = [cookie EXCEPT ![b] = id]
    BY <1>1 DEF SignIn
  <1>3. live \in Held(table[e])
    BY <1>1 DEF SignIn
  <1>4. Nobody \in Identity /\ \A c \in Browser : cookie'[c] \in {cookie[c], id}
    BY <1>2 DEF Identity, TypeOK
  <1>5. \E msgs : Acts(e, {live}, {id}, msgs) /\ Hands(e, live, id, FALSE, msgs)
    BY <1>2, <1>3, <1>4, ElevateActs
  <1> QED
    BY <1>5 DEF Moves, Elevates

LEMMA StepsAreMoves ==
    ASSUME TypeOK, NamesAreMinted, [Next]_vars
    PROVE  Moves
  <1>1. ASSUME NEW b \in Browser, NEW e \in Edge, PageLoad(b, e) PROVE Moves
    <2>1. CASE Exchange(b, e)
      BY <2>1, ExchangeRests DEF Moves
    <2>2. CASE Issue(b, e, DefaultScope, Nobody)
      <3>1. DefaultScope \in Scope /\ Nobody \in Identity
        BY TableAssumption DEF Identity
      <3> QED
        BY <2>2, <3>1, IssueActs DEF Moves
    <2> QED
      BY <1>1, <2>1, <2>2 DEF PageLoad, Exchange
  <1>2. ASSUME NEW c \in Conn, NEW s \in SlotScopes, SlotSetScope(c, s) PROVE Moves
    <2>1. s \in Scope
      BY ReplicationAssumption
    <2> QED
      BY <1>2, <2>1, SlotSetScopeActs DEF Moves
  <1>3. ASSUME NEW b \in Browser, NEW e \in Edge, NEW s \in Scope \ {DefaultScope},
               SignIn(b, e, s) PROVE Moves
    BY <1>3, SignInActs DEF Moves
  <1>4. ASSUME NEW b \in Browser, NEW e \in Edge, NEW s \in Scope \ {DefaultScope},
               NEW u \in User, LoginCallback(b, e, s, u) PROVE Moves
    <2>1. u \in Identity /\ Issue(b, e, s, u)
      BY <1>4 DEF Identity, LoginCallback
    <2> QED
      BY <2>1, IssueActs DEF Moves
  <1>5. ASSUME NEW b \in Browser, NEW e \in Edge, Logout(b, e) PROVE Moves
    BY <1>5, LogoutActs DEF Moves
  <1>6. ASSUME NEW p \in Process, Sweep(p) PROVE Moves
    BY <1>6, SweepSweeps DEF Moves
  <1>7. ASSUME NEW e \in Edge, StoreReceives(e) PROVE Moves
    BY <1>7, StoreReceivesStores DEF Moves
  <1>8. ASSUME NEW e \in Edge, EdgeReceives(e) PROVE Moves
    BY <1>8, EdgeReceivesTakes DEF Moves
  <1>9. ASSUME NEW e \in Edge, LinkLost(e) \/ EdgeRestart(e) PROVE Moves
    BY <1>9, LossCuts DEF Moves
  <1>10. ASSUME \/ \E b \in Browser, c \in Conn, e \in Edge : Upgrade(b, c, e)
                \/ \E c \in Conn : Disconnected(c)
                \/ \E e \in Edge : LinkUp(e)
                \/ Tick
                \/ UNCHANGED vars
         PROVE  Moves
    BY <1>10, OthersRest DEF Moves
  <1> HIDE DEF TypeOK
  <1> QED
    BY <1>1, <1>2, <1>3, <1>4, <1>5, <1>6, <1>7, <1>8, <1>9, <1>10 DEF Next, Deliver

LEMMA MovesAreShaped ==
    ASSUME Moves
    PROVE  Shaped
  BY DEF Moves, Shaped, Elevates

LEMMA StepsAreShaped ==
    ASSUME TypeOK, NamesAreMinted, [Next]_vars
    PROVE  Shaped
  BY StepsAreMoves, MovesAreShaped

(***************************************************************************)
(* The types, and that only minted credentials have a name.                *)
(***************************************************************************)
LEMMA NothingIsHeldAtFirst ==
    IsTable(EmptyTable) /\ Held(EmptyTable) = {}
  BY DEF IsTable, Held, EmptyTable

\* The tables, the links and the clock keep their types.
LEMMA ShapesKeepTypes ==
    ASSUME TypeOK, Shaped
    PROVE  /\ DOMAIN table' = Process
           /\ \A p \in Process : IsTable(table'[p])
           /\ up' \in [Edge -> Seq(Message)]
           /\ down' \in [Edge -> Seq(Message)]
           /\ linked' \in [Edge -> BOOLEAN]
           /\ now' \in Nat
           /\ ended' \subseteq Token
  <1>0. /\ DOMAIN table = Process /\ \A p \in Process : IsTable(table[p])
        /\ up \in [Edge -> Seq(Message)] /\ down \in [Edge -> Seq(Message)]
        /\ linked \in [Edge -> BOOLEAN] /\ now \in Nat /\ ended \subseteq Token
        /\ \A p \in Process : Held(table[p]) \subseteq Token
    BY DEF TypeOK, IsTable, Held
  <1>1. CASE \E e, gone, new, msgs : Acts(e, gone, new, msgs)
    <2>1. PICK e, gone, new, msgs : Acts(e, gone, new, msgs)
      BY <1>1
    <2>2. /\ e \in Edge /\ e \in Process /\ DOMAIN table' = Process /\ IsTable(table'[e])
          /\ \A p \in Process \ {e} : table'[p] = table[p]
          /\ up' \in [Edge -> Seq(Message)] /\ UNCHANGED <<down, linked, now>>
          /\ \A id \in ended' \ ended : id \in Held(table[e])
      BY <2>1 DEF Acts, Process
    <2> QED
      BY <1>0, <2>2
  <1>2. CASE \E p, gone : Sweeps(p, gone)
    BY <1>0, <1>2 DEF Sweeps
  <1>3. CASE \E e, m, said : Stores(e, m, said)
    BY <1>0, <1>3 DEF Stores, AppliesTo
  <1>4. CASE \E e, m : Takes(e, m)
    BY <1>0, <1>4 DEF Takes, AppliesTo
  <1>5. CASE \E e : Cuts(e)
    BY <1>0, <1>5, NothingIsHeldAtFirst DEF Cuts
  <1>6. CASE Rests
    BY <1>0, <1>6 DEF Rests
  <1> QED
    BY <1>1, <1>2, <1>3, <1>4, <1>5, <1>6 DEF Shaped

\* A connection that is dropped is free, one that follows an elevation stays on its edge.
Connections == [Conn -> {Free} \cup [edge : Edge, live : Token]]

LEMMA DropKeepsType ==
    ASSUME conn \in Connections, NEW e, NEW t, NEW ids, DropSessions(e, t, ids)
    PROVE  conn' \in Connections
  BY DEF DropSessions, Connections

LEMMA FollowKeepsType ==
    ASSUME conn \in Connections, NEW e \in Edge, NEW from, NEW to \in Token,
           FollowRotation(e, from, to)
    PROVE  conn' \in Connections
  BY DEF FollowRotation, Connections

\* What the handlers do to the rest of the state.
RestTyped ==
    /\ conn' \in Connections
    /\ cookie' \in [Browser -> Token \cup {NoToken}]
    /\ replaced' \in [Token -> Token \cup {NoToken}]
    /\ visit' \in [Token -> Token \cup {NoToken}]
    /\ handed' \subseteq Token
    /\ signedOut' \subseteq Token
    /\ faults' \in Nat

LEMMA StepsKeepTypes ==
    ASSUME TypeOK, [Next]_vars
    PROVE  RestTyped
  <1>0. /\ conn \in Connections /\ cookie \in [Browser -> Token \cup {NoToken}]
        /\ replaced \in [Token -> Token \cup {NoToken}]
        /\ visit \in [Token -> Token \cup {NoToken}]
        /\ handed \subseteq Token /\ signedOut \subseteq Token /\ faults \in Nat
        /\ Fresh \subseteq Token
        /\ \A p \in Process : Held(table[p]) \subseteq Token
        /\ down \in [Edge -> Seq(Message)]
    BY DEF TypeOK, Connections, Fresh, IsTable, Held
  <1>1. ASSUME NEW b \in Browser, NEW e \in Edge, NEW scope, NEW identity,
               Issue(b, e, scope, identity)
        PROVE  RestTyped
    <2>1. PICK id, made :
            /\ id \in Fresh
            /\ DropSessions(e, made.table, made.expired \cup made.evicted)
            /\ cookie' = IF made.ok THEN [cookie EXCEPT ![b] = id] ELSE cookie
            /\ replaced' = IF made.ok THEN [replaced EXCEPT ![id] = id] ELSE replaced
            /\ visit' = IF made.ok THEN [visit EXCEPT ![id] = id] ELSE visit
            /\ UNCHANGED <<handed, signedOut, faults>>
      BY <1>1 DEF Issue
    <2>2. conn' \in Connections
      BY <1>0, <2>1, DropKeepsType
    <2> QED
      BY <1>0, <2>1, <2>2 DEF RestTyped
  <1>2. ASSUME NEW e \in Edge, NEW previous \in Token, NEW next \in Fresh, NEW scope,
               NEW identity, NEW keep, Elevate(e, previous, next, scope, identity, keep),
               cookie' = cookie \/ \E b \in Browser : cookie' = [cookie EXCEPT ![b] = next]
        PROVE  RestTyped
    <2>1. /\ FollowRotation(e, previous, next)
          /\ replaced' = [replaced EXCEPT ![next] = previous]
          /\ visit' = [visit EXCEPT ![next] = visit[previous]]
          /\ handed' = IF keep THEN handed \cup {next} ELSE handed
          /\ UNCHANGED <<signedOut, faults>>
      BY <1>2 DEF Elevate
    <2>2. conn' \in Connections
      BY <1>0, <2>1, FollowKeepsType
    <2>3. cookie' \in [Browser -> Token \cup {NoToken}]
      BY <1>0, <1>2
    <2> QED
      BY <1>0, <2>1, <2>2, <2>3 DEF RestTyped
  <1>3. ASSUME NEW b \in Browser, NEW e \in Edge, PageLoad(b, e) PROVE RestTyped
    <2>1. CASE Exchange(b, e)
      <3>1. PICK to : to = RotationOf(table[e], cookie[b], now)
        OBVIOUS
      <3>2. to \in Token
        BY <1>0, <2>1, <3>1 DEF Exchange, RotationOf, IsLive, Process
      <3>3. /\ cookie' = [cookie EXCEPT ![b] = to]
            /\ UNCHANGED <<conn, replaced, visit, handed, signedOut, faults>>
        BY <2>1, <3>1 DEF Exchange, history
      <3> QED
        BY <1>0, <3>2, <3>3 DEF RestTyped
    <2>2. CASE Issue(b, e, DefaultScope, Nobody)
      BY <1>1, <2>2
    <2> QED
      BY <1>3, <2>1, <2>2 DEF PageLoad, Exchange
  <1>4. ASSUME NEW b \in Browser, NEW c \in Conn, NEW e \in Edge, Upgrade(b, c, e)
        PROVE  RestTyped
    <2>1. cookie[b] \in Token
      BY <1>0, <1>4 DEF Upgrade, IsLive, Process
    <2>2. /\ conn' = [conn EXCEPT ![c] = [edge |-> e, live |-> cookie[b]]]
          /\ UNCHANGED <<cookie, replaced, visit, handed, signedOut, faults>>
      BY <1>4 DEF Upgrade, history
    <2> QED
      BY <1>0, <2>1, <2>2 DEF RestTyped, Connections
  <1>5. ASSUME NEW c \in Conn, Disconnected(c) PROVE RestTyped
    BY <1>0, <1>5 DEF RestTyped, Connections, Disconnected, history
  <1>6. ASSUME NEW c \in Conn, NEW s \in SlotScopes, SlotSetScope(c, s) PROVE RestTyped
    <2>1. PICK e, live : e = conn[c].edge /\ live = conn[c].live
      OBVIOUS
    <2>2. conn[c] # Free /\ UNCHANGED cookie
      BY <1>6 DEF SlotSetScope
    <2>3. e \in Edge /\ live \in Token
      BY <1>0, <2>1, <2>2 DEF Connections
    <2>4. PICK id \in Fresh : Elevate(e, live, id, s, Nobody, TRUE)
      BY <1>6, <2>1 DEF SlotSetScope
    <2> QED
      BY <1>2, <2>2, <2>3, <2>4
  <1>7. ASSUME NEW b \in Browser, NEW e \in Edge, NEW s \in Scope \ {DefaultScope},
               SignIn(b, e, s) PROVE RestTyped
    <2>1. PICK live : live = cookie[b]
      OBVIOUS
    <2>2. live \in Token
      BY <1>0, <1>7, <2>1 DEF SignIn, Process
    <2>3. PICK id \in Fresh : /\ Elevate(e, live, id, s, Nobody, FALSE)
                              /\ cookie' = [cookie EXCEPT ![b] = id]
      BY <1>7, <2>1 DEF SignIn
    <2> QED
      BY <1>2, <2>2, <2>3
  <1>8. ASSUME NEW b \in Browser, NEW e \in Edge, Logout(b, e) PROVE RestTyped
    <2>1. PICK left, ids : DropSessions(e, left, ids)
      BY <1>8 DEF Logout
    <2>2. conn' \in Connections
      BY <1>0, <2>1, DropKeepsType
    <2>3. /\ cookie' = [cookie EXCEPT ![b] = NoToken] /\ cookie[b] # NoToken
          /\ signedOut' = signedOut \cup {cookie[b]}
          /\ UNCHANGED <<replaced, visit, handed, faults>>
      BY <1>8 DEF Logout
    <2> QED
      BY <1>0, <2>2, <2>3 DEF RestTyped
  <1>9. ASSUME NEW p \in Process, Sweep(p) PROVE RestTyped
    <2>1. PICK left, ids : DropSessions(p, left, ids)
      BY <1>9 DEF Sweep
    <2>2. conn' \in Connections
      BY <1>0, <2>1, DropKeepsType
    <2>3. UNCHANGED <<cookie, replaced, visit, handed, signedOut, faults>>
      BY <1>9 DEF Sweep, history
    <2> QED
      BY <1>0, <2>2, <2>3 DEF RestTyped
  <1>10. ASSUME NEW e \in Edge, EdgeReceives(e) PROVE RestTyped
    <2>1. PICK m, left : /\ m = Head(down[e])
                         /\ \/ m.op = "rotate" /\ FollowRotation(e, m.from, m.to)
                            \/ DropSessions(e, left, {m.id})
                            \/ UNCHANGED conn
      BY <1>10 DEF EdgeReceives
    <2>2. down[e] # <<>> /\ UNCHANGED <<cookie, replaced, visit, handed, signedOut, faults>>
      BY <1>10 DEF EdgeReceives, history
    <2>3. m \in Message
      BY <1>0, <2>1, <2>2
    <2>4. conn' \in Connections
      <3>1. CASE m.op = "rotate" /\ FollowRotation(e, m.from, m.to)
        <4>1. PICK from, to : from = m.from /\ to = m.to
          OBVIOUS
        <4>2. to \in Token /\ FollowRotation(e, from, to)
          BY <2>3, <3>1, <4>1, MessageForms
        <4> QED
          BY <1>0, <4>2, FollowKeepsType
      <3>2. CASE DropSessions(e, left, {m.id})
        BY <1>0, <3>2, DropKeepsType
      <3> QED
        BY <1>0, <2>1, <3>1, <3>2
    <2> QED
      BY <1>0, <2>2, <2>4 DEF RestTyped
  <1>11. ASSUME NEW e \in Edge, StoreReceives(e) \/ LinkLost(e) \/ LinkUp(e) PROVE RestTyped
    BY <1>0, <1>11 DEF RestTyped, StoreReceives, LinkLost, LinkUp, Fault, history
  <1>12. ASSUME NEW e \in Edge, EdgeRestart(e) PROVE RestTyped
    BY <1>0, <1>12 DEF RestTyped, EdgeRestart, Fault, history, Connections
  <1>13. ASSUME Tick \/ UNCHANGED vars PROVE RestTyped
    BY <1>0, <1>13 DEF RestTyped, Tick, vars, history
  <1> HIDE DEF TypeOK
  <1> QED
    BY <1>1, <1>3, <1>4, <1>5, <1>6, <1>7, <1>8, <1>9, <1>10, <1>11, <1>12, <1>13
       DEF Next, Deliver, LoginCallback

LEMMA NamesStayMinted ==
    ASSUME TypeOK, NamesAreMinted, Shaped
    PROVE  NamesAreMinted'
  <1> USE DEF NamesAreMinted
  <1>0. /\ \A p \in Process : Held(table[p]) \subseteq Token
        /\ \A e \in Edge : up[e] \in Seq(Message) /\ down[e] \in Seq(Message)
        /\ \A e \in Edge : e \in Process /\ Store \in Process
    BY DEF TypeOK, IsTable, Held, Process
  <1>1. CASE \E e, gone, new, msgs : Acts(e, gone, new, msgs)
    <2>1. PICK e, gone, new, msgs : Acts(e, gone, new, msgs)
      BY <1>1
    <2>2. PICK q, n : q = up[e] /\ n = up'[e]
      OBVIOUS
    <2>3. e \in Edge /\ Minted' = Minted \cup new
      BY <2>1 DEF Acts
    <2>4. \A id \in Token : HasPut(n, id) \/ HasRemove(n, id) => id \in Minted'
      <3>1. CASE linked[e]
        <4>1. n = q \o msgs /\ q \in Seq(Message) /\ msgs \in Seq(Message)
          BY <1>0, <2>1, <2>2, <3>1 DEF Acts
        <4>2. Joined(n, q, msgs)
          BY <4>1, ConcatJoins
        <4>3. \A id \in Token : HasPut(msgs, id) \/ HasRemove(msgs, id) => id \in Minted \cup new
          BY <2>1 DEF Acts
        <4>4. \A id \in Token : HasPut(q, id) \/ HasRemove(q, id) => id \in Minted
          BY <2>2, <2>3
        <4> QED
          BY <2>3, <4>2, <4>3, <4>4 DEF Joined
      <3>2. CASE ~linked[e]
        BY <2>1, <2>2, <2>3, <3>2 DEF Acts
      <3> QED
        BY <3>1, <3>2
    <2>5. \A p \in Process : Held(table'[p]) \subseteq Minted'
      BY <1>0, <2>1 DEF Acts
    <2>6. ended' \subseteq Minted' /\ \A b \in Browser : cookie'[b] # NoToken => cookie'[b] \in Minted'
      BY <1>0, <2>1 DEF Acts
    <2>7. down' = down /\ \A d \in Edge \ {e} : up'[d] = up[d]
      BY <2>1 DEF Acts
    <2>8. \A d \in Edge, id \in Token :
              /\ HasPut(up'[d], id) \/ HasRemove(up'[d], id) => id \in Minted'
              /\ HasPut(down'[d], id) \/ HasRemove(down'[d], id) => id \in Minted'
      BY <2>2, <2>3, <2>4, <2>7
    <2> QED
      BY <2>5, <2>6, <2>8
  <1>2. CASE \E p, gone : Sweeps(p, gone)
    <2>1. PICK p, gone : Sweeps(p, gone)
      BY <1>2
    <2> QED
      BY <2>1 DEF Sweeps
  <1>3. CASE \E e, m, said : Stores(e, m, said)
    <2>1. PICK e, m, said : Stores(e, m, said)
      BY <1>3
    <2>2. /\ m \in Message /\ e \in Edge /\ Minted' = Minted
          /\ \A d \in Edge \ {e} : up'[d] = up[d]
          /\ UNCHANGED <<ended, cookie>> /\ Taken(up'[e], up[e], m)
      BY <2>1 DEF Stores
    <2>3. \A id \in Token : /\ IsPut(m, id) \/ IsRemove(m, id) => id \in Minted
                            /\ HasPut(up'[e], id) => HasPut(up[e], id)
                            /\ HasRemove(up'[e], id) => HasRemove(up[e], id)
      BY <2>2 DEF Taken
    <2>4. \A p \in Process : Held(table'[p]) \subseteq Minted
      <3>1. Held(table'[Store]) \subseteq Minted
        BY <1>0, <2>1, <2>3 DEF Stores, AppliesTo, IsTable, Held
      <3> QED
        BY <2>1, <3>1 DEF Stores
    <2>5. \A d \in Edge, id \in Token : HasPut(down'[d], id) \/ HasRemove(down'[d], id)
                                            => id \in Minted
      <3> SUFFICES ASSUME NEW d \in Edge, NEW id \in Token,
                          HasPut(down'[d], id) \/ HasRemove(down'[d], id)
                   PROVE  id \in Minted
        OBVIOUS
      <3>1. CASE linked[d] /\ said
        <4>1. Joined(down'[d], down[d], <<m>>)
          BY <2>1, <3>1 DEF Stores
        <4>2. \/ HasPut(down[d], id) \/ HasRemove(down[d], id)
              \/ HasPut(<<m>>, id) \/ HasRemove(<<m>>, id)
          BY <4>1 DEF Joined
        <4> QED
          BY <2>2, <2>3, <4>2, SingleQueue
      <3>2. CASE ~(linked[d] /\ said)
        BY <2>1, <3>2 DEF Stores
      <3> QED
        BY <3>1, <3>2
    <2>6. \A d \in Edge, id \in Token : HasPut(up'[d], id) \/ HasRemove(up'[d], id)
                                            => id \in Minted
      BY <2>2, <2>3
    <2> QED
      BY <2>2, <2>4, <2>5, <2>6
  <1>4. CASE \E e, m : Takes(e, m)
    <2>1. PICK e, m : Takes(e, m)
      BY <1>4
    <2>2. /\ m \in Message /\ e \in Edge /\ Minted' = Minted
          /\ \A d \in Edge \ {e} : down'[d] = down[d]
          /\ UNCHANGED <<ended, cookie, up>> /\ Taken(down'[e], down[e], m)
      BY <2>1 DEF Takes
    <2>3. \A id \in Token : /\ IsPut(m, id) \/ IsRemove(m, id) => id \in Minted
                            /\ HasPut(down'[e], id) => HasPut(down[e], id)
                            /\ HasRemove(down'[e], id) => HasRemove(down[e], id)
      BY <2>2 DEF Taken
    <2>4. \A p \in Process : Held(table'[p]) \subseteq Minted
      <3>1. Held(table'[e]) \subseteq Minted
        BY <1>0, <2>1, <2>3 DEF Takes, AppliesTo, IsTable, Held
      <3> QED
        BY <2>1, <3>1 DEF Takes
    <2>5. \A d \in Edge, id \in Token : HasPut(down'[d], id) \/ HasRemove(down'[d], id)
                                            => id \in Minted
      BY <2>2, <2>3
    <2> QED
      BY <2>2, <2>4, <2>5
  <1>5. CASE \E e : Cuts(e)
    <2>1. PICK e : Cuts(e)
      BY <1>5
    <2>2. \A p \in Process : Held(table'[p]) \subseteq Held(table[p])
      BY <2>1, NothingIsHeldAtFirst DEF Cuts
    <2>3. \A d \in Edge : /\ up'[d] = up[d] \/ up'[d] = <<>>
                          /\ down'[d] = down[d] \/ down'[d] = <<>>
      BY <2>1 DEF Cuts
    <2>4. \A d \in Edge, id \in Token :
              /\ HasPut(up'[d], id) \/ HasRemove(up'[d], id) => id \in Minted
              /\ HasPut(down'[d], id) \/ HasRemove(down'[d], id) => id \in Minted
      BY <2>3, ShortQueues
    <2>5. Minted' = Minted /\ UNCHANGED <<ended, cookie>>
      BY <2>1 DEF Cuts
    <2> QED
      BY <2>2, <2>4, <2>5
  <1>6. CASE Rests
    BY <1>6 DEF Rests
  <1> QED
    BY <1>1, <1>2, <1>3, <1>4, <1>5, <1>6 DEF Shaped

LEMMA InitTypes ==
    ASSUME Init
    PROVE  TypeOK /\ NamesAreMinted
  <1>1. /\ IsTable(EmptyTable) /\ Held(EmptyTable) = {} /\ <<>> \in Seq(Message)
        /\ \A id \in Token : ~HasPut(<<>>, id) /\ ~HasRemove(<<>>, id)
    BY NothingIsHeldAtFirst, ShortQueues
  <1>2. TypeOK
    BY <1>1 DEF Init, TypeOK
  <1>3. NamesAreMinted
    BY <1>1 DEF Init, NamesAreMinted
  <1> QED
    BY <1>2, <1>3

LEMMA NextTypes ==
    ASSUME TypeOK, NamesAreMinted, [Next]_vars
    PROVE  TypeOK' /\ NamesAreMinted'
  <1>1. Shaped
    BY StepsAreShaped
  <1>2. NamesAreMinted'
    BY <1>1, NamesStayMinted
  <1>3. RestTyped
    BY StepsKeepTypes
  <1>4. /\ DOMAIN table' = Process
        /\ \A p \in Process : IsTable(table'[p])
        /\ up' \in [Edge -> Seq(Message)]
        /\ down' \in [Edge -> Seq(Message)]
        /\ linked' \in [Edge -> BOOLEAN]
        /\ now' \in Nat
        /\ ended' \subseteq Token
    BY <1>1, ShapesKeepTypes
  <1> HIDE DEF NamesAreMinted
  <1>5. TypeOK'
    BY <1>3, <1>4 DEF RestTyped, TypeOK, Connections
  <1> QED
    BY <1>2, <1>5

\* The variables keep their types through every handler, link fault and restart, and only
\* credentials that were minted are held, told of or presented (createSession, setScope).
THEOREM TypeCorrectness == Spec => [](TypeOK /\ NamesAreMinted)
  <1>1. Init => TypeOK /\ NamesAreMinted
    BY InitTypes
  <1>2. (TypeOK /\ NamesAreMinted) /\ [Next]_vars => (TypeOK /\ NamesAreMinted)'
    BY NextTypes
  <1> QED
    BY <1>1, <1>2, PTL DEF Spec

(***************************************************************************)
(* Every copy of a session says the same of it.                            *)
(***************************************************************************)
\* x is what a table of T, or a creation on a link of U or D, says of id.
IsCopyIn(T, U, D, id, x) ==
    \/ \E p \in Process : id \in Held(T[p]) /\ x = ToldIn(T[p], id)
    \/ \E e \in Edge : Says(U[e], id, x) \/ Says(D[e], id, x)

LEMMA CopiesForm ==
    ASSUME NEW id \in Token
    PROVE  \A x : x \in Copies(id) <=> IsCopyIn(table, up, down, id, x)
  <1>1. \A p : Told(p, id) = ToldIn(table[p], id)
    BY DEF Told, ToldIn
  <1> QED
    BY <1>1 DEF Copies, IsCopyIn, Says

LEMMA CopiesFormNext ==
    ASSUME NEW id \in Token
    PROVE  \A x : x \in Copies(id)' <=> IsCopyIn(table', up', down', id, x)
  <1>1. \A p : Told(p, id)' = ToldIn(table'[p], id)
    BY DEF Told, ToldIn
  <1> QED
    BY <1>1 DEF Copies, IsCopyIn, Says

LEMMA SayingIsPutting ==
    ASSUME NEW q, NEW id, NEW x, Says(q, id, x)
    PROVE  HasPut(q, id)
  BY DEF Says, HasPut

\* A step makes no copy of its own, but of a session it creates on e.
Inherits(e) ==
    \A id \in Token : \A x :
        IsCopyIn(table', up', down', id, x)
            => \/ IsCopyIn(table, up, down, id, x)
               \/ id \notin Minted /\ x = ToldIn(table'[e], id)

LEMMA ActsInherit ==
    ASSUME TypeOK, NamesAreMinted, NEW e, NEW gone, NEW new, NEW msgs,
           Acts(e, gone, new, msgs)
    PROVE  Inherits(e)
  <1>0. /\ \A p \in Process : Held(table[p]) \subseteq Token
        /\ \A d \in Edge : up[d] \in Seq(Message) /\ down[d] \in Seq(Message)
        /\ \A d \in Edge : d \in Process
    BY DEF TypeOK, IsTable, Held, Process
  <1>1. /\ e \in Edge /\ e \in Process /\ new \subseteq Fresh
        /\ \A p \in Process \ {e} : table'[p] = table[p]
        /\ Held(table'[e]) = (Held(table[e]) \ gone) \cup new
        /\ \A id \in Held(table[e]) \ gone : table'[e].sessions[id] = table[e].sessions[id]
        /\ \A d \in Edge \ {e} : up'[d] = up[d]
        /\ down' = down
    BY <1>0 DEF Acts
  <1>2. \A id \in new : id \notin Minted
    BY <1>1 DEF Minted
  <1>3. ASSUME NEW id \in Token, NEW x, Says(up'[e], id, x)
        PROVE  Says(up[e], id, x) \/ (id \notin Minted /\ x = ToldIn(table'[e], id))
    <2>1. CASE linked[e]
      <3>1. PICK q, n : q = up[e] /\ n = up'[e]
        OBVIOUS
      <3>2. n = q \o msgs /\ q \in Seq(Message) /\ msgs \in Seq(Message)
        BY <1>0, <2>1, <3>1 DEF Acts
      <3>3. Joined(n, q, msgs)
        BY <3>2, ConcatJoins
      <3>4. Says(q, id, x) \/ Says(msgs, id, x)
        BY <1>3, <3>1, <3>3 DEF Joined
      <3>5. CASE Says(msgs, id, x)
        <4>1. HasPut(msgs, id)
          BY <3>5, SayingIsPutting
        <4>2. id \in new /\ x = ToldIn(table'[e], id)
          BY <3>5, <4>1 DEF Acts
        <4> QED
          BY <1>2, <4>2
      <3> QED
        BY <3>1, <3>4, <3>5
    <2>2. CASE ~linked[e]
      BY <1>3, <2>2 DEF Acts
    <2> QED
      BY <2>1, <2>2
  <1>4. ASSUME NEW id \in Token, NEW x, NEW p \in Process, id \in Held(table'[p]),
               x = ToldIn(table'[p], id)
        PROVE  \/ id \in Held(table[p]) /\ x = ToldIn(table[p], id)
               \/ id \notin Minted /\ x = ToldIn(table'[e], id)
    BY <1>1, <1>2, <1>4 DEF ToldIn
  <1> QED
    BY <1>1, <1>3, <1>4 DEF Inherits, IsCopyIn

LEMMA CopiesAreInherited ==
    ASSUME TypeOK, NamesAreMinted, Shaped
    PROVE  \E e : Inherits(e)
  <1>0. /\ \A p \in Process : Held(table[p]) \subseteq Token
        /\ \A e \in Edge : up[e] \in Seq(Message) /\ down[e] \in Seq(Message)
        /\ \A e \in Edge : e \in Process
        /\ Store \in Process
    BY DEF TypeOK, IsTable, Held, Process
  <1>1. CASE \E e, gone, new, msgs : Acts(e, gone, new, msgs)
    BY <1>1, ActsInherit
  <1>2. CASE \E p, gone : Sweeps(p, gone)
    <2>1. PICK p, gone : Sweeps(p, gone)
      BY <1>2
    <2>2. \A q \in Process : /\ Held(table'[q]) \subseteq Held(table[q])
                             /\ \A id \in Held(table'[q]) :
                                   table'[q].sessions[id] = table[q].sessions[id]
      BY <2>1 DEF Sweeps
    <2>3. up' = up /\ down' = down
      BY <2>1 DEF Sweeps
    <2>4. ASSUME NEW id \in Token, NEW x, NEW q \in Process, id \in Held(table'[q]),
                 x = ToldIn(table'[q], id)
          PROVE  id \in Held(table[q]) /\ x = ToldIn(table[q], id)
      BY <2>2, <2>4 DEF ToldIn
    <2>5. Inherits(Store)
      BY <2>3, <2>4 DEF Inherits, IsCopyIn
    <2> QED
      BY <2>5
  <1>3. CASE \E e, m, said : Stores(e, m, said)
    <2>1. PICK e, m, said : Stores(e, m, said)
      BY <1>3
    <2>2. /\ m \in Message /\ e \in Edge
          /\ \A d \in Edge \ {e} : up'[d] = up[d]
          /\ Taken(up'[e], up[e], m)
          /\ \A p \in Process \ {Store} : table'[p] = table[p]
          /\ AppliesTo(table[Store], table'[Store], m)
      BY <2>1 DEF Stores
    <2>3. ASSUME NEW id \in Token, NEW x, IsPut(m, id), x = ToldBy(m)
          PROVE  Says(up[e], id, x)
      BY <2>2, <2>3 DEF Taken
    <2>4. ASSUME NEW id \in Token, NEW x, NEW p \in Process, id \in Held(table'[p]),
                 x = ToldIn(table'[p], id)
          PROVE  \/ id \in Held(table[p]) /\ x = ToldIn(table[p], id)
                 \/ Says(up[e], id, x)
      <3>1. CASE p # Store
        BY <2>2, <2>4, <3>1
      <3>2. CASE p = Store
        <4>1. CASE IsPut(m, id)
          BY <2>2, <2>3, <2>4, <3>2, <4>1 DEF AppliesTo
        <4>2. CASE ~IsPut(m, id)
          BY <2>2, <2>4, <3>2, <4>2 DEF AppliesTo
        <4> QED
          BY <4>1, <4>2
      <3> QED
        BY <3>1, <3>2
    <2>5. ASSUME NEW id \in Token, NEW x, NEW d \in Edge, Says(down'[d], id, x)
          PROVE  Says(down[d], id, x) \/ Says(up[e], id, x)
      <3>1. CASE linked[d] /\ said
        <4>1. Joined(down'[d], down[d], <<m>>)
          BY <2>1, <3>1 DEF Stores
        <4>2. Says(down[d], id, x) \/ Says(<<m>>, id, x)
          BY <2>5, <4>1 DEF Joined
        <4>3. Says(<<m>>, id, x) => IsPut(m, id) /\ x = ToldBy(m)
          BY <2>2, SingleQueue
        <4> QED
          BY <2>3, <4>2, <4>3
      <3>2. CASE ~(linked[d] /\ said)
        BY <2>1, <2>5, <3>2 DEF Stores
      <3> QED
        BY <3>1, <3>2
    <2>6. ASSUME NEW id \in Token, NEW x, NEW d \in Edge, Says(up'[d], id, x)
          PROVE  Says(up[d], id, x)
      BY <2>2, <2>6 DEF Taken
    <2>7. Inherits(Store)
      BY <2>2, <2>4, <2>5, <2>6 DEF Inherits, IsCopyIn
    <2> QED
      BY <2>7
  <1>4. CASE \E e, m : Takes(e, m)
    <2>1. PICK e, m : Takes(e, m)
      BY <1>4
    <2>2. /\ m \in Message /\ e \in Edge /\ up' = up
          /\ \A d \in Edge \ {e} : down'[d] = down[d]
          /\ Taken(down'[e], down[e], m)
          /\ \A p \in Process \ {e} : table'[p] = table[p]
          /\ AppliesTo(table[e], table'[e], m)
      BY <2>1 DEF Takes
    <2>3. ASSUME NEW id \in Token, NEW x, NEW p \in Process, id \in Held(table'[p]),
                 x = ToldIn(table'[p], id)
          PROVE  \/ id \in Held(table[p]) /\ x = ToldIn(table[p], id)
                 \/ Says(down[e], id, x)
      <3>1. CASE p # e
        BY <2>2, <2>3, <3>1
      <3>2. CASE p = e
        <4>1. CASE IsPut(m, id)
          BY <2>2, <2>3, <3>2, <4>1 DEF AppliesTo, Taken
        <4>2. CASE ~IsPut(m, id)
          BY <2>2, <2>3, <3>2, <4>2 DEF AppliesTo
        <4> QED
          BY <4>1, <4>2
      <3> QED
        BY <3>1, <3>2
    <2>4. ASSUME NEW id \in Token, NEW x, NEW d \in Edge, Says(down'[d], id, x)
          PROVE  Says(down[d], id, x)
      BY <2>2, <2>4 DEF Taken
    <2>5. Inherits(Store)
      BY <2>2, <2>3, <2>4 DEF Inherits, IsCopyIn
    <2> QED
      BY <2>5
  <1>5. CASE \E e : Cuts(e)
    <2>1. PICK e : Cuts(e)
      BY <1>5
    <2>2. \A p \in Process : table'[p] = table[p] \/ Held(table'[p]) = {}
      BY <2>1, NothingIsHeldAtFirst DEF Cuts
    <2>3. \A d \in Edge : /\ up'[d] = up[d] \/ up'[d] = <<>>
                          /\ down'[d] = down[d] \/ down'[d] = <<>>
      BY <2>1 DEF Cuts
    <2>4. ASSUME NEW id \in Token, NEW x, NEW d \in Edge
          PROVE  /\ Says(up'[d], id, x) => Says(up[d], id, x)
                 /\ Says(down'[d], id, x) => Says(down[d], id, x)
      BY <2>3, ShortQueues
    <2>5. ASSUME NEW id \in Token, NEW x, IsCopyIn(table', up', down', id, x)
          PROVE  IsCopyIn(table, up, down, id, x)
      <3>1. CASE \E p \in Process : id \in Held(table'[p]) /\ x = ToldIn(table'[p], id)
        BY <2>2, <3>1 DEF IsCopyIn
      <3>2. CASE \E d \in Edge : Says(up'[d], id, x) \/ Says(down'[d], id, x)
        BY <2>4, <3>2 DEF IsCopyIn
      <3> QED
        BY <2>5, <3>1, <3>2 DEF IsCopyIn
    <2>6. Inherits(Store)
      BY <2>5 DEF Inherits
    <2> QED
      BY <2>6
  <1>6. CASE Rests
    <2>1. Inherits(Store)
      BY <1>6 DEF Rests, Inherits
    <2> QED
      BY <2>1
  <1> QED
    BY <1>1, <1>2, <1>3, <1>4, <1>5, <1>6 DEF Shaped

\* A credential nobody has minted has no copy.
LEMMA FreshHasNoCopy ==
    ASSUME NamesAreMinted, NEW id \in Token, NEW x, IsCopyIn(table, up, down, id, x)
    PROVE  id \in Minted
  BY SayingIsPutting DEF NamesAreMinted, IsCopyIn

LEMMA CopiesStayEqual ==
    ASSUME TypeOK, NamesAreMinted, CopiesAgree, [Next]_vars
    PROVE  CopiesAgree'
  <1>1. PICK e : Inherits(e)
    BY StepsAreShaped, CopiesAreInherited
  <1> SUFFICES ASSUME NEW id \in Token, NEW x \in Copies(id)', NEW y \in Copies(id)'
               PROVE  x = y
    BY DEF CopiesAgree
  <1>2. IsCopyIn(table', up', down', id, x) /\ IsCopyIn(table', up', down', id, y)
    BY CopiesFormNext
  <1>3. CASE id \in Minted
    <2>1. IsCopyIn(table, up, down, id, x) /\ IsCopyIn(table, up, down, id, y)
      BY <1>1, <1>2, <1>3 DEF Inherits
    <2>2. x \in Copies(id) /\ y \in Copies(id)
      BY <2>1, CopiesForm
    <2> QED
      BY <2>2 DEF CopiesAgree
  <1>4. CASE id \notin Minted
    <2>1. ~IsCopyIn(table, up, down, id, x) /\ ~IsCopyIn(table, up, down, id, y)
      BY <1>4, FreshHasNoCopy
    <2>2. x = ToldIn(table'[e], id) /\ y = ToldIn(table'[e], id)
      BY <1>1, <1>2, <2>1 DEF Inherits
    <2> QED
      BY <2>2
  <1> QED
    BY <1>3, <1>4

\* However many links are lost and edges restarted, and in whatever order echoes arrive, two
\* processes that hold a credential hold it with the same scope, identity and age
\* (applyUpsert overwrites, and never with something else; setScope mints a new credential).
THEOREM EveryCopyAgrees == Spec => []RecordsAgree
  <1>1. Init => CopiesAgree
    <2> SUFFICES ASSUME Init, NEW id \in Token, NEW x \in Copies(id)
                 PROVE  FALSE
      BY DEF CopiesAgree
    <2>1. IsCopyIn(table, up, down, id, x)
      BY CopiesForm
    <2>2. \A p \in Process : Held(table[p]) = {}
      BY NothingIsHeldAtFirst DEF Init
    <2>3. \A e \in Edge : ~Says(up[e], id, x) /\ ~Says(down[e], id, x)
      BY ShortQueues DEF Init
    <2> QED
      BY <2>1, <2>2, <2>3 DEF IsCopyIn
  <1>2. TypeOK /\ NamesAreMinted /\ CopiesAgree /\ [Next]_vars => CopiesAgree'
    BY CopiesStayEqual
  <1>3. TypeOK /\ CopiesAgree => RecordsAgree
    <2> SUFFICES ASSUME TypeOK, CopiesAgree, NEW p \in Process, NEW q \in Process,
                        NEW id \in Held(table[p]) \cap Held(table[q])
                 PROVE  Told(p, id) = Told(q, id)
      BY DEF RecordsAgree
    <2>1. id \in Token
      BY DEF TypeOK, IsTable, Held
    <2>2. Told(p, id) \in Copies(id) /\ Told(q, id) \in Copies(id)
      BY DEF Copies
    <2> QED
      BY <2>1, <2>2 DEF CopiesAgree
  <1> QED
    BY <1>1, <1>2, <1>3, TypeCorrectness, PTL DEF Spec

(***************************************************************************)
(* While no link is lost.                                                  *)
(***************************************************************************)
OutlivedIn(T, U, D, at, id) == \A x : IsCopyIn(T, U, D, id, x) => Expired(x.created, at)

LEMMA OutlivedForm ==
    ASSUME NEW id \in Token
    PROVE  Outlived(id) <=> OutlivedIn(table, up, down, now, id)
  BY CopiesForm DEF Outlived, OutlivedIn

LEMMA OutlivedFormNext ==
    ASSUME NEW id \in Token
    PROVE  Outlived(id)' <=> OutlivedIn(table', up', down', now', id)
  BY CopiesFormNext DEF Outlived, OutlivedIn

LEMMA CopyIsDated ==
    ASSUME TypeOK, NEW id \in Token, NEW x, IsCopyIn(table, up, down, id, x)
    PROVE  x.created \in Nat
  <1>1. CASE \E p \in Process : id \in Held(table[p]) /\ x = ToldIn(table[p], id)
    <2>1. PICK p \in Process : id \in Held(table[p]) /\ x = ToldIn(table[p], id)
      BY <1>1
    <2>2. table[p].sessions[id] \in SessionRecord
      BY <2>1 DEF TypeOK, IsTable, Held
    <2> QED
      BY <2>1, <2>2 DEF ToldIn, SessionRecord
  <1>2. CASE \E e \in Edge : Says(up[e], id, x) \/ Says(down[e], id, x)
    <2>1. PICK q \in Seq(Message) : Says(q, id, x)
      BY <1>2 DEF TypeOK
    <2>2. PICK i \in 1..Len(q) : IsPut(q[i], id) /\ x = ToldBy(q[i])
      BY <2>1 DEF Says
    <2>3. PICK m \in Message : m = q[i]
      BY <2>2
    <2>4. m.op = "put" /\ x = ToldBy(m)
      BY <2>2, <2>3 DEF IsPut
    <2>5. m.created \in Nat
      BY <2>4, MessageForms
    <2> QED
      BY <2>4, <2>5 DEF ToldBy
  <1> QED
    BY <1>1, <1>2 DEF IsCopyIn

LEMMA TimePasses ==
    ASSUME TypeOK, Shaped
    PROVE  now \in Nat /\ now' \in Nat /\ now' >= now
  <1>1. now \in Nat
    BY DEF TypeOK
  <1>2. now' = now \/ Rests
    <2>1. \A e, gone, new, msgs : Acts(e, gone, new, msgs) => now' = now
      BY DEF Acts
    <2>2. \A p, gone : Sweeps(p, gone) => now' = now
      BY DEF Sweeps
    <2>3. \A e, m, said : Stores(e, m, said) => now' = now
      BY DEF Stores
    <2>4. \A e, m : Takes(e, m) => now' = now
      BY DEF Takes
    <2>5. \A e : Cuts(e) => now' = now
      BY DEF Cuts
    <2> QED
      BY <2>1, <2>2, <2>3, <2>4, <2>5 DEF Shaped
  <1>3. Rests => now' \in Nat /\ now' >= now
    BY DEF Rests
  <1> QED
    BY <1>1, <1>2, <1>3

\* A session past its TTL stays past it.
LEMMA OutlivedStays ==
    ASSUME TypeOK, NamesAreMinted, Shaped, NEW id \in Minted, Outlived(id)
    PROVE  Outlived(id)'
  <1>0. id \in Token
    BY DEF Minted
  <1>1. now \in Nat /\ now' \in Nat /\ now' >= now
    BY TimePasses
  <1>2. PICK e : Inherits(e)
    BY CopiesAreInherited
  <1> SUFFICES ASSUME NEW x, IsCopyIn(table', up', down', id, x)
               PROVE  Expired(x.created, now')
    BY <1>0, OutlivedFormNext DEF OutlivedIn
  <1>3. IsCopyIn(table, up, down, id, x)
    BY <1>0, <1>2 DEF Inherits
  <1>4. Expired(x.created, now)
    BY <1>0, <1>3, OutlivedForm DEF OutlivedIn
  <1>5. x.created \in Nat
    BY <1>0, <1>3, CopyIsDated
  <1> QED
    BY <1>1, <1>4, <1>5, TableAssumption DEF Expired

\* What one process has to forget for its age, all have to.
LEMMA OneExpiresAllExpire ==
    ASSUME CopiesAgree, NEW p \in Process, NEW id \in Token, id \in Held(table[p]),
           Expired(table[p].sessions[id].created, now)
    PROVE  Outlived(id)
  <1>1. PICK x : x = Told(p, id)
    OBVIOUS
  <1>2. x \in Copies(id) /\ Expired(x.created, now)
    BY <1>1 DEF Copies, Told
  <1> QED
    BY <1>2 DEF Outlived, CopiesAgree

PrivateIn(T, U, D) ==
    \A c \in Edge, id \in Token : HasPut(U[c], id) =>
        /\ id \notin Held(T[Store])
        /\ OnePut(U[c], id)
        /\ \A e \in Edge \ {c} : id \notin Held(T[e]) /\ ~HasPut(U[e], id)
        /\ \A e \in Edge : ~HasPut(D[e], id) /\ ~HasRemove(D[e], id)

LEMMA PrivateForm ==
    ASSUME CreationIsPrivate
    PROVE  PrivateIn(table, up, down)
  <1> SUFFICES ASSUME NEW c \in Edge, NEW id \in Token, HasPut(up[c], id)
               PROVE  /\ id \notin Held(table[Store])
                      /\ OnePut(up[c], id)
                      /\ \A e \in Edge \ {c} : id \notin Held(table[e]) /\ ~HasPut(up[e], id)
                      /\ \A e \in Edge : ~HasPut(down[e], id) /\ ~HasRemove(down[e], id)
    BY DEF PrivateIn
  <1>1. ASSUME NEW i \in 1..Len(up[c]), IsPut(up[c][i], id)
        PROVE  /\ id \notin Held(table[Store])
               /\ \A e \in Edge \ {c} : id \notin Held(table[e]) /\ ~HasPut(up[e], id)
               /\ \A e \in Edge : ~HasPut(down[e], id) /\ ~HasRemove(down[e], id)
               /\ \A j \in 1..Len(up[c]) : IsPut(up[c][j], id) => j = i
    <2>1. up[c][i].op = "put" /\ up[c][i].id = id
      BY <1>1 DEF IsPut
    <2> QED
      BY <2>1 DEF CreationIsPrivate
  <1> QED
    BY <1>1 DEF HasPut, OnePut

LEMMA PrivateFormNext ==
    ASSUME PrivateIn(table', up', down'), up' \in [Edge -> Seq(Message)]
    PROVE  CreationIsPrivate'
  <1> SUFFICES ASSUME NEW c \in Edge, NEW i \in 1..Len(up'[c]), up'[c][i].op = "put",
                      NEW id, id = up'[c][i].id
               PROVE  /\ id \notin Held(table'[Store])
                      /\ \A e \in Edge \ {c} : id \notin Held(table'[e]) /\ ~HasPut(up'[e], id)
                      /\ \A e \in Edge : ~HasPut(down'[e], id) /\ ~HasRemove(down'[e], id)
                      /\ \A j \in 1..Len(up'[c]) : IsPut(up'[c][j], id) => j = i
    BY DEF CreationIsPrivate
  <1>1. up'[c][i] \in Message
    OBVIOUS
  <1>2. id \in Token
    BY <1>1, MessageForms
  <1>3. IsPut(up'[c][i], id) /\ HasPut(up'[c], id)
    BY DEF IsPut, HasPut
  <1> QED
    BY <1>2, <1>3 DEF PrivateIn, OnePut

LEMMA NoPutNoMatter ==
    ASSUME NEW q, NEW id, ~HasPut(q, id)
    PROVE  RemovedLast(q, id) /\ OnePut(q, id)
  BY DEF HasPut, RemovedLast, OnePut

\* What the steps below start from, and what they must keep.
Working == TypeOK /\ NamesAreMinted /\ CopiesAgree /\ ReplicationInv

\* The facts each of them needs.
LEMMA WorkingFacts ==
    ASSUME Working
    PROVE  /\ \A e \in Edge : linked[e]
           /\ PrivateIn(table, up, down)
           /\ \A p \in Process : Held(table[p]) \subseteq Token /\ Held(table[p]) \subseteq Minted
           /\ \A e \in Edge : up[e] \in Seq(Message) /\ down[e] \in Seq(Message)
           /\ \A e \in Edge : e \in Process /\ e # Store
           /\ Store \in Process
           /\ ended \subseteq Token /\ ended \subseteq Minted
           /\ \A e \in Edge, id \in Token :
                 /\ HasPut(up[e], id) \/ HasRemove(up[e], id) => id \in Minted
                 /\ HasPut(down[e], id) \/ HasRemove(down[e], id) => id \in Minted
  <1>1. \A e \in Edge : linked[e]
    BY DEF Working, ReplicationInv
  <1>2. PrivateIn(table, up, down)
    BY PrivateForm DEF Working, ReplicationInv
  <1>3. /\ \A p \in Process : Held(table[p]) \subseteq Token
        /\ \A e \in Edge : up[e] \in Seq(Message) /\ down[e] \in Seq(Message)
        /\ ended \subseteq Token
    BY DEF Working, TypeOK, IsTable, Held
  <1>4. /\ \A p \in Process : Held(table[p]) \subseteq Minted
        /\ ended \subseteq Minted
        /\ \A e \in Edge, id \in Token :
                 /\ HasPut(up[e], id) \/ HasRemove(up[e], id) => id \in Minted
                 /\ HasPut(down[e], id) \/ HasRemove(down[e], id) => id \in Minted
    BY DEF Working, NamesAreMinted
  <1>5. (\A e \in Edge : e \in Process /\ e # Store) /\ Store \in Process
    BY ReplicationAssumption DEF Process
  <1> QED
    BY <1>1, <1>2, <1>3, <1>4, <1>5

\* What an edge that acts adds to its link.
LEMMA ActsSends ==
    ASSUME Working, NEW e, NEW gone, NEW new, NEW msgs, Acts(e, gone, new, msgs)
    PROVE  \A id \in Token :
              /\ HasPut(up'[e], id) <=> HasPut(up[e], id) \/ id \in new
              /\ HasRemove(up'[e], id) <=> HasRemove(up[e], id) \/ HasRemove(msgs, id)
              /\ id \notin new /\ (RemovedLast(up[e], id) \/ HasRemove(msgs, id))
                    => RemovedLast(up'[e], id)
              /\ OnePut(up[e], id) /\ id \notin new => OnePut(up'[e], id)
              /\ ~HasPut(up[e], id) => OnePut(up'[e], id)
  <1>0. /\ e \in Edge /\ linked[e] /\ up[e] \in Seq(Message) /\ msgs \in Seq(Message)
        /\ \A id \in Token : (HasPut(msgs, id) <=> id \in new) /\ OnePut(msgs, id)
    BY WorkingFacts DEF Acts
  <1>1. PICK q, n : q = up[e] /\ n = up'[e]
    OBVIOUS
  <1>2. Joined(n, q, msgs)
    <2>1. q \in Seq(Message) /\ n = q \o msgs
      BY <1>0, <1>1 DEF Acts
    <2> QED
      BY <1>0, <2>1, ConcatJoins
  <1> QED
    BY <1>0, <1>1, <1>2 DEF Joined

\* Whoever takes its end of a session back from the store dooms it.
LEMMA ActsDooms ==
    ASSUME Working, NEW e, NEW gone, NEW new, NEW msgs, Acts(e, gone, new, msgs),
           NEW id \in Held(table[e]), HasRemove(msgs, id)
    PROVE  Doomed(id)'
  <1>0. /\ PrivateIn(table, up, down)
        /\ \A p \in Process : Held(table[p]) \subseteq Token /\ Held(table[p]) \subseteq Minted
        /\ \A d \in Edge : d \in Process
    BY WorkingFacts
  <1>1. e \in Edge /\ new \subseteq Fresh /\ \A d \in Edge \ {e} : up'[d] = up[d]
    BY DEF Acts
  <1>2. id \in Token /\ id \in Minted /\ id \notin new
    BY <1>0, <1>1 DEF Minted
  <1>3. RemovedLast(up'[e], id) /\ HasRemove(up'[e], id)
    BY <1>2, ActsSends
  <1>4. ASSUME NEW c \in Edge \ {e} PROVE RemovedLast(up'[c], id)
    <2>1. ~HasPut(up[c], id)
      BY <1>0, <1>1, <1>2 DEF PrivateIn
    <2> QED
      BY <1>1, <2>1, NoPutNoMatter
  <1> QED
    BY <1>1, <1>3, <1>4 DEF Doomed

\* While no link is lost, what is doomed stays so.
LEMMA DoomedStays ==
    ASSUME Faults = {}, Working, Shaped, NEW id \in Minted, Doomed(id)
    PROVE  Doomed(id)'
  <1>0. /\ PrivateIn(table, up, down)
        /\ \A p \in Process : Held(table[p]) \subseteq Token /\ Held(table[p]) \subseteq Minted
        /\ \A d \in Edge : d \in Process /\ d # Store
        /\ Store \in Process
    BY WorkingFacts
  <1>1. /\ id \in Token
        /\ \A c \in Edge : RemovedLast(up[c], id)
        /\ id \in Held(table[Store]) => \E d \in Edge : HasRemove(up[d], id)
    BY DEF Minted, Doomed
  <1>2. ASSUME NEW e, NEW gone, NEW new, NEW msgs, Acts(e, gone, new, msgs)
        PROVE  Doomed(id)'
    <2>1. /\ e \in Edge /\ new \subseteq Fresh
          /\ \A d \in Edge \ {e} : up'[d] = up[d]
          /\ \A p \in Process \ {e} : table'[p] = table[p]
      BY <1>2 DEF Acts
    <2>2. id \notin new
      BY <2>1 DEF Minted
    <2>3. RemovedLast(up'[e], id) /\ (HasRemove(up[e], id) => HasRemove(up'[e], id))
      BY <1>1, <1>2, <2>1, <2>2, ActsSends
    <2> QED
      BY <1>0, <1>1, <2>1, <2>3 DEF Doomed
  <1>3. ASSUME NEW p, NEW gone, Sweeps(p, gone) PROVE Doomed(id)'
    <2>1. up' = up /\ Held(table'[Store]) \subseteq Held(table[Store])
      BY <1>0, <1>3 DEF Sweeps
    <2> QED
      BY <1>1, <2>1 DEF Doomed
  <1>4. ASSUME NEW e, NEW m, NEW said, Stores(e, m, said) PROVE Doomed(id)'
    <2>1. /\ e \in Edge /\ \A d \in Edge \ {e} : up'[d] = up[d]
          /\ ~(IsPut(m, id) /\ IsRemove(m, id))
          /\ id \in Held(table'[Store])
                <=> (id \in Held(table[Store]) /\ ~IsRemove(m, id)) \/ IsPut(m, id)
      BY <1>1, <1>4 DEF Stores, AppliesTo, IsPut, IsRemove
    <2>2. /\ HasRemove(up[e], id) <=> IsRemove(m, id) \/ HasRemove(up'[e], id)
          /\ RemovedLast(up[e], id) => /\ RemovedLast(up'[e], id)
                                       /\ IsPut(m, id) => HasRemove(up'[e], id)
      BY <1>1, <1>4 DEF Stores, Taken
    <2>3. \A c \in Edge : RemovedLast(up'[c], id)
      BY <1>1, <2>1, <2>2
    <2>4. ASSUME id \in Held(table'[Store]) PROVE \E d \in Edge : HasRemove(up'[d], id)
      BY <1>1, <2>1, <2>2, <2>4
    <2> QED
      BY <2>3, <2>4 DEF Doomed
  <1>5. ASSUME NEW e, NEW m, Takes(e, m) PROVE Doomed(id)'
    <2>1. up' = up /\ table'[Store] = table[Store]
      BY <1>0, <1>5 DEF Takes
    <2> QED
      BY <1>1, <2>1 DEF Doomed
  <1>6. ASSUME Rests PROVE Doomed(id)'
    BY <1>1, <1>6 DEF Rests, Doomed
  <1>7. \A e : ~Cuts(e)
    BY DEF Cuts
  <1> QED
    BY <1>2, <1>3, <1>4, <1>5, <1>6, <1>7 DEF Shaped

LEMMA RevocationsStaySent ==
    ASSUME Faults = {}, Working, Shaped
    PROVE  RevocationIsSent'
  <1>1. /\ \A id \in ended : Doomed(id) /\ id \in Minted
    BY WorkingFacts DEF Working, ReplicationInv, RevocationIsSent
  <1>2. \A id \in ended : Doomed(id)'
    BY <1>1, DoomedStays
  <1>3. ASSUME NEW e, NEW gone, NEW new, NEW msgs, Acts(e, gone, new, msgs)
        PROVE  RevocationIsSent'
    <2>1. \A id \in ended' \ ended : Doomed(id)'
      <3> SUFFICES ASSUME NEW id \in ended' \ ended PROVE Doomed(id)'
        OBVIOUS
      <3>1. id \in Held(table[e]) /\ HasRemove(msgs, id)
        BY <1>3 DEF Acts
      <3> QED
        BY <1>3, <3>1, ActsDooms
    <2> QED
      BY <1>2, <2>1 DEF RevocationIsSent
  <1>4. CASE ended' = ended
    BY <1>2, <1>4 DEF RevocationIsSent
  <1>5. /\ \A p, gone : Sweeps(p, gone) => ended' = ended
        /\ \A e, m, said : Stores(e, m, said) => ended' = ended
        /\ \A e, m : Takes(e, m) => ended' = ended
        /\ \A e : Cuts(e) => ended' = ended
        /\ Rests => ended' = ended
    BY DEF Sweeps, Stores, Takes, Cuts, Rests
  <1> QED
    BY <1>3, <1>4, <1>5 DEF Shaped

LEMMA ActsKeeps ==
    ASSUME Working, NEW e, NEW gone, NEW new, NEW msgs, Acts(e, gone, new, msgs),
           \A id \in Minted : Outlived(id) => Outlived(id)', RevocationIsSent'
    PROVE  ReplicationInv'
  <1>0. /\ \A d \in Edge : linked[d]
        /\ PrivateIn(table, up, down)
        /\ \A p \in Process : Held(table[p]) \subseteq Token /\ Held(table[p]) \subseteq Minted
        /\ \A d \in Edge : up[d] \in Seq(Message) /\ down[d] \in Seq(Message)
        /\ \A d \in Edge : d \in Process /\ d # Store
        /\ Store \in Process
        /\ ended \subseteq Token /\ ended \subseteq Minted
        /\ \A d \in Edge, id \in Token :
              /\ HasPut(up[d], id) \/ HasRemove(up[d], id) => id \in Minted
              /\ HasPut(down[d], id) \/ HasRemove(down[d], id) => id \in Minted
    BY WorkingFacts
  <1>1. /\ e \in Edge /\ gone \subseteq Held(table[e]) /\ new \subseteq Fresh
        /\ \A p \in Process \ {e} : table'[p] = table[p]
        /\ Held(table'[e]) = (Held(table[e]) \ gone) \cup new
        /\ msgs \in Seq(Message) /\ up' \in [Edge -> Seq(Message)]
        /\ \A d \in Edge \ {e} : up'[d] = up[d]
        /\ down' = down /\ linked' = linked
        /\ Minted' = Minted \cup new /\ ended \subseteq ended'
    BY DEF Acts
  <1>2. \A id \in new : id \in Token /\ id \notin Minted
    BY <1>1 DEF Minted, Fresh
  <1>3. \A id \in Token : /\ HasPut(msgs, id) <=> id \in new
                          /\ OnePut(msgs, id)
    BY DEF Acts
  <1>6. \A id \in Token :
           /\ HasPut(up'[e], id) <=> HasPut(up[e], id) \/ id \in new
           /\ HasRemove(up'[e], id) <=> HasRemove(up[e], id) \/ HasRemove(msgs, id)
           /\ id \notin new /\ (RemovedLast(up[e], id) \/ HasRemove(msgs, id))
                 => RemovedLast(up'[e], id)
           /\ OnePut(up[e], id) /\ id \notin new => OnePut(up'[e], id)
           /\ ~HasPut(up[e], id) => OnePut(up'[e], id)
    BY ActsSends
  <1>7. PrivateIn(table', up', down')
    <2> SUFFICES ASSUME NEW c \in Edge, NEW id \in Token, HasPut(up'[c], id)
                 PROVE  /\ id \notin Held(table'[Store])
                        /\ OnePut(up'[c], id)
                        /\ \A d \in Edge \ {c} : id \notin Held(table'[d]) /\ ~HasPut(up'[d], id)
                        /\ \A d \in Edge : ~HasPut(down'[d], id) /\ ~HasRemove(down'[d], id)
      BY DEF PrivateIn
    <2>1. CASE HasPut(up[c], id)
      <3>1. id \notin new
        BY <1>0, <1>2, <2>1
      <3>2. /\ id \notin Held(table[Store]) /\ OnePut(up[c], id)
            /\ \A d \in Edge \ {c} : id \notin Held(table[d]) /\ ~HasPut(up[d], id)
            /\ \A d \in Edge : ~HasPut(down[d], id) /\ ~HasRemove(down[d], id)
        BY <1>0, <2>1 DEF PrivateIn
      <3> QED
        BY <1>0, <1>1, <1>6, <3>1, <3>2
    <2>2. CASE ~HasPut(up[c], id)
      <3>1. c = e /\ id \in new
        BY <1>1, <1>6, <2>2
      <3>2. id \notin Minted
        BY <1>2, <3>1
      <3>3. /\ \A p \in Process : id \notin Held(table[p])
            /\ \A d \in Edge : ~HasPut(up[d], id) /\ ~HasPut(down[d], id) /\ ~HasRemove(down[d], id)
        BY <1>0, <3>2
      <3> QED
        BY <1>0, <1>1, <1>6, <2>2, <3>1, <3>3
    <2> QED
      BY <2>1, <2>2
  <1>8. CreationIsPrivate'
    BY <1>1, <1>7, PrivateFormNext
  <1>9. AnnouncedIsForgotten'
    <2>1. AnnouncedIsForgotten
      BY DEF Working, ReplicationInv
    <2> QED
      BY <1>0, <1>1, <2>1 DEF AnnouncedIsForgotten
  <1>10. EdgesFollow'
    <2> SUFFICES ASSUME NEW id \in Minted', id \notin Held(table'[Store]),
                        \A c \in Edge : ~HasPut(up'[c], id)
                 PROVE  \/ Outlived(id)'
                        \/ \A d \in Edge : /\ RemovedLast(down'[d], id)
                                           /\ id \in Held(table'[d]) => HasRemove(down'[d], id)
      BY DEF EdgesFollow
    <2>1. id \in Token /\ id \notin new /\ id \in Minted
      BY <1>1, <1>2, <1>6 DEF Minted
    <2>2. id \notin Held(table[Store]) /\ \A c \in Edge : ~HasPut(up[c], id)
      BY <1>0, <1>1, <1>6, <2>1
    <2>3. \/ Outlived(id)
          \/ \A d \in Edge : /\ RemovedLast(down[d], id)
                             /\ id \in Held(table[d]) => HasRemove(down[d], id)
      BY <2>1, <2>2 DEF Working, ReplicationInv, EdgesFollow
    <2> QED
      BY <1>0, <1>1, <2>1, <2>3
  <1>11. StoreIsFollowed'
    <2> SUFFICES ASSUME NEW id \in Held(table'[Store])
                 PROVE  \/ Outlived(id)'
                        \/ \E d \in Edge : HasRemove(up'[d], id)
                        \/ \A d \in Edge : id \in Held(table'[d]) \/ HasPut(down'[d], id)
      BY DEF StoreIsFollowed
    <2>1. id \in Held(table[Store]) /\ id \in Token /\ id \in Minted /\ id \notin new
      BY <1>0, <1>1, <1>2
    <2>2. \/ Outlived(id)
          \/ \E d \in Edge : HasRemove(up[d], id)
          \/ \A d \in Edge : id \in Held(table[d]) \/ HasPut(down[d], id)
      BY <2>1 DEF Working, ReplicationInv, StoreIsFollowed
    <2>3. \A d \in Edge : HasRemove(up[d], id) => HasRemove(up'[d], id)
      BY <1>1, <1>6, <2>1
    <2>4. CASE id \in gone
      <3>1. Expired(table[e].sessions[id].created, now) \/ HasRemove(msgs, id)
        BY <2>4 DEF Acts
      <3>2. CASE Expired(table[e].sessions[id].created, now)
        <4>1. CopiesAgree /\ e \in Process /\ id \in Held(table[e])
          BY <1>0, <1>1, <2>4 DEF Working
        <4>2. Outlived(id)
          BY <2>1, <3>2, <4>1, OneExpiresAllExpire
        <4> QED
          BY <2>1, <4>2
      <3>3. CASE HasRemove(msgs, id)
        BY <1>1, <1>6, <2>1, <3>3
      <3> QED
        BY <3>1, <3>2, <3>3
    <2>5. CASE id \notin gone
      BY <1>0, <1>1, <2>1, <2>2, <2>3, <2>5
    <2> QED
      BY <2>4, <2>5
  <1> QED
    BY <1>0, <1>1, <1>8, <1>9, <1>10, <1>11 DEF ReplicationInv

LEMMA SweepsKeeps ==
    ASSUME Working, NEW p, NEW gone, Sweeps(p, gone),
           \A id \in Minted : Outlived(id) => Outlived(id)', RevocationIsSent'
    PROVE  ReplicationInv'
  <1>0. /\ \A d \in Edge : linked[d]
        /\ PrivateIn(table, up, down)
        /\ \A r \in Process : Held(table[r]) \subseteq Token /\ Held(table[r]) \subseteq Minted
        /\ \A d \in Edge : d \in Process /\ d # Store
        /\ Store \in Process /\ ended \subseteq Minted
    BY WorkingFacts
  <1>1. /\ p \in Process /\ gone \subseteq Held(table[p])
        /\ \A r \in Process \ {p} : table'[r] = table[r]
        /\ Held(table'[p]) = Held(table[p]) \ gone
        /\ up' = up /\ down' = down /\ linked' = linked /\ Minted' = Minted /\ ended' = ended
    BY DEF Sweeps
  <1>2. \A r \in Process : Held(table'[r]) \subseteq Held(table[r])
    BY <1>1
  <1>3. \A id \in gone : Outlived(id)'
    <2> SUFFICES ASSUME NEW id \in gone PROVE Outlived(id)'
      OBVIOUS
    <2>1. Expired(table[p].sessions[id].created, now)
      BY DEF Sweeps
    <2>2. CopiesAgree /\ id \in Token /\ id \in Held(table[p]) /\ id \in Minted
      BY <1>0, <1>1 DEF Working
    <2>3. Outlived(id)
      BY <1>1, <2>1, <2>2, OneExpiresAllExpire
    <2> QED
      BY <2>2, <2>3
  <1>4. CreationIsPrivate'
    <2>1. up' \in [Edge -> Seq(Message)]
      BY <1>1 DEF Working, TypeOK
    <2>2. PrivateIn(table', up', down')
      BY <1>0, <1>1, <1>2 DEF PrivateIn
    <2> QED
      BY <2>1, <2>2, PrivateFormNext
  <1>5. AnnouncedIsForgotten'
    <2>1. AnnouncedIsForgotten
      BY DEF Working, ReplicationInv
    <2> QED
      BY <1>0, <1>1, <1>2, <2>1 DEF AnnouncedIsForgotten
  <1>6. EdgesFollow'
    <2> SUFFICES ASSUME NEW id \in Minted, id \notin Held(table'[Store]),
                        \A c \in Edge : ~HasPut(up[c], id)
                 PROVE  \/ Outlived(id)'
                        \/ \A d \in Edge : /\ RemovedLast(down[d], id)
                                           /\ id \in Held(table'[d]) => HasRemove(down[d], id)
      BY <1>1 DEF EdgesFollow
    <2>1. CASE id \in gone
      BY <1>3, <2>1
    <2>2. CASE id \notin gone
      <3>1. id \notin Held(table[Store])
        BY <1>0, <1>1, <2>2
      <3>2. \/ Outlived(id)
            \/ \A d \in Edge : /\ RemovedLast(down[d], id)
                               /\ id \in Held(table[d]) => HasRemove(down[d], id)
        BY <3>1 DEF Working, ReplicationInv, EdgesFollow
      <3> QED
        BY <1>0, <1>2, <3>2
    <2> QED
      BY <2>1, <2>2
  <1>7. StoreIsFollowed'
    <2> SUFFICES ASSUME NEW id \in Held(table'[Store])
                 PROVE  \/ Outlived(id)'
                        \/ \E d \in Edge : HasRemove(up[d], id)
                        \/ \A d \in Edge : id \in Held(table'[d]) \/ HasPut(down[d], id)
      BY <1>1 DEF StoreIsFollowed
    <2>1. id \in Held(table[Store]) /\ id \in Minted
      BY <1>0, <1>2
    <2>2. \/ Outlived(id)
          \/ \E d \in Edge : HasRemove(up[d], id)
          \/ \A d \in Edge : id \in Held(table[d]) \/ HasPut(down[d], id)
      BY <2>1 DEF Working, ReplicationInv, StoreIsFollowed
    <2>3. CASE id \in gone
      BY <1>3, <2>3
    <2>4. CASE id \notin gone
      BY <1>0, <1>1, <2>1, <2>2, <2>4
    <2> QED
      BY <2>3, <2>4
  <1> QED
    BY <1>0, <1>1, <1>4, <1>5, <1>6, <1>7 DEF ReplicationInv

LEMMA StoresKeeps ==
    ASSUME Working, NEW e, NEW m, NEW said, Stores(e, m, said),
           \A id \in Minted : Outlived(id) => Outlived(id)', RevocationIsSent'
    PROVE  ReplicationInv'
  <1>0. /\ \A d \in Edge : linked[d]
        /\ PrivateIn(table, up, down)
        /\ \A p \in Process : Held(table[p]) \subseteq Token /\ Held(table[p]) \subseteq Minted
        /\ \A d \in Edge : d \in Process /\ d # Store
        /\ Store \in Process
        /\ ended \subseteq Token /\ ended \subseteq Minted
        /\ \A d \in Edge, id \in Token :
              /\ HasPut(up[d], id) \/ HasRemove(up[d], id) => id \in Minted
              /\ HasPut(down[d], id) \/ HasRemove(down[d], id) => id \in Minted
    BY WorkingFacts
  <1>1. /\ e \in Edge /\ m \in Message /\ said \in BOOLEAN
        /\ \A d \in Edge : table'[d] = table[d]
        /\ up' \in [Edge -> Seq(Message)] /\ \A d \in Edge \ {e} : up'[d] = up[d]
        /\ linked' = linked /\ Minted' = Minted /\ ended' = ended
        /\ Held(table'[Store]) \subseteq Token
    BY <1>0 DEF Stores, AppliesTo, IsTable, Held
  <1>2. \A id \in Token :
           /\ IsPut(m, id) => said
           /\ IsRemove(m, id) => (said <=> id \in Held(table[Store]))
           /\ ~(IsPut(m, id) /\ IsRemove(m, id))
           /\ id \in Held(table'[Store])
                 <=> (id \in Held(table[Store]) /\ ~IsRemove(m, id)) \/ IsPut(m, id)
    BY DEF Stores, AppliesTo, IsPut, IsRemove
  <1>3. \A id \in Token :
           /\ HasPut(up[e], id) <=> IsPut(m, id) \/ HasPut(up'[e], id)
           /\ HasRemove(up[e], id) <=> IsRemove(m, id) \/ HasRemove(up'[e], id)
           /\ RemovedLast(up[e], id) => /\ RemovedLast(up'[e], id)
                                        /\ IsPut(m, id) => HasRemove(up'[e], id)
           /\ OnePut(up[e], id) => OnePut(up'[e], id) /\ (IsPut(m, id) => ~HasPut(up'[e], id))
    BY DEF Stores, Taken
  <1>4. ASSUME said, NEW d \in Edge, NEW id \in Token
        PROVE  /\ HasPut(down'[d], id) <=> HasPut(down[d], id) \/ IsPut(m, id)
               /\ HasRemove(down'[d], id) <=> HasRemove(down[d], id) \/ IsRemove(m, id)
               /\ (RemovedLast(down[d], id) \/ IsRemove(m, id)) /\ ~IsPut(m, id)
                     => RemovedLast(down'[d], id)
    <2>1. PICK q, n, r : q = down[d] /\ n = down'[d] /\ r = <<m>>
      OBVIOUS
    <2>2. Joined(n, q, r)
      BY <1>0, <1>4, <2>1 DEF Stores
    <2>3. /\ HasPut(r, id) <=> IsPut(m, id)
          /\ HasRemove(r, id) <=> IsRemove(m, id)
      BY <1>1, <2>1, SingleQueue
    <2> QED
      BY <2>1, <2>2, <2>3 DEF Joined
  <1>5. ASSUME ~said, NEW d \in Edge PROVE down'[d] = down[d]
    BY <1>5 DEF Stores
  <1>6. PrivateIn(table', up', down')
    <2> SUFFICES ASSUME NEW c \in Edge, NEW id \in Token, HasPut(up'[c], id)
                 PROVE  /\ id \notin Held(table'[Store])
                        /\ OnePut(up'[c], id)
                        /\ \A d \in Edge \ {c} : id \notin Held(table'[d]) /\ ~HasPut(up'[d], id)
                        /\ \A d \in Edge : ~HasPut(down'[d], id) /\ ~HasRemove(down'[d], id)
      BY DEF PrivateIn
    <2>1. HasPut(up[c], id)
      BY <1>1, <1>3
    <2>2. /\ id \notin Held(table[Store]) /\ OnePut(up[c], id)
          /\ \A d \in Edge \ {c} : id \notin Held(table[d]) /\ ~HasPut(up[d], id)
          /\ \A d \in Edge : ~HasPut(down[d], id) /\ ~HasRemove(down[d], id)
      BY <1>0, <2>1 DEF PrivateIn
    <2>3. ~IsPut(m, id)
      BY <1>1, <1>3, <2>2
    <2>4. \A d \in Edge : ~HasPut(down'[d], id) /\ ~HasRemove(down'[d], id)
      <3>1. CASE said
        BY <1>2, <1>4, <2>2, <2>3, <3>1
      <3>2. CASE ~said
        BY <1>5, <2>2, <3>2
      <3> QED
        BY <1>1, <3>1, <3>2
    <2> QED
      BY <1>1, <1>2, <1>3, <2>2, <2>3, <2>4
  <1>7. CreationIsPrivate'
    BY <1>1, <1>6, PrivateFormNext
  <1>8. AnnouncedIsForgotten'
    <2> SUFFICES ASSUME NEW id \in Held(table'[Store]), NEW d \in Edge
                 PROVE  ~HasRemove(down'[d], id)
      BY DEF AnnouncedIsForgotten
    <2>1. id \in Token /\ ~IsRemove(m, id)
      BY <1>1, <1>2
    <2>2. ~HasRemove(down[d], id)
      <3>1. CASE IsPut(m, id)
        BY <1>0, <1>1, <1>3, <2>1, <3>1 DEF PrivateIn
      <3>2. CASE id \in Held(table[Store])
        BY <3>2 DEF Working, ReplicationInv, AnnouncedIsForgotten
      <3> QED
        BY <1>2, <2>1, <3>1, <3>2
    <2> QED
      BY <1>1, <1>4, <1>5, <2>1, <2>2
  <1>9. EdgesFollow'
    <2> SUFFICES ASSUME NEW id \in Minted, id \notin Held(table'[Store]),
                        \A c \in Edge : ~HasPut(up'[c], id)
                 PROVE  \/ Outlived(id)'
                        \/ \A d \in Edge : /\ RemovedLast(down'[d], id)
                                           /\ id \in Held(table'[d]) => HasRemove(down'[d], id)
      BY <1>1 DEF EdgesFollow
    <2>1. id \in Token /\ ~IsPut(m, id)
      BY <1>2 DEF Minted
    <2>2. CASE id \in Held(table[Store])
      <3>1. IsRemove(m, id) /\ said
        BY <1>2, <2>1, <2>2
      <3> QED
        BY <1>4, <2>1, <3>1
    <2>3. CASE id \notin Held(table[Store])
      <3>1. \A c \in Edge : ~HasPut(up[c], id)
        BY <1>1, <1>3, <2>1
      <3>2. \/ Outlived(id)
            \/ \A d \in Edge : /\ RemovedLast(down[d], id)
                               /\ id \in Held(table[d]) => HasRemove(down[d], id)
        BY <2>3, <3>1 DEF Working, ReplicationInv, EdgesFollow
      <3>3. CASE said
        BY <1>1, <1>4, <2>1, <3>2, <3>3
      <3>4. CASE ~said
        BY <1>1, <1>5, <3>2, <3>4
      <3> QED
        BY <1>1, <3>3, <3>4
    <2> QED
      BY <2>2, <2>3
  <1>10. StoreIsFollowed'
    <2> SUFFICES ASSUME NEW id \in Held(table'[Store])
                 PROVE  \/ Outlived(id)'
                        \/ \E d \in Edge : HasRemove(up'[d], id)
                        \/ \A d \in Edge : id \in Held(table'[d]) \/ HasPut(down'[d], id)
      BY DEF StoreIsFollowed
    <2>1. id \in Token
      BY <1>1
    <2>2. CASE IsPut(m, id)
      BY <1>2, <1>4, <2>1, <2>2
    <2>3. CASE ~IsPut(m, id)
      <3>1. id \in Held(table[Store]) /\ ~IsRemove(m, id) /\ id \in Minted
        BY <1>0, <1>2, <2>1, <2>3
      <3>2. \/ Outlived(id)
            \/ \E d \in Edge : HasRemove(up[d], id)
            \/ \A d \in Edge : id \in Held(table[d]) \/ HasPut(down[d], id)
        BY <3>1 DEF Working, ReplicationInv, StoreIsFollowed
      <3>3. \A d \in Edge : HasRemove(up[d], id) => HasRemove(up'[d], id)
        BY <1>1, <1>3, <2>1, <3>1
      <3>4. \A d \in Edge : HasPut(down[d], id) => HasPut(down'[d], id)
        BY <1>1, <1>4, <1>5, <2>1
      <3> QED
        BY <1>1, <3>1, <3>2, <3>3, <3>4
    <2> QED
      BY <2>2, <2>3
  <1> QED
    BY <1>0, <1>1, <1>7, <1>8, <1>9, <1>10 DEF ReplicationInv

LEMMA TakesKeeps ==
    ASSUME Working, NEW e, NEW m, Takes(e, m),
           \A id \in Minted : Outlived(id) => Outlived(id)', RevocationIsSent'
    PROVE  ReplicationInv'
  <1>0. /\ \A d \in Edge : linked[d]
        /\ PrivateIn(table, up, down)
        /\ \A p \in Process : Held(table[p]) \subseteq Token /\ Held(table[p]) \subseteq Minted
        /\ \A d \in Edge : d \in Process /\ d # Store
        /\ Store \in Process
        /\ ended \subseteq Token /\ ended \subseteq Minted
    BY WorkingFacts
  <1>1. /\ e \in Edge /\ m \in Message
        /\ \A p \in Process \ {e} : table'[p] = table[p]
        /\ table'[Store] = table[Store]
        /\ \A d \in Edge \ {e} : down'[d] = down[d]
        /\ up' = up /\ linked' = linked /\ Minted' = Minted /\ ended' = ended
    BY <1>0 DEF Takes
  <1>2. \A id \in Token :
           id \in Held(table'[e]) <=> (id \in Held(table[e]) /\ ~IsRemove(m, id)) \/ IsPut(m, id)
    BY DEF Takes, AppliesTo
  <1>3. \A id \in Token :
           /\ HasPut(down[e], id) <=> IsPut(m, id) \/ HasPut(down'[e], id)
           /\ HasRemove(down[e], id) <=> IsRemove(m, id) \/ HasRemove(down'[e], id)
           /\ RemovedLast(down[e], id) => /\ RemovedLast(down'[e], id)
                                          /\ IsPut(m, id) => HasRemove(down'[e], id)
    BY DEF Takes, Taken
  <1>4. CreationIsPrivate'
    <2>1. up' \in [Edge -> Seq(Message)]
      BY <1>1 DEF Working, TypeOK
    <2>2. PrivateIn(table', up', down')
      <3> SUFFICES ASSUME NEW c \in Edge, NEW id \in Token, HasPut(up[c], id)
                   PROVE  /\ id \notin Held(table'[Store])
                          /\ OnePut(up[c], id)
                          /\ \A d \in Edge \ {c} : id \notin Held(table'[d]) /\ ~HasPut(up[d], id)
                          /\ \A d \in Edge : ~HasPut(down'[d], id) /\ ~HasRemove(down'[d], id)
        BY <1>1 DEF PrivateIn
      <3>1. /\ id \notin Held(table[Store]) /\ OnePut(up[c], id)
            /\ \A d \in Edge \ {c} : id \notin Held(table[d]) /\ ~HasPut(up[d], id)
            /\ \A d \in Edge : ~HasPut(down[d], id) /\ ~HasRemove(down[d], id)
        BY <1>0 DEF PrivateIn
      <3> QED
        BY <1>0, <1>1, <1>2, <1>3, <3>1
    <2> QED
      BY <2>1, <2>2, PrivateFormNext
  <1>5. AnnouncedIsForgotten'
    <2> SUFFICES ASSUME NEW id \in Held(table[Store]), NEW d \in Edge
                 PROVE  ~HasRemove(down'[d], id)
      BY <1>1 DEF AnnouncedIsForgotten
    <2>1. id \in Token /\ ~HasRemove(down[d], id)
      BY <1>0 DEF Working, ReplicationInv, AnnouncedIsForgotten
    <2> QED
      BY <1>1, <1>3, <2>1
  <1>6. EdgesFollow'
    <2> SUFFICES ASSUME NEW id \in Minted, id \notin Held(table[Store]),
                        \A c \in Edge : ~HasPut(up[c], id)
                 PROVE  \/ Outlived(id)'
                        \/ \A d \in Edge : /\ RemovedLast(down'[d], id)
                                           /\ id \in Held(table'[d]) => HasRemove(down'[d], id)
      BY <1>1 DEF EdgesFollow
    <2>1. id \in Token
      BY DEF Minted
    <2>2. \/ Outlived(id)
          \/ \A d \in Edge : /\ RemovedLast(down[d], id)
                             /\ id \in Held(table[d]) => HasRemove(down[d], id)
      BY DEF Working, ReplicationInv, EdgesFollow
    <2> QED
      BY <1>0, <1>1, <1>2, <1>3, <2>1, <2>2
  <1>7. StoreIsFollowed'
    <2> SUFFICES ASSUME NEW id \in Held(table[Store])
                 PROVE  \/ Outlived(id)'
                        \/ \E d \in Edge : HasRemove(up[d], id)
                        \/ \A d \in Edge : id \in Held(table'[d]) \/ HasPut(down'[d], id)
      BY <1>1 DEF StoreIsFollowed
    <2>1. id \in Token /\ id \in Minted
      BY <1>0
    <2>2. \/ Outlived(id)
          \/ \E d \in Edge : HasRemove(up[d], id)
          \/ \A d \in Edge : id \in Held(table[d]) \/ HasPut(down[d], id)
      BY DEF Working, ReplicationInv, StoreIsFollowed
    <2>3. ~HasRemove(down[e], id)
      BY <1>1 DEF Working, ReplicationInv, AnnouncedIsForgotten
    <2> QED
      BY <1>0, <1>1, <1>2, <1>3, <2>1, <2>2, <2>3
  <1> QED
    BY <1>0, <1>1, <1>4, <1>5, <1>6, <1>7 DEF ReplicationInv

LEMMA RestsKeeps ==
    ASSUME Working, Rests, \A id \in Minted : Outlived(id) => Outlived(id)', RevocationIsSent'
    PROVE  ReplicationInv'
  <1>0. /\ \A d \in Edge : linked[d]
        /\ \A p \in Process : Held(table[p]) \subseteq Minted
        /\ Store \in Process
        /\ CreationIsPrivate /\ AnnouncedIsForgotten /\ EdgesFollow /\ StoreIsFollowed
    BY WorkingFacts DEF Working, ReplicationInv
  <1>1. /\ table' = table /\ up' = up /\ down' = down /\ ended' = ended /\ Minted' = Minted
        /\ \A e \in Edge : linked'[e]
    BY <1>0 DEF Rests
  <1>2. CreationIsPrivate' /\ AnnouncedIsForgotten'
    BY <1>0, <1>1 DEF CreationIsPrivate, AnnouncedIsForgotten
  <1>3. EdgesFollow'
    BY <1>0, <1>1 DEF EdgesFollow
  <1>4. StoreIsFollowed'
    BY <1>0, <1>1 DEF StoreIsFollowed
  <1> QED
    BY <1>1, <1>2, <1>3, <1>4 DEF ReplicationInv

LEMMA ReplicationStays ==
    ASSUME Faults = {}, Working, [Next]_vars
    PROVE  Working'
  <1>1. TypeOK /\ NamesAreMinted /\ CopiesAgree /\ Shaped
    BY StepsAreShaped DEF Working
  <1>2. TypeOK' /\ NamesAreMinted' /\ CopiesAgree'
    BY <1>1, NextTypes, CopiesStayEqual
  <1>3. \A id \in Minted : Outlived(id) => Outlived(id)'
    BY <1>1, OutlivedStays
  <1>4. ReplicationInv'
    <2>1. \A e : ~Cuts(e)
      BY DEF Cuts
    <2>2. RevocationIsSent'
      BY <1>1, RevocationsStaySent
    <2> QED
      BY <1>1, <1>3, <2>1, <2>2, ActsKeeps, SweepsKeeps, StoresKeeps, TakesKeeps, RestsKeeps DEF Shaped
  <1> QED
    BY <1>2, <1>4 DEF Working

LEMMA WorkingAtFirst ==
    ASSUME Init
    PROVE  Working
  <1>1. TypeOK /\ NamesAreMinted
    BY InitTypes
  <1>2. /\ \A p \in Process : Held(table[p]) = {}
        /\ Minted = {} /\ ended = {} /\ Store \in Process
        /\ \A e \in Edge : up[e] = <<>> /\ down[e] = <<>> /\ linked[e]
    BY NothingIsHeldAtFirst DEF Init, Minted, Fresh, Process
  <1>3. CopiesAgree
    <2> SUFFICES ASSUME NEW id \in Token, NEW x \in Copies(id) PROVE FALSE
      BY DEF CopiesAgree
    <2>1. IsCopyIn(table, up, down, id, x)
      BY CopiesForm
    <2> QED
      BY <1>2, <2>1, ShortQueues DEF IsCopyIn
  <1>4. CreationIsPrivate
    BY <1>2 DEF CreationIsPrivate
  <1>5. AnnouncedIsForgotten /\ EdgesFollow /\ StoreIsFollowed /\ RevocationIsSent
    BY <1>2 DEF AnnouncedIsForgotten, EdgesFollow, StoreIsFollowed, RevocationIsSent
  <1> QED
    BY <1>1, <1>2, <1>3, <1>4, <1>5 DEF Working, ReplicationInv

\* While no link is lost: a creation is known to its edge alone until the store has it, a
\* removal the store announces is of a session it has forgotten for good, and each side is
\* being told of what it lacks (putSession, removeSession and their signals, one stream each).
THEOREM ReplicationInvariant ==
    ASSUME Faults = {}
    PROVE  Spec => [](TypeOK /\ NamesAreMinted /\ CopiesAgree /\ ReplicationInv)
  <1>1. Init => Working
    BY WorkingAtFirst
  <1>2. Working /\ [Next]_vars => Working'
    BY ReplicationStays
  <1>3. Working => TypeOK /\ NamesAreMinted /\ CopiesAgree /\ ReplicationInv
    BY DEF Working
  <1> QED
    BY <1>1, <1>2, <1>3, PTL DEF Spec

\* A session that is live somewhere is not outlived.
LEMMA LiveIsNotOutlived ==
    ASSUME NEW p \in Process, NEW id \in Live(p)
    PROVE  id \in Held(table[p]) /\ Told(p, id) \in Copies(id) /\ ~Outlived(id)
  <1>1. id \in Held(table[p]) /\ ~Expired(table[p].sessions[id].created, now)
    BY DEF Live, IsLive
  <1>2. PICK x : x = Told(p, id)
    OBVIOUS
  <1>3. x \in Copies(id) /\ x.created = table[p].sessions[id].created
    BY <1>1, <1>2 DEF Copies, Told
  <1> QED
    BY <1>1, <1>2, <1>3 DEF Outlived

LEMMA RemovalIsInQueue ==
    ASSUME NEW q \in Seq(Message), NEW id \in Token, HasRemove(q, id)
    PROVE  RemoveMsg(id) \in ToSet(q)
  <1>1. PICK i \in 1..Len(q) : IsRemove(q[i], id)
    BY DEF HasRemove
  <1>2. PICK m \in Message : m = q[i]
    BY <1>1
  <1>3. m.op = "remove" /\ m.id = id
    BY <1>1, <1>2 DEF IsRemove
  <1>4. m = RemoveMsg(id)
    BY <1>3, MessageForms
  <1>5. i \in DOMAIN q /\ q[i] = RemoveMsg(id)
    BY <1>1, <1>2, <1>4
  <1> QED
    BY <1>5, Zenon DEF ToSet

\* While no link is lost, a session an edge revoked is accepted only where its removal is
\* still to arrive, whatever the order of the creation, the echoes and the removal
\* (createSession, revoke, applyUpsert, applyRemove).
THEOREM RevocationArrives ==
    ASSUME Faults = {}
    PROVE  Spec => []RevocationIsOnItsWay
  <1>1. ASSUME Working PROVE RevocationIsOnItsWay
    <2>0. /\ ended \subseteq Token /\ ended \subseteq Minted
          /\ \A e \in Edge : up[e] \in Seq(Message) /\ down[e] \in Seq(Message)
      BY <1>1, WorkingFacts
    <2>00. /\ \A id \in Token, e \in Edge : HasRemove(up[e], id) => RemoveMsg(id) \in ToSet(up[e])
           /\ \A id \in Token, e \in Edge :
                 HasRemove(down[e], id) => RemoveMsg(id) \in ToSet(down[e])
      BY <2>0, RemovalIsInQueue
    <2> SUFFICES ASSUME NEW id \in ended, NEW p \in Process, id \in Live(p),
                        \A e \in Edge : ~HasRemove(up[e], id)
                 PROVE  p # Store /\ HasRemove(down[p], id)
      BY <2>0, <2>00 DEF RevocationIsOnItsWay, Process
    <2>1. id \in Held(table[p]) /\ ~Outlived(id)
      BY LiveIsNotOutlived
    <2>2. id \notin Held(table[Store]) /\ \A c \in Edge : RemovedLast(up[c], id)
      BY <1>1 DEF Working, ReplicationInv, RevocationIsSent, Doomed
    <2>3. \A c \in Edge : ~HasPut(up[c], id)
      <3> SUFFICES ASSUME NEW c \in Edge, NEW i \in 1..Len(up[c]), IsPut(up[c][i], id)
                   PROVE  FALSE
        BY DEF HasPut
      <3>1. PICK j \in (i + 1)..Len(up[c]) : IsRemove(up[c][j], id)
        BY <2>2 DEF RemovedLast
      <3>2. j \in 1..Len(up[c])
        BY <2>0, <3>1
      <3> QED
        BY <3>1, <3>2 DEF HasRemove
    <2>4. \A e \in Edge : id \in Held(table[e]) => HasRemove(down[e], id)
      BY <1>1, <2>0, <2>1, <2>2, <2>3 DEF Working, ReplicationInv, EdgesFollow
    <2> QED
      BY <2>1, <2>2, <2>4 DEF Process
  <1>2. TypeOK /\ NamesAreMinted /\ CopiesAgree /\ ReplicationInv => RevocationIsOnItsWay
    BY <1>1 DEF Working
  <1> QED
    BY <1>2, ReplicationInvariant, PTL

\* While no link is lost, every edge accepts what the store accepts, with the same scope,
\* identity and age, whenever nothing is on its way: the edges and the store are one table
\* (docs/authentication.md:420-422).
THEOREM ReplicasAreOneTable ==
    ASSUME Faults = {}
    PROVE  Spec => []ReplicasAgree
  <1>1. ASSUME Working, Quiet, NEW e \in Edge
        PROVE  /\ Live(e) = Live(Store)
               /\ \A id \in Live(e) : Told(e, id) = Told(Store, id)
    <2>0. /\ \A p \in Process : Held(table[p]) \subseteq Token /\ Held(table[p]) \subseteq Minted
          /\ e \in Process /\ Store \in Process
      BY <1>1, WorkingFacts
    <2>1. \A d \in Edge, id \in Token : /\ ~HasPut(up[d], id) /\ ~HasRemove(up[d], id)
                                        /\ ~HasPut(down[d], id) /\ ~HasRemove(down[d], id)
      BY <1>1, ShortQueues DEF Quiet
    <2>2. ASSUME NEW id \in Held(table[e]) \cap Held(table[Store])
          PROVE  /\ Told(e, id) = Told(Store, id)
                 /\ table[e].sessions[id].created = table[Store].sessions[id].created
      <3>1. id \in Token /\ Told(e, id) \in Copies(id) /\ Told(Store, id) \in Copies(id)
        BY <2>0 DEF Copies
      <3>2. Told(e, id) = Told(Store, id)
        BY <1>1, <3>1 DEF Working, CopiesAgree
      <3> QED
        BY <3>2 DEF Told
    <2>3. ASSUME NEW id \in Live(e) PROVE id \in Held(table[Store])
      <3>1. id \in Held(table[e]) /\ ~Outlived(id)
        BY <2>0, LiveIsNotOutlived
      <3>2. id \in Token /\ id \in Minted
        BY <2>0, <3>1
      <3> QED
        BY <1>1, <2>1, <3>1, <3>2 DEF Working, ReplicationInv, EdgesFollow
    <2>4. ASSUME NEW id \in Live(Store) PROVE id \in Held(table[e])
      <3>1. id \in Held(table[Store]) /\ ~Outlived(id)
        BY <2>0, LiveIsNotOutlived
      <3>2. id \in Token
        BY <2>0, <3>1
      <3> QED
        BY <1>1, <2>1, <3>1, <3>2 DEF Working, ReplicationInv, StoreIsFollowed
    <2> QED
      BY <2>2, <2>3, <2>4 DEF Live, IsLive
  <1>2. TypeOK /\ NamesAreMinted /\ CopiesAgree /\ ReplicationInv => ReplicasAgree
    BY <1>1 DEF Working, ReplicasAgree
  <1> QED
    BY <1>2, ReplicationInvariant, PTL

(***************************************************************************)
(* The hand-offs, while no link is lost.                                   *)
(***************************************************************************)
LEMMA CopiesShrink ==
    ASSUME TypeOK, NamesAreMinted, Shaped, NEW id \in Minted
    PROVE  \A x : x \in Copies(id)' => x \in Copies(id)
  <1>0. id \in Token
    BY DEF Minted
  <1>1. PICK e : Inherits(e)
    BY CopiesAreInherited
  <1>2. \A x : IsCopyIn(table', up', down', id, x) => IsCopyIn(table, up, down, id, x)
    BY <1>0, <1>1 DEF Inherits
  <1> QED
    BY <1>0, <1>2, CopiesForm, CopiesFormNext

LEMMA CopyHasDate ==
    ASSUME TypeOK, NEW id \in Token, NEW x, x \in Copies(id)
    PROVE  x.created \in Nat
  BY CopiesForm, CopyIsDated

LEMMA FreshHasNoCopyNext ==
    ASSUME NamesAreMinted', NEW id \in Token, NEW x, x \in Copies(id)'
    PROVE  id \in Minted'
  <1>1. IsCopyIn(table', up', down', id, x)
    BY CopiesFormNext
  <1> QED
    BY <1>1, SayingIsPutting DEF NamesAreMinted, IsCopyIn

\* A hand-off that has lapsed stays so.
LEMMA LapsedStays ==
    ASSUME TypeOK, NamesAreMinted, Shaped, NEW id \in Minted, Lapsed(id)
    PROVE  Lapsed(id)'
  <1> SUFFICES ASSUME NEW x, x \in Copies(id)'
               PROVE  now' - x.created > Grace
    BY DEF Lapsed
  <1>0. id \in Token
    BY DEF Minted
  <1>1. x \in Copies(id)
    BY CopiesShrink
  <1>2. x.created \in Nat /\ now - x.created > Grace
    BY <1>0, <1>1, CopyHasDate DEF Lapsed
  <1>3. now \in Nat /\ now' \in Nat /\ now' >= now
    BY TimePasses
  <1> QED
    BY <1>2, <1>3, TableAssumption

LEMMA OverStays ==
    ASSUME Faults = {}, Working, Shaped, NEW id \in Minted, Over(id)
    PROVE  Over(id)'
  <1>1. Doomed(id) => Doomed(id)'
    BY DoomedStays
  <1>2. Outlived(id) => Outlived(id)'
    BY OutlivedStays DEF Working
  <1>3. Lapsed(id) => Lapsed(id)'
    BY LapsedStays DEF Working
  <1> QED
    BY <1>1, <1>2, <1>3 DEF Over

\* A removal that is on its way is of a session the store is done with.
LEMMA RemovalDooms ==
    ASSUME Working, NEW id \in Token, NEW e \in Edge,
           \/ HasRemove(up[e], id) /\ id \in Held(table[Store])
           \/ HasRemove(down[e], id)
    PROVE  Doomed(id)
  <1>1. id \notin Held(table[Store]) \/ HasRemove(up[e], id)
    BY DEF Working, ReplicationInv, AnnouncedIsForgotten
  <1>2. PrivateIn(table, up, down)
    BY WorkingFacts
  <1>3. \A c \in Edge : ~HasPut(up[c], id)
    BY <1>2 DEF PrivateIn
  <1> QED
    BY <1>1, <1>3, NoPutNoMatter DEF Doomed

\* Where the session a hand-off leads to is not, and is not on its way to, it is over.
LEMMA AbsentIsOver ==
    ASSUME Working, NEW p \in Process, NEW to \in Token, to \notin Held(table[p]),
           \A c \in Edge : ~HasPut(up[c], to),
           p \in Edge => ~HasPut(down[p], to)
    PROVE  Over(to)
  <1>1. CASE to \notin Held(table[Store])
    BY <1>1, NoPutNoMatter DEF Doomed, Over
  <1>2. CASE to \in Held(table[Store])
    <2>1. p \in Edge
      BY <1>2 DEF Process
    <2>2. Outlived(to) \/ \E e \in Edge : HasRemove(up[e], to)
      BY <1>2, <2>1 DEF Working, ReplicationInv, StoreIsFollowed
    <2> QED
      BY <1>2, <2>2, RemovalDooms DEF Over
  <1> QED
    BY <1>1, <1>2

\* What every step carries over.
Carries ==
    /\ now \in Nat /\ now' \in Nat /\ now' >= now
    /\ \A id \in Minted : /\ id \in Minted'
                          /\ Over(id) => Over(id)'
                          /\ \A x : x \in Copies(id)' => x \in Copies(id)
    /\ \A f \in Token : /\ \A t \in Successors(f) : t \in Minted /\ t \in Successors(f)'
                        /\ Settled(f) => Settled(f)'

\* Nobody is handed anything, or next is.
Gives(previous, next, keep) ==
    /\ next \in Fresh /\ keep \in BOOLEAN
    /\ \A f \in Token : \A t :
          t \in Successors(f)' <=> t \in Successors(f) \/ (keep /\ f = previous /\ t = next)

LEMMA NothingGiven ==
    ASSUME handed \subseteq Minted, NEW new, new \subseteq Fresh, NoHandoff(new)
    PROVE  \A f \in Token : \A t : t \in Successors(f)' <=> t \in Successors(f)
  <1>1. handed' = handed /\ \A t \in handed : replaced'[t] = replaced[t]
    BY DEF NoHandoff, Minted
  <1> QED
    BY <1>1 DEF Successors

LEMMA NextGiven ==
    ASSUME TypeOK, handed \subseteq Minted, NEW e, NEW previous, NEW next, NEW keep, NEW msgs,
           Hands(e, previous, next, keep, msgs)
    PROVE  Gives(previous, next, keep)
  <1>1. /\ next \in Fresh /\ next \in Token /\ next \notin handed /\ keep \in BOOLEAN
        /\ handed' = (IF keep THEN handed \cup {next} ELSE handed)
        /\ replaced' = [replaced EXCEPT ![next] = previous]
        /\ replaced \in [Token -> Token \cup {NoToken}]
    BY DEF Hands, Minted, Fresh, TypeOK
  <1>2. replaced'[next] = previous /\ \A t \in handed : replaced'[t] = replaced[t]
    BY <1>1 DEF TypeOK, Minted
  <1>3. \A f, t : t \in Successors(f)' <=> t \in handed' /\ replaced'[t] = f
    BY DEF Successors
  <1>4. \A f, t : t \in Successors(f) <=> t \in handed /\ replaced[t] = f
    BY DEF Successors
  <1> QED
    BY <1>1, <1>2, <1>3, <1>4 DEF Gives

LEMMA MovesCarry ==
    ASSUME Faults = {}, Working, handed \subseteq Minted, Moves
    PROVE  Carries
  <1>0. TypeOK /\ NamesAreMinted /\ Shaped
    BY MovesAreShaped DEF Working
  <1>1. now \in Nat /\ now' \in Nat /\ now' >= now
    BY <1>0, TimePasses
  <1>2. Minted \subseteq Minted'
    <2>1. \A e, gone, new, msgs : Acts(e, gone, new, msgs) => Minted' = Minted \cup new
      BY DEF Acts
    <2>2. /\ \A p, gone : Sweeps(p, gone) => Minted' = Minted
          /\ \A e, m, said : Stores(e, m, said) => Minted' = Minted
          /\ \A e, m : Takes(e, m) => Minted' = Minted
          /\ \A e : Cuts(e) => Minted' = Minted
          /\ Rests => Minted' = Minted
      BY DEF Sweeps, Stores, Takes, Cuts, Rests
    <2> QED
      BY <1>0, <2>1, <2>2 DEF Shaped
  <1>3. \A id \in Minted : /\ Over(id) => Over(id)'
                           /\ \A x : x \in Copies(id)' => x \in Copies(id)
    BY <1>0, OverStays, CopiesShrink
  <1>4. \A f \in Token : \A t \in Successors(f) : t \in Minted /\ t \in Successors(f)'
    <2>0. \A f : \A t \in Successors(f) : t \in Minted
      BY DEF Successors
    <2>1. ASSUME NEW new, new \subseteq Fresh, NoHandoff(new)
          PROVE  \A f \in Token : \A t \in Successors(f) : t \in Successors(f)'
      BY <2>1, NothingGiven
    <2>2. ASSUME NEW e, NEW previous, NEW next, NEW keep, NEW msgs,
                 Hands(e, previous, next, keep, msgs)
          PROVE  \A f \in Token : \A t \in Successors(f) : t \in Successors(f)'
      BY <1>0, <2>2, NextGiven DEF Gives
    <2>3. \A e, gone, new, msgs : Acts(e, gone, new, msgs) => new \subseteq Fresh
      BY DEF Acts
    <2>4. \A e : ~Cuts(e)
      BY DEF Cuts
    <2> QED
      BY <2>0, <2>1, <2>2, <2>3, <2>4 DEF Moves, Elevates, Trims, Cleans, Relays, Learns
  <1>5. \A f \in Token : Settled(f) => Settled(f)'
    BY <1>3, <1>4 DEF Settled
  <1> QED
    BY <1>1, <1>2, <1>3, <1>4, <1>5 DEF Carries

\* What became of the sessions and the hand-offs p kept.
Follows(p) ==
    /\ \A id \in Held(table[p]) : id \notin Held(table'[p]) => Over(id)'
    /\ \A f \in DOMAIN table[p].rotations : f \notin DOMAIN table'[p].rotations => Settled(f)'
    /\ \A f \in DOMAIN table'[p].rotations :
          \/ f \in DOMAIN table[p].rotations /\ table'[p].rotations[f] = table[p].rotations[f]
          \/ Settled(f)'
          \/ LeadsOn(p, f)'
    /\ \A id \in Held(table'[p]) : \A f \in Token : table'[p].sessions[id].rotatedFrom = f =>
          \/ id \in Held(table[p]) /\ table[p].sessions[id].rotatedFrom = f
          \/ Settled(f)'
          \/ id \in Successors(f)'

LEMMA StandingFollows ==
    ASSUME NEW p, table'[p] = table[p]
    PROVE  Follows(p)
  BY DEF Follows

\* What an edge that acts lets go of is over.
LEMMA ReleasedIsOver ==
    ASSUME Working, Carries, NEW p \in Process, NEW id \in Held(table[p]),
           Expired(table[p].sessions[id].created, now) \/ Doomed(id)'
    PROVE  Over(id)'
  <1>1. id \in Token /\ id \in Minted /\ CopiesAgree
    BY WorkingFacts DEF Working
  <1>2. CASE Expired(table[p].sessions[id].created, now)
    <2>1. Outlived(id)
      BY <1>1, <1>2, OneExpiresAllExpire
    <2> QED
      BY <1>1, <2>1 DEF Carries, Over
  <1>3. CASE Doomed(id)'
    BY <1>3 DEF Over
  <1> QED
    BY <1>2, <1>3

LEMMA ActsReleases ==
    ASSUME Working, Carries, NEW e, NEW gone, NEW new, NEW msgs, Acts(e, gone, new, msgs)
    PROVE  \A id \in gone : Over(id)'
  <1> SUFFICES ASSUME NEW id \in gone PROVE Over(id)'
    OBVIOUS
  <1>1. /\ e \in Process /\ id \in Held(table[e])
        /\ Expired(table[e].sessions[id].created, now) \/ HasRemove(msgs, id)
    BY DEF Acts, Process
  <1>2. HasRemove(msgs, id) => Doomed(id)'
    BY <1>1, ActsDooms
  <1> QED
    BY <1>1, <1>2, ReleasedIsOver

\* A session that is over settles what it replaced.
LEMMA OriginSettles ==
    ASSUME OriginsLead, Carries, NEW p \in Process, NEW x \in Held(table[p]), Over(x)',
           NEW f \in Token, table[p].sessions[x].rotatedFrom = f
    PROVE  Settled(f)'
  <1>1. Settled(f) \/ x \in Successors(f)
    BY DEF OriginsLead
  <1>2. CASE Settled(f)
    BY <1>2 DEF Carries
  <1>3. CASE x \in Successors(f)
    <2>1. x \in Successors(f)'
      BY <1>3 DEF Carries
    <2> QED
      BY <2>1 DEF Settled
  <1> QED
    BY <1>1, <1>2, <1>3

LEMMA SuccessorSettles ==
    ASSUME Carries, NEW f \in Token, NEW to \in Successors(f), Over(to) \/ Over(to)'
    PROVE  Settled(f)'
  <1>1. to \in Successors(f)' /\ Over(to)'
    BY DEF Carries
  <1> QED
    BY <1>1 DEF Settled

\* A hand-off is pruned when nothing is promised of it any more.
LEMMA PrunedSettles ==
    ASSUME TypeOK, KeptLead, OriginsLead, Carries, NEW p \in Process, NEW gone,
           gone \subseteq Held(table[p]), Prunes(table[p], table'[p], gone),
           \A x \in gone : Over(x)',
           NEW f \in DOMAIN table[p].rotations, f \notin DOMAIN table'[p].rotations
    PROVE  Settled(f)'
  <1>0. f \in Token /\ table[p].rotations[f].at \in Nat
    BY DEF TypeOK, IsTable, Rotation
  <1>1. CASE \E x \in gone : table[p].sessions[x].rotatedFrom = f
    BY <1>0, <1>1, OriginSettles
  <1>2. CASE Settled(f)
    BY <1>0, <1>2 DEF Carries
  <1>3. CASE LeadsOn(p, f)
    <2>1. PICK to \in Successors(f) :
             /\ table[p].rotations[f].to = to /\ to \in Held(table[p])
             /\ \A x \in Copies(to) : x.created =< table[p].rotations[f].at
      BY <1>3 DEF LeadsOn
    <2>2. CASE now - table[p].rotations[f].at > Grace
      <3>1. to \in Token
        BY DEF Successors, TypeOK, Carries, Minted, Fresh
      <3>2. Lapsed(to)
        <4> SUFFICES ASSUME NEW x, x \in Copies(to) PROVE now - x.created > Grace
          BY DEF Lapsed
        <4>1. x.created \in Nat /\ x.created =< table[p].rotations[f].at
          BY <2>1, <3>1, CopyHasDate
        <4> QED
          BY <1>0, <2>2, <4>1, TableAssumption DEF TypeOK
      <3> QED
        BY <1>0, <3>2, SuccessorSettles DEF Over
    <2> QED
      BY <1>1, <2>1, <2>2 DEF Prunes
  <1> QED
    BY <1>1, <1>2, <1>3 DEF KeptLead

\* Process by process.
LEMMA TrimsFollow ==
    ASSUME Working, KeptLead, OriginsLead, Carries, NEW e, NEW gone, NEW new, NEW msgs,
           Acts(e, gone, new, msgs), Trims(e, gone, new, msgs)
    PROVE  Follows(e)
  <1>0. /\ e \in Process /\ gone \subseteq Held(table[e]) /\ TypeOK
        /\ Held(table'[e]) = (Held(table[e]) \ gone) \cup new
        /\ \A id \in Held(table[e]) \ gone : table'[e].sessions[id] = table[e].sessions[id]
    BY DEF Acts, Process, Working
  <1>1. \A id \in gone : Over(id)'
    BY ActsReleases
  <1>2. Prunes(table[e], table'[e], gone) /\ \A id \in new : table'[e].sessions[id].rotatedFrom = NoToken
    BY DEF Trims
  <1>3. \A f \in DOMAIN table[e].rotations : f \notin DOMAIN table'[e].rotations => Settled(f)'
    BY <1>0, <1>1, <1>2, PrunedSettles
  <1>4. NoToken \notin Token
    BY TableAssumption
  <1> QED
    BY <1>0, <1>1, <1>2, <1>3, <1>4 DEF Follows, Prunes

LEMMA CleansFollow ==
    ASSUME Working, KeptLead, OriginsLead, Carries, NEW p, NEW gone,
           Sweeps(p, gone), Cleans(p, gone)
    PROVE  Follows(p)
  <1>0. /\ p \in Process /\ gone \subseteq Held(table[p]) /\ TypeOK
        /\ Held(table'[p]) = Held(table[p]) \ gone
        /\ \A id \in Held(table[p]) \ gone : table'[p].sessions[id] = table[p].sessions[id]
        /\ \A id \in gone : Expired(table[p].sessions[id].created, now)
    BY DEF Sweeps, Working
  <1>1. \A id \in gone : Over(id)'
    BY <1>0, ReleasedIsOver
  <1>2. Prunes(table[p], table'[p], gone)
    BY DEF Cleans
  <1>3. \A f \in DOMAIN table[p].rotations : f \notin DOMAIN table'[p].rotations => Settled(f)'
    BY <1>0, <1>1, <1>2, PrunedSettles
  <1> QED
    BY <1>0, <1>1, <1>2, <1>3 DEF Follows, Prunes

\* Every copy of a session that a step makes is of now.
BornNow == \A id \in Token : id \notin Minted => \A x : x \in Copies(id)' => x.created = now

LEMMA NobodyIsBorn ==
    ASSUME NamesAreMinted', Minted' = Minted
    PROVE  BornNow
  BY FreshHasNoCopyNext DEF BornNow

LEMMA NewIsBornNow ==
    ASSUME TypeOK, NamesAreMinted, NamesAreMinted', NEW e, NEW gone, NEW new, NEW msgs,
           Acts(e, gone, new, msgs), \A id \in new : table'[e].sessions[id].created = now
    PROVE  BornNow
  <1> SUFFICES ASSUME NEW id \in Token, id \notin Minted, NEW x, x \in Copies(id)'
               PROVE  x.created = now
    BY DEF BornNow
  <1>1. id \in new
    BY FreshHasNoCopyNext DEF Acts
  <1>2. Inherits(e)
    BY ActsInherit
  <1>3. IsCopyIn(table', up', down', id, x)
    BY CopiesFormNext
  <1>4. ~IsCopyIn(table, up, down, id, x)
    BY FreshHasNoCopy
  <1>5. x = ToldIn(table'[e], id)
    BY <1>2, <1>3, <1>4 DEF Inherits
  <1> QED
    BY <1>1, <1>5 DEF ToldIn

LEMMA HandsFollow ==
    ASSUME Working, KeptLead, OriginsLead, Carries, BornNow, handed \subseteq Minted,
           NEW e, NEW previous, NEW next, NEW keep, NEW msgs,
           Elevates(e, previous, next, keep, msgs), TypeOK'
    PROVE  Follows(e)
  <1>0. /\ Acts(e, {previous}, {next}, msgs) /\ Hands(e, previous, next, keep, msgs)
        /\ e \in Process /\ TypeOK /\ previous \in Held(table[e]) /\ next \in Fresh
        /\ next \in Token /\ next \notin Minted /\ previous \in Token
        /\ Held(table'[e]) = (Held(table[e]) \ {previous}) \cup {next}
        /\ \A id \in Held(table[e]) \ {previous} : table'[e].sessions[id] = table[e].sessions[id]
    BY WorkingFacts DEF Elevates, Acts, Process, Working, Fresh, Minted
  <1>1. Over(previous)'
    BY <1>0, ActsReleases
  <1>2. Gives(previous, next, keep)
    BY <1>0, NextGiven
  <1>3. DOMAIN table'[e].rotations \subseteq Token
    BY <1>0 DEF TypeOK, IsTable
  <1>4. \A f \in Token : table[e].sessions[previous].rotatedFrom = f => Settled(f)'
    BY <1>0, <1>1, OriginSettles
  <1>5. ASSUME keep, table'[e].rotations[previous] = [to |-> next, at |-> now]
        PROVE  LeadsOn(e, previous)'
    <2>1. table'[e].rotations[previous].to = next /\ table'[e].rotations[previous].at = now
      BY <1>5
    <2>2. next \in Successors(previous)' /\ next \in Held(table'[e])
      BY <1>0, <1>2, <1>5 DEF Gives
    <2>3. \A x : x \in Copies(next)' => x.created =< now
      BY <1>0 DEF BornNow, Carries
    <2> QED
      BY <2>1, <2>2, <2>3 DEF LeadsOn
  <1>6. \A f \in DOMAIN table'[e].rotations :
           \/ f \in DOMAIN table[e].rotations /\ table'[e].rotations[f] = table[e].rotations[f]
           \/ Settled(f)'
           \/ LeadsOn(e, f)'
    BY <1>0, <1>3, <1>4, <1>5 DEF Hands
  <1>7. ASSUME NEW id \in Held(table'[e]), NEW f \in Token,
               table'[e].sessions[id].rotatedFrom = f
        PROVE  \/ id \in Held(table[e]) /\ table[e].sessions[id].rotatedFrom = f
               \/ Settled(f)'
               \/ id \in Successors(f)'
    <2>1. CASE id # next
      BY <1>0, <1>7, <2>1
    <2>2. CASE id = next
      <3>1. \/ table[e].sessions[previous].rotatedFrom = f
            \/ keep /\ f = previous
        BY <1>0, <1>7, <2>2 DEF Hands
      <3> QED
        BY <1>0, <1>2, <1>4, <2>2, <3>1 DEF Gives
    <2> QED
      BY <2>1, <2>2
  <1> QED
    BY <1>0, <1>1, <1>6, <1>7 DEF Follows, Hands

\* A message from elsewhere.
LEMMA HearsFollow ==
    ASSUME Working, CopiesArePast, OriginsLead, Carries, now' = now,
           NEW p \in Process, NEW m \in Message,
           AppliesTo(table[p], table'[p], m), Hears(table[p], table'[p], m),
           \A x \in Held(table[p]) : IsRemove(m, x) => Over(x)',
           \A f \in Token, to \in Token : IsRotate(m, f, to) =>
               /\ to \in Successors(f)
               /\ to \in Held(table[p]) \/ Over(to)
    PROVE  Follows(p)
  <1>0. Held(table[p]) \subseteq Token /\ IsTable(table'[p]) /\ TypeOK
    BY WorkingFacts DEF AppliesTo, Working
  <1>00. /\ Held(table'[p]) \subseteq Token /\ DOMAIN table'[p].rotations \subseteq Token
         /\ DOMAIN table[p].rotations \subseteq Token
         /\ \A f \in DOMAIN table'[p].rotations : table'[p].rotations[f].to \in Token
    BY <1>0 DEF IsTable, Held, Rotation, TypeOK
  <1>1. \A id \in Held(table[p]) : id \notin Held(table'[p]) => Over(id)'
    BY <1>0 DEF AppliesTo
  <1>2. \A f \in DOMAIN table[p].rotations : f \notin DOMAIN table'[p].rotations => Settled(f)'
    <2> SUFFICES ASSUME NEW f \in DOMAIN table[p].rotations, f \notin DOMAIN table'[p].rotations
                 PROVE  Settled(f)'
      OBVIOUS
    <2>1. PICK x \in Held(table[p]) : IsRemove(m, x) /\ table[p].sessions[x].rotatedFrom = f
      BY DEF Hears
    <2> QED
      BY <1>00, <2>1, OriginSettles
  <1>3. ASSUME NEW f \in Token, NEW to \in Token, IsRotate(m, f, to),
               f \in DOMAIN table'[p].rotations,
               table'[p].rotations[f].to = to, table'[p].rotations[f].at = now
        PROVE  Settled(f)' \/ LeadsOn(p, f)'
    <2>1. to \in Successors(f) /\ (to \in Held(table[p]) \/ Over(to))
      BY <1>3
    <2>2. CASE Over(to)
      BY <2>1, <2>2, SuccessorSettles
    <2>3. CASE to \in Held(table[p])
      <3>1. ~IsRemove(m, to)
        BY <1>3 DEF IsRotate, IsRemove
      <3>2. to \in Held(table'[p])
        BY <2>3, <3>1 DEF AppliesTo
      <3>3. to \in Successors(f)' /\ \A x : x \in Copies(to)' => x \in Copies(to)
        BY <2>1 DEF Carries
      <3>4. \A x : x \in Copies(to)' => x.created =< now
        BY <3>3 DEF CopiesArePast
      <3> QED
        BY <1>3, <3>2, <3>3, <3>4 DEF LeadsOn
    <2> QED
      BY <2>1, <2>2, <2>3
  <1>4. \A f \in DOMAIN table'[p].rotations :
           \/ f \in DOMAIN table[p].rotations /\ table'[p].rotations[f] = table[p].rotations[f]
           \/ Settled(f)'
           \/ LeadsOn(p, f)'
    <2> SUFFICES ASSUME NEW f \in DOMAIN table'[p].rotations,
                        ~(/\ f \in DOMAIN table[p].rotations
                          /\ table'[p].rotations[f] = table[p].rotations[f])
                 PROVE  Settled(f)' \/ LeadsOn(p, f)'
      OBVIOUS
    <2>1. PICK to \in Token : to = table'[p].rotations[f].to
      BY <1>00
    <2>2. IsRotate(m, f, to) /\ table'[p].rotations[f].at = now
      BY <2>1 DEF Hears
    <2> QED
      BY <1>00, <1>3, <2>1, <2>2
  <1>5. \A id \in Held(table'[p]) : \A f \in Token : table'[p].sessions[id].rotatedFrom = f =>
           \/ id \in Held(table[p]) /\ table[p].sessions[id].rotatedFrom = f
           \/ Settled(f)'
           \/ id \in Successors(f)'
    <2> SUFFICES ASSUME NEW id \in Held(table'[p]), NEW f \in Token,
                        table'[p].sessions[id].rotatedFrom = f,
                        ~(id \in Held(table[p]) /\ table[p].sessions[id].rotatedFrom = f)
                 PROVE  id \in Successors(f)'
      OBVIOUS
    <2>1. f # NoToken
      BY TableAssumption
    <2>2. IsRotate(m, f, id)
      BY <2>1 DEF Hears
    <2> QED
      BY <1>00, <2>2 DEF Carries
  <1> QED
    BY <1>1, <1>2, <1>4, <1>5 DEF Follows

\* Then the hand-offs kept lead on, and so do the sessions that remember one.
LEMMA LeadsStay ==
    ASSUME TypeOK', KeptLead, OriginsLead, Carries, \A p \in Process : Follows(p)
    PROVE  KeptLead' /\ OriginsLead'
  <1>1. ASSUME NEW p \in Process, NEW f \in DOMAIN table'[p].rotations
        PROVE  Settled(f)' \/ LeadsOn(p, f)'
    <2>0. f \in Token
      BY <1>1 DEF TypeOK, IsTable
    <2>1. CASE f \in DOMAIN table[p].rotations /\ table'[p].rotations[f] = table[p].rotations[f]
      <3>1. CASE Settled(f)
        BY <2>0, <3>1 DEF Carries
      <3>2. CASE LeadsOn(p, f)
        <4>1. PICK to \in Successors(f) :
                 /\ table[p].rotations[f].to = to /\ to \in Held(table[p])
                 /\ \A x \in Copies(to) : x.created =< table[p].rotations[f].at
          BY <3>2 DEF LeadsOn
        <4>2. to \in Successors(f)' /\ \A x : x \in Copies(to)' => x \in Copies(to)
          BY <2>0 DEF Carries
        <4>3. CASE to \in Held(table'[p])
          BY <2>1, <4>1, <4>2, <4>3 DEF LeadsOn
        <4>4. CASE to \notin Held(table'[p])
          <5>1. Over(to)'
            BY <4>1, <4>4 DEF Follows
          <5> QED
            BY <2>0, <5>1, SuccessorSettles
        <4> QED
          BY <4>3, <4>4
      <3> QED
        BY <1>1, <2>1, <3>1, <3>2 DEF KeptLead
    <2> QED
      BY <1>1, <2>1 DEF Follows
  <1>2. ASSUME NEW p \in Process, NEW id \in Held(table'[p]), NEW f \in Token,
               table'[p].sessions[id].rotatedFrom = f
        PROVE  Settled(f)' \/ id \in Successors(f)'
    <2>1. CASE id \in Held(table[p]) /\ table[p].sessions[id].rotatedFrom = f
      <3>1. Settled(f) \/ id \in Successors(f)
        BY <1>2, <2>1 DEF OriginsLead
      <3> QED
        BY <3>1 DEF Carries
    <2> QED
      BY <1>2, <2>1 DEF Follows
  <1> QED
    BY <1>1, <1>2 DEF KeptLead, OriginsLead

LEMMA CopiesStayPast ==
    ASSUME TypeOK, CopiesArePast, Carries, BornNow
    PROVE  CopiesArePast'
  <1> SUFFICES ASSUME NEW id \in Token, NEW x, x \in Copies(id)'
               PROVE  x.created =< now'
    BY DEF CopiesArePast
  <1>1. CASE id \in Minted
    <2>1. x \in Copies(id) /\ x.created =< now
      BY <1>1 DEF Carries, CopiesArePast
    <2>2. x.created \in Nat
      BY <2>1, CopyHasDate
    <2> QED
      BY <2>1, <2>2 DEF Carries
  <1>2. CASE id \notin Minted
    <2>1. x.created = now
      BY <1>2 DEF BornNow
    <2> QED
      BY <2>1 DEF Carries
  <1> QED
    BY <1>1, <1>2

\* No hand-off that was told is lost on the way.
Delivers ==
    /\ \A c \in Edge, f \in Token, t \in Token : HasRotate(up[c], f, t) =>
          HasRotate(up'[c], f, t) \/ f \in DOMAIN table'[Store].rotations
    /\ \A e \in Edge, f \in Token, t \in Token : HasRotate(down[e], f, t) =>
          HasRotate(down'[e], f, t) \/ f \in DOMAIN table'[e].rotations
    /\ \A f \in DOMAIN table'[Store].rotations :
          \/ f \in DOMAIN table[Store].rotations
          \/ \E t \in Token : \A e \in Edge : HasRotate(down'[e], f, t)

\* The one elevation of a credential stays on its way.
LEMMA WayStays ==
    ASSUME TypeOK, Carries, \A p \in Process : Follows(p), ToldLead', Delivers,
           HandoffIsOnItsWay, NEW id \in Token, NEW to \in Successors(id),
           \A t : t \in Successors(id)' => t = to
    PROVE  \/ Over(to)'
           \/ /\ id \notin DOMAIN table'[Store].rotations
              /\ \E c \in Edge : HasRotate(up'[c], id, to)
           \/ /\ id \in DOMAIN table'[Store].rotations
              /\ \A e \in Edge : id \in DOMAIN table'[e].rotations \/ HasRotate(down'[e], id, to)
  <1>0. to \in Token /\ Store \in Process /\ \A e \in Edge : e \in Process
    BY DEF Carries, Minted, Process
  <1>1. Successors(id) = {to}
    BY DEF Carries
  <1>2. \/ Over(to)
        \/ /\ id \notin DOMAIN table[Store].rotations
           /\ \E c \in Edge : HasRotate(up[c], id, to)
        \/ /\ id \in DOMAIN table[Store].rotations
           /\ \A e \in Edge : id \in DOMAIN table[e].rotations \/ HasRotate(down[e], id, to)
    BY <1>1 DEF HandoffIsOnItsWay
  <1>3. Settled(id)' => Over(to)'
    BY DEF Settled
  <1>4. CASE Over(to)
    BY <1>4 DEF Carries
  <1>5. CASE /\ id \notin DOMAIN table[Store].rotations
             /\ \E c \in Edge : HasRotate(up[c], id, to)
    <2>1. CASE id \notin DOMAIN table'[Store].rotations
      BY <1>0, <1>5, <2>1 DEF Delivers
    <2>2. CASE id \in DOMAIN table'[Store].rotations
      <3>1. PICK t \in Token : \A e \in Edge : HasRotate(down'[e], id, t)
        BY <1>5, <2>2 DEF Delivers
      <3>2. \A e \in Edge : t \in Successors(id)'
        BY <3>1 DEF ToldLead
      <3>3. \A e \in Edge : HasRotate(down'[e], id, to)
        BY <3>1, <3>2
      <3> QED
        BY <2>2, <3>3
    <2> QED
      BY <2>1, <2>2
  <1>6. CASE /\ id \in DOMAIN table[Store].rotations
             /\ \A e \in Edge : id \in DOMAIN table[e].rotations \/ HasRotate(down[e], id, to)
    <2>1. \A p \in Process : id \in DOMAIN table[p].rotations =>
                                 id \in DOMAIN table'[p].rotations \/ Settled(id)'
      BY DEF Follows
    <2> QED
      BY <1>0, <1>3, <1>6, <2>1 DEF Delivers
  <1> QED
    BY <1>2, <1>4, <1>5, <1>6

\* What the invariant needs of a step that hands nothing.
LEMMA NothingHandedKeeps ==
    ASSUME TypeOK, TypeOK', HandoffInv, Carries, BornNow, \A p \in Process : Follows(p),
           NEW new, new \subseteq Fresh, NoHandoff(new),
           ToldLead', CreationComesFirst', Delivers
    PROVE  HandoffInv'
  <1>1. handed' \subseteq Minted'
    BY DEF HandoffInv, NoHandoff, Carries
  <1>2. CopiesArePast' /\ KeptLead' /\ OriginsLead'
    BY LeadsStay, CopiesStayPast DEF HandoffInv
  <1>3. \A f \in Token : \A t : t \in Successors(f)' <=> t \in Successors(f)
    BY NothingGiven DEF HandoffInv
  <1>4. HandoffIsOnItsWay'
    <2> SUFFICES ASSUME NEW id \in Token, NEW to, to \in Successors(id)',
                        \A t : t \in Successors(id)' => t = to
                 PROVE  \/ Over(to)'
                        \/ /\ id \notin DOMAIN table'[Store].rotations
                           /\ \E c \in Edge : HasRotate(up'[c], id, to)
                        \/ /\ id \in DOMAIN table'[Store].rotations
                           /\ \A e \in Edge : \/ id \in DOMAIN table'[e].rotations
                                              \/ HasRotate(down'[e], id, to)
      BY DEF HandoffIsOnItsWay
    <2>1. to \in Successors(id) /\ HandoffIsOnItsWay
      BY <1>3 DEF HandoffInv
    <2> QED
      BY <2>1, WayStays
  <1> QED
    BY <1>1, <1>2, <1>4 DEF HandoffInv

\* What an edge that acts tells of hand-offs.
LEMMA ActsTell ==
    ASSUME Working, HandoffInv, Carries, NEW e, NEW gone, NEW new, NEW msgs,
           Acts(e, gone, new, msgs), PutFirst(msgs),
           \A f \in Token, t \in Token :
               HasRotate(msgs, f, t) => t \in Successors(f)' /\ t \notin Minted
    PROVE  ToldLead' /\ CreationComesFirst' /\ Delivers
  <1>0. /\ e \in Edge /\ linked[e] /\ up[e] \in Seq(Message) /\ msgs \in Seq(Message)
        /\ e # Store /\ Store \in Process /\ new \subseteq Fresh
        /\ \A p \in Process \ {e} : table'[p] = table[p]
        /\ \A d \in Edge \ {e} : up'[d] = up[d]
        /\ down' = down
        /\ \A id \in Token : HasPut(msgs, id) <=> id \in new
        /\ \A d \in Edge, id \in Token : HasPut(up[d], id) => id \in Minted
    BY WorkingFacts DEF Acts
  <1>1. \A id \in new : id \notin Minted
    BY <1>0 DEF Minted
  <1>2. \A d \in Edge, f \in Token, t \in Token :
           HasRotate(up[d], f, t) \/ HasRotate(down[d], f, t)
               => t \in Successors(f) /\ t \in Minted /\ t \in Successors(f)'
    BY DEF HandoffInv, ToldLead, Carries
  <1>3. PICK q, n : q = up[e] /\ n = up'[e]
    OBVIOUS
  <1>4. JoinedHandoffs(n, q, msgs)
    <2>1. q \in Seq(Message) /\ n = q \o msgs
      BY <1>0, <1>3 DEF Acts
    <2> QED
      BY <1>0, <2>1, ConcatHandoffs
  <1>5. \A f \in Token, t \in Token :
           HasRotate(up'[e], f, t) <=> HasRotate(up[e], f, t) \/ HasRotate(msgs, f, t)
    BY <1>3, <1>4 DEF JoinedHandoffs
  <1>6. \A id \in Token : HasPut(up'[e], id) <=> HasPut(up[e], id) \/ id \in new
    BY ActsSends
  <1>7. ToldLead'
    BY <1>0, <1>2, <1>5 DEF ToldLead
  <1>8. \A d \in Edge : PutFirst(up'[d]) /\ PutFirst(down'[d])
    <2>1. \A d \in Edge : PutFirst(up[d]) /\ PutFirst(down[d])
      BY DEF HandoffInv, CreationComesFirst
    <2>2. PutFirst(up'[e])
      BY <1>0, <1>1, <1>2, <1>3, <1>4, <2>1 DEF JoinedHandoffs
    <2> QED
      BY <1>0, <2>1, <2>2
  <1>9. ASSUME NEW c \in Edge, NEW to \in Token, HasPut(up'[c], to),
               NEW d \in Edge, NEW from \in Token
        PROVE  (d # c => ~HasRotate(up'[d], from, to)) /\ ~HasRotate(down'[d], from, to)
    <2>1. CASE HasPut(up[c], to)
      <3>1. to \in Minted
        BY <1>0, <2>1
      <3>2. (d # c => ~HasRotate(up[d], from, to)) /\ ~HasRotate(down[d], from, to)
        BY <2>1 DEF HandoffInv, CreationComesFirst
      <3> QED
        BY <1>0, <1>5, <3>1, <3>2
    <2>2. CASE ~HasPut(up[c], to)
      <3>1. c = e /\ to \notin Minted
        BY <1>0, <1>1, <1>6, <1>9, <2>2
      <3> QED
        BY <1>0, <1>2, <3>1
    <2> QED
      BY <2>1, <2>2
  <1>10. CreationComesFirst'
    BY <1>8, <1>9 DEF CreationComesFirst
  <1>11. Delivers
    BY <1>0, <1>5 DEF Delivers
  <1> QED
    BY <1>7, <1>10, <1>11

\* The steps, shape by shape.
LEMMA TrimsKeepsHandoffs ==
    ASSUME Working, Working', HandoffInv, Carries, NEW e, NEW gone, NEW new, NEW msgs,
           Acts(e, gone, new, msgs), Trims(e, gone, new, msgs)
    PROVE  HandoffInv' /\ Delivers /\ \A q \in Process : Follows(q)
  <1>1. /\ TypeOK /\ TypeOK' /\ NamesAreMinted /\ NamesAreMinted'
        /\ KeptLead /\ OriginsLead
    BY DEF Working, HandoffInv
  <1>2. /\ PutFirst(msgs) /\ \A f, t \in Token : ~HasRotate(msgs, f, t)
        /\ NoHandoff(new) /\ \A id \in new : table'[e].sessions[id].created = now
    BY DEF Trims
  <1>3. new \subseteq Fresh /\ \A p \in Process \ {e} : table'[p] = table[p]
    BY DEF Acts
  <1>4. ToldLead' /\ CreationComesFirst' /\ Delivers
    BY <1>2, ActsTell
  <1>5. BornNow
    BY <1>1, <1>2, NewIsBornNow
  <1>6. \A p \in Process : Follows(p)
    BY <1>1, <1>3, TrimsFollow, StandingFollows
  <1> QED
    BY <1>1, <1>2, <1>3, <1>4, <1>5, <1>6, NothingHandedKeeps

LEMMA CleansKeepsHandoffs ==
    ASSUME Working, Working', HandoffInv, Carries, NEW p, NEW gone,
           Sweeps(p, gone), Cleans(p, gone)
    PROVE  HandoffInv' /\ Delivers /\ \A q \in Process : Follows(q)
  <1>1. /\ TypeOK /\ TypeOK' /\ NamesAreMinted' /\ KeptLead /\ OriginsLead
        /\ ToldLead /\ CreationComesFirst
    BY DEF Working, HandoffInv
  <1>2. /\ NoHandoff({}) /\ Minted' = Minted /\ up' = up /\ down' = down
        /\ \A q \in Process \ {p} : table'[q] = table[q]
        /\ Prunes(table[p], table'[p], gone) /\ Store \in Process
    BY DEF Sweeps, Cleans, Process
  <1>3. BornNow
    BY <1>1, <1>2, NobodyIsBorn
  <1>4. \A q \in Process : Follows(q)
    BY <1>1, <1>2, CleansFollow, StandingFollows
  <1>5. ToldLead' /\ CreationComesFirst'
    <2>1. \A f \in Token : \A t \in Successors(f) : t \in Successors(f)'
      BY DEF Carries
    <2> QED
      BY <1>1, <1>2, <2>1 DEF ToldLead, CreationComesFirst
  <1>6. Delivers
    BY <1>2 DEF Delivers, Prunes
  <1> QED
    BY <1>1, <1>2, <1>3, <1>4, <1>5, <1>6, NothingHandedKeeps

LEMMA RestsKeepsHandoffs ==
    ASSUME Working, Working', HandoffInv, Carries, Rests, NoHandoff({})
    PROVE  HandoffInv' /\ Delivers /\ \A q \in Process : Follows(q)
  <1>1. /\ TypeOK /\ TypeOK' /\ NamesAreMinted' /\ KeptLead /\ OriginsLead
        /\ ToldLead /\ CreationComesFirst
    BY DEF Working, HandoffInv
  <1>2. Minted' = Minted /\ up' = up /\ down' = down /\ table' = table
    BY DEF Rests
  <1>3. BornNow
    BY <1>1, <1>2, NobodyIsBorn
  <1>4. \A q \in Process : Follows(q)
    BY <1>2, StandingFollows
  <1>5. ToldLead' /\ CreationComesFirst'
    <2>1. \A f \in Token : \A t \in Successors(f) : t \in Successors(f)'
      BY DEF Carries
    <2> QED
      BY <1>1, <1>2, <2>1 DEF ToldLead, CreationComesFirst
  <1>6. Delivers
    BY <1>2 DEF Delivers
  <1> QED
    BY <1>1, <1>3, <1>4, <1>5, <1>6, NothingHandedKeeps

\* A message the store takes.
LEMMA RelaysKeepsHandoffs ==
    ASSUME Working, Working', HandoffInv, Carries, NEW e, NEW m, NEW said,
           Stores(e, m, said), Relays(e, m, said)
    PROVE  HandoffInv' /\ Delivers /\ \A q \in Process : Follows(q)
  <1>1. /\ TypeOK /\ TypeOK' /\ NamesAreMinted' /\ KeptLead /\ OriginsLead /\ CopiesArePast
        /\ ToldLead /\ CreationComesFirst
    BY DEF Working, HandoffInv
  <1>2. /\ e \in Edge /\ m \in Message /\ said \in BOOLEAN /\ now' = now
        /\ \A p \in Process \ {Store} : table'[p] = table[p]
        /\ AppliesTo(table[Store], table'[Store], m)
        /\ \A d \in Edge \ {e} : up'[d] = up[d]
        /\ Minted' = Minted /\ Store \in Process /\ \A d \in Edge : linked[d]
        /\ \A d \in Edge : ~said => down'[d] = down[d]
    BY WorkingFacts DEF Stores
  <1>3. /\ Hears(table[Store], table'[Store], m) /\ NoHandoff({})
        /\ \A f, t \in Token : IsRotate(m, f, t) => (said <=> f \notin DOMAIN table[Store].rotations)
    BY DEF Relays
  <1>4. \A f, t \in Token : HasRotate(up[e], f, t) <=> IsRotate(m, f, t) \/ HasRotate(up'[e], f, t)
    BY DEF Relays, TakenHandoffs
  <1>5. \A t \in Token : HasPut(up[e], t) <=> IsPut(m, t) \/ HasPut(up'[e], t)
    BY DEF Stores, Taken
  <1>6. /\ PutFirst(up'[e])
        /\ \A f, t \in Token : IsRotate(m, f, t) => ~HasPut(up'[e], t)
    BY <1>1, <1>2 DEF Relays, TakenHandoffs, CreationComesFirst
  <1>7. ASSUME said, NEW d \in Edge
        PROVE  /\ \A f, t \in Token :
                     HasRotate(down'[d], f, t) <=> HasRotate(down[d], f, t) \/ IsRotate(m, f, t)
               /\ PutFirst(down'[d])
    <2>1. PICK q, n, r : q = down[d] /\ n = down'[d] /\ r = <<m>>
      OBVIOUS
    <2>2. JoinedHandoffs(n, q, r)
      BY <1>2, <1>7, <2>1 DEF Relays
    <2>3. /\ PutFirst(r) /\ \A f, t \in Token : HasRotate(r, f, t) <=> IsRotate(m, f, t)
          /\ \A t \in Token : HasPut(r, t) <=> IsPut(m, t)
      BY <1>2, <2>1, SingleHandoff, SingleQueue
    <2>4. PutFirst(q) /\ \A f, t \in Token : HasRotate(q, f, t) => ~IsPut(m, t)
      BY <1>1, <1>2, <1>5, <2>1 DEF CreationComesFirst
    <2> QED
      BY <2>1, <2>2, <2>3, <2>4 DEF JoinedHandoffs
  <1>8. \A f \in Token : \A t \in Successors(f) : t \in Successors(f)' /\ t \in Minted
    BY DEF Carries
  <1>9. BornNow
    BY <1>1, <1>2, NobodyIsBorn
  <1>10. \A p \in Process : Follows(p)
    <2>1. \A x \in Held(table[Store]) : IsRemove(m, x) => Over(x)'
      <3> SUFFICES ASSUME NEW x \in Held(table[Store]), IsRemove(m, x) PROVE Over(x)'
        OBVIOUS
      <3>1. x \in Token /\ x \in Minted
        BY <1>2, WorkingFacts
      <3>2. HasRemove(up[e], x)
        BY <3>1 DEF Stores, Taken
      <3>3. Over(x)
        BY <1>2, <3>1, <3>2, RemovalDooms DEF Over
      <3> QED
        BY <3>1, <3>3 DEF Carries
    <2>2. ASSUME NEW f \in Token, NEW to \in Token, IsRotate(m, f, to)
          PROVE  to \in Successors(f) /\ (to \in Held(table[Store]) \/ Over(to))
      <3>1. HasRotate(up[e], f, to) /\ to \in Successors(f)
        BY <1>1, <1>2, <1>4, <2>2 DEF ToldLead
      <3>2. ~IsPut(m, to)
        BY <2>2 DEF IsRotate, IsPut
      <3>3. \A c \in Edge : ~HasPut(up[c], to)
        BY <1>1, <1>2, <1>5, <1>6, <2>2, <3>1, <3>2 DEF CreationComesFirst
      <3>4. Store \notin Edge
        BY ReplicationAssumption
      <3> QED
        BY <1>2, <3>1, <3>3, <3>4, AbsentIsOver
    <2>3. Follows(Store)
      BY <1>1, <1>2, <1>3, <2>1, <2>2, HearsFollow
    <2> QED
      BY <1>2, <2>3, StandingFollows
  <1>11. ToldLead'
    <2> SUFFICES ASSUME NEW d \in Edge, NEW f \in Token, NEW t \in Token,
                        HasRotate(up'[d], f, t) \/ HasRotate(down'[d], f, t)
                 PROVE  t \in Successors(f)'
      BY DEF ToldLead
    <2>1. HasRotate(up[d], f, t) \/ HasRotate(down[d], f, t) \/ HasRotate(up[e], f, t)
      BY <1>2, <1>4, <1>7
    <2> QED
      BY <1>1, <1>2, <1>8, <2>1 DEF ToldLead
  <1>12. CreationComesFirst'
    <2>1. \A d \in Edge : PutFirst(up'[d]) /\ PutFirst(down'[d])
      BY <1>1, <1>2, <1>6, <1>7 DEF CreationComesFirst
    <2>2. ASSUME NEW c \in Edge, NEW to \in Token, HasPut(up'[c], to),
                 NEW d \in Edge, NEW from \in Token
          PROVE  (d # c => ~HasRotate(up'[d], from, to)) /\ ~HasRotate(down'[d], from, to)
      <3>1. HasPut(up[c], to)
        BY <1>2, <1>5, <2>2
      <3>2. /\ d # c => ~HasRotate(up[d], from, to)
            /\ e # c => ~HasRotate(up[e], from, to)
            /\ ~HasRotate(down[d], from, to)
        BY <1>1, <1>2, <3>1 DEF CreationComesFirst
      <3>3. ~IsRotate(m, from, to)
        BY <1>4, <1>6, <2>2, <3>2
      <3> QED
        BY <1>2, <1>4, <1>7, <3>2, <3>3
    <2> QED
      BY <2>1, <2>2 DEF CreationComesFirst
  <1>13. Delivers
    <2>1. \A f, t \in Token : IsRotate(m, f, t) => f \in DOMAIN table'[Store].rotations
      BY <1>3 DEF Hears
    <2>2. ASSUME NEW f \in DOMAIN table'[Store].rotations, f \notin DOMAIN table[Store].rotations
          PROVE  \E t \in Token : \A d \in Edge : HasRotate(down'[d], f, t)
      <3>0. f \in Token /\ table'[Store].rotations[f].to \in Token
        BY <1>1, <1>2, <2>2 DEF TypeOK, IsTable, Rotation
      <3>1. PICK t \in Token : t = table'[Store].rotations[f].to
        BY <3>0
      <3>2. IsRotate(m, f, t)
        BY <1>3, <2>2, <3>1 DEF Hears
      <3>3. said
        BY <1>3, <2>2, <3>0, <3>2
      <3> QED
        BY <1>7, <3>0, <3>2, <3>3
    <2>3. \A d \in Edge, f, t \in Token : HasRotate(down[d], f, t) => HasRotate(down'[d], f, t)
      BY <1>2, <1>7
    <2> QED
      BY <1>2, <1>4, <2>1, <2>2, <2>3 DEF Delivers
  <1> QED
    BY <1>1, <1>3, <1>9, <1>10, <1>11, <1>12, <1>13, NothingHandedKeeps

\* A message an edge takes.
LEMMA LearnsKeepsHandoffs ==
    ASSUME Working, Working', HandoffInv, Carries, NEW e, NEW m, Takes(e, m), Learns(e, m)
    PROVE  HandoffInv' /\ Delivers /\ \A q \in Process : Follows(q)
  <1>1. /\ TypeOK /\ TypeOK' /\ NamesAreMinted' /\ KeptLead /\ OriginsLead /\ CopiesArePast
        /\ ToldLead /\ CreationComesFirst
    BY DEF Working, HandoffInv
  <1>2. /\ e \in Edge /\ e \in Process /\ e # Store /\ m \in Message /\ now' = now
        /\ \A p \in Process \ {e} : table'[p] = table[p]
        /\ AppliesTo(table[e], table'[e], m)
        /\ \A d \in Edge \ {e} : down'[d] = down[d]
        /\ up' = up /\ Minted' = Minted /\ Store \in Process
    BY WorkingFacts DEF Takes
  <1>3. Hears(table[e], table'[e], m) /\ NoHandoff({})
    BY DEF Learns
  <1>4. \A f, t \in Token :
           HasRotate(down[e], f, t) <=> IsRotate(m, f, t) \/ HasRotate(down'[e], f, t)
    BY DEF Learns, TakenHandoffs
  <1>5. \A t \in Token : HasPut(down[e], t) <=> IsPut(m, t) \/ HasPut(down'[e], t)
    BY DEF Takes, Taken
  <1>6. /\ PutFirst(down'[e])
        /\ \A f, t \in Token : IsRotate(m, f, t) => ~HasPut(down'[e], t)
    BY <1>1, <1>2 DEF Learns, TakenHandoffs, CreationComesFirst
  <1>8. \A f \in Token : \A t \in Successors(f) : t \in Successors(f)' /\ t \in Minted
    BY DEF Carries
  <1>9. BornNow
    BY <1>1, <1>2, NobodyIsBorn
  <1>10. \A p \in Process : Follows(p)
    <2>1. \A x \in Held(table[e]) : IsRemove(m, x) => Over(x)'
      <3> SUFFICES ASSUME NEW x \in Held(table[e]), IsRemove(m, x) PROVE Over(x)'
        OBVIOUS
      <3>1. x \in Token /\ x \in Minted
        BY <1>2, WorkingFacts
      <3>2. HasRemove(down[e], x)
        BY <3>1 DEF Takes, Taken
      <3>3. Over(x)
        BY <1>2, <3>1, <3>2, RemovalDooms DEF Over
      <3> QED
        BY <3>1, <3>3 DEF Carries
    <2>2. ASSUME NEW f \in Token, NEW to \in Token, IsRotate(m, f, to)
          PROVE  to \in Successors(f) /\ (to \in Held(table[e]) \/ Over(to))
      <3>1. HasRotate(down[e], f, to) /\ to \in Successors(f)
        BY <1>1, <1>2, <1>4, <2>2 DEF ToldLead
      <3>2. ~IsPut(m, to)
        BY <2>2 DEF IsRotate, IsPut
      <3>3. ~HasPut(down[e], to)
        BY <1>5, <1>6, <2>2, <3>2
      <3>4. \A c \in Edge : ~HasPut(up[c], to)
        BY <1>1, <1>2, <3>1 DEF CreationComesFirst
      <3> QED
        BY <1>2, <3>1, <3>3, <3>4, AbsentIsOver
    <2>3. Follows(e)
      BY <1>1, <1>2, <1>3, <2>1, <2>2, HearsFollow
    <2> QED
      BY <1>2, <2>3, StandingFollows
  <1>11. ToldLead'
    <2> SUFFICES ASSUME NEW d \in Edge, NEW f \in Token, NEW t \in Token,
                        HasRotate(up'[d], f, t) \/ HasRotate(down'[d], f, t)
                 PROVE  t \in Successors(f)'
      BY DEF ToldLead
    <2>1. HasRotate(up[d], f, t) \/ HasRotate(down[d], f, t)
      BY <1>2, <1>4
    <2> QED
      BY <1>1, <1>2, <1>8, <2>1 DEF ToldLead
  <1>12. CreationComesFirst'
    <2>1. \A d \in Edge : PutFirst(up'[d]) /\ PutFirst(down'[d])
      BY <1>1, <1>2, <1>6 DEF CreationComesFirst
    <2>2. ASSUME NEW c \in Edge, NEW to \in Token, HasPut(up[c], to),
                 NEW d \in Edge, NEW from \in Token
          PROVE  (d # c => ~HasRotate(up[d], from, to)) /\ ~HasRotate(down'[d], from, to)
      <3>1. (d # c => ~HasRotate(up[d], from, to)) /\ ~HasRotate(down[d], from, to)
        BY <1>1, <2>2 DEF CreationComesFirst
      <3> QED
        BY <1>2, <1>4, <3>1
    <2> QED
      BY <1>2, <2>1, <2>2 DEF CreationComesFirst
  <1>13. Delivers
    <2>1. \A f, t \in Token : IsRotate(m, f, t) => f \in DOMAIN table'[e].rotations
      BY <1>3 DEF Hears
    <2>2. table'[Store] = table[Store]
      BY <1>2
    <2> QED
      BY <1>2, <1>4, <2>1, <2>2 DEF Delivers
  <1> QED
    BY <1>1, <1>3, <1>9, <1>10, <1>11, <1>12, <1>13, NothingHandedKeeps

\* An elevation.
LEMMA HandsKeepsHandoffs ==
    ASSUME Working, Working', HandoffInv, Carries, NEW e, NEW previous, NEW next, NEW keep,
           NEW msgs, Elevates(e, previous, next, keep, msgs)
    PROVE  HandoffInv' /\ Delivers /\ \A q \in Process : Follows(q)
  <1>1. /\ TypeOK /\ TypeOK' /\ NamesAreMinted /\ NamesAreMinted' /\ KeptLead /\ OriginsLead
        /\ CopiesArePast /\ handed \subseteq Minted /\ HandoffIsOnItsWay
    BY DEF Working, HandoffInv
  <1>2. /\ Acts(e, {previous}, {next}, msgs) /\ Hands(e, previous, next, keep, msgs)
        /\ e \in Edge /\ e # Store /\ Store \in Process /\ previous \in Token
        /\ next \in Token /\ next \notin Minted
        /\ \A p \in Process \ {e} : table'[p] = table[p]
        /\ Minted' = Minted \cup {next}
    BY WorkingFacts DEF Elevates, Acts, Hands, Fresh, Minted
  <1>3. /\ PutFirst(msgs) /\ table'[e].sessions[next].created = now
        /\ handed' = (IF keep THEN handed \cup {next} ELSE handed)
        /\ \A f, t \in Token : HasRotate(msgs, f, t) <=> keep /\ f = previous /\ t = next
    BY <1>2 DEF Hands
  <1>4. Gives(previous, next, keep)
    BY <1>1, <1>2, NextGiven
  <1>5. ToldLead' /\ CreationComesFirst' /\ Delivers
    <2>1. \A f \in Token, t \in Token :
              HasRotate(msgs, f, t) => t \in Successors(f)' /\ t \notin Minted
      BY <1>2, <1>3, <1>4 DEF Gives
    <2> QED
      BY <1>2, <1>3, <2>1, ActsTell
  <1>6. BornNow
    BY <1>1, <1>2, <1>3, NewIsBornNow
  <1>7. \A p \in Process : Follows(p)
    BY <1>1, <1>2, <1>6, HandsFollow, StandingFollows
  <1>8. CopiesArePast' /\ KeptLead' /\ OriginsLead'
    BY <1>1, <1>6, <1>7, LeadsStay, CopiesStayPast
  <1>9. handed' \subseteq Minted'
    BY <1>1, <1>2, <1>3
  <1>10. HandoffIsOnItsWay'
    <2> SUFFICES ASSUME NEW id \in Token, NEW to, to \in Successors(id)',
                        \A t : t \in Successors(id)' => t = to
                 PROVE  \/ Over(to)'
                        \/ /\ id \notin DOMAIN table'[Store].rotations
                           /\ \E c \in Edge : HasRotate(up'[c], id, to)
                        \/ /\ id \in DOMAIN table'[Store].rotations
                           /\ \A d \in Edge : \/ id \in DOMAIN table'[d].rotations
                                              \/ HasRotate(down'[d], id, to)
      BY DEF HandoffIsOnItsWay
    <2>1. CASE to \in Successors(id)
      BY <1>1, <1>5, <1>7, <2>1, WayStays
    <2>2. CASE to \notin Successors(id)
      <3>1. keep /\ id = previous /\ to = next
        BY <1>4, <2>2 DEF Gives
      <3>2. \A t : t \notin Successors(previous)
        BY <1>2, <2>2, <3>1 DEF Carries
      <3>3. previous \notin DOMAIN table[Store].rotations
        BY <1>1, <1>2, <3>2 DEF KeptLead, Settled, LeadsOn
      <3>4. HasRotate(msgs, previous, next)
        BY <1>2, <1>3, <3>1
      <3>5. HasRotate(up'[e], previous, next)
        <4>1. linked[e] /\ up[e] \in Seq(Message) /\ msgs \in Seq(Message)
          BY <1>2, WorkingFacts DEF Acts
        <4>2. PICK q, n : q = up[e] /\ n = up'[e]
          OBVIOUS
        <4>3. q \in Seq(Message) /\ n = q \o msgs
          BY <1>2, <4>1, <4>2 DEF Acts
        <4>4. JoinedHandoffs(n, q, msgs)
          BY <4>1, <4>3, ConcatHandoffs
        <4> QED
          BY <1>2, <3>4, <4>2, <4>4 DEF JoinedHandoffs
      <3> QED
        BY <1>2, <3>1, <3>3, <3>5
    <2> QED
      BY <2>1, <2>2
  <1> QED
    BY <1>5, <1>7, <1>8, <1>9, <1>10 DEF HandoffInv

LEMMA HandoffsStay ==
    ASSUME Faults = {}, Working, HandoffInv, [Next]_vars
    PROVE  HandoffInv'
  <1>1. Working' /\ Moves
    BY ReplicationStays, StepsAreMoves DEF Working
  <1>2. Carries
    BY <1>1, MovesCarry DEF HandoffInv
  <1>3. \A e : ~Cuts(e)
    BY DEF Cuts
  <1> QED
    BY <1>1, <1>2, <1>3, TrimsKeepsHandoffs, HandsKeepsHandoffs, CleansKeepsHandoffs,
       RelaysKeepsHandoffs, LearnsKeepsHandoffs, RestsKeepsHandoffs DEF Moves

LEMMA HandoffsAtFirst ==
    ASSUME Init
    PROVE  HandoffInv
  <1>1. /\ \A p \in Process : Held(table[p]) = {} /\ DOMAIN table[p].rotations = {}
        /\ handed = {} /\ \A e \in Edge : up[e] = <<>> /\ down[e] = <<>>
    BY NothingIsHeldAtFirst DEF Init, EmptyTable
  <1>2. CopiesArePast
    <2> SUFFICES ASSUME NEW id \in Token, NEW x \in Copies(id) PROVE FALSE
      BY DEF CopiesArePast
    <2>1. IsCopyIn(table, up, down, id, x)
      BY CopiesForm
    <2> QED
      BY <1>1, <2>1, ShortQueues DEF IsCopyIn
  <1>3. KeptLead /\ OriginsLead
    BY <1>1 DEF KeptLead, OriginsLead
  <1>4. \A e \in Edge : /\ PutFirst(up[e]) /\ PutFirst(down[e])
                        /\ \A t \in Token : ~HasPut(up[e], t)
                        /\ \A f, t \in Token : ~HasRotate(up[e], f, t) /\ ~HasRotate(down[e], f, t)
    BY <1>1, NothingHanded, ShortQueues
  <1>5. ToldLead /\ CreationComesFirst
    BY <1>4 DEF ToldLead, CreationComesFirst
  <1>6. HandoffIsOnItsWay
    BY <1>1 DEF HandoffIsOnItsWay, Successors
  <1> QED
    BY <1>1, <1>2, <1>3, <1>5, <1>6 DEF HandoffInv

\* While no link is lost: the one elevation of a credential that still leads somewhere is on
\* its way to the store, or kept there and kept by every edge or on its way to it
\* (setScope, rotateSession, applyRotation, dropRotationTo).
THEOREM ReplicaHandoffInvariant ==
    ASSUME Faults = {}
    PROVE  Spec => [](ReplicationInv /\ HandoffInv)
  <1>1. Init => Working /\ HandoffInv
    BY WorkingAtFirst, HandoffsAtFirst
  <1>2. (Working /\ HandoffInv) /\ [Next]_vars => (Working /\ HandoffInv)'
    BY ReplicationStays, HandoffsStay
  <1>3. Working => ReplicationInv
    BY DEF Working
  <1> QED
    BY <1>1, <1>2, <1>3, PTL DEF Spec

\* While no link is lost, a credential elevated once leads to its successor on every edge for
\* as long as a hand-off lasts, whichever edge made the elevation
\* (docs/authentication.md:422-425).
THEOREM HandoffsReachEveryReplica ==
    ASSUME Faults = {}
    PROVE  Spec => []HandoffReachesEveryReplica
  <1>1. ASSUME Working, HandoffInv PROVE HandoffReachesEveryReplica
    <2> SUFFICES ASSUME NEW id \in Token, NEW to \in Token, Quiet, Successors(id) = {to},
                        to \in Live(Store),
                        now - table[Store].sessions[to].created =< Grace,
                        NEW e \in Edge
                 PROVE  RotationOf(table[e], id, now) = to
      BY DEF HandoffReachesEveryReplica
    <2>0. /\ e \in Process /\ Store \in Process /\ TypeOK
          /\ \A p \in Process : Held(table[p]) \subseteq Token
      BY <1>1, WorkingFacts DEF Working
    <2>1. \A d \in Edge : /\ \A f, t \in Token : ~HasRotate(up[d], f, t) /\ ~HasRotate(down[d], f, t)
                          /\ \A t \in Token : ~HasRemove(up[d], t)
      BY <1>1, NothingHanded, ShortQueues DEF Quiet
    <2>2. /\ to \in Held(table[Store]) /\ ~Outlived(to)
          /\ Told(Store, to) \in Copies(to)
      BY <2>0, LiveIsNotOutlived
    <2>3. PICK made \in Nat : /\ made = table[Store].sessions[to].created
                              /\ \A x \in Copies(to) : x.created = made
      <3>1. table[Store].sessions[to].created \in Nat
        BY <2>0, <2>2 DEF TypeOK, IsTable, Held, SessionRecord
      <3>2. \A x \in Copies(to) : x = Told(Store, to)
        BY <1>1, <2>2 DEF Working, CopiesAgree
      <3>3. Told(Store, to).created = table[Store].sessions[to].created
        BY DEF Told
      <3> QED
        BY <3>1, <3>2, <3>3
    <2>4. now \in Nat /\ now - made =< Grace
      BY <2>0, <2>3 DEF TypeOK
    <2>5. ~Over(to)
      <3>1. ~Doomed(to)
        BY <2>1, <2>2 DEF Doomed
      <3>2. ~Lapsed(to)
        BY <2>2, <2>3, <2>4, TableAssumption DEF Lapsed
      <3> QED
        BY <2>2, <3>1, <3>2 DEF Over
    <2>6. id \in DOMAIN table[e].rotations
      BY <1>1, <2>1, <2>5 DEF HandoffInv, HandoffIsOnItsWay
    <2>7. LeadsOn(e, id)
      BY <1>1, <2>0, <2>5, <2>6 DEF HandoffInv, KeptLead, Settled
    <2>8. /\ table[e].rotations[id].to = to /\ to \in Held(table[e])
          /\ \A x \in Copies(to) : x.created =< table[e].rotations[id].at
      BY <2>7 DEF LeadsOn
    <2>9. table[e].rotations[id].at \in Nat
      BY <2>0, <2>6 DEF TypeOK, IsTable, Rotation
    <2>10. now - table[e].rotations[id].at =< Grace
      <3>1. made =< table[e].rotations[id].at
        BY <2>2, <2>3, <2>8
      <3> QED
        BY <2>4, <2>9, <3>1, TableAssumption
    <2>11. ~Expired(table[e].sessions[to].created, now)
      <3>1. Told(e, to) \in Copies(to) /\ Told(e, to).created = table[e].sessions[to].created
        BY <2>0, <2>8 DEF Copies, Told
      <3>2. table[e].sessions[to].created = table[Store].sessions[to].created
        BY <2>3, <3>1
      <3> QED
        BY <3>2 DEF Live, IsLive
    <2> QED
      BY <2>6, <2>8, <2>10, <2>11 DEF RotationOf, IsLive
  <1>2. TypeOK /\ NamesAreMinted /\ CopiesAgree /\ ReplicationInv /\ HandoffInv
            => HandoffReachesEveryReplica
    BY <1>1 DEF Working
  <1> QED
    BY <1>2, ReplicationInvariant, ReplicaHandoffInvariant, PTL

(***************************************************************************)
(* The removals that come behind a hand-off.                               *)
(***************************************************************************)
LEMMA SignedOutGrows ==
    ASSUME [Next]_vars
    PROVE  signedOut \subseteq signedOut'
  <1>1. ASSUME NEW b \in Browser, NEW e \in Edge, PageLoad(b, e)
        PROVE  signedOut' = signedOut
    BY <1>1 DEF PageLoad, Issue, history
  <1>2. ASSUME NEW c \in Conn, NEW s \in SlotScopes, SlotSetScope(c, s)
        PROVE  signedOut' = signedOut
    BY <1>2 DEF SlotSetScope, Elevate
  <1>3. ASSUME NEW b \in Browser, NEW e \in Edge, NEW s \in Scope, SignIn(b, e, s)
        PROVE  signedOut' = signedOut
    BY <1>3 DEF SignIn, Elevate
  <1>4. ASSUME NEW b \in Browser, NEW e \in Edge, NEW s \in Scope, NEW u \in User,
               LoginCallback(b, e, s, u)
        PROVE  signedOut' = signedOut
    BY <1>4 DEF LoginCallback, Issue
  <1>5. ASSUME NEW b \in Browser, NEW e \in Edge, Logout(b, e)
        PROVE  signedOut \subseteq signedOut'
    BY <1>5 DEF Logout
  <1>6. ASSUME \/ \E b \in Browser, c \in Conn, e \in Edge : Upgrade(b, c, e)
               \/ \E c \in Conn : Disconnected(c)
               \/ \E p \in Process : Sweep(p)
               \/ Deliver
               \/ \E e \in Edge : LinkLost(e) \/ EdgeRestart(e) \/ LinkUp(e)
               \/ Tick
               \/ UNCHANGED vars
        PROVE  signedOut' = signedOut
    BY <1>6 DEF Upgrade, Disconnected, Sweep, Deliver, StoreReceives, EdgeReceives, LinkLost,
                EdgeRestart, LinkUp, Tick, vars, history
  <1> QED
    BY <1>1, <1>2, <1>3, <1>4, <1>5, <1>6 DEF Next

\* What was let go of stays so.
LEMMA LetGoStays ==
    ASSUME Faults = {}, TypeOK, handed \subseteq Minted, Moves,
           signedOut \subseteq signedOut', NEW id \in Token, LetGo(id)
    PROVE  LetGo(id)'
  <1>1. ended \subseteq ended'
    <2>1. /\ \A e, gone, new, msgs : Acts(e, gone, new, msgs) => ended \subseteq ended'
          /\ \A p, gone : Sweeps(p, gone) => ended' = ended
          /\ \A e, m, said : Stores(e, m, said) => ended' = ended
          /\ \A e, m : Takes(e, m) => ended' = ended
          /\ \A e : Cuts(e) => ended' = ended
          /\ Rests => ended' = ended
      BY DEF Acts, Sweeps, Stores, Takes, Cuts, Rests
    <2> QED
      BY <2>1 DEF Moves, Elevates
  <1>2. CASE id \in ended \cup signedOut
    BY <1>1, <1>2 DEF LetGo
  <1>3. ASSUME NEW t \in Token \ handed, t # id, replaced[t] = id
        PROVE  LetGo(id)'
    <2>1. t \notin Fresh
      BY <1>3, TableAssumption DEF Fresh
    <2>2. ASSUME NEW new, new \subseteq Fresh, NoHandoff(new)
          PROVE  LetGo(id)'
      BY <1>3, <2>1, <2>2 DEF NoHandoff, LetGo
    <2>3. ASSUME NEW e, NEW previous, NEW next, NEW keep, NEW msgs,
                 Hands(e, previous, next, keep, msgs)
          PROVE  LetGo(id)'
      <3>1. /\ next \in Fresh
            /\ handed' = (IF keep THEN handed \cup {next} ELSE handed)
            /\ replaced' = [replaced EXCEPT ![next] = previous]
        BY <2>3 DEF Hands
      <3>2. t # next /\ t \notin handed' /\ replaced'[t] = id
        BY <1>3, <2>1, <3>1 DEF TypeOK
      <3> QED
        BY <1>3, <3>2 DEF LetGo
    <2>4. \A e, gone, new, msgs : Acts(e, gone, new, msgs) => new \subseteq Fresh
      BY DEF Acts
    <2>5. \A e : ~Cuts(e)
      BY DEF Cuts
    <2> QED
      BY <2>2, <2>3, <2>4, <2>5 DEF Moves, Elevates, Trims, Cleans, Relays, Learns
  <1> QED
    BY <1>2, <1>3 DEF LetGo

\* While id is neither let go of nor settled, a hand-off of it once kept is kept, and what
\* the store keeps of it is told to every edge.
Stands(id) ==
    /\ \A p \in Process :
          id \in DOMAIN table[p].rotations => id \in DOMAIN table'[p].rotations
    /\ Trails(id) /\ Spread(id) /\ Spread(id)'

LEMMA HandoffStands ==
    ASSUME RemovalFollowsHandoff, Carries, Delivers, \A q \in Process : Follows(q),
           NEW id \in Token, LetGo(id) => LetGo(id)', ~LetGo(id)', ~Settled(id)'
    PROVE  Stands(id)
  <1>1. Trails(id) /\ Spread(id)
    BY DEF RemovalFollowsHandoff, Carries
  <1>2. \A p \in Process :
           id \in DOMAIN table[p].rotations => id \in DOMAIN table'[p].rotations
    BY DEF Follows
  <1>3. Spread(id)'
    BY <1>1, <1>2 DEF Spread, Delivers, Process
  <1> QED
    BY <1>1, <1>2, <1>3 DEF Stands

\* An edge that acts sends a removal of id behind a hand-off of it.
LEMMA ActsTrail ==
    ASSUME Working, NEW e, NEW gone, NEW new, NEW msgs, Acts(e, gone, new, msgs),
           NEW id \in Token, Stands(id), Behind(msgs, id)
    PROVE  Trails(id)'
  <1>1. /\ e \in Edge /\ linked[e] /\ up[e] \in Seq(Message) /\ msgs \in Seq(Message)
        /\ up'[e] = up[e] \o msgs
        /\ \A d \in Edge \ {e} : up'[d] = up[d]
        /\ down' = down
    BY WorkingFacts DEF Acts
  <1>2. JoinedRemovals(up'[e], up[e], msgs)
    <2>1. PICK q \in Seq(Message) : q = up[e]
      BY <1>1
    <2> QED
      BY <1>1, <2>1, ConcatRemovals
  <1>3. Behind(up[e], id) => Behind(up'[e], id)
    BY <1>2 DEF JoinedRemovals
  <1> QED
    BY <1>1, <1>3 DEF Stands, Trails, Process

LEMMA QuietTrail ==
    ASSUME NEW id, Stands(id), up' = up, down' = down
    PROVE  Trails(id)'
  BY DEF Stands, Trails, Process

\* A removal of id is announced when every edge knows a hand-off of it or is being told.
LEMMA RelaysTrail ==
    ASSUME Working, NEW e, NEW m, NEW said, Stores(e, m, said), Relays(e, m, said),
           NEW id \in Token, Stands(id)
    PROVE  Trails(id)'
  <1>1. /\ e \in Edge /\ m \in Message /\ said \in BOOLEAN /\ Store \in Process
        /\ \A d \in Edge : d \in Process /\ linked[d]
        /\ \A d \in Edge \ {e} : up'[d] = up[d]
        /\ \A d \in Edge : ~said => down'[d] = down[d]
    BY WorkingFacts DEF Stores, Process
  <1>2. /\ TakenRemovals(up'[e], up[e], m)
        /\ \A d \in Edge : said => JoinedRemovals(down'[d], down[d], <<m>>)
        /\ \A f, to \in Token : IsRotate(m, f, to) => f \in DOMAIN table'[Store].rotations
    BY <1>1 DEF Relays, Hears
  <1>3. \A d \in Edge : id \in DOMAIN table'[Store].rotations \/ Behind(up'[d], id)
    <2> SUFFICES ASSUME NEW d \in Edge, id \notin DOMAIN table'[Store].rotations
                 PROVE  Behind(up'[d], id)
      OBVIOUS
    <2>1. Behind(up[d], id)
      BY <1>1 DEF Stands, Trails
    <2>2. CASE d = e
      BY <1>2, <2>1, <2>2 DEF TakenRemovals
    <2> QED
      BY <1>1, <2>1, <2>2
  <1>4. IsRemove(m, id) => id \in DOMAIN table[Store].rotations
    BY <1>1, <1>2 DEF Stands, Trails, TakenRemovals
  <1>5. ~IsRemove(m, id) => Behind(<<m>>, id)
    <2>1. ~IsRemove(m, id) => ~HasRemove(<<m>>, id)
      BY <1>1, SingleQueue
    <2> QED
      BY <2>1, NoRemovalBehind
  <1>6. \A d \in Edge : id \in DOMAIN table'[d].rotations \/ Behind(down'[d], id)
    <2> SUFFICES ASSUME NEW d \in Edge, id \notin DOMAIN table'[d].rotations
                 PROVE  Behind(down'[d], id)
      OBVIOUS
    <2>1. id \notin DOMAIN table[d].rotations /\ Behind(down[d], id)
      BY <1>1 DEF Stands, Trails
    <2>2. IsRemove(m, id) => \E to \in Token : HasRotate(down[d], id, to)
      BY <1>4, <2>1 DEF Stands, Spread
    <2>3. CASE said
      BY <1>2, <1>5, <2>1, <2>2, <2>3 DEF JoinedRemovals
    <2> QED
      BY <1>1, <2>1, <2>3
  <1> QED
    BY <1>3, <1>6 DEF Trails

LEMMA LearnsTrail ==
    ASSUME Working, NEW e, NEW m, Takes(e, m), Learns(e, m), NEW id \in Token, Stands(id)
    PROVE  Trails(id)'
  <1>1. /\ e \in Edge /\ m \in Message /\ Store \in Process /\ up' = up
        /\ \A d \in Edge : d \in Process
        /\ \A d \in Edge \ {e} : down'[d] = down[d]
    BY DEF Takes, Process
  <1>2. /\ TakenRemovals(down'[e], down[e], m)
        /\ \A f, to \in Token : IsRotate(m, f, to) => f \in DOMAIN table'[e].rotations
    BY DEF Learns, Hears
  <1>3. \A d \in Edge : id \in DOMAIN table'[d].rotations \/ Behind(down'[d], id)
    <2> SUFFICES ASSUME NEW d \in Edge, id \notin DOMAIN table'[d].rotations
                 PROVE  Behind(down'[d], id)
      OBVIOUS
    <2>1. Behind(down[d], id)
      BY <1>1 DEF Stands, Trails
    <2>2. CASE d = e
      BY <1>2, <2>1, <2>2 DEF TakenRemovals
    <2> QED
      BY <1>1, <2>1, <2>2
  <1> QED
    BY <1>1, <1>3 DEF Stands, Trails

\* An elevation without a hand-off lets go of what it replaces.
LEMMA UnkeptLetsGo ==
    ASSUME TypeOK, NamesAreMinted, handed \subseteq Minted, NEW e, NEW previous, NEW next, NEW msgs,
           NEW keep, ~keep, Elevates(e, previous, next, keep, msgs)
    PROVE  LetGo(previous)'
  <1>1. /\ next \in Fresh /\ next \in Token /\ next \notin Minted
        /\ previous \in Held(table[e]) /\ e \in Process
        /\ handed' = handed /\ replaced' = [replaced EXCEPT ![next] = previous]
    BY DEF Elevates, Hands, Acts, Process, Fresh, Minted
  <1>2. next # previous
    BY <1>1 DEF NamesAreMinted
  <1>3. replaced'[next] = previous
    BY <1>1 DEF TypeOK
  <1> QED
    BY <1>1, <1>2, <1>3 DEF LetGo

LEMMA RemovalsStay ==
    ASSUME Faults = {}, Working, HandoffInv, RemovalFollowsHandoff, [Next]_vars
    PROVE  RemovalFollowsHandoff'
  <1>1. Working' /\ Moves /\ signedOut \subseteq signedOut'
    BY ReplicationStays, StepsAreMoves, SignedOutGrows DEF Working
  <1>2. Carries /\ TypeOK /\ NamesAreMinted /\ handed \subseteq Minted
    BY <1>1, MovesCarry DEF HandoffInv, Working
  <1> SUFFICES ASSUME NEW id \in Token, ~LetGo(id)', ~Settled(id)'
               PROVE  Trails(id)' /\ Spread(id)'
    BY DEF RemovalFollowsHandoff
  <1>3. LetGo(id) => LetGo(id)'
    BY <1>1, <1>2, LetGoStays
  <1>4. ASSUME Delivers, \A q \in Process : Follows(q) PROVE Stands(id)
    BY <1>2, <1>3, <1>4, HandoffStands
  <1>5. Stands(id) => Spread(id)'
    BY DEF Stands
  <1>6. ASSUME NEW e, NEW gone, NEW new, NEW msgs,
               Acts(e, gone, new, msgs), Trims(e, gone, new, msgs)
        PROVE  Trails(id)' /\ Spread(id)'
    <2>1. Stands(id)
      BY <1>1, <1>2, <1>4, <1>6, TrimsKeepsHandoffs
    <2>2. ~HasRemove(msgs, id)
      BY <1>6 DEF Trims, LetGo
    <2> QED
      BY <1>5, <1>6, <2>1, <2>2, NoRemovalBehind, ActsTrail
  <1>7. ASSUME NEW e, NEW previous, NEW next, NEW keep, NEW msgs,
               Elevates(e, previous, next, keep, msgs)
        PROVE  Trails(id)' /\ Spread(id)'
    <2>1. Stands(id)
      BY <1>1, <1>2, <1>4, <1>7, HandsKeepsHandoffs
    <2>2. Acts(e, {previous}, {next}, msgs) /\ Hands(e, previous, next, keep, msgs)
      BY <1>7 DEF Elevates
    <2>3. Behind(msgs, id)
      <3>1. CASE keep
        BY <2>2, <3>1 DEF Hands
      <3>2. CASE ~keep
        <4>1. id # previous
          BY <1>2, <1>7, <3>2, UnkeptLetsGo
        <4>2. ~HasRemove(msgs, id)
          BY <2>2, <4>1 DEF Hands
        <4> QED
          BY <4>2, NoRemovalBehind
      <3> QED
        BY <3>1, <3>2
    <2> QED
      BY <1>5, <2>1, <2>2, <2>3, ActsTrail
  <1>8. ASSUME NEW p, NEW gone, Sweeps(p, gone), Cleans(p, gone)
        PROVE  Trails(id)' /\ Spread(id)'
    <2>1. Stands(id)
      BY <1>1, <1>2, <1>4, <1>8, CleansKeepsHandoffs
    <2>2. up' = up /\ down' = down
      BY <1>8 DEF Sweeps
    <2> QED
      BY <1>5, <2>1, <2>2, QuietTrail
  <1>9. ASSUME NEW e, NEW m, NEW said, Stores(e, m, said), Relays(e, m, said)
        PROVE  Trails(id)' /\ Spread(id)'
    <2>1. Stands(id)
      BY <1>1, <1>2, <1>4, <1>9, RelaysKeepsHandoffs
    <2> QED
      BY <1>5, <1>9, <2>1, RelaysTrail
  <1>10. ASSUME NEW e, NEW m, Takes(e, m), Learns(e, m)
         PROVE  Trails(id)' /\ Spread(id)'
    <2>1. Stands(id)
      BY <1>1, <1>2, <1>4, <1>10, LearnsKeepsHandoffs
    <2> QED
      BY <1>5, <1>10, <2>1, LearnsTrail
  <1>11. ASSUME Rests, NoHandoff({})
         PROVE  Trails(id)' /\ Spread(id)'
    <2>1. Stands(id)
      BY <1>1, <1>2, <1>4, <1>11, RestsKeepsHandoffs
    <2>2. up' = up /\ down' = down
      BY <1>11 DEF Rests
    <2> QED
      BY <1>5, <2>1, <2>2, QuietTrail
  <1>12. \A e : ~Cuts(e)
    BY DEF Cuts
  <1> QED
    BY <1>1, <1>6, <1>7, <1>8, <1>9, <1>10, <1>11, <1>12 DEF Moves

LEMMA RemovalsAtFirst ==
    ASSUME Init
    PROVE  RemovalFollowsHandoff
  <1>1. \A e \in Edge : up[e] = <<>> /\ down[e] = <<>>
    BY DEF Init
  <1>2. \A id \in Token : Behind(<<>>, id)
    BY ShortQueues, NoRemovalBehind
  <1>3. DOMAIN table[Store].rotations = {}
    BY DEF Init, EmptyTable, Process
  <1> QED
    BY <1>1, <1>2, <1>3 DEF RemovalFollowsHandoff, Trails, Spread

\* A hand-off kept of a credential that is not settled leads to a living session, also when
\* the credential itself has just been forgotten.
LEMMA KeptHandoffLives ==
    ASSUME Working, HandoffInv, NEW e \in Edge, NEW m \in Message, NEW u, NEW id \in Token,
           IsRemove(m, id), HasRemove(down[e], id), u = Apply(table[e], m),
           id \in DOMAIN table[e].rotations, ~Settled(id)
    PROVE  RotationOf(u, id, now) # NoToken
  <1>0. /\ e \in Process /\ TypeOK /\ IsTable(table[e]) /\ now \in Nat /\ CopiesAgree
        /\ Held(table[e]) \subseteq Token
    BY WorkingFacts DEF Working, TypeOK, Process
  <1>1. PICK t : t = table[e]
    OBVIOUS
  <1>2. AppliesTo(t, u, m) /\ Hears(t, u, m)
    BY <1>0, <1>1, ApplyProperties, ApplyHears
  <1>3. PICK to \in Successors(id) :
           /\ t.rotations[id].to = to /\ to \in Held(t)
           /\ \A x \in Copies(to) : x.created =< t.rotations[id].at
    BY <1>0, <1>1 DEF HandoffInv, KeptLead, LeadsOn
  <1>4. ~Over(to) /\ Over(id) /\ to \in Token /\ to # id
    <2>1. ~Over(to)
      BY <1>3 DEF Settled
    <2>2. Over(id)
      BY RemovalDooms DEF Over
    <2> QED
      BY <1>0, <1>1, <1>3, <2>1, <2>2
  <1>5. id \in DOMAIN u.rotations /\ u.rotations[id] = t.rotations[id]
    <2>1. \A f, x : ~IsRotate(m, f, x)
      BY DEF IsRemove, IsRotate
    <2>2. id \in DOMAIN u.rotations
      <3> SUFFICES ASSUME id \notin DOMAIN u.rotations PROVE FALSE
        OBVIOUS
      <3>1. PICK x \in Held(t) : IsRemove(m, x) /\ t.sessions[x].rotatedFrom = id
        BY <1>1, <1>2 DEF Hears
      <3>2. x = id
        BY <3>1 DEF IsRemove
      <3>3. id \in Successors(id)
        BY <1>0, <1>1, <3>1, <3>2 DEF HandoffInv, OriginsLead
      <3> QED
        BY <1>4, <3>3 DEF Settled
    <2> QED
      BY <1>2, <2>1, <2>2 DEF Hears
  <1>6. to \in Held(u) /\ ToldIn(u, to) = ToldIn(t, to)
    <2>1. ~IsRemove(m, to) /\ ~IsPut(m, to)
      BY <1>4 DEF IsRemove, IsPut
    <2> QED
      BY <1>2, <1>3, <1>4, <2>1 DEF AppliesTo
  <1>7. Told(e, to) \in Copies(to) /\ Told(e, to).created = t.sessions[to].created
    BY <1>0, <1>1, <1>3 DEF Copies, Told
  <1>8. \A x \in Copies(to) : x.created = t.sessions[to].created
    BY <1>0, <1>4, <1>7 DEF CopiesAgree
  <1>9. /\ ~Expired(t.sessions[to].created, now)
        /\ ~(now - t.sessions[to].created > Grace)
    BY <1>4, <1>7, <1>8 DEF Over, Outlived, Lapsed
  <1>10. /\ t.sessions[to].created \in Nat /\ t.rotations[id].at \in Nat
         /\ t.sessions[to].created =< t.rotations[id].at
    BY <1>0, <1>1, <1>3, <1>7 DEF IsTable, Held, SessionRecord, Rotation
  <1>11. now - u.rotations[id].at =< Grace
    BY <1>0, <1>5, <1>9, <1>10, TableAssumption
  <1>12. IsLive(u, to, now)
    BY <1>6, <1>9 DEF ToldIn, IsLive
  <1> QED
    BY <1>3, <1>4, <1>5, <1>11, <1>12, TableAssumption DEF RotationOf

\* While no link is lost: until a credential is let go of or one it was elevated to is over,
\* no removal of it is ahead of its hand-off on any link (the order of the calls of setScope,
\* sessionmanager.cpp:277-288).
THEOREM RemovalsComeBehind ==
    ASSUME Faults = {}
    PROVE  Spec => []RemovalFollowsHandoff
  <1>1. Init => Working /\ HandoffInv /\ RemovalFollowsHandoff
    BY WorkingAtFirst, HandoffsAtFirst, RemovalsAtFirst
  <1>2. (Working /\ HandoffInv /\ RemovalFollowsHandoff) /\ [Next]_vars
            => (Working /\ HandoffInv /\ RemovalFollowsHandoff)'
    BY ReplicationStays, HandoffsStay, RemovalsStay
  <1> QED
    BY <1>1, <1>2, PTL DEF Spec

\* While no link is lost, an edge closes a connection on the store's word only where its
\* session was let go of, or one it was elevated to is over: dropSession finds the hand-off
\* that came ahead of the removal (webedge.cpp:1918, sessionmanager.cpp:274-277).
THEOREM ElevationsKeepConnections ==
    ASSUME Faults = {}
    PROVE  Spec => ElevationKeepsConnections
  <1> DEFINE Kept == \A c \in Conn : conn[c] # Free /\ conn'[c] = Free /\ down' # down =>
                         LetGo(conn[c].live) \/ Settled(conn[c].live)
  <1>1. ASSUME Working, HandoffInv, RemovalFollowsHandoff, [Next]_vars PROVE Kept
    <2> SUFFICES ASSUME NEW c \in Conn, conn[c] # Free, conn'[c] = Free, down' # down,
                        ~LetGo(conn[c].live), ~Settled(conn[c].live)
                 PROVE  FALSE
      OBVIOUS
    <2>0. /\ TypeOK /\ conn[c].edge \in Edge /\ conn[c].live \in Token
          /\ NoEdge \notin Edge /\ conn \in [Conn -> {Free} \cup [edge : Edge, live : Token]]
      BY <1>1, ReplicationAssumption DEF Working, TypeOK
    <2>1. \E e \in Edge : StoreReceives(e) \/ EdgeReceives(e)
      <3>1. ASSUME NEW b \in Browser, NEW e \in Edge, PageLoad(b, e) PROVE down' = down
        BY <3>1 DEF PageLoad, Issue
      <3>2. ASSUME NEW d \in Conn, NEW s \in SlotScopes, SlotSetScope(d, s) PROVE down' = down
        BY <3>2 DEF SlotSetScope, Elevate
      <3>3. ASSUME NEW b \in Browser, NEW e \in Edge, NEW s \in Scope, SignIn(b, e, s)
            PROVE  down' = down
        BY <3>3 DEF SignIn, Elevate
      <3>4. ASSUME NEW b \in Browser, NEW e \in Edge, NEW s \in Scope, NEW u \in User,
                   LoginCallback(b, e, s, u)
            PROVE  down' = down
        BY <3>4 DEF LoginCallback, Issue
      <3>5. ASSUME NEW b \in Browser, NEW e \in Edge, Logout(b, e) PROVE down' = down
        BY <3>5 DEF Logout
      <3>6. ASSUME \/ \E b \in Browser, d \in Conn, e \in Edge : Upgrade(b, d, e)
                   \/ \E d \in Conn : Disconnected(d)
                   \/ \E p \in Process : Sweep(p)
                   \/ \E e \in Edge : LinkUp(e)
                   \/ Tick
                   \/ UNCHANGED vars
            PROVE  down' = down
        BY <3>6 DEF Upgrade, Disconnected, Sweep, LinkUp, Tick, vars
      <3>7. \A e \in Edge : ~LinkLost(e) /\ ~EdgeRestart(e)
        BY DEF LinkLost, EdgeRestart, Fault
      <3> QED
        BY <1>1, <3>1, <3>2, <3>3, <3>4, <3>5, <3>6, <3>7 DEF Next, Deliver
    <2>2. \A e \in Edge : ~StoreReceives(e)
      BY DEF StoreReceives
    <2>3. PICK e \in Edge : EdgeReceives(e)
      BY <2>1, <2>2
    <2>4. PICK m, left : m = Head(down[e]) /\ left = Apply(table[e], m)
      OBVIOUS
    <2>5. /\ down[e] # <<>> /\ down[e] \in Seq(Message)
          /\ CASE m.op = "rotate" /\ Changes(table[e], m) -> FollowRotation(e, m.from, m.to)
               [] m.op = "remove" /\ Changes(table[e], m) -> DropSessions(e, left, {m.id})
               [] OTHER -> UNCHANGED conn
      BY <2>0, <2>3, <2>4 DEF EdgeReceives, TypeOK
    <2>6. m \in Message /\ TakenRemovals(Tail(down[e]), down[e], m)
          /\ Taken(Tail(down[e]), down[e], m)
      BY <2>4, <2>5, TailRemovals, TailTakes
    <2>7. ~(m.op = "rotate" /\ Changes(table[e], m) /\ FollowRotation(e, m.from, m.to))
      BY <2>0 DEF FollowRotation, Free
    <2>8. m.op = "remove" /\ DropSessions(e, left, {m.id})
      BY <2>5, <2>7
    <2>9. /\ conn[c].edge = e /\ conn[c].live = m.id
          /\ RotationOf(left, m.id, now) = NoToken
      BY <2>0, <2>8 DEF DropSessions
    <2>10. PICK id \in Token : id = m.id /\ IsRemove(m, id)
      BY <2>0, <2>8, <2>9 DEF IsRemove
    <2>11. HasRemove(down[e], id) /\ ~Behind(down[e], id)
      BY <2>6, <2>10 DEF Taken, TakenRemovals
    <2>12. id \in DOMAIN table[e].rotations
      BY <1>1, <2>9, <2>10, <2>11 DEF RemovalFollowsHandoff, Trails
    <2> QED
      BY <1>1, <2>4, <2>6, <2>9, <2>10, <2>11, <2>12, KeptHandoffLives
  <1>2. (TypeOK /\ NamesAreMinted /\ CopiesAgree /\ ReplicationInv /\ HandoffInv
             /\ RemovalFollowsHandoff) /\ [Next]_vars => [Kept]_vars
    BY <1>1 DEF Working
  <1>3. Spec => [][Kept]_vars
    BY <1>2, TypeCorrectness, ReplicationInvariant, ReplicaHandoffInvariant, RemovalsComeBehind,
       PTL DEF Spec
  <1> QED
    BY <1>3 DEF ElevationKeepsConnections

================================================================================
