--------------------------- MODULE DeviceSignInProofs ---------------------------
(***************************************************************************)
(* What holds of staying signed in for every value of the constants: any   *)
(* number of families, generations, sessions and calls in flight, any      *)
(* windows, and the events each theorem names.                             *)
(***************************************************************************)
EXTENDS DeviceSignIn, TLAPS, FiniteSetTheorems, SequenceTheorems

(***************************************************************************)
(* The calls in flight.  A step of the client stops waiting for the calls  *)
(* in gone; a step of the edge answers the ones in handled.  What is left  *)
(* keeps its order.                                                        *)
(***************************************************************************)
Kept(c, d) == c.kind = d.kind /\ c.cred = d.cred /\ c.cookie = d.cookie /\ c.device = d.device

MovedBy(g, cs, ds, gone, handled, answer) ==
    /\ g \in [1..Len(ds) -> 1..Len(cs)]
    /\ \A j, k \in 1..Len(ds) : j < k => g[j] < g[k]
    /\ \A j \in 1..Len(ds) :
          /\ Kept(ds[j], cs[g[j]])
          /\ ds[j].waiting <=> cs[g[j]].waiting /\ g[j] \notin gone
          /\ ds[j].sent <=> cs[g[j]].sent /\ g[j] \notin handled
          /\ ds[j].answer = IF g[j] \in handled THEN answer ELSE cs[g[j]].answer
    /\ \A k \in 1..Len(cs) : cs[k].waiting /\ k \notin gone => \E j \in 1..Len(ds) : g[j] = k

Moved(cs, ds, gone, handled, answer) ==
    /\ ds \in Seq(Call)
    /\ \E g : MovedBy(g, cs, ds, gone, handled, answer)

\* ds is what is left of cs, in its order; nothing but the elements in out may be missing.
EmbeddedBy(g, ds, cs, out) ==
    /\ g \in [1..Len(ds) -> 1..Len(cs)]
    /\ \A j, k \in 1..Len(ds) : j < k => g[j] < g[k]
    /\ \A j \in 1..Len(ds) : ds[j] = cs[g[j]]
    /\ \A k \in 1..Len(cs) : k \notin out => \E j \in 1..Len(ds) : g[j] = k

\* Taking one element out of a sequence keeps the others in their order.
LEMMA RemoveAtEmbeds ==
    ASSUME NEW S, NEW cs \in Seq(S), NEW i \in 1..Len(cs)
    PROVE  /\ RemoveAt(cs, i) \in Seq(S)
           /\ \E g : EmbeddedBy(g, RemoveAt(cs, i), cs, {i})
  <1> DEFINE front == SubSeq(cs, 1, i - 1)
             back  == SubSeq(cs, i + 1, Len(cs))
             ds    == front \o back
             g     == [j \in 1..(Len(cs) - 1) |-> IF j < i THEN j ELSE j + 1]
  <1>0. Len(cs) \in Nat /\ i \in Nat /\ i >= 1 /\ i =< Len(cs)
    OBVIOUS
  <1>1. /\ front \in Seq(S)
        /\ Len(front) = i - 1
        /\ \A j \in 1..(i - 1) : front[j] = cs[j]
    BY SubSeqProperties
  <1>2. /\ back \in Seq(S)
        /\ Len(back) = Len(cs) - i
        /\ \A j \in 1..(Len(cs) - i) : back[j] = cs[i + j]
    BY SubSeqProperties
  <1>3. RemoveAt(cs, i) = ds
    BY DEF RemoveAt
  <1> HIDE DEF front, back
  <1>4. /\ ds \in Seq(S)
        /\ Len(ds) = Len(cs) - 1
        /\ \A j \in 1..(Len(cs) - 1) : ds[j] =
                IF j =< i - 1 THEN front[j] ELSE back[j - (i - 1)]
    <2>1. /\ ds \in Seq(S)
          /\ Len(ds) = Len(front) + Len(back)
          /\ \A j \in 1..(Len(front) + Len(back)) : ds[j] =
                  IF j =< Len(front) THEN front[j] ELSE back[j - Len(front)]
      BY <1>1, <1>2, ConcatProperties
    <2>2. Len(front) + Len(back) = Len(cs) - 1
      BY <1>0, <1>1, <1>2
    <2> QED
      BY <1>1, <2>1, <2>2
  <1> HIDE DEF ds
  <1>5. ASSUME NEW j \in 1..(Len(cs) - 1)
        PROVE  ds[j] = cs[g[j]] /\ g[j] \in 1..Len(cs)
    <2>1. CASE j < i
      BY <1>0, <1>1, <1>4, <2>1
    <2>2. CASE ~(j < i)
      <3>1. /\ j - (i - 1) \in 1..(Len(cs) - i)
            /\ i + (j - (i - 1)) = j + 1
            /\ ~(j =< i - 1)
        BY <1>0, <2>2
      <3>2. ds[j] = cs[j + 1]
        BY <1>2, <1>4, <3>1
      <3> QED
        BY <1>0, <2>2, <3>2
    <2> QED
      BY <2>1, <2>2
  <1>6. \A j, k \in 1..(Len(cs) - 1) : j < k => g[j] < g[k]
    BY <1>0
  <1>7. ASSUME NEW k \in 1..Len(cs), k # i
        PROVE  \E j \in 1..(Len(cs) - 1) : g[j] = k
    <2>1. CASE k < i
      <3>1. k \in 1..(Len(cs) - 1) /\ g[k] = k
        BY <1>0, <2>1
      <3> QED
        BY <3>1
    <2>2. CASE k > i
      <3>1. k - 1 \in 1..(Len(cs) - 1) /\ g[k - 1] = k
        BY <1>0, <2>2
      <3> QED
        BY <3>1
    <2> QED
      BY <1>0, <1>7, <2>1, <2>2
  <1>8. g \in [1..(Len(cs) - 1) -> 1..Len(cs)]
    BY <1>5
  <1> HIDE DEF g
  <1>9. EmbeddedBy(g, ds, cs, {i})
    BY <1>4, <1>5, <1>6, <1>7, <1>8 DEF EmbeddedBy
  <1> QED
    BY <1>3, <1>4, <1>9

\* A list nothing happens to.
LEMMA StaysMoved ==
    ASSUME NEW cs \in Seq(Call), NEW answer
    PROVE  Moved(cs, cs, {}, {}, answer)
  <1> DEFINE g == [j \in 1..Len(cs) |-> j]
  <1>1. MovedBy(g, cs, cs, {}, {}, answer)
    BY DEF MovedBy, Kept
  <1> QED
    BY <1>1 DEF Moved

\* A call nobody waits for leaves.
LEMMA LostMoved ==
    ASSUME NEW cs \in Seq(Call), NEW i \in 1..Len(cs), ~cs[i].waiting, NEW answer
    PROVE  Moved(cs, RemoveAt(cs, i), {}, {}, answer)
  <1> DEFINE ds == RemoveAt(cs, i)
  <1>1. ds \in Seq(Call) /\ \E g : EmbeddedBy(g, ds, cs, {i})
    BY RemoveAtEmbeds
  <1> HIDE DEF ds
  <1>2. PICK g : EmbeddedBy(g, ds, cs, {i})
    BY <1>1
  <1>3. MovedBy(g, cs, ds, {}, {}, answer)
    BY <1>2 DEF EmbeddedBy, MovedBy, Kept
  <1>4. Moved(cs, ds, {}, {}, answer)
    BY <1>1, <1>3 DEF Moved
  <1> QED
    BY <1>4 DEF ds

\* Settling takes a call that is answered, or means nothing to the edge, once nobody waits.
LEMMA SettledEmbeds ==
    ASSUME NEW cs \in Seq(Call), NEW i \in 1..Len(cs)
    PROVE  /\ Settled(cs, i) \in Seq(Call)
           /\ \E g : EmbeddedBy(g, Settled(cs, i), cs, IF cs[i].waiting THEN {} ELSE {i})
  <1>1. CASE Settled(cs, i) = cs
    <2> DEFINE g == [j \in 1..Len(cs) |-> j]
    <2>1. EmbeddedBy(g, cs, cs, IF cs[i].waiting THEN {} ELSE {i})
      BY DEF EmbeddedBy
    <2> HIDE DEF g
    <2> QED
      BY <1>1, <2>1
  <1>2. CASE Settled(cs, i) = RemoveAt(cs, i) /\ ~cs[i].waiting
    BY <1>2, RemoveAtEmbeds
  <1> QED
    BY <1>1, <1>2 DEF Settled

\* The client stops waiting for a call.
LEMMA FinishMoved ==
    ASSUME NEW cs \in Seq(Call), NEW i \in 1..Len(cs), NEW answer
    PROVE  Moved(cs, Settled([cs EXCEPT ![i].waiting = FALSE], i), {i}, {}, answer)
  <1> DEFINE es == [cs EXCEPT ![i].waiting = FALSE]
             ds == Settled(es, i)
  <1>1. /\ es \in Seq(Call)
        /\ Len(es) = Len(cs)
        /\ \A j \in 1..Len(cs) : j # i => es[j] = cs[j]
        /\ es[i] = [cs[i] EXCEPT !.waiting = FALSE]
    <2> DEFINE e == [cs[i] EXCEPT !.waiting = FALSE]
    <2>1. cs[i] \in Call
      OBVIOUS
    <2>2. e \in Call
      BY <2>1 DEF Call
    <2>3. es = [cs EXCEPT ![i] = e]
      OBVIOUS
    <2> HIDE DEF e, es
    <2>4. /\ es \in Seq(Call)
          /\ Len(es) = Len(cs)
          /\ \A j \in 1..Len(cs) : es[j] = IF j = i THEN e ELSE cs[j]
      BY <2>2, <2>3, ExceptSeq
    <2> QED
      BY <2>4 DEF e
  <1>2. cs[i] \in Call
    OBVIOUS
  <1>3. es[i].waiting = FALSE /\ Kept(es[i], cs[i]) /\ es[i].sent = cs[i].sent
        /\ es[i].answer = cs[i].answer
    BY <1>1, <1>2 DEF Call, Kept
  <1> HIDE DEF es
  <1>4. /\ ds \in Seq(Call)
        /\ \E g : EmbeddedBy(g, ds, es, IF es[i].waiting THEN {} ELSE {i})
    BY <1>1, SettledEmbeds
  <1> HIDE DEF ds
  <1>5. PICK g : EmbeddedBy(g, ds, es, IF es[i].waiting THEN {} ELSE {i})
    BY <1>4
  <1>6. ASSUME NEW j \in 1..Len(ds)
        PROVE  /\ Kept(ds[j], cs[g[j]])
               /\ ds[j].waiting <=> cs[g[j]].waiting /\ g[j] \notin {i}
               /\ ds[j].sent <=> cs[g[j]].sent /\ g[j] \notin {}
               /\ ds[j].answer = IF g[j] \in {} THEN answer ELSE cs[g[j]].answer
    <2>1. CASE g[j] = i
      BY <1>3, <1>5, <2>1 DEF EmbeddedBy
    <2>2. CASE g[j] # i
      BY <1>1, <1>5, <2>2 DEF Kept, EmbeddedBy
    <2> QED
      BY <2>1, <2>2
  <1>7. MovedBy(g, cs, ds, {i}, {}, answer)
    BY <1>1, <1>3, <1>5, <1>6 DEF MovedBy, EmbeddedBy
  <1>8. Moved(cs, ds, {i}, {}, answer)
    BY <1>4, <1>7 DEF Moved
  <1> QED
    BY <1>8 DEF ds, es

\* The edge answers a call.
LEMMA RepliedMoved ==
    ASSUME calls \in Seq(Call), NEW i \in 1..Len(calls), NEW status, NEW session, NEW cred,
           [status |-> status, session |-> session, cred |-> cred] \in Answer
    PROVE  Moved(calls, Replied(i, status, session, cred), {}, {i},
                 [status |-> status, session |-> session, cred |-> cred])
  <1> DEFINE answer == [status |-> status, session |-> session, cred |-> cred]
             es == [calls EXCEPT ![i] = [@ EXCEPT !.sent = FALSE, !.answer = answer]]
             ds == Settled(es, i)
  <1>0. answer \in Answer /\ calls[i] \in Call
    OBVIOUS
  <1>1. es = [calls EXCEPT ![i] = [calls[i] EXCEPT !.sent = FALSE, !.answer = answer]]
    OBVIOUS
  <1>2. Replied(i, status, session, cred) = ds
    BY DEF Replied
  <1> HIDE DEF answer
  <1>3. [calls[i] EXCEPT !.sent = FALSE, !.answer = answer] \in Call
    BY <1>0 DEF Call
  <1>4. /\ es \in Seq(Call)
        /\ Len(es) = Len(calls)
        /\ \A j \in 1..Len(calls) : j # i => es[j] = calls[j]
        /\ es[i] = [calls[i] EXCEPT !.sent = FALSE, !.answer = answer]
    <2> DEFINE e == [calls[i] EXCEPT !.sent = FALSE, !.answer = answer]
    <2>1. e \in Call /\ es = [calls EXCEPT ![i] = e]
      BY <1>1, <1>3
    <2> HIDE DEF e, es
    <2>2. /\ es \in Seq(Call)
          /\ Len(es) = Len(calls)
          /\ \A j \in 1..Len(calls) : es[j] = IF j = i THEN e ELSE calls[j]
      BY <2>1, ExceptSeq
    <2> QED
      BY <2>2 DEF e
  <1>5. es[i].sent = FALSE /\ Kept(es[i], calls[i]) /\ es[i].waiting = calls[i].waiting
        /\ es[i].answer = answer
    BY <1>0, <1>4 DEF Call, Kept
  <1> HIDE DEF es
  <1>6. /\ ds \in Seq(Call)
        /\ \E g : EmbeddedBy(g, ds, es, IF es[i].waiting THEN {} ELSE {i})
    BY <1>4, SettledEmbeds
  <1> HIDE DEF ds
  <1>7. PICK g : EmbeddedBy(g, ds, es, IF es[i].waiting THEN {} ELSE {i})
    BY <1>6
  <1>8. ASSUME NEW j \in 1..Len(ds)
        PROVE  /\ Kept(ds[j], calls[g[j]])
               /\ ds[j].waiting <=> calls[g[j]].waiting /\ g[j] \notin {}
               /\ ds[j].sent <=> calls[g[j]].sent /\ g[j] \notin {i}
               /\ ds[j].answer = IF g[j] \in {i} THEN answer ELSE calls[g[j]].answer
    <2>1. CASE g[j] = i
      BY <1>5, <1>7, <2>1 DEF EmbeddedBy
    <2>2. CASE g[j] # i
      BY <1>4, <1>7, <2>2 DEF Kept, EmbeddedBy
    <2> QED
      BY <2>1, <2>2
  <1>9. \A k \in 1..Len(calls) : calls[k].waiting /\ k \notin {}
            => \E j \in 1..Len(ds) : g[j] = k
    BY <1>4, <1>5, <1>7 DEF EmbeddedBy
  <1>10. MovedBy(g, calls, ds, {}, {i}, answer)
    BY <1>4, <1>7, <1>8, <1>9 DEF MovedBy, EmbeddedBy
  <1>11. Moved(calls, ds, {}, {i}, answer)
    BY <1>6, <1>10 DEF Moved
  <1> QED
    BY <1>2, <1>11 DEF answer

\* A crash stops waiting for every call.
LEMMA CrashMoved ==
    ASSUME NEW cs \in Seq(Call), NEW answer
    PROVE  Moved(cs, [i \in 1..Len(cs) |-> [cs[i] EXCEPT !.waiting = FALSE]],
                 1..Len(cs), {}, answer)
  <1> DEFINE ds == [i \in 1..Len(cs) |-> [cs[i] EXCEPT !.waiting = FALSE]]
             g  == [j \in 1..Len(cs) |-> j]
  <1>1. ASSUME NEW i \in 1..Len(cs)
        PROVE  /\ ds[i] \in Call
               /\ ds[i].waiting = FALSE /\ Kept(ds[i], cs[i]) /\ ds[i].sent = cs[i].sent
               /\ ds[i].answer = cs[i].answer
    <2>1. cs[i] \in Call
      OBVIOUS
    <2> QED
      BY <2>1 DEF Call, Kept
  <1>2. ds \in Seq(Call) /\ Len(ds) = Len(cs)
    <2>1. Len(cs) \in Nat
      OBVIOUS
    <2>2. ds \in [1..Len(cs) -> Call]
      <3>1. \A i \in 1..Len(cs) : ds[i] \in Call
        BY <1>1
      <3> QED
        BY <3>1
    <2> HIDE DEF ds
    <2> QED
      BY <2>1, <2>2, SeqDef
  <1>3. g \in [1..Len(cs) -> 1..Len(cs)] /\ \A j \in 1..Len(cs) : g[j] = j
    OBVIOUS
  <1> HIDE DEF ds, g
  <1>4. MovedBy(g, cs, ds, 1..Len(cs), {}, answer)
    BY <1>1, <1>2, <1>3 DEF MovedBy
  <1>5. Moved(cs, ds, 1..Len(cs), {}, answer)
    BY <1>2, <1>4 DEF Moved
  <1> QED
    BY <1>5 DEF ds

(***************************************************************************)
(* The client's methods.                                                   *)
(***************************************************************************)
\* What openSession leaves: a client that connects over a socket, or awaits the answer to
\* the one request it appended; it redeems only a credential it may spend.
Opened(c, others) ==
    /\ client' \in ClientFields
    /\ client'.state = "connecting"
    /\ client'.login = c.login /\ client'.store = c.store /\ client'.spent = c.spent
    /\ client'.timer = c.timer
    /\ client'.held = c.held \/ (c.held = NoCred /\ c.store /\ client'.held = disk)
    /\ calls' \in Seq(Call)
    /\ \/ calls' = others /\ client'.socket # "none" /\ client'.redeeming = c.redeeming
       \/ /\ calls' = Append(others, Request("bootstrap", NoCred, NoCookie))
          /\ client'.redeeming = c.redeeming
       \/ /\ calls' = Append(others, Request("redeem", client'.held, NoCookie))
          /\ client'.held # NoCred /\ ~c.redeeming /\ ~c.spent /\ client'.redeeming

\* A request is a call, waiting to be answered.
LEMMA RequestIsCall ==
    ASSUME client \in ClientFields, NEW kind \in {"redeem", "claim", "logout", "bootstrap"},
           NEW cred \in Cred \cup {NoCred}, NEW cookie \in Cookie
    PROVE  Request(kind, cred, cookie) \in Call
  <1>1. client.store \in BOOLEAN
    BY DEF ClientFields
  <1> QED
    BY <1>1 DEF Request, Call

\* What a failed redemption falls back to is one of the ways of openSession.
LEMMA FallBackEffect ==
    ASSUME client \in ClientFields, NEW c \in ClientFields, NEW others \in Seq(Call),
           FallBack(c, others)
    PROVE  /\ Opened(c, others)
           /\ client'.held = c.held
           /\ client'.redeeming = c.redeeming
  <1>1. CASE /\ client' = ConnectToEdge([c EXCEPT !.cookie = c.config])
             /\ calls' = others
    BY <1>1 DEF ConnectToEdge, ClientFields, Opened
  <1>2. CASE /\ client' = [c EXCEPT !.state = "connecting"]
             /\ calls' = Append(others, Request("bootstrap", NoCred, NoCookie))
    <2>1. Request("bootstrap", NoCred, NoCookie) \in Call
      BY RequestIsCall DEF Cookie
    <2>2. calls' \in Seq(Call)
      BY <1>2, <2>1
    <2>3. /\ client' \in ClientFields /\ client'.state = "connecting"
          /\ client'.login = c.login /\ client'.store = c.store /\ client'.spent = c.spent
          /\ client'.timer = c.timer /\ client'.held = c.held
          /\ client'.redeeming = c.redeeming
      BY <1>2 DEF ClientFields
    <2> QED
      BY <1>2, <2>2, <2>3 DEF Opened
  <1> QED
    BY <1>1, <1>2 DEF FallBack

LEMMA OpenSessionEffect ==
    ASSUME client \in ClientFields, NEW c \in ClientFields, NEW others \in Seq(Call),
           disk \in Cred \cup {NoCred}, OpenSession(c, others)
    PROVE  Opened(c, others)
  <1> DEFINE loaded == Loaded(c)
  <1>1. /\ loaded \in ClientFields
        /\ loaded.state = c.state
        /\ loaded.login = c.login /\ loaded.store = c.store /\ loaded.spent = c.spent
        /\ loaded.timer = c.timer /\ loaded.redeeming = c.redeeming
        /\ loaded.held = c.held \/ (c.held = NoCred /\ c.store /\ loaded.held = disk)
    BY DEF Loaded, ClientFields
  <1>2. CASE /\ client' = ConnectToEdge([c EXCEPT !.accepted = FALSE, !.cookie = c.config])
             /\ calls' = others
    BY <1>2 DEF ConnectToEdge, ClientFields, Opened
  <1>3. CASE /\ MayRedeem(c) /\ loaded.held # NoCred
             /\ client' = [loaded EXCEPT !.state = "connecting", !.redeeming = TRUE]
             /\ calls' = Append(others, Request("redeem", loaded.held, NoCookie))
    <2> HIDE DEF loaded
    <2>1. /\ client' \in ClientFields /\ client'.state = "connecting"
          /\ client'.login = c.login /\ client'.store = c.store /\ client'.spent = c.spent
          /\ client'.timer = c.timer /\ client'.redeeming = TRUE
          /\ client'.held = loaded.held
      BY <1>1, <1>3 DEF ClientFields
    <2>2. Request("redeem", loaded.held, NoCookie) \in Call
      <3>1. loaded.held \in Cred \cup {NoCred} /\ NoCookie \in Cookie
        BY <1>1 DEF ClientFields, Cookie
      <3> QED
        BY <3>1, RequestIsCall
    <2>3. calls' \in Seq(Call)
      BY <1>3, <2>2
    <2> QED
      BY <1>1, <1>3, <2>1, <2>3 DEF Opened, MayRedeem
  <1>4. CASE FallBack(loaded, others)
    <2> HIDE DEF loaded
    <2>1. Opened(loaded, others) /\ client'.held = loaded.held
          /\ client'.redeeming = loaded.redeeming
      BY <1>1, <1>4, FallBackEffect
    <2> QED
      BY <1>1, <2>1 DEF Opened
  <1> QED
    BY <1>2, <1>3, <1>4 DEF OpenSession

\* A successful answer: the client and the store hold the credential it brought, unless
\* the write failed, and the write that missed its deadline takes the store with it.
LEMMA SaveEffect ==
    ASSUME NEW c \in ClientFields, NEW cred \in Cred \cup {NoCred}, Save(c, cred),
           disk \in Cred \cup {NoCred}, late \subseteq Cred
    PROVE  /\ client' \in ClientFields
           /\ disk' \in Cred \cup {NoCred} /\ late' \subseteq Cred
           /\ \A f \in {"state", "held", "cookie", "config", "accepted", "spent", "redeeming",
                        "hold", "timer", "handshake", "socket", "live", "login"} :
                 client'[f] = c[f]
           /\ cred = NoCred => client' = c /\ disk' = disk /\ late' = late
           /\ cred # NoCred /\ ~c.store => client' = c /\ disk' = disk /\ late' = late
           /\ cred # NoCred /\ c.store => disk' \in {cred, NoCred}
           /\ ~Happens("saveLate") => client' = c /\ late' = late
  <1>1. CASE client' = c
    BY <1>1 DEF Save, ClientFields
  <1>2. CASE client' = [c EXCEPT !.store = FALSE] /\ disk' = NoCred /\ late' = late \cup {cred}
             /\ c.store /\ cred # NoCred /\ Happens("saveLate")
    BY <1>2 DEF ClientFields
  <1> QED
    BY <1>1, <1>2 DEF Save

(***************************************************************************)
(* Types.                                                                  *)
(***************************************************************************)
\* An answer with a status is one the edge gave.
LEMMA AnswerTypes ==
    ASSUME calls \in Seq(Call), NEW i \in 1..Len(calls)
    PROVE  /\ calls[i] \in Call
           /\ calls[i].answer.cred \in Cred \cup {NoCred}
           /\ calls[i].answer.session \in Session \cup {NoCookie}
           /\ calls[i].answer.cred # NoCred => calls[i].answer.status = 200
                                               \/ calls[i].answer.status = 404
                                               \/ calls[i].answer.status = 429
  <1>1. calls[i] \in Call
    OBVIOUS
  <1>2. calls[i].answer \in Answer \cup {NoAnswer}
    BY <1>1 DEF Call
  <1> QED
    BY <1>1, <1>2 DEF Answer, NoAnswer

\* The fields after a successful answer, and the rest as before.
SignedAs(d, c, cred, spent) ==
    /\ d \in ClientFields
    /\ d.state = "connecting" /\ d.socket = "opening" /\ d.spent = spent
    /\ d.held = IF cred # NoCred THEN cred ELSE c.held
    /\ d.redeeming = c.redeeming /\ d.store = c.store /\ d.login = c.login
    /\ d.timer = c.timer

LEMMA SignedIsClient ==
    ASSUME NEW c \in ClientFields, NEW cred \in Cred \cup {NoCred},
           NEW session \in Session \cup {NoCookie}, NEW spent \in BOOLEAN
    PROVE  SignedAs([Signed(c, cred, session) EXCEPT !.spent = spent], c, cred, spent)
  <1> DEFINE kept == IF cred # NoCred THEN cred ELSE c.held
             bought == [c EXCEPT !.held = kept, !.cookie = session, !.config = session]
             opened == [bought EXCEPT !.state = "connecting", !.socket = "opening",
                                      !.handshake = TRUE, !.spent = spent]
  <1>1. kept \in Cred \cup {NoCred} /\ session \in Cookie
    BY DEF ClientFields, Cookie
  <1>2. [Signed(c, cred, session) EXCEPT !.spent = spent] = opened
    BY DEF Signed, ConnectToEdge
  <1> HIDE DEF kept
  <1>3. bought \in ClientFields /\ bought.held = kept
    BY <1>1 DEF ClientFields
  <1>4. /\ bought.redeeming = c.redeeming /\ bought.store = c.store
        /\ bought.login = c.login /\ bought.timer = c.timer
    BY DEF ClientFields
  <1> HIDE DEF bought
  <1>5. opened \in ClientFields
    BY <1>3 DEF ClientFields
  <1>6. /\ opened.state = "connecting" /\ opened.socket = "opening" /\ opened.spent = spent
        /\ opened.held = kept
    BY <1>3 DEF ClientFields
  <1>7. /\ opened.redeeming = c.redeeming /\ opened.store = c.store
        /\ opened.login = c.login /\ opened.timer = c.timer
    BY <1>3, <1>4 DEF ClientFields
  <1> HIDE DEF opened
  <1> QED
    BY <1>2, <1>5, <1>6, <1>7 DEF SignedAs, kept

\* Types of the records a purge leaves.
LEMMA PurgeTypes ==
    ASSUME DOMAIN devices \subseteq Family, devices \in [DOMAIN devices -> Device],
           DOMAIN bindings \subseteq Session,
           bindings \in [DOMAIN bindings -> [family : Family, at : Nat]], NEW rows
    PROVE  /\ DOMAIN Purged(devices) \subseteq DOMAIN devices
           /\ Purged(devices) \in [DOMAIN Purged(devices) -> Device]
           /\ \A f \in DOMAIN Purged(devices) : Purged(devices)[f] = devices[f]
           /\ DOMAIN PurgedBindings(rows) \subseteq DOMAIN bindings
           /\ PurgedBindings(rows) \in [DOMAIN PurgedBindings(rows) -> [family : Family, at : Nat]]
           /\ \A s \in DOMAIN PurgedBindings(rows) : PurgedBindings(rows)[s] = bindings[s]
           /\ \A s \in DOMAIN bindings : bindings[s].family \in DOMAIN rows
                                         => s \in DOMAIN PurgedBindings(rows)
  BY DEF Purged, PurgedBindings, Without

\* The row after a redemption.
LEMMA IssueTypes ==
    ASSUME now \in Nat, NEW row \in Device, NEW next \in Secret, NEW verdict
    PROVE  /\ Issue(row, next, verdict) \in Device
           /\ Issue(row, next, verdict).cur = next
           /\ Issue(row, next, verdict).prev = IF verdict = "current" THEN row.cur ELSE row.prev
           /\ Issue(row, next, verdict).retired = IF verdict = "current" THEN now
                                                  ELSE row.retired
  BY DEF Issue, Device

LEMMA InitTypes == Init => TypeOK
  <1> SUFFICES ASSUME Init
               PROVE  TypeOK
    OBVIOUS
  <1>1. Offline \in ClientFields
    BY DEF Offline, ClientFields, Cookie
  <1>2. history \in History
    BY DEF Init, History
  <1>3. calls \in Seq(Call)
    BY DEF Init
  <1>4. now \in Nat /\ sessions \subseteq Session /\ claims \subseteq Session
        /\ client \in ClientFields /\ late \subseteq Cred
        /\ DOMAIN bindings \subseteq Session
        /\ bindings \in [DOMAIN bindings -> [family : Family, at : Nat]]
    BY <1>1 DEF Init
  <1>5. /\ DOMAIN devices \subseteq Family /\ devices \in [DOMAIN devices -> Device]
        /\ disk \in Cred \cup {NoCred}
        /\ drawn \subseteq Family \cup Secret \cup Session
    <2>1. CASE devices = [f \in {} |-> f] /\ disk = NoCred /\ drawn = {}
      BY <2>1
    <2>2. CASE \E f \in Family, secret \in Secret :
                  /\ devices = [g \in {f} |-> NewDevice(secret)]
                  /\ disk = [id |-> f, secret |-> secret]
                  /\ drawn = {f, secret}
      <3>1. PICK f \in Family, secret \in Secret :
                  /\ devices = [g \in {f} |-> NewDevice(secret)]
                  /\ disk = [id |-> f, secret |-> secret]
                  /\ drawn = {f, secret}
        BY <2>2
      <3>2. NewDevice(secret) \in Device
        BY <1>4, DeviceAssumption DEF NewDevice, Device
      <3> QED
        BY <3>1, <3>2 DEF Cred
    <2> QED
      BY <2>1, <2>2 DEF Init
  <1> QED
    BY <1>2, <1>3, <1>4, <1>5 DEF TypeOK

\* What the steps of the client leave typed.
ClientTypes ==
    /\ client' \in ClientFields /\ calls' \in Seq(Call)
    /\ disk' \in Cred \cup {NoCred} /\ late' \subseteq Cred
    /\ history' \in History

\* What the steps of the edge leave typed.
EdgeTypes ==
    /\ DOMAIN devices' \subseteq Family /\ devices' \in [DOMAIN devices' -> Device]
    /\ DOMAIN bindings' \subseteq Session
    /\ bindings' \in [DOMAIN bindings' -> [family : Family, at : Nat]]
    /\ sessions' \subseteq Session /\ claims' \subseteq Session
    /\ calls' \in Seq(Call)
    /\ drawn' \subseteq Family \cup Secret \cup Session
    /\ history' \in History

LEMMA FinishTypes ==
    ASSUME TypeOK, NEW i \in 1..Len(calls),
           FinishRedeem(i) \/ FinishClaim(i) \/ FinishLogout(i) \/ FinishBootstrap(i)
    PROVE  ClientTypes
  <1> DEFINE others == Settled([calls EXCEPT ![i].waiting = FALSE], i)
             answer == calls[i].answer
  <1> USE DEF TypeOK
  <1>1. others \in Seq(Call)
    BY FinishMoved DEF Moved
  <1>2. answer.cred \in Cred \cup {NoCred} /\ answer.session \in Session \cup {NoCookie}
    BY AnswerTypes
  <1>3. CASE FinishRedeem(i)
    <2> DEFINE c == [client EXCEPT !.redeeming = FALSE]
    <2>1. c \in ClientFields
      BY DEF ClientFields
    <2>2. CASE /\ Save([Signed(c, answer.cred, answer.session) EXCEPT !.spent = TRUE],
                       answer.cred)
               /\ calls' = others
               /\ history' = [history EXCEPT !.bought = answer.session]
      <3>0. PICK d : d = [Signed(c, answer.cred, answer.session) EXCEPT !.spent = TRUE]
        OBVIOUS
      <3>1. d \in ClientFields
        <4> HIDE DEF c, answer
        <4>2. TRUE \in BOOLEAN
          OBVIOUS
        <4>3. SignedAs([Signed(c, answer.cred, answer.session) EXCEPT !.spent = TRUE],
                       c, answer.cred, TRUE)
          BY <1>2, <2>1, <4>2, SignedIsClient, Zenon
        <4> QED
          BY <2>1, <3>0, <4>3 DEF SignedAs
      <3>2. history' \in History
        BY <1>2, <2>2 DEF History
      <3>3. client' \in ClientFields /\ disk' \in Cred \cup {NoCred} /\ late' \subseteq Cred
        <4>1. Save(d, answer.cred)
          BY <2>2, <3>0
        <4> QED
          BY <1>2, <3>1, <4>1, SaveEffect
      <3> QED
        BY <1>1, <2>2, <3>2, <3>3 DEF ClientTypes
    <2>3. CASE \E d \in {[c EXCEPT !.held = NoCred], [c EXCEPT !.hold = TRUE], c} :
                  /\ FallBack(d, others)
                  /\ disk' \in {NoCred, disk} /\ UNCHANGED <<late, history>>
      <3>1. PICK d \in {[c EXCEPT !.held = NoCred], [c EXCEPT !.hold = TRUE], c} :
                  /\ FallBack(d, others)
                  /\ disk' \in {NoCred, disk} /\ UNCHANGED <<late, history>>
        BY <2>3
      <3>2. d \in ClientFields
        <4>1. CASE d = [c EXCEPT !.held = NoCred]
          BY <2>1, <4>1 DEF ClientFields
        <4>2. CASE d = [c EXCEPT !.hold = TRUE]
          BY <2>1, <4>2 DEF ClientFields
        <4> QED
          BY <2>1, <3>1, <4>1, <4>2
      <3>3. Opened(d, others)
        BY <1>1, <3>1, <3>2, FallBackEffect
      <3> QED
        BY <3>1, <3>3 DEF Opened, ClientTypes
    <2> QED
      BY <1>3, <2>2, <2>3 DEF FinishRedeem
  <1>4. CASE FinishClaim(i)
    <2> DEFINE c == [client EXCEPT !.login = FALSE]
    <2>1. c \in ClientFields /\ c.spent \in BOOLEAN
      BY DEF ClientFields
    <2>2. CASE /\ Save([Signed(c, answer.cred, answer.session) EXCEPT
                            !.spent = c.spent \/ answer.cred # NoCred], answer.cred)
               /\ history' = [history EXCEPT
                                !.bought = IF answer.cred # NoCred THEN answer.session ELSE @]
      <3> DEFINE spent == c.spent \/ answer.cred # NoCred
      <3>0. PICK d : d = [Signed(c, answer.cred, answer.session) EXCEPT !.spent = spent]
        OBVIOUS
      <3>1. d \in ClientFields
        <4>1. spent \in BOOLEAN
          OBVIOUS
        <4> HIDE DEF c, answer, spent
        <4>2. TRUE \in BOOLEAN
          OBVIOUS
        <4>3. SignedAs([Signed(c, answer.cred, answer.session) EXCEPT !.spent = spent],
                       c, answer.cred, spent)
          BY <1>2, <2>1, <4>1, <4>2, SignedIsClient, Zenon
        <4> QED
          BY <2>1, <3>0, <4>3 DEF SignedAs
      <3>2. history' \in History
        BY <1>2, <2>2 DEF History
      <3>3. client' \in ClientFields /\ disk' \in Cred \cup {NoCred} /\ late' \subseteq Cred
        <4>1. Save(d, answer.cred)
          BY <2>2, <3>0
        <4> QED
          BY <1>2, <3>1, <4>1, SaveEffect
      <3>4. calls' = others
        BY <1>4 DEF FinishClaim
      <3> QED
        BY <1>1, <3>2, <3>3, <3>4 DEF ClientTypes
    <2>3. CASE client' = c /\ UNCHANGED <<disk, late, history>>
      <3>1. calls' = others
        BY <1>4 DEF FinishClaim
      <3> QED
        BY <1>1, <2>1, <2>3, <3>1 DEF ClientTypes
    <2> QED
      BY <1>4, <2>2, <2>3 DEF FinishClaim
  <1>5. CASE FinishLogout(i)
    <2> DEFINE c == [client EXCEPT !.cookie = NoCookie, !.config = NoCookie]
    <2>1. c \in ClientFields
      BY DEF ClientFields, Cookie
    <2>2. OpenSession(c, others) /\ UNCHANGED <<disk, late, history>>
      BY <1>5 DEF FinishLogout
    <2> HIDE DEF c, others
    <2>3. Opened(c, others)
      BY <1>1, <2>1, <2>2, OpenSessionEffect
    <2> QED
      BY <2>2, <2>3 DEF Opened, ClientTypes
  <1>6. CASE FinishBootstrap(i)
    <2>1. PICK cookie \in {Anon, NoCookie} :
              client' = ConnectToEdge([client EXCEPT !.cookie = cookie])
      BY <1>6 DEF FinishBootstrap
    <2>2. client' \in ClientFields
      BY <2>1 DEF ConnectToEdge, ClientFields, Cookie
    <2> QED
      BY <1>1, <1>6, <2>2 DEF FinishBootstrap, ClientTypes
  <1> QED
    BY <1>3, <1>4, <1>5, <1>6

LEMMA EdgeStepTypes ==
    ASSUME TypeOK, NEW i \in 1..Len(calls),
           \/ RedeemGranted(i) \/ RedeemUnmapped(i) \/ RedeemRefused(i)
           \/ RedeemTooMany(i) \/ RedeemStoreDown(i) \/ Claim(i)
           \/ Logout(i) \/ Bootstrap(i)
    PROVE  EdgeTypes
  <1> USE DEF TypeOK
  <1>0. ASSUME NEW status, NEW session, NEW cred,
               [status |-> status, session |-> session, cred |-> cred] \in Answer
        PROVE  Replied(i, status, session, cred) \in Seq(Call)
    <2>1. calls \in Seq(Call)
      OBVIOUS
    <2>2. Moved(calls, Replied(i, status, session, cred), {}, {i},
                [status |-> status, session |-> session, cred |-> cred])
      BY <1>0, <2>1, RepliedMoved, Zenon
    <2> QED
      BY <2>2 DEF Moved
  <1>01. /\ Replied(i, 200, NoCookie, NoCred) \in Seq(Call)
         /\ Replied(i, 404, NoCookie, NoCred) \in Seq(Call)
         /\ Replied(i, 429, NoCookie, NoCred) \in Seq(Call)
    <2>1. \A status \in {200, 404, 429} :
              [status |-> status, session |-> NoCookie, cred |-> NoCred] \in Answer
      BY DEF Answer
    <2> QED
      BY <1>0, <2>1
  <1>1. ASSUME RedeemGranted(i) \/ RedeemUnmapped(i)
        PROVE  EdgeTypes
    <2> DEFINE cred == calls[i].cred
               row  == devices[cred.id]
               verdict == Verdict(row, cred.secret)
    <2>1. PICK next \in Secret \ drawn :
              /\ cred.id \in DOMAIN devices
              /\ devices' = [devices EXCEPT ![cred.id] = Issue(row, next, verdict)]
              /\ \/ /\ RedeemUnmapped(i)
                    /\ drawn' = drawn \cup {next}
                    /\ history' = [history EXCEPT
                           !.retired = FirstRetired(row.cur, verdict)]
                    /\ calls' = Replied(i, 404, NoCookie, NoCred)
                    /\ UNCHANGED <<bindings, sessions, claims>>
                 \/ \E s \in Session \ drawn :
                    /\ sessions' = sessions \cup {s}
                    /\ bindings' = Put(bindings, s, [family |-> cred.id, at |-> now])
                    /\ calls' = Replied(i, 200, s, [id |-> cred.id, secret |-> next])
                    /\ drawn' = drawn \cup {next, s}
                    /\ history' = [history EXCEPT
                           !.lineage = [@ EXCEPT ![s] = cred.id],
                           !.retired = FirstRetired(row.cur, verdict)]
                    /\ UNCHANGED claims
      BY <1>1 DEF RedeemGranted, RedeemUnmapped
    <2>2. cred.id \in Family /\ row \in Device /\ row.cur \in Secret
      BY <2>1 DEF Device
    <2>3. Issue(row, next, verdict) \in Device
      BY <2>2, IssueTypes
    <2> HIDE DEF cred, row, verdict
    <2>4. DOMAIN devices' \subseteq Family /\ devices' \in [DOMAIN devices' -> Device]
      BY <2>1, <2>3
    <2>5. CASE RedeemUnmapped(i) /\ UNCHANGED <<bindings, sessions, claims>>
               /\ drawn' = drawn \cup {next}
               /\ history' = [history EXCEPT
                           !.retired = FirstRetired(row.cur, verdict)]
               /\ calls' = Replied(i, 404, NoCookie, NoCred)
      <3>1. calls' \in Seq(Call)
        BY <1>01, <2>5
      <3>2. history' \in History
        <4>1. FirstRetired(row.cur, verdict) \in [Secret -> Int]
          BY <2>2 DEF History, FirstRetired
        <4> QED
          BY <2>5, <4>1 DEF History
      <3> QED
        BY <2>4, <2>5, <3>1, <3>2 DEF EdgeTypes
    <2>6. CASE \E s \in Session \ drawn :
                    /\ sessions' = sessions \cup {s}
                    /\ bindings' = Put(bindings, s, [family |-> cred.id, at |-> now])
                    /\ calls' = Replied(i, 200, s, [id |-> cred.id, secret |-> next])
                    /\ drawn' = drawn \cup {next, s}
                    /\ history' = [history EXCEPT
                           !.lineage = [@ EXCEPT ![s] = cred.id],
                           !.retired = FirstRetired(row.cur, verdict)]
                    /\ UNCHANGED claims
      <3>1. PICK s \in Session \ drawn :
                    /\ sessions' = sessions \cup {s}
                    /\ bindings' = Put(bindings, s, [family |-> cred.id, at |-> now])
                    /\ calls' = Replied(i, 200, s, [id |-> cred.id, secret |-> next])
                    /\ drawn' = drawn \cup {next, s}
                    /\ history' = [history EXCEPT
                           !.lineage = [@ EXCEPT ![s] = cred.id],
                           !.retired = FirstRetired(row.cur, verdict)]
                    /\ UNCHANGED claims
        BY <2>6
      <3>2. [status |-> 200, session |-> s, cred |-> [id |-> cred.id, secret |-> next]] \in Answer
        BY <2>2 DEF Answer, Cred
      <3>3. calls' \in Seq(Call)
        BY <1>0, <3>1, <3>2
      <3>4. history' \in History
        <4>1. FirstRetired(row.cur, verdict) \in [Secret -> Int]
          BY <2>2 DEF History, FirstRetired
        <4>2. [history.lineage EXCEPT ![s] = cred.id] \in [Session -> Family \cup {NoCred}]
          BY <2>2 DEF History
        <4> QED
          BY <3>1, <4>1, <4>2 DEF History
      <3>5. /\ DOMAIN bindings' \subseteq Session
            /\ bindings' \in [DOMAIN bindings' -> [family : Family, at : Nat]]
        BY <2>2, <3>1 DEF Put
      <3> QED
        BY <2>4, <3>1, <3>3, <3>4, <3>5 DEF EdgeTypes
    <2> QED
      BY <2>1, <2>5, <2>6
  <1>2. ASSUME RedeemRefused(i)
        PROVE  EdgeTypes
    <2>1. calls' \in Seq(Call)
      BY <1>01, <1>2 DEF RedeemRefused
    <2>2. history' \in History
      <3>1. history' = history \/ \E f \in DOMAIN devices :
                                     history' = [history EXCEPT !.reused = @ \cup {f}]
        BY <1>2 DEF RedeemRefused
      <3> QED
        BY <3>1 DEF History
    <2>3. /\ DOMAIN devices' \subseteq Family /\ devices' \in [DOMAIN devices' -> Device]
          /\ DOMAIN bindings' \subseteq Session
          /\ bindings' \in [DOMAIN bindings' -> [family : Family, at : Nat]]
          /\ sessions' \subseteq Session
      BY <1>2 DEF RedeemRefused, Without
    <2>4. UNCHANGED <<claims, drawn>>
      BY <1>2 DEF RedeemRefused
    <2> QED
      BY <2>1, <2>2, <2>3, <2>4 DEF EdgeTypes
  <1>3. ASSUME RedeemTooMany(i) \/ RedeemStoreDown(i) \/ Bootstrap(i)
        PROVE  EdgeTypes
    <2>1. UNCHANGED <<edge, drawn, history>>
          /\ \E status \in {200, 404, 429} : calls' = Replied(i, status, NoCookie, NoCred)
      BY <1>3 DEF RedeemTooMany, RedeemStoreDown, Bootstrap
    <2>2. calls' \in Seq(Call)
      BY <1>01, <2>1
    <2> QED
      BY <2>1, <2>2 DEF EdgeTypes, edge
  <1>4. ASSUME Claim(i)
        PROVE  EdgeTypes
    <2> DEFINE s == calls[i].cookie
    <2>1. claims' = claims \ {s} /\ UNCHANGED sessions
      BY <1>4 DEF Claim
    <2>2. CASE /\ \/ calls' = Replied(i, 404, NoCookie, NoCred)
                  \/ s \in claims /\ calls' = Replied(i, 200, s, NoCred)
               /\ UNCHANGED <<devices, bindings, drawn, history>>
      <3>1. calls' \in Seq(Call)
        <4>1. CASE s \in claims /\ calls' = Replied(i, 200, s, NoCred)
          <5>1. [status |-> 200, session |-> s, cred |-> NoCred] \in Answer
            BY <4>1 DEF Answer
          <5> QED
            BY <1>0, <4>1, <5>1
        <4> QED
          BY <1>01, <2>2, <4>1
      <3> QED
        BY <2>1, <2>2, <3>1 DEF EdgeTypes
    <2>3. CASE /\ s \in claims
               /\ \E f \in Family \ drawn, secret \in Secret \ drawn :
                   LET rows == Purged(devices)
                   IN  /\ devices' = Put(rows, f, NewDevice(secret))
                       /\ bindings' = Put(PurgedBindings(rows), s, [family |-> f, at |-> now])
                       /\ drawn' = drawn \cup {f, secret}
                       /\ calls' = Replied(i, 200, s, [id |-> f, secret |-> secret])
                       /\ history' = [history EXCEPT !.lineage[s] = f]
      <3> DEFINE rows == Purged(devices)
                 bound == PurgedBindings(rows)
      <3>1. PICK f \in Family \ drawn, secret \in Secret \ drawn :
                       /\ devices' = Put(rows, f, NewDevice(secret))
                       /\ bindings' = Put(bound, s, [family |-> f, at |-> now])
                       /\ drawn' = drawn \cup {f, secret}
                       /\ calls' = Replied(i, 200, s, [id |-> f, secret |-> secret])
                       /\ history' = [history EXCEPT !.lineage[s] = f]
        BY <2>3
      <3>2. NewDevice(secret) \in Device
        BY DeviceAssumption DEF NewDevice, Device
      <3>3. /\ DOMAIN rows \subseteq Family /\ rows \in [DOMAIN rows -> Device]
            /\ DOMAIN bound \subseteq Session
            /\ bound \in [DOMAIN bound -> [family : Family, at : Nat]]
        BY PurgeTypes
      <3> HIDE DEF rows, bound
      <3>4. s \in Session
            /\ [status |-> 200, session |-> s, cred |-> [id |-> f, secret |-> secret]] \in Answer
        BY <2>3 DEF Answer, Cred
      <3> HIDE DEF s
      <3>5. calls' \in Seq(Call)
        BY <1>0, <3>1, <3>4
      <3>6. /\ DOMAIN devices' \subseteq Family /\ devices' \in [DOMAIN devices' -> Device]
            /\ DOMAIN bindings' \subseteq Session
            /\ bindings' \in [DOMAIN bindings' -> [family : Family, at : Nat]]
        BY <3>1, <3>2, <3>3, <3>4 DEF Put
      <3>7. history' \in History
        BY <3>1, <3>4 DEF History
      <3> QED
        BY <2>1, <3>1, <3>5, <3>6, <3>7 DEF EdgeTypes
    <2> QED
      BY <1>4, <2>2, <2>3 DEF Claim
  <1>5. ASSUME Logout(i)
        PROVE  EdgeTypes
    <2>1. calls' \in Seq(Call)
      BY <1>01, <1>5 DEF Logout
    <2>2. /\ \/ devices' = devices
             \/ \E S : devices' = Without(devices, S)
          /\ \/ bindings' = bindings
             \/ \E S : bindings' = Without(bindings, S)
          /\ sessions' \subseteq sessions
          /\ UNCHANGED <<claims, drawn, history>>
      BY <1>5 DEF Logout
    <2> QED
      BY <2>1, <2>2 DEF EdgeTypes, Without
  <1> QED
    BY <1>1, <1>2, <1>3, <1>4, <1>5

\* Every step keeps the types.
LEMMA NextTypes == TypeOK /\ [Next]_vars => TypeOK'
  <1> SUFFICES ASSUME TypeOK, [Next]_vars
               PROVE  TypeOK'
    OBVIOUS
  <1>1. ASSUME UNCHANGED <<now, edge, drawn>>, ClientTypes
        PROVE  TypeOK'
    BY <1>1 DEF TypeOK, edge, ClientTypes
  <1>2. ASSUME UNCHANGED <<now, client, disk, late>>, EdgeTypes
        PROVE  TypeOK'
    BY <1>2 DEF TypeOK, EdgeTypes
  <1> USE DEF TypeOK
  <1>3. CASE Launch \/ ReconnectTimer
    <2> DEFINE c == [client EXCEPT !.timer = FALSE]
    <2>1. c \in ClientFields
      BY DEF ClientFields
    <2>2. PICK d \in {client, c} : OpenSession(d, calls)
      BY <1>3 DEF Launch, ReconnectTimer
    <2>3. d \in ClientFields
      BY <2>1
    <2>4. Opened(d, calls)
      BY <2>2, <2>3, OpenSessionEffect
    <2>5. ClientTypes
      BY <1>3, <2>4 DEF Opened, ClientTypes, Launch, ReconnectTimer
    <2> QED
      BY <1>1, <1>3, <2>5 DEF Launch, ReconnectTimer
  <1>4. CASE SocketAccepted \/ SocketLost \/ HandshakeTimeout \/ HoldOver \/ BeginLogin
    <2>1. client' \in ClientFields
      <3>1. CASE SocketAccepted
        BY <3>1 DEF SocketAccepted, ClientFields
      <3>2. CASE SocketLost
        BY <3>2 DEF SocketLost, OnDisconnected, ClientFields
      <3>3. CASE HandshakeTimeout
        BY <3>3 DEF HandshakeTimeout, OnDisconnected, ClientFields
      <3>4. CASE HoldOver
        BY <3>4 DEF HoldOver, ClientFields
      <3>5. CASE BeginLogin
        BY <3>5 DEF BeginLogin, ClientFields
      <3> QED
        BY <1>4, <3>1, <3>2, <3>3, <3>4, <3>5
    <2>2. history' \in History
      BY <1>4 DEF SocketAccepted, SocketLost, HandshakeTimeout, HoldOver, BeginLogin, History
    <2> QED
      BY <1>1, <1>4, <2>1, <2>2 DEF SocketAccepted, SocketLost, HandshakeTimeout, HoldOver,
                  BeginLogin, ClientTypes
  <1>5. CASE LateWrite
    BY <1>1, <1>5 DEF LateWrite, ClientTypes
  <1>6. CASE Finish
    <2>1. PICK i \in 1..Len(calls) : FinishRedeem(i) \/ FinishClaim(i) \/ FinishLogout(i)
                                     \/ FinishBootstrap(i)
      BY <1>6 DEF Finish
    <2>2. ClientTypes
      BY <2>1, FinishTypes
    <2> QED
      BY <1>1, <2>1, <2>2 DEF FinishRedeem, FinishClaim, FinishLogout, FinishBootstrap
  <1>7. CASE EdgeStep
    <2>1. PICK i \in 1..Len(calls) :
                 \/ RedeemGranted(i) \/ RedeemUnmapped(i) \/ RedeemRefused(i)
                 \/ RedeemTooMany(i) \/ RedeemStoreDown(i) \/ Claim(i)
                 \/ Logout(i) \/ Bootstrap(i)
      BY <1>7 DEF EdgeStep
    <2>2. EdgeTypes
      BY <2>1, EdgeStepTypes
    <2>3. UNCHANGED <<now, client, disk, late>>
      BY <2>1 DEF RedeemGranted, RedeemUnmapped, RedeemRefused, RedeemTooMany,
                RedeemStoreDown, Claim, Logout, Bootstrap
    <2> QED
      BY <1>2, <2>2, <2>3
  <1>8. CASE LoginAnswer
    <2>1. PICK s \in Session \ drawn :
             /\ sessions' = sessions \cup {s}
             /\ claims' = claims \cup {s}
             /\ drawn' = drawn \cup {s}
             /\ calls' = Append(calls, Request("claim", NoCred, s))
      BY <1>8 DEF LoginAnswer
    <2>2. Request("claim", NoCred, s) \in Call
      BY RequestIsCall DEF Cookie
    <2>3. calls' \in Seq(Call)
      BY <2>1, <2>2
    <2> QED
      BY <1>2, <1>8, <2>1, <2>3 DEF LoginAnswer, EdgeTypes
  <1>9. CASE EndSession
    <2>1. client' \in ClientFields /\ client.cookie \in Cookie
      BY <1>9 DEF EndSession, ClientFields
    <2>2. Request("logout", NoCred, client.cookie) \in Call
      BY <2>1, RequestIsCall
    <2>3. calls' \in Seq(Call)
      BY <1>9, <2>2 DEF EndSession
    <2> QED
      BY <1>1, <1>9, <2>1, <2>3 DEF EndSession, ClientTypes
  <1>10. CASE Crash
    <2>1. client' \in ClientFields
      BY <1>10 DEF Crash, Offline, ClientFields, Cookie
    <2>2. calls' \in Seq(Call)
      BY <1>10, CrashMoved DEF Crash, Moved
    <2>3. history' \in History
      BY <1>10 DEF Crash, History
    <2> QED
      BY <1>1, <1>10, <2>1, <2>2, <2>3 DEF Crash, ClientTypes
  <1>11. CASE RequestLost
    <2>1. PICK i \in 1..Len(calls) : calls' = RemoveAt(calls, i)
      BY <1>11 DEF RequestLost
    <2>2. calls' \in Seq(Call)
      BY <2>1, RemoveAtEmbeds
    <2> QED
      BY <1>1, <1>11, <2>2 DEF RequestLost, ClientTypes
  <1>12. CASE Rotate
    <2> DEFINE s == client.live
    <2>1. PICK to \in Session \ drawn :
              /\ sessions' = (sessions \ {s}) \cup {to}
              /\ drawn' = drawn \cup {to}
              /\ client' = [client EXCEPT !.live = to]
              /\ history' = [history EXCEPT !.lineage[to] = history.lineage[s]]
              /\ \/ bindings' = bindings
                 \/ /\ s \in DOMAIN bindings
                    /\ bindings' = Put(Without(bindings, {s}), to,
                                       [family |-> bindings[s].family, at |-> now])
      BY <1>12 DEF Rotate
    <2>2. s \in Session
      BY <1>12 DEF Rotate
    <2>3. client' \in ClientFields
      BY <2>1 DEF ClientFields, Cookie
    <2>4. history' \in History
      BY <2>1, <2>2 DEF History
    <2> HIDE DEF s
    <2>5. /\ DOMAIN bindings' \subseteq Session
          /\ bindings' \in [DOMAIN bindings' -> [family : Family, at : Nat]]
      <3>1. ASSUME s \in DOMAIN bindings
            PROVE  [family |-> bindings[s].family, at |-> now] \in [family : Family, at : Nat]
        BY <3>1
      <3> QED
        BY <2>1, <3>1 DEF Put, Without
    <2> QED
      BY <1>12, <2>1, <2>3, <2>4, <2>5 DEF Rotate
  <1>13. CASE SessionExpired
    <2>1. /\ sessions' \subseteq Session
          /\ bindings' = bindings \/ \E S : bindings' = Without(bindings, S)
      BY <1>13 DEF SessionExpired
    <2> QED
      BY <1>13, <2>1 DEF SessionExpired, Without
  <1>14. CASE EdgeRestart
    <2>1. /\ DOMAIN devices' \subseteq Family /\ devices' \in [DOMAIN devices' -> Device]
          /\ DOMAIN bindings' \subseteq Session
          /\ bindings' \in [DOMAIN bindings' -> [family : Family, at : Nat]]
      BY <1>14, PurgeTypes DEF EdgeRestart
    <2> QED
      BY <1>14, <2>1 DEF EdgeRestart
  <1>15. CASE Tick
    BY <1>15 DEF Tick, edge
  <1>16. CASE UNCHANGED vars
    BY <1>16 DEF vars
  <1> QED
    BY <1>3, <1>4, <1>5, <1>6, <1>7, <1>8, <1>9, <1>10, <1>11, <1>12, <1>13, <1>14, <1>15,
       <1>16 DEF Next

\* The variables always have their types, whatever happens to the client, the network,
\* the secure store and the edge.
THEOREM TypeCorrectness == Spec => []TypeOK
  <1> QED
    BY InitTypes, NextTypes, PTL DEF Spec

(***************************************************************************)
(* What is awaited.                                                        *)
(***************************************************************************)
Waits(cs, kinds) == \E i \in 1..Len(cs) : cs[i].waiting /\ cs[i].kind \in kinds
Single(cs) ==
    \A i, j \in 1..Len(cs) : /\ cs[i].waiting /\ cs[i].kind = "redeem"
                             /\ cs[j].waiting /\ cs[j].kind = "redeem"
                             => i = j

\* A move loses no call that is awaited, except those the client gave up.
LEMMA MovedWaits ==
    ASSUME NEW cs \in Seq(Call), NEW ds, NEW gone, NEW handled, NEW answer,
           Moved(cs, ds, gone, handled, answer), NEW kinds
    PROVE  /\ ds \in Seq(Call)
           /\ Single(cs) => Single(ds)
           /\ Waits(ds, kinds) <=> \E i \in 1..Len(cs) : /\ cs[i].waiting
                                                        /\ cs[i].kind \in kinds
                                                        /\ i \notin gone
  <1>1. PICK g : MovedBy(g, cs, ds, gone, handled, answer)
    BY DEF Moved
  <1>2. ds \in Seq(Call)
    BY DEF Moved
  <1>3. ASSUME Single(cs)
        PROVE  Single(ds)
    <2> SUFFICES ASSUME NEW i \in 1..Len(ds), NEW j \in 1..Len(ds),
                        ds[i].waiting, ds[i].kind = "redeem",
                        ds[j].waiting, ds[j].kind = "redeem"
                 PROVE  i = j
      BY DEF Single
    <2>1. /\ g[i] \in 1..Len(cs) /\ g[j] \in 1..Len(cs)
          /\ cs[g[i]].waiting /\ cs[g[i]].kind = "redeem"
          /\ cs[g[j]].waiting /\ cs[g[j]].kind = "redeem"
      BY <1>1 DEF MovedBy, Kept
    <2>2. g[i] = g[j]
      BY <1>3, <2>1 DEF Single
    <2>3. i \in Int /\ j \in Int /\ g[i] \in Int
      BY <1>1 DEF MovedBy
    <2>4. ~(i < j) /\ ~(j < i)
      BY <1>1, <2>2, <2>3 DEF MovedBy
    <2> QED
      BY <2>3, <2>4
  <1>4. ASSUME NEW i \in 1..Len(ds), ds[i].waiting, ds[i].kind \in kinds
        PROVE  \E k \in 1..Len(cs) : cs[k].waiting /\ cs[k].kind \in kinds /\ k \notin gone
    <2>1. /\ g[i] \in 1..Len(cs) /\ cs[g[i]].waiting
          /\ cs[g[i]].kind = ds[i].kind /\ g[i] \notin gone
      BY <1>1, <1>4 DEF MovedBy, Kept
    <2> QED
      BY <1>4, <2>1
  <1>5. ASSUME NEW k \in 1..Len(cs), cs[k].waiting, cs[k].kind \in kinds, k \notin gone
        PROVE  Waits(ds, kinds)
    <2>1. PICK j \in 1..Len(ds) : g[j] = k
      BY <1>1, <1>5 DEF MovedBy
    <2>2. ds[j].waiting /\ ds[j].kind = cs[k].kind
      BY <1>1, <1>5, <2>1 DEF MovedBy, Kept
    <2> QED
      BY <1>5, <2>2 DEF Waits
  <1> QED
    BY <1>2, <1>3, <1>4, <1>5 DEF Waits

\* A new request is awaited, like everything awaited before.
LEMMA AppendWaits ==
    ASSUME NEW cs \in Seq(Call), NEW r \in Call, r.waiting, NEW kinds
    PROVE  /\ Waits(Append(cs, r), kinds) <=> Waits(cs, kinds) \/ r.kind \in kinds
           /\ Single(cs) /\ (r.kind = "redeem" => ~Waits(cs, {"redeem"}))
              => Single(Append(cs, r))
  <1> DEFINE ds == Append(cs, r)
             n  == Len(cs) + 1
  <1>1. /\ Len(ds) = n /\ n \in Nat /\ n \in 1..n /\ ds[n] = r
        /\ \A i \in 1..n : i = n \/ i \in 1..Len(cs)
        /\ \A i \in 1..Len(cs) : i \in 1..n /\ i # n /\ ds[i] = cs[i]
    OBVIOUS
  <1> HIDE DEF ds, n
  <1>2. Waits(ds, kinds) <=> Waits(cs, kinds) \/ r.kind \in kinds
    BY <1>1 DEF Waits
  <1>3. ASSUME Single(cs), r.kind = "redeem" => ~Waits(cs, {"redeem"})
        PROVE  Single(ds)
    BY <1>1, <1>3 DEF Single, Waits
  <1> QED
    BY <1>2, <1>3 DEF ds

\* The requests the client makes are awaited.
LEMMA RequestWaits ==
    ASSUME NEW kind, NEW cred, NEW cookie
    PROVE  /\ Request(kind, cred, cookie).waiting
           /\ Request(kind, cred, cookie).sent
           /\ Request(kind, cred, cookie).kind = kind
           /\ Request(kind, cred, cookie).cred = cred
           /\ Request(kind, cred, cookie).cookie = cookie
           /\ Request(kind, cred, cookie).answer = NoAnswer
  BY DEF Request

Connecting == {"redeem", "logout", "bootstrap"}

\* openSession keeps both invariants of what is awaited.
LEMMA OpenedWaits ==
    ASSUME client \in ClientFields, NEW c \in ClientFields, NEW others \in Seq(Call),
           disk \in Cred \cup {NoCred},
           Opened(c, others), Single(others), c.redeeming <=> Waits(others, {"redeem"})
    PROVE  /\ Single(calls')
           /\ client'.redeeming <=> Waits(calls', {"redeem"})
           /\ client'.socket # "none" \/ Waits(calls', Connecting)
           /\ client'.redeeming /\ ~c.redeeming => ~c.spent
  <1>1. CASE calls' = others /\ client'.socket # "none" /\ client'.redeeming = c.redeeming
    BY <1>1
  <1>2. CASE /\ calls' = Append(others, Request("bootstrap", NoCred, NoCookie))
             /\ client'.redeeming = c.redeeming
    <2> DEFINE r == Request("bootstrap", NoCred, NoCookie)
    <2>1. r \in Call /\ r.waiting /\ r.kind = "bootstrap"
      <3>1. r \in Call
        BY RequestIsCall DEF Cookie
      <3> QED
        BY <3>1, RequestWaits
    <2> HIDE DEF r
    <2>2. /\ Waits(Append(others, r), {"redeem"}) <=>
                Waits(others, {"redeem"}) \/ r.kind \in {"redeem"}
          /\ Single(Append(others, r))
      BY <2>1, AppendWaits
    <2>3. Waits(Append(others, r), Connecting) <=>
                Waits(others, Connecting) \/ r.kind \in Connecting
      BY <2>1, AppendWaits
    <2> QED
      BY <1>2, <2>1, <2>2, <2>3 DEF r, Connecting
  <1>3. CASE /\ calls' = Append(others, Request("redeem", client'.held, NoCookie))
             /\ client'.held # NoCred /\ ~c.redeeming /\ ~c.spent /\ client'.redeeming
    <2>0. PICK h : h = client'.held
      OBVIOUS
    <2>1. h \in Cred \cup {NoCred}
      BY <2>0 DEF Opened, ClientFields
    <2> DEFINE r == Request("redeem", h, NoCookie)
    <2>2. r \in Call /\ r.waiting /\ r.kind = "redeem"
      BY <2>1, RequestIsCall, RequestWaits DEF Cookie
    <2>3. calls' = Append(others, r)
      BY <1>3, <2>0
    <2> HIDE DEF r
    <2>4. /\ Waits(Append(others, r), {"redeem"}) <=>
                Waits(others, {"redeem"}) \/ r.kind \in {"redeem"}
          /\ Single(Append(others, r))
      BY <1>3, <2>2, AppendWaits
    <2>5. Waits(Append(others, r), Connecting) <=>
                Waits(others, Connecting) \/ r.kind \in Connecting
      BY <2>2, AppendWaits
    <2> QED
      BY <1>3, <2>2, <2>3, <2>4, <2>5 DEF Connecting
  <1> QED
    BY <1>1, <1>2, <1>3 DEF Opened

\* Both invariants in these terms, before a step and after.
LEMMA WaitingForms ==
    /\ SpendingInv <=> /\ Single(calls)
                       /\ client.redeeming <=> Waits(calls, {"redeem"})
                       /\ history.bought # NoCookie => client.spent
    /\ ProgressInv <=> /\ client.state = "reconnecting" => client.timer
                       /\ client.state = "connecting" => client.socket # "none"
                                                         \/ Waits(calls, Connecting)
  BY DEF SpendingInv, ProgressInv, Waiting, Single, Waits, Connecting

LEMMA WaitingFormsNext ==
    /\ SpendingInv' <=> /\ Single(calls')
                        /\ client'.redeeming <=> Waits(calls', {"redeem"})
                        /\ history'.bought # NoCookie => client'.spent
    /\ ProgressInv' <=> /\ client'.state = "reconnecting" => client'.timer
                        /\ client'.state = "connecting" => client'.socket # "none"
                                                           \/ Waits(calls', Connecting)
  BY DEF SpendingInv, ProgressInv, Waiting, Single, Waits, Connecting

\* A step of the client that changes nothing it awaits.
LEMMA IdleKeepsWaiting ==
    ASSUME TypeOK, SpendingInv, ProgressInv,
           SocketAccepted \/ SocketLost \/ HandshakeTimeout \/ HoldOver \/ BeginLogin
    PROVE  SpendingInv' /\ ProgressInv' /\ client'.redeeming = client.redeeming
  <1> USE DEF TypeOK
  <1>1. calls' = calls
    BY DEF SocketAccepted, SocketLost, HandshakeTimeout, HoldOver, BeginLogin
  <1>2. /\ client'.redeeming = client.redeeming
        /\ history'.bought # NoCookie => client'.spent
        /\ client'.state = "reconnecting" => client'.timer
        /\ client'.state = "connecting" => client'.socket # "none" \/ Waits(calls, Connecting)
    <2>1. CASE SocketAccepted
      BY <2>1 DEF SocketAccepted, ClientFields, History
    <2>2. CASE SocketLost
      BY <2>2, WaitingForms DEF SocketLost, OnDisconnected, ClientFields
    <2>3. CASE HandshakeTimeout
      BY <2>3, WaitingForms DEF HandshakeTimeout, OnDisconnected, ClientFields
    <2>4. CASE HoldOver
      BY <2>4, WaitingForms DEF HoldOver, ClientFields
    <2>5. CASE BeginLogin
      BY <2>5, WaitingForms DEF BeginLogin, ClientFields
    <2> QED
      BY <2>1, <2>2, <2>3, <2>4, <2>5
  <1> QED
    BY <1>1, <1>2, WaitingForms, WaitingFormsNext

\* A launch, and a reconnection.
LEMMA OpenKeepsWaiting ==
    ASSUME TypeOK, SpendingInv, ProgressInv, Launch \/ ReconnectTimer
    PROVE  /\ SpendingInv' /\ ProgressInv'
           /\ client'.redeeming /\ ~client.redeeming => ~client.spent
  <1> USE DEF TypeOK
  <1>1. PICK d \in {client, [client EXCEPT !.timer = FALSE]} : OpenSession(d, calls)
    BY DEF Launch, ReconnectTimer
  <1>2. d \in ClientFields /\ d.redeeming = client.redeeming /\ d.spent = client.spent
    BY DEF ClientFields
  <1>3. Opened(d, calls)
    BY <1>1, <1>2, OpenSessionEffect
  <1>4. /\ Single(calls')
        /\ client'.redeeming <=> Waits(calls', {"redeem"})
        /\ client'.socket # "none" \/ Waits(calls', Connecting)
        /\ client'.redeeming /\ ~d.redeeming => ~d.spent
    BY <1>2, <1>3, OpenedWaits, WaitingForms
  <1>5. history' = history /\ client'.spent = d.spent /\ client'.state = "connecting"
    BY <1>3 DEF Launch, ReconnectTimer, Opened
  <1> QED
    BY <1>2, <1>4, <1>5, WaitingForms, WaitingFormsNext

\* An answer, or a timeout, that ends the client's wait for a call.
LEMMA FinishKeepsWaiting ==
    ASSUME TypeOK, SpendingInv, ProgressInv, NEW i \in 1..Len(calls),
           FinishRedeem(i) \/ FinishClaim(i) \/ FinishLogout(i) \/ FinishBootstrap(i)
    PROVE  /\ SpendingInv' /\ ProgressInv'
           /\ client'.redeeming /\ ~client.redeeming => ~client.spent
  <1> DEFINE others == Settled([calls EXCEPT ![i].waiting = FALSE], i)
             answer == calls[i].answer
  <1> USE DEF TypeOK
  <1>1. Moved(calls, others, {i}, {}, NoAnswer)
    BY FinishMoved
  <1> HIDE DEF others
  <1>2. others \in Seq(Call) /\ Single(others)
    BY <1>1, MovedWaits, WaitingForms
  <1>3. \A kinds : Waits(others, kinds) <=> \E k \in 1..Len(calls) :
                      calls[k].waiting /\ calls[k].kind \in kinds /\ k \notin {i}
    BY <1>1, MovedWaits
  <1>4. ASSUME calls[i].kind # "redeem"
        PROVE  client.redeeming <=> Waits(others, {"redeem"})
    BY <1>3, <1>4, WaitingForms DEF Waits
  <1>5. ASSUME calls[i].kind = "redeem", calls[i].waiting
        PROVE  client.redeeming /\ ~Waits(others, {"redeem"})
    <2>1. client.redeeming
      BY <1>3, <1>5, WaitingForms DEF Waits
    <2>2. ~Waits(others, {"redeem"})
      <3> SUFFICES ASSUME NEW k \in 1..Len(calls), calls[k].waiting,
                          calls[k].kind = "redeem", k # i
                   PROVE  FALSE
        BY <1>3
      <3>1. Single(calls) /\ i \in 1..Len(calls)
        BY WaitingForms
      <3> QED
        BY <1>5, <3>1 DEF Single
    <2> QED
      BY <2>1, <2>2
  <1>6. answer.cred \in Cred \cup {NoCred} /\ answer.session \in Session \cup {NoCookie}
    BY AnswerTypes
  <1>7. client.spent \in BOOLEAN /\ client.held \in Cred \cup {NoCred}
    BY DEF ClientFields
  <1>8. CASE FinishRedeem(i)
    <2> DEFINE c == [client EXCEPT !.redeeming = FALSE]
    <2>1. c \in ClientFields /\ c.redeeming = FALSE /\ c.spent = client.spent
      BY DEF ClientFields
    <2>2. client.redeeming /\ ~Waits(others, {"redeem"})
      BY <1>5, <1>8 DEF FinishRedeem
    <2>3. CASE /\ Save([Signed(c, answer.cred, answer.session) EXCEPT !.spent = TRUE],
                       answer.cred)
               /\ calls' = others
      <3>0. PICK d : d = [Signed(c, answer.cred, answer.session) EXCEPT !.spent = TRUE]
        OBVIOUS
      <3>1. d \in ClientFields /\ d.state = "connecting" /\ d.socket = "opening"
            /\ d.spent = TRUE /\ d.redeeming = FALSE
        <4> HIDE DEF c, answer
        <4>2. TRUE \in BOOLEAN
          OBVIOUS
        <4>3. SignedAs([Signed(c, answer.cred, answer.session) EXCEPT !.spent = TRUE],
                       c, answer.cred, TRUE)
          BY <1>6, <2>1, <4>2, SignedIsClient, Zenon
        <4> QED
          BY <2>1, <3>0, <4>3 DEF SignedAs
      <3>2. Save(d, answer.cred)
        BY <2>3, <3>0
      <3>3. client'.state = d.state /\ client'.socket = d.socket /\ client'.spent = d.spent
            /\ client'.redeeming = d.redeeming
        BY <1>6, <3>1, <3>2, SaveEffect
      <3> QED
        BY <1>2, <2>2, <2>3, <3>1, <3>3, WaitingFormsNext
    <2>4. CASE \E d \in {[c EXCEPT !.held = NoCred], [c EXCEPT !.hold = TRUE], c} :
                  FallBack(d, others) /\ history' = history
      <3>1. PICK d \in {[c EXCEPT !.held = NoCred], [c EXCEPT !.hold = TRUE], c} :
                  FallBack(d, others) /\ history' = history
        BY <2>4
      <3>2. d \in ClientFields /\ d.redeeming = FALSE /\ d.spent = client.spent
        <4>1. CASE d = [c EXCEPT !.held = NoCred]
          BY <2>1, <4>1 DEF ClientFields
        <4>2. CASE d = [c EXCEPT !.hold = TRUE]
          BY <2>1, <4>2 DEF ClientFields
        <4> QED
          BY <2>1, <3>1, <4>1, <4>2
      <3>3. Opened(d, others)
        BY <1>2, <3>1, <3>2, FallBackEffect
      <3>4. /\ Single(calls')
            /\ client'.redeeming <=> Waits(calls', {"redeem"})
            /\ client'.socket # "none" \/ Waits(calls', Connecting)
        BY <1>2, <2>2, <3>2, <3>3, OpenedWaits
      <3>5. client'.spent = d.spent /\ client'.state = "connecting"
        BY <3>3 DEF Opened
      <3> QED
        BY <2>2, <3>1, <3>2, <3>4, <3>5, WaitingForms, WaitingFormsNext
    <2> QED
      BY <1>8, <2>3, <2>4 DEF FinishRedeem, others
  <1>9. CASE FinishClaim(i)
    <2> DEFINE c == [client EXCEPT !.login = FALSE]
    <2>1. /\ c \in ClientFields /\ c.redeeming = client.redeeming /\ c.spent = client.spent
          /\ c.state = client.state /\ c.socket = client.socket /\ c.timer = client.timer
      BY DEF ClientFields
    <2>2. calls[i].kind = "claim" /\ calls' = others
      BY <1>9 DEF FinishClaim, others
    <2>3. client.redeeming <=> Waits(others, {"redeem"})
      BY <1>4, <2>2
    <2>4. CASE /\ Save([Signed(c, answer.cred, answer.session) EXCEPT
                            !.spent = c.spent \/ answer.cred # NoCred], answer.cred)
               /\ history' = [history EXCEPT
                                !.bought = IF answer.cred # NoCred THEN answer.session ELSE @]
      <3> DEFINE spent == c.spent \/ answer.cred # NoCred
      <3>0. PICK d : d = [Signed(c, answer.cred, answer.session) EXCEPT !.spent = spent]
        OBVIOUS
      <3>00. spent \in BOOLEAN
        OBVIOUS
      <3>1. d \in ClientFields /\ d.state = "connecting" /\ d.socket = "opening"
            /\ d.spent = spent /\ d.redeeming = c.redeeming
        <4> HIDE DEF spent, c, answer
        <4>2. TRUE \in BOOLEAN
          OBVIOUS
        <4>3. SignedAs([Signed(c, answer.cred, answer.session) EXCEPT !.spent = spent],
                       c, answer.cred, spent)
          BY <1>6, <2>1, <3>00, <4>2, SignedIsClient, Zenon
        <4> QED
          BY <2>1, <3>0, <4>3 DEF SignedAs
      <3>2. Save(d, answer.cred)
        BY <2>4, <3>0
      <3>3. client'.state = d.state /\ client'.socket = d.socket /\ client'.spent = d.spent
            /\ client'.redeeming = d.redeeming
        BY <1>6, <3>1, <3>2, SaveEffect
      <3>4. history'.bought # NoCookie => spent
        BY <2>1, <2>4, WaitingForms DEF History
      <3> QED
        BY <1>2, <2>1, <2>2, <2>3, <3>1, <3>3, <3>4, WaitingFormsNext
    <2>5. CASE client' = c /\ history' = history
      <3>1. Waits(calls, Connecting) => Waits(others, Connecting)
        BY <1>3, <2>2 DEF Waits, Connecting
      <3> HIDE DEF c
      <3> QED
        BY <1>2, <2>1, <2>2, <2>3, <2>5, <3>1, WaitingForms, WaitingFormsNext
    <2> QED
      BY <1>9, <2>4, <2>5 DEF FinishClaim
  <1>10. CASE FinishLogout(i)
    <2> DEFINE c == [client EXCEPT !.cookie = NoCookie, !.config = NoCookie]
    <2>1. c \in ClientFields /\ c.redeeming = client.redeeming /\ c.spent = client.spent
      BY DEF ClientFields, Cookie
    <2>2. OpenSession(c, others) /\ history' = history /\ calls[i].kind = "logout"
      BY <1>10 DEF FinishLogout, others
    <2> HIDE DEF c
    <2>3. Opened(c, others)
      BY <1>2, <2>1, <2>2, OpenSessionEffect
    <2>4. /\ Single(calls')
          /\ client'.redeeming <=> Waits(calls', {"redeem"})
          /\ client'.socket # "none" \/ Waits(calls', Connecting)
          /\ client'.redeeming /\ ~c.redeeming => ~c.spent
      BY <1>2, <1>4, <2>1, <2>2, <2>3, OpenedWaits
    <2>5. client'.spent = c.spent /\ client'.state = "connecting"
      BY <2>3 DEF Opened
    <2> QED
      BY <2>1, <2>2, <2>4, <2>5, WaitingForms, WaitingFormsNext
  <1>11. CASE FinishBootstrap(i)
    <2>1. PICK cookie \in {Anon, NoCookie} :
              client' = ConnectToEdge([client EXCEPT !.cookie = cookie])
      BY <1>11 DEF FinishBootstrap
    <2>2. /\ client'.state = "connecting" /\ client'.socket = "opening"
          /\ client'.redeeming = client.redeeming /\ client'.spent = client.spent
      BY <2>1 DEF ConnectToEdge, ClientFields
    <2>3. calls' = others /\ history' = history /\ calls[i].kind = "bootstrap"
      BY <1>11 DEF FinishBootstrap, others
    <2> QED
      BY <1>2, <1>4, <2>2, <2>3, WaitingForms, WaitingFormsNext
  <1> QED
    BY <1>8, <1>9, <1>10, <1>11

\* What the edge does to the calls: it answers one and may not lose another.
LEMMA EdgeReplies ==
    ASSUME TypeOK, NEW i \in 1..Len(calls),
           \/ RedeemGranted(i) \/ RedeemUnmapped(i) \/ RedeemRefused(i)
           \/ RedeemTooMany(i) \/ RedeemStoreDown(i) \/ Claim(i)
           \/ Logout(i) \/ Bootstrap(i)
    PROVE  /\ \E answer \in Answer : Moved(calls, calls', {}, {i}, answer)
           /\ UNCHANGED <<client, disk, late>>
           /\ history'.bought = history.bought
  <1> USE DEF TypeOK
  <1>0. calls[i] \in Call
    OBVIOUS
  <1>1. PICK status, session, cred :
            /\ [status |-> status, session |-> session, cred |-> cred] \in Answer
            /\ calls' = Replied(i, status, session, cred)
    <2> DEFINE Answers(status, session, cred) ==
                  [status |-> status, session |-> session, cred |-> cred] \in Answer
    <2>0. Answers(200, NoCookie, NoCred) /\ Answers(404, NoCookie, NoCred)
          /\ Answers(429, NoCookie, NoCred)
      BY DEF Answer
    <2>1. CASE RedeemGranted(i)
      <3>1. PICK next \in Secret, s \in Session :
                calls' = Replied(i, 200, s, [id |-> calls[i].cred.id, secret |-> next])
                /\ calls[i].cred.id \in DOMAIN devices
        BY <2>1 DEF RedeemGranted
      <3>2. Answers(200, s, [id |-> calls[i].cred.id, secret |-> next])
        BY <3>1 DEF Cred, Answer
      <3> HIDE DEF Answers
      <3> QED
        BY <3>1, <3>2 DEF Answers
    <2>2. CASE Claim(i)
      <3> DEFINE s == calls[i].cookie
      <3>1. \/ calls' = Replied(i, 404, NoCookie, NoCred)
            \/ s \in claims /\ calls' = Replied(i, 200, s, NoCred)
            \/ /\ s \in claims
               /\ \E f \in Family \ drawn, secret \in Secret \ drawn :
                     calls' = Replied(i, 200, s, [id |-> f, secret |-> secret])
        BY <2>2 DEF Claim
      <3> HIDE DEF s
      <3>2. ASSUME s \in claims
            PROVE  /\ Answers(200, s, NoCred)
                   /\ \A f \in Family, secret \in Secret :
                         Answers(200, s, [id |-> f, secret |-> secret])
        BY <3>2 DEF Answer, Cred
      <3>3. CASE s \in claims /\ \E f \in Family \ drawn, secret \in Secret \ drawn :
                     calls' = Replied(i, 200, s, [id |-> f, secret |-> secret])
        <4>1. PICK f \in Family, secret \in Secret :
                     calls' = Replied(i, 200, s, [id |-> f, secret |-> secret])
          BY <3>3
        <4>2. Answers(200, s, [id |-> f, secret |-> secret])
          BY <3>2, <3>3
        <4> HIDE DEF Answers
        <4> QED
          BY <4>1, <4>2 DEF Answers
      <3> HIDE DEF Answers
      <3>4. CASE s \in claims /\ calls' = Replied(i, 200, s, NoCred)
        BY <3>2, <3>4 DEF Answers
      <3>5. CASE calls' = Replied(i, 404, NoCookie, NoCred)
        BY <2>0, <3>5 DEF Answers
      <3> QED
        BY <3>1, <3>3, <3>4, <3>5
    <2>3. CASE RedeemUnmapped(i) \/ RedeemRefused(i) \/ RedeemTooMany(i) \/ RedeemStoreDown(i)
               \/ Logout(i) \/ Bootstrap(i)
      <3>1. \/ calls' = Replied(i, 200, NoCookie, NoCred)
            \/ calls' = Replied(i, 404, NoCookie, NoCred)
            \/ calls' = Replied(i, 429, NoCookie, NoCred)
        BY <2>3 DEF RedeemUnmapped, RedeemRefused, RedeemTooMany, RedeemStoreDown, Logout,
                    Bootstrap
      <3> HIDE DEF Answers
      <3> QED
        BY <2>0, <3>1 DEF Answers
    <2> QED
      BY <2>1, <2>2, <2>3
  <1>4. calls \in Seq(Call)
    OBVIOUS
  <1>5. Moved(calls, Replied(i, status, session, cred), {}, {i},
              [status |-> status, session |-> session, cred |-> cred])
    BY <1>1, <1>4, RepliedMoved, Zenon
  <1>6. UNCHANGED <<client, disk, late>>
    BY DEF RedeemGranted, RedeemUnmapped, RedeemRefused, RedeemTooMany, RedeemStoreDown,
           Claim, Logout, Bootstrap
  <1>7. history'.bought = history.bought
    <2>1. CASE RedeemGranted(i) \/ RedeemUnmapped(i)
      <3>1. \E l, r : \/ history' = [history EXCEPT !.lineage = l, !.retired = r]
                      \/ history' = [history EXCEPT !.retired = r]
        BY <2>1 DEF RedeemGranted, RedeemUnmapped
      <3> QED
        BY <3>1 DEF History
    <2>2. CASE RedeemRefused(i)
      BY <2>2 DEF RedeemRefused, History
    <2>3. CASE Claim(i)
      <3>1. history' = history \/ \E s, f : history' = [history EXCEPT !.lineage[s] = f]
        BY <2>3 DEF Claim
      <3> QED
        BY <3>1 DEF History
    <2>4. CASE RedeemTooMany(i) \/ RedeemStoreDown(i) \/ Logout(i) \/ Bootstrap(i)
      BY <2>4 DEF RedeemTooMany, RedeemStoreDown, Logout, Bootstrap
    <2> QED
      BY <2>1, <2>2, <2>3, <2>4
  <1> QED
    BY <1>1, <1>5, <1>6, <1>7

\* Every step keeps both, and starts a redemption only when none was spent.
LEMMA NextKeepsWaiting ==
    ASSUME TypeOK, SpendingInv, ProgressInv, [Next]_vars
    PROVE  /\ SpendingInv' /\ ProgressInv'
           /\ client'.redeeming /\ ~client.redeeming => ~client.spent
  <1> USE DEF TypeOK
  <1>1. CASE Launch \/ ReconnectTimer
    BY <1>1, OpenKeepsWaiting
  <1>2. CASE SocketAccepted \/ SocketLost \/ HandshakeTimeout \/ HoldOver \/ BeginLogin
    BY <1>2, IdleKeepsWaiting
  <1>3. CASE Finish
    <2>1. PICK i \in 1..Len(calls) : FinishRedeem(i) \/ FinishClaim(i) \/ FinishLogout(i)
                                     \/ FinishBootstrap(i)
      BY <1>3 DEF Finish
    <2> QED
      BY <2>1, FinishKeepsWaiting
  <1>4. ASSUME NEW handled, NEW answer, Moved(calls, calls', {}, handled, answer),
               client' = client \/ client' = [client EXCEPT !.live = client'.live],
               history'.bought = history.bought
        PROVE  SpendingInv' /\ ProgressInv' /\ client'.redeeming = client.redeeming
    <2>1. /\ client'.redeeming = client.redeeming /\ client'.spent = client.spent
          /\ client'.state = client.state /\ client'.timer = client.timer
          /\ client'.socket = client.socket
      BY <1>4 DEF ClientFields
    <2>2. Single(calls')
      BY <1>4, MovedWaits, WaitingForms
    <2>3. \A kinds : Waits(calls', kinds) <=> Waits(calls, kinds)
      <3> SUFFICES ASSUME NEW kinds
                   PROVE  Waits(calls', kinds) <=> Waits(calls, kinds)
        OBVIOUS
      <3>1. Waits(calls', kinds) <=> \E k \in 1..Len(calls) :
                calls[k].waiting /\ calls[k].kind \in kinds /\ k \notin {}
        BY <1>4, MovedWaits
      <3> QED
        BY <3>1 DEF Waits
    <2> QED
      BY <1>4, <2>1, <2>2, <2>3, WaitingForms, WaitingFormsNext
  <1>5. CASE EdgeStep
    <2>1. PICK i \in 1..Len(calls) :
                 \/ RedeemGranted(i) \/ RedeemUnmapped(i) \/ RedeemRefused(i)
                 \/ RedeemTooMany(i) \/ RedeemStoreDown(i) \/ Claim(i)
                 \/ Logout(i) \/ Bootstrap(i)
      BY <1>5 DEF EdgeStep
    <2>2. /\ \E answer \in Answer : Moved(calls, calls', {}, {i}, answer)
          /\ UNCHANGED <<client, disk, late>>
          /\ history'.bought = history.bought
      BY <2>1, EdgeReplies
    <2>3. PICK answer \in Answer : Moved(calls, calls', {}, {i}, answer)
      BY <2>2
    <2> QED
      BY <1>4, <2>2, <2>3
  <1>6. CASE RequestLost
    <2>1. PICK i \in 1..Len(calls) : ~calls[i].waiting /\ calls' = RemoveAt(calls, i)
      BY <1>6 DEF RequestLost
    <2>2. Moved(calls, calls', {}, {}, NoAnswer)
      BY <2>1, LostMoved
    <2> QED
      BY <1>4, <1>6, <2>2 DEF RequestLost
  <1>7. CASE LateWrite \/ Rotate \/ SessionExpired \/ EdgeRestart \/ Tick \/ UNCHANGED vars
    <2>1. calls' = calls
      BY <1>7 DEF LateWrite, Rotate, SessionExpired, EdgeRestart, Tick, vars
    <2>2. Moved(calls, calls', {}, {}, NoAnswer)
      BY <2>1, StaysMoved
    <2>3. client' = client \/ client' = [client EXCEPT !.live = client'.live]
      <3>1. CASE Rotate
        <4>1. PICK to : client' = [client EXCEPT !.live = to]
          BY <3>1 DEF Rotate
        <4>2. client'.live = to
          BY <4>1 DEF ClientFields
        <4> QED
          BY <4>1, <4>2
      <3> QED
        BY <1>7, <3>1 DEF LateWrite, SessionExpired, EdgeRestart, Tick, vars
    <2>4. history'.bought = history.bought
      BY <1>7 DEF LateWrite, Rotate, SessionExpired, EdgeRestart, Tick, vars, History
    <2> QED
      BY <1>4, <2>2, <2>3, <2>4
  <1>8. CASE LoginAnswer \/ EndSession
    <2>1. PICK r \in Call : /\ r.waiting /\ r.kind \in {"claim", "logout"}
                            /\ calls' = Append(calls, r)
      <3>1. CASE LoginAnswer
        <4>1. PICK s \in Session : calls' = Append(calls, Request("claim", NoCred, s))
          BY <3>1 DEF LoginAnswer
        <4>2. Request("claim", NoCred, s) \in Call
          BY RequestIsCall DEF Cookie
        <4> QED
          BY <4>1, <4>2, RequestWaits
      <3>2. CASE EndSession
        <4>1. client.cookie \in Cookie
          BY DEF ClientFields
        <4>2. Request("logout", NoCred, client.cookie) \in Call
          BY <4>1, RequestIsCall
        <4> QED
          BY <3>2, <4>2, RequestWaits DEF EndSession
      <3> QED
        BY <1>8, <3>1, <3>2
    <2>2. /\ client'.redeeming = client.redeeming /\ client'.spent = client.spent
          /\ client'.state = client.state /\ client'.timer = client.timer
          /\ client'.socket = client.socket
          /\ history' = history
      BY <1>8 DEF LoginAnswer, EndSession, ClientFields
    <2>3. /\ Single(calls')
          /\ \A kinds : Waits(calls', kinds) <=> Waits(calls, kinds) \/ r.kind \in kinds
      BY <2>1, AppendWaits, WaitingForms
    <2> QED
      BY <2>1, <2>2, <2>3, WaitingForms, WaitingFormsNext
  <1>9. CASE Crash
    <2>1. Moved(calls, calls', 1..Len(calls), {}, NoAnswer)
      BY <1>9, CrashMoved DEF Crash
    <2>2. Single(calls) => Single(calls')
      BY <2>1, MovedWaits
    <2>3. ~Waits(calls', {"redeem"})
      BY <2>1, MovedWaits
    <2>4. ~client'.redeeming /\ client'.state = "offline" /\ history'.bought = NoCookie
      BY <1>9 DEF Crash, Offline, History
    <2> QED
      BY <2>2, <2>3, <2>4, WaitingForms, WaitingFormsNext
  <1> QED
    BY <1>1, <1>2, <1>3, <1>5, <1>6, <1>7, <1>8, <1>9 DEF Next

LEMMA InitWaiting == Init => SpendingInv /\ ProgressInv
  <1> SUFFICES ASSUME Init
               PROVE  SpendingInv /\ ProgressInv
    OBVIOUS
  <1>1. Len(calls) = 0
    BY DEF Init
  <1>2. Waiting({"redeem"}) = {}
    BY <1>1 DEF Waiting
  <1> QED
    BY <1>2 DEF Init, SpendingInv, ProgressInv, Offline

\* What is awaited is always as the client's fields say, whatever is lost, late or refused,
\* whenever the client crashes and however often the edge restarts.
THEOREM WaitingInvariant == Spec => [](TypeOK /\ SpendingInv /\ ProgressInv)
  <1>1. Init => TypeOK /\ SpendingInv /\ ProgressInv
    BY InitTypes, InitWaiting
  <1>2. (TypeOK /\ SpendingInv /\ ProgressInv) /\ [Next]_vars
        => (TypeOK /\ SpendingInv /\ ProgressInv)'
    BY NextTypes, NextKeepsWaiting
  <1> QED
    BY <1>1, <1>2, PTL DEF Spec

\* A client that is neither offline nor connected always has a timer, a socket or an
\* awaited request of its own that will move it (synclient.cpp, openSession and
\* onDisconnected).
THEOREM ClientIsNeverStuck == Spec => []NeverStuck
  <1>1. TypeOK /\ SpendingInv /\ ProgressInv => NeverStuck
    BY DEF ProgressInv, NeverStuck, Waiting
  <1> QED
    BY <1>1, WaitingInvariant, PTL

\* How many redemptions are awaited, once at most one is.
LEMMA CountWaiting ==
    ASSUME NEW W, \A i, j \in W : i = j
    PROVE  Cardinality(W) = IF W # {} THEN 1 ELSE 0
  <1>1. CASE W = {}
    BY <1>1, FS_EmptySet
  <1>2. CASE W # {}
    <2>1. PICK i \in W : TRUE
      BY <1>2
    <2>2. W = {i}
      BY <2>1
    <2>3. Cardinality({i}) = 1
      BY FS_Singleton
    <2> QED
      BY <1>2, <2>2, <2>3
  <1> QED
    BY <1>1, <1>2

\* m_redeeming is true exactly while one redemption is awaited.
THEOREM RedeemingFlagIsExact == Spec => []RedeemingIsExact
  <1>1. SpendingInv => RedeemingIsExact
    <2> SUFFICES ASSUME SpendingInv
                 PROVE  RedeemingIsExact
      OBVIOUS
    <2>1. Cardinality(Waiting({"redeem"})) = IF Waiting({"redeem"}) # {} THEN 1 ELSE 0
      BY CountWaiting DEF SpendingInv
    <2> QED
      BY <2>1 DEF SpendingInv, RedeemingIsExact
  <1> QED
    BY <1>1, WaitingInvariant, PTL

\* Between the session a credential bought and the next redemption the edge has accepted
\* a connection: a new redemption starts only where m_credentialSpent is not set.
THEOREM CredentialBuysOneSession == Spec => SpentOncePerSession
  <1>1. (TypeOK /\ SpendingInv /\ ProgressInv) /\ [Next]_vars
        => [Cardinality(Waiting({"redeem"})') > Cardinality(Waiting({"redeem"}))
            => history.bought = NoCookie]_vars
    <2> SUFFICES ASSUME TypeOK, SpendingInv, ProgressInv, [Next]_vars,
                        Cardinality(Waiting({"redeem"})') > Cardinality(Waiting({"redeem"}))
                 PROVE  history.bought = NoCookie
      OBVIOUS
    <2>1. SpendingInv' /\ (client'.redeeming /\ ~client.redeeming => ~client.spent)
      BY NextKeepsWaiting
    <2>2. Cardinality(Waiting({"redeem"})) = IF Waiting({"redeem"}) # {} THEN 1 ELSE 0
      BY CountWaiting DEF SpendingInv
    <2>3. Cardinality(Waiting({"redeem"})') = IF Waiting({"redeem"})' # {} THEN 1 ELSE 0
      BY <2>1, CountWaiting DEF SpendingInv
    <2>4. Waiting({"redeem"}) = {} /\ Waiting({"redeem"})' # {}
      BY <2>2, <2>3
    <2> QED
      BY <2>1, <2>4 DEF SpendingInv
  <1> QED
    BY <1>1, WaitingInvariant, PTL DEF Spec, SpentOncePerSession

(***************************************************************************)
(* The registry.                                                           *)
(***************************************************************************)
\* The registry does not move, nor what the properties remember of it.
RegistryStays ==
    /\ UNCHANGED <<edge, drawn>>
    /\ history'.lineage = history.lineage
    /\ history'.reused = history.reused

\* The steps that leave the registry alone.
LEMMA ClientLeavesRegistry ==
    ASSUME TypeOK, [Next]_vars,
           ~LoginAnswer, ~EdgeStep, ~Rotate, ~SessionExpired, ~EdgeRestart
    PROVE  RegistryStays
  <1> USE DEF TypeOK
  <1>1. CASE Launch \/ ReconnectTimer \/ SocketLost \/ HandshakeTimeout \/ HoldOver \/ LateWrite
             \/ BeginLogin \/ EndSession \/ RequestLost \/ Tick \/ UNCHANGED vars
    BY <1>1 DEF Launch, ReconnectTimer, SocketLost, HandshakeTimeout, HoldOver, LateWrite,
                BeginLogin, EndSession, RequestLost, Tick, vars, RegistryStays, edge
  <1>2. CASE SocketAccepted \/ Crash
    BY <1>2 DEF SocketAccepted, Crash, RegistryStays, History
  <1>3. CASE Finish
    <2>1. PICK i \in 1..Len(calls) : FinishRedeem(i) \/ FinishClaim(i) \/ FinishLogout(i)
                                     \/ FinishBootstrap(i)
      BY <1>3 DEF Finish
    <2>2. UNCHANGED <<edge, drawn>>
      BY <2>1 DEF FinishRedeem, FinishClaim, FinishLogout, FinishBootstrap
    <2>3. history' = history \/ \E b : history' = [history EXCEPT !.bought = b]
      BY <2>1 DEF FinishRedeem, FinishClaim, FinishLogout, FinishBootstrap
    <2> QED
      BY <2>2, <2>3 DEF RegistryStays, History
  <1> QED
    BY <1>1, <1>2, <1>3 DEF Next

\* A session signed in, for a claim to take up.
SignsIn(s) ==
    /\ s \in Session \ drawn
    /\ sessions' = sessions \cup {s} /\ claims' = claims \cup {s} /\ drawn' = drawn \cup {s}
    /\ UNCHANGED <<devices, bindings>>
    /\ history'.lineage = history.lineage /\ history'.reused = history.reused

\* A redemption granted, with or without a session to bind.
Grants(f, row, next, S) ==
    /\ f \in DOMAIN devices
    /\ next \in Secret \ drawn /\ S \subseteq Session \ drawn
    /\ devices' = [devices EXCEPT ![f] = row]
    /\ sessions' = sessions \cup S
    /\ drawn' = drawn \cup {next} \cup S
    /\ DOMAIN bindings' = DOMAIN bindings \cup S
    /\ \A s \in S : bindings'[s].family = f
    /\ \A s \in DOMAIN bindings \ S : bindings'[s] = bindings[s]
    /\ claims' = claims
    /\ \A s \in Session : history'.lineage[s] = IF s \in S THEN f ELSE history.lineage[s]
    /\ history'.reused = history.reused

\* A redemption refused: the families in gone leave the registry and those in reused with
\* their sessions.
Refuses(gone, reused) ==
    /\ gone \subseteq DOMAIN devices /\ reused \subseteq gone
    /\ devices' = Without(devices, gone)
    /\ bindings' = Without(bindings, {s \in DOMAIN bindings : bindings[s].family \in reused})
    /\ sessions' = sessions \ {s \in DOMAIN bindings : bindings[s].family \in reused}
    /\ history'.reused = history.reused \cup reused
    /\ history'.lineage = history.lineage
    /\ UNCHANGED <<claims, drawn>>

\* A family enrolled for a session that is there, after a purge.
Enrols(s, f, row, secret) ==
    /\ s \in sessions /\ f \in Family \ drawn /\ secret \in Secret \ drawn
    /\ devices' = Put(Purged(devices), f, row)
    /\ DOMAIN bindings' = DOMAIN PurgedBindings(Purged(devices)) \cup {s}
    /\ bindings'[s].family = f
    /\ \A t \in DOMAIN PurgedBindings(Purged(devices)) \ {s} : bindings'[t] = bindings[t]
    /\ claims' \subseteq claims /\ sessions' = sessions
    /\ drawn' = drawn \cup {f, secret}
    /\ \A t \in Session : history'.lineage[t] = IF t = s THEN f ELSE history.lineage[t]
    /\ history'.reused = history.reused

\* A request that leaves the registry alone and takes a claim at most.
Declines ==
    /\ UNCHANGED <<devices, bindings, sessions, drawn>>
    /\ claims' \subseteq claims
    /\ history'.lineage = history.lineage /\ history'.reused = history.reused

\* The edge's handlers in these terms.
LEMMA EdgeStepShapes ==
    ASSUME TypeOK, NEW i \in 1..Len(calls),
           \/ RedeemGranted(i) \/ RedeemUnmapped(i) \/ RedeemRefused(i)
           \/ RedeemTooMany(i) \/ RedeemStoreDown(i) \/ Claim(i)
           \/ Logout(i) \/ Bootstrap(i)
    PROVE  \/ \E f, row, next, S : Grants(f, row, next, S)
           \/ \E gone, reused : Refuses(gone, reused)
           \/ \E s, f, row, secret : Enrols(s, f, row, secret)
           \/ Declines
           \/ Logout(i)
  <1> USE DEF TypeOK
  <1>1. ASSUME RedeemGranted(i)
        PROVE  \E f, row, next, S : Grants(f, row, next, S)
    <2> DEFINE f == calls[i].cred.id
               verdict == Verdict(devices[f], calls[i].cred.secret)
    <2>1. PICK next \in Secret \ drawn, s \in Session \ drawn :
              /\ f \in DOMAIN devices
              /\ devices' = [devices EXCEPT ![f] = Issue(devices[f], next, verdict)]
              /\ sessions' = sessions \cup {s}
              /\ bindings' = Put(bindings, s, [family |-> f, at |-> now])
              /\ drawn' = drawn \cup {next, s}
              /\ history' = [history EXCEPT
                     !.lineage = [@ EXCEPT ![s] = f],
                     !.retired = FirstRetired(devices[f].cur, verdict)]
              /\ claims' = claims
      BY <1>1 DEF RedeemGranted
    <2>2. PICK row : row = Issue(devices[f], next, verdict)
      OBVIOUS
    <2>3. /\ history'.lineage = [history.lineage EXCEPT ![s] = f]
          /\ history'.reused = history.reused
      BY <2>1 DEF History
    <2> HIDE DEF f, verdict
    <2>4. \A t \in Session : history'.lineage[t] = IF t \in {s} THEN f ELSE history.lineage[t]
      BY <2>3 DEF History
    <2>5. /\ DOMAIN bindings' = DOMAIN bindings \cup {s}
          /\ \A t \in {s} : bindings'[t].family = f
          /\ \A t \in DOMAIN bindings \ {s} : bindings'[t] = bindings[t]
      BY <2>1 DEF Put
    <2>6. Grants(f, row, next, {s})
      BY <2>1, <2>2, <2>3, <2>4, <2>5 DEF Grants
    <2> QED
      BY <2>6
  <1>2. ASSUME RedeemUnmapped(i)
        PROVE  \E f, row, next, S : Grants(f, row, next, S)
    <2> DEFINE f == calls[i].cred.id
               verdict == Verdict(devices[f], calls[i].cred.secret)
    <2>1. PICK next \in Secret \ drawn :
              /\ f \in DOMAIN devices
              /\ devices' = [devices EXCEPT ![f] = Issue(devices[f], next, verdict)]
              /\ drawn' = drawn \cup {next}
              /\ history' = [history EXCEPT !.retired = FirstRetired(devices[f].cur, verdict)]
              /\ UNCHANGED <<sessions, bindings, claims>>
      BY <1>2 DEF RedeemUnmapped
    <2>2. PICK row : row = Issue(devices[f], next, verdict)
      OBVIOUS
    <2>3. history'.lineage = history.lineage /\ history'.reused = history.reused
      BY <2>1 DEF History
    <2> HIDE DEF f, verdict
    <2>4. Grants(f, row, next, {})
      BY <2>1, <2>2, <2>3 DEF Grants
    <2> QED
      BY <2>4
  <1>3. ASSUME RedeemRefused(i)
        PROVE  \E gone, reused : Refuses(gone, reused)
    <2> DEFINE f == calls[i].cred.id
               verdict == IF f \notin DOMAIN devices THEN "stranger"
                          ELSE Verdict(devices[f], calls[i].cred.secret)
    <2>1. /\ verdict \in {"stranger", "lapsed", "reuse"}
          /\ devices' = IF verdict = "stranger" THEN devices ELSE Without(devices, {f})
          /\ bindings' = Without(bindings, IF verdict = "reuse" THEN OfFamily(f) ELSE {})
          /\ sessions' = sessions \ (IF verdict = "reuse" THEN OfFamily(f) ELSE {})
          /\ history' = IF verdict = "reuse"
                        THEN [history EXCEPT !.reused = @ \cup {f}] ELSE history
          /\ UNCHANGED <<claims, drawn>>
      BY <1>3 DEF RedeemRefused
    <2>2. verdict # "stranger" => f \in DOMAIN devices
      OBVIOUS
    <2> HIDE DEF f, verdict
    <2>3. CASE verdict = "stranger"
      <3>1. Refuses({}, {})
        BY <2>1, <2>3 DEF Refuses, Without
      <3> QED
        BY <3>1
    <2>4. CASE verdict = "lapsed"
      <3>1. Refuses({f}, {})
        BY <2>1, <2>2, <2>4 DEF Refuses, Without
      <3> QED
        BY <3>1
    <2>5. CASE verdict = "reuse"
      <3>1. history'.reused = history.reused \cup {f} /\ history'.lineage = history.lineage
        BY <2>1, <2>5 DEF History
      <3>2. OfFamily(f) = {s \in DOMAIN bindings : bindings[s].family \in {f}}
        BY DEF OfFamily
      <3>3. Refuses({f}, {f})
        BY <2>1, <2>2, <2>5, <3>1, <3>2 DEF Refuses
      <3> QED
        BY <3>3
    <2> QED
      BY <2>1, <2>3, <2>4, <2>5
  <1>4. ASSUME RedeemTooMany(i) \/ RedeemStoreDown(i) \/ Bootstrap(i)
        PROVE  Declines
    BY <1>4 DEF RedeemTooMany, RedeemStoreDown, Bootstrap, Declines, edge
  <1>5. ASSUME Claim(i)
        PROVE  Declines \/ \E s, f, row, secret : Enrols(s, f, row, secret)
    <2> DEFINE s == calls[i].cookie
    <2>1. claims' = claims \ {s} /\ UNCHANGED sessions
      BY <1>5 DEF Claim
    <2>2. CASE UNCHANGED <<devices, bindings, drawn, history>>
      BY <2>1, <2>2 DEF Declines
    <2>3. CASE /\ s \in claims \cap sessions
               /\ \E f \in Family \ drawn, secret \in Secret \ drawn :
                   LET rows == Purged(devices)
                   IN  /\ devices' = Put(rows, f, NewDevice(secret))
                       /\ bindings' = Put(PurgedBindings(rows), s, [family |-> f, at |-> now])
                       /\ drawn' = drawn \cup {f, secret}
                       /\ history' = [history EXCEPT !.lineage[s] = f]
      <3> DEFINE rows == Purged(devices)
                 bound == PurgedBindings(rows)
      <3>1. PICK f \in Family \ drawn, secret \in Secret \ drawn :
                       /\ devices' = Put(rows, f, NewDevice(secret))
                       /\ bindings' = Put(bound, s, [family |-> f, at |-> now])
                       /\ drawn' = drawn \cup {f, secret}
                       /\ history' = [history EXCEPT !.lineage[s] = f]
        BY <2>3
      <3>2. \A t \in DOMAIN bound : bound[t] = bindings[t]
        BY PurgeTypes
      <3>3. history'.reused = history.reused
        BY <3>1 DEF History
      <3>4. \A t \in Session : history'.lineage[t] = IF t = s THEN f ELSE history.lineage[t]
        <4>1. history'.lineage = [history.lineage EXCEPT ![s] = f]
          BY <3>1 DEF History
        <4> QED
          BY <4>1 DEF History
      <3> HIDE DEF rows, bound, s
      <3>5. /\ DOMAIN bindings' = DOMAIN bound \cup {s}
            /\ bindings'[s].family = f
            /\ \A t \in DOMAIN bound \ {s} : bindings'[t] = bindings[t]
        BY <3>1, <3>2 DEF Put
      <3>6. PICK row : row = NewDevice(secret)
        OBVIOUS
      <3>7. Enrols(s, f, row, secret)
        BY <2>1, <2>3, <3>1, <3>3, <3>4, <3>5, <3>6 DEF Enrols, rows, bound
      <3> QED
        BY <3>7
    <2> QED
      BY <1>5, <2>2, <2>3 DEF Claim
  <1> QED
    BY <1>1, <1>2, <1>3, <1>4, <1>5

\* The steps of the registry: a step of the edge's that names its shape, or none.
LEMMA RegistryShapes ==
    ASSUME TypeOK, [Next]_vars
    PROVE  \/ RegistryStays
           \/ \E s : SignsIn(s)
           \/ \E f, row, next, S : Grants(f, row, next, S)
           \/ \E gone, reused : Refuses(gone, reused)
           \/ \E s, f, row, secret : Enrols(s, f, row, secret)
           \/ Declines
           \/ \E i \in 1..Len(calls) : Logout(i)
           \/ Rotate \/ SessionExpired \/ EdgeRestart
  <1>1. CASE LoginAnswer
    <2>1. PICK s : SignsIn(s)
      BY <1>1 DEF LoginAnswer, SignsIn
    <2> QED
      BY <2>1
  <1>2. CASE EdgeStep
    <2>1. PICK i \in 1..Len(calls) :
                 \/ RedeemGranted(i) \/ RedeemUnmapped(i) \/ RedeemRefused(i)
                 \/ RedeemTooMany(i) \/ RedeemStoreDown(i) \/ Claim(i)
                 \/ Logout(i) \/ Bootstrap(i)
      BY <1>2 DEF EdgeStep
    <2> QED
      BY <2>1, EdgeStepShapes
  <1> QED
    BY <1>1, <1>2, ClientLeavesRegistry

\* A rotation gives the session a new name, and its binding too if the database answers.
Rotates(answers, s, to) ==
    /\ s \in sessions /\ to \in Session \ drawn /\ answers \in StoreAnswers
    /\ sessions' = (sessions \ {s}) \cup {to}
    /\ drawn' = drawn \cup {to}
    /\ UNCHANGED <<devices, claims>>
    /\ DOMAIN bindings' = IF answers /\ s \in DOMAIN bindings
                          THEN (DOMAIN bindings \ {s}) \cup {to}
                          ELSE DOMAIN bindings
    /\ \A t \in DOMAIN bindings' : bindings'[t].family =
          IF answers /\ s \in DOMAIN bindings /\ t = to
          THEN bindings[s].family ELSE bindings[t].family
    /\ \A t \in Session : history'.lineage[t] =
          IF t = to THEN history.lineage[s] ELSE history.lineage[t]
    /\ history'.reused = history.reused

LEMMA RotateShape ==
    ASSUME TypeOK, Rotate
    PROVE  \E answers, s, to : Rotates(answers, s, to)
  <1> USE DEF TypeOK
  <1>0. PICK s : s = client.live /\ s \in sessions
    BY DEF Rotate
  <1>1. PICK to \in Session \ drawn, answers \in StoreAnswers :
            /\ sessions' = (sessions \ {s}) \cup {to}
            /\ drawn' = drawn \cup {to}
            /\ bindings' = IF answers /\ s \in DOMAIN bindings
                           THEN Put(Without(bindings, {s}), to,
                                    [family |-> bindings[s].family, at |-> now])
                           ELSE bindings
            /\ history' = [history EXCEPT !.lineage[to] = history.lineage[s]]
            /\ UNCHANGED <<devices, claims>>
    BY <1>0 DEF Rotate
  <1>2. /\ history'.lineage = [history.lineage EXCEPT ![to] = history.lineage[s]]
        /\ history'.reused = history.reused
    BY <1>1 DEF History
  <1>3. \A t \in Session : history'.lineage[t] =
            IF t = to THEN history.lineage[s] ELSE history.lineage[t]
    BY <1>2 DEF History
  <1>4. /\ DOMAIN bindings' = IF answers /\ s \in DOMAIN bindings
                              THEN (DOMAIN bindings \ {s}) \cup {to}
                              ELSE DOMAIN bindings
        /\ \A t \in DOMAIN bindings' : bindings'[t].family =
              IF answers /\ s \in DOMAIN bindings /\ t = to
              THEN bindings[s].family ELSE bindings[t].family
    <2>1. CASE answers /\ s \in DOMAIN bindings
      BY <1>1, <2>1 DEF Put, Without
    <2>2. CASE ~(answers /\ s \in DOMAIN bindings)
      BY <1>1, <2>2
    <2> QED
      BY <2>1, <2>2
  <1>5. Rotates(answers, s, to)
    BY <1>0, <1>1, <1>2, <1>3, <1>4 DEF Rotates
  <1> QED
    BY <1>5

\* Every name in use was drawn.
LEMMA NextKeepsNames == TypeOK /\ NamesAreDrawn /\ [Next]_vars => NamesAreDrawn'
  <1> SUFFICES ASSUME TypeOK, NamesAreDrawn, [Next]_vars
               PROVE  NamesAreDrawn'
    OBVIOUS
  <1> USE DEF TypeOK, NamesAreDrawn
  <1>1. CASE RegistryStays
    BY <1>1 DEF RegistryStays, edge
  <1>2. CASE \E s : SignsIn(s)
    BY <1>2 DEF SignsIn
  <1>3. CASE \E f, row, next, S : Grants(f, row, next, S)
    BY <1>3 DEF Grants
  <1>4. CASE \E gone, reused : Refuses(gone, reused)
    BY <1>4 DEF Refuses, Without
  <1>5. CASE \E s, f, row, secret : Enrols(s, f, row, secret)
    <2>1. PICK s, f, row, secret : Enrols(s, f, row, secret)
      BY <1>5
    <2>2. /\ DOMAIN Purged(devices) \subseteq DOMAIN devices
          /\ DOMAIN PurgedBindings(Purged(devices)) \subseteq DOMAIN bindings
      BY PurgeTypes
    <2>3. DOMAIN devices' = DOMAIN Purged(devices) \cup {f}
      BY <2>1 DEF Enrols, Put
    <2> QED
      BY <2>1, <2>2, <2>3 DEF Enrols
  <1>6. CASE Declines
    BY <1>6 DEF Declines
  <1>7. CASE \E i \in 1..Len(calls) : Logout(i)
    <2>1. PICK i \in 1..Len(calls) : Logout(i)
      BY <1>7
    <2>2. /\ DOMAIN devices' \subseteq DOMAIN devices /\ DOMAIN bindings' \subseteq DOMAIN bindings
          /\ sessions' \subseteq sessions /\ UNCHANGED <<claims, drawn, history>>
      BY <2>1 DEF Logout, Without
    <2> QED
      BY <2>2
  <1>8. CASE Rotate
    <2>1. PICK answers, s, to : Rotates(answers, s, to)
      BY <1>8, RotateShape
    <2> QED
      BY <2>1 DEF Rotates
  <1>9. CASE SessionExpired
    <2>1. /\ DOMAIN bindings' \subseteq DOMAIN bindings
          /\ sessions' \subseteq sessions /\ UNCHANGED <<devices, claims, drawn, history>>
      BY <1>9 DEF SessionExpired, Without
    <2> QED
      BY <2>1
  <1>10. CASE EdgeRestart
    <2>1. /\ DOMAIN devices' \subseteq DOMAIN devices /\ DOMAIN bindings' \subseteq DOMAIN bindings
          /\ sessions' = {} /\ claims' = {} /\ UNCHANGED <<drawn, history>>
      BY <1>10, PurgeTypes DEF EdgeRestart
    <2> QED
      BY <2>1
  <1> QED
    BY <1>1, <1>2, <1>3, <1>4, <1>5, <1>6, <1>7, <1>8, <1>9, <1>10, RegistryShapes

LEMMA InitRegistry == Init => RegistryInv /\ \A s \in Session : BoundToLineage(s)
  <1> SUFFICES ASSUME Init
               PROVE  RegistryInv /\ \A s \in Session : BoundToLineage(s)
    OBVIOUS
  <1>1. /\ sessions = {} /\ claims = {} /\ DOMAIN bindings = {}
        /\ history.reused = {} /\ \A s \in Session : history.lineage[s] = NoCred
    BY DEF Init
  <1>2. DOMAIN devices \subseteq drawn /\ DOMAIN devices \subseteq Family
    BY DEF Init
  <1>3. NoCred \notin DOMAIN devices
    BY <1>2, CredAssumption
  <1> QED
    BY <1>1, <1>2, <1>3 DEF RegistryInv, NamesAreDrawn, ReuseEndsEverySession, BoundToLineage

\* Every session of a family the registry has can be found through its binding, so a reuse
\* ends them all.
LEMMA NextKeepsRegistry ==
    ASSUME "storeDown" \notin Events, TypeOK, RegistryInv, [Next]_vars
    PROVE  RegistryInv'
  <1>0. NamesAreDrawn /\ NamesAreDrawn'
    BY NextKeepsNames DEF RegistryInv
  <1>00. /\ history.reused \subseteq Family /\ NoCred \notin Family
         /\ history.lineage \in [Session -> Family \cup {NoCred}]
    BY CredAssumption DEF TypeOK, History
  <1>01. StoreAnswers = {TRUE}
    BY DEF StoreAnswers, Happens
  <1> DEFINE Rest == /\ history.reused \cap DOMAIN devices = {}
                     /\ \A s \in sessions : /\ history.lineage[s] \notin history.reused
                                            /\ BoundToLineage(s)
  <1>02. Rest
    BY DEF RegistryInv, ReuseEndsEverySession
  <1> SUFFICES Rest'
    BY <1>0 DEF RegistryInv, ReuseEndsEverySession
  <1> USE DEF TypeOK, BoundToLineage
  <1>1. CASE RegistryStays
    BY <1>02, <1>1 DEF RegistryStays, edge
  <1>2. CASE \E s : SignsIn(s)
    <2>1. PICK s : SignsIn(s)
      BY <1>2
    <2>2. history.lineage[s] = NoCred
      BY <1>0, <2>1 DEF SignsIn, NamesAreDrawn
    <2>3. NoCred \notin DOMAIN devices /\ NoCred \notin history.reused
      BY <1>00
    <2> QED
      BY <1>02, <2>1, <2>2, <2>3 DEF SignsIn
  <1>3. CASE \E f, row, next, S : Grants(f, row, next, S)
    <2>1. PICK f, row, next, S : Grants(f, row, next, S)
      BY <1>3
    <2>2. DOMAIN devices' = DOMAIN devices
      BY <2>1 DEF Grants
    <2>3. ASSUME NEW s \in sessions'
          PROVE  history'.lineage[s] \notin history'.reused /\ BoundToLineage(s)'
      <3>1. CASE s \in S
        BY <1>02, <2>1, <2>2, <3>1 DEF Grants
      <3>2. CASE s \notin S
        BY <1>02, <2>1, <2>2, <3>2 DEF Grants
      <3> QED
        BY <3>1, <3>2
    <2> QED
      BY <1>02, <2>1, <2>2, <2>3 DEF Grants
  <1>4. CASE \E gone, reused : Refuses(gone, reused)
    <2>1. PICK gone, reused : Refuses(gone, reused)
      BY <1>4
    <2>2. DOMAIN devices' = DOMAIN devices \ gone
      BY <2>1 DEF Refuses, Without
    <2>3. /\ DOMAIN bindings' = {s \in DOMAIN bindings : bindings[s].family \notin reused}
          /\ \A s \in DOMAIN bindings' : bindings'[s] = bindings[s]
      BY <2>1 DEF Refuses, Without
    <2>4. ASSUME NEW s \in sessions'
          PROVE  history'.lineage[s] \notin history'.reused /\ BoundToLineage(s)'
      BY <1>02, <2>1, <2>2, <2>3 DEF Refuses
    <2> QED
      BY <1>02, <2>1, <2>2, <2>4 DEF Refuses
  <1>5. CASE \E s, f, row, secret : Enrols(s, f, row, secret)
    <2>1. PICK s, f, row, secret : Enrols(s, f, row, secret)
      BY <1>5
    <2> DEFINE rows == Purged(devices)
               bound == PurgedBindings(rows)
    <2>2. /\ DOMAIN rows \subseteq DOMAIN devices
          /\ DOMAIN bound \subseteq DOMAIN bindings
          /\ \A t \in DOMAIN bindings : bindings[t].family \in DOMAIN rows => t \in DOMAIN bound
      BY PurgeTypes
    <2>3. DOMAIN devices' = DOMAIN rows \cup {f}
      BY <2>1 DEF Enrols, Put
    <2>4. /\ DOMAIN bindings' = DOMAIN bound \cup {s} /\ bindings'[s].family = f
          /\ \A t \in DOMAIN bound \ {s} : bindings'[t] = bindings[t]
      BY <2>1 DEF Enrols
    <2> HIDE DEF rows, bound
    <2>5. f \notin history.reused /\ \A t \in Session : history.lineage[t] # f
      BY <1>0, <1>00, <2>1 DEF Enrols, NamesAreDrawn
    <2>6. ASSUME NEW t \in sessions'
          PROVE  history'.lineage[t] \notin history'.reused /\ BoundToLineage(t)'
      <3>1. t \in sessions /\ t \in Session
        BY <2>1 DEF Enrols
      <3>2. CASE t = s
        BY <2>1, <2>4, <2>5, <3>1, <3>2 DEF Enrols
      <3>3. CASE t # s
        BY <1>02, <2>1, <2>2, <2>3, <2>4, <2>5, <3>1, <3>3 DEF Enrols
      <3> QED
        BY <3>2, <3>3
    <2> QED
      BY <1>02, <2>1, <2>2, <2>3, <2>5, <2>6 DEF Enrols
  <1>6. CASE Declines
    BY <1>02, <1>6 DEF Declines
  <1>7. CASE \E i \in 1..Len(calls) : Logout(i)
    <2>1. PICK i \in 1..Len(calls) : Logout(i)
      BY <1>7
    <2>2. PICK s : s = calls[i].cookie
      OBVIOUS
    <2>3. /\ DOMAIN devices' \subseteq DOMAIN devices
          /\ DOMAIN bindings' = DOMAIN bindings \ {s}
          /\ \A t \in DOMAIN bindings' : bindings'[t] = bindings[t]
          /\ sessions' = sessions \ {s}
          /\ UNCHANGED <<claims, drawn, history>>
      BY <1>01, <2>1, <2>2 DEF Logout, Without
    <2> QED
      BY <1>02, <2>3
  <1>8. CASE Rotate
    <2>0. PICK answers, s, to : Rotates(answers, s, to)
      BY <1>8, RotateShape
    <2>1. /\ answers /\ s \in sessions /\ to \in Session \ drawn
          /\ sessions' = (sessions \ {s}) \cup {to}
          /\ UNCHANGED devices
          /\ DOMAIN bindings' = IF s \in DOMAIN bindings
                                THEN (DOMAIN bindings \ {s}) \cup {to}
                                ELSE DOMAIN bindings
          /\ \A t \in DOMAIN bindings' : bindings'[t].family =
                IF s \in DOMAIN bindings /\ t = to
                THEN bindings[s].family ELSE bindings[t].family
          /\ \A t \in Session : history'.lineage[t] =
                IF t = to THEN history.lineage[s] ELSE history.lineage[t]
          /\ history'.reused = history.reused
      BY <1>01, <2>0 DEF Rotates
    <2>2. ASSUME NEW t \in sessions'
          PROVE  history'.lineage[t] \notin history'.reused /\ BoundToLineage(t)'
      <3>1. CASE t = to
        BY <1>02, <2>1, <3>1
      <3>2. CASE t # to
        BY <1>02, <2>1, <3>2
      <3> QED
        BY <3>1, <3>2
    <2> QED
      BY <1>02, <2>1, <2>2
  <1>9. CASE SessionExpired
    <2>1. PICK s \in sessions :
              /\ sessions' = sessions \ {s}
              /\ bindings' = Without(bindings, {s})
              /\ UNCHANGED <<devices, history>>
      BY <1>01, <1>9 DEF SessionExpired
    <2>2. /\ DOMAIN bindings' = DOMAIN bindings \ {s}
          /\ \A t \in DOMAIN bindings' : bindings'[t] = bindings[t]
      BY <2>1 DEF Without
    <2> QED
      BY <1>02, <2>1, <2>2
  <1>10. CASE EdgeRestart
    <2>1. DOMAIN devices' \subseteq DOMAIN devices /\ sessions' = {} /\ history' = history
      BY <1>10, PurgeTypes DEF EdgeRestart
    <2> QED
      BY <1>02, <2>1
  <1> QED
    BY <1>1, <1>2, <1>3, <1>4, <1>5, <1>6, <1>7, <1>8, <1>9, <1>10, RegistryShapes

\* While the registry's database answers, reuse of a retired generation ends every session
\* its family opened, through any number of rotations, expiries and restarts.
THEOREM ReuseEndsTheFamily ==
    ASSUME "storeDown" \notin Events
    PROVE  Spec => []ReuseEndsEverySession
  <1>1. Init => TypeOK /\ RegistryInv
    BY InitTypes, InitRegistry
  <1>2. (TypeOK /\ RegistryInv) /\ [Next]_vars => (TypeOK /\ RegistryInv)'
    BY NextTypes, NextKeepsRegistry
  <1>3. TypeOK /\ RegistryInv => ReuseEndsEverySession
    BY DEF RegistryInv
  <1> QED
    BY <1>1, <1>2, <1>3, PTL DEF Spec

\* Without rotations and expiries every session the edge ever named keeps its binding for
\* as long as the registry has its family.
LEMMA NextKeepsBindings ==
    ASSUME "rotate" \notin Events, "expiry" \notin Events, TypeOK, NamesAreDrawn, [Next]_vars,
           \A s \in Session : BoundToLineage(s)
    PROVE  \A s \in Session : BoundToLineage(s)'
  <1>00. NoCred \notin Family /\ history.lineage \in [Session -> Family \cup {NoCred}]
    BY CredAssumption DEF TypeOK, History
  <1>01. ~Rotate /\ ~SessionExpired
    BY DEF Rotate, SessionExpired, Happens
  <1> USE DEF TypeOK, BoundToLineage
  <1>1. CASE RegistryStays
    BY <1>1 DEF RegistryStays, edge
  <1>2. CASE \E s : SignsIn(s)
    BY <1>2 DEF SignsIn
  <1>3. CASE \E f, row, next, S : Grants(f, row, next, S)
    <2>1. PICK f, row, next, S : Grants(f, row, next, S)
      BY <1>3
    <2>2. DOMAIN devices' = DOMAIN devices
      BY <2>1 DEF Grants
    <2>3. ASSUME NEW s \in Session
          PROVE  BoundToLineage(s)'
      <3>1. CASE s \in S
        BY <2>1, <2>2, <3>1 DEF Grants
      <3>2. CASE s \notin S
        BY <2>1, <2>2, <3>2 DEF Grants
      <3> QED
        BY <3>1, <3>2
    <2> QED
      BY <2>3
  <1>4. CASE \E gone, reused : Refuses(gone, reused)
    <2>1. PICK gone, reused : Refuses(gone, reused)
      BY <1>4
    <2>2. DOMAIN devices' = DOMAIN devices \ gone
      BY <2>1 DEF Refuses, Without
    <2>3. /\ DOMAIN bindings' = {s \in DOMAIN bindings : bindings[s].family \notin reused}
          /\ \A s \in DOMAIN bindings' : bindings'[s] = bindings[s]
      BY <2>1 DEF Refuses, Without
    <2> QED
      BY <2>1, <2>2, <2>3 DEF Refuses
  <1>5. CASE \E s, f, row, secret : Enrols(s, f, row, secret)
    <2>1. PICK s, f, row, secret : Enrols(s, f, row, secret)
      BY <1>5
    <2> DEFINE rows == Purged(devices)
               bound == PurgedBindings(rows)
    <2>2. /\ DOMAIN rows \subseteq DOMAIN devices
          /\ DOMAIN bound \subseteq DOMAIN bindings
          /\ \A t \in DOMAIN bindings : bindings[t].family \in DOMAIN rows => t \in DOMAIN bound
      BY PurgeTypes
    <2>3. DOMAIN devices' = DOMAIN rows \cup {f}
      BY <2>1 DEF Enrols, Put
    <2>4. /\ DOMAIN bindings' = DOMAIN bound \cup {s} /\ bindings'[s].family = f
          /\ \A t \in DOMAIN bound \ {s} : bindings'[t] = bindings[t]
      BY <2>1 DEF Enrols
    <2> HIDE DEF rows, bound
    <2>5. \A t \in Session : history.lineage[t] # f
      BY <1>00, <2>1 DEF Enrols, NamesAreDrawn
    <2>6. ASSUME NEW t \in Session
          PROVE  BoundToLineage(t)'
      <3>2. CASE t = s
        BY <2>1, <2>4, <3>2 DEF Enrols
      <3>3. CASE t # s
        BY <2>1, <2>2, <2>3, <2>4, <2>5, <3>3 DEF Enrols
      <3> QED
        BY <3>2, <3>3
    <2> QED
      BY <2>6
  <1>6. CASE Declines
    BY <1>6 DEF Declines
  <1>7. CASE \E i \in 1..Len(calls) : Logout(i)
    <2>1. PICK i \in 1..Len(calls) : Logout(i)
      BY <1>7
    <2>2. PICK s : s = calls[i].cookie
      OBVIOUS
    <2>3. CASE UNCHANGED <<devices, bindings, history>>
      BY <2>3
    <2>4. CASE /\ DOMAIN devices' = DOMAIN devices \ {f \in {bindings[s].family} :
                                                         s \in DOMAIN bindings}
               /\ DOMAIN bindings' = DOMAIN bindings \ {s}
               /\ \A t \in DOMAIN bindings' : bindings'[t] = bindings[t]
               /\ history' = history
      BY <2>4
    <2> QED
      BY <2>1, <2>2, <2>3, <2>4 DEF Logout, Without
  <1>10. CASE EdgeRestart
    <2> DEFINE rows == Purged(devices)
               bound == PurgedBindings(rows)
    <2>1. /\ DOMAIN rows \subseteq DOMAIN devices
          /\ DOMAIN bound \subseteq DOMAIN bindings
          /\ \A t \in DOMAIN bound : bound[t] = bindings[t]
          /\ \A t \in DOMAIN bindings : bindings[t].family \in DOMAIN rows => t \in DOMAIN bound
      BY PurgeTypes
    <2>2. devices' = rows /\ bindings' = bound /\ history' = history
      BY <1>10 DEF EdgeRestart
    <2> HIDE DEF rows, bound
    <2> QED
      BY <2>1, <2>2
  <1> QED
    BY <1>01, <1>1, <1>2, <1>3, <1>4, <1>5, <1>6, <1>7, <1>10, RegistryShapes

\* A logout handled while the database answers forgets the family the session came from,
\* as long as sessions are neither rotated nor expired: both leave the client with a cookie
\* whose binding is elsewhere or gone.
THEOREM LogoutForgetsTheFamily ==
    ASSUME "rotate" \notin Events, "expiry" \notin Events
    PROVE  Spec => SignOutForgetsTheDevice
  <1> DEFINE Inv == TypeOK /\ NamesAreDrawn /\ \A s \in Session : BoundToLineage(s)
  <1>1. Init => Inv
    BY InitTypes, InitRegistry DEF RegistryInv
  <1>2. Inv /\ [Next]_vars => Inv'
    BY NextTypes, NextKeepsNames, NextKeepsBindings
  <1>3. Inv /\ [Next]_vars
        => [\A i \in 1..Len(calls) :
               Logout(i) /\ calls[i].cookie \in Session \ DOMAIN bindings'
               => history.lineage[calls[i].cookie] \notin DOMAIN devices']_vars
    <2> SUFFICES ASSUME Inv, NEW i \in 1..Len(calls), Logout(i),
                        calls[i].cookie \in Session \ DOMAIN bindings'
                 PROVE  history.lineage[calls[i].cookie] \notin DOMAIN devices'
      OBVIOUS
    <2>1. PICK s : s = calls[i].cookie
      OBVIOUS
    <2>2. BoundToLineage(s)
      BY <2>1
    <2>3. CASE UNCHANGED <<devices, bindings>>
      BY <2>1, <2>2, <2>3 DEF BoundToLineage
    <2>4. CASE DOMAIN devices' = DOMAIN devices \ {f \in {bindings[s].family} :
                                                      s \in DOMAIN bindings}
      BY <2>1, <2>2, <2>4 DEF BoundToLineage
    <2> QED
      BY <2>1, <2>3, <2>4 DEF Logout, Without
  <1> QED
    BY <1>1, <1>2, <1>3, PTL DEF Spec, SignOutForgetsTheDevice

(***************************************************************************)
(* The stored credential.                                                  *)
(***************************************************************************)
\* The registry loses families and nothing else, and names are only ever added.
Shrinks ==
    /\ DOMAIN devices' \subseteq DOMAIN devices
    /\ \A f \in DOMAIN devices' : devices'[f] = devices[f]
    /\ drawn \subseteq drawn'

\* A request just made; a claim is made by a login, and a redemption with the credential
\* held, when no other is awaited.
NewRequest(r, ds) ==
    /\ r \in Call /\ r.waiting /\ r.sent /\ r.answer = NoAnswer
    /\ r.kind = "claim" => client.login
    /\ \/ r.kind # "redeem" /\ r.cred = NoCred
       \/ /\ r.kind = "redeem" /\ r.cred = client'.held /\ r.cred # NoCred
          /\ ~Waits(ds, {"redeem"})

\* The client stops waiting for some calls, makes one request at most and takes up no new
\* credential, or nothing at all happens to calls and credentials.
Asks(ds, gone) ==
    /\ Moved(calls, ds, gone, {}, NoAnswer)
    /\ Shrinks
    /\ late' = late /\ client'.store
    /\ disk' \in {disk, NoCred}
    /\ \/ client'.held \in {client.held, NoCred}
       \/ client.held = NoCred /\ client'.held = disk /\ disk' = disk
    /\ calls' = ds \/ \E r : calls' = Append(ds, r) /\ NewRequest(r, ds)

\* The client takes up the credential an answer brought.
Takes(i) ==
    /\ i \in 1..Len(calls)
    /\ Moved(calls, calls', {i}, {}, NoAnswer)
    /\ calls[i].waiting /\ calls[i].kind \in {"redeem", "claim"}
    /\ calls[i].answer.status = 200 /\ calls[i].answer.cred # NoCred
    /\ client'.held = calls[i].answer.cred
    /\ disk' \in {calls[i].answer.cred, NoCred}
    /\ late' = late /\ client'.store
    /\ UNCHANGED <<devices, drawn>>

\* The edge answers a request: with nothing new, with the next generation of the family
\* presented, or with a family just enrolled.
Handles(i, answer) ==
    /\ i \in 1..Len(calls) /\ answer \in Answer
    /\ Moved(calls, calls', {}, {i}, answer)
    /\ calls[i].sent
    /\ InOrder => \A j \in 1..(i - 1) : ~calls[j].sent
    /\ UNCHANGED <<client, disk, late>>
Denies(i, answer) ==
    /\ Handles(i, answer) /\ Shrinks /\ answer.cred = NoCred
    /\ calls[i].kind = "redeem" /\ answer.status = 404 /\ ~RedeemStoreDown(i)
       => ~(calls[i].cred.id \in DOMAIN devices'
            /\ calls[i].cred.secret \in {devices'[calls[i].cred.id].cur,
                                         devices'[calls[i].cred.id].prev})
Renews(i, answer, next) ==
    LET f == calls[i].cred.id
    IN  /\ Handles(i, answer)
        /\ calls[i].kind = "redeem"
        /\ f \in DOMAIN devices /\ DOMAIN devices' = DOMAIN devices
        /\ next \in Secret \ drawn /\ drawn \cup {next} \subseteq drawn'
        /\ \A g \in DOMAIN devices \ {f} : devices'[g] = devices[g]
        /\ devices'[f].cur = next
        /\ devices'[f].prev = calls[i].cred.secret
        /\ calls[i].cred.secret \in {devices[f].cur, devices[f].prev}
        /\ answer.cred \in {NoCred, [id |-> f, secret |-> next]}
        /\ answer.status = 404 => RedeemUnmapped(i)
Enlists(i, answer, f, secret) ==
    /\ Handles(i, answer)
    /\ calls[i].kind = "claim"
    /\ f \in Family \ drawn /\ secret \in Secret \ drawn
    /\ drawn' = drawn \cup {f, secret}
    /\ DOMAIN devices' \subseteq DOMAIN devices \cup {f}
    /\ \A g \in DOMAIN devices' \ {f} : devices'[g] = devices[g]
    /\ f \in DOMAIN devices' => devices'[f].cur = secret /\ devices'[f].prev = NoSecret
    /\ answer.cred = [id |-> f, secret |-> secret]

\* openSession in these terms.
LEMMA OpenedAsks ==
    ASSUME client \in ClientFields, disk \in Cred \cup {NoCred},
           NEW c \in ClientFields, NEW others, NEW gone,
           Moved(calls, others, gone, {}, NoAnswer), Opened(c, others),
           c.redeeming <=> Waits(others, {"redeem"}),
           c.held \in {client.held, NoCred}, c.store,
           UNCHANGED <<devices, drawn, late>>, disk' \in {disk, NoCred},
           (disk' = disk /\ c.held = client.held) \/ client'.held = c.held
    PROVE  Asks(others, gone)
  <1>1. Shrinks /\ late' = late /\ client'.store
    BY DEF Shrinks, Opened
  <1>2. \/ client'.held \in {client.held, NoCred}
        \/ client.held = NoCred /\ client'.held = disk /\ disk' = disk
    BY DEF Opened
  <1>3. calls' = others \/ \E r : calls' = Append(others, r) /\ NewRequest(r, others)
    <2>1. CASE calls' = Append(others, Request("bootstrap", NoCred, NoCookie))
      <3> DEFINE r == Request("bootstrap", NoCred, NoCookie)
      <3>1. r \in Call
        BY RequestIsCall DEF Cookie
      <3>2. r.waiting /\ r.sent /\ r.answer = NoAnswer /\ r.kind = "bootstrap" /\ r.cred = NoCred
        BY RequestWaits
      <3> HIDE DEF r
      <3>3. NewRequest(r, others)
        BY <3>1, <3>2 DEF NewRequest
      <3> QED
        BY <2>1, <3>3 DEF r
    <2>2. CASE /\ calls' = Append(others, Request("redeem", client'.held, NoCookie))
               /\ client'.held # NoCred /\ ~c.redeeming
      <3>0. PICK h : h = client'.held
        OBVIOUS
      <3>1. h \in Cred \cup {NoCred}
        BY <3>0 DEF Opened, ClientFields
      <3> DEFINE r == Request("redeem", h, NoCookie)
      <3>2. r \in Call
        BY <3>1, RequestIsCall DEF Cookie
      <3>3. r.waiting /\ r.sent /\ r.answer = NoAnswer /\ r.kind = "redeem" /\ r.cred = h
        BY RequestWaits
      <3>4. calls' = Append(others, r)
        BY <2>2, <3>0
      <3> HIDE DEF r
      <3>5. NewRequest(r, others)
        BY <2>2, <3>0, <3>2, <3>3 DEF NewRequest
      <3> QED
        BY <3>4, <3>5
    <2> QED
      BY <2>1, <2>2 DEF Opened
  <1> QED
    BY <1>1, <1>2, <1>3 DEF Asks

\* An answer or a timeout in these terms.
LEMMA FinishShapes ==
    ASSUME "saveLate" \notin Events, TypeOK, SpendingInv, client.store,
           NEW i \in 1..Len(calls),
           FinishRedeem(i) \/ FinishClaim(i) \/ FinishLogout(i) \/ FinishBootstrap(i)
    PROVE  Takes(i) \/ \E ds : Asks(ds, {i})
  <1> DEFINE others == Settled([calls EXCEPT ![i].waiting = FALSE], i)
             answer == calls[i].answer
  <1> USE DEF TypeOK
  <1>1. Moved(calls, others, {i}, {}, NoAnswer)
    BY FinishMoved
  <1> HIDE DEF others
  <1>2. others \in Seq(Call) /\ Single(others)
    BY <1>1, MovedWaits, WaitingForms
  <1>3. Waits(others, {"redeem"}) <=> \E k \in 1..Len(calls) :
                      calls[k].waiting /\ calls[k].kind \in {"redeem"} /\ k \notin {i}
    BY <1>1, MovedWaits
  <1>4. ASSUME calls[i].kind # "redeem"
        PROVE  client.redeeming <=> Waits(others, {"redeem"})
    BY <1>3, <1>4, WaitingForms DEF Waits
  <1>5. ASSUME calls[i].kind = "redeem", calls[i].waiting
        PROVE  ~Waits(others, {"redeem"})
    BY <1>3, <1>5, WaitingForms DEF Waits, Single
  <1>6. answer.cred \in Cred \cup {NoCred} /\ answer.session \in Session \cup {NoCookie}
    BY AnswerTypes
  <1>7. ~Happens("saveLate")
    BY DEF Happens
  <1>8. UNCHANGED <<devices, drawn>>
    BY DEF FinishRedeem, FinishClaim, FinishLogout, FinishBootstrap, edge
  <1>9. Shrinks
    BY <1>8 DEF Shrinks
  \* A successful answer, to a claim or to a redemption.
  <1>10. ASSUME NEW c \in ClientFields, NEW spent \in BOOLEAN,
                c.held = client.held, c.store,
                Save([Signed(c, answer.cred, answer.session) EXCEPT !.spent = spent],
                     answer.cred),
                calls' = others, answer.status = 200,
                calls[i].waiting, calls[i].kind \in {"redeem", "claim"}
         PROVE  Takes(i) \/ \E ds : Asks(ds, {i})
    <2>0. PICK d : d = [Signed(c, answer.cred, answer.session) EXCEPT !.spent = spent]
      OBVIOUS
    <2>1. SignedAs(d, c, answer.cred, spent)
      <3>0. c \in ClientFields /\ spent \in BOOLEAN
        OBVIOUS
      <3> HIDE DEF answer, TypeOK
      <3>1. SignedAs([Signed(c, answer.cred, answer.session) EXCEPT !.spent = spent],
                     c, answer.cred, spent)
        BY <1>6, <3>0, SignedIsClient, ZenonT(60)
      <3> QED
        BY <2>0, <3>1
    <2>2. d \in ClientFields /\ Save(d, answer.cred)
      BY <1>10, <2>0, <2>1 DEF SignedAs
    <2>3. d.held = (IF answer.cred # NoCred THEN answer.cred ELSE client.held) /\ d.store
      BY <1>10, <2>1 DEF SignedAs
    <2>4. /\ client' = d /\ late' = late
          /\ answer.cred = NoCred => disk' = disk
          /\ answer.cred # NoCred => disk' \in {answer.cred, NoCred}
      <3> HIDE DEF answer
      <3> QED
        BY <1>6, <1>7, <2>2, <2>3, SaveEffect
    <2>5. CASE answer.cred # NoCred
      BY <1>1, <1>8, <1>10, <2>3, <2>4, <2>5 DEF Takes
    <2>6. CASE answer.cred = NoCred
      <3>1. Asks(others, {i})
        BY <1>1, <1>9, <1>10, <2>3, <2>4, <2>6 DEF Asks
      <3> QED
        BY <3>1
    <2> QED
      BY <2>5, <2>6
  <1>11. CASE FinishRedeem(i)
    <2>0. calls[i].kind = "redeem" /\ calls[i].waiting
      BY <1>11 DEF FinishRedeem
    <2>00. PICK c : c = [client EXCEPT !.redeeming = FALSE]
      OBVIOUS
    <2>1. c \in ClientFields /\ c.redeeming = FALSE /\ c.held = client.held /\ c.store
      BY <2>00 DEF ClientFields
    <2>3. CASE /\ answer.status = 200
               /\ Save([Signed(c, answer.cred, answer.session) EXCEPT !.spent = TRUE],
                       answer.cred)
               /\ calls' = others
      <3>1. TRUE \in BOOLEAN
        OBVIOUS
      <3> QED
        BY <1>10, <2>0, <2>1, <2>3, <3>1
    <2>4. CASE \E d \in {[c EXCEPT !.held = NoCred], [c EXCEPT !.hold = TRUE], c} :
                  /\ FallBack(d, others) /\ late' = late
                  /\ disk' \in {disk, NoCred}
      <3>1. PICK d \in {[c EXCEPT !.held = NoCred], [c EXCEPT !.hold = TRUE], c} :
                  /\ FallBack(d, others) /\ late' = late
                  /\ disk' \in {disk, NoCred}
        BY <2>4
      <3>2. /\ d \in ClientFields /\ d.redeeming = FALSE /\ d.store
            /\ d.held \in {client.held, NoCred}
        <4>1. CASE d = [c EXCEPT !.held = NoCred]
          BY <2>1, <4>1 DEF ClientFields
        <4>2. CASE d = [c EXCEPT !.hold = TRUE]
          BY <2>1, <4>2 DEF ClientFields
        <4> QED
          BY <2>1, <3>1, <4>1, <4>2
      <3>3. Opened(d, others) /\ client'.held = d.held
        BY <1>2, <3>1, <3>2, FallBackEffect
      <3>4. Asks(others, {i})
        BY <1>1, <1>5, <1>8, <2>0, <3>1, <3>2, <3>3, OpenedAsks
      <3> QED
        BY <3>4
    <2> QED
      BY <1>11, <2>00, <2>3, <2>4 DEF FinishRedeem, others
  <1>12. CASE FinishClaim(i)
    <2>0. calls[i].kind = "claim" /\ calls[i].waiting /\ calls' = others
      BY <1>12 DEF FinishClaim, others
    <2>00. PICK c : c = [client EXCEPT !.login = FALSE]
      OBVIOUS
    <2>1. c \in ClientFields /\ c.held = client.held /\ c.store
      BY <2>00 DEF ClientFields
    <2>2. PICK spent \in BOOLEAN : spent = (c.spent \/ answer.cred # NoCred)
      OBVIOUS
    <2>3. CASE /\ answer.status = 200
               /\ Save([Signed(c, answer.cred, answer.session) EXCEPT !.spent = spent],
                       answer.cred)
      BY <1>10, <2>0, <2>1, <2>3
    <2>4. CASE client' = c /\ UNCHANGED <<disk, late>>
      <3>1. Asks(others, {i})
        BY <1>1, <1>9, <2>0, <2>1, <2>4 DEF Asks
      <3> QED
        BY <3>1
    <2> QED
      BY <1>12, <2>00, <2>2, <2>3, <2>4 DEF FinishClaim
  <1>13. CASE FinishLogout(i)
    <2>0. PICK c : c = [client EXCEPT !.cookie = NoCookie, !.config = NoCookie]
      OBVIOUS
    <2>1. c \in ClientFields /\ c.redeeming = client.redeeming /\ c.held = client.held /\ c.store
      BY <2>0 DEF ClientFields, Cookie
    <2>2. OpenSession(c, others) /\ calls[i].kind = "logout" /\ UNCHANGED <<disk, late>>
      BY <1>13, <2>0 DEF FinishLogout, others
    <2>3. Opened(c, others)
      BY <1>2, <2>1, <2>2, OpenSessionEffect
    <2>4. Asks(others, {i})
      BY <1>1, <1>4, <1>8, <2>1, <2>2, <2>3, OpenedAsks
    <2> QED
      BY <2>4
  <1>14. CASE FinishBootstrap(i)
    <2>1. PICK cookie \in {Anon, NoCookie} :
              client' = ConnectToEdge([client EXCEPT !.cookie = cookie])
      BY <1>14 DEF FinishBootstrap
    <2>2. client'.held = client.held /\ client'.store
      BY <2>1 DEF ConnectToEdge, ClientFields
    <2>3. calls' = others /\ UNCHANGED <<disk, late>>
      BY <1>14 DEF FinishBootstrap, others
    <2>4. Asks(others, {i})
      BY <1>1, <1>9, <2>2, <2>3 DEF Asks
    <2> QED
      BY <2>4
  <1> QED
    BY <1>11, <1>12, <1>13, <1>14

\* The edge's handlers in these terms.
LEMMA HandlerShapes ==
    ASSUME TypeOK, NEW i \in 1..Len(calls),
           calls[i].kind = "redeem" => calls[i].cred # NoCred,
           \/ RedeemGranted(i) \/ RedeemUnmapped(i) \/ RedeemRefused(i)
           \/ RedeemTooMany(i) \/ RedeemStoreDown(i) \/ Claim(i)
           \/ Logout(i) \/ Bootstrap(i)
    PROVE  \E answer : \/ Denies(i, answer)
                       \/ \E next : Renews(i, answer, next)
                       \/ \E f, secret : Enlists(i, answer, f, secret)
  <1> USE DEF TypeOK
  <1> DEFINE Ans(status, session, cred) ==
                [status |-> status, session |-> session, cred |-> cred]
  <1>0. calls[i] \in Call /\ calls[i].cred \in Cred \cup {NoCred}
    <2>1. calls[i] \in Call
      OBVIOUS
    <2> QED
      BY <2>1 DEF Call
  <1>1. /\ calls[i].sent /\ UNCHANGED <<client, disk, late>>
        /\ InOrder => \A j \in 1..(i - 1) : ~calls[j].sent
    BY DEF RedeemGranted, RedeemUnmapped, RedeemRefused, RedeemTooMany, RedeemStoreDown,
           Claim, Logout, Bootstrap, Arrives
  <1>2. ASSUME NEW status, NEW session, NEW cred, Ans(status, session, cred) \in Answer,
               calls' = Replied(i, status, session, cred)
        PROVE  Handles(i, Ans(status, session, cred))
    <2>1. calls \in Seq(Call)
      OBVIOUS
    <2>2. Moved(calls, Replied(i, status, session, cred), {}, {i}, Ans(status, session, cred))
      BY <1>2, <2>1, RepliedMoved, Zenon
    <2> HIDE DEF Ans
    <2> QED
      BY <1>1, <1>2, <2>2 DEF Handles
  <1>3. /\ Ans(200, NoCookie, NoCred) \in Answer /\ Ans(404, NoCookie, NoCred) \in Answer
        /\ Ans(429, NoCookie, NoCred) \in Answer
    BY DEF Answer
  <1>4. \A status, session, cred : /\ Ans(status, session, cred).status = status
                                   /\ Ans(status, session, cred).cred = cred
    OBVIOUS
  <1>5. ASSUME RedeemGranted(i) \/ RedeemUnmapped(i)
        PROVE  \E answer, next : Renews(i, answer, next)
    <2>0. PICK f, verdict, row :
              /\ f = calls[i].cred.id /\ f \in DOMAIN devices
              /\ row = devices[f]
              /\ verdict = Verdict(row, calls[i].cred.secret)
              /\ verdict \in {"current", "overlap"}
              /\ calls[i].kind = "redeem"
      BY <1>5 DEF RedeemGranted, RedeemUnmapped, Arrives
    <2>1. PICK next \in Secret \ drawn :
              /\ devices' = [devices EXCEPT ![f] = Issue(row, next, verdict)]
              /\ drawn \cup {next} \subseteq drawn'
              /\ \/ RedeemUnmapped(i) /\ calls' = Replied(i, 404, NoCookie, NoCred)
                 \/ \E s \in Session :
                       calls' = Replied(i, 200, s, [id |-> f, secret |-> next])
      BY <1>5, <2>0 DEF RedeemGranted, RedeemUnmapped
    <2>2. /\ row \in Device /\ f \in Family
      BY <2>0
    <2>3. /\ Issue(row, next, verdict).cur = next
          /\ Issue(row, next, verdict).prev = IF verdict = "current" THEN row.cur ELSE row.prev
      BY <2>2, IssueTypes
    <2>4. /\ DOMAIN devices' = DOMAIN devices
          /\ devices'[f] = Issue(row, next, verdict)
          /\ \A g \in DOMAIN devices \ {f} : devices'[g] = devices[g]
      BY <2>0, <2>1
    <2>5. \/ verdict = "current" /\ calls[i].cred.secret = row.cur
          \/ verdict = "overlap" /\ calls[i].cred.secret = row.prev
      BY <2>0 DEF Verdict
    <2>6. ASSUME NEW answer, Handles(i, answer),
                 answer.cred \in {NoCred, [id |-> f, secret |-> next]},
                 answer.status = 404 => RedeemUnmapped(i)
          PROVE  Renews(i, answer, next)
      BY <2>0, <2>1, <2>3, <2>4, <2>5, <2>6 DEF Renews
    <2>7. CASE RedeemUnmapped(i) /\ calls' = Replied(i, 404, NoCookie, NoCred)
      <3> DEFINE a == Ans(404, NoCookie, NoCred)
      <3>1. Handles(i, a)
        BY <1>2, <1>3, <2>7
      <3>2. a.cred = NoCred
        BY <1>4
      <3> HIDE DEF a
      <3> QED
        BY <2>6, <2>7, <3>1, <3>2
    <2>8. CASE \E s \in Session : calls' = Replied(i, 200, s, [id |-> f, secret |-> next])
      <3>1. PICK s \in Session : calls' = Replied(i, 200, s, [id |-> f, secret |-> next])
        BY <2>8
      <3> DEFINE a == Ans(200, s, [id |-> f, secret |-> next])
      <3>2. a \in Answer
        BY <2>2 DEF Answer, Cred
      <3>3. Handles(i, a)
        BY <1>2, <3>1, <3>2
      <3>4. a.cred = [id |-> f, secret |-> next] /\ a.status = 200
        OBVIOUS
      <3> HIDE DEF a
      <3> QED
        BY <2>6, <3>3, <3>4
    <2> QED
      BY <2>1, <2>7, <2>8
  <1>6. ASSUME RedeemRefused(i)
        PROVE  \E answer : Denies(i, answer)
    <2> DEFINE a == Ans(404, NoCookie, NoCred)
    <2>1. Handles(i, a)
      BY <1>2, <1>3, <1>6 DEF RedeemRefused
    <2>2. a.cred = NoCred
      BY <1>4
    <2> HIDE DEF a
    <2>0. PICK f, secret : f = calls[i].cred.id /\ secret = calls[i].cred.secret
      OBVIOUS
    <2>3. PICK verdict :
              /\ verdict = IF f \notin DOMAIN devices THEN "stranger"
                           ELSE Verdict(devices[f], secret)
              /\ verdict \in {"stranger", "lapsed", "reuse"}
              /\ devices' = IF verdict = "stranger" THEN devices ELSE Without(devices, {f})
              /\ drawn' = drawn
      BY <1>6, <2>0 DEF RedeemRefused
    <2>4. Shrinks
      BY <2>3 DEF Shrinks, Without
    <2>5. ~(f \in DOMAIN devices' /\ secret \in {devices'[f].cur, devices'[f].prev})
      <3>1. CASE verdict = "stranger"
        <4>1. devices' = devices
          BY <2>3, <3>1
        <4>2. ASSUME f \in DOMAIN devices
              PROVE  secret \notin {devices[f].cur, devices[f].prev}
          <5>1. devices[f] \in Device /\ now \in Nat
            BY <4>2
          <5>2. now - devices[f].retired \in Int /\ Overlap \in Int
            BY <5>1, DeviceAssumption DEF Device
          <5> QED
            BY <2>3, <3>1, <4>2, <5>2 DEF Verdict
        <4> QED
          BY <4>1, <4>2
      <3>2. CASE verdict # "stranger"
        BY <2>3, <3>2 DEF Without
      <3> QED
        BY <3>1, <3>2
    <2>6. Denies(i, a)
      BY <2>0, <2>1, <2>2, <2>4, <2>5 DEF Denies
    <2> QED
      BY <2>6
  <1>7. ASSUME RedeemTooMany(i) \/ RedeemStoreDown(i) \/ Logout(i) \/ Bootstrap(i)
        PROVE  \E answer : Denies(i, answer)
    <2>1. Shrinks
      BY <1>7 DEF RedeemTooMany, RedeemStoreDown, Logout, Bootstrap, Shrinks, edge, Without
    <2>2. CASE RedeemTooMany(i)
      <3> DEFINE a == Ans(429, NoCookie, NoCred)
      <3>1. Handles(i, a)
        BY <1>2, <1>3, <2>2 DEF RedeemTooMany
      <3>2. a.cred = NoCred /\ a.status = 429
        BY <1>4
      <3> HIDE DEF a
      <3>3. Denies(i, a)
        BY <2>1, <3>1, <3>2 DEF Denies
      <3> QED
        BY <3>3
    <2>3. CASE RedeemStoreDown(i)
      <3> DEFINE a == Ans(404, NoCookie, NoCred)
      <3>1. Handles(i, a)
        BY <1>2, <1>3, <2>3 DEF RedeemStoreDown
      <3>2. a.cred = NoCred
        BY <1>4
      <3> HIDE DEF a
      <3>3. Denies(i, a)
        BY <2>1, <2>3, <3>1, <3>2 DEF Denies
      <3> QED
        BY <3>3
    <2>4. CASE Logout(i) \/ Bootstrap(i)
      <3> DEFINE a == Ans(200, NoCookie, NoCred)
      <3>1. Handles(i, a)
        BY <1>2, <1>3, <2>4 DEF Logout, Bootstrap
      <3>2. a.cred = NoCred /\ a.status = 200
        BY <1>4
      <3> HIDE DEF a
      <3>3. Denies(i, a)
        BY <2>1, <3>1, <3>2 DEF Denies
      <3> QED
        BY <3>3
    <2> QED
      BY <1>7, <2>2, <2>3, <2>4
  <1>8. ASSUME Claim(i)
        PROVE  \E answer : Denies(i, answer) \/ \E f, secret : Enlists(i, answer, f, secret)
    <2>0. PICK s : s = calls[i].cookie
      OBVIOUS
    <2>1. calls[i].kind = "claim"
      BY <1>8 DEF Claim, Arrives
    <2>2. CASE calls' = Replied(i, 404, NoCookie, NoCred)
               /\ UNCHANGED <<devices, bindings, drawn, history>>
      <3> DEFINE a == Ans(404, NoCookie, NoCred)
      <3>1. Handles(i, a)
        BY <1>2, <1>3, <2>2
      <3>2. a.cred = NoCred
        BY <1>4
      <3> HIDE DEF a
      <3>3. Denies(i, a)
        BY <2>1, <2>2, <3>1, <3>2 DEF Denies, Shrinks
      <3> QED
        BY <3>3
    <2>3. CASE s \in claims /\ calls' = Replied(i, 200, s, NoCred)
               /\ UNCHANGED <<devices, bindings, drawn, history>>
      <3> DEFINE a == Ans(200, s, NoCred)
      <3>0. a \in Answer
        BY <2>3 DEF Answer
      <3>1. Handles(i, a)
        BY <1>2, <2>3, <3>0
      <3>2. a.cred = NoCred
        OBVIOUS
      <3> HIDE DEF a
      <3>3. Denies(i, a)
        BY <2>1, <2>3, <3>1, <3>2 DEF Denies, Shrinks
      <3> QED
        BY <3>3
    <2>4. CASE /\ s \in claims
               /\ \E f \in Family \ drawn, secret \in Secret \ drawn :
                     /\ devices' = Put(Purged(devices), f, NewDevice(secret))
                     /\ drawn' = drawn \cup {f, secret}
                     /\ calls' = Replied(i, 200, s, [id |-> f, secret |-> secret])
      <3>1. PICK f \in Family \ drawn, secret \in Secret \ drawn :
                     /\ devices' = Put(Purged(devices), f, NewDevice(secret))
                     /\ drawn' = drawn \cup {f, secret}
                     /\ calls' = Replied(i, 200, s, [id |-> f, secret |-> secret])
        BY <2>4
      <3> DEFINE a == Ans(200, s, [id |-> f, secret |-> secret])
      <3>2. a \in Answer
        BY <2>4 DEF Answer, Cred
      <3>3. Handles(i, a)
        BY <1>2, <3>1, <3>2
      <3>4. a.cred = [id |-> f, secret |-> secret]
        OBVIOUS
      <3> HIDE DEF a
      <3>5. NewDevice(secret).cur = secret /\ NewDevice(secret).prev = NoSecret
        BY DEF NewDevice
      <3>6. /\ DOMAIN Purged(devices) \subseteq DOMAIN devices
            /\ \A g \in DOMAIN Purged(devices) : Purged(devices)[g] = devices[g]
        BY PurgeTypes
      <3>7. /\ DOMAIN devices' \subseteq DOMAIN devices \cup {f}
            /\ \A g \in DOMAIN devices' \ {f} : devices'[g] = devices[g]
            /\ f \in DOMAIN devices' => devices'[f].cur = secret /\ devices'[f].prev = NoSecret
        BY <3>1, <3>5, <3>6 DEF Put
      <3>8. Enlists(i, a, f, secret)
        BY <2>1, <3>1, <3>3, <3>4, <3>7 DEF Enlists
      <3> QED
        BY <3>8
    <2> QED
      BY <1>8, <2>0, <2>2, <2>3, <2>4 DEF Claim
  <1> QED
    BY <1>5, <1>6, <1>7, <1>8

\* Every step in these terms, as long as no write is abandoned.
LEMMA StorageShapes ==
    ASSUME "saveLate" \notin Events, TypeOK, SpendingInv, client.store, late = {},
           \A i \in 1..Len(calls) : calls[i].kind = "redeem" => calls[i].cred # NoCred,
           [Next]_vars
    PROVE  \/ \E ds, gone : Asks(ds, gone)
           \/ \E i : Takes(i)
           \/ \E i, answer : \/ Denies(i, answer)
                             \/ \E next : Renews(i, answer, next)
                             \/ \E f, secret : Enlists(i, answer, f, secret)
  <1> USE DEF TypeOK
  <1>1. CASE Launch \/ ReconnectTimer
    <2>1. PICK d \in {client, [client EXCEPT !.timer = FALSE]} : OpenSession(d, calls)
      BY <1>1 DEF Launch, ReconnectTimer
    <2>2. /\ d \in ClientFields /\ d.redeeming = client.redeeming
          /\ d.held = client.held /\ d.store
      BY DEF ClientFields
    <2>3. Opened(d, calls)
      BY <2>1, <2>2, OpenSessionEffect
    <2>4. Moved(calls, calls, {}, {}, NoAnswer)
      BY StaysMoved
    <2>5. UNCHANGED <<devices, drawn, late, disk>>
      BY <1>1 DEF Launch, ReconnectTimer, edge
    <2>6. Asks(calls, {})
      BY <2>2, <2>3, <2>4, <2>5, WaitingForms, OpenedAsks
    <2> QED
      BY <2>6
  <1>2. CASE Finish
    <2>1. PICK i \in 1..Len(calls) : FinishRedeem(i) \/ FinishClaim(i) \/ FinishLogout(i)
                                     \/ FinishBootstrap(i)
      BY <1>2 DEF Finish
    <2>2. Takes(i) \/ \E ds : Asks(ds, {i})
      BY <2>1, FinishShapes
    <2> QED
      BY <2>2
  <1>3. CASE EdgeStep
    <2>1. PICK i \in 1..Len(calls) :
                 \/ RedeemGranted(i) \/ RedeemUnmapped(i) \/ RedeemRefused(i)
                 \/ RedeemTooMany(i) \/ RedeemStoreDown(i) \/ Claim(i)
                 \/ Logout(i) \/ Bootstrap(i)
      BY <1>3 DEF EdgeStep
    <2>2. \E answer : \/ Denies(i, answer)
                      \/ \E next : Renews(i, answer, next)
                      \/ \E f, secret : Enlists(i, answer, f, secret)
      BY <2>1, HandlerShapes
    <2> QED
      BY <2>2
  <1>4. CASE SocketAccepted \/ SocketLost \/ HandshakeTimeout \/ HoldOver \/ BeginLogin \/ Rotate
             \/ SessionExpired \/ EdgeRestart \/ Tick \/ UNCHANGED vars
    <2>1. calls' = calls /\ disk' = disk /\ late' = late
      BY <1>4 DEF SocketAccepted, SocketLost, HandshakeTimeout, HoldOver, BeginLogin, Rotate,
                  SessionExpired, EdgeRestart, Tick, vars
    <2>2. client'.held = client.held /\ client'.store
      <3>1. CASE SocketAccepted \/ Rotate
        BY <3>1 DEF SocketAccepted, Rotate, ClientFields
      <3>3. CASE HoldOver \/ BeginLogin
        BY <3>3 DEF HoldOver, BeginLogin, ClientFields
      <3>2. CASE SocketLost
        BY <3>2 DEF SocketLost, OnDisconnected, ClientFields
      <3>4. CASE HandshakeTimeout
        BY <3>4 DEF HandshakeTimeout, OnDisconnected, ClientFields
      <3> QED
        BY <1>4, <3>1, <3>2, <3>3, <3>4 DEF SessionExpired, EdgeRestart, Tick, vars
    <2>3. Shrinks
      <3>1. CASE EdgeRestart
        BY <3>1, PurgeTypes DEF EdgeRestart, Shrinks
      <3>2. CASE Rotate
        BY <3>2 DEF Rotate, Shrinks
      <3> QED
        BY <1>4, <3>1, <3>2 DEF SocketAccepted, SocketLost, HandshakeTimeout, HoldOver,
                  BeginLogin, SessionExpired, Tick, vars, edge, Shrinks
    <2>4. Moved(calls, calls, {}, {}, NoAnswer)
      BY StaysMoved
    <2>5. Asks(calls, {})
      BY <2>1, <2>2, <2>3, <2>4 DEF Asks
    <2> QED
      BY <2>5
  <1>5. CASE LateWrite
    BY <1>5 DEF LateWrite
  <1>6. CASE LoginAnswer \/ EndSession
    <2>1. PICK r : NewRequest(r, calls) /\ calls' = Append(calls, r)
      <3>1. CASE LoginAnswer
        <4>1. PICK s \in Session : calls' = Append(calls, Request("claim", NoCred, s))
          BY <3>1 DEF LoginAnswer
        <4> DEFINE r == Request("claim", NoCred, s)
        <4>2. r \in Call
          BY RequestIsCall DEF Cookie
        <4>3. r.waiting /\ r.sent /\ r.answer = NoAnswer /\ r.kind = "claim" /\ r.cred = NoCred
          BY RequestWaits
        <4>4. calls' = Append(calls, r) /\ client.login
          BY <3>1, <4>1 DEF LoginAnswer
        <4> HIDE DEF r
        <4>5. NewRequest(r, calls)
          BY <4>2, <4>3, <4>4 DEF NewRequest
        <4> QED
          BY <4>4, <4>5
      <3>2. CASE EndSession
        <4>1. client.cookie \in Cookie
          BY DEF ClientFields
        <4> DEFINE r == Request("logout", NoCred, client.cookie)
        <4>2. r \in Call
          BY <4>1, RequestIsCall
        <4>3. r.waiting /\ r.sent /\ r.answer = NoAnswer /\ r.kind = "logout" /\ r.cred = NoCred
          BY RequestWaits
        <4>4. calls' = Append(calls, r)
          BY <3>2 DEF EndSession
        <4> HIDE DEF r
        <4>5. NewRequest(r, calls)
          BY <4>2, <4>3 DEF NewRequest
        <4> QED
          BY <4>4, <4>5
      <3> QED
        BY <1>6, <3>1, <3>2
    <2>2. /\ client'.held \in {client.held, NoCred} /\ client'.store
          /\ disk' \in {disk, NoCred} /\ late' = late
      BY <1>6 DEF LoginAnswer, EndSession, ClientFields
    <2>3. Shrinks
      BY <1>6 DEF LoginAnswer, EndSession, edge, Shrinks
    <2>4. Moved(calls, calls, {}, {}, NoAnswer)
      BY StaysMoved
    <2>5. Asks(calls, {})
      BY <2>1, <2>2, <2>3, <2>4 DEF Asks
    <2> QED
      BY <2>5
  <1>7. CASE Crash
    <2>1. Moved(calls, calls', 1..Len(calls), {}, NoAnswer)
      BY <1>7, CrashMoved DEF Crash
    <2>2. client'.held = NoCred /\ client'.store /\ UNCHANGED <<devices, drawn, disk, late>>
      BY <1>7 DEF Crash, Offline, edge
    <2>3. Asks(calls', 1..Len(calls))
      BY <2>1, <2>2 DEF Asks, Shrinks
    <2> QED
      BY <2>3
  <1>8. CASE RequestLost
    <2>1. PICK i \in 1..Len(calls) : ~calls[i].waiting /\ calls' = RemoveAt(calls, i)
      BY <1>8 DEF RequestLost
    <2>2. Moved(calls, calls', {}, {}, NoAnswer)
      BY <2>1, LostMoved
    <2>3. UNCHANGED <<client, devices, drawn, disk, late>>
      BY <1>8 DEF RequestLost, edge
    <2>4. Asks(calls', {})
      BY <2>2, <2>3 DEF Asks, Shrinks
    <2> QED
      BY <2>4
  <1> QED
    BY <1>1, <1>2, <1>3, <1>4, <1>5, <1>6, <1>7, <1>8 DEF Next

(***************************************************************************)
(* Where credentials come from: every one of them was drawn, and memory    *)
(* and disk agree.                                                         *)
(***************************************************************************)
Genuine(cred, names) == cred = NoCred \/ (cred.id \in names /\ cred.secret \in names)
GenuineCalls(cs, names) ==
    \A i \in 1..Len(cs) : /\ cs[i].kind = "redeem" => cs[i].cred # NoCred
                          /\ Genuine(cs[i].cred, names)
                          /\ Genuine(cs[i].answer.cred, names)
GenuineRows(rows, names) ==
    \A f \in DOMAIN rows : rows[f].cur \in names /\ rows[f].prev \in names \cup {NoSecret}

\* CredentialsAreDrawn in these terms, before a step and after.
LEMMA GenuineForms ==
    CredentialsAreDrawn <=>
        /\ Genuine(disk, drawn) /\ Genuine(client.held, drawn)
        /\ \A cred \in late : Genuine(cred, drawn)
        /\ GenuineCalls(calls, drawn) /\ GenuineRows(devices, drawn)
  BY DEF CredentialsAreDrawn, Credentials, Genuine, GenuineCalls, GenuineRows

LEMMA GenuineFormsNext ==
    CredentialsAreDrawn' <=>
        /\ Genuine(disk', drawn') /\ Genuine(client'.held, drawn')
        /\ \A cred \in late' : Genuine(cred, drawn')
        /\ GenuineCalls(calls', drawn') /\ GenuineRows(devices', drawn')
  BY DEF CredentialsAreDrawn, Credentials, Genuine, GenuineCalls, GenuineRows

\* Calls stay genuine while they move, if the answer given to one is.
LEMMA MovedGenuine ==
    ASSUME NEW cs \in Seq(Call), NEW ds, NEW gone, NEW handled, NEW answer,
           Moved(cs, ds, gone, handled, answer), NEW names, NEW more, names \subseteq more,
           GenuineCalls(cs, names), handled # {} => Genuine(answer.cred, more)
    PROVE  GenuineCalls(ds, more)
  <1>1. PICK g : MovedBy(g, cs, ds, gone, handled, answer)
    BY DEF Moved
  <1>2. \A cred : Genuine(cred, names) => Genuine(cred, more)
    BY DEF Genuine
  <1> SUFFICES ASSUME NEW i \in 1..Len(ds)
               PROVE  /\ ds[i].kind = "redeem" => ds[i].cred # NoCred
                      /\ Genuine(ds[i].cred, more)
                      /\ Genuine(ds[i].answer.cred, more)
    BY DEF GenuineCalls
  <1>3. /\ g[i] \in 1..Len(cs) /\ ds[i].kind = cs[g[i]].kind /\ ds[i].cred = cs[g[i]].cred
        /\ ds[i].answer = IF g[i] \in handled THEN answer ELSE cs[g[i]].answer
    BY <1>1 DEF MovedBy, Kept
  <1>4. /\ cs[g[i]].kind = "redeem" => cs[g[i]].cred # NoCred
        /\ Genuine(cs[g[i]].cred, names) /\ Genuine(cs[g[i]].answer.cred, names)
    BY <1>3 DEF GenuineCalls
  <1>5. CASE g[i] \in handled
    BY <1>2, <1>3, <1>4, <1>5
  <1>6. CASE g[i] \notin handled
    BY <1>2, <1>3, <1>4, <1>6
  <1> QED
    BY <1>5, <1>6

LEMMA AppendGenuine ==
    ASSUME NEW ds \in Seq(Call), NEW r \in Call, NEW names, GenuineCalls(ds, names),
           r.kind = "redeem" => r.cred # NoCred, Genuine(r.cred, names), r.answer = NoAnswer
    PROVE  GenuineCalls(Append(ds, r), names)
  <1> DEFINE es == Append(ds, r)
             n  == Len(ds) + 1
  <1>1. /\ Len(es) = n /\ n \in Nat /\ n \in 1..n /\ es[n] = r
        /\ \A i \in 1..n : i = n \/ i \in 1..Len(ds)
        /\ \A i \in 1..Len(ds) : i \in 1..n /\ i # n /\ es[i] = ds[i]
    OBVIOUS
  <1>2. Genuine(r.answer.cred, names)
    BY DEF Genuine, NoAnswer
  <1> HIDE DEF es, n
  <1>3. GenuineCalls(es, names)
    BY <1>1, <1>2 DEF GenuineCalls
  <1> QED
    BY <1>3 DEF es

\* A store that never abandons a write: every credential is genuine, and what the client
\* holds is what it stored.
StoreInv == late = {} /\ client.store /\ CredentialsAreDrawn /\ HeldIsStored

LEMMA AskKeepsStore ==
    ASSUME TypeOK, StoreInv, NEW ds, NEW gone, Asks(ds, gone)
    PROVE  StoreInv'
  <1>1. /\ Genuine(disk, drawn) /\ Genuine(client.held, drawn)
        /\ GenuineCalls(calls, drawn) /\ GenuineRows(devices, drawn)
    BY GenuineForms DEF StoreInv
  <1>2. \A cred : Genuine(cred, drawn) => Genuine(cred, drawn')
    BY DEF Genuine, Asks, Shrinks
  <1>3. Genuine(disk', drawn') /\ Genuine(client'.held, drawn')
    <2>1. Genuine(NoCred, drawn')
      BY DEF Genuine
    <2> QED
      BY <1>1, <1>2, <2>1 DEF Asks
  <1>4. late' = {} /\ client'.store /\ HeldIsStored'
    BY DEF Asks, StoreInv, HeldIsStored
  <1>5. GenuineRows(devices', drawn')
    BY <1>1 DEF Asks, Shrinks, GenuineRows
  <1>6. ds \in Seq(Call) /\ GenuineCalls(ds, drawn')
    <2>1. calls \in Seq(Call) /\ Moved(calls, ds, gone, {}, NoAnswer) /\ drawn \subseteq drawn'
      BY DEF TypeOK, Asks, Shrinks
    <2> QED
      BY <1>1, <2>1, MovedGenuine DEF Moved
  <1>7. GenuineCalls(calls', drawn')
    <2>1. CASE calls' = ds
      BY <1>6, <2>1
    <2>2. CASE \E r : calls' = Append(ds, r) /\ NewRequest(r, ds)
      <3>1. PICK r : calls' = Append(ds, r) /\ NewRequest(r, ds)
        BY <2>2
      <3>2. /\ r \in Call /\ r.answer = NoAnswer
            /\ r.kind = "redeem" => r.cred # NoCred
            /\ Genuine(r.cred, drawn')
        BY <1>3, <3>1 DEF NewRequest, Genuine
      <3> QED
        BY <1>6, <3>1, <3>2, AppendGenuine
    <2> QED
      BY <2>1, <2>2 DEF Asks
  <1> QED
    BY <1>3, <1>4, <1>5, <1>7, GenuineFormsNext DEF StoreInv

LEMMA TakeKeepsStore ==
    ASSUME TypeOK, StoreInv, NEW i, Takes(i)
    PROVE  StoreInv'
  <1>1. /\ Genuine(calls[i].answer.cred, drawn)
        /\ GenuineCalls(calls, drawn) /\ GenuineRows(devices, drawn)
    BY GenuineForms DEF StoreInv, Takes, GenuineCalls
  <1>2. Genuine(disk', drawn') /\ Genuine(client'.held, drawn')
    BY <1>1 DEF Genuine, Takes
  <1>3. late' = {} /\ client'.store /\ HeldIsStored'
    BY DEF Takes, StoreInv, HeldIsStored
  <1>4. GenuineCalls(calls', drawn')
    <2>1. calls \in Seq(Call) /\ Moved(calls, calls', {i}, {}, NoAnswer) /\ drawn' = drawn
      BY DEF TypeOK, Takes
    <2> QED
      BY <1>1, <2>1, MovedGenuine
  <1> QED
    BY <1>1, <1>2, <1>3, <1>4, GenuineFormsNext DEF StoreInv, Takes

LEMMA HandleKeepsStore ==
    ASSUME TypeOK, StoreInv, NEW i, NEW answer, Handles(i, answer),
           drawn \subseteq drawn', Genuine(answer.cred, drawn'), GenuineRows(devices', drawn')
    PROVE  StoreInv'
  <1>1. /\ Genuine(disk, drawn) /\ Genuine(client.held, drawn) /\ GenuineCalls(calls, drawn)
    BY GenuineForms DEF StoreInv
  <1>2. Genuine(disk', drawn') /\ Genuine(client'.held, drawn')
    BY <1>1 DEF Genuine, Handles
  <1>3. late' = {} /\ client'.store /\ HeldIsStored'
    BY DEF Handles, StoreInv, HeldIsStored
  <1>4. GenuineCalls(calls', drawn')
    <2>1. calls \in Seq(Call) /\ Moved(calls, calls', {}, {i}, answer)
      BY DEF TypeOK, Handles
    <2> QED
      BY <1>1, <2>1, MovedGenuine
  <1> QED
    BY <1>2, <1>3, <1>4, GenuineFormsNext DEF StoreInv

LEMMA NextKeepsStore ==
    ASSUME "saveLate" \notin Events, TypeOK, SpendingInv, StoreInv, [Next]_vars
    PROVE  StoreInv'
  <1>0. GenuineCalls(calls, drawn) /\ GenuineRows(devices, drawn)
    BY GenuineForms DEF StoreInv
  <1>1. ASSUME NEW i, NEW answer, Denies(i, answer)
        PROVE  StoreInv'
    <2>1. Handles(i, answer) /\ drawn \subseteq drawn' /\ Genuine(answer.cred, drawn')
      BY <1>1 DEF Denies, Shrinks, Genuine
    <2>2. GenuineRows(devices', drawn')
      BY <1>0, <1>1 DEF Denies, Shrinks, GenuineRows
    <2> QED
      BY <2>1, <2>2, HandleKeepsStore
  <1>2. ASSUME NEW i, NEW answer, NEW next, Renews(i, answer, next)
        PROVE  StoreInv'
    <2>0. PICK f : f = calls[i].cred.id
      OBVIOUS
    <2>1. Handles(i, answer) /\ drawn \subseteq drawn' /\ next \in drawn'
      BY <1>2 DEF Renews
    <2>2. f \in drawn /\ calls[i].cred.secret \in drawn
      BY <1>0, <1>2, <2>0 DEF Renews, Handles, GenuineCalls, Genuine
    <2>3. Genuine(answer.cred, drawn')
      BY <1>2, <2>0, <2>1, <2>2 DEF Renews, Genuine
    <2>4. GenuineRows(devices', drawn')
      BY <1>0, <1>2, <2>0, <2>1, <2>2 DEF Renews, GenuineRows
    <2> QED
      BY <2>1, <2>3, <2>4, HandleKeepsStore
  <1>3. ASSUME NEW i, NEW answer, NEW f, NEW secret, Enlists(i, answer, f, secret)
        PROVE  StoreInv'
    <2>1. /\ Handles(i, answer) /\ drawn \subseteq drawn' /\ f \in drawn' /\ secret \in drawn'
          /\ Genuine(answer.cred, drawn')
      BY <1>3 DEF Enlists, Genuine
    <2>2. GenuineRows(devices', drawn')
      BY <1>0, <1>3, <2>1 DEF Enlists, GenuineRows
    <2> QED
      BY <2>1, <2>2, HandleKeepsStore
  <1>4. \A i \in 1..Len(calls) : calls[i].kind = "redeem" => calls[i].cred # NoCred
    BY <1>0 DEF GenuineCalls
  <1>5. \/ \E ds, gone : Asks(ds, gone)
        \/ \E i : Takes(i)
        \/ \E i, answer : \/ Denies(i, answer)
                          \/ \E next : Renews(i, answer, next)
                          \/ \E f, secret : Enlists(i, answer, f, secret)
    BY <1>4, StorageShapes DEF StoreInv
  <1> QED
    BY <1>1, <1>2, <1>3, <1>5, AskKeepsStore, TakeKeepsStore

(***************************************************************************)
(* What is stored stays known to the edge, while requests reach it in      *)
(* order.                                                                  *)
(***************************************************************************)
Ordered(cs) ==
    /\ \A i \in 1..Len(cs) : cs[i].sent => cs[i].answer = NoAnswer
    /\ \A i, j \in 1..Len(cs) :
          /\ cs[i].waiting /\ cs[i].kind = "redeem"
          /\ cs[j].kind = "redeem" /\ cs[j].sent
          => j =< i /\ cs[i].sent
SentAs(cs, cred) ==
    \A j \in 1..Len(cs) :
        /\ cs[j].kind = "redeem" /\ cs[j].sent
        /\ cred # NoCred /\ cred.id = cs[j].cred.id
        => cs[j].cred.secret = cred.secret
LiveIn(cs, rows) ==
    \A i \in 1..Len(cs) :
        /\ cs[i].waiting /\ cs[i].kind \in {"redeem", "claim"}
        /\ cs[i].answer.cred # NoCred /\ cs[i].answer.cred.id \in DOMAIN rows
        => rows[cs[i].answer.cred.id].cur = cs[i].answer.cred.secret
NotOf(cred, f) == cred = NoCred \/ cred.id # f
PrivateIn(cs, stored, held) ==
    \A i \in 1..Len(cs) :
        cs[i].waiting /\ cs[i].kind = "claim" /\ cs[i].answer.cred # NoCred =>
            /\ NotOf(stored, cs[i].answer.cred.id) /\ NotOf(held, cs[i].answer.cred.id)
            /\ \A j \in 1..Len(cs) : j # i =>
                  /\ cs[j].kind = "redeem" => cs[j].cred.id # cs[i].answer.cred.id
                  /\ NotOf(cs[j].answer.cred, cs[i].answer.cred.id)

\* The invariant in these terms, before a step and after.
LEMMA StorageForms ==
    StorageInv <=> /\ StoreInv /\ Ordered(calls) /\ SentAs(calls, disk)
                   /\ LiveIn(calls, devices) /\ PrivateIn(calls, disk, client.held)
                   /\ StoredCredentialIsKnown
  <1>1. AnsweredInOrder <=> Ordered(calls)
    BY DEF AnsweredInOrder, Ordered, Waiting, Sent
  <1>2. SentIsStored <=> SentAs(calls, disk)
    BY DEF SentIsStored, SentAs, Sent
  <1>3. AnswerIsLive <=> LiveIn(calls, devices)
    BY DEF AnswerIsLive, LiveIn, Waiting
  <1>4. EnrolmentIsPrivate <=> PrivateIn(calls, disk, client.held)
    BY DEF EnrolmentIsPrivate, PrivateIn, Waiting, NotOf
  <1> QED
    BY <1>1, <1>2, <1>3, <1>4 DEF StorageInv, StoreInv

LEMMA StorageFormsNext ==
    StorageInv' <=> /\ StoreInv' /\ Ordered(calls') /\ SentAs(calls', disk')
                    /\ LiveIn(calls', devices') /\ PrivateIn(calls', disk', client'.held)
                    /\ StoredCredentialIsKnown'
  <1>1. AnsweredInOrder' <=> Ordered(calls')
    BY DEF AnsweredInOrder, Ordered, Waiting, Sent
  <1>2. SentIsStored' <=> SentAs(calls', disk')
    BY DEF SentIsStored, SentAs, Sent
  <1>3. AnswerIsLive' <=> LiveIn(calls', devices')
    BY DEF AnswerIsLive, LiveIn, Waiting
  <1>4. EnrolmentIsPrivate' <=> PrivateIn(calls', disk', client'.held)
    BY DEF EnrolmentIsPrivate, PrivateIn, Waiting, NotOf
  <1> QED
    BY <1>1, <1>2, <1>3, <1>4 DEF StorageInv, StoreInv

\* The client giving up calls, and the edge answering the first one sent, leave the calls
\* in order.
LEMMA MovedOrdered ==
    ASSUME NEW cs \in Seq(Call), NEW ds, NEW gone, NEW handled, NEW answer,
           Moved(cs, ds, gone, handled, answer), Ordered(cs),
           \A i \in handled : i \in 1..Len(cs) /\ \A j \in 1..(i - 1) : ~cs[j].sent
    PROVE  Ordered(ds)
  <1>1. PICK g : MovedBy(g, cs, ds, gone, handled, answer)
    BY DEF Moved
  <1>2. ASSUME NEW i \in 1..Len(ds), ds[i].sent
        PROVE  ds[i].answer = NoAnswer
    <2>1. /\ g[i] \in 1..Len(cs) /\ cs[g[i]].sent
          /\ ds[i].answer = cs[g[i]].answer
      BY <1>1, <1>2 DEF MovedBy
    <2> QED
      BY <2>1 DEF Ordered
  <1>3. ASSUME NEW i \in 1..Len(ds), NEW j \in 1..Len(ds),
               ds[i].waiting, ds[i].kind = "redeem", ds[j].kind = "redeem", ds[j].sent
        PROVE  j =< i /\ ds[i].sent
    <2>1. /\ g[i] \in 1..Len(cs) /\ g[j] \in 1..Len(cs)
          /\ cs[g[i]].waiting /\ cs[g[i]].kind = "redeem"
          /\ cs[g[j]].kind = "redeem" /\ cs[g[j]].sent /\ g[j] \notin handled
          /\ ds[i].sent <=> cs[g[i]].sent /\ g[i] \notin handled
      BY <1>1, <1>3 DEF MovedBy, Kept
    <2>2. g[j] =< g[i] /\ cs[g[i]].sent
      BY <2>1 DEF Ordered
    <2>3. i \in Int /\ j \in Int /\ g[i] \in Int /\ g[j] \in Int
      BY <2>1
    <2>4. ~(i < j)
      BY <1>1, <2>2, <2>3 DEF MovedBy
    <2>5. g[i] \notin handled
      <3> SUFFICES ASSUME g[i] \in handled
                   PROVE  FALSE
        OBVIOUS
      <3>1. g[j] # g[i]
        BY <2>1
      <3>2. g[j] \in 1..(g[i] - 1)
        BY <2>1, <2>2, <2>3, <3>1
      <3> QED
        BY <2>1, <3>2
    <2> QED
      BY <2>1, <2>2, <2>3, <2>4, <2>5
  <1> QED
    BY <1>2, <1>3 DEF Ordered

\* A call that moved came from a call.
LEMMA MovedSent ==
    ASSUME NEW cs \in Seq(Call), NEW ds, NEW gone, NEW handled, NEW answer,
           Moved(cs, ds, gone, handled, answer), NEW cred, SentAs(cs, cred)
    PROVE  SentAs(ds, cred)
  <1>1. PICK g : MovedBy(g, cs, ds, gone, handled, answer)
    BY DEF Moved
  <1> SUFFICES ASSUME NEW j \in 1..Len(ds), ds[j].kind = "redeem", ds[j].sent,
                      cred # NoCred, cred.id = ds[j].cred.id
               PROVE  ds[j].cred.secret = cred.secret
    BY DEF SentAs
  <1>2. /\ g[j] \in 1..Len(cs) /\ cs[g[j]].sent /\ cs[g[j]].kind = "redeem"
        /\ ds[j].cred = cs[g[j]].cred
    BY <1>1 DEF MovedBy, Kept
  <1> QED
    BY <1>2 DEF SentAs

\* Answers stay live while rows are only lost.
LEMMA MovedLive ==
    ASSUME NEW cs \in Seq(Call), NEW ds, NEW gone, NEW handled, NEW answer,
           Moved(cs, ds, gone, handled, answer), handled # {} => answer.cred = NoCred,
           NEW rows, NEW left, LiveIn(cs, rows),
           DOMAIN left \subseteq DOMAIN rows, \A f \in DOMAIN left : left[f] = rows[f]
    PROVE  LiveIn(ds, left)
  <1>1. PICK g : MovedBy(g, cs, ds, gone, handled, answer)
    BY DEF Moved
  <1> SUFFICES ASSUME NEW i \in 1..Len(ds), ds[i].waiting, ds[i].kind \in {"redeem", "claim"},
                      ds[i].answer.cred # NoCred, ds[i].answer.cred.id \in DOMAIN left
               PROVE  left[ds[i].answer.cred.id].cur = ds[i].answer.cred.secret
    BY DEF LiveIn
  <1>2. /\ g[i] \in 1..Len(cs) /\ cs[g[i]].waiting /\ cs[g[i]].kind = ds[i].kind
        /\ ds[i].answer = IF g[i] \in handled THEN answer ELSE cs[g[i]].answer
    BY <1>1 DEF MovedBy, Kept
  <1>3. ds[i].answer = cs[g[i]].answer
    BY <1>2
  <1>4. rows[cs[g[i]].answer.cred.id].cur = cs[g[i]].answer.cred.secret
    BY <1>2, <1>3 DEF LiveIn
  <1> QED
    BY <1>3, <1>4

\* Enrolments stay private while what is stored and held is not of their families.
LEMMA MovedPrivate ==
    ASSUME NEW cs \in Seq(Call), NEW ds, NEW gone, NEW handled, NEW answer,
           Moved(cs, ds, gone, handled, answer), handled # {} => answer.cred = NoCred,
           NEW stored, NEW held, PrivateIn(cs, stored, held), NEW stored2, NEW held2,
           \A i \in 1..Len(cs) :
              /\ cs[i].waiting /\ cs[i].kind = "claim" /\ cs[i].answer.cred # NoCred
              /\ i \notin gone
              => NotOf(stored2, cs[i].answer.cred.id) /\ NotOf(held2, cs[i].answer.cred.id)
    PROVE  PrivateIn(ds, stored2, held2)
  <1>1. PICK g : MovedBy(g, cs, ds, gone, handled, answer)
    BY DEF Moved
  <1> SUFFICES ASSUME NEW i \in 1..Len(ds), ds[i].waiting, ds[i].kind = "claim",
                      ds[i].answer.cred # NoCred
               PROVE  /\ NotOf(stored2, ds[i].answer.cred.id)
                      /\ NotOf(held2, ds[i].answer.cred.id)
                      /\ \A j \in 1..Len(ds) : j # i =>
                            /\ ds[j].kind = "redeem" => ds[j].cred.id # ds[i].answer.cred.id
                            /\ NotOf(ds[j].answer.cred, ds[i].answer.cred.id)
    BY DEF PrivateIn
  <1>2. /\ g[i] \in 1..Len(cs) /\ cs[g[i]].waiting /\ cs[g[i]].kind = "claim"
        /\ g[i] \notin gone
        /\ ds[i].answer = IF g[i] \in handled THEN answer ELSE cs[g[i]].answer
    BY <1>1 DEF MovedBy, Kept
  <1>3. ds[i].answer = cs[g[i]].answer
    BY <1>2
  <1>4. NotOf(stored2, ds[i].answer.cred.id) /\ NotOf(held2, ds[i].answer.cred.id)
    BY <1>2, <1>3
  <1>5. ASSUME NEW j \in 1..Len(ds), j # i
        PROVE  /\ ds[j].kind = "redeem" => ds[j].cred.id # ds[i].answer.cred.id
               /\ NotOf(ds[j].answer.cred, ds[i].answer.cred.id)
    <2>1. /\ g[j] \in 1..Len(cs) /\ cs[g[j]].kind = ds[j].kind /\ cs[g[j]].cred = ds[j].cred
          /\ ds[j].answer = IF g[j] \in handled THEN answer ELSE cs[g[j]].answer
      BY <1>1 DEF MovedBy, Kept
    <2>2. g[j] # g[i]
      BY <1>1, <1>5 DEF MovedBy
    <2>3. /\ cs[g[j]].kind = "redeem" => cs[g[j]].cred.id # cs[g[i]].answer.cred.id
          /\ NotOf(cs[g[j]].answer.cred, cs[g[i]].answer.cred.id)
      BY <1>2, <1>3, <2>1, <2>2 DEF PrivateIn
    <2>4. CASE g[j] \in handled
      BY <1>3, <2>1, <2>3, <2>4 DEF NotOf
    <2>5. CASE g[j] \notin handled
      BY <1>3, <2>1, <2>3, <2>5
    <2> QED
      BY <2>4, <2>5
  <1> QED
    BY <1>4, <1>5

\* A request just made changes none of this.
LEMMA AppendStorage ==
    ASSUME NEW ds \in Seq(Call), NEW r \in Call, r.sent, r.answer = NoAnswer,
           NEW stored, NEW held, NEW rows,
           Ordered(ds), SentAs(ds, stored), LiveIn(ds, rows), PrivateIn(ds, stored, held),
           \/ r.kind # "redeem"
           \/ /\ r.kind = "redeem" /\ r.cred = held /\ held # NoCred
              /\ ~Waits(ds, {"redeem"}),
           held # NoCred /\ stored # NoCred => held = stored
    PROVE  /\ Ordered(Append(ds, r)) /\ SentAs(Append(ds, r), stored)
           /\ LiveIn(Append(ds, r), rows) /\ PrivateIn(Append(ds, r), stored, held)
  <1> DEFINE es == Append(ds, r)
             n  == Len(ds) + 1
  <1>1. /\ Len(es) = n /\ n \in Nat /\ n \in 1..n /\ es[n] = r
        /\ \A i \in 1..n : i = n \/ i \in 1..Len(ds)
        /\ \A i \in 1..Len(ds) : i \in 1..n /\ i # n /\ es[i] = ds[i]
    OBVIOUS
  <1> HIDE DEF es, n
  <1>2. r.answer.cred = NoCred
    BY DEF NoAnswer
  <1>3. Ordered(es)
    <2>1. \A i \in 1..n : es[i].sent => es[i].answer = NoAnswer
      BY <1>1 DEF Ordered
    <2>2. ASSUME NEW i \in 1..n, NEW j \in 1..n, es[i].waiting, es[i].kind = "redeem",
                 es[j].kind = "redeem", es[j].sent
          PROVE  j =< i /\ es[i].sent
      <3>1. CASE i = n
        BY <1>1, <3>1
      <3>2. CASE i # n /\ j = n
        BY <1>1, <2>2, <3>2 DEF Waits
      <3>3. CASE i # n /\ j # n
        BY <1>1, <2>2, <3>3 DEF Ordered
      <3> QED
        BY <3>1, <3>2, <3>3
    <2> QED
      BY <1>1, <2>1, <2>2 DEF Ordered
  <1>4. SentAs(es, stored)
    BY <1>1 DEF SentAs
  <1>5. LiveIn(es, rows)
    BY <1>1, <1>2 DEF LiveIn
  <1>6. PrivateIn(es, stored, held)
    <2> SUFFICES ASSUME NEW i \in 1..n, es[i].waiting, es[i].kind = "claim",
                        es[i].answer.cred # NoCred
                 PROVE  /\ NotOf(stored, es[i].answer.cred.id)
                        /\ NotOf(held, es[i].answer.cred.id)
                        /\ \A j \in 1..n : j # i =>
                            /\ es[j].kind = "redeem" => es[j].cred.id # es[i].answer.cred.id
                            /\ NotOf(es[j].answer.cred, es[i].answer.cred.id)
      BY <1>1 DEF PrivateIn
    <2>1. i \in 1..Len(ds) /\ es[i] = ds[i]
      BY <1>1, <1>2
    <2>2. NotOf(stored, es[i].answer.cred.id) /\ NotOf(held, es[i].answer.cred.id)
      BY <2>1 DEF PrivateIn
    <2>3. ASSUME NEW j \in 1..n, j # i
          PROVE  /\ es[j].kind = "redeem" => es[j].cred.id # es[i].answer.cred.id
                 /\ NotOf(es[j].answer.cred, es[i].answer.cred.id)
      <3>1. CASE j = n
        BY <1>1, <1>2, <2>2, <3>1 DEF NotOf
      <3>2. CASE j # n
        BY <1>1, <2>1, <2>3, <3>2 DEF PrivateIn
      <3> QED
        BY <3>1, <3>2
    <2> QED
      BY <2>2, <2>3
  <1> QED
    BY <1>3, <1>4, <1>5, <1>6 DEF es

\* A step of the client that takes up no new credential.
LEMMA AskKeepsStorage ==
    ASSUME TypeOK, StorageInv, StoreInv', NEW ds, NEW gone, Asks(ds, gone)
    PROVE  StorageInv'
  <1>0. /\ StoreInv /\ Ordered(calls) /\ SentAs(calls, disk) /\ LiveIn(calls, devices)
        /\ PrivateIn(calls, disk, client.held) /\ StoredCredentialIsKnown
    BY StorageForms
  <1>1. /\ calls \in Seq(Call) /\ Moved(calls, ds, gone, {}, NoAnswer)
        /\ DOMAIN devices' \subseteq DOMAIN devices
        /\ \A f \in DOMAIN devices' : devices'[f] = devices[f]
        /\ disk' \in {disk, NoCred} /\ client'.held \in {client.held, NoCred, disk}
    BY DEF TypeOK, Asks, Shrinks
  <1>2. ds \in Seq(Call) /\ Ordered(ds)
    BY <1>0, <1>1, MovedOrdered DEF Moved
  <1>3. SentAs(ds, disk')
    <2>1. SentAs(ds, disk)
      BY <1>0, <1>1, MovedSent
    <2> QED
      BY <1>1, <2>1 DEF SentAs
  <1>4. LiveIn(ds, devices')
    BY <1>0, <1>1, MovedLive
  <1>5. PrivateIn(ds, disk', client'.held)
    <2>1. \A i \in 1..Len(calls) :
              /\ calls[i].waiting /\ calls[i].kind = "claim" /\ calls[i].answer.cred # NoCred
              /\ i \notin gone
              => /\ NotOf(disk', calls[i].answer.cred.id)
                 /\ NotOf(client'.held, calls[i].answer.cred.id)
      BY <1>0, <1>1 DEF PrivateIn, NotOf
    <2> QED
      BY <1>0, <1>1, <2>1, MovedPrivate
  <1>6. StoredCredentialIsKnown'
    BY <1>0, <1>1 DEF StoredCredentialIsKnown, Known
  <1>7. /\ Ordered(calls') /\ SentAs(calls', disk') /\ LiveIn(calls', devices')
        /\ PrivateIn(calls', disk', client'.held)
    <2>1. CASE calls' = ds
      BY <1>2, <1>3, <1>4, <1>5, <2>1
    <2>2. CASE \E r : calls' = Append(ds, r) /\ NewRequest(r, ds)
      <3>1. PICK r : calls' = Append(ds, r) /\ NewRequest(r, ds)
        BY <2>2
      <3>2. /\ r \in Call /\ r.sent /\ r.answer = NoAnswer
            /\ \/ r.kind # "redeem"
               \/ /\ r.kind = "redeem" /\ r.cred = client'.held /\ client'.held # NoCred
                  /\ ~Waits(ds, {"redeem"})
        BY <3>1 DEF NewRequest
      <3>3. client'.held # NoCred /\ disk' # NoCred => client'.held = disk'
        BY DEF StoreInv, HeldIsStored
      <3> QED
        BY <1>2, <1>3, <1>4, <1>5, <3>1, <3>2, <3>3, AppendStorage
    <2> QED
      BY <2>1, <2>2 DEF Asks
  <1> QED
    BY <1>6, <1>7, StorageFormsNext

\* The client taking up a new generation: the redemption that brought it was the last one
\* on its way, and an enrolment was nobody else's.
LEMMA TakeKeepsStorage ==
    ASSUME TypeOK, StorageInv, StoreInv', NEW i, Takes(i)
    PROVE  StorageInv'
  <1>0. /\ StoreInv /\ Ordered(calls) /\ SentAs(calls, disk) /\ LiveIn(calls, devices)
        /\ PrivateIn(calls, disk, client.held) /\ StoredCredentialIsKnown
    BY StorageForms
  <1>00. PICK cred : cred = calls[i].answer.cred
    OBVIOUS
  <1>1. /\ calls \in Seq(Call) /\ Moved(calls, calls', {i}, {}, NoAnswer) /\ devices' = devices
        /\ i \in 1..Len(calls) /\ calls[i].waiting /\ calls[i].kind \in {"redeem", "claim"}
        /\ cred # NoCred /\ disk' \in {cred, NoCred} /\ client'.held = cred
    BY <1>00 DEF TypeOK, Takes
  <1>2. Ordered(calls')
    BY <1>0, <1>1, MovedOrdered
  <1>3. SentAs(calls', disk')
    <2>1. ~calls[i].sent
      BY <1>0, <1>00, <1>1 DEF Ordered, NoAnswer
    <2>2. ASSUME NEW j \in 1..Len(calls), calls[j].kind = "redeem", calls[j].sent
          PROVE  calls[j].cred.id # cred.id
      <3>1. CASE calls[i].kind = "redeem"
        BY <1>0, <1>1, <2>1, <2>2, <3>1 DEF Ordered
      <3>2. CASE calls[i].kind = "claim"
        BY <1>0, <1>00, <1>1, <2>2, <3>2 DEF PrivateIn
      <3> QED
        BY <1>1, <3>1, <3>2
    <2>3. SentAs(calls, disk')
      BY <1>1, <2>2 DEF SentAs
    <2> QED
      BY <1>1, <2>3, MovedSent
  <1>4. LiveIn(calls', devices')
    BY <1>0, <1>1, MovedLive
  <1>5. PrivateIn(calls', disk', client'.held)
    <2>1. ASSUME NEW k \in 1..Len(calls), calls[k].waiting, calls[k].kind = "claim",
                 calls[k].answer.cred # NoCred, k \notin {i}
          PROVE  NotOf(disk', calls[k].answer.cred.id)
                 /\ NotOf(client'.held, calls[k].answer.cred.id)
      <3>1. NotOf(cred, calls[k].answer.cred.id)
        BY <1>0, <1>00, <1>1, <2>1 DEF PrivateIn
      <3> QED
        BY <1>1, <3>1 DEF NotOf
    <2> QED
      BY <1>0, <1>1, <2>1, MovedPrivate
  <1>6. StoredCredentialIsKnown'
    <2>1. cred.id \in DOMAIN devices => devices[cred.id].cur = cred.secret
      BY <1>0, <1>00, <1>1 DEF LiveIn
    <2> QED
      BY <1>1, <2>1 DEF StoredCredentialIsKnown, Known
  <1> QED
    BY <1>2, <1>3, <1>4, <1>5, <1>6, StorageFormsNext

\* The edge answering without a new generation.
LEMMA DenialKeepsStorage ==
    ASSUME InOrder, TypeOK, StorageInv, StoreInv', NEW i, NEW answer, Denies(i, answer)
    PROVE  StorageInv'
  <1>0. /\ StoreInv /\ Ordered(calls) /\ SentAs(calls, disk) /\ LiveIn(calls, devices)
        /\ PrivateIn(calls, disk, client.held) /\ StoredCredentialIsKnown
    BY StorageForms
  <1>1. /\ calls \in Seq(Call) /\ Moved(calls, calls', {}, {i}, answer)
        /\ i \in 1..Len(calls) /\ answer.cred = NoCred
        /\ \A j \in 1..(i - 1) : ~calls[j].sent
        /\ DOMAIN devices' \subseteq DOMAIN devices
        /\ \A f \in DOMAIN devices' : devices'[f] = devices[f]
        /\ disk' = disk /\ client' = client
    BY DEF TypeOK, Denies, Handles, Shrinks
  <1>2. Ordered(calls')
    BY <1>0, <1>1, MovedOrdered
  <1>3. SentAs(calls', disk')
    BY <1>0, <1>1, MovedSent
  <1>4. LiveIn(calls', devices')
    BY <1>0, <1>1, MovedLive
  <1>5. PrivateIn(calls', disk', client'.held)
    <2>1. \A k \in 1..Len(calls) :
              /\ calls[k].waiting /\ calls[k].kind = "claim" /\ calls[k].answer.cred # NoCred
              /\ k \notin {}
              => /\ NotOf(disk', calls[k].answer.cred.id)
                 /\ NotOf(client'.held, calls[k].answer.cred.id)
      BY <1>0, <1>1 DEF PrivateIn
    <2> QED
      BY <1>0, <1>1, <2>1, MovedPrivate
  <1>6. StoredCredentialIsKnown'
    BY <1>0, <1>1 DEF StoredCredentialIsKnown, Known
  <1> QED
    BY <1>2, <1>3, <1>4, <1>5, <1>6, StorageFormsNext

\* The edge moving a family on: what the client stored is what it presented, which becomes
\* the generation just retired; and nobody waits for an older generation of the family.
LEMMA RenewalKeepsStorage ==
    ASSUME InOrder, TypeOK, StorageInv, StoreInv', NEW i, NEW answer, NEW next,
           Renews(i, answer, next)
    PROVE  StorageInv'
  <1>0. /\ StoreInv /\ Ordered(calls) /\ SentAs(calls, disk) /\ LiveIn(calls, devices)
        /\ PrivateIn(calls, disk, client.held) /\ StoredCredentialIsKnown
    BY StorageForms
  <1>00. PICK f : f = calls[i].cred.id
    OBVIOUS
  <1>1. /\ calls \in Seq(Call) /\ Moved(calls, calls', {}, {i}, answer)
        /\ i \in 1..Len(calls) /\ calls[i].kind = "redeem" /\ calls[i].sent
        /\ \A j \in 1..(i - 1) : ~calls[j].sent
        /\ DOMAIN devices' = DOMAIN devices
        /\ \A g \in DOMAIN devices \ {f} : devices'[g] = devices[g]
        /\ devices'[f].cur = next /\ devices'[f].prev = calls[i].cred.secret
        /\ answer.cred \in {NoCred, [id |-> f, secret |-> next]}
        /\ disk' = disk /\ client' = client
    BY <1>00 DEF TypeOK, Renews, Handles
  <1>2. Ordered(calls')
    BY <1>0, <1>1, MovedOrdered
  <1>3. SentAs(calls', disk')
    BY <1>0, <1>1, MovedSent
  <1>4. PICK g : MovedBy(g, calls, calls', {}, {i}, answer)
    BY <1>1 DEF Moved
  <1>5. answer.cred # NoCred => answer.cred.id = f /\ answer.cred.secret = next
    BY <1>1
  <1>6. LiveIn(calls', devices')
    <2> SUFFICES ASSUME NEW a \in 1..Len(calls'), calls'[a].waiting,
                        calls'[a].kind \in {"redeem", "claim"},
                        calls'[a].answer.cred # NoCred,
                        calls'[a].answer.cred.id \in DOMAIN devices'
                 PROVE  devices'[calls'[a].answer.cred.id].cur = calls'[a].answer.cred.secret
      BY DEF LiveIn
    <2>0. PICK k, ans : k = g[a] /\ ans = calls'[a].answer
      OBVIOUS
    <2>1. /\ k \in 1..Len(calls) /\ calls[k].waiting /\ calls[k].kind = calls'[a].kind
          /\ ans = IF k \in {i} THEN answer ELSE calls[k].answer
      BY <1>4, <2>0 DEF MovedBy, Kept
    <2>2. CASE k = i
      BY <1>1, <1>5, <2>0, <2>1, <2>2
    <2>3. CASE k # i
      <3>1. ans = calls[k].answer
        BY <2>1, <2>3
      <3>2. ans.cred.id # f
        <4>1. CASE calls[k].kind = "claim"
          BY <1>0, <1>00, <1>1, <2>0, <2>1, <2>3, <3>1, <4>1 DEF PrivateIn
        <4>2. CASE calls[k].kind = "redeem"
          <5>1. calls[k].sent
            BY <1>0, <1>1, <2>1, <4>2 DEF Ordered
          <5>2. ans = NoAnswer
            BY <1>0, <2>1, <3>1, <5>1 DEF Ordered
          <5> QED
            BY <2>0, <5>2 DEF NoAnswer
        <4> QED
          BY <2>1, <4>1, <4>2
      <3>3. devices[ans.cred.id].cur = ans.cred.secret
        BY <1>0, <1>1, <2>0, <2>1, <3>1 DEF LiveIn
      <3> QED
        BY <1>1, <2>0, <3>2, <3>3
    <2> QED
      BY <2>2, <2>3
  <1>7. PrivateIn(calls', disk', client'.held)
    <2> SUFFICES ASSUME NEW a \in 1..Len(calls'), calls'[a].waiting, calls'[a].kind = "claim",
                        calls'[a].answer.cred # NoCred
                 PROVE  /\ NotOf(disk', calls'[a].answer.cred.id)
                        /\ NotOf(client'.held, calls'[a].answer.cred.id)
                        /\ \A j \in 1..Len(calls') : j # a =>
                              /\ calls'[j].kind = "redeem"
                                 => calls'[j].cred.id # calls'[a].answer.cred.id
                              /\ NotOf(calls'[j].answer.cred, calls'[a].answer.cred.id)
      BY DEF PrivateIn
    <2>0. PICK k, f2 : k = g[a] /\ f2 = calls'[a].answer.cred.id
      OBVIOUS
    <2>1. /\ k \in 1..Len(calls) /\ calls[k].waiting /\ calls[k].kind = "claim"
          /\ calls'[a].answer = IF k \in {i} THEN answer ELSE calls[k].answer
      BY <1>4, <2>0 DEF MovedBy, Kept
    <2>2. k # i /\ calls'[a].answer = calls[k].answer
      BY <1>1, <2>1
    <2>3. /\ NotOf(disk, f2) /\ NotOf(client.held, f2)
          /\ \A j \in 1..Len(calls) : j # k =>
                /\ calls[j].kind = "redeem" => calls[j].cred.id # f2
                /\ NotOf(calls[j].answer.cred, f2)
      BY <1>0, <2>0, <2>1, <2>2 DEF PrivateIn
    <2>4. ASSUME NEW j \in 1..Len(calls'), j # a
          PROVE  /\ calls'[j].kind = "redeem" => calls'[j].cred.id # f2
                 /\ NotOf(calls'[j].answer.cred, f2)
      <3>0. PICK m : m = g[j]
        OBVIOUS
      <3>1. /\ m \in 1..Len(calls) /\ calls[m].kind = calls'[j].kind
            /\ calls[m].cred = calls'[j].cred
            /\ calls'[j].answer = IF m \in {i} THEN answer ELSE calls[m].answer
        BY <1>4, <3>0 DEF MovedBy, Kept
      <3>2. m # k
        BY <1>4, <2>0, <2>4, <3>0 DEF MovedBy
      <3>3. CASE m = i
        <4>1. f # f2
          BY <1>00, <1>1, <2>2, <2>3
        <4> QED
          BY <1>5, <2>3, <3>1, <3>2, <3>3, <4>1 DEF NotOf
      <3>4. CASE m # i
        BY <2>3, <3>1, <3>2, <3>4
      <3> QED
        BY <3>3, <3>4
    <2> QED
      BY <1>1, <2>0, <2>3, <2>4
  <1>8. StoredCredentialIsKnown'
    <2>1. disk # NoCred /\ disk.id = f => devices'[f].prev = disk.secret
      BY <1>0, <1>00, <1>1 DEF SentAs
    <2> QED
      BY <1>0, <1>1, <2>1 DEF StoredCredentialIsKnown, Known
  <1> QED
    BY <1>2, <1>3, <1>6, <1>7, <1>8, StorageFormsNext

\* The edge enrolling a device: the family is new, so it is nobody's yet.
LEMMA EnrolmentKeepsStorage ==
    ASSUME InOrder, TypeOK, StorageInv, StoreInv', NEW i, NEW answer, NEW f, NEW secret,
           Enlists(i, answer, f, secret)
    PROVE  StorageInv'
  <1>0. /\ StoreInv /\ Ordered(calls) /\ SentAs(calls, disk) /\ LiveIn(calls, devices)
        /\ PrivateIn(calls, disk, client.held) /\ StoredCredentialIsKnown
    BY StorageForms
  <1>1. /\ calls \in Seq(Call) /\ Moved(calls, calls', {}, {i}, answer)
        /\ i \in 1..Len(calls) /\ calls[i].kind = "claim" /\ calls[i].sent
        /\ \A j \in 1..(i - 1) : ~calls[j].sent
        /\ DOMAIN devices' \subseteq DOMAIN devices \cup {f}
        /\ \A g \in DOMAIN devices' \ {f} : devices'[g] = devices[g]
        /\ f \in DOMAIN devices' => devices'[f].cur = secret
        /\ answer.cred = [id |-> f, secret |-> secret]
        /\ disk' = disk /\ client' = client /\ f \notin drawn
    BY DEF TypeOK, Enlists, Handles
  <1>2. Ordered(calls')
    BY <1>0, <1>1, MovedOrdered
  <1>3. SentAs(calls', disk')
    BY <1>0, <1>1, MovedSent
  <1>4. PICK g : MovedBy(g, calls, calls', {}, {i}, answer)
    BY <1>1 DEF Moved
  <1>5. answer.cred.id = f /\ answer.cred.secret = secret
    BY <1>1
  <1>6. /\ NotOf(disk, f) /\ NotOf(client.held, f)
        /\ \A k \in 1..Len(calls) : /\ calls[k].kind = "redeem" => calls[k].cred.id # f
                                    /\ NotOf(calls[k].answer.cred, f)
    <2>1. Genuine(disk, drawn) /\ Genuine(client.held, drawn) /\ GenuineCalls(calls, drawn)
      BY <1>0, GenuineForms DEF StoreInv
    <2> QED
      BY <1>1, <2>1 DEF Genuine, GenuineCalls, NotOf
  <1>7. LiveIn(calls', devices')
    <2> SUFFICES ASSUME NEW a \in 1..Len(calls'), calls'[a].waiting,
                        calls'[a].kind \in {"redeem", "claim"},
                        calls'[a].answer.cred # NoCred,
                        calls'[a].answer.cred.id \in DOMAIN devices'
                 PROVE  devices'[calls'[a].answer.cred.id].cur = calls'[a].answer.cred.secret
      BY DEF LiveIn
    <2>0. PICK k, ans : k = g[a] /\ ans = calls'[a].answer
      OBVIOUS
    <2>1. /\ k \in 1..Len(calls) /\ calls[k].waiting /\ calls[k].kind = calls'[a].kind
          /\ ans = IF k \in {i} THEN answer ELSE calls[k].answer
      BY <1>4, <2>0 DEF MovedBy, Kept
    <2>2. CASE k = i
      BY <1>1, <1>5, <2>0, <2>1, <2>2
    <2>3. CASE k # i
      <3>1. ans = calls[k].answer /\ ans.cred.id # f
        BY <1>6, <2>0, <2>1, <2>3 DEF NotOf
      <3>2. devices[ans.cred.id].cur = ans.cred.secret
        BY <1>0, <1>1, <2>0, <2>1, <3>1 DEF LiveIn
      <3> QED
        BY <1>1, <2>0, <3>1, <3>2
    <2> QED
      BY <2>2, <2>3
  <1>8. PrivateIn(calls', disk', client'.held)
    <2> SUFFICES ASSUME NEW a \in 1..Len(calls'), calls'[a].waiting, calls'[a].kind = "claim",
                        calls'[a].answer.cred # NoCred
                 PROVE  /\ NotOf(disk', calls'[a].answer.cred.id)
                        /\ NotOf(client'.held, calls'[a].answer.cred.id)
                        /\ \A j \in 1..Len(calls') : j # a =>
                              /\ calls'[j].kind = "redeem"
                                 => calls'[j].cred.id # calls'[a].answer.cred.id
                              /\ NotOf(calls'[j].answer.cred, calls'[a].answer.cred.id)
      BY DEF PrivateIn
    <2>0. PICK k, f2 : k = g[a] /\ f2 = calls'[a].answer.cred.id
      OBVIOUS
    <2>1. /\ k \in 1..Len(calls) /\ calls[k].waiting /\ calls[k].kind = "claim"
          /\ calls'[a].answer = IF k \in {i} THEN answer ELSE calls[k].answer
      BY <1>4, <2>0 DEF MovedBy, Kept
    <2>2. /\ NotOf(disk, f2) /\ NotOf(client.held, f2)
          /\ \A j \in 1..Len(calls) : j # k =>
                /\ calls[j].kind = "redeem" => calls[j].cred.id # f2
                /\ NotOf(calls[j].answer.cred, f2)
      <3>1. CASE k = i
        <4>1. f2 = f
          BY <1>5, <2>0, <2>1, <3>1
        <4> QED
          BY <1>6, <4>1
      <3>2. CASE k # i
        BY <1>0, <2>0, <2>1, <3>2 DEF PrivateIn
      <3> QED
        BY <3>1, <3>2
    <2>3. ASSUME NEW j \in 1..Len(calls'), j # a
          PROVE  /\ calls'[j].kind = "redeem" => calls'[j].cred.id # f2
                 /\ NotOf(calls'[j].answer.cred, f2)
      <3>0. PICK m : m = g[j]
        OBVIOUS
      <3>1. /\ m \in 1..Len(calls) /\ calls[m].kind = calls'[j].kind
            /\ calls[m].cred = calls'[j].cred
            /\ calls'[j].answer = IF m \in {i} THEN answer ELSE calls[m].answer
        BY <1>4, <3>0 DEF MovedBy, Kept
      <3>2. m # k
        BY <1>4, <2>0, <2>3, <3>0 DEF MovedBy
      <3>3. CASE m = i
        <4>1. f2 # f
          BY <1>6, <2>0, <2>1, <3>2, <3>3 DEF NotOf
        <4> QED
          BY <1>5, <2>2, <3>1, <3>2, <3>3, <4>1 DEF NotOf
      <3>4. CASE m # i
        BY <2>2, <3>1, <3>2, <3>4
      <3> QED
        BY <3>3, <3>4
    <2> QED
      BY <1>1, <2>0, <2>2, <2>3
  <1>9. StoredCredentialIsKnown'
    BY <1>0, <1>1, <1>6 DEF StoredCredentialIsKnown, Known, NotOf
  <1> QED
    BY <1>2, <1>3, <1>7, <1>8, <1>9, StorageFormsNext

LEMMA InitStorage == Init => StorageInv
  <1> SUFFICES ASSUME Init
               PROVE  StorageInv
    OBVIOUS
  <1>1. calls = <<>> /\ Len(calls) = 0 /\ late = {} /\ client.store /\ client.held = NoCred
    BY DEF Init, Offline
  <1>2. /\ Genuine(disk, drawn) /\ GenuineRows(devices, drawn) /\ StoredCredentialIsKnown
    <2>1. CASE ~Enrolled
      BY <2>1 DEF Init, Genuine, GenuineRows, StoredCredentialIsKnown
    <2>2. CASE Enrolled
      <3>1. PICK f \in Family, secret \in Secret :
                /\ devices = [g \in {f} |-> NewDevice(secret)]
                /\ disk = [id |-> f, secret |-> secret]
                /\ drawn = {f, secret}
        BY <2>2 DEF Init
      <3>2. NewDevice(secret).cur = secret /\ NewDevice(secret).prev = NoSecret
        BY DEF NewDevice
      <3>3. DOMAIN devices = {f} /\ devices[f] = NewDevice(secret)
        BY <3>1
      <3> QED
        BY <3>1, <3>2, <3>3 DEF Genuine, GenuineRows, StoredCredentialIsKnown, Known
    <2> QED
      BY <2>1, <2>2
  <1>3. Genuine(client.held, drawn) /\ GenuineCalls(calls, drawn) /\ HeldIsStored
    BY <1>1 DEF Genuine, GenuineCalls, HeldIsStored
  <1>4. StoreInv
    BY <1>1, <1>2, <1>3, GenuineForms DEF StoreInv
  <1>5. /\ Ordered(calls) /\ SentAs(calls, disk) /\ LiveIn(calls, devices)
        /\ PrivateIn(calls, disk, client.held)
    BY <1>1 DEF Ordered, SentAs, LiveIn, PrivateIn
  <1> QED
    BY <1>2, <1>4, <1>5, StorageForms

\* A client that loses answers, gives up requests or crashes at any moment keeps a credential
\* the edge knows, as long as its requests reach the edge in the order they were sent and the
\* secure store never writes after its deadline (deviceregistry.cpp, the overlap window).
THEOREM StoredCredentialStaysKnown ==
    ASSUME InOrder, "saveLate" \notin Events
    PROVE  Spec => []StoredCredentialIsKnown
  <1> DEFINE Inv == TypeOK /\ SpendingInv /\ ProgressInv /\ StorageInv
  <1>1. Init => Inv
    BY InitTypes, InitWaiting, InitStorage
  <1>2. Inv /\ [Next]_vars => Inv'
    <2> SUFFICES ASSUME Inv, [Next]_vars
                 PROVE  StorageInv'
      BY NextTypes, NextKeepsWaiting
    <2>1. StoreInv
      BY StorageForms
    <2>2. StoreInv'
      BY <2>1, NextKeepsStore
    <2>3. \A i \in 1..Len(calls) : calls[i].kind = "redeem" => calls[i].cred # NoCred
      BY DEF StorageInv, CredentialsAreDrawn
    <2>4. \/ \E ds, gone : Asks(ds, gone)
          \/ \E i : Takes(i)
          \/ \E i, answer : \/ Denies(i, answer)
                            \/ \E next : Renews(i, answer, next)
                            \/ \E f, secret : Enlists(i, answer, f, secret)
      BY <2>3, StorageShapes DEF StorageInv
    <2> QED
      BY <2>2, <2>4, AskKeepsStorage, TakeKeepsStorage, DenialKeepsStorage,
         RenewalKeepsStorage, EnrolmentKeepsStorage
  <1>3. Inv => StoredCredentialIsKnown
    BY DEF StorageInv
  <1> QED
    BY <1>1, <1>2, <1>3, PTL DEF Spec

(***************************************************************************)
(* What is stored is erased only when the edge refuses it.                 *)
(***************************************************************************)
\* Only Session.login() opens a loopback port.
LEMMA LoginStarts ==
    ASSUME TypeOK, [Next]_vars, client'.login
    PROVE  client.login \/ Happens("login")
  <1> USE DEF TypeOK
  <1>1. CASE Launch \/ ReconnectTimer
    <2>1. PICK d \in {client, [client EXCEPT !.timer = FALSE]} : OpenSession(d, calls)
      BY <1>1 DEF Launch, ReconnectTimer
    <2>2. d \in ClientFields /\ d.login = client.login
      BY DEF ClientFields
    <2>3. Opened(d, calls)
      BY <2>1, <2>2, OpenSessionEffect
    <2> QED
      BY <2>2, <2>3 DEF Opened
  <1>2. CASE Finish
    <2>1. PICK i \in 1..Len(calls) : FinishRedeem(i) \/ FinishClaim(i) \/ FinishLogout(i)
                                     \/ FinishBootstrap(i)
      BY <1>2 DEF Finish
    <2> DEFINE others == Settled([calls EXCEPT ![i].waiting = FALSE], i)
               answer == calls[i].answer
    <2>2. others \in Seq(Call)
      BY FinishMoved DEF Moved
    <2> HIDE DEF others
    <2>3. answer.cred \in Cred \cup {NoCred} /\ answer.session \in Session \cup {NoCookie}
      BY AnswerTypes
    \* The fields a successful answer leaves, before the store answers.
    <2>4. ASSUME NEW c \in ClientFields, NEW spent \in BOOLEAN,
                 Save([Signed(c, answer.cred, answer.session) EXCEPT !.spent = spent],
                      answer.cred)
          PROVE  client'.login = c.login
      <3>0. PICK d : d = [Signed(c, answer.cred, answer.session) EXCEPT !.spent = spent]
        OBVIOUS
      <3>1. SignedAs(d, c, answer.cred, spent)
        <4>0. c \in ClientFields /\ spent \in BOOLEAN
          OBVIOUS
        <4> HIDE DEF answer, TypeOK
        <4>1. SignedAs([Signed(c, answer.cred, answer.session) EXCEPT !.spent = spent],
                       c, answer.cred, spent)
          BY <2>3, <4>0, SignedIsClient, ZenonT(60)
        <4> QED
          BY <3>0, <4>1
      <3>2. client' \in {d, [d EXCEPT !.store = FALSE]}
        BY <2>4, <3>0 DEF Save
      <3> QED
        BY <3>1, <3>2 DEF SignedAs, ClientFields
    <2>5. CASE FinishRedeem(i)
      <3>0. PICK c : c = [client EXCEPT !.redeeming = FALSE]
        OBVIOUS
      <3>1. c \in ClientFields /\ c.login = client.login
        BY <3>0 DEF ClientFields
      <3>2. CASE Save([Signed(c, answer.cred, answer.session) EXCEPT !.spent = TRUE], answer.cred)
        <4>1. TRUE \in BOOLEAN
          OBVIOUS
        <4> QED
          BY <2>4, <3>1, <3>2, <4>1
      <3>3. CASE \E d \in {[c EXCEPT !.held = NoCred], [c EXCEPT !.hold = TRUE], c} :
                    FallBack(d, others)
        <4>1. PICK d \in {[c EXCEPT !.held = NoCred], [c EXCEPT !.hold = TRUE], c} :
                    FallBack(d, others)
          BY <3>3
        <4>2. d \in ClientFields /\ d.login = client.login
          <5>1. CASE d = [c EXCEPT !.held = NoCred]
            BY <3>1, <5>1 DEF ClientFields
          <5>2. CASE d = [c EXCEPT !.hold = TRUE]
            BY <3>1, <5>2 DEF ClientFields
          <5> QED
            BY <3>1, <4>1, <5>1, <5>2
        <4>3. Opened(d, others)
          BY <2>2, <4>1, <4>2, FallBackEffect
        <4> QED
          BY <4>2, <4>3 DEF Opened
      <3> QED
        BY <2>5, <3>0, <3>2, <3>3 DEF FinishRedeem, others
    <2>6. CASE FinishClaim(i)
      <3>0. PICK c : c = [client EXCEPT !.login = FALSE]
        OBVIOUS
      <3>1. c \in ClientFields /\ c.login = FALSE
        BY <3>0 DEF ClientFields
      <3>2. PICK spent \in BOOLEAN : spent = (c.spent \/ answer.cred # NoCred)
        OBVIOUS
      <3>3. CASE Save([Signed(c, answer.cred, answer.session) EXCEPT !.spent = spent],
                      answer.cred)
        BY <2>4, <3>1, <3>3
      <3>4. CASE client' = c
        BY <3>1, <3>4
      <3> QED
        BY <2>6, <3>0, <3>2, <3>3, <3>4 DEF FinishClaim
    <2>7. CASE FinishLogout(i)
      <3>0. PICK c : c = [client EXCEPT !.cookie = NoCookie, !.config = NoCookie]
        OBVIOUS
      <3>1. c \in ClientFields /\ c.login = client.login
        BY <3>0 DEF ClientFields, Cookie
      <3>2. Opened(c, others)
        BY <2>2, <2>7, <3>0, <3>1, OpenSessionEffect DEF FinishLogout, others
      <3> QED
        BY <3>1, <3>2 DEF Opened
    <2>8. CASE FinishBootstrap(i)
      BY <2>8 DEF FinishBootstrap, ConnectToEdge, ClientFields
    <2> QED
      BY <2>1, <2>5, <2>6, <2>7, <2>8
  <1>3. CASE EdgeStep
    <2> SUFFICES ASSUME NEW i \in 1..Len(calls),
             RedeemGranted(i) \/ RedeemUnmapped(i) \/ RedeemRefused(i) \/ RedeemTooMany(i)
             \/ RedeemStoreDown(i) \/ Claim(i) \/ Logout(i) \/ Bootstrap(i)
             PROVE  client' = client
      BY <1>3 DEF EdgeStep
    <2>1. CASE RedeemGranted(i) \/ RedeemUnmapped(i) \/ RedeemRefused(i)
      BY <2>1 DEF RedeemGranted, RedeemUnmapped, RedeemRefused
    <2>2. CASE RedeemTooMany(i) \/ RedeemStoreDown(i) \/ Claim(i) \/ Logout(i) \/ Bootstrap(i)
      BY <2>2 DEF RedeemTooMany, RedeemStoreDown, Claim, Logout, Bootstrap
    <2> QED
      BY <2>1, <2>2
  <1>4. CASE SocketAccepted \/ HoldOver \/ BeginLogin \/ Rotate
    BY <1>4 DEF SocketAccepted, HoldOver, BeginLogin, Rotate, ClientFields
  <1>6. CASE EndSession
    BY <1>6 DEF EndSession, ClientFields
  <1>7. CASE Crash
    BY <1>7 DEF Crash, Offline
  <1>5. CASE SocketLost \/ HandshakeTimeout
    BY <1>5 DEF SocketLost, HandshakeTimeout, OnDisconnected, ClientFields
  <1> QED
    BY <1>1, <1>2, <1>3, <1>4, <1>5, <1>6, <1>7 DEF Next, LateWrite, LoginAnswer, RequestLost,
       SessionExpired, EdgeRestart, Tick, vars

KnownIn(cred, rows) ==
    cred.id \in DOMAIN rows /\ cred.secret \in {rows[cred.id].cur, rows[cred.id].prev}
NoClaims(cs) == \A i \in 1..Len(cs) : cs[i].kind # "claim"
RefusedIn(cs, rows) ==
    \A i \in 1..Len(cs) : cs[i].kind = "redeem" /\ cs[i].answer.status = 404
                          => ~KnownIn(cs[i].cred, rows)
AwaitedIn(cs, stored) ==
    \A i \in 1..Len(cs) : cs[i].kind = "redeem" /\ cs[i].waiting
                          => stored \in {NoCred, cs[i].cred}

\* The invariant in these terms, before a step and after.
LEMMA RefusalForms ==
    RefusalInv <=> ~client.login /\ NoClaims(calls) /\ RefusedIn(calls, devices)
                   /\ AwaitedIn(calls, disk)
  BY DEF RefusalInv, NoClaims, RefusedIn, AwaitedIn, Known, KnownIn

LEMMA RefusalFormsNext ==
    RefusalInv' <=> ~client'.login /\ NoClaims(calls') /\ RefusedIn(calls', devices')
                    /\ AwaitedIn(calls', disk')
  BY DEF RefusalInv, NoClaims, RefusedIn, AwaitedIn, Known, KnownIn

\* Calls that move stay as they were: no claims, and refusals that stand in what is left.
LEMMA MovedRefusals ==
    ASSUME NEW cs \in Seq(Call), NEW ds, NEW gone, NEW handled, NEW answer,
           Moved(cs, ds, gone, handled, answer), NEW rows, NEW left, NEW stored,
           NoClaims(cs), RefusedIn(cs, rows), AwaitedIn(cs, stored),
           \A i \in 1..Len(cs) : cs[i].kind = "redeem" /\ ~KnownIn(cs[i].cred, rows)
                                 => ~KnownIn(cs[i].cred, left),
           \A i \in handled : /\ i \in 1..Len(cs)
                              /\ cs[i].kind = "redeem" /\ answer.status = 404
                                 => ~KnownIn(cs[i].cred, left)
    PROVE  NoClaims(ds) /\ RefusedIn(ds, left) /\ AwaitedIn(ds, stored)
  <1>1. PICK g : MovedBy(g, cs, ds, gone, handled, answer)
    BY DEF Moved
  <1>2. ASSUME NEW i \in 1..Len(ds)
        PROVE  /\ ds[i].kind # "claim"
               /\ ds[i].kind = "redeem" /\ ds[i].answer.status = 404 => ~KnownIn(ds[i].cred, left)
               /\ ds[i].kind = "redeem" /\ ds[i].waiting => stored \in {NoCred, ds[i].cred}
    <2>0. PICK k : k = g[i]
      OBVIOUS
    <2>1. /\ k \in 1..Len(cs) /\ ds[i].kind = cs[k].kind /\ ds[i].cred = cs[k].cred
          /\ ds[i].waiting => cs[k].waiting
          /\ ds[i].answer = IF k \in handled THEN answer ELSE cs[k].answer
      BY <1>1, <2>0 DEF MovedBy, Kept
    <2>2. /\ cs[k].kind # "claim"
          /\ cs[k].kind = "redeem" /\ cs[k].answer.status = 404 => ~KnownIn(cs[k].cred, rows)
          /\ cs[k].kind = "redeem" /\ cs[k].waiting => stored \in {NoCred, cs[k].cred}
      BY <2>1 DEF NoClaims, RefusedIn, AwaitedIn
    <2>3. CASE k \in handled
      BY <2>1, <2>2, <2>3
    <2>4. CASE k \notin handled
      BY <2>1, <2>2, <2>4
    <2> QED
      BY <2>3, <2>4
  <1> QED
    BY <1>2 DEF NoClaims, RefusedIn, AwaitedIn

\* Rows that are only lost know no credential they did not know.
LEMMA LostRowsKnowLess ==
    ASSUME NEW rows, NEW left, DOMAIN left \subseteq DOMAIN rows,
           \A f \in DOMAIN left : left[f] = rows[f], NEW cred
    PROVE  ~KnownIn(cred, rows) => ~KnownIn(cred, left)
  BY DEF KnownIn

LEMMA NextKeepsRefusals ==
    ASSUME Events \cap {"login", "storeDown", "mapping", "saveLate"} = {},
           TypeOK, SpendingInv, StoreInv, StoreInv', RefusalInv, [Next]_vars
    PROVE  RefusalInv'
  <1>0. /\ ~client.login /\ NoClaims(calls) /\ RefusedIn(calls, devices)
        /\ AwaitedIn(calls, disk) /\ calls \in Seq(Call)
    BY RefusalForms DEF TypeOK
  <1>1. ~client'.login
    BY <1>0, LoginStarts DEF Happens
  <1>2. GenuineCalls(calls, drawn)
    BY GenuineForms DEF StoreInv
  <1>3. ASSUME NEW ds, NEW gone, Asks(ds, gone)
        PROVE  NoClaims(calls') /\ RefusedIn(calls', devices') /\ AwaitedIn(calls', disk')
    <2>1. /\ Moved(calls, ds, gone, {}, NoAnswer)
          /\ DOMAIN devices' \subseteq DOMAIN devices
          /\ \A f \in DOMAIN devices' : devices'[f] = devices[f]
          /\ disk' \in {disk, NoCred}
      BY <1>3 DEF Asks, Shrinks
    <2>2. \A i \in 1..Len(calls) :
              ~KnownIn(calls[i].cred, devices) => ~KnownIn(calls[i].cred, devices')
      BY <2>1, LostRowsKnowLess
    <2>3. ds \in Seq(Call) /\ NoClaims(ds) /\ RefusedIn(ds, devices') /\ AwaitedIn(ds, disk)
      <3>1. ds \in Seq(Call)
        BY <2>1 DEF Moved
      <3>2. NoClaims(ds) /\ RefusedIn(ds, devices') /\ AwaitedIn(ds, disk)
        BY <1>0, <2>1, <2>2, MovedRefusals
      <3> QED
        BY <3>1, <3>2
    <2>4. AwaitedIn(ds, disk')
      BY <2>1, <2>3 DEF AwaitedIn
    <2>5. CASE calls' = ds
      BY <2>3, <2>4, <2>5
    <2>6. CASE \E r : calls' = Append(ds, r) /\ NewRequest(r, ds)
      <3>1. PICK r : calls' = Append(ds, r) /\ NewRequest(r, ds)
        BY <2>6
      <3> DEFINE es == Append(ds, r)
                 n  == Len(ds) + 1
      <3>2. /\ Len(es) = n /\ n \in Nat /\ n \in 1..n /\ es[n] = r
            /\ \A i \in 1..n : i = n \/ i \in 1..Len(ds)
            /\ \A i \in 1..Len(ds) : i \in 1..n /\ i # n /\ es[i] = ds[i]
        BY <2>3, <3>1 DEF NewRequest
      <3> HIDE DEF es, n
      <3>3. /\ r.kind # "claim" /\ r.answer.status # 404
            /\ r.kind = "redeem" => disk' \in {NoCred, r.cred}
        <4>1. r.answer.status = 0
          BY <3>1 DEF NewRequest, NoAnswer
        <4>2. r.kind = "redeem" => disk' \in {NoCred, r.cred}
          BY <3>1 DEF NewRequest, StoreInv, HeldIsStored
        <4> QED
          BY <1>0, <3>1, <4>1, <4>2 DEF NewRequest
      <3>4. NoClaims(es) /\ RefusedIn(es, devices') /\ AwaitedIn(es, disk')
        <4>1. NoClaims(es)
          BY <2>3, <3>2, <3>3 DEF NoClaims
        <4>2. RefusedIn(es, devices')
          BY <2>3, <3>2, <3>3 DEF RefusedIn
        <4>3. AwaitedIn(es, disk')
          BY <2>4, <3>2, <3>3 DEF AwaitedIn
        <4> QED
          BY <4>1, <4>2, <4>3
      <3> QED
        BY <3>1, <3>4 DEF es
    <2> QED
      BY <1>3, <2>5, <2>6 DEF Asks
  <1>4. ASSUME NEW i, Takes(i)
        PROVE  NoClaims(calls') /\ RefusedIn(calls', devices') /\ AwaitedIn(calls', disk')
    <2>1. /\ Moved(calls, calls', {i}, {}, NoAnswer) /\ devices' = devices
          /\ i \in 1..Len(calls) /\ calls[i].waiting /\ calls[i].kind = "redeem"
      BY <1>0, <1>4 DEF Takes, NoClaims
    <2>2. NoClaims(calls') /\ RefusedIn(calls', devices')
      <3>1. NoClaims(calls') /\ RefusedIn(calls', devices') /\ AwaitedIn(calls', disk)
        BY <1>0, <2>1, MovedRefusals
      <3> QED
        BY <3>1
    <2>3. ~Waits(calls', {"redeem"})
      <3>1. Waits(calls', {"redeem"}) <=> \E k \in 1..Len(calls) :
                calls[k].waiting /\ calls[k].kind \in {"redeem"} /\ k \notin {i}
        BY <1>0, <2>1, MovedWaits
      <3>2. Single(calls)
        BY WaitingForms
      <3> QED
        BY <2>1, <3>1, <3>2 DEF Single
    <2>4. AwaitedIn(calls', disk')
      BY <2>3 DEF AwaitedIn, Waits
    <2> QED
      BY <2>2, <2>4
  <1>5. ASSUME NEW i, NEW answer, Denies(i, answer)
        PROVE  NoClaims(calls') /\ RefusedIn(calls', devices') /\ AwaitedIn(calls', disk')
    <2>1. /\ Moved(calls, calls', {}, {i}, answer) /\ disk' = disk /\ i \in 1..Len(calls)
          /\ DOMAIN devices' \subseteq DOMAIN devices
          /\ \A f \in DOMAIN devices' : devices'[f] = devices[f]
      BY <1>5 DEF Denies, Handles, Shrinks
    <2>2. \A k \in 1..Len(calls) :
              ~KnownIn(calls[k].cred, devices) => ~KnownIn(calls[k].cred, devices')
      BY <2>1, LostRowsKnowLess
    <2>3. calls[i].kind = "redeem" /\ answer.status = 404 => ~KnownIn(calls[i].cred, devices')
      <3>1. ~RedeemStoreDown(i)
        BY DEF RedeemStoreDown, Happens
      <3> QED
        BY <1>5, <3>1 DEF Denies, KnownIn
    <2>4. \A k \in {i} : /\ k \in 1..Len(calls)
                         /\ calls[k].kind = "redeem" /\ answer.status = 404
                            => ~KnownIn(calls[k].cred, devices')
      BY <2>1, <2>3
    <2>5. NoClaims(calls') /\ RefusedIn(calls', devices') /\ AwaitedIn(calls', disk)
      <3> HIDE DEF TypeOK
      <3> QED
        BY <1>0, <2>1, <2>2, <2>4, MovedRefusals
    <2> QED
      BY <2>1, <2>5
  <1>6. ASSUME NEW i, NEW answer, NEW next, Renews(i, answer, next)
        PROVE  NoClaims(calls') /\ RefusedIn(calls', devices') /\ AwaitedIn(calls', disk')
    <2>0. PICK f : f = calls[i].cred.id
      OBVIOUS
    <2>1. /\ Moved(calls, calls', {}, {i}, answer) /\ disk' = disk /\ i \in 1..Len(calls)
          /\ DOMAIN devices' = DOMAIN devices /\ f \in DOMAIN devices
          /\ \A g \in DOMAIN devices \ {f} : devices'[g] = devices[g]
          /\ devices'[f].cur = next /\ devices'[f].prev = calls[i].cred.secret
          /\ calls[i].cred.secret \in {devices[f].cur, devices[f].prev}
          /\ next \notin drawn /\ answer.status # 404
      BY <1>6, <2>0 DEF Renews, Handles, RedeemUnmapped, Happens
    <2>2. ASSUME NEW k \in 1..Len(calls), calls[k].kind = "redeem",
                 ~KnownIn(calls[k].cred, devices)
          PROVE  ~KnownIn(calls[k].cred, devices')
      <3>1. calls[k].cred.secret # next
        BY <1>2, <2>1, <2>2 DEF GenuineCalls, Genuine
      <3>2. CASE calls[k].cred.id # f
        BY <2>1, <2>2, <3>2 DEF KnownIn
      <3>3. CASE calls[k].cred.id = f
        BY <2>1, <2>2, <3>1, <3>3 DEF KnownIn
      <3> QED
        BY <3>2, <3>3
    <2>3. \A k \in {i} : /\ k \in 1..Len(calls)
                         /\ calls[k].kind = "redeem" /\ answer.status = 404
                            => ~KnownIn(calls[k].cred, devices')
      BY <2>1
    <2>4. Moved(calls, calls', {}, {i}, answer) /\ disk' = disk
      BY <2>1
    <2> QED
      BY <1>0, <2>2, <2>3, <2>4, MovedRefusals
  <1>7. ASSUME NEW i, NEW answer, NEW f, NEW secret, Enlists(i, answer, f, secret)
        PROVE  FALSE
    BY <1>0, <1>7 DEF Enlists, Handles, NoClaims
  <1>8. \/ \E ds, gone : Asks(ds, gone)
        \/ \E i : Takes(i)
        \/ \E i, answer : \/ Denies(i, answer)
                          \/ \E next : Renews(i, answer, next)
                          \/ \E f, secret : Enlists(i, answer, f, secret)
    BY <1>2, StorageShapes DEF StoreInv, GenuineCalls
  <1>9. NoClaims(calls') /\ RefusedIn(calls', devices') /\ AwaitedIn(calls', disk')
    BY <1>3, <1>4, <1>5, <1>6, <1>7, <1>8
  <1> QED
    BY <1>1, <1>9, RefusalFormsNext

LEMMA InitRefusals == Init => RefusalInv
  <1> SUFFICES ASSUME Init
               PROVE  RefusalInv
    OBVIOUS
  <1>1. Len(calls) = 0 /\ ~client.login
    BY DEF Init, Offline
  <1> QED
    BY <1>1 DEF RefusalInv

\* A machine deletes the credential it stores only on the edge's word about that credential:
\* no outage of the session table, lost answer, crash or restart of the edge costs it its
\* sign-in (synclient.cpp, redeemCredential).  Not so while a visitor signs in anew, the
\* database is away or the mapping hook refuses: those events are excluded, and so are writes
\* past their deadline, with which nothing is known to break it.
THEOREM NothingElseErases ==
    ASSUME Events \cap {"login", "storeDown", "mapping", "saveLate"} = {}
    PROVE  Spec => ErasedOnlyWhenRefused
  <1> DEFINE Inv == TypeOK /\ SpendingInv /\ ProgressInv /\ StoreInv /\ RefusalInv
  <1>0. "saveLate" \notin Events
    OBVIOUS
  <1>1. Init => Inv
    BY InitTypes, InitWaiting, InitStorage, InitRefusals, StorageForms
  <1>2. Inv /\ [Next]_vars => Inv'
    <2> SUFFICES ASSUME Inv, [Next]_vars
                 PROVE  StoreInv' /\ RefusalInv'
      BY NextTypes, NextKeepsWaiting
    <2>1. StoreInv'
      BY <1>0, NextKeepsStore
    <2> QED
      BY <2>1, NextKeepsRefusals
  <1>3. Inv /\ [Next]_vars
        => [\A i \in 1..Len(calls) : FinishRedeem(i) /\ disk # NoCred /\ disk' = NoCred
               => calls[i].answer.status = 200 \/ ~Redeemable(disk)]_vars
    <2> SUFFICES ASSUME Inv, NEW i \in 1..Len(calls), FinishRedeem(i), disk # NoCred,
                        disk' = NoCred, calls[i].answer.status # 200
                 PROVE  ~Redeemable(disk)
      OBVIOUS
    <2>1. calls[i].kind = "redeem" /\ calls[i].waiting /\ calls[i].answer.status = 404
      BY DEF FinishRedeem
    <2>2. disk = calls[i].cred /\ ~Known(disk)
      BY <2>1 DEF RefusalInv
    <2>3. ASSUME disk.id \in DOMAIN devices
          PROVE  Verdict(devices[disk.id], disk.secret) \notin {"current", "overlap"}
      BY <2>2, <2>3 DEF Known, Verdict
    <2> QED
      BY <2>3 DEF Redeemable
  <1> QED
    BY <1>1, <1>2, <1>3, PTL DEF Spec, ErasedOnlyWhenRefused

(***************************************************************************)
(* The overlap window: a generation is retired once, and from then on the  *)
(* clock of its window does not move.                                      *)
(***************************************************************************)
Bring(cs) == \A i \in 1..Len(cs) : cs[i].kind = "redeem" => cs[i].cred # NoCred

\* Calls go on bringing what they were made with.
LEMMA MovedBring ==
    ASSUME NEW cs \in Seq(Call), NEW ds, NEW gone, NEW handled, NEW answer,
           Moved(cs, ds, gone, handled, answer), Bring(cs)
    PROVE  ds \in Seq(Call) /\ Bring(ds)
  <1>1. PICK g : MovedBy(g, cs, ds, gone, handled, answer)
    BY DEF Moved
  <1>2. ASSUME NEW i \in 1..Len(ds), ds[i].kind = "redeem"
        PROVE  ds[i].cred # NoCred
    <2>1. g[i] \in 1..Len(cs) /\ ds[i].kind = cs[g[i]].kind /\ ds[i].cred = cs[g[i]].cred
      BY <1>1 DEF MovedBy, Kept
    <2> QED
      BY <1>2, <2>1 DEF Bring
  <1> QED
    BY <1>2 DEF Bring, Moved

LEMMA AppendBring ==
    ASSUME NEW cs \in Seq(Call), NEW r \in Call, Bring(cs), r.kind = "redeem" => r.cred # NoCred
    PROVE  Bring(Append(cs, r))
  <1> DEFINE ds == Append(cs, r)
             n  == Len(cs) + 1
  <1>1. /\ Len(ds) = n /\ ds[n] = r
        /\ \A i \in 1..n : i = n \/ i \in 1..Len(cs)
        /\ \A i \in 1..Len(cs) : ds[i] = cs[i]
    OBVIOUS
  <1> HIDE DEF ds, n
  <1>2. Bring(ds)
    BY <1>1 DEF Bring
  <1> QED
    BY <1>2 DEF ds

\* openSession asks for a redemption only with a credential to present.
LEMMA OpenedBring ==
    ASSUME client \in ClientFields, NEW c \in ClientFields, NEW others \in Seq(Call),
           Opened(c, others), Bring(others)
    PROVE  Bring(calls')
  <1>1. CASE calls' = Append(others, Request("bootstrap", NoCred, NoCookie))
    <2>1. PICK r : r = Request("bootstrap", NoCred, NoCookie)
      OBVIOUS
    <2>2. r \in Call /\ r.kind = "bootstrap"
      BY <2>1, RequestIsCall, RequestWaits DEF Cookie
    <2> QED
      BY <1>1, <2>1, <2>2, AppendBring
  <1>2. CASE /\ calls' = Append(others, Request("redeem", client'.held, NoCookie))
             /\ client'.held # NoCred
    <2>0. PICK h : h = client'.held
      OBVIOUS
    <2>1. h \in Cred \cup {NoCred}
      BY <2>0 DEF Opened, ClientFields
    <2>2. PICK r : r = Request("redeem", h, NoCookie)
      OBVIOUS
    <2>3. r \in Call /\ r.cred = h
      BY <2>1, <2>2, RequestIsCall, RequestWaits DEF Cookie
    <2>4. calls' = Append(others, r) /\ r.cred # NoCred
      BY <1>2, <2>0, <2>2, <2>3
    <2> QED
      BY <2>3, <2>4, AppendBring
  <1> QED
    BY <1>1, <1>2 DEF Opened

\* The client stops waiting for a call, and may make another.
LEMMA FinishBring ==
    ASSUME TypeOK, Bring(calls), NEW i \in 1..Len(calls),
           FinishRedeem(i) \/ FinishClaim(i) \/ FinishLogout(i) \/ FinishBootstrap(i)
    PROVE  Bring(calls')
  <1> DEFINE others == Settled([calls EXCEPT ![i].waiting = FALSE], i)
  <1> USE DEF TypeOK
  <1>1. Moved(calls, others, {i}, {}, NoAnswer)
    BY FinishMoved
  <1> HIDE DEF others
  <1>2. others \in Seq(Call) /\ Bring(others)
    BY <1>1, MovedBring
  <1>3. CASE FinishRedeem(i)
    <2> DEFINE c == [client EXCEPT !.redeeming = FALSE]
    <2>1. CASE calls' = others
      BY <1>2, <2>1
    <2>2. CASE \E d \in {[c EXCEPT !.held = NoCred], [c EXCEPT !.hold = TRUE], c} :
                  FallBack(d, others)
      <3>1. PICK d \in {[c EXCEPT !.held = NoCred], [c EXCEPT !.hold = TRUE], c} :
                  FallBack(d, others)
        BY <2>2
      <3>2. d \in ClientFields
        <4>0. c \in ClientFields
          BY DEF ClientFields
        <4>1. CASE d = [c EXCEPT !.held = NoCred]
          BY <4>0, <4>1 DEF ClientFields
        <4>2. CASE d = [c EXCEPT !.hold = TRUE]
          BY <4>0, <4>2 DEF ClientFields
        <4> QED
          BY <4>0, <3>1, <4>1, <4>2
      <3>3. Opened(d, others)
        BY <1>2, <3>1, <3>2, FallBackEffect
      <3> QED
        BY <1>2, <3>2, <3>3, OpenedBring
    <2> QED
      BY <1>3, <2>1, <2>2 DEF FinishRedeem, others
  <1>4. CASE FinishClaim(i) \/ FinishBootstrap(i)
    BY <1>2, <1>4 DEF FinishClaim, FinishBootstrap, others
  <1>5. CASE FinishLogout(i)
    <2>1. PICK c : c = [client EXCEPT !.cookie = NoCookie, !.config = NoCookie]
      OBVIOUS
    <2>2. c \in ClientFields /\ OpenSession(c, others)
      BY <1>5, <2>1 DEF FinishLogout, others, ClientFields, Cookie
    <2>3. Opened(c, others)
      BY <1>2, <2>2, OpenSessionEffect
    <2> QED
      BY <1>2, <2>2, <2>3, OpenedBring
  <1> QED
    BY <1>3, <1>4, <1>5

\* A redemption always brings a credential.
LEMMA NextKeepsBringing ==
    ASSUME TypeOK, Bring(calls), [Next]_vars
    PROVE  Bring(calls')
  <1> USE DEF TypeOK
  <1>1. CASE Launch \/ ReconnectTimer
    <2>1. PICK d \in {client, [client EXCEPT !.timer = FALSE]} : OpenSession(d, calls)
      BY <1>1 DEF Launch, ReconnectTimer
    <2>2. d \in ClientFields
      BY DEF ClientFields
    <2>3. Opened(d, calls)
      BY <2>1, <2>2, OpenSessionEffect
    <2> QED
      BY <2>2, <2>3, OpenedBring
  <1>2. CASE Finish
    BY <1>2, FinishBring DEF Finish
  <1>3. CASE EdgeStep
    <2>1. PICK i \in 1..Len(calls) :
                 \/ RedeemGranted(i) \/ RedeemUnmapped(i) \/ RedeemRefused(i)
                 \/ RedeemTooMany(i) \/ RedeemStoreDown(i) \/ Claim(i)
                 \/ Logout(i) \/ Bootstrap(i)
      BY <1>3 DEF EdgeStep
    <2>2. PICK answer \in Answer : Moved(calls, calls', {}, {i}, answer)
      BY <2>1, EdgeReplies
    <2> QED
      BY <2>2, MovedBring
  <1>4. CASE LoginAnswer \/ EndSession
    <2>1. PICK kind \in {"claim", "logout"}, s \in Cookie :
              calls' = Append(calls, Request(kind, NoCred, s))
      BY <1>4 DEF LoginAnswer, EndSession, ClientFields, Cookie
    <2>2. PICK r : r = Request(kind, NoCred, s)
      OBVIOUS
    <2>3. r \in Call /\ r.kind # "redeem"
      BY <2>2, RequestIsCall, RequestWaits
    <2> QED
      BY <2>1, <2>2, <2>3, AppendBring
  <1>5. CASE Crash
    <2>1. Moved(calls, calls', 1..Len(calls), {}, NoAnswer)
      BY <1>5, CrashMoved DEF Crash
    <2> QED
      BY <2>1, MovedBring
  <1>6. CASE RequestLost
    <2>1. PICK i \in 1..Len(calls) : ~calls[i].waiting /\ calls' = RemoveAt(calls, i)
      BY <1>6 DEF RequestLost
    <2>2. Moved(calls, calls', {}, {}, NoAnswer)
      BY <2>1, LostMoved
    <2> QED
      BY <2>2, MovedBring
  <1>7. CASE SocketAccepted \/ SocketLost \/ HandshakeTimeout \/ HoldOver \/ BeginLogin
             \/ LateWrite \/ Rotate \/ SessionExpired \/ EdgeRestart \/ Tick \/ UNCHANGED vars
    BY <1>7 DEF SocketAccepted, SocketLost, HandshakeTimeout, HoldOver, BeginLogin, LateWrite,
                Rotate, SessionExpired, EdgeRestart, Tick, vars
  <1> QED
    BY <1>1, <1>2, <1>3, <1>4, <1>5, <1>6, <1>7 DEF Next

\* Rows leave the registry, or nothing happens to it.
RowsLeave ==
    /\ Shrinks
    /\ history'.retired = history.retired

\* One family's live generation gives way to the next.
Turns(f, next, verdict) ==
    /\ f \in DOMAIN devices /\ next \in Secret \ drawn /\ drawn \cup {next} \subseteq drawn'
    /\ devices' = [devices EXCEPT ![f] = Issue(devices[f], next, verdict)]
    /\ history'.retired = FirstRetired(devices[f].cur, verdict)

\* A family is enrolled, and others may lapse.
Joins(f, secret) ==
    /\ f \in Family \ drawn /\ secret \in Secret \ drawn
    /\ drawn \cup {secret} \subseteq drawn'
    /\ DOMAIN devices' \subseteq DOMAIN devices \cup {f}
    /\ \A g \in DOMAIN devices' \ {f} : devices'[g] = devices[g]
    /\ f \in DOMAIN devices' => devices'[f] = NewDevice(secret)
    /\ history'.retired = history.retired

\* The edge's handlers in these terms.
LEMMA HandlerTurns ==
    ASSUME TypeOK, NEW i \in 1..Len(calls),
           \/ RedeemGranted(i) \/ RedeemUnmapped(i) \/ RedeemRefused(i)
           \/ RedeemTooMany(i) \/ RedeemStoreDown(i) \/ Claim(i)
           \/ Logout(i) \/ Bootstrap(i)
    PROVE  \/ RowsLeave
           \/ \E f, next, verdict : Turns(f, next, verdict)
           \/ \E f, secret : Joins(f, secret)
  <1> USE DEF TypeOK
  <1>1. ASSUME RedeemGranted(i) \/ RedeemUnmapped(i)
        PROVE  \E f, next, verdict : Turns(f, next, verdict)
    <2>0. PICK f, verdict : /\ f = calls[i].cred.id
                            /\ verdict = Verdict(devices[f], calls[i].cred.secret)
      OBVIOUS
    <2>1. PICK next \in Secret \ drawn :
              /\ f \in DOMAIN devices
              /\ devices' = [devices EXCEPT ![f] = Issue(devices[f], next, verdict)]
              /\ drawn \cup {next} \subseteq drawn'
              /\ \/ \E l : history' = [history EXCEPT !.lineage = l,
                                           !.retired = FirstRetired(devices[f].cur, verdict)]
                 \/ history' = [history EXCEPT !.retired = FirstRetired(devices[f].cur, verdict)]
      BY <1>1, <2>0 DEF RedeemGranted, RedeemUnmapped
    <2>2. PICK times : times = FirstRetired(devices[f].cur, verdict)
      OBVIOUS
    <2>3. history'.retired = times
      BY <2>1, <2>2 DEF History
    <2>4. Turns(f, next, verdict)
      BY <2>1, <2>2, <2>3 DEF Turns
    <2> QED
      BY <2>4
  <1>2. ASSUME RedeemRefused(i)
        PROVE  RowsLeave
    <2>1. devices' = devices \/ \E gone : devices' = Without(devices, gone)
      BY <1>2 DEF RedeemRefused
    <2>2. drawn' = drawn /\ history'.retired = history.retired
      BY <1>2 DEF RedeemRefused, History
    <2> QED
      BY <2>1, <2>2 DEF RowsLeave, Shrinks, Without
  <1>3. ASSUME RedeemTooMany(i) \/ RedeemStoreDown(i) \/ Bootstrap(i) \/ Logout(i)
        PROVE  RowsLeave
    BY <1>3 DEF RedeemTooMany, RedeemStoreDown, Bootstrap, Logout, Without, edge,
                RowsLeave, Shrinks
  <1>4. ASSUME Claim(i)
        PROVE  RowsLeave \/ \E f, secret : Joins(f, secret)
    <2>1. CASE UNCHANGED <<devices, drawn, history>>
      BY <2>1 DEF RowsLeave, Shrinks
    <2>2. CASE \E f \in Family \ drawn, secret \in Secret \ drawn :
                 /\ devices' = Put(Purged(devices), f, NewDevice(secret))
                 /\ drawn' = drawn \cup {f, secret}
                 /\ history' = [history EXCEPT !.lineage[calls[i].cookie] = f]
      <3>1. PICK f \in Family \ drawn, secret \in Secret \ drawn :
                 /\ devices' = Put(Purged(devices), f, NewDevice(secret))
                 /\ drawn' = drawn \cup {f, secret}
                 /\ history' = [history EXCEPT !.lineage[calls[i].cookie] = f]
        BY <2>2
      <3>2. history'.retired = history.retired
        BY <3>1 DEF History
      <3>3. /\ DOMAIN Purged(devices) \subseteq DOMAIN devices
            /\ \A g \in DOMAIN Purged(devices) : Purged(devices)[g] = devices[g]
        BY DEF Purged, Without
      <3>4. PICK rows, row : rows = Purged(devices) /\ row = NewDevice(secret)
        OBVIOUS
      <3>5. /\ DOMAIN devices' = DOMAIN rows \cup {f} /\ devices'[f] = row
            /\ \A g \in DOMAIN devices' \ {f} : devices'[g] = rows[g]
        BY <3>1, <3>4 DEF Put
      <3>6. Joins(f, secret)
        BY <3>1, <3>2, <3>3, <3>4, <3>5 DEF Joins
      <3> QED
        BY <3>6
    <2> QED
      BY <1>4, <2>1, <2>2 DEF Claim
  <1> QED
    BY <1>1, <1>2, <1>3, <1>4

\* Every step in these terms.
LEMMA NextTurns ==
    ASSUME TypeOK, [Next]_vars
    PROVE  \/ RowsLeave
           \/ \E f, next, verdict : Turns(f, next, verdict)
           \/ \E f, secret : Joins(f, secret)
  <1> USE DEF TypeOK
  <1>1. CASE EdgeStep
    <2>1. PICK i \in 1..Len(calls) :
                 \/ RedeemGranted(i) \/ RedeemUnmapped(i) \/ RedeemRefused(i)
                 \/ RedeemTooMany(i) \/ RedeemStoreDown(i) \/ Claim(i)
                 \/ Logout(i) \/ Bootstrap(i)
      BY <1>1 DEF EdgeStep
    <2> QED
      BY <2>1, HandlerTurns
  <1>2. CASE Finish
    <2>1. PICK i \in 1..Len(calls) : FinishRedeem(i) \/ FinishClaim(i) \/ FinishLogout(i)
                                     \/ FinishBootstrap(i)
      BY <1>2 DEF Finish
    <2>2. UNCHANGED <<edge, drawn>>
      BY <2>1 DEF FinishRedeem, FinishClaim, FinishLogout, FinishBootstrap
    <2>3. history' = history \/ \E b : history' = [history EXCEPT !.bought = b]
      BY <2>1 DEF FinishRedeem, FinishClaim, FinishLogout, FinishBootstrap
    <2>4. history'.retired = history.retired
      BY <2>3 DEF History
    <2> QED
      BY <2>2, <2>4 DEF RowsLeave, Shrinks, edge
  <1>3. CASE Launch \/ ReconnectTimer \/ SocketLost \/ HandshakeTimeout \/ HoldOver \/ LateWrite
             \/ BeginLogin \/ EndSession \/ RequestLost \/ Tick \/ LoginAnswer \/ SessionExpired
             \/ UNCHANGED vars
    BY <1>3 DEF Launch, ReconnectTimer, SocketLost, HandshakeTimeout, HoldOver, LateWrite,
                BeginLogin, EndSession, RequestLost, Tick, LoginAnswer, SessionExpired, vars,
                RowsLeave, Shrinks, edge
  <1>4. CASE SocketAccepted \/ Crash
    BY <1>4 DEF SocketAccepted, Crash, RowsLeave, Shrinks, History, edge
  <1>5. CASE Rotate
    <2>1. /\ UNCHANGED devices /\ drawn \subseteq drawn'
          /\ \E to, f : history' = [history EXCEPT !.lineage[to] = f]
      BY <1>5 DEF Rotate
    <2>2. history'.retired = history.retired
      BY <2>1 DEF History
    <2> QED
      BY <2>1, <2>2 DEF RowsLeave, Shrinks
  <1>6. CASE EdgeRestart
    BY <1>6, PurgeTypes DEF EdgeRestart, RowsLeave, Shrinks
  <1> QED
    BY <1>1, <1>2, <1>3, <1>4, <1>5, <1>6 DEF Next

\* WindowInv after a step, whose rows and times are given names.
Standing(row, times, names) ==
    /\ row.cur \in names /\ row.prev \in names \cup {NoSecret}
    /\ row.prev # row.cur
    /\ times[row.cur] = -1
    /\ row.prev # NoSecret => times[row.prev] = row.retired
Apart(rows) ==
    \A f, g \in DOMAIN rows : f # g => rows[f].cur \notin {rows[g].cur, rows[g].prev}

LEMMA WindowForms ==
    WindowInv <=>
        /\ Bring(calls)
        /\ \A x \in Secret : history.retired[x] # -1 => x \in drawn
        /\ \A f \in DOMAIN devices : Standing(devices[f], history.retired, drawn)
        /\ Apart(devices)
  BY DEF WindowInv, NothingRetiredEarly, Bring, Standing, Apart

LEMMA WindowFormsNext ==
    WindowInv' <=>
        /\ Bring(calls')
        /\ \A x \in Secret : history'.retired[x] # -1 => x \in drawn'
        /\ \A f \in DOMAIN devices' : Standing(devices'[f], history'.retired, drawn')
        /\ Apart(devices')
  BY DEF WindowInv, NothingRetiredEarly, Bring, Standing, Apart

\* What the next generation is issued over: the row it leaves.
LEMMA TurnedRow ==
    ASSUME NEW row \in Device, NEW next \in Secret, NEW verdict
    PROVE  /\ Issue(row, next, verdict).cur = next
           /\ verdict = "current" => /\ Issue(row, next, verdict).prev = row.cur
                                     /\ Issue(row, next, verdict).retired = now
           /\ verdict # "current" => /\ Issue(row, next, verdict).prev = row.prev
                                     /\ Issue(row, next, verdict).retired = row.retired
  BY DEF Issue, Device

\* A redemption retires the live generation now, or none.
LEMMA TurnKeepsWindow ==
    ASSUME TypeOK, WindowInv, Bring(calls'), NEW f, NEW next, NEW verdict,
           Turns(f, next, verdict)
    PROVE  WindowInv'
  <1> USE DEF TypeOK
  <1>0. /\ f \in DOMAIN devices /\ next \in Secret /\ next \notin drawn
        /\ next \in drawn' /\ drawn \subseteq drawn'
        /\ \A g \in DOMAIN devices : devices[g] \in Device
        /\ history.retired \in [Secret -> Int] /\ now \in Int /\ now # -1
    BY DEF Turns, History
  <1>1. /\ \A x \in Secret : history.retired[x] # -1 => x \in drawn
        /\ \A g \in DOMAIN devices : Standing(devices[g], history.retired, drawn)
        /\ Apart(devices)
    BY WindowForms
  <1>2. PICK row, old, times, rows : /\ old = devices[f] /\ row = Issue(old, next, verdict)
                                     /\ times = history'.retired /\ rows = devices'
    OBVIOUS
  <1>3. /\ DOMAIN rows = DOMAIN devices /\ rows[f] = row
        /\ \A g \in DOMAIN devices \ {f} : rows[g] = devices[g]
    BY <1>0, <1>2 DEF Turns
  <1>4. /\ old \in Device /\ Standing(old, history.retired, drawn)
        /\ row.cur = next
        /\ verdict = "current" => row.prev = old.cur /\ row.retired = now
        /\ verdict # "current" => row.prev = old.prev /\ row.retired = old.retired
    BY <1>0, <1>1, <1>2, TurnedRow
  <1>5. /\ verdict = "current" => times = [history.retired EXCEPT ![old.cur] = now]
        /\ verdict # "current" => times = history.retired
    BY <1>2 DEF Turns, FirstRetired
  <1>6. \A x \in Secret : times[x] = IF verdict = "current" /\ x = old.cur
                                     THEN now ELSE history.retired[x]
    BY <1>0, <1>5
  <1>7. old.cur \in Secret /\ old.prev \in Secret \cup {NoSecret} /\ NoSecret \notin Secret
    BY <1>4, DeviceAssumption DEF Device
  <1>8. \A x \in Secret : times[x] # -1 => x \in drawn'
    BY <1>0, <1>1, <1>4, <1>6 DEF Standing
  <1>9. Standing(row, times, drawn')
    <2>1. row.cur \in drawn' /\ times[row.cur] = -1
      BY <1>0, <1>1, <1>4, <1>6 DEF Standing
    <2>2. CASE verdict = "current"
      BY <1>0, <1>4, <1>6, <1>7, <2>1, <2>2 DEF Standing
    <2>3. CASE verdict # "current"
      <3>1. old.prev # NoSecret => times[old.prev] = old.retired
        BY <1>4, <1>6, <1>7, <2>3 DEF Standing
      <3>2. old.prev \in drawn' \cup {NoSecret} /\ old.prev # next
        BY <1>0, <1>4, <1>7 DEF Standing
      <3> QED
        BY <1>4, <2>1, <2>3, <3>1, <3>2 DEF Standing
    <2> QED
      BY <2>2, <2>3
  <1>10. ASSUME NEW g \in DOMAIN devices \ {f}
         PROVE  /\ Standing(devices[g], times, drawn')
                /\ next \notin {devices[g].cur, devices[g].prev}
                /\ devices[g].cur \notin {row.cur, row.prev}
    <2>1. PICK other : other = devices[g]
      OBVIOUS
    <2>2. /\ other \in Device /\ Standing(other, history.retired, drawn)
          /\ old.cur \notin {other.cur, other.prev}
          /\ other.cur \notin {old.cur, old.prev}
      BY <1>0, <1>1, <1>2, <2>1 DEF Apart
    <2>3. other.cur \in Secret /\ other.prev \in Secret \cup {NoSecret}
      BY <2>2 DEF Device
    <2>4. times[other.cur] = -1
          /\ (other.prev # NoSecret => times[other.prev] = other.retired)
      BY <1>6, <2>2, <2>3 DEF Standing
    <2>5. Standing(other, times, drawn')
      BY <1>0, <2>2, <2>4 DEF Standing
    <2>6. next \notin {other.cur, other.prev} /\ other.cur \notin {row.cur, row.prev}
      BY <1>0, <1>4, <1>7, <2>2, <2>3 DEF Standing
    <2> QED
      BY <2>1, <2>5, <2>6
  <1>11. Apart(rows)
    <2> SUFFICES ASSUME NEW g \in DOMAIN rows, NEW h \in DOMAIN rows, g # h
                 PROVE  rows[g].cur \notin {rows[h].cur, rows[h].prev}
      BY DEF Apart
    <2>1. CASE g = f
      BY <1>3, <1>4, <1>10, <2>1
    <2>2. CASE h = f
      BY <1>3, <1>10, <2>2
    <2>3. CASE g # f /\ h # f
      BY <1>1, <1>3, <2>3 DEF Apart
    <2> QED
      BY <2>1, <2>2, <2>3
  <1>12. \A g \in DOMAIN rows : Standing(rows[g], times, drawn')
    BY <1>3, <1>9, <1>10
  <1> QED
    BY <1>2, <1>8, <1>11, <1>12, WindowFormsNext

\* A family just enrolled has a generation of its own.
LEMMA JoinKeepsWindow ==
    ASSUME TypeOK, WindowInv, Bring(calls'), NEW f, NEW secret, Joins(f, secret)
    PROVE  WindowInv'
  <1> USE DEF TypeOK
  <1>1. /\ \A x \in Secret : history.retired[x] # -1 => x \in drawn
        /\ \A g \in DOMAIN devices : Standing(devices[g], history.retired, drawn)
        /\ Apart(devices)
    BY WindowForms
  <1>2. PICK row, rows : row = NewDevice(secret) /\ rows = devices'
    OBVIOUS
  <1>3. /\ row.cur = secret /\ row.prev = NoSecret
        /\ secret \in Secret /\ secret \notin drawn /\ secret \in drawn'
        /\ drawn \subseteq drawn' /\ history'.retired = history.retired
        /\ DOMAIN rows \subseteq DOMAIN devices \cup {f}
        /\ \A g \in DOMAIN rows \ {f} : rows[g] = devices[g]
        /\ f \in DOMAIN rows => rows[f] = row
    BY <1>2 DEF Joins, NewDevice
  <1>4. secret # NoSecret /\ history.retired[secret] = -1
    BY <1>1, <1>3, DeviceAssumption DEF History
  <1>5. Standing(row, history.retired, drawn')
    BY <1>3, <1>4 DEF Standing
  <1>6. \A g \in DOMAIN devices :
            /\ Standing(devices[g], history.retired, drawn')
            /\ devices[g].cur # secret /\ devices[g].prev # secret /\ devices[g].cur # NoSecret
    <2> SUFFICES ASSUME NEW g \in DOMAIN devices
                 PROVE  /\ Standing(devices[g], history.retired, drawn')
                        /\ devices[g].cur # secret /\ devices[g].prev # secret
                        /\ devices[g].cur # NoSecret
      OBVIOUS
    <2>1. PICK other : other = devices[g]
      OBVIOUS
    <2>2. other \in Device /\ Standing(other, history.retired, drawn)
      BY <1>1, <2>1
    <2>3. /\ Standing(other, history.retired, drawn')
          /\ other.cur # secret /\ other.prev # secret /\ other.cur # NoSecret
      BY <1>3, <1>4, <2>2, DeviceAssumption DEF Standing, Device
    <2> QED
      BY <2>1, <2>3
  <1>7. Apart(rows)
    <2> SUFFICES ASSUME NEW g \in DOMAIN rows, NEW h \in DOMAIN rows, g # h
                 PROVE  rows[g].cur \notin {rows[h].cur, rows[h].prev}
      BY DEF Apart
    <2>1. CASE g = f
      BY <1>3, <1>6, <2>1
    <2>2. CASE h = f
      BY <1>3, <1>6, <2>2
    <2>3. CASE g # f /\ h # f
      BY <1>1, <1>3, <2>3 DEF Apart
    <2> QED
      BY <2>1, <2>2, <2>3
  <1>8. \A g \in DOMAIN rows : Standing(rows[g], history.retired, drawn')
    BY <1>3, <1>5, <1>6
  <1>9. \A x \in Secret : history.retired[x] # -1 => x \in drawn'
    BY <1>1, <1>3
  <1> QED
    BY <1>2, <1>3, <1>7, <1>8, <1>9, WindowFormsNext

LEMMA NextKeepsWindow ==
    ASSUME TypeOK, WindowInv, [Next]_vars
    PROVE  WindowInv'
  <1>1. Bring(calls')
    BY WindowForms, NextKeepsBringing
  <1>2. CASE RowsLeave
    <2>1. /\ \A x \in Secret : history.retired[x] # -1 => x \in drawn
          /\ \A g \in DOMAIN devices : Standing(devices[g], history.retired, drawn)
          /\ Apart(devices)
      BY WindowForms
    <2>2. /\ DOMAIN devices' \subseteq DOMAIN devices
          /\ \A g \in DOMAIN devices' : devices'[g] = devices[g]
          /\ drawn \subseteq drawn' /\ history'.retired = history.retired
      BY <1>2 DEF RowsLeave, Shrinks
    <2>3. Apart(devices')
      BY <2>1, <2>2 DEF Apart
    <2>4. \A row : Standing(row, history.retired, drawn) => Standing(row, history.retired, drawn')
      BY <2>2 DEF Standing
    <2>5. \A g \in DOMAIN devices' : Standing(devices'[g], history'.retired, drawn')
      BY <2>1, <2>2, <2>4
    <2> QED
      BY <1>1, <2>1, <2>2, <2>3, <2>5, WindowFormsNext
  <1> QED
    BY <1>1, <1>2, NextTurns, TurnKeepsWindow, JoinKeepsWindow

LEMMA InitWindow == Init => WindowInv
  <1> SUFFICES ASSUME Init
               PROVE  WindowInv
    OBVIOUS
  <1>1. Len(calls) = 0 /\ \A x \in Secret : history.retired[x] = -1
    BY DEF Init
  <1>2. /\ \A f, g \in DOMAIN devices : f = g
        /\ \A f \in DOMAIN devices : \E secret \in Secret :
              devices[f] = NewDevice(secret) /\ secret \in drawn
    BY DEF Init
  <1>3. ASSUME NEW f \in DOMAIN devices
        PROVE  NothingRetiredEarly(f)
    <2>1. PICK secret \in Secret : devices[f] = NewDevice(secret) /\ secret \in drawn
      BY <1>2
    <2>2. devices[f].cur = secret /\ devices[f].prev = NoSecret
      BY <2>1 DEF NewDevice
    <2> QED
      BY <1>1, <2>1, <2>2, DeviceAssumption DEF NothingRetiredEarly
  <1> QED
    BY <1>1, <1>2, <1>3 DEF WindowInv

\* The window of a generation is counted from the moment it was first retired: however often
\* it comes back in time, whatever is lost in between, the registry never grants it after
\* the overlap is over.
THEOREM WindowNeverGrows == Spec => WindowIsNotExtended
  <1>1. Init => TypeOK /\ WindowInv
    BY InitTypes, InitWindow
  <1>2. TypeOK /\ WindowInv /\ [Next]_vars => TypeOK' /\ WindowInv'
    BY NextTypes, NextKeepsWindow
  <1>3. TypeOK /\ WindowInv /\ [Next]_vars
        => [\A i \in 1..Len(calls) : RedeemGranted(i) =>
               LET at == history.retired[calls[i].cred.secret]
               IN  at = -1 \/ now - at =< Overlap]_vars
    <2> SUFFICES ASSUME TypeOK, WindowInv, NEW i \in 1..Len(calls), RedeemGranted(i)
                 PROVE  \/ history.retired[calls[i].cred.secret] = -1
                        \/ now - history.retired[calls[i].cred.secret] =< Overlap
      OBVIOUS
    <2>1. PICK f, x, row : f = calls[i].cred.id /\ x = calls[i].cred.secret /\ row = devices[f]
      OBVIOUS
    <2>2. /\ f \in DOMAIN devices /\ Verdict(row, x) \in {"current", "overlap"}
          /\ calls[i].kind = "redeem"
      BY <2>1 DEF RedeemGranted, Arrives
    <2>3. NothingRetiredEarly(f) /\ calls[i].cred # NoCred
      BY <2>2 DEF WindowInv
    <2>4. x \in Secret /\ NoSecret \notin Secret
      <3>1. calls[i] \in Call
        BY DEF TypeOK
      <3>2. calls[i].cred \in Cred
        BY <2>3, <3>1 DEF Call
      <3> QED
        BY <2>1, <3>2, DeviceAssumption DEF Cred
    <2>5. x = row.cur \/ (x = row.prev /\ now - row.retired =< Overlap)
      BY <2>2 DEF Verdict
    <2> QED
      BY <2>1, <2>3, <2>4, <2>5 DEF NothingRetiredEarly
  <1> QED
    BY <1>1, <1>2, <1>3, PTL DEF Spec, WindowIsNotExtended

================================================================================
