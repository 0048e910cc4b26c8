-------------------------- MODULE BuildPipelineProofs --------------------------
(***************************************************************************)
(* The build and the development session, for every project, every set of  *)
(* requests and every history of edits: the order entities are launched    *)
(* in, what a build that reports success has deployed, and what a rebuild  *)
(* of the watch loop leaves behind.                                        *)
(***************************************************************************)
EXTENDS BuildPipeline, TLAPS, FiniteSetTheorems, SequenceTheorems, WellFoundedInduction

-----------------------------------------------------------------------------
(* The launch order. Induction is by least counterexample. *)

NatLess == {pair \in Nat \X Nat : pair[1] < pair[2]}

\* A nonempty set of natural numbers has a least element.
LEMMA LeastNumber ==
    ASSUME NEW S \in SUBSET Nat, S # {}
    PROVE  \E n \in S : \A m \in S : n <= m
  <1>1. IsWellFoundedOn(NatLess, Nat)
    BY NatLessThanWellFounded, Zenon DEF OpToRel, NatLess
  <1>2. PICK n \in S : \A m \in S : ~ (<<m, n>> \in NatLess)
    BY <1>1, WFMin
  <1>3. \A m \in S : ~ (m < n)
    BY <1>2 DEF NatLess
  <1> QED
    BY <1>3

Sorted(order) == \A i, j \in DOMAIN order : i < j => order[i] < order[j]

\* Any set of services can be put in the order of names.
LEMMA NamesCanBeSorted ==
    ASSUME NEW S \in SUBSET Services
    PROVE  \E order \in [1..Cardinality(S) -> S] : Sorted(order)
  <1> DEFINE Sortable(T) == \E order \in [1..Cardinality(T) -> T] : Sorted(order)
             Bad == {n \in Nat : \E T \in SUBSET Services : Cardinality(T) = n /\ ~Sortable(T)}
  <1>1. \A T \in SUBSET Services : IsFiniteSet(T) /\ Cardinality(T) \in Nat
    BY ServicesAssumption, FS_Subset, FS_CardinalityType
  <1>2. SUFFICES ASSUME Bad # {} PROVE FALSE
    BY <1>1
  <1>3. PICK n \in Bad : \A m \in Bad : n <= m
    BY <1>2, LeastNumber, Zenon
  <1>4. PICK T \in SUBSET Services : Cardinality(T) = n /\ ~Sortable(T)
    BY <1>3
  <1>5. T # {}
    <2>1. SUFFICES ASSUME T = {} PROVE FALSE
      OBVIOUS
    <2>2. Cardinality(T) = 0
      BY <2>1, FS_EmptySet
    <2>3. [i \in 1..0 |-> i] \in [1..Cardinality(T) -> T] /\ Sorted([i \in 1..0 |-> i])
      BY <2>1, <2>2 DEF Sorted
    <2> QED
      BY <2>3, <1>4
  <1>6. PICK m \in T : \A k \in T : m <= k
    BY <1>5, LeastNumber, ServicesAssumption
  <1> DEFINE U == T \ {m}
  <1>7. Cardinality(U) = n - 1 /\ n - 1 \in Nat
    BY <1>1, <1>4, FS_RemoveElement
  <1>8. Sortable(U)
    <2>1. n - 1 \notin Bad
      BY <1>3, <1>7
    <2> QED
      BY <2>1, <1>7
  <1>9. PICK u \in [1..(n - 1) -> U] : Sorted(u)
    BY <1>7, <1>8
  <1> DEFINE order == [i \in 1..n |-> IF i = 1 THEN m ELSE u[i - 1]]
  <1>10. order \in [1..n -> T]
    BY <1>3, <1>9
  <1>11. Sorted(order)
    <2>1. SUFFICES ASSUME NEW i \in 1..n, NEW j \in 1..n, i < j PROVE order[i] < order[j]
      BY DEF Sorted
    <2>2. n \in Nat /\ j - 1 \in 1..(n - 1) /\ order[j] = u[j - 1]
      BY <1>3, <2>1
    <2>3. u[j - 1] \in U /\ U \subseteq Nat /\ m \in Nat
      BY <1>9, <2>2, ServicesAssumption
    <2>4. CASE i = 1
      <3>1. order[i] = m /\ m <= u[j - 1] /\ m # u[j - 1]
        BY <2>3, <2>4, <1>6
      <3>2. u[j - 1] \in Nat /\ m \in Nat
        BY <2>3
      <3>3. m < u[j - 1]
        BY <3>1, <3>2
      <3> HIDE DEF order
      <3> QED
        BY <3>1, <3>3, <2>2
    <2>5. CASE i # 1
      <3>1. i - 1 \in 1..(n - 1) /\ order[i] = u[i - 1] /\ i - 1 < j - 1
        BY <2>1, <2>2, <2>5
      <3> QED
        BY <3>1, <2>2, <1>9 DEF Sorted
    <2> QED
      BY <2>4, <2>5
  <1> QED
    BY <1>4, <1>10, <1>11

\* Putting services in order loses none and repeats none.
LEMMA InNameOrderProperties ==
    ASSUME NEW S \in SUBSET Services
    PROVE  /\ InNameOrder(S) \in Seq(S)
           /\ IsInjective(InNameOrder(S))
           /\ ToSet(InNameOrder(S)) = S
  <1> DEFINE order == InNameOrder(S)
             n == Cardinality(S)
  <1>1. IsFiniteSet(S) /\ n \in Nat
    BY ServicesAssumption, FS_Subset, FS_CardinalityType
  <1>2. order \in [1..n -> S] /\ Sorted(order)
    BY NamesCanBeSorted, Zenon DEF InNameOrder, Sorted
  <1>3. IsInjective(order)
    <2>1. SUFFICES ASSUME NEW i \in 1..n, NEW j \in 1..n, order[i] = order[j] PROVE i = j
      BY <1>2 DEF IsInjective
    <2>2. order[i] \in Nat /\ order[j] \in Nat
      BY <1>2, ServicesAssumption
    <2>3. ~(i < j) /\ ~(j < i)
      BY <2>1, <2>2, <1>2 DEF Sorted
    <2> QED
      BY <2>1, <2>3
  <1>4. order \in Injection(1..n, S)
    BY <1>2, <1>3 DEF Injection
  <1>5. order \in Surjection(1..n, S)
    <2>1. Cardinality(1..n) = n
      BY <1>1, FS_Interval
    <2> QED
      BY <2>1, <1>1, <1>4, FS_Injection
  <1>6. ToSet(order) = S
    BY <1>2, <1>5 DEF ToSet, Surjection
  <1> QED
    BY <1>1, <1>2, <1>3, <1>6, SeqDef

\* What the loop starts from and how one turn of it continues.
FirstRound(after, rounds, n) ==
  rounds = [k \in 0..n |->
     IF k = 0 THEN <<>>
     ELSE LET placed == rounds[k - 1] IN placed \o InNameOrder(Ready(after, placed))]

\* The loop is well defined.
LEMMA PlacedUnfolds ==
    ASSUME NEW after
    PROVE  FirstRound(after, Placed(after), Cardinality(Services))
  <1> DEFINE turn(placed) == placed \o InNameOrder(Ready(after, placed))
             Runs(n) == \E rounds : FirstRound(after, rounds, n)
             Bad == {n \in Nat : ~Runs(n)}
  <1>1. Cardinality(Services) \in Nat
    BY ServicesAssumption, FS_CardinalityType
  <1>2. Bad = {}
    <2>1. SUFFICES ASSUME Bad # {} PROVE FALSE
      OBVIOUS
    <2>2. PICK n \in Bad : \A m \in Bad : n <= m
      BY <2>1, LeastNumber, Zenon
    <2>3. n # 0
      <3>1. FirstRound(after, [k \in 0..0 |-> <<>>], 0)
        BY DEF FirstRound
      <3> QED
        BY <3>1, <2>2
    <2>4. n - 1 \in Nat /\ Runs(n - 1)
      <3>1. n - 1 \in Nat /\ n - 1 \notin Bad
        BY <2>2, <2>3
      <3> QED
        BY <3>1
    <2>5. PICK f : FirstRound(after, f, n - 1)
      BY <2>4
    <2> DEFINE g == [k \in 0..n |-> IF k = 0 THEN <<>> ELSE turn(f[k - 1])]
    <2>6. ASSUME NEW k \in 0..n, k # 0 PROVE g[k - 1] = f[k - 1]
      <3>1. k - 1 \in 0..(n - 1) /\ k - 1 \in 0..n
        BY <2>6, <2>2
      <3>2. f[k - 1] = IF k - 1 = 0 THEN <<>> ELSE turn(f[(k - 1) - 1])
        BY <3>1, <2>5, Zenon DEF FirstRound
      <3>3. g[k - 1] = IF k - 1 = 0 THEN <<>> ELSE turn(f[(k - 1) - 1])
        BY <3>1, Zenon
      <3> QED
        BY <3>2, <3>3, Zenon
    <2>7. g = [k \in 0..n |-> IF k = 0 THEN <<>> ELSE turn(g[k - 1])]
      <3>1. ASSUME NEW k \in 0..n
            PROVE  (IF k = 0 THEN <<>> ELSE turn(f[k - 1])) = (IF k = 0 THEN <<>> ELSE turn(g[k - 1]))
        <4> HIDE DEF g
        <4> QED
          BY <2>6, Zenon
      <3> QED
        BY <3>1, Zenon
    <2>8. FirstRound(after, g, n)
      <3> HIDE DEF g
      <3> QED
        BY <2>7, Zenon DEF FirstRound
    <2> QED
      BY <2>2, <2>8
  <1>3. Runs(Cardinality(Services))
    BY <1>1, <1>2
  <1> QED
    BY <1>3, Zenon DEF FirstRound, Placed

\* Everything an entity waits for is launched before it.
OwnersAhead(order, after) ==
  \A i \in DOMAIN order : \A o \in Services :
    (<<order[i], o>> \in after /\ o # order[i]) => \E j \in DOMAIN order : j < i /\ order[j] = o

\* What one turn places was not placed yet, and is something as long as anything is left.
LEMMA ReadyProperties ==
    ASSUME NEW after, NEW placed
    PROVE  /\ Ready(after, placed) \subseteq Services \ ToSet(placed)
           /\ Services \ ToSet(placed) # {} => Ready(after, placed) # {}
           /\ Acyclic(after) => \A s \in Ready(after, placed) : \A o \in Services :
                (<<s, o>> \in after /\ o # s) => o \in ToSet(placed)
  <1> DEFINE rest == Services \ ToSet(placed)
             ready == {s \in rest : \A o \in Services :
                         (<<s, o>> \in after /\ o # s) => o \in ToSet(placed)}
  <1>1. Ready(after, placed) = IF ready = {} THEN rest ELSE ready
    BY Zenon DEF Ready
  <1>2. ASSUME Acyclic(after), rest # {} PROVE ready # {}
    <2>1. PICK s \in rest : \A o \in rest \ {s} : <<s, o>> \notin after
      <3>1. rest \in (SUBSET Services) \ {{}}
        BY <1>2
      <3> HIDE DEF rest
      <3> QED
        BY <3>1, <1>2, Zenon DEF Acyclic
    <2>2. s \in ready
      BY <2>1
    <2> QED
      BY <2>2
  <1>3. Ready(after, placed) \subseteq rest /\ (rest # {} => Ready(after, placed) # {})
    BY <1>1
  <1>4. ASSUME Acyclic(after), NEW s \in Ready(after, placed), NEW o \in Services,
               <<s, o>> \in after, o # s
        PROVE  o \in ToSet(placed)
    <2>1. rest # {}
      BY <1>3, <1>4
    <2>2. s \in ready
      BY <2>1, <1>1, <1>2, <1>4
    <2> QED
      BY <2>2, <1>4
  <1> QED
    BY <1>3, <1>4

\* One turn of the loop.
LEMMA TurnProperties ==
    ASSUME NEW after, NEW placed \in Seq(Services), IsInjective(placed),
           NEW next, next = placed \o InNameOrder(Ready(after, placed))
    PROVE  /\ next \in Seq(Services)
           /\ IsInjective(next)
           /\ ToSet(next) = ToSet(placed) \cup Ready(after, placed)
           /\ (Acyclic(after) /\ OwnersAhead(placed, after)) => OwnersAhead(next, after)
  <1> DEFINE ready == Ready(after, placed)
  <1>1. ready \in SUBSET Services /\ ready \cap ToSet(placed) = {}
    BY ReadyProperties
  <1>2. PICK more \in Seq(Services) : more = InNameOrder(ready) /\ IsInjective(more)
                                        /\ ToSet(more) = ready
    BY <1>1, InNameOrderProperties, SeqMonotonic
  <1> DEFINE k == Len(placed)
             n == Len(more)
  <1>3. /\ k \in Nat /\ n \in Nat
        /\ DOMAIN placed = 1..k /\ DOMAIN more = 1..n
    BY LenProperties
  <1>4. /\ next \in Seq(Services) /\ Len(next) = k + n
        /\ \A i \in 1..(k + n) : next[i] = IF i <= k THEN placed[i] ELSE more[i - k]
    BY <1>2, ConcatProperties
  <1>5. DOMAIN next = 1..(k + n)
    BY <1>4, LenProperties
  <1> HIDE DEF k, n, ready
  <1>6. \A i \in 1..k : i \in 1..(k + n) /\ next[i] = placed[i] /\ next[i] \in ToSet(placed)
    BY <1>3, <1>4 DEF ToSet
  <1>7. \A i \in 1..n : i + k \in 1..(k + n) /\ next[i + k] = more[i] /\ next[i + k] \in ready
    <2>1. SUFFICES ASSUME NEW i \in 1..n
                   PROVE  i + k \in 1..(k + n) /\ next[i + k] = more[i] /\ next[i + k] \in ready
      OBVIOUS
    <2>2. i + k \in 1..(k + n) /\ ~(i + k <= k) /\ (i + k) - k = i
      BY <1>3
    <2>3. next[i + k] = more[i]
      BY <2>2, <1>4
    <2> QED
      BY <2>2, <2>3, <1>2, <1>3 DEF ToSet
  <1>8. \A i \in 1..(k + n) : i \in 1..k \/ \E j \in 1..n : i = j + k
    <2>1. SUFFICES ASSUME NEW i \in 1..(k + n), i \notin 1..k PROVE i - k \in 1..n /\ i = (i - k) + k
      OBVIOUS
    <2> QED
      BY <2>1, <1>3
  <1>9. IsInjective(next)
    <2>1. SUFFICES ASSUME NEW i \in 1..(k + n), NEW j \in 1..(k + n), next[i] = next[j]
                   PROVE  i = j
      BY <1>5 DEF IsInjective
    <2>2. CASE i \in 1..k /\ j \in 1..k
      BY <2>1, <2>2, <1>6, <1>3 DEF IsInjective
    <2>3. CASE i \in 1..k /\ j \notin 1..k
      <3>1. next[i] \in ToSet(placed) /\ next[j] \in ready
        BY <2>3, <1>6, <1>7, <1>8
      <3> QED
        BY <3>1, <2>1, <1>1
    <2>4. CASE i \notin 1..k /\ j \in 1..k
      <3>1. next[i] \in ready /\ next[j] \in ToSet(placed)
        BY <2>4, <1>6, <1>7, <1>8
      <3> QED
        BY <3>1, <2>1, <1>1
    <2>5. CASE i \notin 1..k /\ j \notin 1..k
      <3>1. PICK x \in 1..n, y \in 1..n : i = x + k /\ j = y + k
        BY <2>5, <1>8
      <3>2. more[x] = more[y]
        BY <3>1, <2>1, <1>7
      <3> QED
        BY <3>1, <3>2, <1>2, <1>3 DEF IsInjective
    <2> QED
      BY <2>2, <2>3, <2>4, <2>5
  <1>10. ToSet(next) = ToSet(placed) \cup ready
    <2>1. ToSet(next) \subseteq ToSet(placed) \cup ready
      <3>1. SUFFICES ASSUME NEW i \in 1..(k + n) PROVE next[i] \in ToSet(placed) \cup ready
        BY <1>5, Zenon DEF ToSet
      <3> QED
        BY <3>1, <1>6, <1>7, <1>8
    <2>2. ToSet(placed) \subseteq ToSet(next)
      BY <1>3, <1>5, <1>6 DEF ToSet
    <2>3. \A s \in ready : \E i \in 1..n : more[i] = s
      BY <1>2, <1>3 DEF ToSet
    <2>4. ready \subseteq ToSet(next)
      BY <2>3, <1>5, <1>7 DEF ToSet
    <2> QED
      BY <2>1, <2>2, <2>4
  <1>11. ASSUME Acyclic(after), OwnersAhead(placed, after) PROVE OwnersAhead(next, after)
    <2>1. SUFFICES ASSUME NEW i \in 1..(k + n), NEW o \in Services,
                          <<next[i], o>> \in after, o # next[i]
                   PROVE  \E j \in 1..(k + n) : j < i /\ next[j] = o
      BY <1>5 DEF OwnersAhead
    <2>2. CASE i \in 1..k
      <3>1. next[i] = placed[i]
        BY <2>2, <1>6
      <3>2. PICK j \in 1..k : j < i /\ placed[j] = o
        BY <3>1, <2>1, <2>2, <1>3, <1>11 DEF OwnersAhead
      <3> QED
        BY <3>2, <1>6
    <2>3. CASE i \notin 1..k
      <3>1. next[i] \in ready
        BY <2>3, <1>7, <1>8
      <3>2. o \in ToSet(placed)
        BY <3>1, <2>1, <1>11, ReadyProperties DEF ready
      <3>3. PICK j \in 1..k : placed[j] = o
        BY <3>2, <1>3 DEF ToSet
      <3>4. j < i
        BY <2>1, <2>3, <1>3
      <3> QED
        BY <3>3, <3>4, <1>6
    <2> QED
      BY <2>2, <2>3
  <1> QED
    BY <1>4, <1>9, <1>10, <1>11 DEF ready

\* What has been placed after n turns.
Round(after, n) ==
  LET placed == Placed(after)[n]
  IN /\ placed \in Seq(Services)
     /\ IsInjective(placed)
     /\ Cardinality(Services \ ToSet(placed)) <= Cardinality(Services) - n
     /\ Acyclic(after) => OwnersAhead(placed, after)

\* Every turn places a service, so as many turns as there are services place them all.
LEMMA RoundsProgress ==
    ASSUME NEW after, NEW n \in 0..Cardinality(Services)
    PROVE  Round(after, n)
  <1> DEFINE N == Cardinality(Services)
             Bad == {k \in Nat : k <= N /\ ~Round(after, k)}
  <1>1. N \in Nat /\ IsFiniteSet(Services)
    BY ServicesAssumption, FS_CardinalityType
  <1>2. SUFFICES ASSUME Bad # {} PROVE FALSE
    BY <1>1
  <1>3. PICK k \in Bad : \A m \in Bad : k <= m
    BY <1>2, LeastNumber, Zenon
  <1>4. k \in 0..N /\ ~Round(after, k)
    BY <1>3, <1>1
  <1>5. CASE k = 0
    <2>1. Placed(after)[k] = <<>>
      BY <1>4, <1>5, PlacedUnfolds, Zenon DEF FirstRound
    <2>2. <<>> \in Seq(Services) /\ DOMAIN <<>> = 1..0
      BY EmptySeq, LenProperties
    <2>3. IsInjective(<<>>) /\ ToSet(<<>>) = {} /\ OwnersAhead(<<>>, after)
      BY <2>2 DEF IsInjective, ToSet, OwnersAhead
    <2>4. Cardinality(Services \ {}) <= N - k
      <3>1. Services \ {} = Services
        OBVIOUS
      <3> QED
        BY <3>1, <1>1, <1>5
    <2> QED
      BY <2>1, <2>2, <2>3, <2>4, <1>4 DEF Round
  <1>6. CASE k # 0
    <2> DEFINE placed == Placed(after)[k - 1]
               next == Placed(after)[k]
    <2>1. k - 1 \in 0..N /\ Round(after, k - 1)
      <3>1. k - 1 \in Nat /\ k - 1 <= N /\ k - 1 \notin Bad
        <4>1. k \in Nat /\ k - 1 \in Nat /\ k - 1 <= N /\ ~(k <= k - 1)
          BY <1>1, <1>4, <1>6
        <4> HIDE DEF Bad
        <4> QED
          BY <4>1, <1>3
      <3> QED
        BY <3>1, <1>1
    <2>2. next = placed \o InNameOrder(Ready(after, placed))
      BY <1>4, <1>6, PlacedUnfolds, Zenon DEF FirstRound
    <2>3. /\ placed \in Seq(Services) /\ IsInjective(placed)
          /\ Cardinality(Services \ ToSet(placed)) <= N - (k - 1)
          /\ Acyclic(after) => OwnersAhead(placed, after)
      BY <2>1 DEF Round
    <2> HIDE DEF placed, next
    <2>4. /\ next \in Seq(Services) /\ IsInjective(next)
          /\ ToSet(next) = ToSet(placed) \cup Ready(after, placed)
          /\ Acyclic(after) => OwnersAhead(next, after)
      BY <2>2, <2>3, TurnProperties
    <2> DEFINE left == Services \ ToSet(placed)
               rest == Services \ ToSet(next)
    <2>5. /\ rest \in SUBSET left
          /\ left # {} => rest # left
      BY <2>4, ReadyProperties
    <2>6. /\ IsFiniteSet(left) /\ Cardinality(left) \in Nat
          /\ Cardinality(rest) \in Nat /\ Cardinality(rest) <= Cardinality(left)
          /\ Cardinality(rest) = Cardinality(left) => rest = left
      <3>1. IsFiniteSet(left)
        BY <1>1, FS_Subset
      <3>2. IsFiniteSet(rest) /\ Cardinality(rest) <= Cardinality(left)
            /\ (Cardinality(left) = Cardinality(rest) => left = rest)
        BY <3>1, <2>5, FS_Subset
      <3> QED
        BY <3>1, <3>2, FS_CardinalityType
    <2>7. left = {} => Cardinality(rest) = 0
      BY <2>5, FS_EmptySet
    <2>8. Cardinality(rest) <= N - k
      <3>1. Cardinality(left) <= N - (k - 1)
        BY <2>3
      <3> HIDE DEF left, rest, N
      <3> QED
        BY <3>1, <2>5, <2>6, <2>7, <1>1, <1>4
    <2>9. Round(after, k)
      BY <2>4, <2>8 DEF Round, next
    <2> QED
      BY <2>9, <1>4
  <1> QED
    BY <1>5, <1>6

\* The order in which `synqt serve` launches the services of one config.
LEMMA StartupOrderProperties ==
    ASSUME NEW v \in 0..MaxEdits
    PROVE  /\ StartupOrder[v] \in Seq(Services)
           /\ IsInjective(StartupOrder[v])
           /\ ToSet(StartupOrder[v]) = Services
           /\ Acyclic(Consumption[v]) => OwnersAhead(StartupOrder[v], Consumption[v])
  <1> DEFINE N == Cardinality(Services)
             order == Placed(Consumption[v])[N]
  <1>1. N \in Nat /\ IsFiniteSet(Services)
    BY ServicesAssumption, FS_CardinalityType
  <1>2. StartupOrder[v] = order
    BY Zenon DEF StartupOrder
  <1>3. Round(Consumption[v], N)
    BY <1>1, RoundsProgress
  <1>4. ToSet(order) = Services
    <2>1. ToSet(order) \subseteq Services
      BY <1>3, LenProperties DEF Round, ToSet
    <2>2. Cardinality(Services \ ToSet(order)) <= 0
      BY <1>1, <1>3 DEF Round
    <2>3. IsFiniteSet(Services \ ToSet(order))
      BY <1>1, FS_Subset
    <2>4. Services \ ToSet(order) = {}
      BY <2>2, <2>3, FS_CardinalityType, FS_EmptySet
    <2> QED
      BY <2>1, <2>4
  <1> QED
    BY <1>2, <1>3, <1>4 DEF Round

\* Moving one element of a sequence to its end.
MovedToEnd(s, p) == RemoveAt(s, p) \o <<s[p]>>

LEMMA MovingToEnd ==
    ASSUME NEW S, NEW s \in Seq(S), NEW p \in DOMAIN s, IsInjective(s)
    PROVE  /\ MovedToEnd(s, p) \in Seq(S)
           /\ IsInjective(MovedToEnd(s, p))
           /\ ToSet(MovedToEnd(s, p)) = ToSet(s)
           /\ Last(MovedToEnd(s, p)) = s[p]
  <1> DEFINE t == MovedToEnd(s, p)
             n == Len(s)
             a == SubSeq(s, 1, p - 1)
             b == SubSeq(s, p + 1, n)
             r == RemoveAt(s, p)
  <1>1. n \in Nat /\ DOMAIN s = 1..n /\ p \in 1..n /\ p \in Nat /\ 1 <= p /\ p <= n
    BY LenProperties
  <1>2. \A i \in 1..n : s[i] \in S
    BY <1>1, ElementOfSeq
  <1>3. /\ a \in Seq(S) /\ Len(a) = p - 1
        /\ \A i \in 1..(p - 1) : a[i] = s[i]
    <2>1. \A i \in 1..(p - 1) : s[i] \in S
      BY <1>1, <1>2
    <2>2. /\ a \in Seq(S) /\ Len(a) = IF 1 <= p - 1 THEN (p - 1) - 1 + 1 ELSE 0
          /\ \A i \in 1..((p - 1) - 1 + 1) : a[i] = s[1 + i - 1]
      BY <2>1, <1>1, SubSeqProperties
    <2> HIDE DEF a
    <2> QED
      BY <2>2, <1>1
  <1>4. /\ b \in Seq(S) /\ Len(b) = n - p
        /\ \A i \in 1..(n - p) : b[i] = s[p + i]
    <2>1. \A i \in (p + 1)..n : s[i] \in S
      BY <1>1, <1>2
    <2>2. /\ b \in Seq(S) /\ Len(b) = IF p + 1 <= n THEN n - (p + 1) + 1 ELSE 0
          /\ \A i \in 1..(n - (p + 1) + 1) : b[i] = s[(p + 1) + i - 1]
      BY <2>1, <1>1, SubSeqProperties
    <2> HIDE DEF b, n
    <2>3. (IF p + 1 <= n THEN n - (p + 1) + 1 ELSE 0) = n - p /\ n - (p + 1) + 1 = n - p
      BY <1>1
    <2>4. ASSUME NEW i \in 1..(n - p) PROVE b[i] = s[p + i]
      <3>1. (p + 1) + i - 1 = p + i
        BY <1>1
      <3> QED
        BY <3>1, <2>2, <2>3
    <2> QED
      BY <2>2, <2>3, <2>4
  <1>5. /\ r \in Seq(S) /\ Len(r) = n - 1
        /\ \A i \in 1..(n - 1) : r[i] = IF i < p THEN s[i] ELSE s[i + 1]
    <2>1. r = a \o b
      BY DEF RemoveAt
    <2> HIDE DEF a, b, r, n
    <2>2. /\ r \in Seq(S) /\ Len(r) = (p - 1) + (n - p)
          /\ \A i \in 1..((p - 1) + (n - p)) : r[i] = IF i <= p - 1 THEN a[i] ELSE b[i - (p - 1)]
      BY <2>1, <1>3, <1>4, ConcatProperties
    <2>3. ASSUME NEW i \in 1..(n - 1) PROVE r[i] = IF i < p THEN s[i] ELSE s[i + 1]
      <3>0. (p - 1) + (n - p) = n - 1
        BY <1>1
      <3>1. r[i] = IF i <= p - 1 THEN a[i] ELSE b[i - (p - 1)]
        BY <2>2, <3>0
      <3>2. CASE i < p
        BY <3>1, <3>2, <1>1, <1>3
      <3>3. CASE ~(i < p)
        <4>1. i - (p - 1) \in 1..(n - p) /\ p + (i - (p - 1)) = i + 1
          BY <3>3, <1>1
        <4>2. b[i - (p - 1)] = s[i + 1]
          BY <4>1, <1>4, Zenon
        <4>3. ~(i <= p - 1)
          BY <3>3, <1>1
        <4> QED
          BY <4>2, <4>3, <3>1, <3>3, Zenon
      <3> QED
        BY <3>2, <3>3
    <2> QED
      BY <2>2, <2>3, <1>1
  <1> HIDE DEF r, n, t
  <1>12. n \in Nat /\ p \in Nat /\ 1 <= p /\ p <= n
    BY <1>1
  <1>6. /\ t \in Seq(S) /\ Len(t) = n
        /\ \A i \in 1..n : t[i] = IF i < p THEN s[i] ELSE IF i < n THEN s[i + 1] ELSE s[p]
    <2>1. <<s[p]>> \in Seq(S) /\ Len(<<s[p]>>) = 1 /\ <<s[p]>>[1] = s[p]
      BY <1>1, <1>2
    <2>2. /\ t \in Seq(S) /\ Len(t) = (n - 1) + 1
          /\ \A i \in 1..((n - 1) + 1) : t[i] = IF i <= n - 1 THEN r[i] ELSE <<s[p]>>[i - (n - 1)]
      BY <2>1, <1>5, ConcatProperties DEF r, t, MovedToEnd
    <2>3. ASSUME NEW i \in 1..n
          PROVE  t[i] = IF i < p THEN s[i] ELSE IF i < n THEN s[i + 1] ELSE s[p]
      <3>1. t[i] = IF i <= n - 1 THEN r[i] ELSE <<s[p]>>[i - (n - 1)]
        BY <2>2, <1>1
      <3>2. CASE i <= n - 1
        <4>0. t[i] = r[i]
          BY <3>1, <3>2, Zenon
        <4>1. i \in 1..(n - 1) /\ i < n
          BY <3>2, <1>12
        <4>2. r[i] = IF i < p THEN s[i] ELSE s[i + 1]
          BY <4>1, <1>5
        <4> QED
          BY <4>0, <4>1, <4>2, Zenon
      <3>3. CASE ~(i <= n - 1)
        <4>1. i = n /\ i - (n - 1) = 1 /\ ~(i < p) /\ ~(i < n)
          BY <3>3, <1>1
        <4> QED
          BY <4>1, <3>1, <3>3, <2>1
      <3> QED
        BY <3>2, <3>3
    <2> QED
      BY <2>2, <2>3, <1>1
  <1>7. DOMAIN t = 1..n
    BY <1>6, LenProperties
  <1> DEFINE from(i) == IF i < p THEN i ELSE IF i < n THEN i + 1 ELSE p
  <1>8. \A i \in 1..n : from(i) \in 1..n /\ t[i] = s[from(i)]
    BY <1>1, <1>6
  <1>9. IsInjective(t)
    <2>1. SUFFICES ASSUME NEW i \in 1..n, NEW j \in 1..n, t[i] = t[j] PROVE i = j
      BY <1>7 DEF IsInjective
    <2>2. from(i) \in 1..n /\ from(j) \in 1..n /\ s[from(i)] = s[from(j)]
      BY <2>1, <1>8
    <2>3. from(i) = from(j)
      <3> HIDE DEF from
      <3> QED
        BY <2>2, <1>1, Zenon DEF IsInjective
    <2>4. i \in Nat /\ j \in Nat /\ i <= n /\ j <= n
      BY <1>1
    <2>5. CASE i < p
      BY <2>3, <2>4, <2>5, <1>1
    <2>6. CASE ~(i < p) /\ i < n
      <3>1. from(i) = i + 1 /\ i + 1 > p
        BY <2>4, <2>6, <1>1
      <3>2. from(j) > p
        BY <3>1, <2>3
      <3>3. from(j) = j + 1
        <4>1. CASE j < p
          BY <3>2, <4>1, <2>4, <1>12
        <4>2. CASE ~(j < p) /\ j < n
          BY <4>2
        <4>3. CASE ~(j < p) /\ ~(j < n)
          <5>1. from(j) = p
            BY <4>3
          <5> QED
            BY <5>1, <3>2, <1>12
        <4> QED
          BY <4>1, <4>2, <4>3
      <3>4. i + 1 = j + 1
        <4> HIDE DEF from
        <4> QED
          BY <3>1, <3>3, <2>3
      <3> QED
        BY <3>4, <2>4
    <2>7. CASE ~(i < p) /\ ~(i < n)
      BY <2>3, <2>4, <2>7, <1>1
    <2> QED
      BY <2>5, <2>6, <2>7
  <1>10. ToSet(t) = ToSet(s)
    <2>1. ToSet(t) \subseteq ToSet(s)
      BY <1>1, <1>7, <1>8 DEF ToSet
    <2>2. ASSUME NEW i \in 1..n PROVE \E j \in 1..n : t[j] = s[i]
      <3>1. CASE i < p
        BY <3>1, <1>6
      <3>2. CASE i = p
        <4>1. n \in 1..n /\ ~(n < p) /\ ~(n < n)
          BY <1>1
        <4> QED
          BY <4>1, <3>2, <1>6
      <3>3. CASE i > p
        <4>1. i - 1 \in 1..n /\ ~(i - 1 < p) /\ i - 1 < n /\ (i - 1) + 1 = i
          BY <3>3, <1>1
        <4> QED
          BY <4>1, <1>6
      <3>4. i < p \/ i = p \/ i > p
        BY <1>1
      <3> QED
        BY <3>1, <3>2, <3>3, <3>4
    <2> QED
      BY <2>1, <2>2, <1>1, <1>7 DEF ToSet
  <1>11. Last(t) = s[p]
    BY <1>1, <1>6 DEF Last
  <1> QED
    BY <1>6, <1>9, <1>10, <1>11 DEF t

\* The order in which `synqt dev` launches them.
LEMMA LaunchOrderProperties ==
    ASSUME NEW v \in 0..MaxEdits
    PROVE  /\ LaunchOrder[v] \in Seq(Services)
           /\ IsInjective(LaunchOrder[v])
           /\ ToSet(LaunchOrder[v]) = Services
           /\ Last(LaunchOrder[v]) = EdgeName
  <1> DEFINE order == StartupOrder[v]
             p == CHOOSE i \in DOMAIN order : order[i] = EdgeName
  <1>1. order \in Seq(Services) /\ IsInjective(order) /\ ToSet(order) = Services
    BY StartupOrderProperties
  <1>2. p \in DOMAIN order /\ order[p] = EdgeName
    BY <1>1, EdgeAssumption DEF ToSet
  <1>3. LaunchOrder[v] = MovedToEnd(order, p)
    <2>1. LaunchOrder[v] = RemoveAt(order, p) \o <<EdgeName>>
      BY Zenon DEF LaunchOrder
    <2> QED
      BY <2>1, <1>2, Zenon DEF MovedToEnd
  <1> HIDE DEF order, p
  <1> QED
    BY <1>1, <1>2, <1>3, MovingToEnd

-----------------------------------------------------------------------------
(* What holds however the commands interleave *)

\* The strings that are compared and stored, beside the ones a request or a kit gives.
Word == STRING \cup {"", "none", "single", "Debug", "Release", "MinSizeRel"}
Phase == {"idle", "host", "wasm", "assemble", "manifest", "install", "compress", "launch",
          "reload"}

Request == [profile : {"debug", "release", "custom"}, type : Word, strip : BOOLEAN,
            dev : BOOLEAN, threads : Word, services : BOOLEAN, client : BOOLEAN]
Cache   == [type : Word, strip : BOOLEAN, dev : BOOLEAN]
Made    == [config : Int, ver : Int, type : Word, strip : BOOLEAN, dev : BOOLEAN]
Text    == [config : Int, kit : Word, custom : Cache]
Stamp   == [asked : Cache, text : Text]
Tree    == [stamp : Stamp, cache : Cache, made : Made, at : Nat]
Bundle  == [exists : BOOLEAN, wasm : Made, at : Nat, packed : Made, packedAt : Nat,
            id : Made, hook : BOOLEAN, token : Nat]
Step    == [at : Phase, cmd : {"none", "build", "dev", "reload"}, req : Request, config : Int,
            from : [Sides -> Nat], compiled : BOOLEAN]
Saved   == [ver : Int, kind : {"sound", "broken", "refused"}]
Session == [on : BOOLEAN, watching : BOOLEAN, req : Request, config : Saved, running : Made,
            order : Seq(Services), seen : [Sides -> Nat], changed : SUBSET Sides,
            outcome : {"none", "failed", "rebuilt"}]

\* What each variable may hold.
TypeOK ==
  /\ src \in [Sides -> Saved]
  /\ \A s \in Sides : src[s].ver \in Nat
  /\ src["host"].ver + src["client"].ver + src["config"].ver <= MaxEdits
  /\ trees \in [Dirs -> Tree]
  /\ presets \in Text
  /\ deployed \in Made
  /\ bundle \in Bundle
  /\ clock \in Nat
  /\ pc \in [Actors -> Step]
  /\ session \in Session

\* A command under way is one that may be asked for, and began with the sources of then.
CommandsAreAsked ==
  /\ \A a \in Actors : pc[a].at # "idle" =>
       /\ pc[a].req \in Requests \cup DevRequests
       /\ pc[a].config \in 0..MaxEdits
       /\ \A s \in Sides : pc[a].from[s] <= src[s].ver
  /\ (pc["cli"].at # "idle" /\ pc["cli"].cmd = "dev") => pc["cli"].req \in DevRequests
  /\ pc["cli"].at = "launch" => pc["cli"].cmd = "dev"

\* The session is of a request that may be asked, and its rebuild is its own; no other
\* session is under way beside it.
SessionIsWatched ==
  /\ session.on => session.req \in DevRequests /\ session.config.ver \in 0..MaxEdits
  /\ (pc["cli"].at # "idle" /\ pc["cli"].cmd = "dev") => ~session.on
  /\ session.watching => session.on
  /\ ~session.watching => session.outcome = "none"
  /\ \A s \in Sides : session.seen[s] <= src[s].ver
  /\ pc["watcher"].at # "idle" =>
       /\ session.watching
       /\ pc["watcher"].req = session.req
       /\ pc["watcher"].config = session.config.ver
       /\ pc["watcher"].from = session.seen

\* Nothing is newer than the sources it was compiled from.
SideOf(d) == IF d.env = "host" THEN "host" ELSE "client"
NothingIsAhead ==
  /\ \A d \in Dirs : trees[d].made.ver <= src[SideOf(d)].ver
  /\ bundle.wasm.ver <= src["client"].ver
  /\ session.running.ver <= src["host"].ver

CoreInv == TypeOK /\ CommandsAreAsked /\ SessionIsWatched /\ NothingIsAhead

LEMMA NothingTypes ==
    /\ NoCache \in Cache /\ NoMade \in Made /\ NoTree \in Tree
    /\ NoBundle \in Bundle /\ NoRequest \in Request /\ Idle \in Step
    /\ NoSession \in Session
    /\ PresetsText(-1, NoRequest) \in Text
  <1>1. NoCache \in Cache /\ NoMade \in Made
    BY DEF NoCache, Cache, NoMade, Made, Word
  <1>2. NoStamp \in Stamp
    <2>1. [config |-> -1, kit |-> "", custom |-> NoCache] \in Text
      BY <1>1 DEF Text, Word
    <2> QED
      BY <1>1, <2>1 DEF NoStamp, Stamp
  <1>3. NoTree \in Tree
    BY <1>1, <1>2 DEF NoTree, Tree
  <1>4. NoBundle \in Bundle
    BY <1>1 DEF NoBundle, Bundle
  <1>5. NoRequest \in Request
    BY DEF NoRequest, Request, Word
  <1>6. [s \in Sides |-> 0] \in [Sides -> Nat]
    OBVIOUS
  <1>7. Idle \in Step
    BY <1>5, <1>6 DEF Idle, Step, Phase
  <1>8. NoSession \in Session
    <2>1. <<>> \in Seq(Services) /\ {} \in SUBSET Sides
      BY EmptySeq
    <2>2. [ver |-> -1, kind |-> "sound"] \in Saved
      BY DEF Saved
    <2> QED
      BY <1>1, <1>5, <1>6, <2>1, <2>2 DEF NoSession, Session
  <1>9. PresetsText(-1, NoRequest) \in Text
    BY <1>1 DEF PresetsText, NoRequest, Text, Word
  <1> QED
    BY <1>1, <1>3, <1>4, <1>5, <1>7, <1>8, <1>9

\* What may be asked, and the directories it is built in.
LEMMA RequestsAreTyped ==
    ASSUME NEW req \in Requests \cup DevRequests
    PROVE  /\ req \in Request
           /\ HostDir(req) \in Dirs /\ SideOf(HostDir(req)) = "host"
           /\ WasmDir(req) \in Dirs /\ SideOf(WasmDir(req)) = "client"
           /\ HostDir(req) # WasmDir(req)
  <1>1. req \in Request
    BY RequestsAssumption DEF Request, Word
  <1>2. HostDir(req) \in Dirs /\ WasmDir(req) \in Dirs
    BY DEF Dirs
  <1>3. HostDir(req).env = "host" /\ WasmDir(req).env = "wasm"
    BY DEF HostDir, WasmDir, BuildDir
  <1> QED
    BY <1>1, <1>2, <1>3 DEF SideOf

LEMMA InitEstablishesCore ==
    ASSUME Init
    PROVE  CoreInv
  <1>1. TypeOK
    <2>1. /\ src \in [Sides -> Saved]
          /\ \A s \in Sides : src[s].ver = 0
      BY DEF Init, Saved
    <2>3. src["host"].ver + src["client"].ver + src["config"].ver = 0
      BY <2>1 DEF Sides
    <2>2. trees \in [Dirs -> Tree] /\ presets \in Text /\ deployed \in Made /\ bundle \in Bundle
          /\ clock \in Nat /\ pc \in [Actors -> Step] /\ session \in Session
      BY NothingTypes DEF Init
    <2> QED
      BY <2>1, <2>2, <2>3, MaxEditsAssumption DEF TypeOK
  <1>2. \A a \in Actors : pc[a] = Idle
    BY DEF Init
  <1>3. CommandsAreAsked
    BY <1>2 DEF CommandsAreAsked, Idle, Actors
  <1>4. SessionIsWatched
    BY <1>2 DEF SessionIsWatched, Idle, Actors, Init, NoSession
  <1>5. NothingIsAhead
    BY DEF NothingIsAhead, Init, NoTree, NoMade, NoBundle, NoSession, SideOf, Sides
  <1> QED
    BY <1>1, <1>3, <1>4, <1>5 DEF CoreInv


-----------------------------------------------------------------------------
(* What the steps of a build do, whoever runs them *)

\* The command of actor a goes on to another step, or ends.
GoesOn(a) == \E at \in Phase \ {"launch"} : pc[a].at # "idle" /\ Goto(a, at)
Ends(a) == pc' = [pc EXCEPT ![a] = Idle]
Fails(a) == \E why \in {"configure", "tree", "source"} : Fail(a, why)

\* One directory has been built for actor a, or its command has failed and no artifact of
\* any directory has changed.
BuiltIn(a, side, dir, next) ==
  /\ Goto(a, next) /\ UNCHANGED <<session, last>>
  /\ src[side].kind = "sound"
  /\ trees'[dir].cache # NoCache
  /\ trees'[dir].made = Compiled(side, pc[a].config, trees'[dir].cache)
  /\ \A d \in Dirs \ {dir} : trees'[d].made = trees[d].made
NotBuilt(a) == Fails(a) /\ \A d \in Dirs : trees'[d].made = trees[d].made

LEMMA PresetTypes ==
    ASSUME TypeOK, NEW req \in Request
    PROVE  /\ PresetName(req) \in {"host", "host-release", "host-dev", "host-custom"}
           /\ PresetCache(PresetName(req)) \in Cache
  <1>1. PresetName(req) \in {"host", "host-release", "host-dev", "host-custom"}
    BY DEF PresetName, Request
  <1>2. presets.custom \in Cache
    BY DEF TypeOK, Text
  <1>3. ASSUME NEW preset \in {"host", "host-release", "host-dev", "host-custom"}
        PROVE  PresetCache(preset) \in Cache
    <2>1. /\ [type |-> "Debug", strip |-> FALSE, dev |-> FALSE] \in Cache
          /\ [type |-> "Release", strip |-> TRUE, dev |-> FALSE] \in Cache
          /\ [type |-> "Debug", strip |-> FALSE, dev |-> TRUE] \in Cache
      BY DEF Cache, Word
    <2>2. CASE preset = "host"
      BY <2>1, <2>2 DEF PresetCache
    <2>3. CASE preset = "host-release"
      BY <2>1, <2>3 DEF PresetCache
    <2>4. CASE preset = "host-dev"
      BY <2>1, <2>4 DEF PresetCache
    <2>5. CASE preset = "host-custom"
      BY <1>2, <2>5 DEF PresetCache
    <2> QED
      BY <2>2, <2>3, <2>4, <2>5
  <1> QED
    BY <1>1, <1>3

\* Configuring changes caches and stamps, never an artifact.
LEMMA ConfiguredTypes ==
    ASSUME TypeOK, NEW dir, NEW into, NEW cache \in Cache, NEW stamp \in Stamp
    PROVE  /\ Configured(dir, into, cache, stamp) \in [Dirs -> Tree]
           /\ \A d \in Dirs :
                LET t == Configured(dir, into, cache, stamp)[d]
                IN /\ d = dir => t.stamp = stamp
                   /\ d # dir => t.stamp = trees[d].stamp
                   /\ d = into => t.cache = cache
                   /\ d # into => t.cache = trees[d].cache
                   /\ t.made = trees[d].made
  <1> DEFINE new == Configured(dir, into, cache, stamp)
             newStamp(d) == IF d = dir THEN stamp ELSE trees[d].stamp
             newCache(d) == IF d = into THEN cache ELSE trees[d].cache
  <1>1. \A d \in Dirs : trees[d] \in Tree
    BY DEF TypeOK
  <1>2. new = [d \in Dirs |-> [trees[d] EXCEPT !.cache = newCache(d), !.stamp = newStamp(d)]]
    BY <1>1 DEF Configured, Tree
  <1>3. \A d \in Dirs : newStamp(d) \in Stamp /\ newCache(d) \in Cache
    BY <1>1 DEF Tree
  <1> HIDE DEF new, newStamp, newCache
  <1>4. ASSUME NEW d \in Dirs
        PROVE  /\ new[d] \in Tree
               /\ new[d].stamp = newStamp(d) /\ new[d].cache = newCache(d)
               /\ new[d].made = trees[d].made
    <2>1. new[d] = [trees[d] EXCEPT !.cache = newCache(d), !.stamp = newStamp(d)]
      BY <1>2
    <2> QED
      BY <2>1, <1>1, <1>3 DEF Tree
  <1>5. new \in [Dirs -> Tree]
    BY <1>2, <1>4
  <1> QED
    BY <1>4, <1>5 DEF new, newStamp, newCache

\* What one compiler run leaves.
LEMMA CompileOutcome ==
    ASSUME TypeOK, NEW a \in Actors, NEW side \in {"host", "client"}, NEW dir \in Dirs,
           NEW into, NEW cache \in Cache, NEW known \in BOOLEAN, NEW next,
           CompileIn(a, side, dir, into, cache, known, next)
    PROVE  /\ trees' \in [Dirs -> Tree] /\ clock' \in Nat
           /\ BuiltIn(a, side, dir, next) \/ NotBuilt(a)
  <1> DEFINE stamp == [asked |-> cache, text |-> presets]
             skip  == IsConfigured(dir, stamp)
             after == IF skip THEN trees ELSE Configured(dir, into, cache, stamp)
             made  == Compiled(side, pc[a].config, after[dir].cache)
  <1>1. stamp \in Stamp /\ \A d \in Dirs : trees[d].stamp \in Stamp
    BY DEF TypeOK, Stamp, Tree
  <1>2. trees \in [Dirs -> Tree] /\ clock \in Nat
    BY DEF TypeOK
  <1>3. after \in [Dirs -> Tree] /\ \A d \in Dirs : after[d].made = trees[d].made
    <2>1. CASE skip
      BY <2>1, <1>2
    <2>2. CASE ~skip
      <3>1. \A d \in Dirs : Configured(dir, into, cache, stamp)[d].made = trees[d].made
        BY <1>1, ConfiguredTypes
      <3> QED
        BY <2>2, <3>1, <1>1, ConfiguredTypes
    <2> QED
      BY <2>1, <2>2
  <1>4. made \in Made
    <2>1. after[dir].cache \in Cache
      BY <1>3 DEF Tree
    <2>2. pc[a].config \in Int /\ src[side].ver \in Int
      BY DEF TypeOK, Step, Sides
    <2> HIDE DEF after
    <2> QED
      BY <2>1, <2>2 DEF Compiled, Made, Cache
  <1>5. CASE /\ ~skip
             /\ ~known \/ ConfigureMayFail
             /\ Fail(a, "configure")
             /\ trees' \in {trees} \cup
                  (IF known THEN {Configured(dir, into, cache, trees[dir].stamp)} ELSE {})
             /\ UNCHANGED clock
    <2>1. trees' = trees \/ trees' = Configured(dir, into, cache, trees[dir].stamp)
      BY <1>5
    <2>2. trees' \in [Dirs -> Tree] /\ \A d \in Dirs : trees'[d].made = trees[d].made
      <3> DEFINE old == trees[dir].stamp
      <3>1. old \in Stamp
        BY <1>1
      <3> HIDE DEF old
      <3>2. /\ Configured(dir, into, cache, old) \in [Dirs -> Tree]
            /\ \A d \in Dirs : Configured(dir, into, cache, old)[d].made = trees[d].made
        BY <3>1, ConfiguredTypes
      <3> QED
        BY <3>2, <2>1, <1>2 DEF old
    <2> QED
      BY <2>2, <1>2, <1>5 DEF NotBuilt, Fails
  <1>6. CASE /\ skip \/ known
             /\ after[dir].cache = NoCache \/ src[side].kind # "sound"
             /\ Fail(a, IF after[dir].cache = NoCache THEN "tree" ELSE "source")
             /\ trees' = after
             /\ UNCHANGED clock
    <2> HIDE DEF after
    <2> QED
      BY <1>2, <1>3, <1>6 DEF NotBuilt, Fails
  <1>7. CASE /\ skip \/ known
             /\ after[dir].cache # NoCache /\ src[side].kind = "sound"
             /\ trees' = Built(after, dir, made)
             /\ clock' = IF trees'[dir].at = after[dir].at THEN clock ELSE clock + 1
             /\ Goto(a, next)
             /\ UNCHANGED <<session, last>>
    <2> HIDE DEF after, made
    <2>1. \A d \in Dirs : after[d] \in Tree
      BY <1>3
    <2>2. /\ trees' \in [Dirs -> Tree]
          /\ trees'[dir].made = made /\ trees'[dir].cache = after[dir].cache
          /\ \A d \in Dirs \ {dir} : trees'[d].made = after[d].made
      <3>1. CASE after[dir].made = made
        BY <3>1, <1>7, <1>3 DEF Built
      <3>2. CASE after[dir].made # made
        <4>1. trees' = [after EXCEPT ![dir] = [after[dir] EXCEPT !.made = made, !.at = clock + 1]]
          BY <3>2, <1>7, <1>3 DEF Built
        <4>2. [after[dir] EXCEPT !.made = made, !.at = clock + 1] \in Tree
          <5>1. clock + 1 \in Nat /\ made \in Made
            BY <1>2, <1>4 DEF made
          <5> QED
            BY <5>1, <2>1 DEF Tree
        <4>3. /\ [after[dir] EXCEPT !.made = made, !.at = clock + 1].made = made
              /\ [after[dir] EXCEPT !.made = made, !.at = clock + 1].cache = after[dir].cache
          BY <2>1 DEF Tree
        <4> QED
          BY <4>1, <4>2, <4>3, <1>3
      <3> QED
        BY <3>1, <3>2
    <2>3. clock' \in Nat
      BY <1>2, <1>7
    <2>4. trees'[dir].made = Compiled(side, pc[a].config, trees'[dir].cache)
      BY <2>2 DEF made
    <2> QED
      BY <2>2, <2>3, <2>4, <1>3, <1>7 DEF BuiltIn
  <1> QED
    BY <1>5, <1>6, <1>7 DEF CompileIn

\* A command that goes on or ends is still one that was asked for.
LEMMA CommandsGoOn ==
    ASSUME TypeOK, CommandsAreAsked, NEW a \in Actors, src' = src, GoesOn(a) \/ Ends(a)
    PROVE  /\ pc' \in [Actors -> Step]
           /\ CommandsAreAsked'
           /\ \A b \in Actors : pc'[b].at # "idle" =>
                /\ pc[b].at # "idle"
                /\ pc'[b].req = pc[b].req /\ pc'[b].config = pc[b].config
                /\ pc'[b].from = pc[b].from /\ pc'[b].cmd = pc[b].cmd
                /\ pc'[b].compiled = pc[b].compiled
                /\ pc'[b].at = "launch" => pc[b].at = "launch"
           /\ \A b \in Actors \ {a} : pc'[b] = pc[b]
  <1>1. pc \in [Actors -> Step]
    BY DEF TypeOK
  <1>2. Idle \in Step /\ Idle.at = "idle"
    BY NothingTypes DEF Idle
  <1>3. /\ pc' \in [Actors -> Step]
        /\ \A b \in Actors : pc'[b].at # "idle" =>
             /\ pc[b].at # "idle"
             /\ pc'[b].req = pc[b].req /\ pc'[b].config = pc[b].config
             /\ pc'[b].from = pc[b].from /\ pc'[b].cmd = pc[b].cmd
             /\ pc'[b].compiled = pc[b].compiled
             /\ pc'[b].at = "launch" => pc[b].at = "launch"
        /\ \A b \in Actors \ {a} : pc'[b] = pc[b]
    <2>1. CASE Ends(a)
      BY <2>1, <1>1, <1>2 DEF Ends
    <2>2. CASE GoesOn(a)
      <3>1. PICK at \in Phase \ {"launch"} : pc[a].at # "idle" /\ pc' = [pc EXCEPT ![a].at = at]
        BY <2>2 DEF GoesOn, Goto
      <3>2. [pc[a] EXCEPT !.at = at] \in Step
        BY <1>1 DEF Step
      <3>3. pc' = [pc EXCEPT ![a] = [pc[a] EXCEPT !.at = at]]
        BY <3>1, <1>1
      <3>4. /\ [pc[a] EXCEPT !.at = at].req = pc[a].req
            /\ [pc[a] EXCEPT !.at = at].config = pc[a].config
            /\ [pc[a] EXCEPT !.at = at].from = pc[a].from
            /\ [pc[a] EXCEPT !.at = at].cmd = pc[a].cmd
            /\ [pc[a] EXCEPT !.at = at].compiled = pc[a].compiled
        BY <1>1 DEF Step
      <3> QED
        BY <3>1, <3>2, <3>3, <3>4, <1>1
    <2> QED
      BY <2>1, <2>2
  <1>4. CommandsAreAsked'
    BY <1>3 DEF CommandsAreAsked, Actors
  <1> QED
    BY <1>3, <1>4

\* The session keeps its watch while commands go on; a rebuild that fails only says so.
LEMMA WatchGoesOn ==
    ASSUME TypeOK, CommandsAreAsked, SessionIsWatched, NEW a \in Actors, src' = src,
           GoesOn(a) \/ Ends(a),
           \/ session' = session
           \/ /\ pc["watcher"].at # "idle" /\ a = "watcher" /\ Ends(a)
              /\ session' = [session EXCEPT !.outcome = "failed"]
    PROVE  session' \in Session /\ SessionIsWatched' /\ session'.running = session.running
  <1>1. session \in Session
    BY DEF TypeOK
  <1>2. /\ session' \in Session
        /\ session'.on = session.on /\ session'.watching = session.watching
        /\ session'.req = session.req /\ session'.config = session.config
        /\ session'.seen = session.seen /\ session'.running = session.running
        /\ ~session'.watching => session'.outcome = "none"
    <2>1. CASE session' = session
      BY <2>1, <1>1 DEF SessionIsWatched
    <2>2. CASE /\ pc["watcher"].at # "idle"
               /\ session' = [session EXCEPT !.outcome = "failed"]
      <3>1. session.watching
        BY <2>2 DEF SessionIsWatched
      <3> QED
        BY <2>2, <3>1, <1>1 DEF Session
    <2> QED
      BY <2>1, <2>2
  <1>3. pc'["watcher"].at # "idle" =>
          /\ pc["watcher"].at # "idle" /\ pc'["watcher"].req = pc["watcher"].req
          /\ pc'["watcher"].config = pc["watcher"].config
          /\ pc'["watcher"].from = pc["watcher"].from
    BY CommandsGoOn DEF Actors
  <1>4. pc'["cli"].at # "idle" => pc["cli"].at # "idle" /\ pc'["cli"].cmd = pc["cli"].cmd
    BY CommandsGoOn DEF Actors
  <1> QED
    BY <1>2, <1>3, <1>4 DEF SessionIsWatched

\* A compiler run keeps what holds of every interleaving.
LEMMA CompileKeepsCore ==
    ASSUME CoreInv, NEW a \in Actors, NEW side \in {"host", "client"}, NEW dir \in Dirs,
           NEW next \in Phase \ {"launch"}, SideOf(dir) = side, pc[a].at # "idle",
           BuiltIn(a, side, dir, next) \/ NotBuilt(a),
           trees' \in [Dirs -> Tree], clock' \in Nat,
           UNCHANGED <<src, presets, deployed, bundle, served, typed>>
    PROVE  CoreInv'
  <1>1. TypeOK /\ CommandsAreAsked /\ SessionIsWatched /\ NothingIsAhead
    BY DEF CoreInv
  <1>2. /\ GoesOn(a) \/ Ends(a)
        /\ \/ session' = session
           \/ /\ pc["watcher"].at # "idle" /\ a = "watcher" /\ Ends(a)
              /\ session' = [session EXCEPT !.outcome = "failed"]
    BY DEF BuiltIn, NotBuilt, Fails, Fail, End, Ends, GoesOn
  <1>3. pc' \in [Actors -> Step] /\ CommandsAreAsked'
    BY <1>1, <1>2, CommandsGoOn
  <1>4. session' \in Session /\ SessionIsWatched' /\ session'.running = session.running
    BY <1>1, <1>2, WatchGoesOn
  <1>5. TypeOK'
    BY <1>1, <1>3, <1>4 DEF TypeOK
  <1>6. \A d \in Dirs : trees'[d].made.ver <= src[SideOf(d)].ver
    <2>1. ASSUME NEW d \in Dirs, trees'[d].made = trees[d].made
          PROVE  trees'[d].made.ver <= src[SideOf(d)].ver
      BY <2>1, <1>1 DEF NothingIsAhead
    <2>2. Compiled(side, pc[a].config, trees'[dir].cache).ver = src[side].ver
      BY DEF Compiled
    <2>3. src[side].ver <= src[side].ver
      BY <1>1 DEF TypeOK, Sides
    <2> QED
      BY <2>1, <2>2, <2>3 DEF BuiltIn, NotBuilt
  <1>7. NothingIsAhead'
    <2> SUFFICES /\ \A d \in Dirs : trees'[d].made.ver <= src'[SideOf(d)].ver
                 /\ bundle'.wasm.ver <= src'["client"].ver
                 /\ session'.running.ver <= src'["host"].ver
      BY DEF NothingIsAhead, SideOf
    <2> QED
      BY <1>1, <1>4, <1>6 DEF NothingIsAhead
  <1> QED
    BY <1>3, <1>4, <1>5, <1>7 DEF CoreInv

LEMMA CompileHostOutcome ==
    ASSUME TypeOK, CommandsAreAsked, NEW a \in Actors, CompileHost(a)
    PROVE  LET req == pc[a].req
           IN /\ req \in Request /\ HostDir(req) \in Dirs /\ SideOf(HostDir(req)) = "host"
              /\ trees' \in [Dirs -> Tree] /\ clock' \in Nat
              /\ IF req.services
                 THEN \/ BuiltIn(a, "host", HostDir(req), IF req.client THEN "wasm" ELSE "install")
                      \/ NotBuilt(a)
                 ELSE /\ Goto(a, IF req.client THEN "wasm" ELSE "install")
                      /\ UNCHANGED <<trees, clock, session, last>>
  <1> DEFINE req == pc[a].req
             preset == PresetName(req)
             known == preset \in PresetNames
             next == IF req.client THEN "wasm" ELSE "install"
             into == IF known THEN PresetDir(preset) ELSE HostDir(req)
             cache == IF known THEN PresetCache(preset) ELSE NoCache
  <1>1. pc[a].at = "host" /\ req \in Requests \cup DevRequests
    BY DEF CompileHost, CommandsAreAsked
  <1>2. req \in Request /\ HostDir(req) \in Dirs /\ SideOf(HostDir(req)) = "host"
    BY <1>1, RequestsAreTyped
  <1>3. cache \in Cache /\ next \in Phase /\ known \in BOOLEAN
    BY <1>2, PresetTypes, NothingTypes DEF Phase
  <1>4. IF req.services
        THEN CompileIn(a, "host", HostDir(req), into, cache, known, next)
        ELSE Goto(a, next) /\ UNCHANGED <<trees, clock, session, last>>
    BY DEF CompileHost
  <1>5. trees \in [Dirs -> Tree] /\ clock \in Nat
    BY DEF TypeOK
  <1> HIDE DEF req, next, into, cache, known
  <1>6. CASE req.services
    BY <1>2, <1>3, <1>4, <1>6, CompileOutcome DEF req, next
  <1>7. CASE ~req.services
    BY <1>2, <1>4, <1>5, <1>7 DEF req, next
  <1> QED
    BY <1>6, <1>7

LEMMA CompileWasmOutcome ==
    ASSUME TypeOK, CommandsAreAsked, NEW a \in Actors, CompileWasm(a)
    PROVE  LET req == pc[a].req
           IN /\ req \in Request /\ WasmDir(req) \in Dirs /\ SideOf(WasmDir(req)) = "client"
              /\ trees' \in [Dirs -> Tree] /\ clock' \in Nat
              /\ BuiltIn(a, "client", WasmDir(req), "assemble") \/ NotBuilt(a)
  <1> DEFINE req == pc[a].req
             cache == [type |-> BuildType(req, "wasm"), strip |-> Strips(req), dev |-> req.dev]
  <1>1. pc[a].at = "wasm" /\ req \in Requests \cup DevRequests
    BY DEF CompileWasm, CommandsAreAsked
  <1>2. req \in Request /\ WasmDir(req) \in Dirs /\ SideOf(WasmDir(req)) = "client"
    BY <1>1, RequestsAreTyped
  <1>3. cache \in Cache
    <2>1. BuildType(req, "wasm") \in Word
      BY <1>2 DEF BuildType, Request, Word
    <2> QED
      BY <2>1, <1>2 DEF Cache, Request, Strips
  <1>4. CompileIn(a, "client", WasmDir(req), WasmDir(req), cache, TRUE, "assemble")
    BY DEF CompileWasm
  <1> HIDE DEF cache, req
  <1>5. "assemble" \in Phase
    BY DEF Phase
  <1> QED
    BY <1>2, <1>3, <1>4, <1>5, CompileOutcome DEF req

LEMMA CompilerRunsKeepCore ==
    ASSUME CoreInv, NEW a \in Actors, CompileHost(a) \/ CompileWasm(a)
    PROVE  CoreInv'
  <1>1. TypeOK /\ CommandsAreAsked /\ SessionIsWatched /\ NothingIsAhead
    BY DEF CoreInv
  <1> DEFINE req == pc[a].req
             next == IF req.client THEN "wasm" ELSE "install"
  <1>2. CASE CompileHost(a) /\ req.services
    BY <1>1, <1>2, CompileHostOutcome, CompileKeepsCore DEF CompileHost, Phase
  <1>3. CASE CompileHost(a) /\ ~req.services
    <2>1. GoesOn(a) /\ UNCHANGED <<src, trees, clock, session, presets, deployed, bundle>>
      BY <1>1, <1>3, CompileHostOutcome DEF CompileHost, Phase, GoesOn
    <2>2. pc' \in [Actors -> Step] /\ CommandsAreAsked'
      BY <1>1, <2>1, CommandsGoOn
    <2>3. SessionIsWatched'
      BY <1>1, <2>1, WatchGoesOn
    <2>4. TypeOK' /\ NothingIsAhead'
      BY <1>1, <2>1, <2>2 DEF TypeOK, NothingIsAhead, SideOf
    <2> QED
      BY <2>2, <2>3, <2>4 DEF CoreInv
  <1>4. CASE CompileWasm(a)
    BY <1>1, <1>4, CompileWasmOutcome, CompileKeepsCore DEF CompileWasm, Phase
  <1> QED
    BY <1>2, <1>3, <1>4

\* No command begins.
NoneBegins ==
  /\ pc' \in [Actors -> Step]
  /\ \A b \in Actors : pc'[b].at # "idle" =>
       /\ pc[b].at # "idle"
       /\ pc'[b].req = pc[b].req /\ pc'[b].config = pc[b].config
       /\ pc'[b].from = pc[b].from /\ pc'[b].cmd = pc[b].cmd
  /\ pc'["cli"].at = "launch" => pc'["cli"].cmd = "dev"

\* A step of a build after its compiler runs.
LEMMA LaterStepsKeepCore ==
    ASSUME CoreInv, NoneBegins, UNCHANGED <<src, trees, presets, session>>,
           bundle' \in Bundle, bundle'.wasm.ver <= src["client"].ver,
           deployed' \in Made, clock' \in Nat
    PROVE  CoreInv'
  <1>1. TypeOK /\ CommandsAreAsked /\ SessionIsWatched /\ NothingIsAhead
    BY DEF CoreInv
  <1>2. CommandsAreAsked'
    BY <1>1 DEF CommandsAreAsked, NoneBegins, Actors
  <1>3. SessionIsWatched'
    BY <1>1 DEF SessionIsWatched, NoneBegins, Actors
  <1>4. TypeOK'
    BY <1>1 DEF TypeOK, NoneBegins
  <1>5. NothingIsAhead'
    BY <1>1 DEF NothingIsAhead, SideOf
  <1> QED
    BY <1>2, <1>3, <1>4, <1>5 DEF CoreInv

LEMMA NoneBeginsByGoingOn ==
    ASSUME CoreInv, NEW a \in Actors, GoesOn(a) \/ Ends(a), UNCHANGED src
    PROVE  NoneBegins
  <1>1. TypeOK /\ CommandsAreAsked
    BY DEF CoreInv
  <1>2. CommandsAreAsked'
    BY <1>1, CommandsGoOn
  <1>3. pc'["cli"].at = "launch" => pc'["cli"].cmd = "dev"
    BY <1>2 DEF CommandsAreAsked
  <1> QED
    BY <1>1, <1>3, CommandsGoOn DEF NoneBegins

LEMMA AssemblyKeepsCore ==
    ASSUME CoreInv, NEW a \in Actors, CopyBundle(a) \/ WriteManifest(a) \/ Install(a)
    PROVE  CoreInv'
  <1>1. TypeOK /\ CommandsAreAsked /\ NothingIsAhead
    BY DEF CoreInv
  <1>2. bundle \in Bundle /\ deployed \in Made /\ clock \in Nat
    BY <1>1 DEF TypeOK
  <1> DEFINE req == pc[a].req
  <1>3. pc[a].at # "idle" /\ req \in Requests \cup DevRequests
    BY <1>1 DEF CopyBundle, WriteManifest, Install, CommandsAreAsked
  <1>4. /\ trees[HostDir(req)] \in Tree
        /\ trees[WasmDir(req)] \in Tree
        /\ trees[WasmDir(req)].made.ver <= src["client"].ver
    BY <1>1, <1>3, RequestsAreTyped DEF TypeOK, NothingIsAhead
  <1>5. NoneBegins
    <2>1. GoesOn(a)
      BY <1>3 DEF CopyBundle, WriteManifest, Install, GoesOn, Phase
    <2> QED
      BY <2>1, NoneBeginsByGoingOn DEF CopyBundle, WriteManifest, Install
  <1>6. UNCHANGED <<src, trees, presets, session>> /\ clock' \in Nat
    BY <1>2 DEF CopyBundle, WriteManifest, Install
  <1>7. deployed' \in Made
    BY <1>2, <1>4 DEF CopyBundle, WriteManifest, Install, Tree
  <1>8. bundle' \in Bundle /\ bundle'.wasm.ver <= src["client"].ver
    <2>1. CASE CopyBundle(a)
      <3> DEFINE tree == trees[WasmDir(req)]
      <3>1. /\ bundle' = [bundle EXCEPT !.exists = TRUE, !.wasm = tree.made, !.at = tree.at,
                                        !.hook = FALSE]
            /\ tree.made \in Made /\ tree.at \in Nat
        BY <2>1, <1>4 DEF CopyBundle, Tree
      <3>2. tree.made.ver <= src["client"].ver
        BY <1>4
      <3> HIDE DEF tree
      <3> QED
        BY <3>1, <3>2, <1>2 DEF Bundle
    <2>2. CASE WriteManifest(a)
      BY <2>2, <1>1, <1>2 DEF WriteManifest, Bundle, NothingIsAhead
    <2>3. CASE Install(a)
      BY <2>3, <1>1, <1>2 DEF Install, Bundle, NothingIsAhead
    <2> QED
      BY <2>1, <2>2, <2>3
  <1> QED
    BY <1>5, <1>6, <1>7, <1>8, LaterStepsKeepCore

LEMMA SkippingKeepsCore ==
    ASSUME CoreInv, SkipCompile("cli")
    PROVE  CoreInv'
  <1>1. pc \in [Actors -> Step]
    BY DEF CoreInv, TypeOK
  <1> DEFINE p == [pc["cli"] EXCEPT !.at = "install", !.compiled = FALSE]
  <1>2. p \in Step
    BY <1>1 DEF Step, Phase, Actors
  <1>3. pc' = [pc EXCEPT !["cli"] = p] /\ pc["cli"].at = "host"
    BY <1>1 DEF SkipCompile
  <1>4. /\ p.at = "install" /\ p.req = pc["cli"].req /\ p.config = pc["cli"].config
        /\ p.from = pc["cli"].from /\ p.cmd = pc["cli"].cmd
    BY <1>1 DEF Step, Actors
  <1> HIDE DEF p
  <1>5. NoneBegins
    BY <1>1, <1>2, <1>3, <1>4 DEF NoneBegins, Actors
  <1> QED
    BY <1>5, LaterStepsKeepCore DEF SkipCompile, CoreInv, TypeOK, NothingIsAhead

LEMMA CompressKeepsCore ==
    ASSUME CoreInv, Compress
    PROVE  CoreInv'
  <1>1. pc \in [Actors -> Step] /\ bundle \in Bundle /\ clock \in Nat /\ deployed \in Made
    BY DEF CoreInv, TypeOK
  <1>2. bundle.wasm.ver <= src["client"].ver
    BY DEF CoreInv, NothingIsAhead
  <1>3. /\ bundle' \in Bundle /\ bundle'.wasm.ver <= src["client"].ver /\ clock' \in Nat
        /\ deployed' \in Made
    <2> DEFINE redo == pc["cli"].req.client /\ bundle.wasm # NoMade /\ ~IsCurrent
    <2>1. /\ bundle' = IF redo THEN [bundle EXCEPT !.packed = bundle.wasm, !.packedAt = clock + 1]
                       ELSE bundle
          /\ clock' = IF redo THEN clock + 1 ELSE clock
          /\ deployed' = deployed
      BY DEF Compress
    <2> HIDE DEF redo
    <2>2. clock + 1 \in Nat /\ bundle.wasm \in Made
      BY <1>1 DEF Bundle
    <2>3. /\ [bundle EXCEPT !.packed = bundle.wasm, !.packedAt = clock + 1] \in Bundle
          /\ [bundle EXCEPT !.packed = bundle.wasm, !.packedAt = clock + 1].wasm = bundle.wasm
      BY <2>2, <1>1 DEF Bundle
    <2>4. CASE redo
      BY <2>1, <2>2, <2>3, <2>4, <1>1, <1>2
    <2>5. CASE ~redo
      BY <2>1, <2>5, <1>1, <1>2
    <2> QED
      BY <2>4, <2>5
  <1>4. NoneBegins
    <2>1. CASE pc["cli"].cmd = "dev"
      <3> DEFINE p == [pc["cli"] EXCEPT !.at = "launch"]
      <3>1. p \in Step
        BY <1>1 DEF Step, Phase, Actors
      <3>2. pc' = [pc EXCEPT !["cli"] = p] /\ pc["cli"].at = "compress"
        BY <1>1, <2>1 DEF Compress, Goto
      <3>3. /\ p.req = pc["cli"].req /\ p.config = pc["cli"].config
            /\ p.from = pc["cli"].from /\ p.cmd = pc["cli"].cmd
        BY <1>1 DEF Step, Actors
      <3> HIDE DEF p
      <3> QED
        BY <1>1, <2>1, <3>1, <3>2, <3>3 DEF NoneBegins, Actors, CoreInv, CommandsAreAsked
    <2>2. CASE pc["cli"].cmd # "dev"
      BY <2>2, NoneBeginsByGoingOn DEF Compress, End, Ends, Actors
    <2> QED
      BY <2>1, <2>2
  <1> QED
    BY <1>3, <1>4, LaterStepsKeepCore DEF Compress

LEMMA InterruptKeepsCore ==
    ASSUME CoreInv, Interrupt
    PROVE  CoreInv'
  <1>1. NoneBegins
    BY NoneBeginsByGoingOn DEF Interrupt, End, Ends, Actors
  <1> QED
    BY <1>1, LaterStepsKeepCore DEF Interrupt, CoreInv, TypeOK, NothingIsAhead

-----------------------------------------------------------------------------
(* Commands that begin *)

\* What is written before a build.
LEMMA GenerateOutcome ==
    ASSUME TypeOK, NEW a \in Actors, NEW cmd \in {"none", "build", "dev", "reload"},
           NEW req \in Requests \cup DevRequests, NEW config \in 0..MaxEdits,
           Generate(a, cmd, req, config, Versions)
    PROVE  /\ presets' \in Text /\ pc' \in [Actors -> Step]
           /\ \A b \in Actors \ {a} : pc'[b] = pc[b]
           /\ pc'[a].at = "host" /\ pc'[a].cmd = cmd /\ pc'[a].req = req
           /\ pc'[a].config = config /\ pc'[a].from = Versions
  <1>1. req \in Request
    BY RequestsAreTyped
  <1>2. presets' \in Text
    <2>1. req.type \in Word /\ req.strip \in BOOLEAN /\ req.dev \in BOOLEAN /\ req.threads \in Word
      BY <1>1 DEF Request
    <2>2. IF req.profile = "custom"
          THEN [type |-> req.type, strip |-> req.strip, dev |-> req.dev] \in Cache
          ELSE NoCache \in Cache
      BY <2>1, NothingTypes DEF Cache
    <2>3. config \in Int
      OBVIOUS
    <2> QED
      BY <2>1, <2>2, <2>3 DEF Generate, PresetsText, Text
  <1> DEFINE p == [at |-> "host", cmd |-> cmd, req |-> req, config |-> config,
                   from |-> Versions, compiled |-> TRUE]
  <1>3. Versions \in [Sides -> Nat]
    BY DEF TypeOK, Versions
  <1>4. p \in Step
    BY <1>1, <1>3 DEF Step, Phase
  <1>5. pc' = [pc EXCEPT ![a] = p] /\ pc \in [Actors -> Step]
    BY DEF Generate, TypeOK
  <1>6. p.at = "host" /\ p.cmd = cmd /\ p.req = req /\ p.config = config /\ p.from = Versions
    OBVIOUS
  <1> HIDE DEF p
  <1> QED
    BY <1>2, <1>4, <1>5, <1>6

LEMMA BeginKeepsCore ==
    ASSUME CoreInv, NEW cmd \in {"build", "dev"}, NEW req \in Requests \cup DevRequests,
           cmd = "dev" => req \in DevRequests, Begin(cmd, req)
    PROVE  CoreInv'
  <1>1. TypeOK /\ CommandsAreAsked /\ SessionIsWatched /\ NothingIsAhead
    BY DEF CoreInv
  <1>2. CASE src["config"].kind # "sound"
    <2>1. NoneBegins
      BY <1>2, NoneBeginsByGoingOn DEF Begin, End, Ends, Actors
    <2> QED
      BY <1>2, <2>1, LaterStepsKeepCore DEF Begin, CoreInv, TypeOK, NothingIsAhead
  <1>3. CASE src["config"].kind = "sound"
    <2>1. src["config"].ver \in 0..MaxEdits
      BY <1>1, MaxEditsAssumption DEF TypeOK, Sides
    <2>2. /\ Generate("cli", cmd, req, src["config"].ver, Versions)
          /\ UNCHANGED <<src, trees, deployed, bundle, clock, session>>
          /\ session.on => cmd = "build"
      BY <1>3 DEF Begin
    <2>3. /\ presets' \in Text /\ pc' \in [Actors -> Step]
          /\ \A b \in Actors \ {"cli"} : pc'[b] = pc[b]
          /\ pc'["cli"].at = "host" /\ pc'["cli"].cmd = cmd /\ pc'["cli"].req = req
          /\ pc'["cli"].config = src["config"].ver /\ pc'["cli"].from = Versions
      BY <1>1, <2>1, <2>2, GenerateOutcome DEF Actors
    <2>4. pc'["watcher"] = pc["watcher"]
      BY <2>3 DEF Actors
    <2>5. \A s \in Sides : Versions[s] <= src[s].ver
      BY <1>1 DEF TypeOK, Versions
    <2>6. CommandsAreAsked'
      BY <1>1, <2>1, <2>2, <2>3, <2>4, <2>5 DEF CommandsAreAsked, Actors
    <2>7. SessionIsWatched'
      BY <1>1, <2>2, <2>3, <2>4 DEF SessionIsWatched
    <2>8. TypeOK' /\ NothingIsAhead'
      BY <1>1, <2>2, <2>3 DEF TypeOK, NothingIsAhead, SideOf
    <2> QED
      BY <2>6, <2>7, <2>8 DEF CoreInv
  <1> QED
    BY <1>2, <1>3

-----------------------------------------------------------------------------
(* The development session, the other commands and the author *)

LEMMA HarnessTypes ==
    ASSUME NEW b \in Bundle, clock \in Nat
    PROVE  /\ Harness(b) \in Bundle
           /\ Harness(b).wasm = b.wasm /\ Harness(b).exists = b.exists
           /\ b.exists => Harness(b).hook = (b.wasm # NoMade)
  <1>1. CASE b.exists
    <2> DEFINE hook == b.wasm # NoMade
    <2>1. hook \in BOOLEAN
      OBVIOUS
    <2>2. Harness(b) = [b EXCEPT !.hook = hook, !.token = clock]
      BY <1>1 DEF Harness
    <2> HIDE DEF hook
    <2>3. Harness(b) \in Bundle /\ Harness(b).wasm = b.wasm /\ Harness(b).exists = b.exists
          /\ Harness(b).hook = hook
      BY <2>1, <2>2 DEF Bundle
    <2> QED
      BY <2>3 DEF hook
  <1>2. CASE ~b.exists
    BY <1>2 DEF Harness
  <1> QED
    BY <1>1, <1>2

LEMMA LaunchOutcome ==
    ASSUME CoreInv, Launch, trees[HostDir(pc["cli"].req)].made # NoMade
    PROVE  /\ session' \in Session
           /\ session'.on /\ ~session'.watching /\ session'.outcome = "none"
           /\ session'.req = pc["cli"].req /\ session'.req \in DevRequests
           /\ session'.config = src["config"] /\ session'.config.ver \in 0..MaxEdits
           /\ session'.running = trees[HostDir(pc["cli"].req)].made
           /\ session'.running.ver <= src["host"].ver
           /\ session'.order = LaunchOrder[pc["cli"].config] /\ pc["cli"].config \in 0..MaxEdits
           /\ session'.seen = [s \in Sides |-> 0]
           /\ bundle' = Harness(bundle)
           /\ Ends("cli") /\ pc["watcher"].at = "idle"
  <1> DEFINE req == pc["cli"].req
             made == trees[HostDir(req)].made
             order == LaunchOrder[pc["cli"].config]
  <1>1. TypeOK /\ CommandsAreAsked /\ SessionIsWatched /\ NothingIsAhead
    BY DEF CoreInv
  <1>2. /\ pc["cli"].at = "launch" /\ pc["cli"].cmd = "dev" /\ req \in DevRequests
        /\ pc["cli"].config \in 0..MaxEdits /\ ~session.on
    BY <1>1 DEF Launch, CommandsAreAsked, SessionIsWatched, Actors
  <1>3. pc["watcher"].at = "idle"
    BY <1>1, <1>2 DEF SessionIsWatched
  <1>4. /\ session' = [NoSession EXCEPT !.on = TRUE, !.req = req, !.config = src["config"],
                                        !.running = made, !.order = order]
        /\ bundle' = Harness(bundle) /\ Ends("cli")
    BY <1>2 DEF Launch, End, Ends
  <1>5. src["config"] \in Saved /\ src["config"].ver \in 0..MaxEdits
    BY <1>1, MaxEditsAssumption DEF TypeOK, Sides
  <1>6. req \in Request /\ made \in Made /\ made.ver <= src["host"].ver
    <2>1. req \in Request /\ HostDir(req) \in Dirs /\ SideOf(HostDir(req)) = "host"
      BY <1>2, RequestsAreTyped
    <2> QED
      BY <2>1, <1>1 DEF TypeOK, Tree, NothingIsAhead
  <1>7. order \in Seq(Services)
    BY <1>2, LaunchOrderProperties
  <1>8. NoSession \in Session
    BY NothingTypes
  <1> HIDE DEF req, made, order
  <1>9. session' \in Session
    BY <1>4, <1>5, <1>6, <1>7, <1>8 DEF Session
  <1>10. /\ session'.on /\ ~session'.watching /\ session'.outcome = "none" /\ session'.req = req
         /\ session'.config = src["config"] /\ session'.running = made /\ session'.order = order
         /\ session'.seen = [s \in Sides |-> 0]
    BY <1>4 DEF NoSession
  <1> QED
    BY <1>2, <1>3, <1>4, <1>5, <1>6, <1>9, <1>10 DEF req, made, order

LEMMA LaunchKeepsCore ==
    ASSUME CoreInv, Launch
    PROVE  CoreInv'
  <1>1. TypeOK /\ CommandsAreAsked /\ SessionIsWatched /\ NothingIsAhead
    BY DEF CoreInv
  <1>2. NoneBegins
    <2>1. Ends("cli")
      BY DEF Launch, End, Ends
    <2> QED
      BY <2>1, NoneBeginsByGoingOn DEF Launch, Actors
  <1>3. CASE trees[HostDir(pc["cli"].req)].made = NoMade
    BY <1>1, <1>2, <1>3, LaterStepsKeepCore DEF Launch, TypeOK, NothingIsAhead
  <1>4. CASE trees[HostDir(pc["cli"].req)].made # NoMade
    <2>1. /\ bundle' \in Bundle /\ bundle'.wasm = bundle.wasm
          /\ UNCHANGED <<src, trees, presets, deployed, clock>>
      BY <1>1, <1>4, LaunchOutcome, HarnessTypes DEF TypeOK, Launch
    <2>2. pc'["watcher"].at = "idle" /\ pc'["cli"].at = "idle"
      BY <1>1, <1>4, LaunchOutcome DEF Ends, Idle, TypeOK, Actors
    <2>3. CommandsAreAsked'
      BY <2>2 DEF CommandsAreAsked, Actors
    <2>4. SessionIsWatched'
      <3>1. \A s \in Sides : 0 <= src[s].ver
        BY <1>1 DEF TypeOK
      <3> QED
        BY <1>1, <1>4, <2>1, <2>2, <3>1, LaunchOutcome DEF SessionIsWatched
    <2>5. TypeOK'
      BY <1>1, <1>2, <1>4, <2>1, LaunchOutcome DEF TypeOK, NoneBegins
    <2>6. NothingIsAhead'
      BY <1>1, <1>4, <2>1, LaunchOutcome DEF NothingIsAhead, SideOf
    <2> QED
      BY <2>3, <2>4, <2>5, <2>6 DEF CoreInv
  <1> QED
    BY <1>3, <1>4

LEMMA StartWatchingKeepsCore ==
    ASSUME CoreInv, StartWatching
    PROVE  CoreInv'
  <1>1. TypeOK /\ CommandsAreAsked /\ SessionIsWatched /\ NothingIsAhead
    BY DEF CoreInv
  <1>2. Versions \in [Sides -> Nat] /\ \A s \in Sides : Versions[s] <= src[s].ver
    BY <1>1 DEF TypeOK, Versions
  <1>3. /\ session' = [session EXCEPT !.watching = TRUE, !.seen = Versions]
        /\ session \in Session /\ session.on /\ pc["watcher"].at = "idle"
        /\ UNCHANGED <<src, trees, presets, deployed, bundle, clock, pc>>
    BY <1>1 DEF StartWatching, TypeOK, SessionIsWatched
  <1>4. /\ session' \in Session
        /\ session'.on /\ session'.watching /\ session'.seen = Versions
        /\ session'.req = session.req /\ session'.config = session.config
        /\ session'.running = session.running
    BY <1>2, <1>3 DEF Session
  <1>5. SessionIsWatched'
    BY <1>1, <1>2, <1>3, <1>4 DEF SessionIsWatched
  <1>6. TypeOK' /\ CommandsAreAsked' /\ NothingIsAhead'
    BY <1>1, <1>3, <1>4 DEF TypeOK, CommandsAreAsked, NothingIsAhead, SideOf
  <1> QED
    BY <1>5, <1>6 DEF CoreInv

\* What a turn of the watch loop that sees a change leaves.
LEMMA PollOutcome ==
    ASSUME CoreInv, Poll
    PROVE  /\ session.watching /\ session.on /\ pc["watcher"].at = "idle"
           /\ session' \in Session
           /\ session'.seen = Versions
           /\ session'.changed = {s \in Sides : session.seen[s] # src[s].ver}
           /\ session'.changed # {}
           /\ session'.on /\ session'.watching
           /\ session'.req = session.req /\ session'.running = session.running
           /\ session'.order = session.order
           /\ session'.config.ver \in 0..MaxEdits
           /\ "config" \notin session'.changed => session'.config = session.config
           /\ \/ Generate("watcher", "reload", session.req, session'.config.ver, Versions)
              \/ session'.outcome = "failed" /\ UNCHANGED <<pc, presets>>
  <1> DEFINE changed == {s \in Sides : session.seen[s] # src[s].ver}
             reads   == "config" \in changed
             config  == IF reads /\ src["config"].kind # "broken" THEN src["config"]
                        ELSE session.config
             goes    == ~(reads /\ src["config"].kind = "broken") /\ config.kind = "sound"
             outcome == IF goes THEN session.outcome ELSE "failed"
  <1>1. TypeOK /\ CommandsAreAsked /\ SessionIsWatched
    BY DEF CoreInv
  <1>2. session.watching /\ session.on /\ pc["watcher"].at = "idle" /\ session \in Session
    BY <1>1 DEF Poll, SessionIsWatched, TypeOK
  <1>3. session' = [session EXCEPT !.seen = Versions, !.config = config, !.changed = changed,
                                   !.outcome = outcome]
    BY <1>2 DEF Poll, Session
  <1>4. Versions \in [Sides -> Nat] /\ changed \in SUBSET Sides
    BY <1>1 DEF TypeOK, Versions
  <1>5. config \in Saved /\ config.ver \in 0..MaxEdits /\ outcome \in {"none", "failed", "rebuilt"}
    <2>1. src["config"] \in Saved /\ src["config"].ver \in 0..MaxEdits
      BY <1>1, MaxEditsAssumption DEF TypeOK, Sides
    <2>2. session.config \in Saved /\ session.config.ver \in 0..MaxEdits
      BY <1>1, <1>2 DEF Session, SessionIsWatched
    <2>3. session.outcome \in {"none", "failed", "rebuilt"}
      BY <1>2 DEF Session
    <2> QED
      BY <2>1, <2>2, <2>3
  <1>6. IF goes THEN Generate("watcher", "reload", session.req, config.ver, Versions)
        ELSE UNCHANGED <<pc, presets>>
    BY DEF Poll
  <1>7. changed # {}
    BY DEF Poll
  <1>8. ~reads => config = session.config
    OBVIOUS
  <1>9. ~goes => outcome = "failed"
    OBVIOUS
  <1> HIDE DEF config, goes, outcome
  <1>10. /\ session' \in Session /\ session'.seen = Versions /\ session'.changed = changed
        /\ session'.on /\ session'.watching /\ session'.config = config
        /\ session'.req = session.req /\ session'.running = session.running
        /\ session'.order = session.order /\ session'.outcome = outcome
    <2> HIDE DEF changed, reads
    <2> QED
      BY <1>2, <1>3, <1>4, <1>5 DEF Session
  <1> QED
    BY <1>2, <1>5, <1>6, <1>8, <1>9, <1>10, <1>7

LEMMA PollKeepsCore ==
    ASSUME CoreInv, Poll
    PROVE  CoreInv'
  <1>1. TypeOK /\ CommandsAreAsked /\ SessionIsWatched /\ NothingIsAhead
    BY DEF CoreInv
  <1>2. UNCHANGED <<src, trees, deployed, bundle, clock>>
    BY DEF Poll
  <1>3. \A s \in Sides : Versions[s] <= src[s].ver
    BY <1>1 DEF TypeOK, Versions
  <1>4. session.req \in DevRequests /\ session.watching /\ session.on
        /\ pc["watcher"].at = "idle"
    BY <1>1, PollOutcome DEF SessionIsWatched
  <1>5. CASE Generate("watcher", "reload", session.req, session'.config.ver, Versions)
    <2>1. /\ presets' \in Text /\ pc' \in [Actors -> Step]
          /\ \A b \in Actors \ {"watcher"} : pc'[b] = pc[b]
          /\ pc'["watcher"].at = "host" /\ pc'["watcher"].req = session.req
          /\ pc'["watcher"].config = session'.config.ver /\ pc'["watcher"].from = Versions
      BY <1>1, <1>4, <1>5, PollOutcome, GenerateOutcome DEF Actors
    <2>2. pc'["cli"] = pc["cli"]
      BY <2>1 DEF Actors
    <2>3. CommandsAreAsked'
      BY <1>1, <1>2, <1>3, <1>4, <2>1, <2>2, PollOutcome DEF CommandsAreAsked, Actors
    <2>4. SessionIsWatched'
      BY <1>1, <1>2, <1>3, <1>4, <2>1, <2>2, PollOutcome DEF SessionIsWatched
    <2>5. TypeOK'
      BY <1>1, <1>2, <2>1, PollOutcome DEF TypeOK
    <2>6. NothingIsAhead'
      BY <1>1, <1>2, PollOutcome DEF NothingIsAhead, SideOf
    <2> QED
      BY <2>3, <2>4, <2>5, <2>6 DEF CoreInv
  <1>6. CASE session'.outcome = "failed" /\ UNCHANGED <<pc, presets>>
    <2>1. CommandsAreAsked'
      BY <1>1, <1>2, <1>6 DEF CommandsAreAsked
    <2>2. SessionIsWatched'
      BY <1>1, <1>2, <1>3, <1>4, <1>6, PollOutcome DEF SessionIsWatched
    <2>3. TypeOK'
      BY <1>1, <1>2, <1>6, PollOutcome DEF TypeOK
    <2>4. NothingIsAhead'
      BY <1>1, <1>2, PollOutcome DEF NothingIsAhead, SideOf
    <2> QED
      BY <2>1, <2>2, <2>3, <2>4 DEF CoreInv
  <1> QED
    BY <1>5, <1>6, PollOutcome

\* What the end of a rebuild leaves.
LEMMA ReloadOutcome ==
    ASSUME CoreInv, Reload
    PROVE  LET made == trees[HostDir(session.req)].made
               restart == HostChanged(session.changed)
           IN /\ session.watching /\ session.on /\ session.config.ver \in 0..MaxEdits
              /\ session.req \in Requests \cup DevRequests
              /\ session' \in Session
              /\ session'.running = IF restart THEN made ELSE session.running
              /\ session'.order = IF restart THEN LaunchOrder[session.config.ver]
                                  ELSE session.order
              /\ session'.outcome = "rebuilt"
              /\ session'.on /\ session'.watching /\ session'.req = session.req
              /\ session'.config = session.config /\ session'.seen = session.seen
              /\ session'.changed = session.changed
              /\ bundle' = IF restart /\ made = NoMade THEN bundle ELSE Harness(bundle)
              /\ bundle' \in Bundle /\ bundle'.wasm = bundle.wasm
              /\ made \in Made /\ made.ver <= src["host"].ver
              /\ Ends("watcher") /\ pc["watcher"].at = "reload"
  <1> DEFINE made == trees[HostDir(session.req)].made
             restart == HostChanged(session.changed)
             running == IF restart THEN made ELSE session.running
             order == IF restart THEN LaunchOrder[session.config.ver] ELSE session.order
  <1>1. TypeOK /\ CommandsAreAsked /\ SessionIsWatched /\ NothingIsAhead
    BY DEF CoreInv
  <1>2. pc["watcher"].at = "reload" /\ Ends("watcher")
    BY DEF Reload, Ends
  <1>3. /\ session.watching /\ session.on /\ session.config.ver \in 0..MaxEdits
        /\ session.req \in DevRequests /\ session \in Session
    BY <1>1, <1>2 DEF SessionIsWatched, TypeOK
  <1>4. made \in Made /\ made.ver <= src["host"].ver
    <2>1. HostDir(session.req) \in Dirs /\ SideOf(HostDir(session.req)) = "host"
      BY <1>3, RequestsAreTyped
    <2> QED
      BY <2>1, <1>1 DEF TypeOK, Tree, NothingIsAhead
  <1>5. session' = [session EXCEPT !.running = running, !.order = order, !.outcome = "rebuilt"]
    BY <1>3 DEF Reload, Session
  <1>6. running \in Made /\ order \in Seq(Services)
    BY <1>3, <1>4, LaunchOrderProperties DEF Session
  <1>7. /\ session' \in Session
        /\ session'.running = running /\ session'.order = order /\ session'.outcome = "rebuilt"
        /\ session'.on /\ session'.watching /\ session'.req = session.req
        /\ session'.config = session.config /\ session'.seen = session.seen
        /\ session'.changed = session.changed
    <2> HIDE DEF running, order
    <2> QED
      BY <1>3, <1>5, <1>6 DEF Session
  <1>8. bundle' = IF restart /\ made = NoMade THEN bundle ELSE Harness(bundle)
    BY DEF Reload
  <1>9. bundle' \in Bundle /\ bundle'.wasm = bundle.wasm
    BY <1>1, <1>8, HarnessTypes DEF TypeOK
  <1> QED
    BY <1>2, <1>3, <1>4, <1>7, <1>8, <1>9

LEMMA ReloadKeepsCore ==
    ASSUME CoreInv, Reload
    PROVE  CoreInv'
  <1>1. TypeOK /\ CommandsAreAsked /\ SessionIsWatched /\ NothingIsAhead
    BY DEF CoreInv
  <1>2. UNCHANGED <<src, trees, presets, deployed, clock>>
    BY DEF Reload
  <1>3. NoneBegins
    BY <1>2, ReloadOutcome, NoneBeginsByGoingOn DEF Actors
  <1>4. pc'["watcher"].at = "idle"
    BY <1>1, ReloadOutcome DEF Ends, Idle, TypeOK, Actors
  <1>5. CommandsAreAsked'
    BY <1>1, <1>2, <1>3 DEF CommandsAreAsked, NoneBegins, Actors
  <1>6. SessionIsWatched'
    BY <1>1, <1>2, <1>3, <1>4, ReloadOutcome DEF SessionIsWatched, NoneBegins, Actors
  <1>7. TypeOK'
    BY <1>1, <1>2, <1>3, ReloadOutcome DEF TypeOK, NoneBegins
  <1>8. NothingIsAhead'
    <2>1. session'.running.ver <= src'["host"].ver
      BY <1>1, <1>2, ReloadOutcome DEF NothingIsAhead
    <2>2. bundle'.wasm.ver <= src'["client"].ver
      BY <1>1, <1>2, ReloadOutcome DEF NothingIsAhead
    <2> QED
      BY <1>1, <1>2, <2>1, <2>2 DEF NothingIsAhead, SideOf
  <1> QED
    BY <1>5, <1>6, <1>7, <1>8 DEF CoreInv

LEMMA StopDevKeepsCore ==
    ASSUME CoreInv, StopDev
    PROVE  CoreInv'
  <1>1. TypeOK /\ CommandsAreAsked /\ SessionIsWatched /\ NothingIsAhead
    BY DEF CoreInv
  <1>2. UNCHANGED <<src, trees, presets, deployed, bundle, clock>> /\ session' = NoSession
    BY DEF StopDev
  <1>3. NoneBegins
    <2>1. Ends("watcher")
      BY DEF StopDev, Ends
    <2> QED
      BY <1>2, <2>1, NoneBeginsByGoingOn DEF Actors
  <1>4. pc'["watcher"].at = "idle"
    BY <1>1 DEF StopDev, Idle, TypeOK, Actors
  <1>5. CommandsAreAsked'
    BY <1>1, <1>2, <1>3 DEF CommandsAreAsked, NoneBegins, Actors
  <1>6. \A s \in Sides : 0 <= src[s].ver
    BY <1>1 DEF TypeOK
  <1>7. SessionIsWatched'
    BY <1>2, <1>4, <1>6 DEF SessionIsWatched, NoSession
  <1>8. TypeOK'
    BY <1>1, <1>2, <1>3, NothingTypes DEF TypeOK, NoneBegins
  <1>9. NothingIsAhead'
    <2>1. NoSession.running.ver <= src["host"].ver
      BY <1>1 DEF NoSession, NoMade, TypeOK, Sides
    <2> QED
      BY <1>1, <1>2, <2>1 DEF NothingIsAhead, SideOf
  <1> QED
    BY <1>5, <1>7, <1>8, <1>9 DEF CoreInv

LEMMA UntouchedKeepsCore ==
    ASSUME CoreInv, UNCHANGED <<src, trees, presets, deployed, bundle, clock, pc, session>>
    PROVE  CoreInv'
  BY DEF CoreInv, TypeOK, CommandsAreAsked, SessionIsWatched, NothingIsAhead, SideOf

LEMMA CleanKeepsCore ==
    ASSUME CoreInv, Clean
    PROVE  CoreInv'
  <1>1. TypeOK /\ CommandsAreAsked /\ SessionIsWatched /\ NothingIsAhead
    BY DEF CoreInv
  <1>2. /\ trees' = [d \in Dirs |-> NoTree] /\ deployed' = NoMade /\ bundle' = NoBundle
        /\ UNCHANGED <<src, presets, clock, pc, session>>
    BY DEF Clean
  <1>3. TypeOK'
    BY <1>1, <1>2, NothingTypes DEF TypeOK
  <1>4. CommandsAreAsked' /\ SessionIsWatched'
    BY <1>1, <1>2 DEF CommandsAreAsked, SessionIsWatched
  <1>5. NothingIsAhead'
    <2>1. \A s \in Sides : NoMade.ver <= src[s].ver
      BY <1>1 DEF NoMade, TypeOK
    <2>2. NoTree.made = NoMade /\ NoBundle.wasm = NoMade
      BY DEF NoTree, NoBundle
    <2>3. \A d \in Dirs : trees'[d].made.ver <= src'[SideOf(d)].ver
      BY <1>2, <2>1, <2>2 DEF SideOf, Sides
    <2>4. bundle'.wasm.ver <= src'["client"].ver /\ session'.running.ver <= src'["host"].ver
      BY <1>1, <1>2, <2>1, <2>2 DEF Sides, NothingIsAhead
    <2> QED
      BY <2>3, <2>4 DEF NothingIsAhead, SideOf
  <1> QED
    BY <1>3, <1>4, <1>5 DEF CoreInv

LEMMA EditOutcome ==
    ASSUME TypeOK, NEW side \in Sides, NEW kind \in Kinds(side), Edit(side, kind)
    PROVE  /\ src' \in [Sides -> Saved]
           /\ \A s \in Sides : src'[s].ver \in Nat /\ src[s].ver <= src'[s].ver
           /\ src'["host"].ver + src'["client"].ver + src'["config"].ver <= MaxEdits
           /\ \A s \in Sides \ {side} : src'[s] = src[s]
           /\ src'[side].ver = src[side].ver + 1
           /\ UNCHANGED <<trees, presets, deployed, bundle, clock, pc, session, served, last,
                          typed>>
  <1>1. src \in [Sides -> Saved] /\ \A s \in Sides : src[s].ver \in Nat
    BY DEF TypeOK
  <1>2. kind \in {"sound", "broken", "refused"}
    BY DEF Kinds
  <1> DEFINE saved == [ver |-> src[side].ver + 1, kind |-> kind]
  <1>3. src' = [src EXCEPT ![side] = saved]
    BY DEF Edit
  <1>4. saved \in Saved /\ saved.ver = src[side].ver + 1
    BY <1>1, <1>2 DEF Saved
  <1> HIDE DEF saved
  <1>5. /\ src' \in [Sides -> Saved]
        /\ \A s \in Sides \ {side} : src'[s] = src[s]
        /\ src'[side].ver = src[side].ver + 1
    BY <1>1, <1>3, <1>4
  <1>6. \A s \in Sides : src'[s].ver \in Nat /\ src[s].ver <= src'[s].ver
    BY <1>1, <1>5
  <1>7. src'["host"].ver + src'["client"].ver + src'["config"].ver <= MaxEdits
    <2>1. /\ src["host"].ver \in Nat /\ src["client"].ver \in Nat /\ src["config"].ver \in Nat
          /\ src["host"].ver + src["client"].ver + src["config"].ver < MaxEdits
      BY <1>1 DEF Edit, Sides
    <2>2. CASE side = "host"
      BY <1>5, <2>1, <2>2, MaxEditsAssumption DEF Sides
    <2>3. CASE side = "client"
      BY <1>5, <2>1, <2>3, MaxEditsAssumption DEF Sides
    <2>4. CASE side = "config"
      BY <1>5, <2>1, <2>4, MaxEditsAssumption DEF Sides
    <2> QED
      BY <2>2, <2>3, <2>4 DEF Sides
  <1> QED
    BY <1>5, <1>6, <1>7 DEF Edit

LEMMA EditKeepsCore ==
    ASSUME CoreInv, NEW side \in Sides, NEW kind \in Kinds(side), Edit(side, kind)
    PROVE  CoreInv'
  <1>1. TypeOK /\ CommandsAreAsked /\ SessionIsWatched /\ NothingIsAhead
    BY DEF CoreInv
  <1>2. \A s \in Sides : /\ src[s].ver \in Int /\ src'[s].ver \in Int
                         /\ src[s].ver <= src'[s].ver
    BY <1>1, EditOutcome DEF TypeOK
  <1>3. TypeOK'
    BY <1>1, EditOutcome DEF TypeOK
  <1>4. CommandsAreAsked'
    <2>1. \A a \in Actors : \A s \in Sides : pc[a].from[s] \in Int
      BY <1>1 DEF TypeOK, Step
    <2> QED
      BY <1>1, <1>2, <2>1, EditOutcome DEF CommandsAreAsked
  <1>5. SessionIsWatched'
    <2>1. \A s \in Sides : session.seen[s] \in Int
      BY <1>1 DEF TypeOK, Session
    <2> QED
      BY <1>1, <1>2, <2>1, EditOutcome DEF SessionIsWatched
  <1>6. NothingIsAhead'
    <2>1. /\ bundle.wasm.ver \in Int /\ session.running.ver \in Int
          /\ \A d \in Dirs : trees[d].made.ver \in Int
      BY <1>1 DEF TypeOK, Bundle, Session, Tree, Made
    <2>2. \A d \in Dirs : trees[d].made.ver <= src'[SideOf(d)].ver
      BY <1>1, <1>2, <2>1 DEF NothingIsAhead, SideOf, Sides
    <2>3. bundle.wasm.ver <= src'["client"].ver /\ session.running.ver <= src'["host"].ver
      BY <1>1, <1>2, <2>1 DEF NothingIsAhead, Sides
    <2> QED
      BY <2>2, <2>3, EditOutcome, <1>1 DEF NothingIsAhead, SideOf
  <1> QED
    BY <1>3, <1>4, <1>5, <1>6 DEF CoreInv

LEMMA CoreStep ==
    ASSUME CoreInv, [Next]_vars
    PROVE  CoreInv'
  <1>1. ASSUME NEW req \in Requests, Begin("build", req) PROVE CoreInv'
    BY <1>1, BeginKeepsCore
  <1>2. ASSUME NEW req \in DevRequests, Begin("dev", req) PROVE CoreInv'
    BY <1>2, BeginKeepsCore
  <1>3. ASSUME NEW a \in Actors, Compile(a) PROVE CoreInv'
    BY <1>3, CompilerRunsKeepCore, AssemblyKeepsCore DEF Compile
  <1>4. CASE SkipCompile("cli")
    BY <1>4, SkippingKeepsCore
  <1>5. CASE Compress
    BY <1>5, CompressKeepsCore
  <1>6. CASE Interrupt
    BY <1>6, InterruptKeepsCore
  <1>7. CASE Launch
    BY <1>7, LaunchKeepsCore
  <1>8. CASE StartWatching
    BY <1>8, StartWatchingKeepsCore
  <1>9. CASE Poll
    BY <1>9, PollKeepsCore
  <1>10. CASE Reload
    BY <1>10, ReloadKeepsCore
  <1>11. CASE StopDev
    BY <1>11, StopDevKeepsCore
  <1>12. CASE Serve
    BY <1>12, UntouchedKeepsCore DEF Serve
  <1>13. CASE Clean
    BY <1>13, CleanKeepsCore
  <1>14. ASSUME NEW side \in Sides, NEW kind \in Kinds(side), Edit(side, kind) PROVE CoreInv'
    BY <1>14, EditKeepsCore
  <1>15. CASE UNCHANGED vars
    BY <1>15, UntouchedKeepsCore DEF vars
  <1> QED
    BY <1>1, <1>2, <1>3, <1>4, <1>5, <1>6, <1>7, <1>8, <1>9, <1>10, <1>11, <1>12, <1>13, <1>14,
       <1>15 DEF Next

\* However the commands, the watch loop and the author interleave, every variable holds what
\* it may hold, a command under way is one that was asked for, a rebuild is of the session
\* that watches, and no artifact is newer than the sources (build.py, run.py).
THEOREM CoreInvariant == Spec => []CoreInv
  <1>1. Init => CoreInv
    BY InitEstablishesCore
  <1>2. CoreInv /\ [Next]_vars => CoreInv'
    BY CoreStep
  <1> QED
    BY <1>1, <1>2, PTL DEF Spec

-----------------------------------------------------------------------------
(* Launch orders *)

\* What was launched was launched in the order computed for some config.
OrdersAreComputed ==
  /\ served.order # <<>> =>
       served.config \in 0..MaxEdits /\ served.order = StartupOrder[served.config]
  /\ session.order # <<>> => \E v \in 0..MaxEdits : session.order = LaunchOrder[v]

LEMMA OrdersStep ==
    ASSUME CoreInv, OrdersAreComputed, [Next]_vars
    PROVE  OrdersAreComputed'
  <1>1. ASSUME UNCHANGED served, session'.order = session.order \/ session'.order = <<>>
        PROVE  OrdersAreComputed'
    BY <1>1 DEF OrdersAreComputed
  <1>2. session \in Session
    BY DEF CoreInv, TypeOK
  <1>3. ASSUME NEW a \in Actors, Compile(a) PROVE OrdersAreComputed'
    <2>1. UNCHANGED served
      BY <1>3 DEF Compile, CompileHost, CompileWasm, CopyBundle, WriteManifest, Install
    <2>2. session' = session \/ session' = [session EXCEPT !.outcome = "failed"]
      BY <1>3 DEF Compile, CompileHost, CompileWasm, CopyBundle, WriteManifest, Install,
                  CompileIn, Fail
    <2> QED
      BY <1>1, <1>2, <2>1, <2>2 DEF Session
  <1>4. CASE Launch
    <2>1. CASE trees[HostDir(pc["cli"].req)].made = NoMade
      BY <1>1, <1>4, <2>1 DEF Launch
    <2>2. CASE trees[HostDir(pc["cli"].req)].made # NoMade
      BY <1>4, <2>2, LaunchOutcome DEF Launch, OrdersAreComputed
    <2> QED
      BY <2>1, <2>2
  <1>5. CASE StartWatching
    BY <1>1, <1>2, <1>5 DEF StartWatching, Session
  <1>6. CASE Poll
    BY <1>1, <1>6, PollOutcome DEF Poll
  <1>7. CASE Reload
    <2>1. CASE HostChanged(session.changed)
      BY <1>7, <2>1, ReloadOutcome DEF Reload, OrdersAreComputed
    <2>2. CASE ~HostChanged(session.changed)
      BY <1>1, <1>7, <2>2, ReloadOutcome DEF Reload
    <2> QED
      BY <2>1, <2>2
  <1>8. CASE StopDev
    BY <1>1, <1>8 DEF StopDev, NoSession
  <1>9. CASE Serve
    <2>1. src["config"].ver \in 0..MaxEdits
      BY MaxEditsAssumption DEF CoreInv, TypeOK, Sides
    <2> QED
      BY <1>9, <2>1 DEF Serve, OrdersAreComputed
  <1>10. CASE UNCHANGED <<served, session>>
    BY <1>1, <1>10
  <1> QED
    BY <1>3, <1>4, <1>5, <1>6, <1>7, <1>8, <1>9, <1>10
       DEF Next, vars, Begin, SkipCompile, Compress, Interrupt, Clean, Edit

\* In the order of one config every service is there once, and its owners before it.
LEMMA ComputedOrdersAreGood ==
    ASSUME OrdersAreComputed
    PROVE  OwnersStartFirst
  <1>1. ASSUME served.order # <<>>
        PROVE  /\ IsInjective(served.order) /\ ToSet(served.order) = Services
               /\ Acyclic(Consumption[served.config]) =>
                    \A pair \in Consumption[served.config] :
                      pair[1] # pair[2] => StartsBefore(served.order, pair[2], pair[1])
    <2> DEFINE v == served.config
               order == served.order
    <2>1. v \in 0..MaxEdits /\ order = StartupOrder[v]
      BY <1>1 DEF OrdersAreComputed
    <2>2. /\ order \in Seq(Services) /\ IsInjective(order) /\ ToSet(order) = Services
          /\ Acyclic(Consumption[v]) => OwnersAhead(order, Consumption[v])
      BY <2>1, StartupOrderProperties
    <2>3. ASSUME Acyclic(Consumption[v]), NEW pair \in Consumption[v], pair[1] # pair[2]
          PROVE  StartsBefore(order, pair[2], pair[1])
      <3>1. pair \in Services \X Services /\ pair = <<pair[1], pair[2]>>
        BY <2>1, ConsumptionAssumption
      <3>2. PICK j \in DOMAIN order : order[j] = pair[1]
        BY <2>2, <3>1 DEF ToSet
      <3>3. PICK i \in DOMAIN order : i < j /\ order[i] = pair[2]
        BY <2>2, <2>3, <3>1, <3>2 DEF OwnersAhead
      <3> QED
        BY <3>2, <3>3 DEF StartsBefore
    <2> QED
      BY <2>2, <2>3
  <1>2. ASSUME session.order # <<>>
        PROVE  /\ IsInjective(session.order) /\ ToSet(session.order) = Services
               /\ Last(session.order) = EdgeName
    BY <1>2, LaunchOrderProperties DEF OrdersAreComputed
  <1> QED
    BY <1>1, <1>2 DEF OwnersStartFirst

\* Whatever the connect points of the config are, each launch starts every service exactly
\* once, owners before their consumers whenever the connect points allow an order, and a
\* development session the edge last (run.py `startup_order`, `_launch_order`).
THEOREM OwnersStartFirstHolds == Spec => []OwnersStartFirst
  <1>1. Init => OrdersAreComputed
    BY DEF Init, OrdersAreComputed, NoSession
  <1>2. CoreInv /\ OrdersAreComputed /\ [Next]_vars => OrdersAreComputed'
    BY OrdersStep
  <1>3. OrdersAreComputed => OwnersStartFirst
    BY ComputedOrdersAreGood
  <1> QED
    BY <1>1, <1>2, <1>3, CoreInvariant, PTL DEF Spec

-----------------------------------------------------------------------------
(* The rebuild of a development session *)

\* Without a second terminal, a session keeps every other command out.
OneCommand == session.on => pc["cli"].at = "idle"

\* How far the rebuild of the watch loop has come, and what a finished one leaves.
RebuildInv ==
  LET p == pc["watcher"]
      host == trees[HostDir(p.req)].made
      wasm == trees[WasmDir(p.req)].made
  IN /\ OneCommand
     /\ p.at \in {"idle", "host", "wasm", "assemble", "manifest", "install", "reload"}
     /\ p.at # "idle" => session.changed # {}
     /\ p.at \in {"wasm", "assemble", "manifest", "install", "reload"} =>
          host.ver >= p.from["host"] /\ host.config = p.config
     /\ p.at = "assemble" => wasm.ver >= p.from["client"]
     /\ p.at \in {"manifest", "install", "reload"} =>
          bundle.exists /\ bundle.wasm.ver >= p.from["client"]
     /\ (p.at = "idle" /\ session.outcome = "rebuilt") =>
          /\ session.running.ver >= session.seen["host"]
          /\ session.running.config = session.config.ver
          /\ bundle.wasm.ver >= session.seen["client"]
          /\ bundle.hook

\* A step that leaves no rebuild under way and none reported.
LEMMA NoRebuild ==
    ASSUME pc'["watcher"].at = "idle", session'.outcome # "rebuilt", OneCommand'
    PROVE  RebuildInv'
  BY DEF RebuildInv, OneCommand

\* While no session is on, nothing of a rebuild is under way.
LEMMA OutsideSession ==
    ASSUME CoreInv, ~session.on
    PROVE  pc["watcher"].at = "idle" /\ session.outcome = "none"
  BY DEF CoreInv, SessionIsWatched

\* A step of the command of the terminal.
LEMMA TerminalKeepsRebuild ==
    ASSUME CoreInv, RebuildInv, pc["cli"].at # "idle" \/ ~session.on,
           pc'["watcher"] = pc["watcher"],
           session' = session \/ (session'.outcome = "none" /\ pc'["cli"].at = "idle")
    PROVE  RebuildInv'
  <1>1. ~session.on
    BY DEF RebuildInv, OneCommand
  <1> QED
    BY <1>1, OutsideSession, NoRebuild DEF OneCommand

\* The rebuild of a session is of its request, and of the services and the client both.
LEMMA RebuildIsWhole ==
    ASSUME CoreInv, \A req \in DevRequests : req.services /\ req.client,
           pc["watcher"].at # "idle"
    PROVE  LET p == pc["watcher"]
           IN /\ p.req \in DevRequests /\ p.req = session.req /\ p.req.services /\ p.req.client
              /\ p.config = session.config.ver /\ p.from = session.seen
              /\ p.from["host"] <= src["host"].ver /\ p.from["client"] <= src["client"].ver
              /\ p.from["client"] \in Nat /\ src["host"].ver \in Nat /\ src["client"].ver \in Nat
              /\ HostDir(p.req) \in Dirs /\ WasmDir(p.req) \in Dirs
              /\ HostDir(p.req) # WasmDir(p.req)
              /\ session.on /\ session.watching
  <1>1. TypeOK /\ CommandsAreAsked /\ SessionIsWatched
    BY DEF CoreInv
  <1>2. /\ pc["watcher"].req = session.req /\ session.req \in DevRequests
        /\ pc["watcher"].config = session.config.ver /\ pc["watcher"].from = session.seen
        /\ session.on /\ session.watching
    BY <1>1 DEF SessionIsWatched
  <1>3. \A s \in Sides : /\ session.seen[s] <= src[s].ver
                         /\ session.seen[s] \in Nat /\ src[s].ver \in Nat
    BY <1>1 DEF SessionIsWatched, TypeOK, Session
  <1> QED
    BY <1>2, <1>3, RequestsAreTyped DEF Sides

\* A compiler run of the rebuild.
LEMMA RebuildCompiles ==
    ASSUME CoreInv, RebuildInv, \A req \in DevRequests : req.services /\ req.client,
           CompileHost("watcher") \/ CompileWasm("watcher")
    PROVE  RebuildInv'
  <1> DEFINE p == pc["watcher"]
             req == p.req
  <1>1. TypeOK /\ CommandsAreAsked /\ pc \in [Actors -> Step]
    BY DEF CoreInv, TypeOK
  <1>2. p.at \in {"host", "wasm"}
    BY DEF CompileHost, CompileWasm
  <1>3. OneCommand /\ session.on /\ pc["cli"].at = "idle" /\ session.changed # {}
    BY <1>2, RebuildIsWhole DEF RebuildInv, OneCommand
  <1>4. UNCHANGED bundle
    BY DEF CompileHost, CompileWasm
  <1>5. CASE NotBuilt("watcher")
    <2>1. pc' = [pc EXCEPT !["watcher"] = Idle] /\ session' = [session EXCEPT !.outcome = "failed"]
      BY <1>5 DEF NotBuilt, Fails, Fail, End
    <2>2. pc'["watcher"].at = "idle" /\ pc'["cli"] = pc["cli"] /\ session'.outcome # "rebuilt"
      BY <2>1, <1>1 DEF Idle, Actors, CoreInv, TypeOK, Session
    <2> QED
      BY <1>3, <2>2, NoRebuild DEF OneCommand
  <1>6. ASSUME NEW at \in {"wasm", "assemble"}, Goto("watcher", at)
        PROVE  /\ pc'["watcher"].at = at /\ pc'["watcher"].req = req
               /\ pc'["watcher"].config = p.config /\ pc'["watcher"].from = p.from
               /\ pc'["cli"] = pc["cli"]
    <2>1. pc' = [pc EXCEPT !["watcher"] = [p EXCEPT !.at = at]]
      BY <1>1, <1>6 DEF Goto, Actors
    <2>2. /\ [p EXCEPT !.at = at].at = at /\ [p EXCEPT !.at = at].req = req
          /\ [p EXCEPT !.at = at].config = p.config /\ [p EXCEPT !.at = at].from = p.from
      BY <1>1 DEF Step, Actors
    <2> QED
      BY <2>1, <2>2, <1>1 DEF Actors
  <1>7. CASE CompileHost("watcher") /\ BuiltIn("watcher", "host", HostDir(req), "wasm")
    <2>1. /\ trees'[HostDir(req)].made.ver = src["host"].ver
          /\ trees'[HostDir(req)].made.config = p.config
          /\ Goto("watcher", "wasm") /\ session' = session
      BY <1>7 DEF BuiltIn, Compiled
    <2>2. src["host"].ver >= p.from["host"]
      BY <1>2, RebuildIsWhole
    <2> QED
      BY <1>3, <1>6, <2>1, <2>2 DEF RebuildInv, OneCommand
  <1>8. CASE CompileWasm("watcher") /\ BuiltIn("watcher", "client", WasmDir(req), "assemble")
    <2>1. /\ trees'[WasmDir(req)].made.ver = src["client"].ver
          /\ trees'[HostDir(req)].made = trees[HostDir(req)].made
          /\ Goto("watcher", "assemble") /\ session' = session
      BY <1>2, <1>8, RebuildIsWhole DEF BuiltIn, Compiled
    <2>2. src["client"].ver >= p.from["client"]
      BY <1>2, RebuildIsWhole
    <2>3. p.at = "wasm"
      BY <1>8 DEF CompileWasm
    <2> QED
      BY <1>3, <1>6, <2>1, <2>2, <2>3 DEF RebuildInv, OneCommand
  <1>9. CASE CompileHost("watcher")
    <2>1. req.services /\ req.client
      BY <1>2, RebuildIsWhole
    <2>2. BuiltIn("watcher", "host", HostDir(req), "wasm") \/ NotBuilt("watcher")
      BY <1>1, <1>9, <2>1, CompileHostOutcome DEF Actors
    <2> QED
      BY <1>5, <1>7, <1>9, <2>2
  <1>10. CASE CompileWasm("watcher")
    <2>1. BuiltIn("watcher", "client", WasmDir(req), "assemble") \/ NotBuilt("watcher")
      BY <1>1, <1>10, CompileWasmOutcome DEF Actors
    <2> QED
      BY <1>5, <1>8, <1>10, <2>1
  <1> QED
    BY <1>9, <1>10

\* The bundle and the layout of the rebuild.
LEMMA RebuildAssembles ==
    ASSUME CoreInv, RebuildInv, \A req \in DevRequests : req.services /\ req.client,
           CopyBundle("watcher") \/ WriteManifest("watcher") \/ Install("watcher")
    PROVE  RebuildInv'
  <1> DEFINE p == pc["watcher"]
             next == IF p.at = "assemble" THEN "manifest"
                     ELSE IF p.at = "manifest" THEN "install" ELSE "reload"
  <1>1. pc \in [Actors -> Step] /\ bundle \in Bundle
    BY DEF CoreInv, TypeOK
  <1>2. p.at \in {"assemble", "manifest", "install"}
    BY DEF CopyBundle, WriteManifest, Install
  <1>3. OneCommand /\ session.on /\ pc["cli"].at = "idle" /\ session.changed # {}
    BY <1>2, RebuildIsWhole DEF RebuildInv, OneCommand
  <1>4. UNCHANGED <<session, trees>> /\ Goto("watcher", next)
    BY <1>2 DEF CopyBundle, WriteManifest, Install
  <1>5. /\ pc'["watcher"].at = next /\ pc'["watcher"].req = p.req
        /\ pc'["watcher"].config = p.config /\ pc'["watcher"].from = p.from
        /\ pc'["cli"] = pc["cli"]
    <2> HIDE DEF next
    <2>1. pc' = [pc EXCEPT !["watcher"] = [p EXCEPT !.at = next]]
      BY <1>1, <1>4 DEF Goto, Actors
    <2>2. /\ [p EXCEPT !.at = next].at = next /\ [p EXCEPT !.at = next].req = p.req
          /\ [p EXCEPT !.at = next].config = p.config /\ [p EXCEPT !.at = next].from = p.from
      BY <1>1 DEF Step, Actors
    <2> QED
      BY <2>1, <2>2, <1>1 DEF Actors
  <1>6. bundle'.exists /\ bundle'.wasm.ver >= p.from["client"]
    <2>1. CASE CopyBundle("watcher")
      <3>1. bundle'.exists /\ bundle'.wasm = trees[WasmDir(p.req)].made
        BY <1>1, <2>1 DEF CopyBundle, Bundle
      <3>2. p.at = "assemble"
        BY <2>1 DEF CopyBundle
      <3> QED
        BY <3>1, <3>2 DEF RebuildInv
    <2>2. CASE WriteManifest("watcher") \/ Install("watcher")
      <3>1. bundle'.exists = bundle.exists \/ bundle'.exists = TRUE
        BY <1>1, <2>2 DEF WriteManifest, Install, Bundle
      <3>2. bundle'.wasm = bundle.wasm
        BY <1>1, <2>2 DEF WriteManifest, Install, Bundle
      <3>3. p.at \in {"manifest", "install"}
        BY <2>2 DEF WriteManifest, Install
      <3> QED
        BY <3>1, <3>2, <3>3 DEF RebuildInv
    <2> QED
      BY <2>1, <2>2
  <1>7. next \in {"manifest", "install", "reload"}
    OBVIOUS
  <1> HIDE DEF next
  <1> QED
    BY <1>2, <1>3, <1>4, <1>5, <1>6, <1>7 DEF RebuildInv, OneCommand

\* Its end.
LEMMA RebuildEnds ==
    ASSUME CoreInv, RebuildInv, \A req \in DevRequests : req.services /\ req.client,
           ~ClientOwnsItsTop, Reload
    PROVE  RebuildInv'
  <1> DEFINE p == pc["watcher"]
             made == trees[HostDir(session.req)].made
  <1>1. p.at = "reload"
    BY DEF Reload
  <1>2. /\ p.req = session.req /\ p.from = session.seen /\ p.config = session.config.ver
        /\ p.from["client"] \in Nat /\ session.on
    BY <1>1, RebuildIsWhole
  <1>3. HostChanged(session.changed)
    <2>1. session.changed # {} /\ session.changed \subseteq Sides
      BY <1>1 DEF RebuildInv, CoreInv, TypeOK, Session
    <2> QED
      BY <2>1 DEF HostChanged, Sides
  <1>4. /\ made.ver >= session.seen["host"] /\ made.config = session.config.ver
        /\ bundle.exists /\ bundle.wasm.ver >= session.seen["client"]
    BY <1>1, <1>2 DEF RebuildInv
  <1>5. made # NoMade /\ bundle.wasm # NoMade
    <2>1. session.seen["host"] \in Nat /\ session.seen["client"] \in Nat
      BY DEF CoreInv, TypeOK, Session, Sides
    <2> QED
      BY <1>4, <2>1 DEF NoMade
  <1>6. /\ session'.running = made /\ session'.seen = session.seen
        /\ session'.config = session.config /\ session'.on
        /\ bundle' = Harness(bundle) /\ Ends("watcher")
    BY <1>3, <1>5, ReloadOutcome
  <1>7. bundle'.wasm = bundle.wasm /\ bundle'.hook
    BY <1>4, <1>5, <1>6, HarnessTypes DEF CoreInv, TypeOK
  <1>8. pc'["watcher"].at = "idle" /\ pc'["cli"] = pc["cli"] /\ pc["cli"].at = "idle"
    BY <1>2, <1>6 DEF Ends, Idle, CoreInv, TypeOK, Actors, RebuildInv, OneCommand
  <1> QED
    BY <1>4, <1>6, <1>7, <1>8 DEF RebuildInv, OneCommand

\* Its beginning.
LEMMA RebuildBegins ==
    ASSUME CoreInv, RebuildInv, Poll
    PROVE  RebuildInv'
  <1>1. session.on /\ pc["watcher"].at = "idle" /\ session'.on /\ pc["cli"].at = "idle"
    BY PollOutcome DEF RebuildInv, OneCommand
  <1>2. session.req \in DevRequests
    BY <1>1 DEF CoreInv, SessionIsWatched
  <1>3. CASE Generate("watcher", "reload", session.req, session'.config.ver, Versions)
    <2>1. pc'["watcher"].at = "host" /\ pc'["cli"] = pc["cli"]
      BY <1>2, <1>3, PollOutcome, GenerateOutcome DEF Actors, CoreInv
    <2> QED
      BY <1>1, <2>1, PollOutcome DEF RebuildInv, OneCommand
  <1>4. CASE session'.outcome = "failed" /\ UNCHANGED <<pc, presets>>
    BY <1>1, <1>4, NoRebuild DEF OneCommand
  <1> QED
    BY <1>3, <1>4, PollOutcome

LEMMA RebuildStep ==
    ASSUME CoreInv, RebuildInv, [Next]_vars, ~OtherTerminal, ~ClientOwnsItsTop,
           \A req \in DevRequests : req.services /\ req.client
    PROVE  RebuildInv'
  <1>1. pc \in [Actors -> Step] /\ session \in Session
    BY DEF CoreInv, TypeOK
  <1>2. ASSUME NEW req \in Requests \cup DevRequests, NEW cmd, Begin(cmd, req)
        PROVE  RebuildInv'
    <2>1. ~session.on /\ session' = session
      BY <1>2 DEF Begin
    <2>2. pc'["watcher"] = pc["watcher"]
      BY <1>1, <1>2 DEF Begin, Generate, End, Actors
    <2> QED
      BY <2>1, <2>2, TerminalKeepsRebuild
  <1>3. CASE Compile("watcher")
    BY <1>3, RebuildCompiles, RebuildAssembles DEF Compile
  <1>4. CASE Compile("cli")
    <2>1. pc["cli"].at # "idle"
      BY <1>4 DEF Compile, CompileHost, CompileWasm, CopyBundle, WriteManifest, Install
    <2>2. session' = session /\ \E p : pc' = [pc EXCEPT !["cli"] = p]
      BY <1>4 DEF Compile, CompileHost, CompileWasm, CopyBundle, WriteManifest, Install,
                  CompileIn, Fail, End, Goto
    <2>3. pc'["watcher"] = pc["watcher"]
      BY <1>1, <2>2 DEF Actors
    <2> QED
      BY <2>1, <2>2, <2>3, TerminalKeepsRebuild
  <1>5. CASE SkipCompile("cli") \/ Compress \/ Interrupt
    <2>1. pc["cli"].at # "idle" /\ session' = session
      BY <1>5 DEF SkipCompile, Compress, Interrupt
    <2>2. pc'["watcher"] = pc["watcher"]
      BY <1>1, <1>5 DEF SkipCompile, Compress, Interrupt, End, Goto, Actors
    <2> QED
      BY <2>1, <2>2, TerminalKeepsRebuild
  <1>6. CASE Launch
    <2>1. pc["cli"].at # "idle" /\ pc'["watcher"] = pc["watcher"] /\ pc'["cli"].at = "idle"
      BY <1>1, <1>6 DEF Launch, End, Idle, Actors
    <2>2. session' = session \/ session'.outcome = "none"
      BY <1>6, LaunchOutcome DEF Launch
    <2> QED
      BY <2>1, <2>2, TerminalKeepsRebuild
  <1>7. CASE StartWatching
    <2>1. pc["watcher"].at = "idle" /\ session.outcome = "none" /\ session.on
      BY <1>7 DEF CoreInv, SessionIsWatched, StartWatching
    <2>2. session'.outcome = "none" /\ pc' = pc
      BY <1>1, <1>7, <2>1 DEF StartWatching, Session
    <2> QED
      BY <2>1, <2>2, NoRebuild DEF RebuildInv, OneCommand
  <1>8. CASE Poll
    BY <1>8, RebuildBegins
  <1>9. CASE Reload
    BY <1>9, RebuildEnds
  <1>10. CASE StopDev
    BY <1>1, <1>10, NoRebuild DEF StopDev, Idle, NoSession, OneCommand, Actors
  <1>11. CASE Clean
    BY <1>11, TerminalKeepsRebuild DEF Clean
  <1>12. CASE UNCHANGED <<trees, bundle, pc, session>>
    BY <1>12 DEF RebuildInv, OneCommand
  <1> QED
    BY <1>2, <1>3, <1>4, <1>5, <1>6, <1>7, <1>8, <1>9, <1>10, <1>11, <1>12
       DEF Next, Actors, Serve, Edit, vars

\* In a session that alone works on the project, whose request builds both halves and whose
\* client's files count as everyone's, an edit saved at any moment of a rebuild is not lost:
\* once the loop is quiet after a rebuild it reported, the processes run the sources and the
\* config the session holds, the bundle is of the client as it stands, and the page still
\* reloads itself (run.py `SourceWatcher.poll`, `_hot_reload`, `_categorize`).
THEOREM RebuildsReachTheProcesses ==
    ASSUME ~OtherTerminal, ~ClientOwnsItsTop,
           \A req \in DevRequests : req.services /\ req.client
    PROVE  Spec => []RebuildReachesTheProcesses
  <1>1. Init => RebuildInv
    BY DEF Init, RebuildInv, OneCommand, NoSession, Idle, Actors
  <1>2. CoreInv /\ RebuildInv /\ [Next]_vars => RebuildInv'
    BY RebuildStep
  <1>3. CoreInv /\ RebuildInv => RebuildReachesTheProcesses
    <2> SUFFICES ASSUME CoreInv, RebuildInv, Quiet, session.outcome = "rebuilt"
                 PROVE  /\ session.running.ver = src["host"].ver
                        /\ session.running.config = session.config.ver
                        /\ bundle.wasm.ver = src["client"].ver
                        /\ bundle.hook
      BY DEF RebuildReachesTheProcesses
    <2>1. session.seen["host"] = src["host"].ver /\ session.seen["client"] = src["client"].ver
      BY DEF Quiet, Versions, Sides
    <2>2. /\ session.running.ver >= src["host"].ver /\ bundle.wasm.ver >= src["client"].ver
          /\ session.running.config = session.config.ver /\ bundle.hook
      BY <2>1 DEF RebuildInv, Quiet
    <2>3. session.running.ver <= src["host"].ver /\ bundle.wasm.ver <= src["client"].ver
      BY DEF CoreInv, NothingIsAhead
    <2>4. session.running.ver \in Int /\ bundle.wasm.ver \in Int
      BY DEF CoreInv, TypeOK, Session, Bundle, Made
    <2>5. src["host"].ver \in Nat /\ src["client"].ver \in Nat
      BY DEF CoreInv, TypeOK, Sides
    <2> QED
      BY <2>2, <2>3, <2>4, <2>5
  <1> QED
    BY <1>1, <1>2, <1>3, CoreInvariant, PTL DEF Spec

-----------------------------------------------------------------------------
(* What a build delivers *)

\* What a request asks of one environment.
WhatIsAsked(req, environment) ==
  [type |-> BuildType(req, environment), strip |-> Strips(req), dev |-> req.dev]

\* What a directory of a named profile is configured with.
Asked(d) ==
  [type  |-> IF d.profile = "debug" THEN "Debug"
             ELSE IF d.env = "wasm" THEN "MinSizeRel" ELSE "Release",
   strip |-> d.profile = "release",
   dev   |-> d.dev]

\* The requests the commands can make: development code is of the debug profile, stripping
\* is asked for with a build type, and a custom configure does not fail half way.
RequestsAreOfTheirProfiles ==
  \A req \in Requests \cup DevRequests :
    /\ req.dev => req.profile = "debug"
    /\ req.strip => req.profile = "custom"
    /\ ConfigureMayFail => req.profile # "custom"

\* A stamp is worth what it says: the cache beside it is the one it was written for.
StampsAreTrue ==
  \A d \in Dirs :
    LET t == trees[d]
    IN IF d.profile = "custom"
       THEN (t.cache # NoCache /\ t.stamp # NoStamp) => t.cache = t.stamp.asked
       ELSE /\ t.cache # NoCache => t.cache = Asked(d)
            /\ t.stamp # NoStamp => t.stamp.asked = Asked(d)

\* What was written for a build is there when its compiler runs begin.
PresetsAreOfTheBuild ==
  \A a \in Actors : pc[a].at \in {"host", "wasm"} =>
    presets = PresetsText(pc[a].config, pc[a].req)

\* How far the command of the terminal has come.
BuiltSoFar(p, host, wasm) ==
  /\ (p.compiled /\ p.req.services) =>
       /\ p.at \in {"wasm", "assemble", "manifest", "install", "compress"} =>
            Answers(host, p, "host", "host")
       /\ p.at = "compress" => Answers(deployed, p, "host", "host")
  /\ (p.compiled /\ p.req.client) =>
       /\ p.at = "assemble" => Answers(wasm, p, "client", "wasm")
       /\ p.at \in {"manifest", "install", "compress"} =>
            Answers(bundle.wasm, p, "client", "wasm")
       /\ p.at \in {"install", "compress"} => bundle.id = bundle.wasm

DeliveryInv ==
  /\ OneCommand /\ StampsAreTrue /\ PresetsAreOfTheBuild
  /\ LET p == pc["cli"]
     IN BuiltSoFar(p, trees[HostDir(p.req)].made, trees[WasmDir(p.req)].made)

LEMMA AskedOfNamedProfiles ==
    ASSUME RequestsAreOfTheirProfiles, NEW req \in Requests \cup DevRequests
    PROVE  /\ HostDir(req).profile = req.profile /\ WasmDir(req).profile = req.profile
           /\ req.profile # "custom" =>
                /\ WhatIsAsked(req, "host") = Asked(HostDir(req))
                /\ WhatIsAsked(req, "wasm") = Asked(WasmDir(req))
  <1>1. req \in Request
    BY RequestsAreTyped
  <1>2. /\ HostDir(req).profile = req.profile /\ WasmDir(req).profile = req.profile
        /\ HostDir(req).env = "host" /\ WasmDir(req).env = "wasm"
        /\ HostDir(req).dev = req.dev /\ WasmDir(req).dev = req.dev
    BY DEF HostDir, WasmDir, BuildDir
  <1>3. CASE req.profile = "debug"
    <2>1. /\ BuildType(req, "host") = "Debug" /\ BuildType(req, "wasm") = "Debug"
          /\ ~req.strip
      BY <1>3 DEF BuildType, RequestsAreOfTheirProfiles
    <2>2. Strips(req) = FALSE
      BY <1>3, <2>1 DEF Strips
    <2> QED
      BY <1>2, <1>3, <2>1, <2>2 DEF WhatIsAsked, Asked
  <1>4. CASE req.profile = "release"
    <2>1. BuildType(req, "host") = "Release" /\ BuildType(req, "wasm") = "MinSizeRel"
      BY <1>4 DEF BuildType
    <2>2. Strips(req) = TRUE
      BY <1>4 DEF Strips
    <2> QED
      BY <1>2, <1>4, <2>1, <2>2 DEF WhatIsAsked, Asked
  <1>5. req.profile \in {"debug", "release", "custom"}
    BY <1>1 DEF Request
  <1> QED
    BY <1>2, <1>3, <1>4, <1>5

\* The preset a request is configured through asks for what the request does, in the
\* directory the command builds.
LEMMA PresetOfRequest ==
    ASSUME TypeOK, RequestsAreOfTheirProfiles, NEW req \in Requests \cup DevRequests,
           NEW config, presets = PresetsText(config, req)
    PROVE  LET preset == PresetName(req)
           IN /\ req.profile # "custom" => preset \in PresetNames
              /\ preset \in PresetNames =>
                   PresetCache(preset) = WhatIsAsked(req, "host")
                   /\ PresetDir(preset) = HostDir(req)
  <1>1. req \in Request
    BY RequestsAreTyped
  <1>2. CASE req.dev
    <2>1. req.profile = "debug" /\ ~req.strip
      BY <1>2 DEF RequestsAreOfTheirProfiles
    <2>2. PresetName(req) = "host-dev"
      BY <1>2 DEF PresetName
    <2>3. BuildType(req, "host") = "Debug" /\ Strips(req) = FALSE /\ req.dev = TRUE
      BY <1>1, <1>2, <2>1 DEF BuildType, Strips, Request
    <2>4. PresetCache("host-dev") = [type |-> "Debug", strip |-> FALSE, dev |-> TRUE]
      BY DEF PresetCache
    <2>5. PresetDir("host-dev") = HostDir(req)
      BY <2>1, <2>3 DEF PresetDir, HostDir, BuildDir
    <2> QED
      BY <2>2, <2>3, <2>4, <2>5 DEF WhatIsAsked, PresetNames
  <1>3. CASE ~req.dev /\ req.profile = "debug"
    <2>1. ~req.strip
      BY <1>3 DEF RequestsAreOfTheirProfiles
    <2>2. PresetName(req) = "host"
      BY <1>3 DEF PresetName
    <2>3. BuildType(req, "host") = "Debug" /\ Strips(req) = FALSE /\ req.dev = FALSE
      BY <1>1, <1>3, <2>1 DEF BuildType, Strips, Request
    <2>4. PresetCache("host") = [type |-> "Debug", strip |-> FALSE, dev |-> FALSE]
      BY DEF PresetCache
    <2>5. PresetDir("host") = HostDir(req)
      BY <1>3, <2>3 DEF PresetDir, HostDir, BuildDir
    <2> QED
      BY <2>2, <2>3, <2>4, <2>5 DEF WhatIsAsked, PresetNames
  <1>4. CASE ~req.dev /\ req.profile = "release"
    <2>2. PresetName(req) = "host-release"
      BY <1>4 DEF PresetName
    <2>3. BuildType(req, "host") = "Release" /\ Strips(req) = TRUE /\ req.dev = FALSE
      BY <1>1, <1>4 DEF BuildType, Strips, Request
    <2>4. PresetCache("host-release") = [type |-> "Release", strip |-> TRUE, dev |-> FALSE]
      BY DEF PresetCache
    <2>5. PresetDir("host-release") = HostDir(req)
      BY <1>4, <2>3 DEF PresetDir, HostDir, BuildDir
    <2> QED
      BY <2>2, <2>3, <2>4, <2>5 DEF WhatIsAsked, PresetNames
  <1>5. CASE ~req.dev /\ req.profile = "custom"
    <2>2. PresetName(req) = "host-custom"
      BY <1>5 DEF PresetName
    <2>3. presets.custom = [type |-> req.type, strip |-> req.strip, dev |-> req.dev]
      BY <1>5 DEF PresetsText
    <2>4. BuildType(req, "host") = req.type /\ Strips(req) = req.strip
      BY <1>1, <1>5 DEF BuildType, Strips, Request
    <2>5. PresetCache("host-custom") = presets.custom
      BY DEF PresetCache
    <2>6. PresetDir("host-custom") = HostDir(req)
      BY <1>5, <2>3 DEF PresetDir, HostDir, BuildDir
    <2> QED
      BY <1>5, <2>2, <2>3, <2>4, <2>5, <2>6 DEF WhatIsAsked
  <1>6. req.profile \in {"debug", "release", "custom"} /\ req.dev \in BOOLEAN
    BY <1>1 DEF Request
  <1> QED
    BY <1>2, <1>3, <1>4, <1>5, <1>6

\* What configuring one directory leaves of the caches and stamps.
OnlyConfigured(new, dir, cache, stamp) ==
  /\ new \in [Dirs -> Tree]
  /\ new[dir].cache = cache /\ new[dir].stamp = stamp
  /\ \A d \in Dirs \ {dir} : new[d].cache = trees[d].cache /\ new[d].stamp = trees[d].stamp

LEMMA ConfiguredOnly ==
    ASSUME TypeOK, NEW dir \in Dirs, NEW cache \in Cache, NEW stamp \in Stamp
    PROVE  OnlyConfigured(Configured(dir, dir, cache, stamp), dir, cache, stamp)
  BY ConfiguredTypes DEF OnlyConfigured

\* A compiler run in the directory of its own command keeps the stamps true, and what it
\* builds is what was asked.
LEMMA CompileKeepsStamps ==
    ASSUME TypeOK, StampsAreTrue, NEW a \in Actors, NEW side \in {"host", "client"},
           NEW dir \in Dirs, NEW into, NEW cache \in Cache, NEW known \in BOOLEAN, NEW next,
           CompileIn(a, side, dir, into, cache, known, next),
           known => into = dir,
           dir.profile # "custom" => known /\ cache = Asked(dir),
           dir.profile = "custom" => ~ConfigureMayFail,
           presets.config # -1
    PROVE  /\ StampsAreTrue'
           /\ pc'[a].at # "idle" => trees'[dir].cache = cache
  <1> DEFINE stamp == [asked |-> cache, text |-> presets]
             skip  == IsConfigured(dir, stamp)
             after == IF skip THEN trees ELSE Configured(dir, into, cache, stamp)
             made  == Compiled(side, pc[a].config, after[dir].cache)
             True(d, t) ==
               IF d.profile = "custom"
               THEN (t.cache # NoCache /\ t.stamp # NoStamp) => t.cache = t.stamp.asked
               ELSE /\ t.cache # NoCache => t.cache = Asked(d)
                    /\ t.stamp # NoStamp => t.stamp.asked = Asked(d)
  <1>1. trees \in [Dirs -> Tree] /\ \A d \in Dirs : True(d, trees[d])
    BY DEF TypeOK, StampsAreTrue
  <1>2. stamp \in Stamp /\ stamp.asked = cache /\ stamp # NoStamp
    <2>1. stamp \in Stamp
      BY DEF TypeOK, Stamp
    <2>2. stamp.text.config # NoStamp.text.config
      BY DEF NoStamp
    <2> QED
      BY <2>1, <2>2
  <1>3. (\A d \in Dirs : True(d, trees'[d])) => StampsAreTrue'
    BY DEF StampsAreTrue, Asked
  <1>4. ASSUME NEW new \in [Dirs -> Tree],
               \A d \in Dirs \ {dir} : new[d].cache = trees[d].cache
                                       /\ new[d].stamp = trees[d].stamp,
               True(dir, new[dir])
        PROVE  \A d \in Dirs : True(d, new[d])
    BY <1>1, <1>4
  <1>5. ASSUME skip \/ known
        PROVE  /\ \A d \in Dirs : True(d, after[d])
               /\ after \in [Dirs -> Tree]
               /\ after[dir].cache # NoCache => after[dir].cache = cache
    <2>1. CASE skip
      <3>1. trees[dir].cache # NoCache /\ trees[dir].stamp = stamp
        BY <2>1 DEF IsConfigured
      <3>2. trees[dir].cache = cache
        <4> HIDE DEF stamp
        <4> QED
          BY <1>1, <1>2, <3>1
      <3> QED
        BY <1>1, <2>1, <3>2
    <2>2. CASE ~skip
      <3>1. into = dir
        BY <1>5, <2>2
      <3> DEFINE new == Configured(dir, into, cache, stamp)
      <3>2. OnlyConfigured(new, dir, cache, stamp)
        <4> HIDE DEF stamp
        <4> QED
          BY <1>2, <3>1, ConfiguredOnly
      <3>3. True(dir, new[dir])
        <4> HIDE DEF stamp, new
        <4> QED
          BY <1>2, <3>2 DEF OnlyConfigured
      <3>4. after = new
        BY <2>2
      <3> HIDE DEF new, stamp, after
      <3> QED
        BY <1>4, <3>2, <3>3, <3>4 DEF OnlyConfigured
    <2> QED
      BY <2>1, <2>2
  <1>6. ASSUME NEW why, Fail(a, why) PROVE pc'[a].at = "idle"
    BY <1>6 DEF Fail, End, Idle, TypeOK
  <1>7. CASE /\ ~skip
             /\ ~known \/ ConfigureMayFail
             /\ Fail(a, "configure")
             /\ trees' \in {trees} \cup
                  (IF known THEN {Configured(dir, into, cache, trees[dir].stamp)} ELSE {})
             /\ UNCHANGED clock
    <2>1. CASE trees' = trees
      BY <1>1, <1>3, <1>6, <1>7, <2>1
    <2>2. CASE known /\ trees' = Configured(dir, into, cache, trees[dir].stamp)
      <3>1. dir.profile # "custom" /\ cache = Asked(dir) /\ into = dir
        BY <1>7, <2>2
      <3>2. PICK old \in Stamp : old = trees[dir].stamp
        BY <1>1 DEF Tree
      <3>3. OnlyConfigured(trees', dir, cache, old)
        <4>1. trees' = Configured(dir, dir, cache, old)
          BY <2>2, <3>1, <3>2
        <4> QED
          BY <4>1, ConfiguredOnly
      <3>4. True(dir, trees'[dir])
        BY <1>1, <3>1, <3>2, <3>3 DEF OnlyConfigured
      <3> QED
        BY <1>3, <1>4, <3>1, <3>3, <3>4 DEF OnlyConfigured
    <2> QED
      BY <1>7, <2>1, <2>2
  <1>8. CASE /\ skip \/ known
             /\ after[dir].cache = NoCache \/ src[side].kind # "sound"
             /\ Fail(a, IF after[dir].cache = NoCache THEN "tree" ELSE "source")
             /\ trees' = after
             /\ UNCHANGED clock
    <2>1. \A d \in Dirs : True(d, trees'[d])
      BY <1>5, <1>8
    <2>2. trees'[dir].cache # NoCache => trees'[dir].cache = cache
      BY <1>5, <1>8
    <2> QED
      BY <1>3, <2>1, <2>2, <1>6, <1>8
  <1>9. CASE /\ skip \/ known
             /\ after[dir].cache # NoCache /\ src[side].kind = "sound"
             /\ trees' = Built(after, dir, made)
             /\ clock' = IF trees'[dir].at = after[dir].at THEN clock ELSE clock + 1
             /\ Goto(a, next)
             /\ UNCHANGED <<session, last>>
    <2>1. /\ \A d \in Dirs : True(d, after[d])
          /\ after \in [Dirs -> Tree] /\ after[dir].cache = cache
      BY <1>5, <1>9
    <2> HIDE DEF after, made
    <2>2. \A d \in Dirs : trees'[d].cache = after[d].cache /\ trees'[d].stamp = after[d].stamp
      <3>1. trees' = after \/ trees' = [after EXCEPT ![dir].made = made, ![dir].at = clock + 1]
        BY <1>9 DEF Built
      <3> QED
        BY <2>1, <3>1 DEF Tree
    <2>3. \A d \in Dirs : True(d, trees'[d])
      BY <2>1, <2>2
    <2> QED
      BY <1>3, <2>1, <2>2, <2>3
  <1> QED
    BY <1>7, <1>8, <1>9 DEF CompileIn

LEMMA HostStamps ==
    ASSUME CoreInv, DeliveryInv, RequestsAreOfTheirProfiles, NEW a \in Actors, CompileHost(a)
    PROVE  LET req == pc[a].req
           IN /\ StampsAreTrue'
              /\ (req.services /\ pc'[a].at # "idle") =>
                   trees'[HostDir(req)].cache = WhatIsAsked(req, "host")
  <1> DEFINE req == pc[a].req
             preset == PresetName(req)
             known == preset \in PresetNames
             next == IF req.client THEN "wasm" ELSE "install"
             into == IF known THEN PresetDir(preset) ELSE HostDir(req)
             cache == IF known THEN PresetCache(preset) ELSE NoCache
  <1>1. TypeOK /\ CommandsAreAsked /\ StampsAreTrue /\ PresetsAreOfTheBuild
    BY DEF CoreInv, DeliveryInv
  <1>2. /\ pc[a].at = "host" /\ req \in Requests \cup DevRequests
        /\ pc[a].config \in 0..MaxEdits /\ presets = PresetsText(pc[a].config, req)
    BY <1>1 DEF CompileHost, CommandsAreAsked, PresetsAreOfTheBuild
  <1>3. req \in Request /\ HostDir(req) \in Dirs
    BY <1>2, RequestsAreTyped
  <1>4. presets.config # -1
    BY <1>2, MaxEditsAssumption DEF PresetsText
  <1>5. cache \in Cache /\ known \in BOOLEAN
    BY <1>1, <1>3, PresetTypes, NothingTypes
  <1>6. IF req.services
        THEN CompileIn(a, "host", HostDir(req), into, cache, known, next)
        ELSE UNCHANGED trees
    BY DEF CompileHost
  <1>7. /\ req.profile # "custom" => known
        /\ known => cache = WhatIsAsked(req, "host") /\ into = HostDir(req)
    BY <1>1, <1>2, PresetOfRequest
  <1>8. /\ HostDir(req).profile # "custom" => known /\ cache = Asked(HostDir(req))
        /\ HostDir(req).profile = "custom" => ~ConfigureMayFail
    BY <1>2, <1>7, AskedOfNamedProfiles DEF RequestsAreOfTheirProfiles
  <1>9. ~known => cache = NoCache
    OBVIOUS
  <1>10. CASE ~req.services
    BY <1>1, <1>6, <1>10 DEF StampsAreTrue, Asked
  <1>11. CASE req.services
    <2>1. CompileIn(a, "host", HostDir(req), into, cache, known, next)
      BY <1>6, <1>11
    <2> HIDE DEF req, known, into, cache, next
    <2>2. StampsAreTrue' /\ (pc'[a].at # "idle" => trees'[HostDir(req)].cache = cache)
      BY <1>1, <1>3, <1>4, <1>5, <1>7, <1>8, <2>1, CompileKeepsStamps
    <2>3. pc'[a].at # "idle" => trees'[HostDir(req)].cache # NoCache
      <3>1. BuiltIn(a, "host", HostDir(req), next) \/ NotBuilt(a)
        BY <1>1, <1>3, <1>5, <2>1, CompileOutcome
      <3>2. NotBuilt(a) => pc'[a].at = "idle"
        BY <1>1 DEF NotBuilt, Fails, Fail, End, Idle, TypeOK
      <3> QED
        BY <3>1, <3>2 DEF BuiltIn
    <2> QED
      BY <1>7, <1>9, <2>2, <2>3 DEF req
  <1> QED
    BY <1>10, <1>11

LEMMA WasmStamps ==
    ASSUME CoreInv, DeliveryInv, RequestsAreOfTheirProfiles, NEW a \in Actors, CompileWasm(a)
    PROVE  LET req == pc[a].req
           IN /\ StampsAreTrue'
              /\ pc'[a].at # "idle" => trees'[WasmDir(req)].cache = WhatIsAsked(req, "wasm")
  <1> DEFINE req == pc[a].req
             cache == WhatIsAsked(req, "wasm")
  <1>1. TypeOK /\ CommandsAreAsked /\ StampsAreTrue /\ PresetsAreOfTheBuild
    BY DEF CoreInv, DeliveryInv
  <1>2. /\ pc[a].at = "wasm" /\ req \in Requests \cup DevRequests
        /\ pc[a].config \in 0..MaxEdits /\ presets = PresetsText(pc[a].config, req)
    BY <1>1 DEF CompileWasm, CommandsAreAsked, PresetsAreOfTheBuild
  <1>3. req \in Request /\ WasmDir(req) \in Dirs
    BY <1>2, RequestsAreTyped
  <1>4. presets.config # -1
    BY <1>2, MaxEditsAssumption DEF PresetsText
  <1>5. cache \in Cache
    <2>1. BuildType(req, "wasm") \in Word
      BY <1>3 DEF BuildType, Request, Word
    <2> QED
      BY <2>1, <1>3 DEF WhatIsAsked, Cache, Request, Strips
  <1>6. CompileIn(a, "client", WasmDir(req), WasmDir(req), cache, TRUE, "assemble")
    BY DEF CompileWasm, WhatIsAsked
  <1>7. /\ WasmDir(req).profile # "custom" => cache = Asked(WasmDir(req))
        /\ WasmDir(req).profile = "custom" => ~ConfigureMayFail
    BY <1>2, AskedOfNamedProfiles DEF RequestsAreOfTheirProfiles
  <1> HIDE DEF req, cache
  <1>8. StampsAreTrue' /\ (pc'[a].at # "idle" => trees'[WasmDir(req)].cache = cache)
    <2> DEFINE dir == WasmDir(req)
    <2>1. PICK known \in BOOLEAN : known = TRUE
      OBVIOUS
    <2>2. CompileIn(a, "client", dir, dir, cache, known, "assemble")
      BY <1>6, <2>1
    <2>3. /\ dir.profile # "custom" => known /\ cache = Asked(dir)
          /\ dir.profile = "custom" => ~ConfigureMayFail
      BY <1>7, <2>1
    <2>4. dir \in Dirs
      BY <1>3
    <2> HIDE DEF dir
    <2>5. StampsAreTrue' /\ (pc'[a].at # "idle" => trees'[dir].cache = cache)
      BY <1>1, <1>4, <1>5, <2>2, <2>3, <2>4, CompileKeepsStamps
    <2> QED
      BY <2>5 DEF dir
  <1> QED
    BY <1>8 DEF req, cache

\* A step after which no build of the terminal has compiled anything.
LEMMA NothingBuiltYet ==
    ASSUME OneCommand', StampsAreTrue', PresetsAreOfTheBuild',
           pc'["cli"].at \in {"idle", "host", "launch"} \/ ~pc'["cli"].compiled
    PROVE  DeliveryInv'
  BY DEF DeliveryInv, BuiltSoFar

\* The commands, the session and the trees of a step that does not touch the presets.
LEMMA PresetsStay ==
    ASSUME PresetsAreOfTheBuild, UNCHANGED presets,
           \A a \in Actors : pc'[a].at \in {"host", "wasm"} =>
             /\ pc[a].at \in {"host", "wasm"}
             /\ pc'[a].config = pc[a].config /\ pc'[a].req = pc[a].req
    PROVE  PresetsAreOfTheBuild'
  BY DEF PresetsAreOfTheBuild, PresetsText

LEMMA StampsStay ==
    ASSUME StampsAreTrue, UNCHANGED trees
    PROVE  StampsAreTrue'
  BY DEF StampsAreTrue, Asked

\* The watch loop's rebuild.
LEMMA RebuildKeepsDelivery ==
    ASSUME CoreInv, DeliveryInv, RequestsAreOfTheirProfiles, Compile("watcher")
    PROVE  DeliveryInv'
  <1>1. pc \in [Actors -> Step] /\ session \in Session
    BY DEF CoreInv, TypeOK
  <1>2. pc["watcher"].at # "idle"
    BY DEF Compile, CompileHost, CompileWasm, CopyBundle, WriteManifest, Install
  <1>3. session.on /\ pc["cli"].at = "idle"
    BY <1>2 DEF CoreInv, SessionIsWatched, DeliveryInv, OneCommand
  <1>4. /\ session' = session \/ session' = [session EXCEPT !.outcome = "failed"]
        /\ \/ \E at \in {"wasm", "assemble", "manifest", "install", "reload"} :
                Goto("watcher", at) /\ (at = "wasm" => pc["watcher"].at = "host")
           \/ pc' = [pc EXCEPT !["watcher"] = Idle]
        /\ UNCHANGED presets
    BY DEF Compile, CompileHost, CompileWasm, CopyBundle, WriteManifest, Install, CompileIn,
           Fail, End
  <1>5. pc'["cli"] = pc["cli"] /\ OneCommand'
    BY <1>1, <1>3, <1>4 DEF Goto, Actors, OneCommand
  <1>6. PresetsAreOfTheBuild'
    <2>1. CASE pc' = [pc EXCEPT !["watcher"] = Idle]
      BY <1>1, <1>3, <1>4, <2>1, PresetsStay DEF Idle, Actors, DeliveryInv
    <2>2. ASSUME NEW at \in {"wasm", "assemble", "manifest", "install", "reload"},
                 Goto("watcher", at), at = "wasm" => pc["watcher"].at = "host"
          PROVE  PresetsAreOfTheBuild'
      <3>1. pc'["watcher"].at = at /\ pc'["watcher"].config = pc["watcher"].config
            /\ pc'["watcher"].req = pc["watcher"].req
        BY <1>1, <2>2 DEF Goto, Step, Actors
      <3> QED
        BY <1>3, <1>4, <1>5, <2>2, <3>1, PresetsStay DEF Actors, DeliveryInv
    <2> QED
      BY <1>4, <2>1, <2>2
  <1>7. StampsAreTrue'
    BY HostStamps, WasmStamps, StampsStay
       DEF Compile, CopyBundle, WriteManifest, Install, Actors, DeliveryInv
  <1> QED
    BY <1>3, <1>5, <1>6, <1>7, NothingBuiltYet

\* The terminal's compiler runs.
LEMMA TerminalCompiles ==
    ASSUME CoreInv, DeliveryInv, RequestsAreOfTheirProfiles,
           CompileHost("cli") \/ CompileWasm("cli")
    PROVE  DeliveryInv'
  <1> DEFINE p == pc["cli"]
             req == p.req
             host == trees[HostDir(req)].made
  <1>1. TypeOK /\ CommandsAreAsked /\ pc \in [Actors -> Step]
    BY DEF CoreInv, TypeOK
  <1>2. /\ p.at \in {"host", "wasm"} /\ req \in Requests \cup DevRequests
        /\ p.from["host"] <= src["host"].ver /\ p.from["client"] <= src["client"].ver
        /\ src["host"].ver \in Nat /\ src["client"].ver \in Nat
        /\ p.from["host"] \in Nat /\ p.from["client"] \in Nat
    BY <1>1 DEF CompileHost, CompileWasm, CommandsAreAsked, Actors, Sides, TypeOK, Step
  <1>3. req \in Request /\ HostDir(req) \in Dirs /\ WasmDir(req) \in Dirs
        /\ HostDir(req) # WasmDir(req)
    BY <1>2, RequestsAreTyped
  <1>4. ~session.on /\ pc["watcher"].at = "idle"
    BY <1>2, OutsideSession DEF DeliveryInv, OneCommand
  <1>5. UNCHANGED <<bundle, deployed, presets, session>>
    BY DEF CompileHost, CompileWasm, CompileIn, Fail
  <1>6. OneCommand' /\ StampsAreTrue'
    BY <1>4, <1>5, HostStamps, WasmStamps DEF OneCommand, Actors
  <1>7. /\ pc'["watcher"] = pc["watcher"]
        /\ pc'["cli"].at # "idle" =>
             /\ pc'["cli"].req = req /\ pc'["cli"].config = p.config
             /\ pc'["cli"].from = p.from /\ pc'["cli"].compiled = p.compiled
    BY <1>1, CompileHostOutcome, CompileWasmOutcome, CommandsGoOn
       DEF Actors, CompileHost, CompileWasm, Goto, CompileIn, Fail, End, Ends, GoesOn, Phase
  <1>8. CASE pc'["cli"].at = "idle"
    <2>1. PresetsAreOfTheBuild'
      BY <1>4, <1>5, <1>7, <1>8, PresetsStay DEF Actors, DeliveryInv
    <2> QED
      BY <1>6, <1>8, <2>1, NothingBuiltYet
  <1>9. CASE pc'["cli"].at # "idle" /\ CompileHost("cli") /\ req.services
    <2>1. \/ BuiltIn("cli", "host", HostDir(req), IF req.client THEN "wasm" ELSE "install")
          \/ NotBuilt("cli")
      BY <1>1, <1>9, CompileHostOutcome DEF Actors
    <2>2. BuiltIn("cli", "host", HostDir(req), IF req.client THEN "wasm" ELSE "install")
      BY <1>1, <1>9, <2>1 DEF NotBuilt, Fails, Fail, End, Idle, Actors
    <2>3. trees'[HostDir(req)].cache = WhatIsAsked(req, "host")
      BY <1>9, HostStamps DEF Actors
    <2>4. Answers(trees'[HostDir(req)].made, p, "host", "host")
      BY <1>2, <2>2, <2>3 DEF BuiltIn, Compiled, Answers, WhatIsAsked
    <2>5. pc'["cli"].at = IF req.client THEN "wasm" ELSE "install"
      BY <1>1, <2>2 DEF BuiltIn, Goto, Actors, Step
    <2>6. p.at = "host"
      BY <1>9 DEF CompileHost
    <2>7. PresetsAreOfTheBuild'
      BY <1>4, <1>5, <1>7, <2>6, PresetsStay DEF Actors, DeliveryInv
    <2>8. Answers(trees'[HostDir(req)].made, pc'["cli"], "host", "host")
      BY <1>7, <1>9, <2>4 DEF Answers
    <2> QED
      BY <1>6, <1>7, <1>9, <2>5, <2>7, <2>8 DEF DeliveryInv, BuiltSoFar
  <1>10. CASE pc'["cli"].at # "idle" /\ CompileHost("cli") /\ ~req.services
    <2>1. Goto("cli", IF req.client THEN "wasm" ELSE "install")
      BY <1>1, <1>10, CompileHostOutcome DEF Actors
    <2>2. pc'["cli"].at = IF req.client THEN "wasm" ELSE "install"
      BY <1>1, <2>1 DEF Goto, Actors, Step
    <2>3. p.at = "host"
      BY <1>10 DEF CompileHost
    <2>4. PresetsAreOfTheBuild'
      BY <1>4, <1>5, <1>7, <2>3, PresetsStay DEF Actors, DeliveryInv
    <2> QED
      BY <1>6, <1>7, <1>10, <2>2, <2>4 DEF DeliveryInv, BuiltSoFar
  <1>11. CASE pc'["cli"].at # "idle" /\ CompileWasm("cli")
    <2>1. BuiltIn("cli", "client", WasmDir(req), "assemble") \/ NotBuilt("cli")
      BY <1>1, <1>11, CompileWasmOutcome DEF Actors
    <2>2. BuiltIn("cli", "client", WasmDir(req), "assemble")
      BY <1>1, <1>11, <2>1 DEF NotBuilt, Fails, Fail, End, Idle, Actors
    <2>3. trees'[WasmDir(req)].cache = WhatIsAsked(req, "wasm")
      BY <1>11, WasmStamps DEF Actors
    <2>4. Answers(trees'[WasmDir(req)].made, p, "client", "wasm")
      BY <1>2, <2>2, <2>3 DEF BuiltIn, Compiled, Answers, WhatIsAsked
    <2>5. pc'["cli"].at = "assemble"
      BY <1>1, <2>2 DEF BuiltIn, Goto, Actors, Step
    <2>6. trees'[HostDir(req)].made = host
      BY <1>3, <2>2 DEF BuiltIn
    <2>7. p.at = "wasm"
      BY <1>11 DEF CompileWasm
    <2>8. PresetsAreOfTheBuild'
      BY <1>4, <1>5, <1>7, <2>5, PresetsStay DEF Actors, DeliveryInv
    <2>9. (p.compiled /\ req.services) => Answers(host, p, "host", "host")
      BY <2>7 DEF DeliveryInv, BuiltSoFar
    <2>10. /\ Answers(trees'[WasmDir(req)].made, pc'["cli"], "client", "wasm")
           /\ (p.compiled /\ req.services) => Answers(host, pc'["cli"], "host", "host")
      BY <1>7, <1>11, <2>4, <2>9 DEF Answers
    <2> QED
      BY <1>6, <1>7, <1>11, <2>5, <2>6, <2>8, <2>10 DEF DeliveryInv, BuiltSoFar
  <1> QED
    BY <1>8, <1>9, <1>10, <1>11

\* The terminal's bundle and layout.
LEMMA TerminalAssembles ==
    ASSUME CoreInv, DeliveryInv, CopyBundle("cli") \/ WriteManifest("cli") \/ Install("cli")
    PROVE  DeliveryInv'
  <1> DEFINE p == pc["cli"]
             req == p.req
             host == trees[HostDir(req)].made
             next == IF p.at = "assemble" THEN "manifest"
                     ELSE IF p.at = "manifest" THEN "install" ELSE "compress"
  <1>1. TypeOK /\ pc \in [Actors -> Step] /\ bundle \in Bundle
    BY DEF CoreInv, TypeOK
  <1>2. p.at \in {"assemble", "manifest", "install"}
    BY DEF CopyBundle, WriteManifest, Install
  <1>3. ~session.on /\ pc["watcher"].at = "idle"
    BY <1>2, OutsideSession DEF DeliveryInv, OneCommand
  <1>4. UNCHANGED <<session, trees, presets>> /\ Goto("cli", next)
    BY <1>2 DEF CopyBundle, WriteManifest, Install
  <1>5. /\ pc'["cli"].at = next /\ pc'["cli"].req = req /\ pc'["cli"].config = p.config
        /\ pc'["cli"].from = p.from /\ pc'["cli"].compiled = p.compiled
        /\ pc'["watcher"] = pc["watcher"]
    <2> HIDE DEF next
    <2>1. pc' = [pc EXCEPT !["cli"] = [p EXCEPT !.at = next]]
      BY <1>1, <1>4 DEF Goto, Actors
    <2>2. /\ [p EXCEPT !.at = next].at = next /\ [p EXCEPT !.at = next].req = req
          /\ [p EXCEPT !.at = next].config = p.config /\ [p EXCEPT !.at = next].from = p.from
          /\ [p EXCEPT !.at = next].compiled = p.compiled
      BY <1>1 DEF Step, Actors
    <2> QED
      BY <2>1, <2>2, <1>1 DEF Actors
  <1>6. next \in {"manifest", "install", "compress"}
    OBVIOUS
  <1>7. OneCommand' /\ StampsAreTrue' /\ PresetsAreOfTheBuild'
    BY <1>3, <1>4, <1>5, <1>6, StampsStay, PresetsStay DEF OneCommand, DeliveryInv, Actors
  <1>8. \A made, side, environment :
          Answers(made, p, side, environment) => Answers(made, pc'["cli"], side, environment)
    BY <1>5 DEF Answers
  <1>9. (p.compiled /\ req.services) => Answers(host, p, "host", "host")
    BY <1>2 DEF DeliveryInv, BuiltSoFar
  <1>10. (p.compiled /\ req.services /\ next = "compress") => deployed' = host
    <2>1. CASE Install("cli") /\ p.compiled /\ req.services
      <3>1. host.ver >= p.from["host"] /\ p.from["host"] \in Nat
        BY <1>1, <1>9, <2>1 DEF Answers, Step, Sides, Actors
      <3>2. host # NoMade
        BY <3>1 DEF NoMade
      <3> QED
        BY <2>1, <3>2 DEF Install
    <2>2. CASE p.at \in {"assemble", "manifest"}
      BY <2>2
    <2> QED
      BY <2>1, <2>2 DEF CopyBundle, WriteManifest, Install
  <1>11. (p.compiled /\ req.client) =>
           /\ Answers(bundle'.wasm, p, "client", "wasm")
           /\ next \in {"install", "compress"} => bundle'.id = bundle'.wasm
    <2>1. CASE CopyBundle("cli")
      <3>1. p.at = "assemble" /\ bundle'.wasm = trees[WasmDir(req)].made
        BY <1>1, <2>1 DEF CopyBundle, Bundle
      <3> QED
        BY <3>1 DEF DeliveryInv, BuiltSoFar
    <2>2. CASE WriteManifest("cli")
      <3>1. p.at = "manifest" /\ bundle'.wasm = bundle.wasm /\ bundle'.id = bundle.wasm
        BY <1>1, <2>2 DEF WriteManifest, Bundle
      <3> QED
        BY <3>1 DEF DeliveryInv, BuiltSoFar
    <2>3. CASE Install("cli")
      <3>1. p.at = "install" /\ bundle'.wasm = bundle.wasm /\ bundle'.id = bundle.id
        BY <1>1, <2>3 DEF Install, Bundle
      <3> QED
        BY <3>1 DEF DeliveryInv, BuiltSoFar
    <2> QED
      BY <2>1, <2>2, <2>3
  <1> HIDE DEF next
  <1> QED
    BY <1>4, <1>5, <1>6, <1>7, <1>8, <1>9, <1>10, <1>11 DEF DeliveryInv, BuiltSoFar

LEMMA DeliveryStep ==
    ASSUME CoreInv, DeliveryInv, RequestsAreOfTheirProfiles, ~OtherTerminal, [Next]_vars
    PROVE  DeliveryInv'
  <1>1. TypeOK /\ pc \in [Actors -> Step] /\ session \in Session
    BY DEF CoreInv, TypeOK
  <1>2. OneCommand /\ StampsAreTrue /\ PresetsAreOfTheBuild
    BY DEF DeliveryInv
  <1>3. ASSUME UNCHANGED trees, OneCommand', PresetsAreOfTheBuild',
               pc'["cli"].at \in {"idle", "host", "launch"} \/ ~pc'["cli"].compiled
        PROVE  DeliveryInv'
    BY <1>2, <1>3, StampsStay, NothingBuiltYet
  <1>4. ASSUME NEW req \in Requests \cup DevRequests, NEW cmd \in {"build", "dev"},
               Begin(cmd, req)
        PROVE  DeliveryInv'
    <2>1. ~session.on /\ session' = session /\ trees' = trees
      BY <1>4 DEF Begin
    <2>2. pc["watcher"].at = "idle"
      BY <2>1, OutsideSession
    <2>3. CASE src["config"].kind = "sound"
      <3>1. src["config"].ver \in 0..MaxEdits
        BY <1>1, MaxEditsAssumption DEF TypeOK, Sides
      <3>2. Generate("cli", cmd, req, src["config"].ver, Versions)
        BY <1>4, <2>3 DEF Begin
      <3>3. /\ pc'["watcher"] = pc["watcher"] /\ pc'["cli"].at = "host"
            /\ pc'["cli"].req = req /\ pc'["cli"].config = src["config"].ver
        BY <1>1, <3>1, <3>2, GenerateOutcome DEF Actors
      <3>4. presets' = PresetsText(src["config"].ver, req)
        BY <3>2 DEF Generate
      <3>5. PresetsAreOfTheBuild'
        BY <2>2, <3>3, <3>4 DEF PresetsAreOfTheBuild, PresetsText, Actors
      <3> QED
        BY <1>3, <2>1, <3>3, <3>5 DEF OneCommand
    <2>4. CASE src["config"].kind # "sound"
      <3>1. pc' = [pc EXCEPT !["cli"] = Idle] /\ UNCHANGED presets
        BY <1>4, <2>4 DEF Begin, End
      <3>2. pc'["cli"].at = "idle" /\ pc'["watcher"] = pc["watcher"]
        BY <1>1, <3>1 DEF Idle, Actors
      <3>3. PresetsAreOfTheBuild'
        BY <1>2, <2>2, <3>1, <3>2, PresetsStay DEF Actors
      <3> QED
        BY <1>3, <2>1, <3>2, <3>3 DEF OneCommand
    <2> QED
      BY <2>3, <2>4
  <1>5. CASE Compile("watcher")
    BY <1>5, RebuildKeepsDelivery
  <1>6. CASE Compile("cli")
    BY <1>6, TerminalCompiles, TerminalAssembles DEF Compile
  <1>7. ASSUME UNCHANGED <<trees, presets>>, pc["cli"].at # "idle",
               \E p : pc' = [pc EXCEPT !["cli"] = p],
               pc'["cli"].at \in {"idle", "launch"} \/ ~pc'["cli"].compiled,
               pc'["cli"].at \notin {"host", "wasm"},
               session' = session \/ pc'["cli"].at = "idle"
        PROVE  DeliveryInv'
    <2>1. ~session.on /\ pc["watcher"].at = "idle"
      BY <1>2, <1>7, OutsideSession DEF OneCommand
    <2>2. pc'["watcher"] = pc["watcher"]
      BY <1>1, <1>7 DEF Actors
    <2>3. PresetsAreOfTheBuild'
      BY <1>2, <1>7, <2>1, <2>2, PresetsStay DEF Actors
    <2>4. OneCommand'
      BY <1>7, <2>1 DEF OneCommand
    <2> QED
      BY <1>3, <1>7, <2>3, <2>4
  <1>8. CASE SkipCompile("cli")
    <2>1. /\ pc' = [pc EXCEPT !["cli"] =
                      [pc["cli"] EXCEPT !.at = "install", !.compiled = FALSE]]
          /\ pc["cli"].at = "host" /\ UNCHANGED <<trees, presets, session>>
      BY <1>1, <1>8 DEF SkipCompile, Actors
    <2>2. ~pc'["cli"].compiled /\ pc'["cli"].at = "install"
      BY <1>1, <2>1 DEF Step, Actors
    <2> QED
      BY <1>7, <2>1, <2>2
  <1>9. CASE Compress
    <2>1. /\ \E p : pc' = [pc EXCEPT !["cli"] = p]
          /\ pc["cli"].at # "idle" /\ UNCHANGED <<trees, presets, session>>
      BY <1>9 DEF Compress, Goto, End
    <2>2. pc'["cli"].at \in {"idle", "launch"}
      BY <1>1, <1>9 DEF Compress, Goto, End, Idle, Step, Actors
    <2> QED
      BY <1>7, <2>1, <2>2
  <1>10. CASE Interrupt \/ Launch
    <2>1. /\ pc' = [pc EXCEPT !["cli"] = Idle]
          /\ pc["cli"].at # "idle" /\ UNCHANGED <<trees, presets>>
      BY <1>10 DEF Interrupt, Launch, End
    <2>2. pc'["cli"].at = "idle"
      BY <1>1, <2>1 DEF Idle, Actors
    <2> QED
      BY <1>7, <2>1, <2>2
  <1>11. ASSUME UNCHANGED <<trees, presets>>, pc["cli"].at = "idle" \/ ~session.on,
                session'.on => session.on, session.on,
                pc' = pc \/ pc' = [pc EXCEPT !["watcher"] = Idle]
         PROVE  DeliveryInv'
    <2>1. pc["cli"].at = "idle" /\ pc'["cli"] = pc["cli"]
      BY <1>1, <1>2, <1>11 DEF OneCommand, Actors
    <2>2. PresetsAreOfTheBuild'
      BY <1>1, <1>2, <1>11, PresetsStay DEF Actors, Idle
    <2> QED
      BY <1>3, <1>11, <2>1, <2>2 DEF OneCommand
  <1>12. CASE StartWatching \/ Reload \/ StopDev
    <2>1. session.on
      BY <1>12, ReloadOutcome DEF StartWatching, StopDev
    <2>2. /\ UNCHANGED <<trees, presets>>
          /\ pc' = pc \/ pc' = [pc EXCEPT !["watcher"] = Idle]
      BY <1>12 DEF StartWatching, Reload, StopDev
    <2> QED
      BY <1>2, <1>11, <2>1, <2>2 DEF OneCommand
  <1>13. CASE Poll
    <2>1. session.on /\ pc["cli"].at = "idle" /\ session.req \in DevRequests /\ trees' = trees
      BY <1>2, <1>13, PollOutcome DEF OneCommand, CoreInv, SessionIsWatched, Poll
    <2>2. CASE Generate("watcher", "reload", session.req, session'.config.ver, Versions)
      <3>1. /\ pc'["cli"] = pc["cli"] /\ pc'["watcher"].at = "host"
            /\ pc'["watcher"].req = session.req /\ pc'["watcher"].config = session'.config.ver
        BY <1>1, <1>13, <2>1, <2>2, PollOutcome, GenerateOutcome DEF Actors
      <3>2. presets' = PresetsText(session'.config.ver, session.req)
        BY <2>2 DEF Generate
      <3>3. PresetsAreOfTheBuild'
        BY <2>1, <3>1, <3>2 DEF PresetsAreOfTheBuild, PresetsText, Actors
      <3> QED
        BY <1>3, <2>1, <3>1, <3>3 DEF OneCommand
    <2>3. CASE session'.outcome = "failed" /\ UNCHANGED <<pc, presets>>
      BY <1>2, <1>3, <2>1, <2>3, PresetsStay DEF OneCommand
    <2> QED
      BY <1>13, <2>2, <2>3, PollOutcome
  <1>14. CASE Clean
    <2>1. /\ trees' = [d \in Dirs |-> NoTree] /\ UNCHANGED <<pc, presets, session>>
          /\ pc["cli"].at = "idle"
      BY <1>14 DEF Clean
    <2>2. StampsAreTrue'
      BY <2>1 DEF StampsAreTrue, NoTree
    <2> QED
      BY <1>2, <2>1, <2>2, PresetsStay, NothingBuiltYet DEF OneCommand
  <1>15. CASE UNCHANGED <<trees, presets, deployed, bundle, pc, session>>
    <2>1. OneCommand' /\ StampsAreTrue' /\ PresetsAreOfTheBuild'
      BY <1>2, <1>15, StampsStay, PresetsStay DEF OneCommand
    <2> QED
      BY <1>15, <2>1 DEF DeliveryInv, BuiltSoFar
  <1> QED
    BY <1>4, <1>5, <1>6, <1>8, <1>9, <1>10, <1>12, <1>13, <1>14, <1>15
       DEF Next, Actors, Serve, Edit, vars

\* When no other terminal builds while a session runs, and for the requests the commands
\* can make, a build that reports its compilation has deployed it: the binary and the wasm
\* are of the profile asked for, with development code exactly when asked, no older than the
\* sources the command began with, and the manifest names the wasm beside it (build.py
\* `build`, `_configure_if_needed`, `_install_binary`, `assemble_bundle`; run.py:541).
THEOREM BuildsDeliver ==
    ASSUME RequestsAreOfTheirProfiles, ~OtherTerminal
    PROVE  Spec => BuildDelivers
  <1>1. Init => DeliveryInv
    BY DEF Init, DeliveryInv, OneCommand, StampsAreTrue, PresetsAreOfTheBuild, BuiltSoFar,
           NoSession, NoTree, Idle, Actors
  <1>2. CoreInv /\ DeliveryInv /\ [Next]_vars => DeliveryInv'
    BY DeliveryStep
  <1>3. CoreInv /\ DeliveryInv /\ [Next]_vars
        => [(pc["cli"].at = "compress" /\ pc["cli"].compiled /\ last'.result # "interrupted"
               /\ pc'["cli"].at # "compress") =>
              /\ pc["cli"].req.services => Answers(deployed', pc["cli"], "host", "host")
              /\ pc["cli"].req.client =>
                   /\ Answers(bundle'.wasm, pc["cli"], "client", "wasm")
                   /\ bundle'.id = bundle'.wasm]_vars
    <2> SUFFICES ASSUME CoreInv, DeliveryInv, Next,
                        pc["cli"].at = "compress", pc["cli"].compiled,
                        last'.result # "interrupted", pc'["cli"].at # "compress"
                 PROVE  /\ pc["cli"].req.services =>
                             Answers(deployed', pc["cli"], "host", "host")
                        /\ pc["cli"].req.client =>
                             /\ Answers(bundle'.wasm, pc["cli"], "client", "wasm")
                             /\ bundle'.id = bundle'.wasm
      BY DEF vars
    <2>1. pc \in [Actors -> Step] /\ bundle \in Bundle
      BY DEF CoreInv, TypeOK
    <2>2. /\ pc["cli"].req.services => Answers(deployed, pc["cli"], "host", "host")
          /\ pc["cli"].req.client =>
               Answers(bundle.wasm, pc["cli"], "client", "wasm") /\ bundle.id = bundle.wasm
      BY DEF DeliveryInv, BuiltSoFar
    <2>3. ASSUME pc'["cli"] = pc["cli"] PROVE FALSE
      BY <2>3
    <2>4. CASE Compress
      <3>1. deployed' = deployed /\ bundle'.wasm = bundle.wasm /\ bundle'.id = bundle.id
        <4>1. bundle' = bundle \/ \E k : bundle' = [bundle EXCEPT !.packed = bundle.wasm,
                                                                  !.packedAt = k]
          BY <2>4 DEF Compress
        <4> QED
          BY <2>1, <2>4, <4>1 DEF Compress, Bundle
      <3> QED
        BY <2>2, <3>1
    <2>5. CASE Compile("watcher") \/ Poll
      <3>1. \E p : pc' = [pc EXCEPT !["watcher"] = p]
        BY <2>1, <2>5 DEF Compile, CompileHost, CompileWasm, CopyBundle, WriteManifest, Install,
                          CompileIn, Fail, End, Goto, Poll, Generate
      <3> QED
        BY <2>1, <2>3, <3>1 DEF Actors
    <2>6. CASE Reload \/ StopDev
      BY <2>1, <2>3, <2>6 DEF Reload, StopDev, Actors
    <2>7. CASE Interrupt
      BY <2>7 DEF Interrupt, End
    <2>8. CASE pc' = pc
      BY <2>3, <2>8
    <2> QED
      BY <2>4, <2>5, <2>6, <2>7, <2>8
         DEF Next, Actors, Begin, Compile, CompileHost, CompileWasm, CopyBundle, WriteManifest,
             Install, SkipCompile, Launch, StartWatching, Serve, Clean, Edit
  <1> QED
    BY <1>1, <1>2, <1>3, CoreInvariant, PTL DEF Spec, BuildDelivers
================================================================================
