------------------------- MODULE DockerStackProofs -------------------------
(***************************************************************************)
(* Proofs about `synqt docker`: the secrets that are kept, the entities     *)
(* that trust one another and the addresses that agree, for every set of    *)
(* configurations, and any number of containers, starts and failures.       *)
(***************************************************************************)
EXTENDS DockerStack, FiniteSetTheorems, TLAPS

(***************************************************************************)
(* The secrets: one entity's file keeps every value it holds.              *)
(***************************************************************************)
LEMMA FilledInKeeps ==
  ASSUME NEW c, NEW n, NEW new, NEW typed, NEW asks,
         NEW k \in DOMAIN env[n], env[n][k] # 0
  PROVE  FilledIn(c, n, new, typed, asks)[k] = env[n][k]
<1>1. PICK missing : missing = Missing(c, n)
  OBVIOUS
<1>2. k \notin missing
  BY <1>1 DEF Missing
<1>3. PICK first : first = [j \in DOMAIN env[n] |->
                     IF j \in missing /\ Generates(c, n, j) THEN new ELSE env[n][j]]
  OBVIOUS
<1>4. DOMAIN first = DOMAIN env[n] /\ first[k] = env[n][k]
  BY <1>2, <1>3
<1>5. PICK second : second = [j \in DOMAIN first |->
                     IF HasEngine(Entity(c, n)) /\ j \in Aliases(Entity(c, n).engine) /\ first[j] = 0
                     THEN first[SecretEnv(Entity(c, n).engine)] ELSE first[j]]
  OBVIOUS
<1>6. DOMAIN second = DOMAIN env[n] /\ second[k] = env[n][k]
  BY <1>4, <1>5
<1>7. PICK third : third = [j \in DOMAIN second |->
                     IF asks /\ j \in missing /\ ~Generates(c, n, j) THEN typed ELSE second[j]]
  OBVIOUS
<1>8. third[k] = env[n][k]
  BY <1>2, <1>6, <1>7
<1>9. FilledIn(c, n, new, typed, asks) = IF missing = {} THEN env[n] ELSE third
  BY <1>1, <1>3, <1>5, <1>7 DEF FilledIn
<1> QED BY <1>8, <1>9

\* A value an entity's .env holds is never changed by another `docker init`
\* (ask_secrets), whatever is typed and whatever the configuration became.
THEOREM SecretsStay == Spec => SecretsAreKept
<1>1. ASSUME [Next]_vars, NEW n \in AllNames, NEW k \in DOMAIN env[n], env[n][k] # 0
      PROVE  env'[n][k] = env[n][k]
  <2>1. CASE env' = env
    BY <2>1
  <2>2. CASE \E p \in PortOverrides, client \in {"image", "host"}, force \in BOOLEAN :
               DockerInit(p, client, force)
    <3>1. PICK typed \in Typed :
            env' = AskSecrets(config, fresh + 1, typed, Answers # {})
      BY <2>2 DEF DockerInit
    <3>2. PICK new, asks : new = fresh + 1 /\ asks = (Answers # {})
      OBVIOUS
    <3>3. env'[n] = IF n \in Names(config)
                    THEN FilledIn(config, n, new, typed, asks) ELSE env[n]
      BY <1>1, <3>1, <3>2 DEF AskSecrets
    <3>4. FilledIn(config, n, new, typed, asks)[k] = env[n][k]
      BY <1>1, FilledInKeeps
    <3> QED BY <3>3, <3>4
  <2>3. \/ env' = env
        \/ \E p \in PortOverrides, client \in {"image", "host"}, force \in BOOLEAN :
             DockerInit(p, client, force)
    BY <1>1 DEF Next, DockerUp, DockerDown, MeshInit, CheckAuthority, IssueAuthorityKey,
         IssueAuthority, IssueKey, IssueCertificate, IssueBrowser, KillMeshInit, StartEntity,
         CrashEntity, EditConfig, vars
  <2> QED BY <2>1, <2>2, <2>3
<1>2. [Next]_vars => [\A n \in AllNames : \A k \in DOMAIN env[n] :
                        env[n][k] # 0 => env'[n][k] = env[n][k]]_vars
  BY <1>1
<1> QED BY <1>2, PTL DEF Spec, SecretsAreKept

(***************************************************************************)
(* Sequences and sets.                                                     *)
(***************************************************************************)
LEMMA ToSetConcat ==
  ASSUME NEW S, NEW s \in Seq(S), NEW t \in Seq(S)
  PROVE  ToSet(s \o t) = ToSet(s) \cup ToSet(t)
<1>1. PICK u : u = s \o t
  OBVIOUS
<1>2. /\ DOMAIN s = 1..Len(s) /\ DOMAIN t = 1..Len(t) /\ DOMAIN u = 1..(Len(s) + Len(t))
      /\ Len(s) \in Nat /\ Len(t) \in Nat
  BY <1>1
<1>3. /\ \A i \in 1..Len(s) : u[i] = s[i]
      /\ \A i \in 1..Len(t) : u[Len(s) + i] = t[i]
  BY <1>1
<1>4. ASSUME NEW i \in DOMAIN u PROVE u[i] \in ToSet(s) \cup ToSet(t)
  <2>1. CASE i \in DOMAIN s
    BY <1>2, <1>3, <2>1 DEF ToSet
  <2>2. CASE i \notin DOMAIN s
    <3>1. PICK j : j = i - Len(s)
      OBVIOUS
    <3>2. j \in 1..Len(t) /\ i = Len(s) + j
      BY <1>2, <1>4, <2>2, <3>1
    <3> QED BY <1>2, <1>3, <3>2 DEF ToSet
  <2> QED BY <2>1, <2>2
<1>5. ASSUME NEW i \in DOMAIN s PROVE s[i] \in ToSet(u)
  <2>1. i \in DOMAIN u /\ u[i] = s[i]
    BY <1>2, <1>3, <1>5
  <2> QED BY <2>1, Zenon DEF ToSet
<1>6. ASSUME NEW i \in DOMAIN t PROVE t[i] \in ToSet(u)
  <2>1. PICK j : j = Len(s) + i
    OBVIOUS
  <2>2. j \in DOMAIN u /\ u[j] = t[i]
    BY <1>2, <1>3, <1>6, <2>1
  <2> QED BY <2>2, Zenon DEF ToSet
<1>7. ToSet(u) \subseteq ToSet(s) \cup ToSet(t)
  BY <1>4 DEF ToSet
<1>8. ToSet(s) \subseteq ToSet(u)
  BY <1>5 DEF ToSet
<1>9. ToSet(t) \subseteq ToSet(u)
  BY <1>6 DEF ToSet
<1> QED BY <1>1, <1>7, <1>8, <1>9

LEMMA ToSetTail ==
  ASSUME NEW S, NEW s \in Seq(S), s # <<>>
  PROVE  /\ Head(s) \in S /\ Head(s) \in ToSet(s) /\ Tail(s) \in Seq(S)
         /\ ToSet(s) \subseteq ToSet(Tail(s)) \cup {Head(s)}
<1>1. /\ Len(s) \in Nat \ {0} /\ DOMAIN s = 1..Len(s) /\ Head(s) = s[1]
      /\ Tail(s) \in Seq(S) /\ DOMAIN Tail(s) = 1..(Len(s) - 1)
      /\ \A i \in 1..(Len(s) - 1) : Tail(s)[i] = s[i + 1]
  OBVIOUS
<1>2. 1 \in DOMAIN s
  BY <1>1
<1>3. s[1] \in S
  BY <1>2
<1>6. s[1] \in ToSet(s)
  BY <1>2, Zenon DEF ToSet
<1>4. ASSUME NEW i \in DOMAIN s PROVE s[i] \in ToSet(Tail(s)) \cup {Head(s)}
  <2>1. CASE i = 1
    BY <1>1, <2>1
  <2>2. CASE i # 1
    <3>1. PICK j, t : j = i - 1 /\ t = Tail(s)
      OBVIOUS
    <3>2. j \in DOMAIN t /\ t[j] = s[i]
      BY <1>1, <1>4, <2>2, <3>1
    <3>3. s[i] \in ToSet(t)
      BY <3>2, Zenon DEF ToSet
    <3> QED BY <3>1, <3>3
  <2> QED BY <2>1, <2>2
<1>5. ToSet(s) \subseteq ToSet(Tail(s)) \cup {Head(s)}
  BY <1>4 DEF ToSet
<1> QED BY <1>1, <1>3, <1>6, <1>5

\* The elements of a finite set, in some order.
LEMMA SetToSeqElements ==
  ASSUME NEW S, IsFiniteSet(S)
  PROVE  SetToSeq(S) \in Seq(S) /\ ToSet(SetToSeq(S)) = S
<1>1. PICK n : n = Cardinality(S)
  OBVIOUS
<1>2. n \in Nat /\ ExistsBijection(1..n, S)
  BY <1>1, FS_CardinalityType
<1>3. \E f \in [1..n -> S] : IsInjective(f)
  BY <1>2 DEF ExistsBijection, Bijection, Injection
<1>4. PICK f : f = SetToSeq(S)
  OBVIOUS
<1>5. f \in [1..n -> S] /\ IsInjective(f)
  BY <1>1, <1>3, <1>4 DEF SetToSeq
<1>6. PICK T : T = {f[i] : i \in 1..n}
  OBVIOUS
<1>7. T \subseteq S /\ f \in [1..n -> T]
  BY <1>5, <1>6
<1>8. \A t \in T : \E i \in 1..n : f[i] = t
  BY <1>6
<1>9. f \in Bijection(1..n, T)
  BY <1>5, <1>7, <1>8 DEF Bijection, Injection, Surjection
<1>10. ExistsBijection(1..n, T)
  BY <1>9 DEF ExistsBijection
<1>11. Cardinality(T) = n
  BY <1>2, <1>10, FS_CountingElements
<1>12. T = S
  BY <1>1, <1>7, <1>11, FS_Subset
<1>13. f \in Seq(S)
  BY <1>2, <1>5
<1>14. DOMAIN f = 1..n
  BY <1>5
<1>15. ToSet(f) = T
  BY <1>6, <1>14 DEF ToSet
<1> QED BY <1>4, <1>12, <1>13, <1>15

\* The names of a configuration, which are finitely many.
LEMMA NamesOf ==
  ASSUME NEW c \in Configs
  PROVE  /\ DOMAIN c.services = 1..Len(c.services) /\ Len(c.services) \in Nat
         /\ Names(c) \subseteq AllNames
         /\ [i \in DOMAIN c.services |-> c.services[i].name] \in Seq(Names(c))
         /\ ToSet([i \in DOMAIN c.services |-> c.services[i].name]) = Names(c)
         /\ IsFiniteSet(Names(c))
<1>1. c.services \in Seq(ToSet(c.services))
  BY ConfigAssumption
<1>2. DOMAIN c.services = 1..Len(c.services) /\ Len(c.services) \in Nat
  BY <1>1
<1>3. Names(c) \subseteq AllNames
  BY DEF AllNames
<1>4. PICK f : f = [i \in DOMAIN c.services |-> c.services[i].name]
  OBVIOUS
<1>5. ToSet(f) = Names(c)
  BY <1>4 DEF ToSet, Names
<1>6. f \in [1..Len(c.services) -> Names(c)]
  BY <1>2, <1>4 DEF Names
<1>7. f \in Seq(Names(c))
  BY <1>2, <1>6
<1>8. \A m \in Names(c) : \E i \in 1..Len(c.services) : f[i] = m
  BY <1>2, <1>4 DEF Names
<1>9. f \in Surjection(1..Len(c.services), Names(c))
  BY <1>6, <1>8 DEF Surjection
<1>10. ExistsSurjection(1..Len(c.services), Names(c))
  BY <1>9 DEF ExistsSurjection
<1>11. IsFiniteSet(Names(c))
  BY <1>2, <1>10, FS_NatSurjection
<1> QED BY <1>2, <1>3, <1>4, <1>5, <1>7, <1>11

(***************************************************************************)
(* What is rendered.                                                       *)
(***************************************************************************)
\* Every entity of a rendered compose file is one of its docker profile.
LEMMA RenderedEntities ==
  ASSUME FilesAreRendered
  PROVE  /\ \A s \in EntityServices : s.entity \in DOMAIN files.profile
         /\ DOMAIN files.profile \subseteq AllNames /\ IsFiniteSet(DOMAIN files.profile)
<1>1. CASE files = NothingRendered
  <2>1. files.compose = {} /\ DOMAIN files.profile = {}
    BY <1>1 DEF NothingRendered
  <2> QED BY <2>1, FS_EmptySet DEF EntityServices
<1>2. CASE \E c \in Configs, p \in PortOverrides, client \in {"image", "host"} :
             Fits(c) /\ ~HasEngine(EdgeEntity(c)) /\ files = Rendered(c, p, client)
  <2>1. PICK c \in Configs, p \in PortOverrides, client \in {"image", "host"} :
               files = Rendered(c, p, client)
    BY <1>2
  <2>2. PICK address, port : address = MeshAddresses(c) /\ port = EdgePort(c, p)
    OBVIOUS
  <2>3. files.compose = Compose(c, address, port, client) /\ DOMAIN files.profile = Names(c)
    BY <2>1, <2>2 DEF Rendered, Profile
  <2>4. ASSUME NEW s \in EntityServices PROVE s.entity \in Names(c)
    <3>1. s \in Compose(c, address, port, client) /\ s.entity # ""
      BY <2>3, <2>4 DEF EntityServices
    <3>2. CASE \E k \in Processes(c) :
                 s = EntityService(c, c.services[k[1]], ContainerName(c, k), address, port, client)
      <4>1. PICK k \in Processes(c) :
              s = EntityService(c, c.services[k[1]], ContainerName(c, k), address, port, client)
        BY <3>2
      <4>2. k[1] \in DOMAIN c.services
        BY DEF Processes
      <4>3. s.entity = c.services[k[1]].name
        BY <4>1 DEF EntityService
      <4> QED BY <4>2, <4>3 DEF Names
    <3>3. MeshInitService.entity = ""
      BY DEF MeshInitService
    <3>4. FrontService(c, address, port).entity = ""
      BY DEF FrontService
    <3>5. \A e : EngineContainer(e, address).entity = ""
      BY DEF EngineContainer
    <3> QED BY <3>1, <3>2, <3>3, <3>4, <3>5 DEF Compose
  <2> QED BY <2>3, <2>4, NamesOf
<1> QED BY <1>1, <1>2 DEF FilesAreRendered

\* A container's entity is one the docker profile names.
LEMMA EntityOfContainer ==
  ASSUME FilesAreRendered, NEW n \in Containers
  PROVE  EntityOf(n) \in DOMAIN files.profile
<1>1. \E s \in EntityServices : s.name = n
  BY DEF Containers
<1>2. PICK s : s = CHOOSE t \in EntityServices : t.name = n
  OBVIOUS
<1>3. s \in EntityServices /\ EntityOf(n) = s.entity
  BY <1>1, <1>2 DEF EntityOf
<1> QED BY <1>3, RenderedEntities

\* The names certificates are issued to are exactly those this `up` issues to.
LEMMA CertNamesAreIssued ==
  ASSUME issue.image \in Configs, issue.profile \in SUBSET AllNames, IsFiniteSet(issue.profile)
  PROVE  CertNames \in Seq(AllNames) /\ ToSet(CertNames) = Issued
<1>1. PICK c, own : /\ c = issue.image
                    /\ own = [i \in DOMAIN c.services |-> c.services[i].name]
  OBVIOUS
<1>2. /\ own \in Seq(Names(c)) /\ ToSet(own) = Names(c) /\ Names(c) \subseteq AllNames
      /\ IsFiniteSet(Names(c))
  BY <1>1, NamesOf
<1>3. PICK S, rest : S = issue.profile \ Names(c) /\ rest = SetToSeq(S)
  OBVIOUS
<1>4. IsFiniteSet(S)
  BY <1>3, FS_Difference
<1>5. rest \in Seq(S) /\ ToSet(rest) = S
  BY <1>3, <1>4, SetToSeqElements
<1>6. own \in Seq(AllNames)
  BY <1>2
<1>7. rest \in Seq(AllNames)
  BY <1>3, <1>5
<1>8. CertNames = own \o rest
  BY <1>1, <1>3 DEF CertNames
<1>9. ToSet(own \o rest) = ToSet(own) \cup ToSet(rest)
  BY <1>6, <1>7, ToSetConcat
<1>10. Names(c) \cup S = Issued
  BY <1>1, <1>3 DEF Issued
<1> QED BY <1>2, <1>5, <1>6, <1>7, <1>8, <1>9, <1>10

(***************************************************************************)
(* The parts of the invariant, over any volume, issue and containers.      *)
(***************************************************************************)
VolumeOK(V) ==
  V \in [caKey : Nat, caCrt : Nat, pairs : [AllNames -> Pairs], browser : Nat]
IssueOK(I) ==
  I \in [at : Stages, image : Configs, profile : SUBSET AllNames, left : Seq(AllNames)]
CountsOK(K) == K \in [inits : Nat, ups : Nat, edits : Nat, crashes : Nat]
RenderedOK(F) ==
  \/ F = NothingRendered
  \/ \E c \in Configs, p \in PortOverrides, client \in {"image", "host"} :
       Fits(c) /\ ~HasEngine(EdgeEntity(c)) /\ F = Rendered(c, p, client)

IssuedBy(I) == I.profile \cup Names(I.image)
SignedIn(V, e) == V.pairs[e].key = V.pairs[e].crt.key /\ V.pairs[e].crt.ca = V.caKey

Authority(V, I) ==
  /\ V.caCrt # 0 => V.caCrt = V.caKey
  /\ I.at = "ca_key" => V.caKey = 0 /\ V.caCrt = 0
  /\ I.at = "ca_crt" => V.caKey # 0 /\ V.caCrt = 0
  /\ I.at \in {"key", "crt", "done"} => V.caCrt # 0

Paired(V, I) ==
  /\ I.at \in {"key", "crt"} => \A e \in IssuedBy(I) \ ToSet(I.left) : SignedIn(V, e)
  /\ I.at = "crt" => I.left # <<>>
  /\ IsFiniteSet(I.profile)
  /\ I.at = "done" => \A e \in IssuedBy(I) : SignedIn(V, e)

Container(V, I, r) ==
  /\ r.entity \in IssuedBy(I)
  /\ r.up => /\ r.key = r.crt.key /\ r.crt.ca = V.caCrt
             /\ r.ca = V.caCrt /\ V.caCrt # 0

Contained(V, I, R) == \A n \in DOMAIN R : Container(V, I, R[n])

StackFor(c, f, F, V, I, R, K) ==
  /\ c \in Configs /\ f \in Nat /\ VolumeOK(V) /\ IssueOK(I) /\ CountsOK(K)
  /\ RenderedOK(F) /\ Authority(V, I) /\ Paired(V, I) /\ Contained(V, I, R)

LEMMA StackForm ==
  StackInv <=> StackFor(config, fresh, files, volume, issue, running, counts)
BY Zenon DEF StackInv, TypeOK, FilesAreRendered, AuthorityStands, PairsAreIssued,
   ContainersAreIssued, StackFor, VolumeOK, IssueOK, CountsOK, RenderedOK, Authority, Paired,
   Contained, Container, Issued, IssuedBy, Signed, SignedIn

LEMMA StackFormNext ==
  StackInv' <=> StackFor(config', fresh', files', volume', issue', running', counts')
BY Zenon DEF StackInv, TypeOK, FilesAreRendered, AuthorityStands, PairsAreIssued,
   ContainersAreIssued, StackFor, VolumeOK, IssueOK, CountsOK, RenderedOK, Authority, Paired,
   Contained, Container, Issued, IssuedBy, Signed, SignedIn

(***************************************************************************)
(* The steps.                                                              *)
(***************************************************************************)
LEMMA StackInit ==
  ASSUME Init
  PROVE  StackInv
<1>1. /\ config \in Configs /\ files = NothingRendered /\ fresh = 0 /\ volume = NewVolume
      /\ issue = [at |-> "none", image |-> config, profile |-> {}, left |-> <<>>]
      /\ running = [n \in {} |-> NotUp(n)]
      /\ counts = [inits |-> 0, ups |-> 0, edits |-> 0, crashes |-> 0]
  BY DEF Init
<1>2. VolumeOK(volume) /\ volume.caCrt = 0
  BY <1>1 DEF VolumeOK, NewVolume, NoPair, Pairs
<1>3. <<>> \in Seq(AllNames)
  OBVIOUS
<1>4. IssueOK(issue) /\ issue.at = "none" /\ issue.profile = {}
  BY <1>1, <1>3 DEF IssueOK, Stages
<1>5. CountsOK(counts)
  BY <1>1 DEF CountsOK
<1>6. Authority(volume, issue)
  BY <1>2, <1>4 DEF Authority
<1>7. Paired(volume, issue)
  BY <1>4, FS_EmptySet DEF Paired
<1>8. DOMAIN running = {}
  BY <1>1
<1>9. Contained(volume, issue, running)
  BY <1>8 DEF Contained
<1>10. RenderedOK(files) /\ fresh \in Nat
  BY <1>1 DEF RenderedOK
<1> QED BY <1>1, <1>2, <1>4, <1>5, <1>6, <1>7, <1>9, <1>10, StackForm DEF StackFor

LEMMA InitStep ==
  ASSUME StackInv, NEW p \in PortOverrides, NEW client \in {"image", "host"}, NEW force,
         DockerInit(p, client, force)
  PROVE  StackInv'
<1>1. StackFor(config, fresh, files, volume, issue, running, counts)
  BY StackForm
<1>2. /\ config \in Configs /\ fresh \in Nat /\ CountsOK(counts)
  BY <1>1 DEF StackFor
<1>3. /\ Fits(config) /\ ~HasEngine(EdgeEntity(config))
      /\ files' = Rendered(config, p, client)
      /\ fresh' = fresh + 1 /\ counts' = [counts EXCEPT !.inits = @ + 1]
      /\ UNCHANGED <<config, volume, issue, running>>
  BY DEF DockerInit
<1>4. RenderedOK(files')
  BY <1>2, <1>3 DEF RenderedOK
<1>5. CountsOK(counts') /\ fresh' \in Nat
  BY <1>2, <1>3 DEF CountsOK
<1>6. StackFor(config', fresh', files', volume', issue', running', counts')
  BY <1>1, <1>3, <1>4, <1>5 DEF StackFor
<1> QED BY <1>6, StackFormNext

LEMMA EditStep ==
  ASSUME StackInv, NEW c \in Configs, EditConfig(c)
  PROVE  StackInv'
<1>1. StackFor(config, fresh, files, volume, issue, running, counts)
  BY StackForm
<1>2. config' = c /\ counts' = [counts EXCEPT !.edits = @ + 1]
      /\ UNCHANGED <<files, env, fresh, volume, issue, running>>
  BY DEF EditConfig
<1>3. CountsOK(counts')
  BY <1>1, <1>2 DEF StackFor, CountsOK
<1>4. StackFor(config', fresh', files', volume', issue', running', counts')
  BY <1>1, <1>2, <1>3 DEF StackFor
<1> QED BY <1>4, StackFormNext

\* `up`: what it starts is covered by what it will issue to, and what it keeps
\* running holds what the volume still holds.
LEMMA UpStep ==
  ASSUME StackInv, NEW built, DockerUp(built)
  PROVE  StackInv'
<1>1. StackFor(config, fresh, files, volume, issue, running, counts)
  BY StackForm
<1>2. /\ config \in Configs /\ VolumeOK(volume) /\ CountsOK(counts) /\ RenderedOK(files)
      /\ Authority(volume, issue) /\ Contained(volume, issue, running)
  BY <1>1 DEF StackFor
<1>3. /\ issue' = [at |-> "check", image |-> config, profile |-> DOMAIN files.profile,
                   left |-> <<>>]
      /\ counts' = [counts EXCEPT !.ups = @ + 1]
      /\ UNCHANGED <<config, files, env, fresh, volume>>
      /\ running' = [n \in Containers |->
           IF n \in DOMAIN running /\ issue.image = config /\ running[n].entity = EntityOf(n)
           THEN running[n] ELSE NotUp(EntityOf(n))]
  BY DEF DockerUp
<1>4. FilesAreRendered
  BY <1>2, Zenon DEF RenderedOK, FilesAreRendered
<1>5. DOMAIN files.profile \subseteq AllNames /\ IsFiniteSet(DOMAIN files.profile)
  BY <1>4, RenderedEntities
<1>6. <<>> \in Seq(AllNames)
  OBVIOUS
<1>7. /\ IssueOK(issue') /\ issue'.at = "check" /\ issue'.profile = DOMAIN files.profile
  BY <1>2, <1>3, <1>5, <1>6 DEF IssueOK, Stages
<1>8. Authority(volume, issue')
  BY <1>2, <1>7 DEF Authority
<1>9. Paired(volume, issue')
  BY <1>5, <1>7 DEF Paired
<1>10. DOMAIN running' = Containers
  BY <1>3
<1>11. ASSUME NEW n \in Containers
       PROVE  Container(volume, issue', running'[n])
  <2>1. EntityOf(n) \in IssuedBy(issue')
    BY <1>4, <1>7, EntityOfContainer DEF IssuedBy
  <2>2. CASE n \in DOMAIN running /\ issue.image = config /\ running[n].entity = EntityOf(n)
    <3>1. running'[n] = running[n]
      BY <1>3, <2>2
    <3>2. Container(volume, issue, running[n])
      BY <1>2, <2>2 DEF Contained
    <3> QED BY <2>1, <2>2, <3>1, <3>2 DEF Container
  <2>3. CASE ~(n \in DOMAIN running /\ issue.image = config /\ running[n].entity = EntityOf(n))
    <3>1. running'[n] = NotUp(EntityOf(n))
      BY <1>3, <2>3
    <3>2. NotUp(EntityOf(n)).entity = EntityOf(n) /\ NotUp(EntityOf(n)).up = FALSE
      BY DEF NotUp
    <3> QED BY <2>1, <3>1, <3>2 DEF Container
  <2> QED BY <2>2, <2>3
<1>12. Contained(volume, issue', running')
  BY <1>10, <1>11 DEF Contained
<1>13. CountsOK(counts')
  BY <1>2, <1>3 DEF CountsOK
<1>14. StackFor(config', fresh', files', volume', issue', running', counts')
  BY <1>1, <1>3, <1>7, <1>8, <1>9, <1>12, <1>13 DEF StackFor
<1> QED BY <1>14, StackFormNext

LEMMA DownStep ==
  ASSUME StackInv, NEW volumes \in BOOLEAN, DockerDown(volumes)
  PROVE  StackInv'
<1>1. StackFor(config, fresh, files, volume, issue, running, counts)
  BY StackForm
<1>2. config \in Configs /\ VolumeOK(volume) /\ Authority(volume, issue)
  BY <1>1 DEF StackFor
<1>3. /\ issue' = [at |-> "none", image |-> config, profile |-> {}, left |-> <<>>]
      /\ running' = [n \in {} |-> NotUp(n)]
      /\ volume' = IF volumes THEN NewVolume ELSE volume
      /\ UNCHANGED <<config, files, env, fresh, counts>>
  BY DEF DockerDown
<1>4. <<>> \in Seq(AllNames)
  OBVIOUS
<1>5. IssueOK(issue') /\ issue'.at = "none" /\ issue'.profile = {}
  BY <1>2, <1>3, <1>4 DEF IssueOK, Stages
<1>6. VolumeOK(NewVolume) /\ NewVolume.caCrt = 0
  BY DEF VolumeOK, NewVolume, NoPair, Pairs
<1>7. VolumeOK(volume') /\ (volume'.caCrt # 0 => volume'.caCrt = volume'.caKey)
  BY <1>2, <1>3, <1>6 DEF Authority
<1>8. Authority(volume', issue')
  BY <1>5, <1>7 DEF Authority
<1>9. Paired(volume', issue')
  BY <1>5, FS_EmptySet DEF Paired
<1>10. DOMAIN running' = {}
  BY <1>3
<1>11. Contained(volume', issue', running')
  BY <1>10 DEF Contained
<1>12. StackFor(config', fresh', files', volume', issue', running', counts')
  BY <1>1, <1>3, <1>5, <1>7, <1>8, <1>9, <1>11 DEF StackFor
<1> QED BY <1>12, StackFormNext

\* A step of mesh-init: the containers hold what they held, and an authority
\* that is there stays.
LEMMA MeshStep ==
  ASSUME StackInv, UNCHANGED <<config, files, running, counts>>, fresh' \in Nat,
         VolumeOK(volume'), IssueOK(issue'),
         issue'.image = issue.image, issue'.profile = issue.profile,
         volume.caCrt # 0 => volume'.caCrt = volume.caCrt,
         Authority(volume', issue'), Paired(volume', issue')
  PROVE  StackInv'
<1>1. StackFor(config, fresh, files, volume, issue, running, counts)
  BY StackForm
<1>2. Contained(volume, issue, running)
  BY <1>1 DEF StackFor
<1>3. IssuedBy(issue') = IssuedBy(issue)
  BY DEF IssuedBy
<1>4. \A n \in DOMAIN running : Container(volume', issue', running[n])
  BY <1>2, <1>3 DEF Contained, Container
<1>5. Contained(volume', issue', running')
  BY <1>4 DEF Contained
<1>6. StackFor(config', fresh', files', volume', issue', running', counts')
  BY <1>1, <1>5 DEF StackFor
<1> QED BY <1>6, StackFormNext

\* A certificate run begins: every entity waits.
LEMMA PairingBegins ==
  ASSUME NEW V, NEW I, I.at = "key", IsFiniteSet(I.profile), ToSet(I.left) = IssuedBy(I)
  PROVE  Paired(V, I)
BY DEF Paired

LEMMA CheckStep ==
  ASSUME StackInv, CheckAuthority
  PROVE  StackInv'
<1>1. /\ fresh \in Nat /\ VolumeOK(volume) /\ IssueOK(issue)
      /\ Authority(volume, issue) /\ Paired(volume, issue)
  BY StackForm DEF StackFor
<1>2. /\ issue.at = "check" /\ UNCHANGED <<config, files, env, fresh, volume, running, counts>>
      /\ issue' = IF volume.caCrt # 0 THEN [issue EXCEPT !.at = "key", !.left = CertNames]
                  ELSE IF volume.caKey # 0 THEN [issue EXCEPT !.at = "failed"]
                  ELSE [issue EXCEPT !.at = "ca_key"]
  BY DEF CheckAuthority
<1>3. /\ issue.image \in Configs /\ issue.profile \in SUBSET AllNames
      /\ IsFiniteSet(issue.profile)
  BY <1>1 DEF IssueOK, Paired
<1>4. PICK names : names = CertNames
  OBVIOUS
<1>5. names \in Seq(AllNames) /\ ToSet(names) = IssuedBy(issue)
  BY <1>3, <1>4, CertNamesAreIssued DEF Issued, IssuedBy
<1>6. CASE volume.caCrt # 0
  <2>1. issue' = [issue EXCEPT !.at = "key", !.left = names]
    BY <1>2, <1>4, <1>6
  <2>2. /\ IssueOK(issue') /\ issue'.at = "key" /\ issue'.left = names
        /\ issue'.image = issue.image /\ issue'.profile = issue.profile
    BY <1>1, <1>5, <2>1 DEF IssueOK, Stages
  <2>3. Authority(volume', issue')
    BY <1>1, <1>2, <1>6, <2>2 DEF Authority
  <2>4. ToSet(issue'.left) = IssuedBy(issue')
    BY <1>5, <2>2 DEF IssuedBy
  <2>5. Paired(volume', issue')
    BY <1>3, <2>2, <2>4, PairingBegins
  <2> QED BY <1>1, <1>2, <2>2, <2>3, <2>5, MeshStep
<1>7. CASE volume.caCrt = 0
  <2>1. PICK stage \in {"failed", "ca_key"} :
          /\ issue' = [issue EXCEPT !.at = stage]
          /\ stage = "ca_key" => volume.caKey = 0
    BY <1>2, <1>7
  <2>2. /\ IssueOK(issue') /\ issue'.at = stage
        /\ issue'.image = issue.image /\ issue'.profile = issue.profile
    BY <1>1, <2>1 DEF IssueOK, Stages
  <2>3. Authority(volume', issue')
    BY <1>1, <1>2, <1>7, <2>1, <2>2 DEF Authority
  <2>4. Paired(volume', issue')
    BY <1>3, <2>1, <2>2 DEF Paired
  <2> QED BY <1>1, <1>2, <2>2, <2>3, <2>4, MeshStep
<1> QED BY <1>6, <1>7

LEMMA AuthorityKeyStep ==
  ASSUME StackInv, IssueAuthorityKey
  PROVE  StackInv'
<1>1. /\ fresh \in Nat /\ VolumeOK(volume) /\ IssueOK(issue)
      /\ Authority(volume, issue) /\ Paired(volume, issue)
  BY StackForm DEF StackFor
<1>2. /\ issue.at = "ca_key" /\ UNCHANGED <<config, files, env, running, counts>>
      /\ volume' = [volume EXCEPT !.caKey = fresh + 1]
      /\ fresh' = fresh + 1
      /\ issue' = [issue EXCEPT !.at = "ca_crt"]
  BY DEF IssueAuthorityKey
<1>3. VolumeOK(volume') /\ volume'.caKey = fresh + 1 /\ volume'.caCrt = volume.caCrt
  BY <1>1, <1>2 DEF VolumeOK
<1>4. /\ IssueOK(issue') /\ issue'.at = "ca_crt"
      /\ issue'.image = issue.image /\ issue'.profile = issue.profile
  BY <1>1, <1>2 DEF IssueOK, Stages
<1>5. volume.caCrt = 0
  BY <1>1, <1>2 DEF Authority
<1>6. Authority(volume', issue')
  BY <1>1, <1>3, <1>4, <1>5 DEF Authority
<1>7. Paired(volume', issue')
  BY <1>1, <1>4 DEF Paired
<1>8. fresh' \in Nat
  BY <1>1, <1>2
<1> QED BY <1>2, <1>3, <1>4, <1>6, <1>7, <1>8, MeshStep

LEMMA AuthorityStep ==
  ASSUME StackInv, IssueAuthority
  PROVE  StackInv'
<1>1. /\ fresh \in Nat /\ VolumeOK(volume) /\ IssueOK(issue)
      /\ Authority(volume, issue) /\ Paired(volume, issue)
  BY StackForm DEF StackFor
<1>2. /\ issue.at = "ca_crt" /\ UNCHANGED <<config, files, env, fresh, running, counts>>
      /\ volume' = [volume EXCEPT !.caCrt = volume.caKey]
      /\ issue' = [issue EXCEPT !.at = "key", !.left = CertNames]
  BY DEF IssueAuthority
<1>3. VolumeOK(volume') /\ volume'.caCrt = volume.caKey /\ volume'.caKey = volume.caKey
  BY <1>1, <1>2 DEF VolumeOK
<1>4. /\ issue.image \in Configs /\ issue.profile \in SUBSET AllNames
      /\ IsFiniteSet(issue.profile)
  BY <1>1 DEF IssueOK, Paired
<1>5. PICK names : names = CertNames
  OBVIOUS
<1>6. names \in Seq(AllNames) /\ ToSet(names) = IssuedBy(issue)
  BY <1>4, <1>5, CertNamesAreIssued DEF Issued, IssuedBy
<1>7. issue' = [issue EXCEPT !.at = "key", !.left = names]
  BY <1>2, <1>5
<1>8. /\ IssueOK(issue') /\ issue'.at = "key" /\ issue'.left = names
      /\ issue'.image = issue.image /\ issue'.profile = issue.profile
  BY <1>1, <1>6, <1>7 DEF IssueOK, Stages
<1>9. volume.caCrt = 0 /\ volume.caKey # 0
  BY <1>1, <1>2 DEF Authority
<1>10. Authority(volume', issue')
  BY <1>3, <1>8, <1>9 DEF Authority
<1>11. ToSet(issue'.left) = IssuedBy(issue')
  BY <1>6, <1>8 DEF IssuedBy
<1>12. Paired(volume', issue')
  BY <1>4, <1>8, <1>11, PairingBegins
<1> QED BY <1>1, <1>2, <1>3, <1>8, <1>9, <1>10, <1>12, MeshStep

\* A pair of one entity changes: the others' stay as they are.
LEMMA PairChanged ==
  ASSUME VolumeOK(volume), NEW e \in AllNames, NEW pair \in Pairs,
         volume' = [volume EXCEPT !.pairs = [volume.pairs EXCEPT ![e] = pair]]
  PROVE  /\ VolumeOK(volume')
         /\ volume'.caKey = volume.caKey /\ volume'.caCrt = volume.caCrt
         /\ volume'.pairs[e] = pair
         /\ \A d \in AllNames : d # e => volume'.pairs[d] = volume.pairs[d]
<1>1. PICK P : P = [volume.pairs EXCEPT ![e] = pair]
  OBVIOUS
<1>2. /\ P \in [AllNames -> Pairs] /\ P[e] = pair
      /\ \A d \in AllNames : d # e => P[d] = volume.pairs[d]
  BY <1>1 DEF VolumeOK
<1>3. volume' = [volume EXCEPT !.pairs = P]
  BY <1>1
<1>4. /\ VolumeOK(volume') /\ volume'.pairs = P
      /\ volume'.caKey = volume.caKey /\ volume'.caCrt = volume.caCrt
  BY <1>2, <1>3 DEF VolumeOK
<1> QED BY <1>2, <1>4

LEMMA IssuedAreNames ==
  ASSUME NEW I, IssueOK(I)
  PROVE  IssuedBy(I) \subseteq AllNames
<1>1. I.image \in Configs /\ I.profile \in SUBSET AllNames
  BY DEF IssueOK
<1>2. Names(I.image) \subseteq AllNames
  BY <1>1 DEF AllNames
<1> QED BY <1>1, <1>2 DEF IssuedBy

LEMMA KeyStep ==
  ASSUME StackInv, IssueKey
  PROVE  StackInv'
<1>1. /\ fresh \in Nat /\ VolumeOK(volume) /\ IssueOK(issue)
      /\ Authority(volume, issue) /\ Paired(volume, issue)
  BY StackForm DEF StackFor
<1>2. /\ issue.at = "key" /\ issue.left # <<>>
      /\ UNCHANGED <<config, files, env, running, counts>>
      /\ volume' = [volume EXCEPT !.pairs[Head(issue.left)].key = fresh + 1]
      /\ fresh' = fresh + 1
      /\ issue' = [issue EXCEPT !.at = "crt"]
  BY DEF IssueKey
<1>3. issue.left \in Seq(AllNames)
  BY <1>1 DEF IssueOK
<1>4. PICK e : e = Head(issue.left)
  OBVIOUS
<1>5. e \in AllNames /\ e \in ToSet(issue.left)
  BY <1>2, <1>3, <1>4, ToSetTail
<1>6. PICK pair : pair = [volume.pairs[e] EXCEPT !.key = fresh + 1]
  OBVIOUS
<1>7. pair \in Pairs
  <2>1. volume.pairs[e] \in Pairs
    BY <1>1, <1>5 DEF VolumeOK
  <2> QED BY <1>1, <1>6, <2>1 DEF Pairs
<1>8. volume' = [volume EXCEPT !.pairs = [volume.pairs EXCEPT ![e] = pair]]
  BY <1>2, <1>4, <1>6
<1>9. /\ VolumeOK(volume')
      /\ volume'.caKey = volume.caKey /\ volume'.caCrt = volume.caCrt
      /\ \A d \in AllNames : d # e => volume'.pairs[d] = volume.pairs[d]
  BY <1>1, <1>5, <1>7, <1>8, PairChanged
<1>10. /\ IssueOK(issue') /\ issue'.at = "crt" /\ issue'.left = issue.left
       /\ issue'.image = issue.image /\ issue'.profile = issue.profile
  BY <1>1, <1>2 DEF IssueOK, Stages
<1>11. Authority(volume', issue')
  BY <1>1, <1>2, <1>9, <1>10 DEF Authority
<1>12. IssuedBy(issue') = IssuedBy(issue) /\ IssuedBy(issue) \subseteq AllNames
  BY <1>1, <1>10, IssuedAreNames DEF IssuedBy
<1>13. ASSUME NEW d \in IssuedBy(issue') \ ToSet(issue'.left)
       PROVE  SignedIn(volume', d)
  <2>1. d # e /\ d \in AllNames /\ d \in IssuedBy(issue) \ ToSet(issue.left)
    BY <1>5, <1>10, <1>12, <1>13
  <2>2. SignedIn(volume, d)
    BY <1>1, <1>2, <2>1 DEF Paired
  <2> QED BY <1>9, <2>1, <2>2 DEF SignedIn
<1>14. Paired(volume', issue')
  BY <1>1, <1>2, <1>10, <1>13 DEF Paired
<1>15. fresh' \in Nat
  BY <1>1, <1>2
<1> QED BY <1>2, <1>9, <1>10, <1>11, <1>14, <1>15, MeshStep

LEMMA CertificateStep ==
  ASSUME StackInv, IssueCertificate
  PROVE  StackInv'
<1>1. /\ fresh \in Nat /\ VolumeOK(volume) /\ IssueOK(issue)
      /\ Authority(volume, issue) /\ Paired(volume, issue)
  BY StackForm DEF StackFor
<1>2. /\ issue.at = "crt"
      /\ UNCHANGED <<config, files, env, fresh, running, counts>>
      /\ volume' = [volume EXCEPT !.pairs[Head(issue.left)].crt =
                      [key |-> volume.pairs[Head(issue.left)].key, ca |-> volume.caKey]]
      /\ issue' = [issue EXCEPT !.at = "key", !.left = Tail(@)]
  BY DEF IssueCertificate
<1>3. issue.left \in Seq(AllNames) /\ issue.left # <<>>
  BY <1>1, <1>2 DEF IssueOK, Paired
<1>4. PICK e, rest : e = Head(issue.left) /\ rest = Tail(issue.left)
  OBVIOUS
<1>5. /\ e \in AllNames /\ rest \in Seq(AllNames)
      /\ ToSet(issue.left) \subseteq ToSet(rest) \cup {e}
  BY <1>3, <1>4, ToSetTail
<1>6. PICK crt : crt = [key |-> volume.pairs[e].key, ca |-> volume.caKey]
  OBVIOUS
<1>7. PICK pair : pair = [volume.pairs[e] EXCEPT !.crt = crt]
  OBVIOUS
<1>8. volume.pairs[e] \in Pairs /\ volume.caKey \in Nat
  BY <1>1, <1>5 DEF VolumeOK
<1>9. pair \in Pairs /\ pair.key = pair.crt.key /\ pair.crt.ca = volume.caKey
  BY <1>6, <1>7, <1>8 DEF Pairs
<1>10. volume' = [volume EXCEPT !.pairs = [volume.pairs EXCEPT ![e] = pair]]
  BY <1>2, <1>4, <1>6, <1>7
<1>11. /\ VolumeOK(volume')
       /\ volume'.caKey = volume.caKey /\ volume'.caCrt = volume.caCrt
       /\ volume'.pairs[e] = pair
       /\ \A d \in AllNames : d # e => volume'.pairs[d] = volume.pairs[d]
  BY <1>1, <1>5, <1>9, <1>10, PairChanged
<1>12. issue' = [issue EXCEPT !.at = "key", !.left = rest]
  BY <1>2, <1>4
<1>13. /\ IssueOK(issue') /\ issue'.at = "key" /\ issue'.left = rest
       /\ issue'.image = issue.image /\ issue'.profile = issue.profile
  BY <1>1, <1>5, <1>12 DEF IssueOK, Stages
<1>14. Authority(volume', issue')
  BY <1>1, <1>2, <1>11, <1>13 DEF Authority
<1>15. IssuedBy(issue') = IssuedBy(issue) /\ IssuedBy(issue) \subseteq AllNames
  BY <1>1, <1>13, IssuedAreNames DEF IssuedBy
<1>16. ASSUME NEW d \in IssuedBy(issue') \ ToSet(issue'.left)
       PROVE  SignedIn(volume', d)
  <2>1. CASE d = e
    BY <1>9, <1>11, <2>1 DEF SignedIn
  <2>2. CASE d # e
    <3>1. d \in AllNames /\ d \in IssuedBy(issue) \ ToSet(issue.left)
      BY <1>5, <1>13, <1>15, <1>16, <2>2
    <3>2. SignedIn(volume, d)
      BY <1>1, <1>2, <3>1 DEF Paired
    <3> QED BY <1>11, <2>2, <3>1, <3>2 DEF SignedIn
  <2> QED BY <2>1, <2>2
<1>17. Paired(volume', issue')
  BY <1>1, <1>13, <1>16 DEF Paired
<1>18. fresh' \in Nat
  BY <1>1, <1>2
<1> QED BY <1>2, <1>11, <1>13, <1>14, <1>17, <1>18, MeshStep

LEMMA BrowserStep ==
  ASSUME StackInv, IssueBrowser
  PROVE  StackInv'
<1>1. /\ fresh \in Nat /\ VolumeOK(volume) /\ IssueOK(issue)
      /\ Authority(volume, issue) /\ Paired(volume, issue)
  BY StackForm DEF StackFor
<1>2. /\ issue.at = "key" /\ issue.left = <<>>
      /\ UNCHANGED <<config, files, env, fresh, running, counts>>
      /\ volume' = [volume EXCEPT !.browser = IF @ = 0 THEN volume.caKey ELSE @]
      /\ issue' = [issue EXCEPT !.at = "done"]
  BY DEF IssueBrowser
<1>3. /\ VolumeOK(volume') /\ volume'.caKey = volume.caKey
      /\ volume'.caCrt = volume.caCrt /\ volume'.pairs = volume.pairs
  BY <1>1, <1>2 DEF VolumeOK
<1>4. /\ IssueOK(issue') /\ issue'.at = "done"
      /\ issue'.image = issue.image /\ issue'.profile = issue.profile
  BY <1>1, <1>2 DEF IssueOK, Stages
<1>5. Authority(volume', issue')
  BY <1>1, <1>2, <1>3, <1>4 DEF Authority
<1>6. ToSet(issue.left) = {}
  BY <1>2 DEF ToSet
<1>7. \A e \in IssuedBy(issue) : SignedIn(volume, e)
  BY <1>1, <1>2, <1>6 DEF Paired
<1>8. \A e \in IssuedBy(issue') : SignedIn(volume', e)
  BY <1>3, <1>4, <1>7 DEF IssuedBy, SignedIn
<1>9. Paired(volume', issue')
  BY <1>1, <1>4, <1>8 DEF Paired
<1>10. fresh' \in Nat
  BY <1>1, <1>2
<1> QED BY <1>2, <1>3, <1>4, <1>5, <1>9, <1>10, MeshStep

LEMMA KillStep ==
  ASSUME StackInv, KillMeshInit
  PROVE  StackInv'
<1>1. /\ fresh \in Nat /\ VolumeOK(volume) /\ IssueOK(issue)
      /\ Authority(volume, issue) /\ Paired(volume, issue)
  BY StackForm DEF StackFor
<1>2. /\ UNCHANGED <<config, files, env, fresh, volume, running, counts>>
      /\ issue' = [issue EXCEPT !.at = "failed"]
  BY DEF KillMeshInit
<1>3. /\ IssueOK(issue') /\ issue'.at = "failed"
      /\ issue'.image = issue.image /\ issue'.profile = issue.profile
  BY <1>1, <1>2 DEF IssueOK, Stages
<1>4. Authority(volume', issue')
  BY <1>1, <1>2, <1>3 DEF Authority
<1>5. Paired(volume', issue')
  BY <1>1, <1>3 DEF Paired
<1> QED BY <1>1, <1>2, <1>3, <1>4, <1>5, MeshStep

\* A container's state changes, and it is still of the volume.
LEMMA ContainerStep ==
  ASSUME StackInv, UNCHANGED <<config, fresh, files, volume, issue>>, CountsOK(counts'),
         NEW n \in DOMAIN running, NEW r, Container(volume, issue, r),
         running' = [running EXCEPT ![n] = r]
  PROVE  StackInv'
<1>1. StackFor(config, fresh, files, volume, issue, running, counts)
  BY StackForm
<1>2. \A m \in DOMAIN running : Container(volume, issue, running[m])
  BY <1>1 DEF StackFor, Contained
<1>3. /\ DOMAIN running' = DOMAIN running
      /\ \A m \in DOMAIN running : running'[m] = IF m = n THEN r ELSE running[m]
  OBVIOUS
<1>4. \A m \in DOMAIN running' : Container(volume, issue, running'[m])
  BY <1>2, <1>3
<1>5. Contained(volume, issue, running')
  BY <1>4 DEF Contained
<1>6. StackFor(config', fresh', files', volume', issue', running', counts')
  BY <1>1, <1>5 DEF StackFor
<1> QED BY <1>6, StackFormNext

\* The entity reads its pair once every pair was issued: the one place where
\* it matters that no container is restarted while mesh-init runs.
LEMMA StartStep ==
  ASSUME RestartRaces = FALSE, StackInv, NEW n \in DOMAIN running, StartEntity(n)
  PROVE  StackInv'
<1>1. /\ VolumeOK(volume) /\ IssueOK(issue) /\ CountsOK(counts)
      /\ Authority(volume, issue) /\ Paired(volume, issue) /\ Contained(volume, issue, running)
  BY StackForm DEF StackFor
<1>2. PICK e, pair : e = running[n].entity /\ pair = volume.pairs[e]
  OBVIOUS
<1>3. PICK r : r = [entity |-> e, key |-> pair.key, crt |-> pair.crt,
                    ca |-> volume.caCrt, up |-> TRUE, started |-> TRUE]
  OBVIOUS
<1>4. /\ issue.at = "done" /\ running' = [running EXCEPT ![n] = r]
      /\ UNCHANGED <<config, files, env, fresh, volume, issue, counts>>
  BY <1>2, <1>3 DEF StartEntity
<1>5. e \in IssuedBy(issue)
  BY <1>1, <1>2 DEF Contained, Container
<1>6. SignedIn(volume, e)
  BY <1>1, <1>4, <1>5 DEF Paired
<1>7. volume.caCrt # 0 /\ volume.caCrt = volume.caKey
  BY <1>1, <1>4 DEF Authority
<1>8. Container(volume, issue, r)
  BY <1>2, <1>3, <1>5, <1>6, <1>7 DEF Container, SignedIn
<1>9. CountsOK(counts')
  BY <1>1, <1>4
<1> QED BY <1>4, <1>8, <1>9, ContainerStep

LEMMA CrashStep ==
  ASSUME StackInv, NEW n \in DOMAIN running, CrashEntity(n)
  PROVE  StackInv'
<1>1. CountsOK(counts) /\ Contained(volume, issue, running)
  BY StackForm DEF StackFor
<1>2. /\ counts' = [counts EXCEPT !.crashes = @ + 1]
      /\ running' = [running EXCEPT ![n].up = FALSE]
      /\ running[n].up
      /\ UNCHANGED <<config, files, env, fresh, volume, issue>>
  BY DEF CrashEntity
<1>3. PICK r : r = [running[n] EXCEPT !.up = FALSE]
  OBVIOUS
<1>4. running' = [running EXCEPT ![n] = r]
  BY <1>2, <1>3
<1>5. Container(volume, issue, running[n])
  BY <1>1 DEF Contained
<1>6. r.entity = running[n].entity /\ (r.up => Container(volume, issue, r))
  BY <1>3, <1>5
<1>7. Container(volume, issue, r)
  BY <1>5, <1>6 DEF Container
<1>8. CountsOK(counts')
  BY <1>1, <1>2 DEF CountsOK
<1> QED BY <1>2, <1>4, <1>7, <1>8, ContainerStep

\* StackInv is inductive where no entity is restarted while mesh-init runs.
LEMMA StackNext ==
  ASSUME RestartRaces = FALSE, StackInv, [Next]_vars
  PROVE  StackInv'
<1>1. CASE \E p \in PortOverrides, client \in {"image", "host"}, force \in BOOLEAN :
             DockerInit(p, client, force)
  BY <1>1, InitStep
<1>2. CASE \E built \in BOOLEAN : DockerUp(built)
  BY <1>2, UpStep
<1>3. CASE \E volumes \in BOOLEAN : DockerDown(volumes)
  BY <1>3, DownStep
<1>4. CASE MeshInit
  BY <1>4, CheckStep, AuthorityKeyStep, AuthorityStep, KeyStep, CertificateStep, BrowserStep
     DEF MeshInit
<1>5. CASE KillMeshInit
  BY <1>5, KillStep
<1>6. CASE \E n \in DOMAIN running : StartEntity(n) \/ CrashEntity(n)
  BY <1>6, StartStep, CrashStep
<1>7. CASE \E c \in Configs : EditConfig(c)
  BY <1>7, EditStep
<1>8. CASE UNCHANGED vars
  <2>1. UNCHANGED <<config, fresh, files, volume, issue, running, counts>>
    BY <1>8 DEF vars
  <2>2. StackFor(config', fresh', files', volume', issue', running', counts')
    BY <2>1, StackForm
  <2> QED BY <2>2, StackFormNext
<1> QED BY <1>1, <1>2, <1>3, <1>4, <1>5, <1>6, <1>7, <1>8 DEF Next

THEOREM StackInvariant ==
  ASSUME RestartRaces = FALSE
  PROVE  Spec => []StackInv
<1>1. Init => StackInv
  BY StackInit
<1>2. StackInv /\ [Next]_vars => StackInv'
  BY StackNext
<1> QED BY <1>1, <1>2, PTL DEF Spec

\* Entities that are up trust one another (the entrypoint's mesh-init, mesh.py
\* `cert`, docker.py `down_command`), after any number of ups, downs, kills and
\* edits, where no entity is restarted while mesh-init runs. Without that
\* hypothesis it is false: a restart may read a key whose certificate is not there yet.
THEOREM TrustHolds ==
  ASSUME RestartRaces = FALSE
  PROVE  Spec => []EntitiesTrustOneAnother
<1>1. StackInv => EntitiesTrustOneAnother
  BY DEF StackInv, ContainersAreIssued, EntitiesTrustOneAnother, UpEntities
<1> QED BY <1>1, StackInvariant, PTL

(***************************************************************************)
(* The addresses: every container has its own place in the order of        *)
(* declaration.                                                            *)
(***************************************************************************)
LEMMA KeysOf ==
  ASSUME NEW c \in Configs
  PROVE  /\ Processes(c) \subseteq (DOMAIN c.services) \X Nat
         /\ Addressed(c) \subseteq Nat \X Nat /\ IsFiniteSet(Addressed(c))
         /\ Processes(c) \subseteq Addressed(c) /\ FrontKey(c) \notin Processes(c)
         /\ \A i \in DOMAIN c.services : \A r \in 1..c.services[i].replicas :
              <<i, r>> \in Processes(c)
         /\ \A k \in Processes(c) : k[2] \in 1..c.services[k[1]].replicas
<1>1. /\ DOMAIN c.services = 1..Len(c.services) /\ Len(c.services) \in Nat
      /\ \A i \in DOMAIN c.services : c.services[i].replicas \in Nat \ {0}
  BY NamesOf, ConfigAssumption
<1>2. PICK N : N = Len(c.services)
  OBVIOUS
<1>3. PICK reps : reps = [i \in 1..N |-> c.services[i].replicas]
  OBVIOUS
<1>4. reps \in [1..N -> Nat \ {0}] /\ N \in Nat /\ DOMAIN c.services = 1..N
  BY <1>1, <1>2, <1>3
<1>5. PICK f : f = [i \in 1..N |-> {i} \X (1..reps[i])]
  OBVIOUS
<1>6. PICK parts : parts = {f[i] : i \in 1..N}
  OBVIOUS
<1>7. Processes(c) = UNION parts
  <2>1. parts = {{i} \X (1..c.services[i].replicas) : i \in DOMAIN c.services}
    BY <1>3, <1>4, <1>5, <1>6
  <2> QED BY <2>1 DEF Processes
<1>8. IsFiniteSet(parts)
  <2>1. f \in [1..N -> parts]
    BY <1>5, <1>6
  <2>2. \A t \in parts : \E i \in 1..N : f[i] = t
    BY <1>6
  <2>3. f \in Surjection(1..N, parts)
    BY <2>1, <2>2 DEF Surjection
  <2>4. IsFiniteSet(1..N)
    BY <1>4, FS_Interval
  <2> QED BY <2>3, <2>4, FS_Surjection
<1>9. ASSUME NEW t \in parts PROVE IsFiniteSet(t)
  <2>1. PICK i \in 1..N : t = {i} \X (1..reps[i])
    BY <1>5, <1>6, <1>9
  <2>2. PICK r : r = reps[i] /\ r \in Int
    BY <1>4
  <2>3. IsFiniteSet({i})
    BY FS_Singleton
  <2>4. IsFiniteSet(1..r)
    BY <2>2, FS_Interval
  <2>5. IsFiniteSet({i} \X (1..r))
    BY <2>3, <2>4, FS_Product
  <2> QED BY <2>1, <2>2, <2>5
<1>10. IsFiniteSet(Processes(c))
  BY <1>7, <1>8, <1>9, FS_UNION
<1>11. IsFiniteSet(Addressed(c))
  BY <1>10, FS_EmptySet, FS_Singleton, FS_Union DEF Addressed
<1>12. ASSUME NEW k \in Processes(c)
       PROVE  k \in (1..N) \X Nat /\ k[2] \in 1..c.services[k[1]].replicas
  <2>1. PICK i \in 1..N : k \in {i} \X (1..reps[i])
    BY <1>5, <1>6, <1>7, <1>12
  <2>2. k[1] = i /\ k[2] \in 1..reps[i] /\ k = <<k[1], k[2]>>
    BY <2>1
  <2> QED BY <1>3, <1>4, <2>2
<1>13. ASSUME NEW i \in 1..N, NEW r \in 1..c.services[i].replicas
       PROVE  <<i, r>> \in Processes(c)
  <2>1. <<i, r>> \in f[i] /\ f[i] \in parts
    BY <1>3, <1>5, <1>6, <1>13
  <2> QED BY <1>7, <2>1
<1>14. FrontKey(c) = <<N + 1, 1>>
  BY <1>2 DEF FrontKey
<1>15. FrontKey(c) \in Nat \X Nat /\ FrontKey(c)[1] = N + 1
  BY <1>4, <1>14
<1>16. FrontKey(c) \notin Processes(c)
  <2>1. SUFFICES ASSUME FrontKey(c) \in Processes(c) PROVE FALSE
    OBVIOUS
  <2>2. FrontKey(c)[1] \in 1..N
    BY <1>12, <2>1
  <2> QED BY <1>4, <1>15, <2>2
<1>17. Processes(c) \subseteq (1..N) \X Nat
  BY <1>12
<1>18. (1..N) \X Nat \subseteq Nat \X Nat
  BY <1>4
<1>19. Addressed(c) \subseteq Nat \X Nat
  BY <1>15, <1>17, <1>18 DEF Addressed
<1>20. Processes(c) \subseteq Addressed(c)
  BY DEF Addressed
<1> QED BY <1>4, <1>11, <1>12, <1>13, <1>16, <1>17, <1>19, <1>20

\* A container's place is below the number of containers, and no two share one.
LEMMA PlacesDiffer ==
  ASSUME NEW c \in Configs, NEW k \in Addressed(c)
  PROVE  /\ Place(c, k) \in Nat /\ Place(c, k) < Cardinality(Addressed(c))
         /\ \A l \in Addressed(c) : Place(c, k) = Place(c, l) => k = l
<1>1. PICK A : A = Addressed(c)
  OBVIOUS
<1>2. A \subseteq Nat \X Nat /\ IsFiniteSet(A)
  BY <1>1, KeysOf
<1>3. \A j \in A : j[1] \in Nat /\ j[2] \in Nat /\ j = <<j[1], j[2]>>
  BY <1>2
<1>4. /\ \A j \in A : ~Before(j, j)
      /\ \A j, l, m \in A : Before(j, l) /\ Before(l, m) => Before(j, m)
      /\ \A j, l \in A : Before(j, l) \/ Before(l, j) \/ j = l
  <2>1. /\ \A j \in A : ~Before(j, j)
        /\ \A j, l, m \in A : Before(j, l) /\ Before(l, m) => Before(j, m)
    BY <1>3 DEF Before
  <2>2. ASSUME NEW j \in A, NEW l \in A, ~Before(j, l), ~Before(l, j) PROVE j = l
    <3>1. j[1] = l[1] /\ j[2] = l[2]
      BY <1>3, <2>2 DEF Before
    <3>2. j = <<j[1], j[2]>> /\ l = <<l[1], l[2]>>
      BY <1>3
    <3> QED BY <3>1, <3>2
  <2> QED BY <2>1, <2>2
<1>5. ASSUME NEW j \in A, NEW l \in A, Before(j, l)
      PROVE  Cardinality({m \in A : Before(m, j)}) < Cardinality({m \in A : Before(m, l)})
  <2>1. PICK S, T : S = {m \in A : Before(m, j)} /\ T = {m \in A : Before(m, l)}
    OBVIOUS
  <2>2. T \in SUBSET A /\ S \in SUBSET T /\ j \in T /\ j \notin S
    BY <1>4, <1>5, <2>1
  <2>3. IsFiniteSet(T) /\ IsFiniteSet(S)
    BY <1>2, <2>2, FS_Subset
  <2>4. /\ Cardinality(S) <= Cardinality(T) /\ Cardinality(T) # Cardinality(S)
        /\ Cardinality(S) \in Nat /\ Cardinality(T) \in Nat
    BY <2>2, <2>3, FS_Subset, FS_CardinalityType
  <2> QED BY <2>1, <2>4
<1>6. \A j \in A : Place(c, j) = Cardinality({m \in A : Before(m, j)})
  BY <1>1 DEF Place
<1>7. ASSUME NEW j \in A
      PROVE  Place(c, j) \in Nat /\ Place(c, j) < Cardinality(A)
  <2>1. PICK S : S = {m \in A : Before(m, j)}
    OBVIOUS
  <2>2. S \in SUBSET A /\ j \notin S /\ IsFiniteSet(S)
    BY <1>2, <1>4, <2>1, FS_Subset
  <2>3. /\ Cardinality(S) <= Cardinality(A) /\ Cardinality(A) # Cardinality(S)
        /\ Cardinality(S) \in Nat /\ Cardinality(A) \in Nat
    BY <1>2, <2>2, FS_Subset, FS_CardinalityType
  <2> QED BY <1>6, <2>1, <2>3
<1>8. ASSUME NEW l \in A, Place(c, k) = Place(c, l) PROVE k = l
  <2>1. k \in A
    BY <1>1
  <2>2. PICK x : x = Place(c, k) /\ x = Place(c, l) /\ x \in Nat
    BY <1>7, <1>8, <2>1
  <2>3. \A i, j \in A : Before(i, j) => Place(c, i) < Place(c, j)
    BY <1>5, <1>6
  <2>4. ~(x < x)
    BY <2>2
  <2>5. ~Before(k, l) /\ ~Before(l, k)
    BY <2>1, <2>2, <2>3, <2>4
  <2> QED BY <1>4, <2>1, <2>5
<1> QED BY <1>1, <1>7, <1>8

\* Where names are apart, a container's name is given the address of its place,
\* and an entity's name that of its first process.
LEMMA AddressesArePlaces ==
  ASSUME NEW c \in Configs, NamesApart(c)
  PROVE  /\ \A k \in Addressed(c) :
              MeshAddresses(c)[ContainerName(c, k)] = FirstHost + Place(c, k)
         /\ \A i \in DOMAIN c.services :
              /\ <<i, 1>> \in Processes(c)
              /\ MeshAddresses(c)[c.services[i].name] = FirstHost + Place(c, <<i, 1>>)
<1>1. PICK A : A = Addressed(c)
  OBVIOUS
<1>2. /\ \A k, l \in A : ContainerName(c, k) = ContainerName(c, l) => k = l
      /\ \A k \in A : ContainerName(c, k) \in Names(c) =>
           k \in Processes(c) /\ c.services[k[1]].replicas = 1
  BY <1>1 DEF NamesApart
<1>3. A \subseteq Nat \X Nat
  BY <1>1, KeysOf
<1>4. ASSUME NEW k \in A
      PROVE  AddressOf(c, ContainerName(c, k)) = FirstHost + Place(c, k)
  <2>1. PICK n : n = ContainerName(c, k)
    OBVIOUS
  <2>2. k[1] \in Nat /\ k[2] \in Nat
    BY <1>3
  <2>3. ~Before(k, k)
    BY <2>2 DEF Before
  <2>4. \A l \in A : Before(k, l) => ContainerName(c, l) # n
    BY <1>2, <2>1, <2>3
  <2>5. PICK m : m = CHOOSE j \in A :
          ContainerName(c, j) = n /\ \A l \in A : Before(j, l) => ContainerName(c, l) # n
    OBVIOUS
  <2>6. m \in A /\ ContainerName(c, m) = n
    BY <2>1, <2>4, <2>5
  <2>7. m = k
    BY <1>2, <2>1, <2>6
  <2>8. AddressOf(c, n) = FirstHost + Place(c, m)
    BY <1>1, <2>5 DEF AddressOf
  <2> QED BY <2>1, <2>7, <2>8
<1>5. /\ \A k \in Processes(c) : k[2] \in 1..c.services[k[1]].replicas
      /\ Processes(c) \subseteq (DOMAIN c.services) \X Nat
      /\ Processes(c) \subseteq A /\ FrontKey(c) \notin Processes(c)
      /\ \A i \in DOMAIN c.services : c.services[i].replicas \in Nat \ {0}
  BY <1>1, KeysOf, ConfigAssumption
<1>6. ASSUME NEW i \in DOMAIN c.services
      PROVE  /\ <<i, 1>> \in Processes(c) /\ <<i, 1>> \in A
             /\ Entity(c, c.services[i].name) = c.services[i]
             /\ ReplicaNames(c.services[i])[1] = ContainerName(c, <<i, 1>>)
  <2>1. 1 \in 1..c.services[i].replicas
    BY <1>5
  <2>2. <<i, 1>> \in Processes(c)
    BY <2>1, KeysOf
  <2>3. PICK n : n = c.services[i].name
    OBVIOUS
  <2>4. PICK j : j = CHOOSE m \in DOMAIN c.services : c.services[m].name = n
    OBVIOUS
  <2>5. j \in DOMAIN c.services /\ c.services[j].name = n
    BY <2>3, <2>4
  <2>6. j = i
    BY <2>3, <2>5, ConfigAssumption
  <2>7. Entity(c, n) = c.services[j]
    BY <2>4 DEF Entity
  <2>8. <<i, 1>> # FrontKey(c)
    BY <1>5, <2>2
  <2>9. ContainerName(c, <<i, 1>>) = ReplicaNames(c.services[i])[1]
    BY <2>8 DEF ContainerName
  <2> QED BY <1>5, <2>2, <2>3, <2>6, <2>7, <2>9
<1>7. ASSUME NEW i \in DOMAIN c.services
      PROVE  MeshAddresses(c)[c.services[i].name] = FirstHost + Place(c, <<i, 1>>)
  <2>1. PICK n : n = c.services[i].name
    OBVIOUS
  <2>2. n \in Names(c) /\ n \in Addressees(c)
    BY <2>1 DEF Names, Addressees
  <2>3. MeshAddresses(c)[n] = AddressOf(c, ReplicaNames(Entity(c, n))[1])
    BY <2>2 DEF MeshAddresses
  <2>4. ReplicaNames(Entity(c, n))[1] = ContainerName(c, <<i, 1>>)
    BY <1>6, <2>1
  <2> QED BY <1>4, <1>6, <2>1, <2>3, <2>4
<1>8. ASSUME NEW k \in A
      PROVE  MeshAddresses(c)[ContainerName(c, k)] = FirstHost + Place(c, k)
  <2>1. PICK n : n = ContainerName(c, k)
    OBVIOUS
  <2>2. n \in Addressees(c)
    BY <1>1, <2>1 DEF Addressees
  <2>3. CASE n \notin Names(c)
    <3>1. MeshAddresses(c)[n] = AddressOf(c, n)
      BY <2>2, <2>3 DEF MeshAddresses
    <3> QED BY <1>4, <2>1, <3>1
  <2>4. CASE n \in Names(c)
    <3>1. k \in Processes(c) /\ c.services[k[1]].replicas = 1
      BY <1>2, <2>1, <2>4
    <3>2. PICK i : i = k[1]
      OBVIOUS
    <3>3. i \in DOMAIN c.services /\ k[2] = 1 /\ k = <<k[1], k[2]>>
      BY <1>5, <3>1, <3>2
    <3>4. k = <<i, 1>>
      BY <3>2, <3>3
    <3>5. n = ReplicaNames(c.services[i])[1]
      BY <1>6, <2>1, <3>3, <3>4
    <3>6. ReplicaNames(c.services[i]) = <<c.services[i].name>>
      BY <3>1, <3>2 DEF ReplicaNames
    <3>7. n = c.services[i].name
      BY <3>5, <3>6
    <3> QED BY <1>7, <2>1, <3>3, <3>4, <3>7
  <2> QED BY <2>3, <2>4
<1> QED BY <1>1, <1>6, <1>7, <1>8

(***************************************************************************)
(* The rows of the compose file that hold an address, each with its key.   *)
(***************************************************************************)
RowOf(c, address, port, client, k, s) ==
  \/ /\ k \in Processes(c) /\ ~HasEngine(c.services[k[1]])
     /\ s = EntityService(c, c.services[k[1]], ContainerName(c, k), address, port, client)
  \/ /\ NeedsFront(c) /\ k = FrontKey(c) /\ s = FrontService(c, address, port)
  \/ \E i \in DOMAIN c.services :
       k = <<i, 1>> /\ HasEngine(c.services[i]) /\ s = EngineContainer(c.services[i], address)

\* One key has one row.
LEMMA OneRow ==
  ASSUME NEW c \in Configs, NEW address, NEW port, NEW client, NEW k, NEW s, NEW t,
         RowOf(c, address, port, client, k, s), RowOf(c, address, port, client, k, t)
  PROVE  s = t
<1>1. \A i \in DOMAIN c.services : <<i, 1>> \in Processes(c) /\ <<i, 1>>[1] = i
  <2>1. \A i \in DOMAIN c.services : c.services[i].replicas \in Nat \ {0}
    BY ConfigAssumption
  <2>2. \A i \in DOMAIN c.services : 1 \in 1..c.services[i].replicas
    BY <2>1
  <2> QED BY <2>2, KeysOf
<1>2. FrontKey(c) \notin Processes(c)
  BY KeysOf
<1>3. CASE k \in Processes(c) /\ ~HasEngine(c.services[k[1]])
  <2>1. k # FrontKey(c) /\ \A i \in DOMAIN c.services : k = <<i, 1>> => ~HasEngine(c.services[i])
    BY <1>1, <1>2, <1>3
  <2> QED BY <2>1, Zenon DEF RowOf
<1>4. CASE k = FrontKey(c)
  <2>1. k \notin Processes(c) /\ \A i \in DOMAIN c.services : k # <<i, 1>>
    BY <1>1, <1>2, <1>4
  <2> QED BY <2>1, Zenon DEF RowOf
<1>5. CASE \E i \in DOMAIN c.services : k = <<i, 1>> /\ HasEngine(c.services[i])
  <2>1. PICK i \in DOMAIN c.services : k = <<i, 1>> /\ HasEngine(c.services[i])
    BY <1>5
  <2>2. k[1] = i /\ k # FrontKey(c)
    BY <1>1, <1>2, <2>1
  <2>3. \A j \in DOMAIN c.services : k = <<j, 1>> => j = i
    BY <1>1, <2>2
  <2>4. /\ s = EngineContainer(c.services[i], address)
        /\ t = EngineContainer(c.services[i], address)
    BY <2>1, <2>2, <2>3 DEF RowOf
  <2> QED BY <2>4
<1> QED BY <1>3, <1>4, <1>5 DEF RowOf

\* A row that holds an address has a key, and the address is that of its place.
LEMMA HoldersHaveKeys ==
  ASSUME NEW c \in Configs, NamesApart(c), NEW port, NEW client, NEW address,
         address = MeshAddresses(c), NEW s \in Compose(c, address, port, client), s.at # 0
  PROVE  \E k \in Addressed(c) :
           RowOf(c, address, port, client, k, s) /\ s.at = FirstHost + Place(c, k)
<1>1. /\ \A k \in Addressed(c) : address[ContainerName(c, k)] = FirstHost + Place(c, k)
      /\ \A i \in DOMAIN c.services :
           <<i, 1>> \in Processes(c) /\ address[c.services[i].name] = FirstHost + Place(c, <<i, 1>>)
  BY AddressesArePlaces
<1>2. Processes(c) \subseteq Addressed(c)
  BY KeysOf
<1>3. CASE \E k \in Processes(c) :
             s = EntityService(c, c.services[k[1]], ContainerName(c, k), address, port, client)
  <2>1. PICK k \in Processes(c) :
             s = EntityService(c, c.services[k[1]], ContainerName(c, k), address, port, client)
    BY <1>3
  <2>2. s.at = IF HasEngine(c.services[k[1]]) THEN 0 ELSE address[ContainerName(c, k)]
    BY <2>1 DEF EntityService
  <2>3. ~HasEngine(c.services[k[1]]) /\ s.at = address[ContainerName(c, k)]
    BY <2>2
  <2>4. RowOf(c, address, port, client, k, s)
    BY <2>1, <2>3, Zenon DEF RowOf
  <2> QED BY <1>1, <1>2, <2>3, <2>4
<1>4. CASE NeedsFront(c) /\ s = FrontService(c, address, port)
  <2>1. PICK k : k = FrontKey(c)
    OBVIOUS
  <2>2. k \in Addressed(c) /\ ContainerName(c, k) = FrontName
    BY <1>4, <2>1 DEF Addressed, ContainerName
  <2>3. s.at = address[FrontName]
    BY <1>4 DEF FrontService
  <2>4. RowOf(c, address, port, client, k, s)
    BY <1>4, <2>1, Zenon DEF RowOf
  <2> QED BY <1>1, <2>2, <2>3, <2>4
<1>5. CASE \E e \in {f \in ToSet(c.services) : HasEngine(f)} : s = EngineContainer(e, address)
  <2>1. PICK e \in ToSet(c.services) : HasEngine(e) /\ s = EngineContainer(e, address)
    BY <1>5
  <2>2. PICK i \in DOMAIN c.services : e = c.services[i]
    BY <2>1 DEF ToSet
  <2>3. PICK k : k = <<i, 1>>
    OBVIOUS
  <2>4. s.at = address[e.name]
    BY <2>1 DEF EngineContainer
  <2>5. k \in Addressed(c) /\ s.at = FirstHost + Place(c, k)
    BY <1>1, <1>2, <2>2, <2>3, <2>4
  <2>6. RowOf(c, address, port, client, k, s)
    BY <2>1, <2>2, <2>3, Zenon DEF RowOf
  <2> QED BY <2>5, <2>6
<1>6. MeshInitService.at = 0
  BY DEF MeshInitService
<1> QED BY <1>3, <1>4, <1>5, <1>6 DEF Compose

\* The row of a process, if the engine does not hold its address.
LEMMA ProcessHolds ==
  ASSUME NEW c \in Configs, NamesApart(c), NEW port, NEW client, NEW address,
         address = MeshAddresses(c), NEW k \in Processes(c), ~HasEngine(c.services[k[1]])
  PROVE  \E s \in Compose(c, address, port, client) :
           /\ s.entity = c.services[k[1]].name
           /\ s.at = address[ContainerName(c, k)] /\ s.at # 0
<1>1. k \in Addressed(c)
  BY KeysOf
<1>2. PICK at : at = address[ContainerName(c, k)] /\ at = FirstHost + Place(c, k)
  BY <1>1, AddressesArePlaces
<1>3. at # 0
  BY <1>1, <1>2, PlacesDiffer, RoomAssumption
<1>4. PICK s : s = EntityService(c, c.services[k[1]], ContainerName(c, k), address, port, client)
  OBVIOUS
<1>5. s.entity = c.services[k[1]].name /\ s.at = at
  BY <1>2, <1>4 DEF EntityService
<1>6. s \in Compose(c, address, port, client)
  BY <1>4 DEF Compose
<1> QED BY <1>2, <1>3, <1>5, <1>6

\* A rendered stack's addresses agree, where the names of its configuration are apart.
LEMMA RenderedAgrees ==
  ASSUME NEW c \in Configs, NEW p, NEW client, NamesApart(c), Fits(c),
         ~HasEngine(EdgeEntity(c)), files = Rendered(c, p, client)
  PROVE  AddressesAgree
<1>1. PICK address, port : address = MeshAddresses(c) /\ port = EdgePort(c, p)
  OBVIOUS
<1>2. PICK rows : rows = Compose(c, address, port, client)
  OBVIOUS
<1>3. /\ files.compose = rows
      /\ files.profile = Profile(c, address, port)
      /\ files.front = IF NeedsFront(c) THEN FrontConfig(c, address)
                       ELSE [listens |-> 0, servers |-> {}]
  BY <1>1, <1>2 DEF Rendered
<1>4. Holders = {s \in rows : s.at # 0} /\ EntityServices = {s \in rows : s.entity # ""}
  BY <1>3 DEF Holders, EntityServices
<1>5. ASSUME NEW s \in Holders
      PROVE  \E k \in Addressed(c) :
               RowOf(c, address, port, client, k, s) /\ s.at = FirstHost + Place(c, k)
  <2>1. s \in Compose(c, address, port, client) /\ s.at # 0
    BY <1>2, <1>4
  <2> QED BY <1>1, <2>1, HoldersHaveKeys
<1>6. ASSUME NEW s \in Holders, NEW t \in Holders, s.at = t.at PROVE s = t
  <2>1. PICK k \in Addressed(c) :
          RowOf(c, address, port, client, k, s) /\ s.at = FirstHost + Place(c, k)
    BY <1>5
  <2>2. PICK l \in Addressed(c) :
          RowOf(c, address, port, client, l, t) /\ t.at = FirstHost + Place(c, l)
    BY <1>5
  <2>3. PICK x, y : x = Place(c, k) /\ y = Place(c, l) /\ x \in Nat /\ y \in Nat
    BY PlacesDiffer
  <2>4. x = y
    <3>1. FirstHost + x = FirstHost + y /\ FirstHost \in Nat
      BY <1>6, <2>1, <2>2, <2>3, RoomAssumption
    <3> QED BY <2>3, <3>1
  <2>5. k = l
    BY <2>3, <2>4, PlacesDiffer
  <2>6. RowOf(c, address, port, client, k, t)
    BY <2>2, <2>5
  <2> QED BY <2>1, <2>6, OneRow
<1>7. ASSUME NEW s \in Holders PROVE s.at \in FirstHost..(FirstHost + Room - 1)
  <2>1. PICK k \in Addressed(c) : s.at = FirstHost + Place(c, k)
    BY <1>5
  <2>2. PICK x, size : x = Place(c, k) /\ size = Cardinality(Addressed(c))
    OBVIOUS
  <2>3. x \in Nat /\ x < size /\ size \in Nat
    BY <2>2, PlacesDiffer, KeysOf, FS_CardinalityType
  <2>4. size <= Room
    BY <2>2 DEF Fits
  <2> QED BY <2>1, <2>2, <2>3, <2>4, RoomAssumption
<1>8. ASSUME NEW n \in DOMAIN files.profile
      PROVE  \E s \in EntityServices, t \in Holders :
               /\ s.entity = n
               /\ t.at = files.profile[n].host
               /\ t = s \/ t.name = s.joins
  <2>1. n \in Names(c) /\ files.profile[n].host = address[n]
    BY <1>3, <1>8 DEF Profile
  <2>2. PICK i \in DOMAIN c.services : n = c.services[i].name
    BY <2>1 DEF Names
  <2>3. PICK e, k : e = c.services[i] /\ k = <<i, 1>>
    OBVIOUS
  <2>4. k \in Processes(c) /\ k[1] = i /\ k \in Addressed(c)
    BY <1>1, <2>3, AddressesArePlaces, KeysOf
  <2>5. address[n] = FirstHost + Place(c, k) /\ address[ContainerName(c, k)] = address[n]
    BY <1>1, <2>2, <2>3, <2>4, AddressesArePlaces
  <2>6. address[n] # 0
    BY <2>4, <2>5, PlacesDiffer, RoomAssumption
  <2>7. n # ""
    BY <2>2, ConfigAssumption
  <2>8. CASE ~HasEngine(e)
    <3>1. PICK s \in Compose(c, address, port, client) :
            s.entity = c.services[k[1]].name /\ s.at = address[ContainerName(c, k)] /\ s.at # 0
      BY <1>1, <2>3, <2>4, <2>8, ProcessHolds
    <3>2. s \in EntityServices /\ s \in Holders /\ s.entity = n
      BY <1>2, <1>4, <2>2, <2>4, <2>7, <3>1
    <3> QED BY <2>1, <2>5, <3>1, <3>2
  <2>9. CASE HasEngine(e)
    <3>1. PICK s : s = EntityService(c, c.services[k[1]], ContainerName(c, k), address, port, client)
      OBVIOUS
    <3>2. s \in rows
      BY <1>2, <2>4, <3>1 DEF Compose
    <3>3. s.entity = n /\ s.joins = EngineService(e)
      BY <2>2, <2>3, <2>4, <2>9, <3>1 DEF EntityService
    <3>4. PICK t : t = EngineContainer(e, address)
      OBVIOUS
    <3>5. e \in ToSet(c.services)
      BY <2>3 DEF ToSet
    <3>6. t \in rows
      BY <1>2, <2>9, <3>4, <3>5 DEF Compose
    <3>7. t.name = EngineService(e) /\ t.at = address[n]
      BY <2>2, <2>3, <3>4 DEF EngineContainer
    <3>8. s \in EntityServices /\ t \in Holders
      BY <1>4, <2>6, <2>7, <3>2, <3>3, <3>6, <3>7
    <3> QED BY <2>1, <3>3, <3>7, <3>8
  <2> QED BY <2>8, <2>9
<1>9. ASSUME NEW a \in files.front.servers PROVE \E s \in Holders : s.at = a
  <2>1. CASE ~NeedsFront(c)
    <3>1. files.front.servers = {}
      BY <1>3, <2>1
    <3> QED BY <1>9, <3>1
  <2>2. CASE NeedsFront(c)
    <3>1. PICK j : j = CHOOSE i \in DOMAIN c.services :
                     c.services[i].edge /\ \A m \in 1..(i - 1) : ~c.services[m].edge
      OBVIOUS
    <3>2. j \in DOMAIN c.services
      BY <3>1, ConfigAssumption
    <3>3. PICK e : e = c.services[j]
      OBVIOUS
    <3>4. EdgeEntity(c) = e
      BY <3>1, <3>3 DEF EdgeEntity
    <3>5. files.front = FrontConfig(c, address)
      BY <1>3, <2>2
    <3>6. \E n \in ToSet(ReplicaNames(e)) : a = address[n]
      BY <1>9, <3>4, <3>5 DEF FrontConfig
    <3>7. PICK r \in DOMAIN ReplicaNames(e) : a = address[ReplicaNames(e)[r]]
      BY <3>6 DEF ToSet
    <3>8. e.replicas > 1 /\ e.replicas \in Nat
      BY <2>2, <3>2, <3>3, <3>4, ConfigAssumption DEF NeedsFront
    <3>9. r \in 1..e.replicas
      BY <3>7, <3>8 DEF ReplicaNames
    <3>10. PICK k : k = <<j, r>>
      OBVIOUS
    <3>11. k \in Processes(c) /\ k # FrontKey(c) /\ k[1] = j /\ k[2] = r
      BY <3>2, <3>3, <3>9, <3>10, KeysOf
    <3>12. ContainerName(c, k) = ReplicaNames(e)[r]
      BY <3>3, <3>11 DEF ContainerName
    <3>13. ~HasEngine(c.services[k[1]])
      BY <3>3, <3>4, <3>11
    <3>14. PICK s \in Compose(c, address, port, client) :
             s.at = address[ContainerName(c, k)] /\ s.at # 0
      BY <1>1, <3>11, <3>13, ProcessHolds
    <3> QED BY <1>2, <1>4, <3>7, <3>12, <3>14
  <2> QED BY <2>1, <2>2
<1> QED BY <1>6, <1>7, <1>8, <1>9 DEF AddressesAgree

\* The files are some configuration's, and so will the next ones be.
FilesInv == config \in Configs /\ FilesAreRendered

\* No two containers hold one address, every address is inside the subnet, an
\* entity's address in the profile is that of the container it answers from,
\* and the front balances over containers that are there (mesh_addresses,
\* render_compose, render_profile, render_front_config), in every state of
\* every stack: races and kills included. The hypothesis is what `synqt check`
\* leaves open, that no entity is named like another's replica or like the front.
THEOREM AddressesHold ==
  ASSUME \A c \in Configs : NamesApart(c)
  PROVE  Spec => []AddressesAgree
<1>1. Init => FilesInv
  BY DEF Init, FilesInv, FilesAreRendered
<1>2. FilesInv /\ [Next]_vars => FilesInv'
  <2> SUFFICES ASSUME config \in Configs, FilesAreRendered, [Next]_vars
               PROVE  config' \in Configs /\ FilesAreRendered'
    BY DEF FilesInv
  <2>1. CASE \E p \in PortOverrides, client \in {"image", "host"}, force \in BOOLEAN :
               DockerInit(p, client, force)
    BY <2>1 DEF DockerInit, FilesAreRendered
  <2>2. CASE \E c \in Configs : EditConfig(c)
    BY <2>2 DEF EditConfig, FilesAreRendered
  <2>3. CASE UNCHANGED <<config, files>>
    BY <2>3 DEF FilesAreRendered
  <2> QED BY <2>1, <2>2, <2>3 DEF Next, DockerUp, DockerDown, MeshInit, CheckAuthority,
             IssueAuthorityKey, IssueAuthority, IssueKey, IssueCertificate, IssueBrowser,
             KillMeshInit, StartEntity, CrashEntity, vars
<1>3. FilesInv => AddressesAgree
  <2> SUFFICES ASSUME FilesAreRendered PROVE AddressesAgree
    BY DEF FilesInv
  <2>1. CASE files = NothingRendered
    <3>1. /\ files.compose = {} /\ DOMAIN files.profile = {} /\ files.front.servers = {}
      BY <2>1 DEF NothingRendered
    <3> QED BY <3>1 DEF AddressesAgree, Holders
  <2>2. CASE \E c \in Configs, p \in PortOverrides, client \in {"image", "host"} :
               Fits(c) /\ ~HasEngine(EdgeEntity(c)) /\ files = Rendered(c, p, client)
    BY <2>2, RenderedAgrees
  <2> QED BY <2>1, <2>2, Zenon DEF FilesAreRendered
<1> QED BY <1>1, <1>2, <1>3, PTL DEF Spec

================================================================================
