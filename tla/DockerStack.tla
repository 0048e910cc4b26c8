---------------------------- MODULE DockerStack ----------------------------
(***************************************************************************)
(* `synqt docker`: the files `init` derives from synqt.yaml (the compose     *)
(* services, the mesh addresses, the docker profile, the front), the secrets *)
(* it fills into the entities' .env files, and the stack `up` brings up: the *)
(* one-shot mesh-init that issues the development authority and one          *)
(* certificate per entity into a volume, and the entities that read them     *)
(* (tools/synqt/synqt/docker.py, mesh.py).                                   *)
(*                                                                          *)
(* A key is the number of its generation, a certificate the key it is for   *)
(* and the authority that signed it; a secret is the number of the value,   *)
(* 0 when the file holds none.                                              *)
(***************************************************************************)
EXTENDS Integers, Sequences, FiniteSets, SequencesExt, TLC

CONSTANTS
  Configs,        \* what synqt.yaml may hold
  FirstHost,      \* the host number of the first container (docker.py: 11)
  Room,           \* how many containers the subnet has addresses for
  PortOverrides,  \* what `init --port` may be given, 0 for no option
  Answers,        \* what is typed at a prompt, 0 for Enter; {} for --no-input
  RestartRaces,   \* an entity may be restarted before mesh-init has completed again
  MayKill,        \* mesh-init may be killed between two of its commands
  MaxInits,       \* bound on `docker init`
  MaxUps,         \* bound on `docker up`
  MaxEdits,       \* bound on edits of synqt.yaml
  MaxCrashes      \* bound on entities that exit

ASSUME RoomAssumption == Room \in Nat /\ FirstHost \in Nat \ {0}

\* What `synqt check` holds a topology to: a list of entities, one of them the first web
\* edge, each with a name of its own and at least one process.
ASSUME ConfigAssumption ==
  \A c \in Configs :
    /\ c.services \in Seq(ToSet(c.services))
    /\ \E i \in DOMAIN c.services :
         c.services[i].edge /\ \A j \in 1..(i - 1) : ~c.services[j].edge
    /\ \A i \in DOMAIN c.services :
         /\ c.services[i].replicas \in Nat \ {0} /\ c.services[i].name # ""
         /\ \A j \in DOMAIN c.services : c.services[i].name = c.services[j].name => i = j

VARIABLES
  config,   \* synqt.yaml
  files,    \* what `docker init` wrote last
  env,      \* entity -> variable -> value, the .env files
  fresh,    \* the number of the last key or secret generated
  volume,   \* the mesh volume: the authority and one pair per entity
  issue,    \* where mesh-init is
  running,  \* container -> what the entity in it loaded
  counts    \* the commands given so far

vars == <<config, files, env, fresh, volume, issue, running, counts>>

-----------------------------------------------------------------------------
(* The entities, their containers and their addresses *)

Names(c) == {c.services[i].name : i \in DOMAIN c.services}
Entity(c, n) == c.services[CHOOSE i \in DOMAIN c.services : c.services[i].name = n]
AllNames == UNION {Names(c) : c \in Configs}

EdgeEntity(c) == c.services[CHOOSE i \in DOMAIN c.services :
                   c.services[i].edge /\ \A j \in 1..(i - 1) : ~c.services[j].edge]

HasEngine(e) == e.engine # "none"

\* What each engine's container is configured through: SynQt's variable and the engine's own.
SecretEnv(engine) == CASE engine \in {"postgres", "mysql"} -> "DB_PASSWORD"
                       [] engine = "redis" -> "REDIS_PASSWORD"
                       [] engine = "mongodb" -> "MONGODB_URI"

Aliases(engine) == CASE engine = "postgres" -> {"POSTGRES_PASSWORD"}
                     [] engine = "mysql" -> {"MARIADB_PASSWORD", "MARIADB_ROOT_PASSWORD"}
                     [] OTHER -> {}

EngineService(e) == e.name \o "-" \o e.engine

ReplicaNames(e) ==
  IF e.replicas = 1 THEN <<e.name>>
  ELSE [i \in 1..e.replicas |-> e.name \o "-" \o ToString(i)]

FrontName == "front"
MeshService == "mesh-init"

NeedsFront(c) == EdgeEntity(c).replicas > 1

\* Every process of the project, replica r of the i-th entity being <<i, r>>, and every
\* container that needs an address: the front comes after them all.
Processes(c) == UNION {{i} \X (1..c.services[i].replicas) : i \in DOMAIN c.services}
FrontKey(c) == <<Len(c.services) + 1, 1>>
Addressed(c) == Processes(c) \cup (IF NeedsFront(c) THEN {FrontKey(c)} ELSE {})

ContainerName(c, k) ==
  IF k = FrontKey(c) THEN FrontName ELSE ReplicaNames(c.services[k[1]])[k[2]]

\* The order of declaration, and a container's place in it.
Before(k, l) == k[1] < l[1] \/ (k[1] = l[1] /\ k[2] < l[2])
Place(c, k) == Cardinality({l \in Addressed(c) : Before(l, k)})

\* The address a name is given in that order: of two containers of one name, the later's.
AddressOf(c, n) ==
  FirstHost + Place(c, CHOOSE k \in Addressed(c) :
    ContainerName(c, k) = n /\ \A l \in Addressed(c) : Before(k, l) => ContainerName(c, l) # n)

Addressees(c) == {ContainerName(c, k) : k \in Addressed(c)} \cup Names(c)

\* Mutant: the front is given the first address, which the first entity has.
MeshAddresses_FrontFirst(c) ==
  [n \in Addressees(c) |->
     IF n = FrontName THEN FirstHost
     ELSE AddressOf(c, IF n \in Names(c) THEN ReplicaNames(Entity(c, n))[1] ELSE n)]

\* A replicated entity's own name has the address of the first of its replicas.
MeshAddresses(c) ==
  [n \in Addressees(c) |->
     AddressOf(c, IF n \in Names(c) THEN ReplicaNames(Entity(c, n))[1] ELSE n)]

-----------------------------------------------------------------------------
(* What `docker init` renders *)

\* The service of one replica: an entity with an engine joins the engine's namespace.
EntityService(c, e, name, address, port, client) ==
  [name      |-> name, entity |-> e.name,
   at        |-> IF HasEngine(e) THEN 0 ELSE address[name],
   joins     |-> IF HasEngine(e) THEN EngineService(e) ELSE "",
   mounts    |-> {"mesh"} \cup (IF e.file /\ ~HasEngine(e) THEN {e.name \o "-data"} ELSE {})
                   \cup (IF e.edge /\ client = "host" THEN {"build/client"} ELSE {}),
   publishes |-> IF e.name = EdgeEntity(c).name /\ ~NeedsFront(c) THEN port ELSE 0,
   after     |-> {MeshService} \cup (IF HasEngine(e) THEN {EngineService(e)} ELSE {})]

EngineContainer(e, address) ==
  [name |-> EngineService(e), entity |-> "", at |-> address[e.name], joins |-> "",
   mounts |-> {EngineService(e) \o "-data"}, publishes |-> 0, after |-> {}]

FrontService(c, address, port) ==
  [name |-> FrontName, entity |-> "", at |-> address[FrontName], joins |-> "",
   mounts |-> {}, publishes |-> port, after |-> ToSet(ReplicaNames(EdgeEntity(c)))]

MeshInitService == [name |-> MeshService, entity |-> "", at |-> 0, joins |-> "",
                    mounts |-> {"mesh"}, publishes |-> 0, after |-> {}]

\* docker-compose.yml: the services written into it.
Compose(c, address, port, client) ==
  {MeshInitService}
    \cup {EntityService(c, c.services[k[1]], ContainerName(c, k), address, port, client) :
            k \in Processes(c)}
    \cup (IF NeedsFront(c) THEN {FrontService(c, address, port)} ELSE {})
    \cup {EngineContainer(e, address) : e \in {f \in ToSet(c.services) : HasEngine(f)}}

\* synqt.docker.yaml: where each entity is on the mesh, and the edge's own origin.
Profile(c, address, port) ==
  [n \in Names(c) |-> [host     |-> address[n],
                       origin   |-> IF n = EdgeEntity(c).name THEN port ELSE 0,
                       loopback |-> HasEngine(Entity(c, n))]]

\* docker/front.conf: the replicas behind the front, and the port it listens on.
FrontConfig(c, address) ==
  [listens |-> c.port, servers |-> {address[n] : n \in ToSet(ReplicaNames(EdgeEntity(c)))}]

EdgePort(c, override) == IF override # 0 THEN override ELSE c.port

Rendered(c, override, client) ==
  LET address == MeshAddresses(c)
      port    == EdgePort(c, override)
  IN [there   |-> TRUE, client |-> client,
      compose |-> Compose(c, address, port, client),
      profile |-> Profile(c, address, port),
      front   |-> IF NeedsFront(c) THEN FrontConfig(c, address)
                  ELSE [listens |-> 0, servers |-> {}],
      binds   |-> c.port]

NothingRendered == [there |-> FALSE, client |-> "image",
                    compose |-> {}, profile |-> [n \in {} |-> 0],
                    front |-> [listens |-> 0, servers |-> {}], binds |-> 0]

-----------------------------------------------------------------------------
(* The secrets *)

\* Every env: reference, by the entity that answers it; identity's are the provider
\* entity's, or the edge's.
SecretNames(c) ==
  [n \in Names(c) |->
     Entity(c, n).secrets \cup
       (IF n = (IF c.provider = "" THEN EdgeEntity(c).name ELSE c.provider)
        THEN c.identity ELSE {})]

Wanted(c, n) ==
  SecretNames(c)[n] \cup (IF HasEngine(Entity(c, n)) THEN Aliases(Entity(c, n).engine) ELSE {})

\* Mutant: a run fills in every name again.
Missing_All(c, n) == Wanted(c, n)

Missing(c, n) == {k \in Wanted(c, n) : env[n][k] = 0}

\* A value worth inventing: the engine's own credential.
Generates(c, n, k) == HasEngine(Entity(c, n)) /\ k = SecretEnv(Entity(c, n).engine)

\* One entity's file: generate, then carry the credential to the aliases, then what was
\* asked for is whatever was typed; without a prompt a name is left as it is.
FilledIn(c, n, new, typed, asks) ==
  LET missing == Missing(c, n)
      engine  == HasEngine(Entity(c, n))
      first   == [k \in DOMAIN env[n] |->
                    IF k \in missing /\ Generates(c, n, k) THEN new ELSE env[n][k]]
      second  == [k \in DOMAIN first |->
                    IF engine /\ k \in Aliases(Entity(c, n).engine) /\ first[k] = 0
                    THEN first[SecretEnv(Entity(c, n).engine)] ELSE first[k]]
  IN IF missing = {} THEN env[n]
     ELSE [k \in DOMAIN second |->
             IF asks /\ k \in missing /\ ~Generates(c, n, k) THEN typed ELSE second[k]]

AskSecrets(c, new, typed, asks) ==
  [n \in AllNames |-> IF n \in Names(c) THEN FilledIn(c, n, new, typed, asks) ELSE env[n]]

-----------------------------------------------------------------------------
(* `docker init`, `up` and `down` *)

\* What may be typed at a prompt, nothing where there is none.
Typed == IF Answers = {} THEN {0} ELSE Answers

Fits(c) == Cardinality(Addressed(c)) <= Room

\* init refuses an edge on an external provider, a subnet too small, and files that are
\* there already unless it is forced.
DockerInit(override, client, force) ==
  /\ counts.inits < MaxInits
  /\ ~HasEngine(EdgeEntity(config))
  /\ Fits(config)
  /\ files.there => force
  /\ files' = Rendered(config, override, client)
  /\ \E typed \in Typed : env' = AskSecrets(config, fresh + 1, typed, Answers # {})
  /\ fresh' = fresh + 1
  /\ counts' = [counts EXCEPT !.inits = @ + 1]
  /\ UNCHANGED <<config, volume, issue, running>>

EntityServices == {s \in files.compose : s.entity # ""}
Containers == {s.name : s \in EntityServices}
EntityOf(n) == (CHOOSE s \in EntityServices : s.name = n).entity

\* A container as it is created: the entity it was made for, which has loaded nothing yet.
NotUp(entity) == [entity |-> entity, key |-> 0, crt |-> [key |-> 0, ca |-> 0], ca |-> 0,
                  up |-> FALSE, started |-> FALSE]

\* up: the image is built from the project as it is, so a changed project replaces the
\* containers, and so does a service that runs another entity; mesh-init runs every time.
\* `built` is the mounted bundle being there.
DockerUp(built) ==
  /\ files.there
  /\ files.client = "host" => built
  /\ counts.ups < MaxUps
  /\ issue.at \notin {"check", "ca_key", "ca_crt", "key", "crt", "browser"}
  /\ issue' = [at |-> "check", image |-> config, profile |-> DOMAIN files.profile,
                left |-> <<>>]
  /\ running' = [n \in Containers |->
                   IF n \in DOMAIN running /\ issue.image = config /\ running[n].entity = EntityOf(n)
                   THEN running[n] ELSE NotUp(EntityOf(n))]
  /\ counts' = [counts EXCEPT !.ups = @ + 1]
  /\ UNCHANGED <<config, files, env, fresh, volume>>

NoPair == [key |-> 0, crt |-> [key |-> 0, ca |-> 0]]
NewVolume == [caKey |-> 0, caCrt |-> 0, pairs |-> [n \in AllNames |-> NoPair], browser |-> 0]

DockerDown(volumes) ==
  /\ files.there /\ issue.at # "none"
  /\ issue' = [at |-> "none", image |-> config, profile |-> {}, left |-> <<>>]
  /\ running' = [n \in {} |-> NotUp(n)]
  /\ volume' = IF volumes THEN NewVolume ELSE volume
  /\ UNCHANGED <<config, files, env, fresh, counts>>

-----------------------------------------------------------------------------
(* mesh-init: one step per command that writes *)

\* The entities `synqt mesh cert --all --profile docker` issues to: those of synqt.yaml in
\* declaration order, then those only the docker profile still names.
CertNames ==
  [i \in DOMAIN issue.image.services |-> issue.image.services[i].name]
    \o SetToSeq(issue.profile \ Names(issue.image))

\* Mutant: an authority is issued on every start.
CheckAuthority_Always ==
  /\ issue.at = "check"
  /\ issue' = [issue EXCEPT !.at = "ca_key"]
  /\ volume' = [volume EXCEPT !.caKey = 0, !.caCrt = 0]
  /\ UNCHANGED <<config, files, env, fresh, running, counts>>

\* The authority in the volume is reused; `synqt mesh init` refuses where there is a ca.key.
CheckAuthority ==
  /\ issue.at = "check"
  /\ issue' = IF volume.caCrt # 0 THEN [issue EXCEPT !.at = "key", !.left = CertNames]
              ELSE IF volume.caKey # 0 THEN [issue EXCEPT !.at = "failed"]
              ELSE [issue EXCEPT !.at = "ca_key"]
  /\ UNCHANGED <<config, files, env, fresh, volume, running, counts>>

IssueAuthorityKey ==
  /\ issue.at = "ca_key"
  /\ volume' = [volume EXCEPT !.caKey = fresh + 1]
  /\ fresh' = fresh + 1
  /\ issue' = [issue EXCEPT !.at = "ca_crt"]
  /\ UNCHANGED <<config, files, env, running, counts>>

IssueAuthority ==
  /\ issue.at = "ca_crt"
  /\ volume' = [volume EXCEPT !.caCrt = volume.caKey]
  /\ issue' = [issue EXCEPT !.at = "key", !.left = CertNames]
  /\ UNCHANGED <<config, files, env, fresh, running, counts>>

\* mesh.cert: the old key is unlinked and a new one generated, whatever was there.
IssueKey ==
  /\ issue.at = "key" /\ issue.left # <<>>
  /\ volume' = [volume EXCEPT !.pairs[Head(issue.left)].key = fresh + 1]
  /\ fresh' = fresh + 1
  /\ issue' = [issue EXCEPT !.at = "crt"]
  /\ UNCHANGED <<config, files, env, running, counts>>

\* Mutant: every second entity is passed over.
IssueCertificate_SkipsNext ==
  /\ issue.at = "crt"
  /\ volume' = [volume EXCEPT !.pairs[Head(issue.left)].crt =
                  [key |-> volume.pairs[Head(issue.left)].key, ca |-> volume.caKey]]
  /\ issue' = [issue EXCEPT !.at = "key",
                            !.left = IF Len(@) > 1 THEN Tail(Tail(@)) ELSE <<>>]
  /\ UNCHANGED <<config, files, env, fresh, running, counts>>

IssueCertificate ==
  /\ issue.at = "crt"
  /\ volume' = [volume EXCEPT !.pairs[Head(issue.left)].crt =
                  [key |-> volume.pairs[Head(issue.left)].key, ca |-> volume.caKey]]
  /\ issue' = [issue EXCEPT !.at = "key", !.left = Tail(@)]
  /\ UNCHANGED <<config, files, env, fresh, running, counts>>

\* The browser-facing certificate, once per volume, and mesh-init is done.
IssueBrowser ==
  /\ issue.at = "key" /\ issue.left = <<>>
  /\ volume' = [volume EXCEPT !.browser = IF @ = 0 THEN volume.caKey ELSE @]
  /\ issue' = [issue EXCEPT !.at = "done"]
  /\ UNCHANGED <<config, files, env, fresh, running, counts>>

MeshInit == CheckAuthority \/ IssueAuthorityKey \/ IssueAuthority \/ IssueKey
              \/ IssueCertificate \/ IssueBrowser

\* The one-shot container is stopped; `up` reports that it did not complete.
KillMeshInit ==
  /\ MayKill /\ issue.at \in {"ca_key", "ca_crt", "key", "crt"}
  /\ issue' = [issue EXCEPT !.at = "failed"]
  /\ UNCHANGED <<config, files, env, fresh, volume, running, counts>>

-----------------------------------------------------------------------------
(* The entities *)

\* A container is first started once mesh-init completed; one that exits is started again.
\* The entity reads its pair and the authority once, and does not start without them.
StartEntity(n) ==
  /\ n \in DOMAIN running /\ ~running[n].up
  /\ issue.at = "done" \/ (RestartRaces /\ running[n].started)
  /\ LET pair == volume.pairs[running[n].entity]
     IN /\ pair.key # 0 /\ pair.crt.key # 0 /\ volume.caCrt # 0
        /\ running' = [running EXCEPT ![n] = [entity |-> running[n].entity,
                                              key |-> pair.key, crt |-> pair.crt,
                                              ca |-> volume.caCrt, up |-> TRUE, started |-> TRUE]]
  /\ UNCHANGED <<config, files, env, fresh, volume, issue, counts>>

CrashEntity(n) ==
  /\ n \in DOMAIN running /\ running[n].up
  /\ counts.crashes < MaxCrashes
  /\ counts' = [counts EXCEPT !.crashes = @ + 1]
  /\ running' = [running EXCEPT ![n].up = FALSE]
  /\ UNCHANGED <<config, files, env, fresh, volume, issue>>

\* The author edits synqt.yaml; the generated files are as `init` left them.
EditConfig(c) ==
  /\ counts.edits < MaxEdits /\ c # config
  /\ config' = c
  /\ counts' = [counts EXCEPT !.edits = @ + 1]
  /\ UNCHANGED <<files, env, fresh, volume, issue, running>>

-----------------------------------------------------------------------------
\* Every variable some .env may hold.
AllVariables == UNION {UNION {Wanted(c, n) : n \in Names(c)} : c \in Configs}

Init ==
  /\ config \in Configs
  /\ files = NothingRendered
  /\ env = [n \in AllNames |-> [k \in AllVariables |-> 0]]
  /\ fresh = 0
  /\ volume = NewVolume
  /\ issue = [at |-> "none", image |-> config, profile |-> {}, left |-> <<>>]
  /\ running = [n \in {} |-> NotUp(n)]
  /\ counts = [inits |-> 0, ups |-> 0, edits |-> 0, crashes |-> 0]

Next ==
  \/ \E p \in PortOverrides, client \in {"image", "host"}, force \in BOOLEAN :
       DockerInit(p, client, force)
  \/ \E built \in BOOLEAN : DockerUp(built)
  \/ \E volumes \in BOOLEAN : DockerDown(volumes)
  \/ MeshInit \/ KillMeshInit
  \/ \E n \in DOMAIN running : StartEntity(n) \/ CrashEntity(n)
  \/ \E c \in Configs : EditConfig(c)

\* docker runs mesh-init to its end and starts what is not up.
Fairness == WF_vars(MeshInit) /\ WF_vars(\E n \in DOMAIN running : StartEntity(n))

Spec == Init /\ [][Next]_vars /\ Fairness

-----------------------------------------------------------------------------
Pairs == [key : Nat, crt : [key : Nat, ca : Nat]]
Stages == {"none", "check", "ca_key", "ca_crt", "key", "crt", "done", "failed"}

TypeOK ==
  /\ config \in Configs /\ fresh \in Nat
  /\ volume \in [caKey : Nat, caCrt : Nat, pairs : [AllNames -> Pairs], browser : Nat]
  /\ issue \in [at : Stages, image : Configs, profile : SUBSET AllNames, left : Seq(AllNames)]
  /\ counts \in [inits : Nat, ups : Nat, edits : Nat, crashes : Nat]

-----------------------------------------------------------------------------
(* Properties *)

\* The containers of the compose file that hold an address on the mesh network.
Holders == {s \in files.compose : s.at # 0}

\* No two containers hold one address, every address is inside the subnet, an entity's
\* address in the docker profile is held by the one container it answers from (its own, its
\* first replica's or its engine's), and the front balances over containers that are there
\* (docker.py `mesh_addresses`, `render_compose`, `render_profile`, `render_front_config`).
AddressesAgree ==
  /\ \A s, t \in Holders : s.at = t.at => s = t
  /\ \A s \in Holders : s.at \in FirstHost..(FirstHost + Room - 1)
  /\ \A n \in DOMAIN files.profile : \E s \in EntityServices, t \in Holders :
       /\ s.entity = n
       /\ t.at = files.profile[n].host
       /\ t = s \/ t.name = s.joins
  /\ files.front.servers \subseteq {s.at : s \in Holders}

\* A value an entity's .env holds is never changed by another `docker init` (docker.py
\* `ask_secrets` "running this twice does not reset a value that was already set").
SecretsAreKept ==
  [][\A n \in AllNames : \A k \in DOMAIN env[n] : env[n][k] # 0 => env'[n][k] = env[n][k]]_vars

\* The containers whose entity is up.
UpEntities == {n \in DOMAIN running : running[n].up}

\* Entities that are up trust one another: each holds the key its certificate is for, and
\* all were signed by the one authority all of them verify with (the entrypoint's mesh-init,
\* mesh.py `cert`, docker.py `down_command`).
EntitiesTrustOneAnother ==
  \A n, m \in UpEntities :
    /\ running[n].key = running[n].crt.key
    /\ running[n].crt.ca = running[m].ca

-----------------------------------------------------------------------------
(* What the two invariants above rest on *)

\* No two containers of a project have one name, and none has an entity's name but that
\* entity's only process. Nothing in `synqt check` says so: an entity named `front`, or
\* `web-1` beside a replicated `web`, breaks it.
NamesApart(c) ==
  /\ \A k, l \in Addressed(c) : ContainerName(c, k) = ContainerName(c, l) => k = l
  /\ \A k \in Addressed(c) : ContainerName(c, k) \in Names(c) =>
       k \in Processes(c) /\ c.services[k[1]].replicas = 1

\* The generated files are those of some configuration init accepts.
FilesAreRendered ==
  \/ files = NothingRendered
  \/ \E c \in Configs, p \in PortOverrides, client \in {"image", "host"} :
       Fits(c) /\ ~HasEngine(EdgeEntity(c)) /\ files = Rendered(c, p, client)

\* The entities this `up` issues to, and whether one holds a pair of the authority's.
Issued == issue.profile \cup Names(issue.image)
Signed(e) ==
  volume.pairs[e].key = volume.pairs[e].crt.key /\ volume.pairs[e].crt.ca = volume.caKey

\* An authority's certificate is its key's, and both are there before a pair is issued.
AuthorityStands ==
  /\ volume.caCrt # 0 => volume.caCrt = volume.caKey
  /\ issue.at = "ca_key" => volume.caKey = 0 /\ volume.caCrt = 0
  /\ issue.at = "ca_crt" => volume.caKey # 0 /\ volume.caCrt = 0
  /\ issue.at \in {"key", "crt", "done"} => volume.caCrt # 0

\* Every entity that is no longer waiting for its pair has one.
PairsAreIssued ==
  /\ issue.at \in {"key", "crt"} => \A e \in Issued \ ToSet(issue.left) : Signed(e)
  /\ issue.at = "crt" => issue.left # <<>>
  /\ IsFiniteSet(issue.profile)
  /\ issue.at = "done" => \A e \in Issued : Signed(e)

\* A container runs an entity that `up` issued to, and holds what the volume held.
ContainersAreIssued ==
  \A n \in DOMAIN running :
    /\ running[n].entity \in Issued
    /\ running[n].up =>
         /\ running[n].key = running[n].crt.key /\ running[n].crt.ca = volume.caCrt
         /\ running[n].ca = volume.caCrt /\ volume.caCrt # 0

StackInv == TypeOK /\ FilesAreRendered /\ AuthorityStands /\ PairsAreIssued /\ ContainersAreIssued

-----------------------------------------------------------------------------
(* Liveness, and what a comment promises *)

\* A stack that was brought up comes up: every entity of the compose file runs in the end,
\* unless mesh-init failed or the stack was taken down (the entrypoint, `depends_on`, the
\* restart policy).
StackComesUp ==
  (issue.at = "check") ~>
    (issue.at \in {"failed", "none"} \/ UpEntities = DOMAIN running)

\* `up` can always be repeated: mesh-init does not fail unless it was stopped this time
\* (docker.py:840 "Idempotent: `up` runs this every time").
UpCanBeRepeated == [][issue.at = "check" => issue'.at # "failed"]_vars

=============================================================================
