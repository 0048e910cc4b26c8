--------------------------- MODULE ProjectProofs ----------------------------
(***************************************************************************)
(* Proofs about a project `synqt check` accepts. First, for every project  *)
(* there can be, and not only those a few commands and edits lead to: what *)
(* the rules let through is generated and fits together. The hypotheses    *)
(* name what the rules leave to the author. Then about the scaffolders,    *)
(* which only add. Then about its contracts, as `synqt infer` reads them   *)
(* back from both ends of every connect point and the two contract lints   *)
(* hold the ends to them.                                                  *)
(***************************************************************************)
EXTENDS ProjectScaffold, ContractInference, TLAPS, SequenceTheorems, WellFoundedInduction

(***************************************************************************)
(* The mains, by the type of the entity.                                   *)
(***************************************************************************)
LEMMA OneType ==
  ASSUME NEW q, NEW n
  PROVE  /\ IsClient(q, n) => ~IsMonitor(q, n) /\ ~IsEdge(q, n)
         /\ IsMonitor(q, n) => ~IsEdge(q, n)
BY DEF IsClient, IsMonitor, IsEdge

LEMMA ClientMain ==
  ASSUME NEW q, NEW n, IsClient(q, n)
  PROVE  \/ RenderMain(q, n) = NoMain
         \/ /\ RenderMain(q, n).main = "client" /\ RenderMain(q, n).secrets = {}
            /\ DOMAIN RenderMain(q, n).serves = {}
<1>1. RenderMain(q, n) = RenderClientMain(q, n)
  BY OneType DEF RenderMain
<1> QED BY <1>1 DEF RenderClientMain

LEMMA EdgeMain ==
  ASSUME NEW q, NEW n, IsEdge(q, n)
  PROVE  \/ RenderMain(q, n) = NoMain
         \/ /\ RenderMain(q, n).main = "edge"
            /\ RenderMain(q, n).faces = PointNames(ClientFacing(q, n))
            /\ RenderMain(q, n).dials = {x.owner : x \in MeshConsumed(q, n)}
            /\ RenderMain(q, n).secrets = IF IdentityEnabled(q, n) /\ ProviderEntity(q) = ""
                                          THEN IdentityProviders(q) ELSE {}
            /\ RenderMain(q, n).serves = BundlesFor(q, n)
<1>1. RenderMain(q, n) = RenderEdgeMain(q, n)
  BY OneType DEF RenderMain
<1>2. PICK faces : faces = PointNames(ClientFacing(q, n))
  OBVIOUS
<1>3. PICK dials : dials = {x.owner : x \in MeshConsumed(q, n)}
  OBVIOUS
<1>4. PICK secrets : secrets = IF IdentityEnabled(q, n) /\ ProviderEntity(q) = ""
                               THEN IdentityProviders(q) ELSE {}
  OBVIOUS
<1>5. PICK serves : serves = BundlesFor(q, n)
  OBVIOUS
<1>6. \/ RenderEdgeMain(q, n) = NoMain
      \/ RenderEdgeMain(q, n) = [main |-> "edge", faces |-> faces, hosts |-> {},
                                 dials |-> dials, secrets |-> secrets, serves |-> serves]
  BY <1>2, <1>3, <1>4, <1>5, Zenon DEF RenderEdgeMain
<1>7. PICK r : r = RenderEdgeMain(q, n)
  OBVIOUS
<1>8. \/ r = NoMain
      \/ r.main = "edge" /\ r.faces = faces /\ r.dials = dials
         /\ r.secrets = secrets /\ r.serves = serves
  BY <1>6, <1>7
<1> QED BY <1>1, <1>2, <1>3, <1>4, <1>5, <1>7, <1>8, Zenon

LEMMA MonitorMain ==
  ASSUME NEW q, NEW n, IsMonitor(q, n)
  PROVE  \/ RenderMain(q, n) = NoMain
         \/ /\ RenderMain(q, n).main = "monitor" /\ RenderMain(q, n).secrets = {}
            /\ RenderMain(q, n).faces = PointNames(OwnedBy(q, n)) \cap {"console"}
            /\ RenderMain(q, n).hosts = PointNames(OwnedBy(q, n))
            /\ RenderMain(q, n).dials = {x.owner : x \in MeshConsumed(q, n)}
            /\ RenderMain(q, n).serves = MonitorBundleDefaults(q, n)
<1>1. RenderMain(q, n) = RenderMonitorMain(q, n)
  BY OneType DEF RenderMain
<1> QED BY <1>1 DEF RenderMonitorMain

LEMMA ServiceMain ==
  ASSUME NEW q, NEW n, ~IsClient(q, n), ~IsEdge(q, n), ~IsMonitor(q, n)
  PROVE  \/ RenderMain(q, n) = NoMain
         \/ /\ RenderMain(q, n).main \in {"auth", "service"}
            /\ RenderMain(q, n).hosts = PointNames(OwnedBy(q, n))
            /\ RenderMain(q, n).dials = {x.owner : x \in MeshConsumed(q, n)}
            /\ RenderMain(q, n).secrets = IF ProviderEntity(q) = n
                                          THEN IdentityProviders(q) ELSE {}
            /\ DOMAIN RenderMain(q, n).serves = {}
<1>1. RenderMain(q, n) = RenderServiceMain(q, n)
  BY Zenon DEF RenderMain
<1> QED BY <1>1 DEF RenderServiceMain

(***************************************************************************)
(* What the check accepts is generated.                                    *)
(***************************************************************************)
\* Every value a client's main is made of was looked at.
LEMMA ClientWritten ==
  ASSUME NEW q, NEW n \in Entities(q), IsClient(q, n), Named(q), CheckProject(q, FALSE)
  PROVE  RenderMain(q, n) # NoMain
<1>1. ~RouteErrors(q, n) /\ DesktopSession(q) # Refused
  BY DEF CheckProject, Validate, Clients, DeviceSessionErrors
<1>2. ~RouteRefused(q, n)
  BY <1>1 DEF RouteErrors, RouteRefused, Named
<1>3. RenderMain(q, n) = RenderClientMain(q, n)
  BY OneType DEF RenderMain
<1>4. RenderClientMain(q, n).main = "client"
  BY <1>1, <1>2 DEF RenderClientMain
<1> QED BY <1>3, <1>4 DEF NoMain

\* A monitor's.
LEMMA MonitorWritten ==
  ASSUME NEW q, NEW n \in Entities(q), IsMonitor(q, n), GeneratorsKeysHold(q),
         CheckProject(q, FALSE)
  PROVE  RenderMain(q, n) # NoMain
<1>1. TrustedProxies(q, n) # Refused
  BY DEF CheckProject, Validate, TrustedProxyErrors
<1>2. ~MonitorExportersRefused(q, n)
  BY DEF GeneratorsKeysHold
<1>3. RenderMain(q, n) = RenderMonitorMain(q, n)
  BY OneType DEF RenderMain
<1>4. RenderMonitorMain(q, n).main = "monitor"
  BY <1>1, <1>2 DEF RenderMonitorMain
<1> QED BY <1>3, <1>4 DEF NoMain

\* A number the check holds to at least one, or to nothing or zero, is one.
LEMMA NumbersHold ==
  ASSUME NEW block, NEW key, At(block, key) \in AtLeastOne \cup {"", "0"},
         ~LeftBlank(block, key)
  PROVE  ~IntRefused(block, key)
BY DEF At, LeftBlank, IntRefused, AtLeastOne, Ints

\* The lines about the sign-in provider, in whichever process they are.
LEMMA ProviderWritten ==
  ASSUME NEW q, GeneratorsKeysHold(q), CheckProject(q, FALSE)
  PROVE  /\ ~ProviderBlockRefused(q) /\ ~RefreshRefused(q) /\ ~DeviceRefused(q)
         /\ Identity(q, "identity.session.ttl_minutes") \in Ints \cup {""}
<1>1. ~ProviderErrors(q) /\ ~DeviceSessionErrors(q) /\ ~BrowserPolicyErrors(q)
  BY DEF CheckProject, Validate
<1>2. ~ProviderBlockRefused(q)
  BY <1>1, Zenon DEF ProviderErrors, ProviderBlockRefused, GeneratorsKeysHold
<1>3. ~DeviceRefused(q)
  BY <1>1, Zenon DEF DeviceSessionErrors, DeviceRefused, GeneratorsKeysHold
<1>4. Identity(q, "identity.session.ttl_minutes") \in Ints \cup {""}
  BY <1>1, Zenon DEF BrowserPolicyErrors
<1> QED BY <1>2, <1>3, <1>4 DEF GeneratorsKeysHold

\* How long a session lasts, where there is an identity: block.
LEMMA LifetimeWritten ==
  ASSUME NEW q, GeneratorsKeysHold(q), CheckProject(q, FALSE), At(q.top, "identity") = "block"
  PROVE  ~IntRefused(q.top, "identity.session.ttl_minutes")
<1>1. At(q.top, "identity.session.ttl_minutes") \in Ints \cup {""}
  BY ProviderWritten DEF Identity
<1>2. ~LeftBlank(q.top, "identity.session.ttl_minutes")
  BY DEF GeneratorsKeysHold
<1> QED BY <1>1, <1>2 DEF At, LeftBlank, IntRefused

\* A ceiling of the security: block, where the block is one.
LEMMA CeilingsWritten ==
  ASSUME NEW q, GeneratorsKeysHold(q), CheckProject(q, FALSE), Mapping(q.top, "security")
  PROVE  /\ \A key \in SecurityNumbers : ~IntRefused(q.top, key)
         /\ "security.allowed_origins" \in DOMAIN q.top
              => q.top["security.allowed_origins"] \in {"list", "[]", "odd"}
<1>1. ~BrowserPolicyErrors(q)
  BY Zenon DEF CheckProject, Validate
<1>2. \A key : Security(q, key) = At(q.top, key)
  BY DEF Security
<1>3. ASSUME NEW key \in SecurityNumbers
      PROVE  ~IntRefused(q.top, key)
  <2>1. ~LeftBlank(q.top, key)
    BY DEF GeneratorsKeysHold
  <2>2. Security(q, key) \in AtLeastOne \cup {"", "0"}
    BY <1>1 DEF BrowserPolicyErrors, SecurityNumbers
  <2> QED BY <1>2, <2>1, <2>2, NumbersHold
<1>4. ASSUME "security.allowed_origins" \in DOMAIN q.top
      PROVE  q.top["security.allowed_origins"] \in {"list", "[]", "odd"}
  <2>1. ~LeftBlank(q.top, "security.allowed_origins")
    BY DEF GeneratorsKeysHold
  <2>2. Security(q, "security.allowed_origins") \in {"", "list", "[]", "odd"}
    BY <1>1 DEF BrowserPolicyErrors
  <2> QED BY <1>2, <1>4, <2>1, <2>2 DEF LeftBlank, At
<1> QED BY <1>3, <1>4

\* A web edge's main.
LEMMA EdgeWritten ==
  ASSUME NEW q, NEW n \in Entities(q), IsEdge(q, n), GeneratorsKeysHold(q),
         CheckProject(q, FALSE)
  PROVE  RenderMain(q, n) # NoMain
<1>1. Validate(q, FALSE)
  BY Zenon DEF CheckProject
<1>2. TrustedProxies(q, n) # Refused /\ Threads(q, n) # Refused
  BY <1>1 DEF Validate, TrustedProxyErrors, ThreadErrors
<1>3. SessionTransport(q) # Refused /\ IdentityFlow(q) # Refused
  BY <1>1, Zenon DEF Validate, BrowserPolicyErrors
<1>4. /\ ~BoolRefused(q.ent[n], "public.serve_client") /\ ~IntRefused(q.ent[n], "public.port")
      /\ ~BoolRefused(q.top, "identity.required")
  BY Zenon DEF GeneratorsKeysHold
<1>5. ~EdgePolicyRefused(q, n)
  BY <1>2, <1>3, <1>4, CeilingsWritten, LifetimeWritten, Zenon DEF EdgePolicyRefused
<1>6. ~IdentityRefused(q, n)
  BY ProviderWritten, Zenon DEF IdentityRefused
<1>7. RenderMain(q, n) = RenderEdgeMain(q, n)
  BY OneType DEF RenderMain
<1>8. RenderEdgeMain(q, n).main = "edge"
  BY <1>4, <1>5, <1>6 DEF RenderEdgeMain
<1> QED BY <1>7, <1>8 DEF NoMain

\* What an inbound surface is written with.
LEMMA InboundWritten ==
  ASSUME NEW q, NEW n \in Entities(q), GeneratorsKeysHold(q), CheckProject(q, FALSE)
  PROVE  ~ApiConfigRefused(q, n)
<1>1. Validate(q, FALSE)
  BY Zenon DEF CheckProject
<1>2. InboundTrustedProxies(q, n) # Refused
  BY <1>1 DEF Validate, TrustedProxyErrors
<1>3. ASSUME ServesInbound(q, n) PROVE ~InboundErrors(q, n)
  BY <1>1, <1>3, Zenon DEF Validate, NetworkErrors, ServesInbound
<1>4. ASSUME ServesInbound(q, n) PROVE \A key : Inbound(q, n, key) = At(q.ent[n], key)
  BY <1>4 DEF ServesInbound, Inbound
<1>5. ASSUME ServesInbound(q, n)
      PROVE  ~IntRefused(q.ent[n], "network.inbound.port")
  <2>1. At(q.ent[n], "network.inbound.port") \in AtLeastOne
    BY <1>3, <1>4, <1>5, Zenon DEF InboundErrors
  <2>2. ~LeftBlank(q.ent[n], "network.inbound.port")
    BY <2>1 DEF LeftBlank, AtLeastOne, Ints
  <2> QED BY <2>1, <2>2, NumbersHold
<1>6. ASSUME ServesInbound(q, n), NEW key \in InboundNumbers
      PROVE  ~IntRefused(q.ent[n], key)
  <2>1. Inbound(q, n, key) \in AtLeastOne \cup {"", "0"}
    BY <1>3, <1>6 DEF InboundErrors, InboundNumbers
  <2>2. ~LeftBlank(q.ent[n], key)
    BY DEF GeneratorsKeysHold
  <2> QED BY <1>4, <1>6, <2>1, <2>2, NumbersHold
<1> QED BY <1>2, <1>5, <1>6 DEF ApiConfigRefused, InboundNumbers

\* A service's main, the auth entity's among them.
LEMMA ServiceWritten ==
  ASSUME NEW q, NEW n \in Entities(q), ~IsClient(q, n), ~IsEdge(q, n), ~IsMonitor(q, n),
         Named(q), GeneratorsKeysHold(q), CheckProject(q, FALSE)
  PROVE  RenderMain(q, n) # NoMain
<1>1. ASSUME ProviderEntity(q) = n
      PROVE  ~IntRefused(q.top, "identity.session.ttl_minutes")
  <2>1. n # ""
    BY DEF Named
  <2>2. At(q.top, "identity") = "block"
    BY <1>1, <2>1 DEF ProviderEntity, Identity
  <2> QED BY <2>2, LifetimeWritten
<1>2. ~RefreshRefused(q) /\ ~ProviderBlockRefused(q)
  BY ProviderWritten
<1>3. ~ApiConfigRefused(q, n)
  BY InboundWritten
<1>4. RenderMain(q, n) = RenderServiceMain(q, n)
  BY Zenon DEF RenderMain
<1>5. RenderServiceMain(q, n).main \in {"auth", "service"}
  BY <1>1, <1>2, <1>3 DEF RenderServiceMain
<1> QED BY <1>4, <1>5 DEF NoMain

LEMMA EveryMainIsWritten ==
  ASSUME NEW q, Named(q), GeneratorsKeysHold(q), CheckProject(q, FALSE)
  PROVE  \A n \in Entities(q) : RenderMain(q, n) # NoMain
<1> SUFFICES ASSUME NEW n \in Entities(q) PROVE RenderMain(q, n) # NoMain
  OBVIOUS
<1>1. CASE IsClient(q, n)
  BY <1>1, ClientWritten
<1>2. CASE IsMonitor(q, n)
  BY <1>2, MonitorWritten
<1>3. CASE IsEdge(q, n)
  BY <1>3, EdgeWritten
<1>4. CASE ~IsClient(q, n) /\ ~IsEdge(q, n) /\ ~IsMonitor(q, n)
  BY <1>4, ServiceWritten
<1> QED BY <1>1, <1>2, <1>3, <1>4

(***************************************************************************)
(* What `synqt check` accepts, the generator can write: for every project  *)
(* whose names are not empty, whose keys that only the generator reads     *)
(* hold what it can write, and where none of the keys both read is blank.  *)
(***************************************************************************)
THEOREM CheckedIsGenerated ==
  ASSUME Named(p), GeneratorsKeysHold(p)
  PROVE  CheckedProjectGenerates
<1> SUFFICES ASSUME CheckProject(p, FALSE) PROVE ~GenerateRefused(p)
  BY DEF CheckedProjectGenerates, Checked
<1>1. \A n \in Entities(p) : RenderMain(p, n) # NoMain
  BY EveryMainIsWritten
<1> QED BY <1>1 DEF GenerateRefused, Generate

(***************************************************************************)
(* The connect points, and who hosts them.                                 *)
(***************************************************************************)
\* A point is one an entity declares, or one the sign-in or the monitor implies.
Declared(q, point) ==
  point.owner \in Owners(q) /\ point.consumers = q.point[point.owner].consumers
OfTheSignIn(q, point) ==
  /\ ProviderEntity(q) # "" /\ point.owner = ProviderEntity(q)
  /\ point.consumers \subseteq Edges(q)
OfTheMonitor(q, point) ==
  /\ MonitorEntity(q) # "" /\ point.owner = MonitorEntity(q)
  /\ \/ point.consumers \cap Clients(q) = {}
     \/ point.name = "console" /\ point.consumers \subseteq Clients(q)

LEMMA PointShapes ==
  ASSUME NEW q, NEW point \in ConnectPoints(q)
  PROVE  Declared(q, point) \/ OfTheSignIn(q, point) \/ OfTheMonitor(q, point)
<1>1. CASE point \in AppPoints(q)
  <2>1. PICK n \in Owners(q) : point = [name |-> n, owner |-> n, contract |-> n,
                                        consumers |-> q.point[n].consumers,
                                        framework |-> FALSE]
    BY <1>1 DEF AppPoints
  <2>2. PICK consumers : consumers = q.point[n].consumers
    OBVIOUS
  <2>3. point.owner = n /\ point.consumers = consumers
    BY <2>1, <2>2
  <2> QED BY <2>2, <2>3 DEF Declared
<1>2. CASE point \in AuthConnectPoints(q)
  <2>1. PICK signIns : signIns = {n \in Edges(q) : IdentityEnabled(q, n)}
    OBVIOUS
  <2>2. ProviderEntity(q) # ""
    BY <1>2, Zenon DEF AuthConnectPoints
  <2>3. \/ point = Implied("identity", "Identity", ProviderEntity(q), signIns)
        \/ point = Implied("sessions", "SessionStore", ProviderEntity(q), signIns)
    BY <1>2, <2>1 DEF AuthConnectPoints
  <2>4. point.owner = ProviderEntity(q) /\ point.consumers = signIns
    BY <2>3 DEF Implied
  <2> QED BY <2>1, <2>2, <2>4 DEF OfTheSignIn
<1>3. CASE point \in MonitoringConnectPoints(q, WithAuth(q))
  <2>1. PICK reporters : reporters = {n \in Entities(q) : IsService(q, n)} \ {MonitorEntity(q)}
    OBVIOUS
  <2>2. PICK watchers : watchers = {n \in Clients(q) : MonitorWatches(q, n)}
    OBVIOUS
  <2>3. MonitorEntity(q) # ""
    BY <1>3, Zenon DEF MonitoringConnectPoints
  <2>4. \/ point = Implied("ingest", "Ingest", MonitorEntity(q), reporters)
        \/ point = Implied("console", "Console", MonitorEntity(q), watchers)
    BY <1>3, <2>1, <2>2 DEF MonitoringConnectPoints
  <2>5. /\ point.owner = MonitorEntity(q)
        /\ \/ point.consumers = reporters
           \/ point.name = "console" /\ point.consumers = watchers
    BY <2>4 DEF Implied
  <2>6. reporters \cap Clients(q) = {} /\ watchers \subseteq Clients(q)
    BY <2>1, <2>2 DEF Clients, IsService
  <2> QED BY <2>3, <2>5, <2>6 DEF OfTheMonitor
<1> QED BY <1>1, <1>2, <1>3 DEF ConnectPoints, WithAuth

\* What the check holds every point to.
LEMMA PointsChecked ==
  ASSUME NEW q, NEW point \in ConnectPoints(q), CheckProject(q, FALSE)
  PROVE  /\ point.owner \in Entities(q) /\ ~IsClient(q, point.owner)
         /\ point.owner \notin point.consumers /\ point.consumers \subseteq Entities(q)
         /\ point.consumers \cap Clients(q) # {} => ServesBrowser(q, point.owner)
<1>1. ~PointErrors(q)
  BY Zenon DEF CheckProject, Validate
<1> QED BY <1>1, Zenon DEF PointErrors

\* An owner serves browsers from its own port, or the mesh, as its type allows.
LEMMA OwnersAreHosts ==
  ASSUME NEW q, NEW point \in ConnectPoints(q), CheckProject(q, FALSE), OwnersCanHost(q)
  PROVE  /\ IsEdge(q, point.owner) => point.consumers \subseteq Clients(q)
         /\ IsMonitor(q, point.owner) /\ point.consumers \cap Clients(q) # {}
              => point.name = "console"
<1>1. point.owner \in Entities(q)
  BY PointsChecked
<1>2. CASE Declared(q, point)
  BY <1>1, <1>2 DEF Declared, OwnersCanHost, Edges, Monitors
<1>3. CASE OfTheSignIn(q, point)
  <2>1. ~ProviderEntityErrors(q)
    BY Zenon DEF CheckProject, Validate
  <2>2. ~IsEdge(q, point.owner)
    BY <1>3, <2>1 DEF OfTheSignIn, ProviderEntityErrors
  <2>3. Edges(q) \cap Clients(q) = {}
    BY OneType DEF Edges, Clients
  <2> QED BY <1>3, <2>2, <2>3 DEF OfTheSignIn
<1>4. CASE OfTheMonitor(q, point)
  <2>1. ~MonitorEntityErrors(q, FALSE)
    BY Zenon DEF CheckProject, Validate
  <2>2. IsMonitor(q, point.owner)
    BY <1>4, <2>1 DEF OfTheMonitor, MonitorEntityErrors
  <2> QED BY <1>4, <2>2, OneType DEF OfTheMonitor
<1> QED BY <1>2, <1>3, <1>4, PointShapes

\* What a service is given to dial, and an owner to host.
LEMMA MeshMain ==
  ASSUME NEW q, NEW n, ~IsClient(q, n), RenderMain(q, n) # NoMain
  PROVE  /\ RenderMain(q, n).dials = {x.owner : x \in MeshConsumed(q, n)}
         /\ ~IsEdge(q, n) => RenderMain(q, n).hosts = PointNames(OwnedBy(q, n))
<1>1. CASE IsEdge(q, n)
  BY <1>1, EdgeMain
<1>2. CASE IsMonitor(q, n)
  BY <1>2, MonitorMain, OneType
<1>3. CASE ~IsEdge(q, n) /\ ~IsMonitor(q, n)
  BY <1>3, ServiceMain
<1> QED BY <1>1, <1>2, <1>3

LEMMA FacesMain ==
  ASSUME NEW q, NEW n, RenderMain(q, n) # NoMain
  PROVE  /\ IsEdge(q, n) => RenderMain(q, n).faces = PointNames(ClientFacing(q, n))
         /\ IsMonitor(q, n)
              => RenderMain(q, n).faces = PointNames(OwnedBy(q, n)) \cap {"console"}
BY EdgeMain, MonitorMain

\* The endpoint of a point, in the file of each process that hosts or dials it.
LEMMA BothAreTold ==
  ASSUME NEW q, NEW point \in ConnectPoints(q), NEW c \in point.consumers,
         NEW o, o = point.owner, o # c, ~IsEdge(q, o)
  PROVE  \E t \in EntityTopology(q, c) \cap EntityTopology(q, o) : t.point = point
<1>1. PICK t : t = [point |-> point,
                    endpoint |-> ResolveEndpoints(q, ConnectPoints(q))[point.name]]
  OBVIOUS
<1>2. t.point = point
  BY <1>1
<1>3. t \in EntityTopology(q, c)
  BY <1>1, Zenon DEF EntityTopology
<1>4. t \in EntityTopology(q, o)
  BY <1>1, Zenon DEF EntityTopology
<1> QED BY <1>2, <1>3, <1>4

(***************************************************************************)
(* Both ends of every connection come up, in every checked project whose   *)
(* generated mains have a place for the points its owners declare.         *)
(***************************************************************************)
THEOREM ConnectionsComeUp ==
  ASSUME Named(p), GeneratorsKeysHold(p), OwnersCanHost(p)
  PROVE  EveryPointIsHosted
<1> SUFFICES ASSUME CheckProject(p, FALSE) PROVE EveryPointIsHosted
  BY DEF EveryPointIsHosted, Checked
<1>1. \A n \in Entities(p) : Generate(p)[n] = RenderMain(p, n) /\ RenderMain(p, n) # NoMain
  BY EveryMainIsWritten DEF Generate
<1>2. ASSUME NEW point \in ConnectPoints(p), point.consumers \cap Clients(p) # {}
      PROVE  point.name \in Generate(p)[point.owner].faces
  <2>1. point.owner \in Entities(p) /\ (IsEdge(p, point.owner) \/ IsMonitor(p, point.owner))
    BY <1>2, PointsChecked DEF ServesBrowser
  <2>2. IsMonitor(p, point.owner) => point.name = "console"
    BY <1>2, OwnersAreHosts
  <2>3. point \in OwnedBy(p, point.owner) /\ point \in ClientFacing(p, point.owner)
    BY <1>2 DEF OwnedBy, ClientFacing
  <2>4. /\ point.name \in PointNames(OwnedBy(p, point.owner))
        /\ point.name \in PointNames(ClientFacing(p, point.owner))
    BY <2>3 DEF PointNames
  <2> QED BY <1>1, <2>1, <2>2, <2>4, FacesMain
<1>3. ASSUME NEW point \in ConnectPoints(p), NEW c \in point.consumers \ Clients(p)
      PROVE  /\ point.name \in Generate(p)[point.owner].hosts
             /\ point.owner \in Generate(p)[c].dials
             /\ {c, point.owner} \subseteq DOMAIN WriteTopologies(p)
             /\ \E t \in WriteTopologies(p)[c] \cap WriteTopologies(p)[point.owner] :
                  t.point = point
  <2>1. PICK o : o = point.owner
    OBVIOUS
  <2>2. /\ o \in Entities(p) /\ ~IsClient(p, o) /\ ~IsEdge(p, o) /\ o # c
        /\ c \in Entities(p) /\ ~IsClient(p, c)
    BY <2>1, PointsChecked, OwnersAreHosts DEF Clients
  <2>3. point \in MeshConsumed(p, c) /\ point \in OwnedBy(p, o)
    BY <2>1, <2>2 DEF MeshConsumed, OwnedBy
  <2>4. point.name \in RenderMain(p, o).hosts
    BY <1>1, <2>2, <2>3, MeshMain DEF PointNames
  <2>5. o \in RenderMain(p, c).dials
    BY <1>1, <2>1, <2>2, <2>3, MeshMain
  <2>6. /\ {c, o} \subseteq DOMAIN WriteTopologies(p)
        /\ WriteTopologies(p)[c] = EntityTopology(p, c)
        /\ WriteTopologies(p)[o] = EntityTopology(p, o)
    BY <2>2, <2>3 DEF WriteTopologies, IsService
  <2>7. \E t \in EntityTopology(p, c) \cap EntityTopology(p, o) : t.point = point
    BY <2>1, <2>2, BothAreTold
  <2> QED BY <1>1, <2>1, <2>2, <2>4, <2>5, <2>6, <2>7
<1> QED BY <1>2, <1>3, Zenon DEF EveryPointIsHosted

(***************************************************************************)
(* What a browser is given.                                                *)
(***************************************************************************)
LEMMA FirstClient ==
  ASSUME NEW q, ClientEntity(q) # ""
  PROVE  ClientEntity(q) \in Clients(q)
<1>1. PICK first : first = {i \in DOMAIN q.list :
                              /\ IsClient(q, q.list[i])
                              /\ \A j \in 1..(i - 1) : ~IsClient(q, q.list[j])}
  OBVIOUS
<1>2. first # {} /\ ClientEntity(q) = q.list[CHOOSE i \in first : TRUE]
  BY <1>1, Zenon DEF ClientEntity
<1>3. PICK i \in first : ClientEntity(q) = q.list[i]
  BY <1>2, Zenon
<1>4. i \in DOMAIN q.list /\ IsClient(q, q.list[i])
  BY <1>1, <1>3
<1>5. q.list[i] \in Entities(q)
  BY <1>4, Zenon DEF Entities, ToSet
<1> QED BY <1>3, <1>4, <1>5 DEF Clients

\* A web edge serves only clients that there are.
LEMMA EdgesServeClients ==
  ASSUME NEW q, NEW n \in Edges(q), CheckProject(q, FALSE),
         NEW s \in DOMAIN BundlesFor(q, n), BundlesFor(q, n)[s].kind = "client"
  PROVE  BundlesFor(q, n)[s].value \in Clients(q)
<1>1. CASE DOMAIN q.bundles[n] # {}
  <2>1. BundlesFor(q, n) = q.bundles[n]
    BY <1>1 DEF BundlesFor
  <2>2. ~BundleErrors(q)
    BY Zenon DEF CheckProject
  <2> QED BY <1>1, <2>1, <2>2, Zenon DEF BundleErrors
<1>2. CASE DOMAIN q.bundles[n] = {}
  <2>1. ClientEntity(q) # ""
    BY <1>2 DEF BundlesFor
  <2>2. PICK c : c = ClientEntity(q)
    OBVIOUS
  <2>3. BundlesFor(q, n) = [x \in {DefaultScope(q)} |-> [kind |-> "client", value |-> c]]
    BY <1>2, <2>1, <2>2 DEF BundlesFor
  <2>4. BundlesFor(q, n)[s].value = c
    BY <2>3
  <2> QED BY <2>1, <2>2, <2>4, FirstClient
<1> QED BY <1>1, <1>2

\* What the check allows of a scope's bundle.
LEMMA ConsoleDelivered ==
  ASSUME NEW q, NEW n \in Entities(q), ServesBrowser(q, n), CheckProject(q, FALSE),
         NEW s \in DOMAIN BundlesFor(q, n), BundlesFor(q, n)[s].kind = "client"
  PROVE  /\ BundlesFor(q, n)[s].value \in Clients(q)
              => (MonitorWatches(q, BundlesFor(q, n)[s].value) => s = "operator")
         /\ IsMonitor(q, n) => s # DefaultScope(q)
<1>1. ~ConsoleDeliveryErrors(q)
  BY Zenon DEF CheckProject, Validate
<1> QED BY <1>1, Zenon DEF ConsoleDeliveryErrors

(***************************************************************************)
(* The operations console is downloaded by operators and by nobody else,   *)
(* and a stranger at a monitor is given no client, in every checked        *)
(* project whose visitors are anonymous until they sign in.                *)
(***************************************************************************)
THEOREM ConsoleStaysInside ==
  ASSUME Named(p), GeneratorsKeysHold(p), DefaultScope(p) = "anonymous"
  PROVE  ConsoleIsOperatorsOnly
<1> SUFFICES ASSUME CheckProject(p, FALSE), NEW n \in Entities(p),
                    NEW s \in DOMAIN RenderMain(p, n).serves,
                    RenderMain(p, n).serves[s].kind = "client"
             PROVE  /\ MonitorWatches(p, RenderMain(p, n).serves[s].value) => s = "operator"
                    /\ IsMonitor(p, n) => s # "anonymous"
  BY Zenon DEF ConsoleIsOperatorsOnly, Checked
<1>1. RenderMain(p, n) # NoMain
  BY EveryMainIsWritten
<1>2. CASE IsEdge(p, n)
  <2>1. RenderMain(p, n).serves = BundlesFor(p, n)
    BY <1>1, <1>2, EdgeMain
  <2>2. BundlesFor(p, n)[s].value \in Clients(p)
    BY <1>2, <2>1, EdgesServeClients DEF Edges
  <2>3. MonitorWatches(p, BundlesFor(p, n)[s].value) => s = "operator"
    BY <1>2, <2>1, <2>2, ConsoleDelivered DEF ServesBrowser
  <2> QED BY <1>2, <2>1, <2>3, OneType
<1>3. CASE IsMonitor(p, n)
  <2>1. RenderMain(p, n).serves = MonitorBundleDefaults(p, n)
    BY <1>1, <1>3, MonitorMain
  <2>2. /\ s \in DOMAIN BundlesFor(p, n)
        /\ RenderMain(p, n).serves[s] = BundlesFor(p, n)[s]
        /\ \/ BundlesFor(p, n)[s].kind = "static"
           \/ BundlesFor(p, n)[s].value \in Clients(p)
    BY <2>1 DEF MonitorBundleDefaults
  <2>3. BundlesFor(p, n)[s].value \in Clients(p)
    BY <2>2
  <2> QED BY <1>3, <2>2, <2>3, ConsoleDelivered DEF ServesBrowser
<1>4. CASE ~IsEdge(p, n) /\ ~IsMonitor(p, n)
  BY <1>1, <1>4, ClientMain, ServiceMain
<1> QED BY <1>2, <1>3, <1>4

(***************************************************************************)
(* Where a client secret is read.                                          *)
(***************************************************************************)
LEMMA SecretsMain ==
  ASSUME NEW q, NEW n \in Entities(q), RenderMain(q, n) # NoMain
  PROVE  /\ IsEdge(q, n) => RenderMain(q, n).secrets =
                              IF IdentityEnabled(q, n) /\ ProviderEntity(q) = ""
                              THEN IdentityProviders(q) ELSE {}
         /\ IsClient(q, n) \/ IsMonitor(q, n) => RenderMain(q, n).secrets = {}
         /\ ~IsEdge(q, n) /\ ~IsClient(q, n) /\ ~IsMonitor(q, n)
              => RenderMain(q, n).secrets = IF ProviderEntity(q) = n
                                            THEN IdentityProviders(q) ELSE {}
<1>1. IsEdge(q, n) => RenderMain(q, n).secrets =
                        IF IdentityEnabled(q, n) /\ ProviderEntity(q) = ""
                        THEN IdentityProviders(q) ELSE {}
  BY EdgeMain
<1>2. IsClient(q, n) \/ IsMonitor(q, n) => RenderMain(q, n).secrets = {}
  BY ClientMain, MonitorMain
<1>3. ~IsEdge(q, n) /\ ~IsClient(q, n) /\ ~IsMonitor(q, n)
        => RenderMain(q, n).secrets = IF ProviderEntity(q) = n THEN IdentityProviders(q) ELSE {}
  BY ServiceMain
<1> QED BY <1>1, <1>2, <1>3

\* The two points that carry a sign-in to the entity that keeps the secrets.
LEMMA SignInPoints ==
  ASSUME NEW q, NEW name \in {"identity", "sessions"}, CheckProject(q, FALSE),
         ProviderEntity(q) # "", IdentityProviders(q) # {}
  PROVE  \E point \in ConnectPoints(q) :
           /\ point.name = name /\ point.owner = ProviderEntity(q) /\ point.framework
           /\ point.consumers = {n \in Edges(q) : IdentityEnabled(q, n)}
<1>1. ~ProviderEntityErrors(q)
  BY Zenon DEF CheckProject, Validate
<1>2. name \notin Owners(q)
  BY <1>1, Zenon DEF ProviderEntityErrors
<1>3. PICK signIns : signIns = {n \in Edges(q) : IdentityEnabled(q, n)}
  OBVIOUS
<1>4. PICK point : point = Implied(name, IF name = "identity" THEN "Identity"
                                         ELSE "SessionStore", ProviderEntity(q), signIns)
  OBVIOUS
<1>5. /\ point.name = name /\ point.owner = ProviderEntity(q)
      /\ point.consumers = signIns /\ point.framework
  BY <1>4 DEF Implied
<1>6. name \notin PointNames(AppPoints(q))
  <2>1. SUFFICES ASSUME NEW x \in AppPoints(q) PROVE x.name \in Owners(q)
    BY <1>2 DEF PointNames
  <2>2. PICK n \in Owners(q) : x = [name |-> n, owner |-> n, contract |-> n,
                                    consumers |-> q.point[n].consumers, framework |-> FALSE]
    BY DEF AppPoints
  <2>3. PICK consumers : consumers = q.point[n].consumers
    OBVIOUS
  <2> QED BY <2>2, <2>3
<1>7. point \in {Implied("identity", "Identity", ProviderEntity(q), signIns),
                 Implied("sessions", "SessionStore", ProviderEntity(q), signIns)}
  BY <1>4
<1>8. point \in AuthConnectPoints(q)
  BY <1>3, <1>5, <1>6, <1>7, Zenon DEF AuthConnectPoints
<1> QED BY <1>3, <1>5, <1>8 DEF ConnectPoints, WithAuth

(***************************************************************************)
(* A client secret is read in one place: in every checked project, where   *)
(* the entity that is to keep it is not the monitor.                       *)
(***************************************************************************)
THEOREM SecretsAreKeptOnce ==
  ASSUME Named(p), GeneratorsKeysHold(p), KeeperIsNoMonitor(p)
  PROVE  SecretsHaveOneKeeper
<1> SUFFICES ASSUME CheckProject(p, FALSE) PROVE SecretsHaveOneKeeper
  BY DEF SecretsHaveOneKeeper, Checked
<1>1. \A n \in Entities(p) : RenderMain(p, n) # NoMain
  BY EveryMainIsWritten
<1>2. PICK signIns : signIns = {n \in Edges(p) : IdentityEnabled(p, n)}
  OBVIOUS
<1>3. PICK keepers : keepers = {n \in Entities(p) : RenderMain(p, n).secrets # {}}
  OBVIOUS
<1>4. PICK owner : owner = ProviderEntity(p)
  OBVIOUS
<1> SUFFICES ASSUME signIns # {}
             PROVE  \/ keepers = signIns
                    \/ /\ keepers = {owner}
                       /\ {"identity", "sessions"} \subseteq RenderMain(p, owner).hosts
                       /\ \A n \in signIns : AuthAdoption(p, n) = {"identity", "sessions"}
  BY <1>2, <1>3, <1>4, Zenon DEF SecretsHaveOneKeeper
<1>5. IdentityProviders(p) # {}
  BY <1>2 DEF IdentityEnabled
<1>6. CASE owner = ""
  <2>1. ASSUME NEW n \in Entities(p)
        PROVE  RenderMain(p, n).secrets # {} <=> IsEdge(p, n) /\ IdentityEnabled(p, n)
    <3>1. n # ""
      BY DEF Named
    <3> QED BY <1>1, <1>4, <1>5, <1>6, <3>1, SecretsMain, OneType
  <2> QED BY <1>2, <1>3, <2>1 DEF Edges
<1>7. CASE owner # ""
  <2>1. ~ProviderEntityErrors(p)
    BY Zenon DEF CheckProject, Validate
  <2>2. owner \in Entities(p) /\ ~IsClient(p, owner) /\ ~IsEdge(p, owner)
    BY <1>4, <1>7, <2>1, Zenon DEF ProviderEntityErrors
  <2>3. ~IsMonitor(p, owner)
    BY <1>4, <2>2 DEF KeeperIsNoMonitor, Monitors
  <2>4. ASSUME NEW n \in Entities(p)
        PROVE  RenderMain(p, n).secrets # {} <=> n = owner
    BY <1>1, <1>4, <1>5, <1>7, <2>2, <2>3, SecretsMain
  <2>5. keepers = {owner}
    BY <1>3, <2>2, <2>4
  <2>6. RenderMain(p, owner).hosts = PointNames(OwnedBy(p, owner))
    BY <1>1, <2>2, MeshMain
  <2>7. ASSUME NEW name \in {"identity", "sessions"}
        PROVE  /\ name \in RenderMain(p, owner).hosts
               /\ \A n \in signIns : name \in AuthAdoption(p, n)
    <3>1. PICK point \in ConnectPoints(p) :
            /\ point.name = name /\ point.owner = owner /\ point.framework
            /\ point.consumers = signIns
      BY <1>2, <1>4, <1>5, <1>7, SignInPoints
    <3>2. point \in OwnedBy(p, owner)
      BY <3>1 DEF OwnedBy
    <3>3. name \in RenderMain(p, owner).hosts
      BY <2>6, <3>1, <3>2 DEF PointNames
    <3>4. ASSUME NEW n \in signIns
          PROVE  name \in AuthAdoption(p, n)
      <4>1. owner # n
        BY <1>2, <2>2 DEF Edges
      <4>2. point \in MeshConsumed(p, n)
        BY <3>1, <4>1 DEF MeshConsumed
      <4> QED BY <3>1, <4>2 DEF AuthAdoption
    <3> QED BY <3>3, <3>4
  <2>8. \A n \in signIns : AuthAdoption(p, n) \subseteq {"identity", "sessions"}
    BY DEF AuthAdoption
  <2> QED BY <2>5, <2>7, <2>8
<1> QED BY <1>6, <1>7

(***************************************************************************)
(* What the scaffolders leave alone.                                       *)
(***************************************************************************)
\* A project is a record of these.
Shaped(q) ==
  /\ q = [list |-> q.list, ent |-> q.ent, point |-> q.point, top |-> q.top, scopes |-> q.scopes,
          bundles |-> q.bundles, routes |-> q.routes, files |-> q.files, views |-> q.views,
          qml |-> q.qml]
  /\ q.list \in Seq(Names) /\ DOMAIN q.ent = Names /\ DOMAIN q.bundles = Names

\* The blocks of the file: there are scopes, and the keys a command writes into a block are
\* not there before it.
BlocksStand(top) ==
  /\ At(top, "scopes") = "block"
  /\ DOMAIN top \cap IdentityKeys # {} => "identity" \in DOMAIN top
  /\ DOMAIN top \cap MonitoringKeys # {} =>
       /\ {"monitoring", "monitoring.entity"} \subseteq DOMAIN top
       /\ top["monitoring"] = "block" /\ top["monitoring.entity"] \notin {"", "null"}

ScaffoldInv ==
  /\ Shaped(project)
  /\ project.list # <<>> => BlocksStand(project.top)
  /\ project = NoProject => project.list = <<>>

\* Which keys the identity section has (addauth.py `identity_section`).
LEMMA SectionKeys ==
  ASSUME NEW provider, NEW owner, NEW hook
  PROVE  /\ DOMAIN IdentitySection(provider, owner, hook) \subseteq IdentityKeys
         /\ "identity" \in DOMAIN IdentitySection(provider, owner, hook)
         /\ DOMAIN IdentitySection(provider, owner, hook) \cap MonitoringKeys = {}
         /\ "scopes" \notin DOMAIN IdentitySection(provider, owner, hook)
<1>1. DOMAIN IdentitySection("github", "", "") \cup DOMAIN IdentitySection("dev", "", "")
        = IdentityKeys
  BY DEF IdentityKeys
<1>2. DOMAIN IdentitySection(provider, owner, hook)
        = DOMAIN IdentitySection(IF provider = "dev" THEN "dev" ELSE "github", "", "")
  BY DEF IdentitySection, SetKeys
<1>3. /\ "identity" \in DOMAIN IdentitySection(provider, owner, hook)
      /\ DOMAIN IdentitySection(provider, owner, hook) \cap MonitoringKeys = {}
      /\ "scopes" \notin DOMAIN IdentitySection(provider, owner, hook)
  BY DEF IdentitySection, SetKeys, MonitoringKeys
<1> QED BY <1>1, <1>2, <1>3

\* Keys set that are none of a block's leave the block as it is (yamledit.py `set_key`).
LEMMA SetKeysReads ==
  ASSUME NEW block, NEW values
  PROVE  /\ DOMAIN SetKeys(block, values) = DOMAIN block \cup DOMAIN values
         /\ \A k \in DOMAIN values : SetKeys(block, values)[k] = values[k]
         /\ \A k \in DOMAIN block \ DOMAIN values : SetKeys(block, values)[k] = block[k]
BY DEF SetKeys

\* The identity section goes into a file that has no such block, and none of its keys.
LEMMA SectionAdds ==
  ASSUME NEW top, NEW provider, NEW owner, NEW hook, BlocksStand(top),
         "identity" \notin DOMAIN top
  PROVE  LET written == SetKeys(top, IdentitySection(provider, owner, hook))
         IN /\ BlocksStand(written)
            /\ \A k \in DOMAIN top : k \in DOMAIN written /\ written[k] = top[k]
<1>1. PICK section : section = IdentitySection(provider, owner, hook)
  OBVIOUS
<1>2. PICK written : written = SetKeys(top, section)
  OBVIOUS
<1>3. /\ DOMAIN section \subseteq IdentityKeys /\ "identity" \in DOMAIN section
      /\ DOMAIN section \cap MonitoringKeys = {} /\ "scopes" \notin DOMAIN section
  BY <1>1, SectionKeys
<1>4. /\ DOMAIN written = DOMAIN top \cup DOMAIN section
      /\ \A k \in DOMAIN top \ DOMAIN section : written[k] = top[k]
  BY <1>2, SetKeysReads, Zenon
<1>5. DOMAIN top \cap DOMAIN section = {}
  BY <1>3 DEF BlocksStand
<1>6. \A k \in DOMAIN top : k \in DOMAIN written /\ written[k] = top[k]
  BY <1>4, <1>5
<1>7. At(written, "scopes") = "block"
  BY <1>3, <1>4, <1>6 DEF BlocksStand, At
<1>8. DOMAIN written \cap MonitoringKeys # {} =>
        /\ {"monitoring", "monitoring.entity"} \subseteq DOMAIN written
        /\ written["monitoring"] = "block" /\ written["monitoring.entity"] \notin {"", "null"}
  <2>1. DOMAIN written \cap MonitoringKeys # {} => DOMAIN top \cap MonitoringKeys # {}
    BY <1>3, <1>4
  <2> QED BY <2>1, <1>6 DEF BlocksStand
<1>9. BlocksStand(written)
  BY <1>3, <1>4, <1>7, <1>8 DEF BlocksStand
<1> QED BY <1>1, <1>2, <1>6, <1>9

\* An author's block does (yamledit.py, and what YAML is).
LEMMA EditStands ==
  ASSUME NEW top, NEW values \in TopEdits, BlocksStand(top), BlocksAreWhole
  PROVE  BlocksStand(SetKeys(top, values))
<1>1. PICK written : written = SetKeys(top, values)
  OBVIOUS
<1>2. /\ DOMAIN written = DOMAIN top \cup DOMAIN values
      /\ \A k \in DOMAIN values : written[k] = values[k]
      /\ \A k \in DOMAIN top \ DOMAIN values : written[k] = top[k]
  BY <1>1 DEF SetKeys
<1>3. At(written, "scopes") = "block"
  BY <1>2 DEF BlocksStand, BlocksAreWhole, At
<1>4. DOMAIN written \cap IdentityKeys # {} => "identity" \in DOMAIN written
  BY <1>2 DEF BlocksStand, BlocksAreWhole
<1>5. DOMAIN written \cap MonitoringKeys # {} =>
        /\ {"monitoring", "monitoring.entity"} \subseteq DOMAIN written
        /\ written["monitoring"] = "block" /\ written["monitoring.entity"] \notin {"", "null"}
  <2>1. CASE DOMAIN values \cap MonitoringKeys # {}
    BY <1>2, <2>1 DEF BlocksAreWhole
  <2>2. CASE DOMAIN values \cap MonitoringKeys = {}
    <3>1. {"monitoring", "monitoring.entity"} \cap DOMAIN values = {}
      BY <2>2 DEF MonitoringKeys
    <3>2. DOMAIN written \cap MonitoringKeys # {} => DOMAIN top \cap MonitoringKeys # {}
      BY <1>2, <2>2
    <3> QED BY <1>2, <3>1, <3>2 DEF BlocksStand
  <2> QED BY <2>1, <2>2
<1> QED BY <1>1, <1>3, <1>4, <1>5 DEF BlocksStand

\* Not what YAML reads as nothing.
IsWritten(n) == n \notin {"", "null"}

\* The monitoring line is of a block that names its entity, or of one there was nothing of
\* (monitorscaffold.py `scaffold`).
LEMMA MonitoringAdds ==
  ASSUME NEW q, Shaped(q), BlocksStand(q.top), NEW n, IsWritten(n)
  PROVE  /\ Shaped(WithMonitoring(q, n))
         /\ BlocksStand(WithMonitoring(q, n).top)
         /\ \A k \in DOMAIN q.top : /\ k \in DOMAIN WithMonitoring(q, n).top
                                    /\ WithMonitoring(q, n).top[k] = q.top[k]
         /\ WithMonitoring(q, n) = [q EXCEPT !.top = WithMonitoring(q, n).top]
<1>1. PICK top : top = q.top
  OBVIOUS
<1>2. CASE MonitorEntity(q) # ""
  <2>1. WithMonitoring(q, n) = q
    BY <1>2 DEF WithMonitoring
  <2>2. q = [q EXCEPT !.top = q.top]
    BY DEF Shaped
  <2> QED BY <2>1, <2>2
<1>3. CASE MonitorEntity(q) = ""
  <2>1. DOMAIN top \cap MonitoringKeys = {}
    <3>1. ASSUME DOMAIN top \cap MonitoringKeys # {} PROVE FALSE
      <4>1. At(top, "monitoring") = "block"
        BY <1>1, <3>1 DEF BlocksStand, At
      <4>2. At(top, "monitoring.entity") # ""
        BY <1>1, <3>1 DEF BlocksStand, At
      <4> QED BY <1>1, <1>3, <4>1, <4>2 DEF MonitorEntity, Mapping
    <3> QED BY <3>1
  <2>2. PICK kept : kept = [k \in DOMAIN top \ MonitoringKeys |-> top[k]]
    OBVIOUS
  <2>3. PICK line : line = [k \in {"monitoring", "monitoring.entity"} |->
                              IF k = "monitoring" THEN "block" ELSE n]
    OBVIOUS
  <2>4. PICK written : written = SetKeys(kept, line)
    OBVIOUS
  <2>5. WithMonitoring(q, n) = [q EXCEPT !.top = written]
    BY <1>1, <1>3, <2>2, <2>3, <2>4 DEF WithMonitoring
  <2>6. /\ DOMAIN written = DOMAIN kept \cup DOMAIN line
        /\ \A k \in DOMAIN line : written[k] = line[k]
        /\ \A k \in DOMAIN kept \ DOMAIN line : written[k] = kept[k]
    BY <2>4 DEF SetKeys
  <2>7. DOMAIN kept = DOMAIN top /\ \A k \in DOMAIN top : kept[k] = top[k]
    BY <2>1, <2>2
  <2>8. /\ DOMAIN line = {"monitoring", "monitoring.entity"}
        /\ line["monitoring"] = "block" /\ line["monitoring.entity"] = n
    BY <2>3
  <2>9. DOMAIN top \cap DOMAIN line = {}
    BY <2>1, <2>8 DEF MonitoringKeys
  <2>10. \A k \in DOMAIN top : k \in DOMAIN written /\ written[k] = top[k]
    BY <2>6, <2>7, <2>9
  <2>11. BlocksStand(written)
    <3>1. At(written, "scopes") = "block"
      BY <1>1, <2>10 DEF BlocksStand, At
    <3>2. DOMAIN line \cap IdentityKeys = {}
      <4>1. ASSUME NEW provider \in {"github", "dev"}
            PROVE  DOMAIN IdentitySection(provider, "", "") \cap MonitoringKeys = {}
        BY SectionKeys
      <4>2. IdentityKeys \cap MonitoringKeys = {}
        BY <4>1, Zenon DEF IdentityKeys
      <4> QED BY <2>8, <4>2 DEF MonitoringKeys
    <3>3. DOMAIN written \cap IdentityKeys # {} => "identity" \in DOMAIN written
      BY <1>1, <2>6, <2>7, <2>10, <3>2 DEF BlocksStand
    <3> QED BY <2>6, <2>8, <3>1, <3>3 DEF BlocksStand, IsWritten
  <2>12. /\ [q EXCEPT !.top = written].top = written
         /\ Shaped([q EXCEPT !.top = written])
    <3>1. PICK r : r = [q EXCEPT !.top = written]
      OBVIOUS
    <3>2. r = [list |-> q.list, ent |-> q.ent, point |-> q.point, top |-> written,
               scopes |-> q.scopes, bundles |-> q.bundles, routes |-> q.routes,
               files |-> q.files, views |-> q.views, qml |-> q.qml]
      BY <3>1 DEF Shaped
    <3>3. /\ r.list = q.list /\ r.ent = q.ent /\ r.point = q.point /\ r.top = written
          /\ r.scopes = q.scopes /\ r.bundles = q.bundles /\ r.routes = q.routes
          /\ r.files = q.files /\ r.views = q.views /\ r.qml = q.qml
      BY <3>2
    <3>4. Shaped(r)
      BY <3>2, <3>3 DEF Shaped
    <3> QED BY <3>1, <3>3, <3>4
  <2> QED BY <1>1, <2>5, <2>10, <2>11, <2>12
<1> QED BY <1>2, <1>3

\* What was in a project is in it still: ScaffoldsOnlyAdd, said of two of them.
Keeps(q, r) ==
  /\ SubSeq(r.list, 1, Len(q.list)) = q.list
  /\ \A n \in Entities(q) : r.ent[n] = q.ent[n] /\ r.bundles[n] = q.bundles[n]
  /\ \A n \in Owners(q) : r.point[n] = q.point[n]
  /\ \A k \in DOMAIN q.top : k \in DOMAIN r.top /\ r.top[k] = q.top[k]
  /\ q.files \subseteq r.files /\ q.scopes \in {<<>>, r.scopes}

\* An entity appended (yamledit.py `append_item`).
LEMMA AppendedKeeps ==
  ASSUME NEW s \in Seq(Names), NEW n \in Names, NEW m \in Names
  PROVE  /\ Append(s, n) \in Seq(Names) /\ Append(s, n) # <<>>
         /\ SubSeq(Append(s, n), 1, Len(s)) = s
         /\ SubSeq(Append(Append(s, n), m), 1, Len(s)) = s
<1>1. ASSUME NEW t \in Seq(Names), Len(s) <= Len(t), \A i \in 1..Len(s) : t[i] = s[i]
      PROVE  SubSeq(t, 1, Len(s)) = s
  <2>1. /\ SubSeq(t, 1, Len(s)) \in Seq(Names) /\ Len(SubSeq(t, 1, Len(s))) = Len(s)
        /\ \A i \in 1..Len(s) : SubSeq(t, 1, Len(s))[i] = t[i]
    BY <1>1
  <2> QED BY <1>1, <2>1, SeqEqual
<1>2. /\ Append(s, n) \in Seq(Names) /\ Len(Append(s, n)) = Len(s) + 1
      /\ \A i \in 1..Len(s) : Append(s, n)[i] = s[i]
  OBVIOUS
<1>3. PICK t : t = Append(s, n)
  OBVIOUS
<1>4. /\ Append(t, m) \in Seq(Names) /\ Len(Append(t, m)) = Len(s) + 2
      /\ \A i \in 1..Len(s) : Append(t, m)[i] = s[i]
  BY <1>2, <1>3
<1>5. Append(s, n) # <<>>
  BY AppendProperties
<1>6. SubSeq(Append(s, n), 1, Len(s)) = s
  BY <1>1, <1>2
<1>7. SubSeq(Append(t, m), 1, Len(s)) = s
  BY <1>1, <1>4
<1> QED BY <1>2, <1>3, <1>5, <1>6, <1>7

\* The blocks of an entity and its file (addentity.py `scaffold`).
LEMMA WithEntityReads ==
  ASSUME NEW q, Shaped(q), NEW n \in Names, NEW block, NEW file
  PROVE  LET r == WithEntity(q, n, block, file)
         IN /\ Shaped(r) /\ r.list = Append(q.list, n)
            /\ r.top = q.top /\ r.point = q.point /\ r.scopes = q.scopes
            /\ r.bundles = q.bundles /\ r.files = q.files
            /\ \A m \in Names \ {n} : r.ent[m] = q.ent[m]
<1>1. PICK r : r = WithEntity(q, n, block, file)
  OBVIOUS
<1>2. r = [list |-> Append(q.list, n), ent |-> [q.ent EXCEPT ![n] = block], point |-> q.point,
           top |-> q.top, scopes |-> q.scopes, bundles |-> q.bundles, routes |-> q.routes,
           files |-> q.files, views |-> q.views, qml |-> [q.qml EXCEPT ![n] = file]]
  BY <1>1 DEF WithEntity, Shaped
<1>3. /\ r.list = Append(q.list, n) /\ r.ent = [q.ent EXCEPT ![n] = block]
      /\ r.point = q.point /\ r.top = q.top /\ r.scopes = q.scopes /\ r.bundles = q.bundles
      /\ r.routes = q.routes /\ r.files = q.files /\ r.views = q.views
      /\ r.qml = [q.qml EXCEPT ![n] = file]
  BY <1>2
<1>4. q.list \in Seq(Names) /\ DOMAIN q.ent = Names /\ DOMAIN q.bundles = Names
  BY DEF Shaped
<1>5. /\ DOMAIN r.ent = Names /\ \A m \in Names \ {n} : r.ent[m] = q.ent[m]
  BY <1>3, <1>4
<1>6. r.list \in Seq(Names)
  BY <1>3, <1>4
<1>7. Shaped(r)
  BY <1>2, <1>3, <1>4, <1>5, <1>6, Zenon DEF Shaped
<1> QED BY <1>1, <1>3, <1>5, <1>7, Zenon

\* Where the entities are.
LEMMA EntitiesNamed ==
  ASSUME NEW q, Shaped(q)
  PROVE  Entities(q) \subseteq Names
BY DEF Shaped, Entities, ToSet

\* addentity.py `scaffold`.
LEMMA AddEntityKeeps ==
  ASSUME ScaffoldInv, NEW t \in AddedTypes, AddEntity(t[1], t[2], t[3])
  PROVE  ScaffoldInv' /\ Keeps(project, project')
<1>1. PICK n, block : /\ n = t[1] /\ block = EntityBlock(n, t[2], t[3])
  OBVIOUS
<1>2. n \in Names
  BY <1>1, ScaffoldAssumption
<1>3. /\ project.list # <<>> /\ n \notin Entities(project)
      /\ project' = WithEntity(project, n, block, "singleton")
  BY <1>1, Zenon DEF AddEntity, Ends, p
<1>4. Shaped(project) /\ BlocksStand(project.top)
  BY <1>3 DEF ScaffoldInv
<1>5. /\ Shaped(project') /\ project'.list = Append(project.list, n)
      /\ project'.top = project.top /\ project'.point = project.point
      /\ project'.scopes = project.scopes /\ project'.bundles = project.bundles
      /\ project'.files = project.files
      /\ \A m \in Names \ {n} : project'.ent[m] = project.ent[m]
  <2>1. PICK q : q = project
    OBVIOUS
  <2>2. PICK r : r = WithEntity(q, n, block, "singleton")
    OBVIOUS
  <2>3. /\ Shaped(r) /\ r.list = Append(q.list, n)
        /\ r.top = q.top /\ r.point = q.point /\ r.scopes = q.scopes
        /\ r.bundles = q.bundles /\ r.files = q.files
        /\ \A m \in Names \ {n} : r.ent[m] = q.ent[m]
    BY <1>2, <1>4, <2>1, <2>2, WithEntityReads
  <2>4. project' = r
    BY <1>3, <2>1, <2>2
  <2> QED BY <2>1, <2>3, <2>4, Zenon
<1>6. /\ SubSeq(project'.list, 1, Len(project.list)) = project.list
      /\ project'.list # <<>>
  BY <1>2, <1>4, <1>5, AppendedKeeps DEF Shaped
<1>7. \A m \in Entities(project) : m \in Names \ {n}
  BY <1>3, <1>4, EntitiesNamed
<1>8. Keeps(project, project')
  BY <1>5, <1>6, <1>7 DEF Keeps
<1>9. project' # NoProject
  BY <1>6 DEF NoProject
<1> QED BY <1>4, <1>5, <1>6, <1>8, <1>9 DEF ScaffoldInv

\* monitorscaffold.py `scaffold`.
LEMMA AddMonitorKeeps ==
  ASSUME ScaffoldInv, NEW n \in MonitorNames, AddMonitor(n)
  PROVE  ScaffoldInv' /\ Keeps(project, project')
<1>1. PICK console : console = ConsoleOf[n]
  OBVIOUS
<1>2. n \in Names /\ IsWritten(n) /\ console \in Names
  BY <1>1, ScaffoldAssumption DEF IsWritten
<1>3. PICK q : q = project
  OBVIOUS
<1>4. PICK q1, block, file :
        q1 = WithEntity(q, n, block, file) /\ block = MonitorBlock(q) /\ file = q.qml[n]
  OBVIOUS
<1>5. PICK q2, view : q2 = WithEntity(q1, console, view, "window") /\ view = ConsoleBlock(n)
  OBVIOUS
<1>6. PICK q3 : q3 = WithMonitoring(q2, n)
  OBVIOUS
<1>7. PICK bundles : bundles = BundlesBlock(console)
  OBVIOUS
<1>8. /\ q.list # <<>> /\ n \notin Entities(q) /\ console \notin Entities(q)
      /\ project' = [q3 EXCEPT !.bundles[n] = bundles, !.files = @ \cup {"signin/"}]
  BY <1>1, <1>3, <1>4, <1>5, <1>6, <1>7, Zenon DEF AddMonitor, Ends, p
<1>9. Shaped(q) /\ BlocksStand(q.top)
  BY <1>3, <1>8 DEF ScaffoldInv
<1>10. /\ Shaped(q1) /\ q1.list = Append(q.list, n)
       /\ q1.top = q.top /\ q1.point = q.point /\ q1.scopes = q.scopes
       /\ q1.bundles = q.bundles /\ q1.files = q.files
       /\ \A m \in Names \ {n} : q1.ent[m] = q.ent[m]
  <2>1. q1 = WithEntity(q, n, block, file)
    BY <1>4
  <2> QED BY <1>2, <1>9, <2>1, WithEntityReads
<1>11. /\ Shaped(q2) /\ q2.list = Append(q1.list, console)
       /\ q2.top = q1.top /\ q2.point = q1.point /\ q2.scopes = q1.scopes
       /\ q2.bundles = q1.bundles /\ q2.files = q1.files
       /\ \A m \in Names \ {console} : q2.ent[m] = q1.ent[m]
  <2>1. q2 = WithEntity(q1, console, view, "window") /\ Shaped(q1)
    BY <1>5, <1>10
  <2> QED BY <1>2, <2>1, WithEntityReads
<1>12. /\ Shaped(q3) /\ BlocksStand(q3.top)
       /\ \A k \in DOMAIN q2.top : k \in DOMAIN q3.top /\ q3.top[k] = q2.top[k]
       /\ q3 = [q2 EXCEPT !.top = q3.top]
  <2>1. Shaped(q2) /\ BlocksStand(q2.top)
    BY <1>9, <1>10, <1>11
  <2>2. /\ Shaped(WithMonitoring(q2, n)) /\ BlocksStand(WithMonitoring(q2, n).top)
        /\ \A k \in DOMAIN q2.top : /\ k \in DOMAIN WithMonitoring(q2, n).top
                                    /\ WithMonitoring(q2, n).top[k] = q2.top[k]
        /\ WithMonitoring(q2, n) = [q2 EXCEPT !.top = WithMonitoring(q2, n).top]
    BY <1>2, <2>1, MonitoringAdds
  <2> QED BY <1>6, <2>2
<1>13. /\ q3.list = q2.list /\ q3.ent = q2.ent /\ q3.point = q2.point /\ q3.scopes = q2.scopes
       /\ q3.bundles = q2.bundles /\ q3.files = q2.files
  <2>1. PICK top : top = q3.top
    OBVIOUS
  <2>2. q3 = [list |-> q2.list, ent |-> q2.ent, point |-> q2.point, top |-> top,
              scopes |-> q2.scopes, bundles |-> q2.bundles, routes |-> q2.routes,
              files |-> q2.files, views |-> q2.views, qml |-> q2.qml]
    BY <1>11, <1>12, <2>1 DEF Shaped
  <2> QED BY <2>2
<1>14. PICK r : r = [q3 EXCEPT !.bundles[n] = bundles, !.files = @ \cup {"signin/"}]
  OBVIOUS
<1>15. r = [list |-> q3.list, ent |-> q3.ent, point |-> q3.point, top |-> q3.top,
            scopes |-> q3.scopes, bundles |-> [q3.bundles EXCEPT ![n] = bundles],
            routes |-> q3.routes, files |-> q3.files \cup {"signin/"}, views |-> q3.views,
            qml |-> q3.qml]
  BY <1>12, <1>14 DEF Shaped
<1>16. /\ r.list = q3.list /\ r.ent = q3.ent /\ r.point = q3.point /\ r.top = q3.top
       /\ r.scopes = q3.scopes /\ r.bundles = [q3.bundles EXCEPT ![n] = bundles]
       /\ r.routes = q3.routes /\ r.files = q3.files \cup {"signin/"} /\ r.views = q3.views
       /\ r.qml = q3.qml
  BY <1>15
<1>17. Shaped(r)
  <2>1. DOMAIN r.bundles = Names
    BY <1>12, <1>16 DEF Shaped
  <2>2. r.list \in Seq(Names) /\ DOMAIN r.ent = Names
    BY <1>12, <1>16 DEF Shaped
  <2> QED BY <1>15, <1>16, <2>1, <2>2, Zenon DEF Shaped
<1>18. /\ SubSeq(r.list, 1, Len(q.list)) = q.list
       /\ r.list # <<>>
  <2>1. q.list \in Seq(Names) /\ q1.list \in Seq(Names)
    BY <1>9, <1>10 DEF Shaped
  <2>2. r.list = Append(Append(q.list, n), console)
    BY <1>10, <1>11, <1>13, <1>16, Zenon
  <2>3. Append(q1.list, console) # <<>>
    BY <1>2, <2>1, AppendedKeeps
  <2>4. SubSeq(Append(Append(q.list, n), console), 1, Len(q.list)) = q.list
    BY <1>2, <2>1, AppendedKeeps
  <2> QED BY <1>10, <2>2, <2>3, <2>4, Zenon
<1>19. \A m \in Entities(q) : m \in Names /\ m # n /\ m # console
  BY <1>8, <1>9, EntitiesNamed
<1>20. \A m \in Entities(q) : r.ent[m] = q.ent[m] /\ r.bundles[m] = q.bundles[m]
  <2>1. DOMAIN q3.bundles = Names
    BY <1>12 DEF Shaped
  <2> QED BY <1>10, <1>11, <1>13, <1>16, <1>19, <2>1
<1>21. Keeps(q, r)
  BY <1>10, <1>11, <1>12, <1>13, <1>16, <1>18, <1>20 DEF Keeps
<1>22. r # NoProject
  BY <1>18 DEF NoProject
<1>23. project' = r
  BY <1>8, <1>14
<1> QED BY <1>3, <1>12, <1>16, <1>17, <1>21, <1>22, <1>23 DEF ScaffoldInv

\* addauth.py `scaffold`.
LEMMA AddAuthKeeps ==
  ASSUME ScaffoldInv, NEW provider, NEW owner, AddAuth(provider, owner)
  PROVE  ScaffoldInv' /\ Keeps(project, project')
<1>1. PICK q : q = project
  OBVIOUS
<1>2. PICK hook : hook = HookPath(q)
  OBVIOUS
<1>3. PICK written : written = SetKeys(q.top, IdentitySection(provider, owner, hook))
  OBVIOUS
<1>4. q.list # <<>> /\ "identity" \notin DOMAIN q.top
  BY <1>1, Zenon DEF AddAuth, p
<1>5. Shaped(q) /\ BlocksStand(q.top)
  BY <1>1, <1>4 DEF ScaffoldInv
<1>6. At(q.top, "scopes") = "block"
  BY <1>5 DEF BlocksStand
<1>7. project' = [q EXCEPT !.top = written, !.scopes = @, !.files = @ \cup {hook}]
  BY <1>1, <1>2, <1>3, <1>6, Zenon DEF AddAuth, p
<1>8. /\ BlocksStand(written)
      /\ \A k \in DOMAIN q.top : k \in DOMAIN written /\ written[k] = q.top[k]
  BY <1>3, <1>4, <1>5, SectionAdds
<1>9. PICK r : r = [q EXCEPT !.top = written, !.scopes = @, !.files = @ \cup {hook}]
  OBVIOUS
<1>10. r = [list |-> q.list, ent |-> q.ent, point |-> q.point, top |-> written,
            scopes |-> q.scopes, bundles |-> q.bundles, routes |-> q.routes,
            files |-> q.files \cup {hook}, views |-> q.views, qml |-> q.qml]
  BY <1>5, <1>9 DEF Shaped
<1>11. /\ r.list = q.list /\ r.ent = q.ent /\ r.point = q.point /\ r.top = written
       /\ r.scopes = q.scopes /\ r.bundles = q.bundles /\ r.routes = q.routes
       /\ r.files = q.files \cup {hook} /\ r.views = q.views /\ r.qml = q.qml
  BY <1>10
<1>12. Shaped(r)
  BY <1>5, <1>10, <1>11, Zenon DEF Shaped
<1>13. SubSeq(r.list, 1, Len(q.list)) = q.list
  BY <1>5, <1>11, SubSeqFull DEF Shaped
<1>14. Keeps(q, r)
  BY <1>8, <1>11, <1>13 DEF Keeps
<1>15. project' = r
  BY <1>7, <1>9
<1>16. r # NoProject
  BY <1>4, <1>11 DEF NoProject
<1> QED BY <1>1, <1>8, <1>11, <1>12, <1>14, <1>15, <1>16 DEF ScaffoldInv

\* addcontract.py `scaffold_connect_point`.
LEMMA AddConnectPointKeeps ==
  ASSUME ScaffoldInv, NEW owner, NEW consumers, AddConnectPoint(owner, consumers)
  PROVE  ScaffoldInv' /\ Keeps(project, project')
<1>1. PICK q : q = project
  OBVIOUS
<1>2. PICK point : point = [consumers |-> consumers, front |-> FALSE, tiers |-> Blank,
                            members |-> StarterMembers, set |-> SetKey(Blank, "export", "block")]
  OBVIOUS
<1>3. PICK points : points = [n \in DOMAIN q.point \cup {owner} |->
                                IF n = owner THEN point ELSE q.point[n]]
  OBVIOUS
<1>4. PICK qml : qml = [q.qml EXCEPT ![owner] = IF @ \in {"none", "singleton"}
                                                THEN "source" ELSE @]
  OBVIOUS
<1>5. q.list # <<>> /\ owner \notin Owners(q)
  BY <1>1, Zenon DEF AddConnectPoint, p
<1>6. Shaped(q) /\ BlocksStand(q.top)
  BY <1>1, <1>5 DEF ScaffoldInv
<1>7. PICK r : r = project'
  OBVIOUS
<1>8. r = [list |-> q.list, ent |-> q.ent, point |-> points, top |-> q.top,
           scopes |-> q.scopes, bundles |-> q.bundles, routes |-> q.routes,
           files |-> q.files, views |-> q.views, qml |-> qml]
  BY <1>1, <1>2, <1>3, <1>4, <1>6, <1>7 DEF AddConnectPoint, p, Shaped
<1>9. /\ r.list = q.list /\ r.ent = q.ent /\ r.point = points /\ r.top = q.top
      /\ r.scopes = q.scopes /\ r.bundles = q.bundles /\ r.routes = q.routes
      /\ r.files = q.files /\ r.views = q.views /\ r.qml = qml
  BY <1>8
<1>10. Shaped(r)
  BY <1>6, <1>8, <1>9, Zenon DEF Shaped
<1>11. SubSeq(r.list, 1, Len(q.list)) = q.list
  BY <1>6, <1>9, SubSeqFull DEF Shaped
<1>12. \A n \in Owners(q) : r.point[n] = q.point[n]
  BY <1>3, <1>5, <1>9 DEF Owners
<1>13. Keeps(q, r)
  BY <1>9, <1>11, <1>12 DEF Keeps
<1>14. r # NoProject
  BY <1>5, <1>9 DEF NoProject
<1> QED BY <1>1, <1>6, <1>7, <1>9, <1>10, <1>13, <1>14 DEF ScaffoldInv

\* newproject.py `scaffold`: both entities, and the blocks.
LEMMA NewProjectStands ==
  ASSUME ScaffoldInv, NEW auth \in BOOLEAN, NewProject(auth)
  PROVE  ScaffoldInv'
<1>1. PICK edge : edge = [k \in {"type", "tls"} \cup (IF auth THEN {"identity"} ELSE {}) |->
                            CASE k = "type" -> "web_edge" [] k = "tls" -> "block" [] OTHER -> "true"]
  OBVIOUS
<1>2. PICK top : top = [k \in {"scopes", "scopes.hierarchical", "scopes.default", "security",
                               "security.allowed_origins", "build.client_threads", "privacy"} |->
                          CASE k = "scopes.hierarchical" -> "true"
                            [] k = "scopes.default" -> "anonymous"
                            [] k = "security.allowed_origins" -> "list"
                            [] k = "build.client_threads" -> "single"
                            [] OTHER -> "block"]
  OBVIOUS
<1>3. PICK q1, client : /\ client = SetKey(Blank, "type", "client")
                        /\ q1 = WithEntity(NoProject, "app", client, "window")
  OBVIOUS
<1>4. PICK q2 : q2 = WithEntity(q1, "edge", edge, "singleton")
  OBVIOUS
<1>5. PICK r : r = [q2 EXCEPT !.top = top, !.scopes = ScaffoldScopes]
  OBVIOUS
<1>6. project' = r
  BY <1>1, <1>2, <1>3, <1>4, <1>5, Zenon DEF NewProject, Ends
<1>7. Shaped(NoProject)
  BY DEF NoProject, Shaped
<1>8. "app" \in Names /\ "edge" \in Names
  BY ScaffoldAssumption
<1>9. Shaped(q1) /\ q1.list = Append(NoProject.list, "app")
  BY <1>3, <1>7, <1>8, WithEntityReads
<1>10. Shaped(q2) /\ q2.list = Append(q1.list, "edge")
  BY <1>4, <1>8, <1>9, WithEntityReads
<1>11. r = [list |-> q2.list, ent |-> q2.ent, point |-> q2.point, top |-> top,
            scopes |-> ScaffoldScopes, bundles |-> q2.bundles, routes |-> q2.routes,
            files |-> q2.files, views |-> q2.views, qml |-> q2.qml]
  BY <1>5, <1>10 DEF Shaped
<1>12. /\ r.list = q2.list /\ r.ent = q2.ent /\ r.point = q2.point /\ r.top = top
       /\ r.scopes = ScaffoldScopes /\ r.bundles = q2.bundles /\ r.routes = q2.routes
       /\ r.files = q2.files /\ r.views = q2.views /\ r.qml = q2.qml
  BY <1>11
<1>13. Shaped(r)
  BY <1>10, <1>11, <1>12, Zenon DEF Shaped
<1>14. r.list # <<>>
  <2>1. q1.list \in Seq(Names)
    BY <1>9 DEF Shaped
  <2> QED BY <1>8, <1>10, <1>12, <2>1, AppendProperties
<1>15. BlocksStand(top)
  <2>1. At(top, "scopes") = "block"
    BY <1>2 DEF At
  <2>2. DOMAIN top \cap MonitoringKeys = {}
    BY <1>2 DEF MonitoringKeys
  <2>3. ASSUME NEW provider \in {"github", "dev"}
        PROVE  DOMAIN top \cap DOMAIN IdentitySection(provider, "", "") = {}
    BY <1>2 DEF IdentitySection, SetKeys
  <2>4. DOMAIN top \cap IdentityKeys = {}
    BY <2>3 DEF IdentityKeys
  <2> QED BY <2>1, <2>2, <2>4 DEF BlocksStand
<1>16. r # NoProject
  BY <1>14 DEF NoProject
<1> QED BY <1>6, <1>12, <1>13, <1>15, <1>16 DEF ScaffoldInv

\* An author's edit of anything but the top level leaves the list and the blocks.
LEMMA AuthorStands ==
  ASSUME ScaffoldInv, BlocksAreWhole, Author
  PROVE  ScaffoldInv'
<1>1. PICK q : q = project
  OBVIOUS
<1>2. PICK r : r = project'
  OBVIOUS
<1>3. Shaped(q) /\ (q.list # <<>> => BlocksStand(q.top))
  BY <1>1 DEF ScaffoldInv
<1>4. \A n \in Entities(q) : q.list # <<>>
  BY <1>3 DEF Entities, ToSet
<1>5. /\ q.list # <<>> /\ Shaped(r) /\ r.list = q.list
      /\ r.top = q.top \/ \E values \in TopEdits : r.top = SetKeys(q.top, values)
  <2>1. ASSUME NEW n, NEW values, EditEntity(n, values)
        PROVE  <1>5!:
    <3>1. PICK ent : ent = [q.ent EXCEPT ![n] = SetKeys(@, values)]
      OBVIOUS
    <3>2. n \in Entities(q) /\ r = [q EXCEPT !.ent = ent]
      BY <1>1, <1>2, <1>3, <2>1, <3>1 DEF EditEntity, p, Shaped
    <3>3. r = [list |-> q.list, ent |-> ent, point |-> q.point, top |-> q.top,
               scopes |-> q.scopes, bundles |-> q.bundles, routes |-> q.routes,
               files |-> q.files, views |-> q.views, qml |-> q.qml]
      BY <1>3, <3>2 DEF Shaped
    <3>4. /\ r.list = q.list /\ r.ent = ent /\ r.point = q.point /\ r.top = q.top
          /\ r.scopes = q.scopes /\ r.bundles = q.bundles /\ r.routes = q.routes
          /\ r.files = q.files /\ r.views = q.views /\ r.qml = q.qml
      BY <3>3
    <3>5. DOMAIN ent = Names
      BY <1>3, <3>1 DEF Shaped
    <3>6. Shaped(r)
      BY <1>3, <3>3, <3>4, <3>5, Zenon DEF Shaped
    <3> QED BY <1>4, <3>2, <3>4, <3>6
  <2>2. ASSUME NEW values \in TopEdits, EditTop(values)
        PROVE  <1>5!:
    <3>1. PICK top : top = SetKeys(q.top, values)
      OBVIOUS
    <3>2. q.list # <<>> /\ r = [q EXCEPT !.top = top]
      BY <1>1, <1>2, <2>2, <3>1, Zenon DEF EditTop, p
    <3>3. r = [list |-> q.list, ent |-> q.ent, point |-> q.point, top |-> top,
               scopes |-> q.scopes, bundles |-> q.bundles, routes |-> q.routes,
               files |-> q.files, views |-> q.views, qml |-> q.qml]
      BY <1>3, <3>2 DEF Shaped
    <3>4. /\ r.list = q.list /\ r.ent = q.ent /\ r.point = q.point /\ r.top = top
          /\ r.scopes = q.scopes /\ r.bundles = q.bundles /\ r.routes = q.routes
          /\ r.files = q.files /\ r.views = q.views /\ r.qml = q.qml
      BY <3>3
    <3>5. Shaped(r)
      BY <1>3, <3>3, <3>4, Zenon DEF Shaped
    <3> QED BY <3>1, <3>2, <3>4, <3>5
  <2>3. ASSUME NEW owner, NEW point, WritePoint(owner, point)
        PROVE  <1>5!:
    <3>1. PICK points, qml :
            /\ points = [n \in DOMAIN q.point \cup {owner} |->
                           IF n = owner THEN point ELSE q.point[n]]
            /\ qml = [q.qml EXCEPT ![owner] = IF point.front THEN @ ELSE "source"]
      OBVIOUS
    <3>2. /\ owner \in Entities(q)
          /\ r = [list |-> q.list, ent |-> q.ent, point |-> points, top |-> q.top,
               scopes |-> q.scopes, bundles |-> q.bundles, routes |-> q.routes,
               files |-> q.files, views |-> q.views, qml |-> qml]
      BY <1>1, <1>2, <1>3, <2>3, <3>1 DEF WritePoint, p, Shaped
    <3>3. /\ r.list = q.list /\ r.ent = q.ent /\ r.point = points /\ r.top = q.top
          /\ r.scopes = q.scopes /\ r.bundles = q.bundles /\ r.routes = q.routes
          /\ r.files = q.files /\ r.views = q.views /\ r.qml = qml
      BY <3>2
    <3>4. Shaped(r)
      BY <1>3, <3>2, <3>3, Zenon DEF Shaped
    <3> QED BY <1>4, <3>2, <3>3, <3>4
  <2>4. ASSUME NEW n, NEW bundles, WriteBundles(n, bundles)
        PROVE  <1>5!:
    <3>1. PICK served : served = [q.bundles EXCEPT ![n] = bundles]
      OBVIOUS
    <3>2. /\ n \in Entities(q)
          /\ r = [list |-> q.list, ent |-> q.ent, point |-> q.point, top |-> q.top,
               scopes |-> q.scopes, bundles |-> served, routes |-> q.routes,
               files |-> q.files, views |-> q.views, qml |-> q.qml]
      BY <1>1, <1>2, <1>3, <2>4, <3>1 DEF WriteBundles, p, Shaped
    <3>3. /\ r.list = q.list /\ r.ent = q.ent /\ r.point = q.point /\ r.top = q.top
          /\ r.scopes = q.scopes /\ r.bundles = served /\ r.routes = q.routes
          /\ r.files = q.files /\ r.views = q.views /\ r.qml = q.qml
      BY <3>2
    <3>4. DOMAIN served = Names
      BY <1>3, <3>1 DEF Shaped
    <3>5. Shaped(r)
      BY <1>3, <3>2, <3>3, <3>4, Zenon DEF Shaped
    <3> QED BY <1>4, <3>2, <3>3, <3>5
  <2>5. ASSUME NEW routes, WriteRoutes(routes)
        PROVE  <1>5!:
    <3>1. PICK views : views = {<<"app", x.view>> : x \in {y \in routes : y.view # ""}}
      OBVIOUS
    <3>2. q.list # <<>> /\ r = [q EXCEPT !.routes = routes, !.views = views]
      BY <1>1, <1>2, <2>5, <3>1, Zenon DEF WriteRoutes, p
    <3>3. r = [list |-> q.list, ent |-> q.ent, point |-> q.point, top |-> q.top,
               scopes |-> q.scopes, bundles |-> q.bundles, routes |-> routes,
               files |-> q.files, views |-> views, qml |-> q.qml]
      BY <1>3, <3>2 DEF Shaped
    <3>4. /\ r.list = q.list /\ r.ent = q.ent /\ r.point = q.point /\ r.top = q.top
          /\ r.scopes = q.scopes /\ r.bundles = q.bundles /\ r.routes = routes
          /\ r.files = q.files /\ r.views = views /\ r.qml = q.qml
      BY <3>3
    <3>5. Shaped(r)
      BY <1>3, <3>3, <3>4, Zenon DEF Shaped
    <3> QED BY <3>2, <3>4, <3>5
  <2> QED BY <2>1, <2>2, <2>3, <2>4, <2>5 DEF Author
<1>6. BlocksStand(r.top)
  BY <1>3, <1>5, EditStands
<1>7. r # NoProject
  BY <1>5 DEF NoProject
<1> QED BY <1>2, <1>5, <1>6, <1>7 DEF ScaffoldInv

\* A command keeps what there is.
LEMMA CommandKeeps ==
  ASSUME ScaffoldInv, RunCommand
  PROVE  ScaffoldInv' /\ Keeps(project, project')
BY AddEntityKeeps, AddMonitorKeeps, AddAuthKeeps, AddConnectPointKeeps, Zenon DEF RunCommand

\* A project has the shape the commands write, and the keys of a block stand with the block
\* (newproject.py, addauth.py, monitorscaffold.py): of every project, for every set of entities
\* and whatever the author writes at the top level that is a block with its keys.
THEOREM ScaffoldInvariant ==
  ASSUME BlocksAreWhole
  PROVE  Spec => []ScaffoldInv
<1>1. Init => ScaffoldInv
  BY DEF Init, ScaffoldInv, Shaped, NoProject
<1>2. ScaffoldInv /\ [Next]_vars => ScaffoldInv'
  <2>1. ASSUME ScaffoldInv, UNCHANGED vars PROVE ScaffoldInv'
    BY <2>1 DEF vars, ScaffoldInv
  <2>2. ASSUME ScaffoldInv, Next PROVE ScaffoldInv'
    BY <2>2, NewProjectStands, CommandKeeps, AuthorStands, Zenon DEF Next
  <2> QED BY <2>1, <2>2
<1> QED BY <1>1, <1>2, PTL DEF Spec

\* A command adds to a project and takes nothing from it (addentity.py, addauth.py,
\* addcontract.py, monitorscaffold.py): ScaffoldsOnlyAdd, for every set of entities. The
\* hypothesis is needed: a monitoring block that names no entity is lost to `add monitor`.
THEOREM ScaffoldsAdd ==
  ASSUME BlocksAreWhole
  PROVE  Spec => ScaffoldsOnlyAdd
<1>1. ScaffoldInv /\ [Next]_vars =>
        [RunCommand /\ project # NoProject =>
           /\ SubSeq(project'.list, 1, Len(p.list)) = p.list
           /\ \A n \in Entities(p) : project'.ent[n] = p.ent[n] /\ project'.bundles[n] = p.bundles[n]
           /\ \A n \in Owners(p) : project'.point[n] = p.point[n]
           /\ \A k \in DOMAIN p.top : k \in DOMAIN project'.top /\ project'.top[k] = p.top[k]
           /\ p.files \subseteq project'.files /\ p.scopes \in {<<>>, project'.scopes}]_vars
  <2> SUFFICES ASSUME ScaffoldInv, RunCommand
               PROVE  /\ SubSeq(project'.list, 1, Len(p.list)) = p.list
                      /\ \A n \in Entities(p) :
                           project'.ent[n] = p.ent[n] /\ project'.bundles[n] = p.bundles[n]
                      /\ \A n \in Owners(p) : project'.point[n] = p.point[n]
                      /\ \A k \in DOMAIN p.top : k \in DOMAIN project'.top /\ project'.top[k] = p.top[k]
                      /\ p.files \subseteq project'.files /\ p.scopes \in {<<>>, project'.scopes}
    OBVIOUS
  <2>1. Keeps(project, project')
    BY CommandKeeps
  <2>2. SubSeq(project'.list, 1, Len(p.list)) = p.list
    BY <2>1, Zenon DEF Keeps, p
  <2>3. \A n \in Entities(p) : project'.ent[n] = p.ent[n] /\ project'.bundles[n] = p.bundles[n]
    BY <2>1, Zenon DEF Keeps, p
  <2>4. \A n \in Owners(p) : project'.point[n] = p.point[n]
    BY <2>1, Zenon DEF Keeps, p
  <2>5. \A k \in DOMAIN p.top : k \in DOMAIN project'.top /\ project'.top[k] = p.top[k]
    BY <2>1, Zenon DEF Keeps, p
  <2>6. p.files \subseteq project'.files /\ p.scopes \in {<<>>, project'.scopes}
    BY <2>1, Zenon DEF Keeps, p
  <2> QED BY <2>2, <2>3, <2>4, <2>5, <2>6, Zenon
<1>2. Spec => []ScaffoldInv
  BY ScaffoldInvariant
<1> QED BY <1>1, <1>2, PTL DEF Spec, ScaffoldsOnlyAdd

(***************************************************************************)
(* Folds. A fold is a recursive function, and what holds of it is shown by *)
(* the least step at which it would not.                                   *)
(***************************************************************************)
NatLess == {pair \in Nat \X Nat : pair[1] < pair[2]}

LEMMA LeastNumber ==
  ASSUME NEW S \in SUBSET Nat, S # {}
  PROVE  \E n \in S : \A m \in S : n <= m
<1>1. IsWellFoundedOn(NatLess, Nat)
  BY NatLessThanWellFounded, Zenon DEF OpToRel, NatLess
<1>2. PICK n \in S : \A m \in S : ~ (<<m, n>> \in NatLess)
  BY <1>1, WFMin
<1>3. \A m \in S : ~ (m < n)
  BY <1>2 DEF NatLess
<1> QED BY <1>3

LEMMA UpTo ==
  ASSUME NEW N \in Nat, NEW Good, 0 \in Good,
         \A n \in 1..N : n - 1 \in Good => n \in Good
  PROVE  \A n \in 0..N : n \in Good
<1> DEFINE Bad == {n \in 0..N : n \notin Good}
<1>1. SUFFICES ASSUME Bad # {} PROVE FALSE
  OBVIOUS
<1>2. Bad \in SUBSET Nat
  OBVIOUS
<1>3. PICK n \in Bad : \A m \in Bad : n <= m
  <2> HIDE DEF Bad
  <2> QED BY <1>1, <1>2, LeastNumber
<1>4. n # 0 /\ n - 1 \in 0..N
  BY <1>3
<1>5. n - 1 \notin Bad
  BY <1>3, <1>4
<1> QED BY <1>3, <1>4, <1>5

\* The roles of one sighting folded into those of another.
RolesRun(first, second, f, n) ==
  f = [k \in 0..n |-> IF k = 0 THEN first ELSE RoleFound(f[k - 1], second[k])]

LEMMA RolesUnfold ==
  ASSUME NEW first, NEW second, Len(second) \in Nat
  PROVE  \E f : /\ RolesRun(first, second, f, Len(second))
                /\ BetterRoles(first, second) = f[Len(second)]
<1> DEFINE next(x, k) == RoleFound(x, second[k])
           Runs(n) == \E f : RolesRun(first, second, f, n)
           Good == {n \in Nat : Runs(n)}
<1>1. 0 \in Good
  <2>1. RolesRun(first, second, [k \in 0..0 |-> first], 0)
    BY DEF RolesRun
  <2> QED BY <2>1
<1>2. ASSUME NEW n \in 1..Len(second), n - 1 \in Good PROVE n \in Good
  <2>1. n \in Nat /\ n - 1 \in Nat /\ n # 0
    BY <1>2
  <2>2. PICK f : RolesRun(first, second, f, n - 1)
    BY <1>2
  <2> DEFINE g == [k \in 0..n |-> IF k = 0 THEN first ELSE next(f[k - 1], k)]
  <2>3. ASSUME NEW k \in 0..n, k # 0 PROVE g[k - 1] = f[k - 1]
    <3>1. k - 1 \in 0..(n - 1) /\ k - 1 \in 0..n
      BY <2>1, <2>3
    <3>2. f[k - 1] = IF k - 1 = 0 THEN first ELSE next(f[(k - 1) - 1], k - 1)
      BY <3>1, <2>2, Zenon DEF RolesRun
    <3>3. g[k - 1] = IF k - 1 = 0 THEN first ELSE next(f[(k - 1) - 1], k - 1)
      BY <3>1, Zenon
    <3> QED BY <3>2, <3>3, Zenon
  <2>4. g = [k \in 0..n |-> IF k = 0 THEN first ELSE next(g[k - 1], k)]
    <3>1. ASSUME NEW k \in 0..n
          PROVE  (IF k = 0 THEN first ELSE next(f[k - 1], k))
                   = (IF k = 0 THEN first ELSE next(g[k - 1], k))
      <4> HIDE DEF g
      <4> QED BY <2>3, Zenon
    <3> QED BY <3>1, Zenon
  <2>5. RolesRun(first, second, g, n)
    <3> HIDE DEF g
    <3> QED BY <2>4, Zenon DEF RolesRun
  <2> QED BY <2>1, <2>5
<1>3. Runs(Len(second))
  <2> HIDE DEF Good
  <2>1. Len(second) \in Good
    <3>1. Len(second) \in 0..Len(second)
      OBVIOUS
    <3> QED BY <1>1, <1>2, <3>1, UpTo
  <2> QED BY <2>1 DEF Good
<1> QED BY <1>3, Zenon DEF RolesRun, BetterRoles

\* The sightings of a pass recorded one after the other.
RecordedRun(members, sightings, f, n) ==
  f = [k \in 0..n |-> IF k = 0 THEN members ELSE IF sightings[k] = Nothing THEN f[k - 1]
                                        ELSE Record(f[k - 1], sightings[k])]

LEMMA RecordedUnfolds ==
  ASSUME NEW members, NEW sightings, Len(sightings) \in Nat
  PROVE  \E f : /\ RecordedRun(members, sightings, f, Len(sightings))
                /\ Recorded(members, sightings) = f[Len(sightings)]
<1> DEFINE next(x, k) == IF sightings[k] = Nothing THEN x ELSE Record(x, sightings[k])
           Runs(n) == \E f : RecordedRun(members, sightings, f, n)
           Good == {n \in Nat : Runs(n)}
<1>1. 0 \in Good
  <2>1. RecordedRun(members, sightings, [k \in 0..0 |-> members], 0)
    BY DEF RecordedRun
  <2> QED BY <2>1
<1>2. ASSUME NEW n \in 1..Len(sightings), n - 1 \in Good PROVE n \in Good
  <2>1. n \in Nat /\ n - 1 \in Nat /\ n # 0
    BY <1>2
  <2>2. PICK f : RecordedRun(members, sightings, f, n - 1)
    BY <1>2
  <2> DEFINE g == [k \in 0..n |-> IF k = 0 THEN members ELSE next(f[k - 1], k)]
  <2>3. ASSUME NEW k \in 0..n, k # 0 PROVE g[k - 1] = f[k - 1]
    <3>1. k - 1 \in 0..(n - 1) /\ k - 1 \in 0..n
      BY <2>1, <2>3
    <3>2. f[k - 1] = IF k - 1 = 0 THEN members ELSE next(f[(k - 1) - 1], k - 1)
      BY <3>1, <2>2, Zenon DEF RecordedRun
    <3>3. g[k - 1] = IF k - 1 = 0 THEN members ELSE next(f[(k - 1) - 1], k - 1)
      BY <3>1, Zenon
    <3> QED BY <3>2, <3>3, Zenon
  <2>4. g = [k \in 0..n |-> IF k = 0 THEN members ELSE next(g[k - 1], k)]
    <3>1. ASSUME NEW k \in 0..n
          PROVE  (IF k = 0 THEN members ELSE next(f[k - 1], k))
                   = (IF k = 0 THEN members ELSE next(g[k - 1], k))
      <4> HIDE DEF g
      <4> QED BY <2>3, Zenon
    <3> QED BY <3>1, Zenon
  <2>5. RecordedRun(members, sightings, g, n)
    <3> HIDE DEF g
    <3> QED BY <2>4, Zenon DEF RecordedRun
  <2> QED BY <2>1, <2>5
<1>3. Runs(Len(sightings))
  <2> HIDE DEF Good
  <2>1. Len(sightings) \in Good
    <3>1. Len(sightings) \in 0..Len(sightings)
      OBVIOUS
    <3> QED BY <1>1, <1>2, <3>1, UpTo
  <2> QED BY <2>1 DEF Good
<1> QED BY <1>3, Zenon DEF RecordedRun, Recorded

RecordUse(members, use) == Recorded(Recorded(Recorded(members, use[1]), use[2]), use[3])

\* The consumers of an owner recorded one after the other.
UsesRun(members, uses, f, n) ==
  f = [k \in 0..n |-> IF k = 0 THEN members ELSE RecordUse(f[k - 1], uses[Entries[k]])]

LEMMA UsesUnfold ==
  ASSUME NEW members, NEW uses, Len(Entries) \in Nat
  PROVE  \E f : /\ UsesRun(members, uses, f, Len(Entries))
                /\ RecordedUses(members, uses) = f[Len(Entries)]
<1> DEFINE next(x, k) == RecordUse(x, uses[Entries[k]])
           Runs(n) == \E f : UsesRun(members, uses, f, n)
           Good == {n \in Nat : Runs(n)}
<1>1. 0 \in Good
  <2>1. UsesRun(members, uses, [k \in 0..0 |-> members], 0)
    BY DEF UsesRun
  <2> QED BY <2>1
<1>2. ASSUME NEW n \in 1..Len(Entries), n - 1 \in Good PROVE n \in Good
  <2>1. n \in Nat /\ n - 1 \in Nat /\ n # 0
    BY <1>2
  <2>2. PICK f : UsesRun(members, uses, f, n - 1)
    BY <1>2
  <2> DEFINE g == [k \in 0..n |-> IF k = 0 THEN members ELSE next(f[k - 1], k)]
  <2>3. ASSUME NEW k \in 0..n, k # 0 PROVE g[k - 1] = f[k - 1]
    <3>1. k - 1 \in 0..(n - 1) /\ k - 1 \in 0..n
      BY <2>1, <2>3
    <3>2. f[k - 1] = IF k - 1 = 0 THEN members ELSE next(f[(k - 1) - 1], k - 1)
      BY <3>1, <2>2, Zenon DEF UsesRun
    <3>3. g[k - 1] = IF k - 1 = 0 THEN members ELSE next(f[(k - 1) - 1], k - 1)
      BY <3>1, Zenon
    <3> QED BY <3>2, <3>3, Zenon
  <2>4. g = [k \in 0..n |-> IF k = 0 THEN members ELSE next(g[k - 1], k)]
    <3>1. ASSUME NEW k \in 0..n
          PROVE  (IF k = 0 THEN members ELSE next(f[k - 1], k))
                   = (IF k = 0 THEN members ELSE next(g[k - 1], k))
      <4> HIDE DEF g
      <4> QED BY <2>3, Zenon
    <3> QED BY <3>1, Zenon
  <2>5. UsesRun(members, uses, g, n)
    <3> HIDE DEF g
    <3> QED BY <2>4, Zenon DEF UsesRun
  <2> QED BY <2>1, <2>5
<1>3. Runs(Len(Entries))
  <2> HIDE DEF Good
  <2>1. Len(Entries) \in Good
    <3>1. Len(Entries) \in 0..Len(Entries)
      OBVIOUS
    <3> QED BY <1>1, <1>2, <3>1, UpTo
  <2> QED BY <2>1 DEF Good
<1> QED BY <1>3, Zenon DEF UsesRun, RecordedUses, RecordUse

(***************************************************************************)
(* Two sightings of a member folded into one.                              *)
(***************************************************************************)
Param == [type : STRING \cup {"var"}, name : STRING]

\* What these roles say of a type stands in the others.
RolesStand(roles, these) == \A r \in ToSet(these) : Known(r.type) => r \in ToSet(roles)

RoleCovered(roles, r) ==
  \E q \in ToSet(roles) : q.name = r.name /\ (Known(r.type) => Known(q.type))

\* Each of these is among the others, and known where it was known.
RolesCover(roles, these) == \A r \in ToSet(these) : RoleCovered(roles, r)

LEMMA BetterParamKeeps ==
  ASSUME NEW given \in Param, NEW q \in Param
  PROVE  /\ BetterParam(given, q) \in Param
         /\ BetterParam(given, q).type \in {given.type, q.type}
         /\ Known(given.type) => BetterParam(given, q).type = given.type
         /\ Known(q.type) => Known(BetterParam(given, q).type)
         /\ given.name = q.name => BetterParam(given, q).name = given.name
         /\ (given.name = q.name /\ Known(given.type)) => BetterParam(given, q) = given
<1>1. BetterType(given.type, q.type) \in {given.type, q.type}
  BY DEF BetterType
<1>2. Known(given.type) => BetterType(given.type, q.type) = given.type
  BY DEF BetterType
<1>3. Known(q.type) => Known(BetterType(given.type, q.type))
  BY DEF BetterType, Known
<1>4. BetterName(given.name, q.name) \in {given.name, q.name}
  BY DEF BetterName
<1>5. given = [type |-> given.type, name |-> given.name]
  BY DEF Param
<1> QED BY <1>1, <1>2, <1>3, <1>4, <1>5 DEF BetterParam, Param

LEMMA RoleFoundKeeps ==
  ASSUME NEW roles \in Seq(Param), NEW r \in Param, NEW b, b = RoleFound(roles, r)
  PROVE  /\ b \in Seq(Param)
         /\ RolesStand(b, roles) /\ RolesCover(b, roles) /\ RoleCovered(b, r)
<1> DEFINE named == {i \in DOMAIN roles : roles[i].name = r.name}
           first == CHOOSE i \in named : \A j \in named : i <= j
<1>1. /\ DOMAIN roles = 1..Len(roles) /\ Len(roles) \in Nat
      /\ \A i \in DOMAIN roles : roles[i] \in Param
  BY LenProperties
<1>2. b = IF named = {} THEN Append(roles, r) ELSE [roles EXCEPT ![first] = BetterParam(@, r)]
  BY DEF RoleFound
<1>3. CASE named # {}
  <2>1. first \in named
    <3>1. named \in SUBSET Nat
      BY <1>1
    <3> HIDE DEF named
    <3>2. \E i \in named : \A j \in named : i <= j
      BY <1>3, <3>1, LeastNumber
    <3> QED BY <3>2
  <2>2. first \in DOMAIN roles /\ roles[first].name = r.name
    BY <2>1
  <2>3. b = [roles EXCEPT ![first] = BetterParam(roles[first], r)]
    BY <1>2, <1>3
  <2> HIDE DEF named, first
  <2>4. DOMAIN b = DOMAIN roles
    BY <2>3
  <2>5. \A i \in DOMAIN roles :
          /\ b[i] \in Param
          /\ b[i].name = roles[i].name
          /\ Known(roles[i].type) => b[i] = roles[i]
          /\ i = first /\ Known(r.type) => Known(b[i].type)
    <3>1. TAKE i \in DOMAIN roles
    <3>2. roles[i] \in Param
      BY <1>1
    <3>3. CASE i = first
      <4>1. b[i] = BetterParam(roles[i], r)
        BY <2>3, <3>3
      <4> QED BY <4>1, <2>2, <3>2, <3>3, BetterParamKeeps
    <3>4. CASE i # first
      <4>1. b[i] = roles[i]
        BY <2>3, <3>4
      <4> QED BY <4>1, <3>2, <3>4
    <3> QED BY <3>3, <3>4
  <2>6. b \in Seq(Param)
    <3>1. b \in [1..Len(roles) -> Param]
      BY <1>1, <2>3, <2>4, <2>5
    <3> QED BY <3>1, <1>1, SeqDef
  <2>7. RolesStand(b, roles)
    BY <2>4, <2>5 DEF RolesStand, ToSet
  <2>8. RolesCover(b, roles)
    BY <2>4, <2>5 DEF RolesCover, RoleCovered, ToSet
  <2>9. RoleCovered(b, r)
    BY <2>2, <2>4, <2>5 DEF RoleCovered, ToSet
  <2> QED BY <2>6, <2>7, <2>8, <2>9
<1>4. CASE named = {}
  <2>1. b = Append(roles, r)
    BY <1>2, <1>4
  <2>2. /\ b \in Seq(Param) /\ DOMAIN b = 1..(Len(roles) + 1)
        /\ \A i \in 1..Len(roles) : b[i] = roles[i]
        /\ b[Len(roles) + 1] = r
    BY <1>1, <2>1, LenProperties, AppendProperties
  <2>3. ToSet(roles) \subseteq ToSet(b) /\ r \in ToSet(b)
    BY <1>1, <2>2 DEF ToSet
  <2> QED BY <2>2, <2>3 DEF RolesStand, RolesCover, RoleCovered
<1> QED BY <1>3, <1>4

LEMMA BetterRolesKeeps ==
  ASSUME NEW first \in Seq(Param), NEW second \in Seq(Param),
         NEW b, b = BetterRoles(first, second)
  PROVE  /\ b \in Seq(Param)
         /\ RolesStand(b, first) /\ RolesCover(b, first) /\ RolesCover(b, second)
<1>1. /\ Len(second) \in Nat /\ DOMAIN second = 1..Len(second)
      /\ \A i \in 1..Len(second) : second[i] \in Param
  BY LenProperties
<1>2. PICK f : /\ RolesRun(first, second, f, Len(second))
               /\ BetterRoles(first, second) = f[Len(second)]
  BY <1>1, RolesUnfold
<1> DEFINE N == Len(second)
           Good == {n \in 0..N : /\ f[n] \in Seq(Param)
                                 /\ RolesStand(f[n], first) /\ RolesCover(f[n], first)
                                 /\ \A i \in 1..n : RoleCovered(f[n], second[i])}
<1>3. f[0] = first /\ \A n \in 1..N : f[n] = RoleFound(f[n - 1], second[n])
  <2>1. 0 \in 0..N /\ \A n \in 1..N : n \in 0..N /\ n # 0
    BY <1>1
  <2>2. \A k \in 0..N : f[k] = IF k = 0 THEN first ELSE RoleFound(f[k - 1], second[k])
    BY <1>2, Zenon DEF RolesRun
  <2> HIDE DEF N
  <2> QED BY <2>1, <2>2
<1> HIDE DEF N
<1>4. 0 \in Good
  BY <1>1, <1>3 DEF RolesStand, RolesCover, RoleCovered, N
<1>5. ASSUME NEW n \in 1..N, n - 1 \in Good PROVE n \in Good
  <2>1. n - 1 \in 0..N /\ f[n - 1] \in Seq(Param) /\ second[n] \in Param
    BY <1>1, <1>5 DEF N
  <2>2. /\ f[n] \in Seq(Param)
        /\ RolesStand(f[n], f[n - 1]) /\ RolesCover(f[n], f[n - 1]) /\ RoleCovered(f[n], second[n])
    BY <2>1, <1>3, <1>5, RoleFoundKeeps
  <2>3. RolesStand(f[n - 1], first) /\ RolesCover(f[n - 1], first)
    BY <1>5
  <2>4. RolesStand(f[n], first)
    BY <2>2, <2>3 DEF RolesStand
  <2>5. RolesCover(f[n], first)
    BY <2>2, <2>3 DEF RolesCover, RoleCovered
  <2>6. \A i \in 1..n : RoleCovered(f[n], second[i])
    <3>1. TAKE i \in 1..n
    <3>2. CASE i = n
      BY <2>2, <3>2
    <3>3. CASE i # n
      <4>1. RoleCovered(f[n - 1], second[i])
        <5>1. i \in 1..(n - 1)
          BY <3>3, <2>1
        <5> QED BY <5>1, <1>5
      <4> QED BY <4>1, <2>2 DEF RolesCover, RoleCovered
    <3> QED BY <3>2, <3>3
  <2> QED BY <2>1, <2>2, <2>4, <2>5, <2>6, <1>1, <1>5 DEF N
<1>6. N \in Good
  <2> HIDE DEF Good
  <2>1. N \in Nat /\ N \in 0..N
    BY <1>1 DEF N
  <2> QED BY <2>1, <1>4, <1>5, UpTo
<1> QED BY <1>1, <1>2, <1>6 DEF N, RolesCover, ToSet

MemberKinds == {"prop", "model", "signal", "slot"}
IsMember(m) == m.kind \in MemberKinds /\ m.params \in Seq(Param) /\ m.roles \in Seq(Param)

\* What was said of a member stands: the promise of OwnersReadingStands.
Stands(m, e) ==
  /\ Known(m.type) => e.type = m.type
  /\ m.kind # "prop" => e.kind = m.kind
  /\ Len(m.params) <= Len(e.params)
  /\ Len(e.params) = Len(m.params) =>
       \A i \in DOMAIN m.params : Known(m.params[i].type) => e.params[i].type = m.params[i].type
  /\ RolesStand(e.roles, m.roles)
  /\ RolesCover(e.roles, m.roles)

\* What one sighting knew is known: the promise of EvidenceIsKept.
Covers(e, s) ==
  /\ Known(s.type) => Known(e.type)
  /\ s.kind # "prop" => e.kind # "prop"
  /\ RolesCover(e.roles, s.roles)

LEMMA StandsReflexive ==
  ASSUME NEW m, IsMember(m)
  PROVE  Stands(m, m) /\ Covers(m, m)
<1>1. Len(m.params) \in Nat
  BY LenProperties DEF IsMember
<1>2. RolesStand(m.roles, m.roles) /\ RolesCover(m.roles, m.roles)
  BY DEF RolesStand, RolesCover, RoleCovered
<1> QED BY <1>1, <1>2 DEF Stands, Covers

LEMMA StandsTransitive ==
  ASSUME NEW l, NEW m, NEW e, IsMember(l), IsMember(m), IsMember(e), Stands(l, m), Stands(m, e)
  PROVE  Stands(l, e)
<1>1. Len(l.params) \in Nat /\ Len(m.params) \in Nat /\ Len(e.params) \in Nat
      /\ DOMAIN l.params = 1..Len(l.params) /\ DOMAIN m.params = 1..Len(m.params)
  BY LenProperties DEF IsMember
<1>2. Known(l.type) => e.type = l.type
  BY DEF Stands
<1>3. l.kind # "prop" => e.kind = l.kind
  BY DEF Stands
<1>4. Len(l.params) <= Len(e.params)
  BY <1>1 DEF Stands
<1>5. ASSUME Len(e.params) = Len(l.params), NEW i \in DOMAIN l.params, Known(l.params[i].type)
      PROVE  e.params[i].type = l.params[i].type
  <2>1. Len(m.params) = Len(l.params)
    BY <1>1, <1>5 DEF Stands
  <2>2. m.params[i].type = l.params[i].type
    BY <2>1, <1>5 DEF Stands
  <2> QED BY <1>1, <2>1, <2>2, <1>5 DEF Stands
<1>6. RolesStand(e.roles, l.roles)
  BY DEF Stands, RolesStand
<1>7. RolesCover(e.roles, l.roles)
  BY DEF Stands, RolesCover, RoleCovered
<1> QED BY <1>2, <1>3, <1>4, <1>5, <1>6, <1>7 DEF Stands

LEMMA CoversStand ==
  ASSUME NEW s, NEW m, NEW e, Covers(m, s), Stands(m, e)
  PROVE  Covers(e, s)
<1>1. Known(s.type) => Known(e.type)
  BY DEF Covers, Stands
<1>2. s.kind # "prop" => e.kind # "prop"
  BY DEF Covers, Stands
<1>3. RolesCover(e.roles, s.roles)
  BY DEF Covers, Stands, RolesCover, RoleCovered
<1> QED BY <1>1, <1>2, <1>3 DEF Covers

LEMMA MergedKeeps ==
  ASSUME NEW m, NEW s, IsMember(m), IsMember(s), m.name = s.name,
         NEW e, e = Merged(m, s)
  PROVE  /\ IsMember(e) /\ e.name = m.name
         /\ Stands(m, e) /\ Covers(e, s)
         /\ e.kind = BetterKind(m.kind, s.kind)
         /\ e.type \in {m.type, s.type}
         /\ \A i \in DOMAIN e.params :
              \/ i \in DOMAIN m.params /\ e.params[i].type = m.params[i].type
              \/ i \in DOMAIN s.params /\ e.params[i].type = s.params[i].type
<1>1. /\ e.kind = BetterKind(m.kind, s.kind) /\ e.name = m.name
      /\ e.type = BetterType(m.type, s.type)
      /\ e.params = BetterParams(m.params, s.params)
      /\ e.roles = BetterRoles(m.roles, s.roles)
  BY DEF Merged
<1>2. /\ m.kind \in MemberKinds /\ s.kind \in MemberKinds
      /\ m.params \in Seq(Param) /\ s.params \in Seq(Param)
      /\ m.roles \in Seq(Param) /\ s.roles \in Seq(Param)
  BY DEF IsMember
<1>3. /\ e.kind \in MemberKinds
      /\ m.kind # "prop" => e.kind = m.kind
      /\ s.kind # "prop" => e.kind # "prop"
  BY <1>1, <1>2 DEF BetterKind
<1>4. /\ e.type \in {m.type, s.type}
      /\ Known(m.type) => e.type = m.type
      /\ Known(s.type) => Known(e.type)
  BY <1>1 DEF BetterType, Known
<1>5. /\ e.roles \in Seq(Param)
      /\ RolesStand(e.roles, m.roles) /\ RolesCover(e.roles, m.roles) /\ RolesCover(e.roles, s.roles)
  BY <1>1, <1>2, BetterRolesKeeps
<1>6. /\ Len(m.params) \in Nat /\ DOMAIN m.params = 1..Len(m.params)
      /\ Len(s.params) \in Nat /\ DOMAIN s.params = 1..Len(s.params)
      /\ \A i \in DOMAIN m.params : m.params[i] \in Param
      /\ \A i \in DOMAIN s.params : s.params[i] \in Param
  BY <1>2, LenProperties
<1>7. /\ e.params \in Seq(Param) /\ Len(m.params) <= Len(e.params)
      /\ Len(e.params) = Len(m.params) =>
           \A i \in DOMAIN m.params : Known(m.params[i].type) => e.params[i].type = m.params[i].type
      /\ \A i \in DOMAIN e.params :
           \/ i \in DOMAIN m.params /\ e.params[i].type = m.params[i].type
           \/ i \in DOMAIN s.params /\ e.params[i].type = s.params[i].type
  <2>1. CASE Len(m.params) # Len(s.params)
    BY <2>1, <1>1, <1>2, <1>6 DEF BetterParams
  <2>2. CASE Len(m.params) = Len(s.params)
    <3>1. e.params = [i \in DOMAIN m.params |-> BetterParam(m.params[i], s.params[i])]
      BY <1>1, <2>2 DEF BetterParams
    <3>2. \A i \in DOMAIN m.params :
            /\ e.params[i] \in Param
            /\ e.params[i].type \in {m.params[i].type, s.params[i].type}
            /\ Known(m.params[i].type) => e.params[i].type = m.params[i].type
      <4>1. TAKE i \in DOMAIN m.params
      <4>2. m.params[i] \in Param /\ s.params[i] \in Param /\ i \in DOMAIN s.params
        BY <1>6, <2>2
      <4>3. e.params[i] = BetterParam(m.params[i], s.params[i])
        BY <3>1
      <4> QED BY <4>2, <4>3, BetterParamKeeps
    <3>3. e.params \in [1..Len(m.params) -> Param]
      BY <3>1, <3>2, <1>6
    <3>4. e.params \in Seq(Param)
      BY <3>3, <1>6, SeqDef
    <3>5. Len(e.params) = Len(m.params) /\ DOMAIN e.params = DOMAIN m.params
      BY <3>3, <3>4, <1>6, LenProperties
    <3> QED BY <3>2, <3>4, <3>5, <1>6, <2>2
  <2> QED BY <2>1, <2>2
<1>8. IsMember(e)
  BY <1>3, <1>5, <1>7 DEF IsMember
<1>9. Stands(m, e)
  BY <1>3, <1>4, <1>5, <1>7 DEF Stands
<1>10. Covers(e, s)
  BY <1>3, <1>4, <1>5 DEF Covers
<1> QED BY <1>1, <1>4, <1>7, <1>8, <1>9, <1>10

(***************************************************************************)
(* The members of a contract, and the sightings they are made of.          *)
(***************************************************************************)

\* A contract has one member per name.
IsContract(list) ==
  /\ \E n \in Nat : list = [i \in 1..n |-> list[i]]
  /\ \A i \in DOMAIN list : IsMember(list[i])
  /\ \A i, j \in DOMAIN list : list[i].name = list[j].name => i = j

\* Nothing about the member is made up.
Drawn(m, shown) ==
  /\ \E s \in shown : s.name = m.name /\ s.kind = m.kind
  /\ \E s \in shown : s.name = m.name /\ s.type = m.type
  /\ \A i \in DOMAIN m.params : \E s \in shown :
       s.name = m.name /\ i \in DOMAIN s.params /\ m.params[i].type = s.params[i].type

Covered(list, s) == \E i \in DOMAIN list : list[i].name = s.name /\ Covers(list[i], s)

\* The list is what these sightings come to.
MadeOf(list, shown) ==
  /\ IsContract(list)
  /\ \A i \in DOMAIN list : Drawn(list[i], shown)
  /\ \A s \in shown : Covered(list, s)

Grows(before, after) ==
  \A i \in DOMAIN before : \E j \in DOMAIN after :
    after[j].name = before[i].name /\ Stands(before[i], after[j])

LEMMA DrawnFromMore ==
  ASSUME NEW m, NEW shown, NEW more, Drawn(m, shown), shown \subseteq more
  PROVE  Drawn(m, more)
BY DEF Drawn

LEMMA GrowsTransitive ==
  ASSUME NEW a, NEW b, NEW c, IsContract(a), IsContract(b), IsContract(c), Grows(a, b), Grows(b, c)
  PROVE  Grows(a, c)
<1>1. SUFFICES ASSUME NEW i \in DOMAIN a
               PROVE  \E k \in DOMAIN c : c[k].name = a[i].name /\ Stands(a[i], c[k])
  BY DEF Grows
<1>2. PICK j \in DOMAIN b : b[j].name = a[i].name /\ Stands(a[i], b[j])
  BY DEF Grows
<1>3. PICK k \in DOMAIN c : c[k].name = b[j].name /\ Stands(b[j], c[k])
  BY DEF Grows
<1>4. IsMember(a[i]) /\ IsMember(b[j]) /\ IsMember(c[k])
  BY DEF IsContract
<1> QED BY <1>2, <1>3, <1>4, StandsTransitive

LEMMA RecordMakes ==
  ASSUME NEW list, NEW shown, MadeOf(list, shown), NEW s, IsMember(s),
         NEW r, r = Record(list, s)
  PROVE  MadeOf(r, shown \cup {s}) /\ Grows(list, r)
<1> DEFINE more == shown \cup {s}
<1>1. PICK n \in Nat : list = [i \in 1..n |-> list[i]]
  BY DEF MadeOf, IsContract
<1> DOMAIN list = 1..n
  BY <1>1
<1>2. /\ \A i \in DOMAIN list : IsMember(list[i])
      /\ \A i, j \in DOMAIN list : list[i].name = list[j].name => i = j
  BY DEF MadeOf, IsContract
<1>3. /\ \A i \in DOMAIN list : Drawn(list[i], shown)
      /\ \A t \in shown : Covered(list, t)
  BY DEF MadeOf
<1>4. CASE \E i \in DOMAIN list : list[i].name = s.name
  <2>1. r = [i \in DOMAIN list |-> IF list[i].name = s.name THEN Merged(list[i], s) ELSE list[i]]
    BY <1>4 DEF Record
  <2>2. \A i \in DOMAIN list :
          /\ IsMember(r[i]) /\ r[i].name = list[i].name /\ Stands(list[i], r[i])
          /\ Drawn(r[i], more)
          /\ list[i].name = s.name => Covers(r[i], s)
    <3>1. TAKE i \in DOMAIN list
    <3>2. CASE list[i].name = s.name
      <4>1. r[i] = Merged(list[i], s) /\ IsMember(list[i])
        BY <2>1, <3>2, <1>2
      <4>2. /\ IsMember(r[i]) /\ r[i].name = list[i].name
            /\ Stands(list[i], r[i]) /\ Covers(r[i], s)
            /\ r[i].kind = BetterKind(list[i].kind, s.kind)
            /\ r[i].type \in {list[i].type, s.type}
            /\ \A k \in DOMAIN r[i].params :
                 \/ k \in DOMAIN list[i].params /\ r[i].params[k].type = list[i].params[k].type
                 \/ k \in DOMAIN s.params /\ r[i].params[k].type = s.params[k].type
        BY <4>1, <3>2, MergedKeeps
      <4>3. r[i].kind \in {list[i].kind, s.kind}
        BY <4>2 DEF BetterKind
      <4>4. Drawn(list[i], shown)
        BY <1>3
      <4>5. s \in more /\ shown \subseteq more
        OBVIOUS
      <4> HIDE DEF more
      <4>6. Drawn(r[i], more)
        <5>1. \E t \in more : t.name = r[i].name /\ t.kind = r[i].kind
          BY <4>2, <4>3, <4>4, <4>5, <3>2 DEF Drawn
        <5>2. \E t \in more : t.name = r[i].name /\ t.type = r[i].type
          BY <4>2, <4>4, <4>5, <3>2 DEF Drawn
        <5>3. ASSUME NEW k \in DOMAIN r[i].params
              PROVE  \E t \in more : /\ t.name = r[i].name /\ k \in DOMAIN t.params
                                     /\ r[i].params[k].type = t.params[k].type
          <6>1. CASE k \in DOMAIN list[i].params /\ r[i].params[k].type = list[i].params[k].type
            BY <6>1, <4>2, <4>4, <4>5 DEF Drawn
          <6>2. CASE k \in DOMAIN s.params /\ r[i].params[k].type = s.params[k].type
            BY <6>2, <4>2, <4>5, <3>2
          <6> QED BY <6>1, <6>2, <4>2, <5>3
        <5> QED BY <5>1, <5>2, <5>3 DEF Drawn
      <4> QED BY <4>2, <4>6
    <3>3. CASE list[i].name # s.name
      <4>1. r[i] = list[i]
        BY <2>1, <3>3
      <4>2. Drawn(list[i], more)
        BY <1>3, DrawnFromMore
      <4> QED BY <4>1, <4>2, <3>3, <1>2, StandsReflexive
    <3> QED BY <3>2, <3>3
  <2>3. DOMAIN r = DOMAIN list
    BY <2>1
  <2>4. IsContract(r)
    <3>1. r = [i \in 1..n |-> r[i]]
      BY <2>1
    <3> QED BY <3>1, <2>2, <2>3, <1>1, <1>2 DEF IsContract
  <2>5. ASSUME NEW t \in more PROVE Covered(r, t)
    <3>1. CASE t = s
      BY <3>1, <1>4, <2>2, <2>3 DEF Covered
    <3>2. CASE t \in shown
      <4>1. PICK i \in DOMAIN list : list[i].name = t.name /\ Covers(list[i], t)
        BY <3>2, <1>3 DEF Covered
      <4>2. Covers(r[i], t)
        BY <4>1, <2>2, CoversStand
      <4> QED BY <4>1, <4>2, <2>2, <2>3 DEF Covered
    <3> QED BY <2>5, <3>1, <3>2
  <2> QED BY <2>2, <2>3, <2>4, <2>5 DEF MadeOf, Grows
<1>5. CASE ~ \E i \in DOMAIN list : list[i].name = s.name
  <2>1. r = Append(list, s)
    BY <1>5 DEF Record
  <2>2. list \in Seq({list[i] : i \in DOMAIN list} \cup {s}) /\ Len(list) = n
    <3>1. list \in [1..n -> {list[i] : i \in DOMAIN list} \cup {s}]
      <4>1. \A i \in 1..n : list[i] \in {list[k] : k \in DOMAIN list} \cup {s}
        OBVIOUS
      <4> QED BY <4>1, <1>1
    <3>2. list \in Seq({list[i] : i \in DOMAIN list} \cup {s})
      BY <3>1, SeqDef
    <3> QED BY <3>1, <3>2, <1>1, LenProperties
  <2>3. /\ DOMAIN r = 1..(n + 1) /\ \A i \in 1..n : r[i] = list[i]
        /\ r[n + 1] = s
    <3>1. s \in {list[i] : i \in DOMAIN list} \cup {s}
      OBVIOUS
    <3> QED BY <2>1, <2>2, <3>1, AppendProperties, LenProperties
  <2>4. \A i \in 1..(n + 1) : i \in 1..n \/ i = n + 1
    OBVIOUS
  <2>5. IsContract(r)
    <3>1. r = [i \in 1..(n + 1) |-> r[i]]
      <4>1. r \in Seq({list[i] : i \in DOMAIN list} \cup {s})
        BY <2>1, <2>2, AppendProperties
      <4> QED BY <4>1, <2>3, LenProperties
    <3>2. \A i \in 1..(n + 1) : IsMember(r[i])
      BY <2>3, <2>4, <1>2
    <3>3. \A i, j \in 1..(n + 1) : r[i].name = r[j].name => i = j
      BY <2>3, <2>4, <1>2, <1>5
    <3>4. n + 1 \in Nat
      OBVIOUS
    <3> QED BY <3>1, <3>2, <3>3, <3>4, <2>3, Zenon DEF IsContract
  <2>6. ASSUME NEW i \in DOMAIN r PROVE Drawn(r[i], more)
    <3>1. CASE i \in 1..n
      BY <3>1, <2>3, <1>1, <1>3, DrawnFromMore
    <3>2. CASE i = n + 1
      BY <3>2, <2>3 DEF Drawn
    <3> QED BY <2>3, <2>4, <2>6, <3>1, <3>2
  <2>7. ASSUME NEW t \in more PROVE Covered(r, t)
    <3>1. CASE t = s
      <4>1. Covers(s, s)
        BY StandsReflexive
      <4> QED BY <3>1, <4>1, <2>3 DEF Covered
    <3>2. CASE t \in shown
      <4>1. PICK i \in DOMAIN list : list[i].name = t.name /\ Covers(list[i], t)
        BY <3>2, <1>3 DEF Covered
      <4>2. i \in DOMAIN r /\ r[i] = list[i]
        BY <2>3
      <4> QED BY <4>1, <4>2 DEF Covered
    <3> QED BY <2>7, <3>1, <3>2
  <2>8. Grows(list, r)
    <3>1. \A i \in DOMAIN list : i \in DOMAIN r /\ r[i] = list[i] /\ Stands(list[i], list[i])
      BY <2>3, <1>2, StandsReflexive
    <3> QED BY <3>1 DEF Grows
  <2> QED BY <2>5, <2>6, <2>7, <2>8 DEF MadeOf
<1> QED BY <1>4, <1>5

\* Nothing but members among the sightings of a pass.
AreSightings(sightings, n) ==
  /\ sightings = [i \in 1..n |-> sightings[i]]
  /\ \A i \in 1..n : sightings[i] = Nothing \/ IsMember(sightings[i])

LEMMA SightingsLength ==
  ASSUME NEW n \in Nat, NEW sightings, sightings = [i \in 1..n |-> sightings[i]]
  PROVE  Len(sightings) = n /\ DOMAIN sightings = 1..n
<1>1. sightings \in [1..n -> {sightings[i] : i \in 1..n}]
  OBVIOUS
<1>2. sightings \in Seq({sightings[i] : i \in 1..n})
  BY <1>1, SeqDef
<1> QED BY <1>1, <1>2, LenProperties

LEMMA NothingIsNoMember == ~ IsMember(Nothing)
BY DEF IsMember, Nothing, MemberKinds

\* A pass over a file, statement by statement.
LEMMA RecordedRunMakes ==
  ASSUME NEW list, NEW shown, MadeOf(list, shown),
         NEW n \in Nat, NEW sightings, AreSightings(sightings, n),
         NEW f, RecordedRun(list, sightings, f, n)
  PROVE  \A k \in 0..n : /\ MadeOf(f[k], shown \cup ({sightings[i] : i \in 1..k} \ {Nothing}))
                         /\ Grows(list, f[k])
<1> DEFINE sofar(k) == shown \cup ({sightings[i] : i \in 1..k} \ {Nothing})
           Good == {k \in 0..n : MadeOf(f[k], sofar(k)) /\ Grows(list, f[k])}
<1>1. f[0] = list /\ \A k \in 1..n : f[k] = IF sightings[k] = Nothing THEN f[k - 1]
                                            ELSE Record(f[k - 1], sightings[k])
  <2>1. 0 \in 0..n /\ \A k \in 1..n : k \in 0..n /\ k # 0
    OBVIOUS
  <2>2. \A k \in 0..n : f[k] = IF k = 0 THEN list
                               ELSE IF sightings[k] = Nothing THEN f[k - 1]
                               ELSE Record(f[k - 1], sightings[k])
    BY Zenon DEF RecordedRun
  <2> QED BY <2>1, <2>2
<1>2. 0 \in Good
  <2>1. sofar(0) = shown
    OBVIOUS
  <2>2. Grows(list, list)
    BY StandsReflexive DEF Grows, MadeOf, IsContract
  <2>3. 0 \in 0..n
    OBVIOUS
  <2> HIDE DEF sofar
  <2> QED BY <1>1, <2>1, <2>2, <2>3
<1>3. ASSUME NEW k \in 1..n, k - 1 \in Good PROVE k \in Good
  <2>1. MadeOf(f[k - 1], sofar(k - 1)) /\ Grows(list, f[k - 1]) /\ k \in 0..n
    BY <1>3
  <2>2. {sightings[i] : i \in 1..k} = {sightings[i] : i \in 1..(k - 1)} \cup {sightings[k]}
    <3>1. 1..k = 1..(k - 1) \cup {k}
      OBVIOUS
    <3> QED BY <3>1
  <2>3. CASE sightings[k] = Nothing
    <3>1. sofar(k) = sofar(k - 1)
      BY <2>2, <2>3
    <3>2. f[k] = f[k - 1]
      BY <1>1, <2>3
    <3> HIDE DEF sofar
    <3> QED BY <2>1, <3>1, <3>2
  <2>4. CASE sightings[k] # Nothing
    <3>1. sofar(k) = sofar(k - 1) \cup {sightings[k]}
      BY <2>2, <2>4
    <3>2. f[k] = Record(f[k - 1], sightings[k]) /\ IsMember(sightings[k])
      BY <1>1, <2>4 DEF AreSightings
    <3> HIDE DEF sofar
    <3>3. MadeOf(f[k], sofar(k)) /\ Grows(f[k - 1], f[k])
      BY <2>1, <3>1, <3>2, RecordMakes
    <3>4. Grows(list, f[k])
      BY <2>1, <3>3, GrowsTransitive DEF MadeOf
    <3> QED BY <2>1, <3>3, <3>4
  <2> QED BY <2>3, <2>4
<1>4. \A k \in 0..n : k \in Good
  <2> HIDE DEF Good
  <2> QED BY <1>2, <1>3, UpTo
<1> QED BY <1>4

LEMMA RecordedMakes ==
  ASSUME NEW list, NEW shown, MadeOf(list, shown),
         NEW n \in Nat, NEW sightings, AreSightings(sightings, n),
         NEW r, r = Recorded(list, sightings)
  PROVE  MadeOf(r, shown \cup (ToSet(sightings) \ {Nothing})) /\ Grows(list, r)
<1>1. Len(sightings) = n /\ DOMAIN sightings = 1..n
  BY SightingsLength DEF AreSightings
<1>2. PICK f : RecordedRun(list, sightings, f, n) /\ r = f[n]
  BY <1>1, RecordedUnfolds
<1>3. ToSet(sightings) = {sightings[i] : i \in 1..n}
  BY <1>1 DEF ToSet
<1>4. n \in 0..n
  OBVIOUS
<1>5. /\ MadeOf(f[n], shown \cup ({sightings[i] : i \in 1..n} \ {Nothing}))
      /\ Grows(list, f[n])
  BY <1>2, <1>4, RecordedRunMakes
<1> QED BY <1>2, <1>3, <1>5

\* Two readings of the same statements, with and without a type checker: the same members of the
\* same kinds.
Alike(a, b) ==
  /\ DOMAIN a = DOMAIN b
  /\ \A i \in DOMAIN a : a[i].name = b[i].name /\ a[i].kind = b[i].kind

LEMMA MergedKind ==
  ASSUME NEW m, NEW s
  PROVE  Merged(m, s).name = m.name /\ Merged(m, s).kind = BetterKind(m.kind, s.kind)
BY DEF Merged

LEMMA AppendedTo ==
  ASSUME NEW n \in Nat, NEW list, list = [i \in 1..n |-> list[i]], NEW s
  PROVE  /\ DOMAIN Append(list, s) = 1..(n + 1)
         /\ \A i \in 1..n : Append(list, s)[i] = list[i]
         /\ Append(list, s)[n + 1] = s
<1> DEFINE S == {list[i] : i \in 1..n} \cup {s}
<1>1. list \in [1..n -> S]
  <2>1. \A i \in 1..n : list[i] \in S
    OBVIOUS
  <2> HIDE DEF S
  <2> QED BY <2>1
<1>2. list \in Seq(S) /\ s \in S
  BY <1>1, SeqDef
<1>3. Len(list) = n
  BY <1>1, <1>2, LenProperties
<1> HIDE DEF S
<1> QED BY <1>2, <1>3, AppendProperties, LenProperties

LEMMA RecordAlike ==
  ASSUME NEW a, NEW b, IsContract(a), IsContract(b), Alike(a, b),
         NEW s, NEW t, s.name = t.name, s.kind = t.kind
  PROVE  Alike(Record(a, s), Record(b, t))
<1>1. PICK n \in Nat : a = [i \in 1..n |-> a[i]]
  BY DEF IsContract
<1>2. PICK k \in Nat : b = [i \in 1..k |-> b[i]]
  BY DEF IsContract
<1>3. DOMAIN a = 1..n /\ DOMAIN b = 1..k /\ DOMAIN a = DOMAIN b
      /\ \A i \in DOMAIN a : a[i].name = b[i].name /\ a[i].kind = b[i].kind
  BY <1>1, <1>2 DEF Alike
<1>4. n = k
  BY <1>3
<1>5. CASE \E i \in DOMAIN a : a[i].name = s.name
  <2>1. Record(a, s) = [i \in DOMAIN a |-> IF a[i].name = s.name THEN Merged(a[i], s) ELSE a[i]]
    BY <1>5 DEF Record
  <2>2. Record(b, t) = [i \in DOMAIN b |-> IF b[i].name = t.name THEN Merged(b[i], t) ELSE b[i]]
    BY <1>5, <1>3 DEF Record
  <2>3. \A i \in DOMAIN a : /\ Merged(a[i], s).name = Merged(b[i], t).name
                            /\ Merged(a[i], s).kind = Merged(b[i], t).kind
    BY <1>3, MergedKind
  <2> QED BY <2>1, <2>2, <2>3, <1>3 DEF Alike
<1>6. CASE ~ \E i \in DOMAIN a : a[i].name = s.name
  <2>1. Record(a, s) = Append(a, s) /\ Record(b, t) = Append(b, t)
    BY <1>6, <1>3 DEF Record
  <2>2. /\ DOMAIN Append(a, s) = 1..(n + 1) /\ DOMAIN Append(b, t) = 1..(n + 1)
        /\ \A i \in 1..n : Append(a, s)[i] = a[i]
        /\ \A i \in 1..n : Append(b, t)[i] = b[i]
        /\ Append(a, s)[n + 1] = s /\ Append(b, t)[n + 1] = t
    BY <1>1, <1>2, <1>4, AppendedTo
  <2>3. \A i \in 1..(n + 1) : i \in 1..n \/ i = n + 1
    OBVIOUS
  <2> QED BY <2>1, <2>2, <2>3, <1>3 DEF Alike
<1> QED BY <1>5, <1>6

\* What is read without a type checker says no more than what is read with one.
Vaguer(x, y) ==
  /\ x.name = y.name /\ x.kind = y.kind
  /\ x.type \in {y.type, "var"}
  /\ DOMAIN x.params = DOMAIN y.params
  /\ \A i \in DOMAIN x.params : x.params[i].type \in {y.params[i].type, "var"}

LEMMA RecordedAlike ==
  ASSUME NEW list, NEW shown, MadeOf(list, shown), NEW other, NEW others, MadeOf(other, others),
         Alike(list, other),
         NEW n \in Nat, NEW these, AreSightings(these, n), NEW those, AreSightings(those, n),
         \A i \in 1..n : \/ these[i] = Nothing /\ those[i] = Nothing
                         \/ IsMember(these[i]) /\ IsMember(those[i])
                              /\ these[i].name = those[i].name /\ these[i].kind = those[i].kind
  PROVE  Alike(Recorded(list, these), Recorded(other, those))
<1>1. Len(these) = n /\ Len(those) = n
  BY SightingsLength DEF AreSightings
<1>2. PICK f : RecordedRun(list, these, f, n) /\ Recorded(list, these) = f[n]
  BY <1>1, RecordedUnfolds
<1>3. PICK g : RecordedRun(other, those, g, n) /\ Recorded(other, those) = g[n]
  BY <1>1, RecordedUnfolds
<1>4. \A k \in 0..n : IsContract(f[k])
  BY <1>2, RecordedRunMakes DEF MadeOf
<1>5. \A k \in 0..n : IsContract(g[k])
  BY <1>3, RecordedRunMakes DEF MadeOf
<1>6. 0 \in 0..n /\ \A k \in 1..n : k \in 0..n /\ k # 0 /\ k - 1 \in 0..n
  OBVIOUS
<1>7. \A k \in 0..n : f[k] = IF k = 0 THEN list
                             ELSE IF these[k] = Nothing THEN f[k - 1]
                             ELSE Record(f[k - 1], these[k])
  BY <1>2, Zenon DEF RecordedRun
<1>8. \A k \in 0..n : g[k] = IF k = 0 THEN other
                             ELSE IF those[k] = Nothing THEN g[k - 1]
                             ELSE Record(g[k - 1], those[k])
  BY <1>3, Zenon DEF RecordedRun
<1> DEFINE Good == {k \in 0..n : Alike(f[k], g[k])}
<1>9. 0 \in Good
  BY <1>6, <1>7, <1>8
<1>10. ASSUME NEW k \in 1..n, k - 1 \in Good PROVE k \in Good
  <2>1. Alike(f[k - 1], g[k - 1]) /\ IsContract(f[k - 1]) /\ IsContract(g[k - 1])
    BY <1>4, <1>5, <1>6, <1>10
  <2>2. CASE these[k] = Nothing /\ those[k] = Nothing
    <3>1. f[k] = f[k - 1] /\ g[k] = g[k - 1]
      BY <2>2, <1>6, <1>7, <1>8
    <3> QED BY <3>1, <2>1, <1>6
  <2>3. CASE IsMember(these[k]) /\ IsMember(those[k])
               /\ these[k].name = those[k].name /\ these[k].kind = those[k].kind
    <3>1. these[k] # Nothing /\ those[k] # Nothing
      BY <2>3, NothingIsNoMember
    <3>2. f[k] = Record(f[k - 1], these[k]) /\ g[k] = Record(g[k - 1], those[k])
      BY <3>1, <1>6, <1>7, <1>8
    <3>3. Alike(f[k], g[k])
      BY <3>2, <2>1, <2>3, RecordAlike
    <3> QED BY <3>3, <1>6
  <2> QED BY <2>2, <2>3
<1>11. n \in Good
  <2> HIDE DEF Good
  <2>1. n \in 0..n
    OBVIOUS
  <2> QED BY <2>1, <1>9, <1>10, UpTo
<1> QED BY <1>2, <1>3, <1>11

(***************************************************************************)
(* What a statement shows.                                                 *)
(***************************************************************************)
IsStatement(s) ==
  /\ s.rows \in BOOLEAN
  /\ s.params \in Seq([type : STRING, name : STRING, by : STRING])
  /\ s.roles \in Seq([type : STRING, name : STRING])

LEMMA ParamsRead ==
  ASSUME NEW s, IsStatement(s), NEW typed
  PROVE  /\ Params(s, typed) \in Seq(Param)
         /\ DOMAIN Params(s, typed) = DOMAIN s.params
         /\ \A i \in DOMAIN s.params :
              Params(s, typed)[i].type = TypeOf(s.params[i].type, s.params[i].by, typed)
<1>1. /\ Len(s.params) \in Nat /\ DOMAIN s.params = 1..Len(s.params)
      /\ \A i \in 1..Len(s.params) : s.params[i] \in [type : STRING, name : STRING, by : STRING]
  BY LenProperties DEF IsStatement
<1>2. Params(s, typed) = [i \in DOMAIN s.params |->
        [type |-> TypeOf(s.params[i].type, s.params[i].by, typed), name |-> s.params[i].name]]
  BY DEF Params
<1>3. \A i \in 1..Len(s.params) : Params(s, typed)[i] \in Param
  BY <1>1, <1>2 DEF TypeOf, Param
<1>4. Params(s, typed) \in [1..Len(s.params) -> Param]
  BY <1>1, <1>2, <1>3
<1> QED BY <1>1, <1>2, <1>4, SeqDef

LEMMA RolesRead ==
  ASSUME NEW s, IsStatement(s)
  PROVE  s.roles \in Seq(Param)
<1>1. /\ Len(s.roles) \in Nat
      /\ s.roles \in [1..Len(s.roles) -> [type : STRING, name : STRING]]
  BY LenProperties DEF IsStatement
<1>2. s.roles \in [1..Len(s.roles) -> Param]
  BY <1>1 DEF Param
<1> QED BY <1>1, <1>2, SeqDef

LEMMA NoneRead == <<>> \in Seq(Param) /\ DOMAIN <<>> = {}
BY EmptySeq

LEMMA ParamsVaguer ==
  ASSUME NEW s, IsStatement(s), NEW typed \in BOOLEAN
  PROVE  /\ DOMAIN Params(s, typed) = DOMAIN Params(s, TRUE)
         /\ \A i \in DOMAIN Params(s, typed) :
              Params(s, typed)[i].type \in {Params(s, TRUE)[i].type, "var"}
<1>1. \A t \in BOOLEAN : /\ DOMAIN Params(s, t) = DOMAIN s.params
                        /\ \A i \in DOMAIN s.params :
                             Params(s, t)[i].type = TypeOf(s.params[i].type, s.params[i].by, t)
  BY ParamsRead
<1>2. \A type, by : TypeOf(type, by, typed) \in {TypeOf(type, by, TRUE), "var"}
  BY DEF TypeOf
<1> QED BY <1>1, <1>2

Reading(x, y, s) ==
  /\ IsMember(x) /\ IsMember(y) /\ x.name = s.name /\ Vaguer(x, y)
  /\ x.kind = "slot" <=> s.form \in {"function", "call"}

AsSlot(kind, s) == kind = "slot" <=> s.form \in {"function", "call"}

LEMMA FieldsRead ==
  ASSUME NEW s, NEW x, NEW y, x.name = s.name, y.name = s.name,
         x.kind = y.kind, x.kind \in MemberKinds, AsSlot(x.kind, s), x.type \in {y.type, "var"},
         x.params \in Seq(Param), y.params \in Seq(Param), DOMAIN x.params = DOMAIN y.params,
         \A i \in DOMAIN x.params : x.params[i].type \in {y.params[i].type, "var"},
         x.roles \in Seq(Param), y.roles \in Seq(Param)
  PROVE  Reading(x, y, s)
BY DEF Reading, IsMember, Vaguer, AsSlot

LEMMA OwnerReading ==
  ASSUME NEW s, IsStatement(s), s.form \in OwnerForms, NEW typed \in BOOLEAN
  PROVE  Reading(OwnerSighting(s, typed), OwnerSighting(s, TRUE), s)
<1> DEFINE given == Params(s, typed)
           q == Params(s, TRUE)
           x == OwnerSighting(s, typed)
           y == OwnerSighting(s, TRUE)
<1>1. /\ given \in Seq(Param) /\ q \in Seq(Param) /\ DOMAIN given = DOMAIN q
      /\ \A i \in DOMAIN given : given[i].type \in {q[i].type, "var"}
  BY ParamsRead, ParamsVaguer
<1>2. s.roles \in Seq(Param) /\ <<>> \in Seq(Param) /\ DOMAIN <<>> = {}
  BY RolesRead, NoneRead
<1>3. s.rows \in BOOLEAN
  BY DEF IsStatement
<1>4. \A t \in BOOLEAN : TypeOf(s.type, s.by, t) \in {TypeOf(s.type, s.by, TRUE), "var"}
  BY DEF TypeOf
<1> SUFFICES Reading(x, y, s)
  OBVIOUS
<1> HIDE DEF given, q, x, y
<1>5. CASE s.form = "property"
  <2>1. /\ x = Member("prop", s, s.type, <<>>, <<>>)
        /\ y = Member("prop", s, s.type, <<>>, <<>>)
    BY <1>5 DEF OwnerSighting, x, y
  <2>2. "prop" \in MemberKinds /\ AsSlot("prop", s)
    BY <1>5 DEF MemberKinds, AsSlot
  <2>3. /\ x.name = s.name /\ x.kind = "prop" /\ x.type = s.type
        /\ x.params = <<>> /\ x.roles = <<>>
        /\ y.name = s.name /\ y.kind = "prop" /\ y.type = s.type
        /\ y.params = <<>> /\ y.roles = <<>>
    BY <2>1 DEF Member
  <2>4. x.kind \in MemberKinds /\ AsSlot(x.kind, s) /\ x.type \in {y.type, "var"}
    BY <2>2, <2>3
  <2>5. /\ x.params \in Seq(Param) /\ y.params \in Seq(Param) /\ DOMAIN x.params = DOMAIN y.params
        /\ x.roles \in Seq(Param) /\ y.roles \in Seq(Param)
        /\ \A i \in DOMAIN x.params : x.params[i].type \in {y.params[i].type, "var"}
    BY <2>3, <1>1, <1>2
  <2> QED BY <2>3, <2>4, <2>5, FieldsRead
<1>6. CASE s.form \in {"assignment", "write"} /\ s.rows
  <2>1. /\ x = Member("model", s, "", <<>>, <<>>)
        /\ y = Member("model", s, "", <<>>, <<>>)
    BY <1>6, <1>3 DEF OwnerSighting, x, y
  <2>2. "model" \in MemberKinds /\ AsSlot("model", s)
    BY <1>6 DEF MemberKinds, AsSlot
  <2>3. /\ x.name = s.name /\ x.kind = "model" /\ x.type = ""
        /\ x.params = <<>> /\ x.roles = <<>>
        /\ y.name = s.name /\ y.kind = "model" /\ y.type = ""
        /\ y.params = <<>> /\ y.roles = <<>>
    BY <2>1 DEF Member
  <2>4. x.kind \in MemberKinds /\ AsSlot(x.kind, s) /\ x.type \in {y.type, "var"}
    BY <2>2, <2>3
  <2>5. /\ x.params \in Seq(Param) /\ y.params \in Seq(Param) /\ DOMAIN x.params = DOMAIN y.params
        /\ x.roles \in Seq(Param) /\ y.roles \in Seq(Param)
        /\ \A i \in DOMAIN x.params : x.params[i].type \in {y.params[i].type, "var"}
    BY <2>3, <1>1, <1>2
  <2> QED BY <2>3, <2>4, <2>5, FieldsRead
<1>7. CASE s.form = "assignment" /\ ~s.rows
  <2>1. /\ x = Member("prop", s, TypeOf(s.type, s.by, typed), <<>>, <<>>)
        /\ y = Member("prop", s, TypeOf(s.type, s.by, TRUE), <<>>, <<>>)
    BY <1>7, <1>3 DEF OwnerSighting, x, y
  <2>2. "prop" \in MemberKinds /\ AsSlot("prop", s)
    BY <1>7 DEF MemberKinds, AsSlot
  <2>3. /\ x.name = s.name /\ x.kind = "prop" /\ x.type = TypeOf(s.type, s.by, typed)
        /\ x.params = <<>> /\ x.roles = <<>>
        /\ y.name = s.name /\ y.kind = "prop" /\ y.type = TypeOf(s.type, s.by, TRUE)
        /\ y.params = <<>> /\ y.roles = <<>>
    BY <2>1 DEF Member
  <2>4. x.kind \in MemberKinds /\ AsSlot(x.kind, s) /\ x.type \in {y.type, "var"}
    BY <2>2, <2>3, <1>4
  <2>5. /\ x.params \in Seq(Param) /\ y.params \in Seq(Param) /\ DOMAIN x.params = DOMAIN y.params
        /\ x.roles \in Seq(Param) /\ y.roles \in Seq(Param)
        /\ \A i \in DOMAIN x.params : x.params[i].type \in {y.params[i].type, "var"}
    BY <2>3, <1>1, <1>2
  <2> QED BY <2>3, <2>4, <2>5, FieldsRead
<1>8. CASE s.form = "write" /\ ~s.rows
  <2>1. /\ x = Member("prop", s, TypeOf(s.type, s.by, FALSE), <<>>, <<>>)
        /\ y = Member("prop", s, TypeOf(s.type, s.by, FALSE), <<>>, <<>>)
    BY <1>8, <1>3 DEF OwnerSighting, x, y
  <2>2. "prop" \in MemberKinds /\ AsSlot("prop", s)
    BY <1>8 DEF MemberKinds, AsSlot
  <2>3. /\ x.name = s.name /\ x.kind = "prop" /\ x.type = TypeOf(s.type, s.by, FALSE)
        /\ x.params = <<>> /\ x.roles = <<>>
        /\ y.name = s.name /\ y.kind = "prop" /\ y.type = TypeOf(s.type, s.by, FALSE)
        /\ y.params = <<>> /\ y.roles = <<>>
    BY <2>1 DEF Member
  <2>4. x.kind \in MemberKinds /\ AsSlot(x.kind, s) /\ x.type \in {y.type, "var"}
    BY <2>2, <2>3
  <2>5. /\ x.params \in Seq(Param) /\ y.params \in Seq(Param) /\ DOMAIN x.params = DOMAIN y.params
        /\ x.roles \in Seq(Param) /\ y.roles \in Seq(Param)
        /\ \A i \in DOMAIN x.params : x.params[i].type \in {y.params[i].type, "var"}
    BY <2>3, <1>1, <1>2
  <2> QED BY <2>3, <2>4, <2>5, FieldsRead
<1>9. CASE s.form = "function"
  <2>1. /\ x = Member("slot", s, s.type, given, <<>>)
        /\ y = Member("slot", s, s.type, q, <<>>)
    BY <1>9 DEF OwnerSighting, x, y, given, q
  <2>2. "slot" \in MemberKinds /\ AsSlot("slot", s)
    BY <1>9 DEF MemberKinds, AsSlot
  <2>3. /\ x.name = s.name /\ x.kind = "slot" /\ x.type = s.type
        /\ x.params = given /\ x.roles = <<>>
        /\ y.name = s.name /\ y.kind = "slot" /\ y.type = s.type
        /\ y.params = q /\ y.roles = <<>>
    BY <2>1 DEF Member
  <2>4. x.kind \in MemberKinds /\ AsSlot(x.kind, s) /\ x.type \in {y.type, "var"}
    BY <2>2, <2>3
  <2>5. /\ x.params \in Seq(Param) /\ y.params \in Seq(Param) /\ DOMAIN x.params = DOMAIN y.params
        /\ x.roles \in Seq(Param) /\ y.roles \in Seq(Param)
        /\ \A i \in DOMAIN x.params : x.params[i].type \in {y.params[i].type, "var"}
    BY <2>3, <1>1, <1>2
  <2> QED BY <2>3, <2>4, <2>5, FieldsRead
<1>10. CASE s.form = "push"
  <2>1. /\ x = Member("model", s, "", <<>>, s.roles)
        /\ y = Member("model", s, "", <<>>, s.roles)
    BY <1>10 DEF OwnerSighting, x, y
  <2>2. "model" \in MemberKinds /\ AsSlot("model", s)
    BY <1>10 DEF MemberKinds, AsSlot
  <2>3. /\ x.name = s.name /\ x.kind = "model" /\ x.type = ""
        /\ x.params = <<>> /\ x.roles = s.roles
        /\ y.name = s.name /\ y.kind = "model" /\ y.type = ""
        /\ y.params = <<>> /\ y.roles = s.roles
    BY <2>1 DEF Member
  <2>4. x.kind \in MemberKinds /\ AsSlot(x.kind, s) /\ x.type \in {y.type, "var"}
    BY <2>2, <2>3
  <2>5. /\ x.params \in Seq(Param) /\ y.params \in Seq(Param) /\ DOMAIN x.params = DOMAIN y.params
        /\ x.roles \in Seq(Param) /\ y.roles \in Seq(Param)
        /\ \A i \in DOMAIN x.params : x.params[i].type \in {y.params[i].type, "var"}
    BY <2>3, <1>1, <1>2
  <2> QED BY <2>3, <2>4, <2>5, FieldsRead
<1>11. CASE s.form \in {"signal", "emit", "raise"}
  <2>1. /\ x = Member("signal", s, "", given, <<>>)
        /\ y = Member("signal", s, "", q, <<>>)
    BY <1>11 DEF OwnerSighting, x, y, given, q
  <2>2. "signal" \in MemberKinds /\ AsSlot("signal", s)
    BY <1>11 DEF MemberKinds, AsSlot
  <2>3. /\ x.name = s.name /\ x.kind = "signal" /\ x.type = ""
        /\ x.params = given /\ x.roles = <<>>
        /\ y.name = s.name /\ y.kind = "signal" /\ y.type = ""
        /\ y.params = q /\ y.roles = <<>>
    BY <2>1 DEF Member
  <2>4. x.kind \in MemberKinds /\ AsSlot(x.kind, s) /\ x.type \in {y.type, "var"}
    BY <2>2, <2>3
  <2>5. /\ x.params \in Seq(Param) /\ y.params \in Seq(Param) /\ DOMAIN x.params = DOMAIN y.params
        /\ x.roles \in Seq(Param) /\ y.roles \in Seq(Param)
        /\ \A i \in DOMAIN x.params : x.params[i].type \in {y.params[i].type, "var"}
    BY <2>3, <1>1, <1>2
  <2> QED BY <2>3, <2>4, <2>5, FieldsRead
<1> QED BY <1>3, <1>5, <1>6, <1>7, <1>8, <1>9, <1>10, <1>11 DEF OwnerForms

LEMMA ConsumerReading ==
  ASSUME NEW s, IsStatement(s), s.form \in ConsumerForms, NEW typed \in BOOLEAN
  PROVE  Reading(ConsumerSighting(s, typed), ConsumerSighting(s, TRUE), s)
<1> DEFINE given == Params(s, typed)
           q == Params(s, TRUE)
           h == Params(s, FALSE)
           x == ConsumerSighting(s, typed)
           y == ConsumerSighting(s, TRUE)
<1>1. /\ given \in Seq(Param) /\ q \in Seq(Param) /\ h \in Seq(Param) /\ DOMAIN given = DOMAIN q
      /\ \A i \in DOMAIN given : given[i].type \in {q[i].type, "var"}
  BY ParamsRead, ParamsVaguer
<1>2. s.roles \in Seq(Param) /\ <<>> \in Seq(Param) /\ DOMAIN <<>> = {}
  BY RolesRead, NoneRead
<1> SUFFICES Reading(x, y, s)
  OBVIOUS
<1> HIDE DEF given, q, h, x, y
<1>3. CASE s.form \in HandlerForms
  <2>1. /\ x = Member("signal", s, "", h, <<>>)
        /\ y = Member("signal", s, "", h, <<>>)
    BY <1>3 DEF ConsumerSighting, x, y, h, HandlerForms
  <2>2. "signal" \in MemberKinds /\ AsSlot("signal", s)
    BY <1>3 DEF MemberKinds, AsSlot, HandlerForms
  <2>3. /\ x.name = s.name /\ x.kind = "signal" /\ x.type = ""
        /\ x.params = h /\ x.roles = <<>>
        /\ y.name = s.name /\ y.kind = "signal" /\ y.type = ""
        /\ y.params = h /\ y.roles = <<>>
    BY <2>1 DEF Member
  <2>4. x.kind \in MemberKinds /\ AsSlot(x.kind, s) /\ x.type \in {y.type, "var"}
    BY <2>2, <2>3
  <2>5. /\ x.params \in Seq(Param) /\ y.params \in Seq(Param) /\ DOMAIN x.params = DOMAIN y.params
        /\ x.roles \in Seq(Param) /\ y.roles \in Seq(Param)
        /\ \A i \in DOMAIN x.params : x.params[i].type \in {y.params[i].type, "var"}
    BY <2>3, <1>1, <1>2
  <2> QED BY <2>3, <2>4, <2>5, FieldsRead
<1>4. CASE s.form = "call"
  <2>1. /\ x = Member("slot", s, s.type, given, <<>>)
        /\ y = Member("slot", s, s.type, q, <<>>)
    BY <1>4 DEF ConsumerSighting, x, y, given, q, HandlerForms
  <2>2. "slot" \in MemberKinds /\ AsSlot("slot", s)
    BY <1>4 DEF MemberKinds, AsSlot
  <2>3. /\ x.name = s.name /\ x.kind = "slot" /\ x.type = s.type
        /\ x.params = given /\ x.roles = <<>>
        /\ y.name = s.name /\ y.kind = "slot" /\ y.type = s.type
        /\ y.params = q /\ y.roles = <<>>
    BY <2>1 DEF Member
  <2>4. x.kind \in MemberKinds /\ AsSlot(x.kind, s) /\ x.type \in {y.type, "var"}
    BY <2>2, <2>3
  <2>5. /\ x.params \in Seq(Param) /\ y.params \in Seq(Param) /\ DOMAIN x.params = DOMAIN y.params
        /\ x.roles \in Seq(Param) /\ y.roles \in Seq(Param)
        /\ \A i \in DOMAIN x.params : x.params[i].type \in {y.params[i].type, "var"}
    BY <2>3, <1>1, <1>2
  <2> QED BY <2>3, <2>4, <2>5, FieldsRead
<1>5. CASE s.form = "view"
  <2>1. /\ x = Member("model", s, "", <<>>, s.roles)
        /\ y = Member("model", s, "", <<>>, s.roles)
    BY <1>5 DEF ConsumerSighting, x, y, HandlerForms
  <2>2. "model" \in MemberKinds /\ AsSlot("model", s)
    BY <1>5 DEF MemberKinds, AsSlot
  <2>3. /\ x.name = s.name /\ x.kind = "model" /\ x.type = ""
        /\ x.params = <<>> /\ x.roles = s.roles
        /\ y.name = s.name /\ y.kind = "model" /\ y.type = ""
        /\ y.params = <<>> /\ y.roles = s.roles
    BY <2>1 DEF Member
  <2>4. x.kind \in MemberKinds /\ AsSlot(x.kind, s) /\ x.type \in {y.type, "var"}
    BY <2>2, <2>3
  <2>5. /\ x.params \in Seq(Param) /\ y.params \in Seq(Param) /\ DOMAIN x.params = DOMAIN y.params
        /\ x.roles \in Seq(Param) /\ y.roles \in Seq(Param)
        /\ \A i \in DOMAIN x.params : x.params[i].type \in {y.params[i].type, "var"}
    BY <2>3, <1>1, <1>2
  <2> QED BY <2>3, <2>4, <2>5, FieldsRead
<1>6. CASE s.form \in {"read", "dynamic"}
  <2>1. /\ x = Member("prop", s, "var", <<>>, <<>>)
        /\ y = Member("prop", s, "var", <<>>, <<>>)
    BY <1>6 DEF ConsumerSighting, x, y, HandlerForms
  <2>2. "prop" \in MemberKinds /\ AsSlot("prop", s)
    BY <1>6 DEF MemberKinds, AsSlot
  <2>3. /\ x.name = s.name /\ x.kind = "prop" /\ x.type = "var"
        /\ x.params = <<>> /\ x.roles = <<>>
        /\ y.name = s.name /\ y.kind = "prop" /\ y.type = "var"
        /\ y.params = <<>> /\ y.roles = <<>>
    BY <2>1 DEF Member
  <2>4. x.kind \in MemberKinds /\ AsSlot(x.kind, s) /\ x.type \in {y.type, "var"}
    BY <2>2, <2>3
  <2>5. /\ x.params \in Seq(Param) /\ y.params \in Seq(Param) /\ DOMAIN x.params = DOMAIN y.params
        /\ x.roles \in Seq(Param) /\ y.roles \in Seq(Param)
        /\ \A i \in DOMAIN x.params : x.params[i].type \in {y.params[i].type, "var"}
    BY <2>3, <1>1, <1>2
  <2> QED BY <2>3, <2>4, <2>5, FieldsRead
<1> QED BY <1>3, <1>4, <1>5, <1>6 DEF ConsumerForms

(***************************************************************************)
(* The scan.                                                               *)
(***************************************************************************)
FilesRead ==
  \A e \in ToSet(Entries) : \E n \in Nat :
    /\ files[e] = [i \in 1..n |-> files[e][i]]
    /\ \A i \in 1..n : IsStatement(files[e][i])

\* What the owner's functions are, and the statements that show a member: no matter whether a
\* type checker is there.
Functions(o, typed) == FunctionsOf(Recorded(<<>>, OwnerSightings(o, typed)))
Showing(o) == {s \in ToSet(files[o]) : \/ s.form \in OwnerForms \ {"raise"}
                                       \/ s.form = "raise" /\ s.name \notin Functions(o, TRUE)}

\* A pass that reads the statements of T and no others.
PassOver(e, T, show, sightings) ==
  \A i \in DOMAIN files[e] : IsStatement(files[e][i]) =>
    IF files[e][i] \in T
    THEN sightings[i] = show[files[e][i]] /\ IsMember(show[files[e][i]])
    ELSE sightings[i] = Nothing

LEMMA PassShows ==
  ASSUME NEW e \in ToSet(Entries), FilesRead, NEW T, NEW sightings, NEW show,
         DOMAIN sightings = DOMAIN files[e],
         sightings = [i \in DOMAIN files[e] |-> sightings[i]],
         PassOver(e, T, show, sightings)
  PROVE  /\ \E n \in Nat : DOMAIN files[e] = 1..n /\ AreSightings(sightings, n)
         /\ ToSet(sightings) \ {Nothing} = {show[s] : s \in ToSet(files[e]) \cap T}
<1>1. PICK n \in Nat : /\ files[e] = [i \in 1..n |-> files[e][i]]
                       /\ \A i \in 1..n : IsStatement(files[e][i])
  BY DEF FilesRead
<1>2. DOMAIN files[e] = 1..n
  BY <1>1
<1>3. \A i \in 1..n : IF files[e][i] \in T
                      THEN sightings[i] = show[files[e][i]] /\ IsMember(show[files[e][i]])
                      ELSE sightings[i] = Nothing
  BY <1>1, <1>2 DEF PassOver
<1>4. AreSightings(sightings, n)
  BY <1>2, <1>3 DEF AreSightings
<1>5. ASSUME NEW x \in ToSet(sightings) \ {Nothing}
      PROVE  x \in {show[s] : s \in ToSet(files[e]) \cap T}
  <2>1. PICK i \in 1..n : x = sightings[i]
    BY <1>2, <1>5 DEF ToSet
  <2>2. files[e][i] \in T /\ x = show[files[e][i]]
    BY <2>1, <1>3, <1>5
  <2> QED BY <2>2, <1>2 DEF ToSet
<1>6. ASSUME NEW s \in ToSet(files[e]) \cap T
      PROVE  show[s] \in ToSet(sightings) \ {Nothing}
  <2>1. PICK i \in 1..n : s = files[e][i]
    BY <1>2, <1>6 DEF ToSet
  <2>2. sightings[i] = show[s] /\ IsMember(show[s])
    BY <2>1, <1>3, <1>6
  <2> QED BY <2>2, <1>2, NothingIsNoMember DEF ToSet
<1>7. ToSet(sightings) \ {Nothing} = {show[s] : s \in ToSet(files[e]) \cap T}
  BY <1>5, <1>6
<1> QED BY <1>2, <1>4, <1>7

LEMMA OwnerPass ==
  ASSUME NEW o \in ToSet(Entries), FilesRead, NEW typed \in BOOLEAN
  PROVE  /\ \E n \in Nat : DOMAIN files[o] = 1..n /\ AreSightings(OwnerSightings(o, typed), n)
         /\ ToSet(OwnerSightings(o, typed)) \ {Nothing} =
              {OwnerSighting(s, typed) :
                 s \in {t \in ToSet(files[o]) : t.form \in OwnerForms \ {"raise"}}}
<1> DEFINE T == {t \in ToSet(files[o]) : t.form \in OwnerForms \ {"raise"}}
           show == [s \in T |-> OwnerSighting(s, typed)]
           sightings == OwnerSightings(o, typed)
<1>1. sightings = [i \in DOMAIN files[o] |->
                     IF files[o][i].form \in OwnerForms \ {"raise"} THEN OwnerSighting(files[o][i], typed)
                     ELSE Nothing]
  BY DEF OwnerSightings
<1>2. ASSUME NEW i \in DOMAIN files[o], IsStatement(files[o][i])
      PROVE  IF files[o][i] \in T
             THEN sightings[i] = show[files[o][i]] /\ IsMember(show[files[o][i]])
             ELSE sightings[i] = Nothing
  <2>1. files[o][i] \in T <=> files[o][i].form \in OwnerForms \ {"raise"}
    BY DEF ToSet
  <2>2. CASE files[o][i] \in T
    <3>1. sightings[i] = OwnerSighting(files[o][i], typed) /\ show[files[o][i]] = sightings[i]
      BY <1>1, <2>1, <2>2
    <3>2. IsMember(OwnerSighting(files[o][i], typed))
      BY <1>2, <2>1, <2>2, OwnerReading DEF Reading
    <3> QED BY <2>2, <3>1, <3>2
  <2>3. CASE files[o][i] \notin T
    BY <1>1, <2>1, <2>3
  <2> QED BY <2>2, <2>3
<1>3. DOMAIN sightings = DOMAIN files[o] /\ sightings = [i \in DOMAIN files[o] |-> sightings[i]]
  BY <1>1
<1>4. {show[s] : s \in ToSet(files[o]) \cap T} = {OwnerSighting(s, typed) : s \in T}
  <2>1. ToSet(files[o]) \cap T = T
    OBVIOUS
  <2>2. \A s \in T : show[s] = OwnerSighting(s, typed)
    OBVIOUS
  <2> HIDE DEF T, show
  <2> QED BY <2>1, <2>2
<1>6. PassOver(o, T, show, sightings)
  BY <1>2 DEF PassOver
<1> HIDE DEF T, show, sightings
<1>5. /\ \E n \in Nat : DOMAIN files[o] = 1..n /\ AreSightings(sightings, n)
      /\ ToSet(sightings) \ {Nothing} = {show[s] : s \in ToSet(files[o]) \cap T}
  BY <1>3, <1>6, PassShows
<1> QED BY <1>4, <1>5 DEF sightings, T

LEMMA RaisedPass ==
  ASSUME NEW o \in ToSet(Entries), FilesRead, NEW typed \in BOOLEAN, NEW functions
  PROVE  /\ \E n \in Nat : /\ DOMAIN files[o] = 1..n
                           /\ AreSightings(RaisedSightings(o, functions, typed), n)
         /\ ToSet(RaisedSightings(o, functions, typed)) \ {Nothing} =
              {OwnerSighting(s, typed) :
                 s \in {t \in ToSet(files[o]) : t.form = "raise" /\ t.name \notin functions}}
<1> DEFINE T == {t \in ToSet(files[o]) : t.form = "raise" /\ t.name \notin functions}
           show == [s \in T |-> OwnerSighting(s, typed)]
           sightings == RaisedSightings(o, functions, typed)
<1>1. sightings = [i \in DOMAIN files[o] |->
                     IF files[o][i].form = "raise" /\ files[o][i].name \notin functions
                     THEN OwnerSighting(files[o][i], typed) ELSE Nothing]
  BY DEF RaisedSightings
<1>2. ASSUME NEW i \in DOMAIN files[o], IsStatement(files[o][i])
      PROVE  IF files[o][i] \in T
             THEN sightings[i] = show[files[o][i]] /\ IsMember(show[files[o][i]])
             ELSE sightings[i] = Nothing
  <2>1. files[o][i] \in T <=> files[o][i].form = "raise" /\ files[o][i].name \notin functions
    BY DEF ToSet
  <2>2. CASE files[o][i] \in T
    <3>1. sightings[i] = OwnerSighting(files[o][i], typed) /\ show[files[o][i]] = sightings[i]
      BY <1>1, <2>1, <2>2
    <3>2. files[o][i].form \in OwnerForms
      BY <2>1, <2>2 DEF OwnerForms
    <3>3. IsMember(OwnerSighting(files[o][i], typed))
      BY <1>2, <3>2, OwnerReading DEF Reading
    <3> QED BY <2>2, <3>1, <3>3
  <2>3. CASE files[o][i] \notin T
    BY <1>1, <2>1, <2>3
  <2> QED BY <2>2, <2>3
<1>3. DOMAIN sightings = DOMAIN files[o] /\ sightings = [i \in DOMAIN files[o] |-> sightings[i]]
  BY <1>1
<1>4. {show[s] : s \in ToSet(files[o]) \cap T} = {OwnerSighting(s, typed) : s \in T}
  <2>1. ToSet(files[o]) \cap T = T
    OBVIOUS
  <2>2. \A s \in T : show[s] = OwnerSighting(s, typed)
    OBVIOUS
  <2> HIDE DEF T, show
  <2> QED BY <2>1, <2>2
<1>6. PassOver(o, T, show, sightings)
  BY <1>2 DEF PassOver
<1> HIDE DEF T, show, sightings
<1>5. /\ \E n \in Nat : DOMAIN files[o] = 1..n /\ AreSightings(sightings, n)
      /\ ToSet(sightings) \ {Nothing} = {show[s] : s \in ToSet(files[o]) \cap T}
  BY <1>3, <1>6, PassShows
<1> QED BY <1>4, <1>5 DEF sightings, T

LEMMA NothingYet == MadeOf(<<>>, {})
<1>1. 0 \in Nat /\ <<>> = [i \in 1..0 |-> <<>>[i]] /\ DOMAIN <<>> = {}
  OBVIOUS
<1> QED BY <1>1 DEF MadeOf, IsContract

LEMMA FunctionsStay ==
  ASSUME NEW o \in ToSet(Entries), FilesRead, NEW typed \in BOOLEAN
  PROVE  Functions(o, typed) = Functions(o, TRUE)
<1> DEFINE these == OwnerSightings(o, typed)
           those == OwnerSightings(o, TRUE)
           a == Recorded(<<>>, these)
           b == Recorded(<<>>, those)
<1>1. PICK n \in Nat : /\ files[o] = [i \in 1..n |-> files[o][i]]
                       /\ \A i \in 1..n : IsStatement(files[o][i])
  BY DEF FilesRead
<1>2. DOMAIN files[o] = 1..n
  BY <1>1
<1>3. AreSightings(these, n) /\ AreSightings(those, n)
  <2>1. PICK k \in Nat : DOMAIN files[o] = 1..k /\ AreSightings(these, k)
    BY OwnerPass
  <2>2. PICK l \in Nat : DOMAIN files[o] = 1..l /\ AreSightings(those, l)
    BY OwnerPass
  <2>3. k = n /\ l = n
    BY <2>1, <2>2, <1>2
  <2> QED BY <2>1, <2>2, <2>3
<1>4. \A i \in 1..n : \/ these[i] = Nothing /\ those[i] = Nothing
                      \/ IsMember(these[i]) /\ IsMember(those[i])
                           /\ these[i].name = those[i].name /\ these[i].kind = those[i].kind
  <2>1. TAKE i \in 1..n
  <2>2. CASE files[o][i].form \in OwnerForms \ {"raise"}
    <3>1. /\ these[i] = OwnerSighting(files[o][i], typed)
          /\ those[i] = OwnerSighting(files[o][i], TRUE)
      BY <1>2, <2>2 DEF OwnerSightings
    <3>2. Reading(OwnerSighting(files[o][i], typed), OwnerSighting(files[o][i], TRUE), files[o][i])
      BY <1>1, <2>2, OwnerReading
    <3> QED BY <3>1, <3>2 DEF Reading, Vaguer
  <2>3. CASE files[o][i].form \notin OwnerForms \ {"raise"}
    BY <1>2, <2>3 DEF OwnerSightings
  <2> QED BY <2>2, <2>3
<1>5. Alike(<<>>, <<>>)
  BY DEF Alike
<1> HIDE DEF these, those
<1>6. Alike(a, b)
  BY <1>3, <1>4, <1>5, NothingYet, RecordedAlike
<1> HIDE DEF a, b
<1>7. ToSet(a) = {a[i] : i \in DOMAIN a} /\ ToSet(b) = {b[i] : i \in DOMAIN b}
  BY DEF ToSet
<1>8. FunctionsOf(a) = FunctionsOf(b)
  BY <1>6, <1>7 DEF FunctionsOf, Alike
<1> QED BY <1>8 DEF Functions, a, b, these, those

LEMMA OwnerShowing ==
  ASSUME NEW o \in ToSet(Entries), FilesRead, NEW typed \in BOOLEAN
  PROVE  OwnerShows(o, typed) = {OwnerSighting(s, typed) : s \in Showing(o)}
<1> DEFINE F == Functions(o, TRUE)
<1>1. OwnerShows(o, typed) = (ToSet(OwnerSightings(o, typed)) \ {Nothing})
                               \cup (ToSet(RaisedSightings(o, F, typed)) \ {Nothing})
  BY FunctionsStay DEF OwnerShows, Functions
<1>2. ToSet(OwnerSightings(o, typed)) \ {Nothing} =
        {OwnerSighting(s, typed) : s \in {t \in ToSet(files[o]) : t.form \in OwnerForms \ {"raise"}}}
  BY OwnerPass
<1>3. ToSet(RaisedSightings(o, F, typed)) \ {Nothing} =
        {OwnerSighting(s, typed) : s \in {t \in ToSet(files[o]) : t.form = "raise" /\ t.name \notin F}}
  <2> HIDE DEF F
  <2> QED BY RaisedPass
<1>4. Showing(o) = {t \in ToSet(files[o]) : t.form \in OwnerForms \ {"raise"}}
                     \cup {t \in ToSet(files[o]) : t.form = "raise" /\ t.name \notin F}
  BY DEF Showing
<1> QED BY <1>1, <1>2, <1>3, <1>4

LEMMA ScanMakes ==
  ASSUME NEW o \in ToSet(Entries), FilesRead, NEW typed \in BOOLEAN
  PROVE  MadeOf(ScanOwner(o, typed), OwnerShows(o, typed))
<1> DEFINE these == OwnerSightings(o, typed)
           members == Recorded(<<>>, these)
           raised == RaisedSightings(o, FunctionsOf(members), typed)
<1>1. PICK n \in Nat : AreSightings(these, n)
  BY OwnerPass
<1>2. PICK k \in Nat : AreSightings(raised, k)
  BY RaisedPass
<1>3. /\ ScanOwner(o, typed) = Recorded(members, raised)
      /\ OwnerShows(o, typed) = (ToSet(these) \cup ToSet(raised)) \ {Nothing}
  BY DEF ScanOwner, OwnerShows
<1> HIDE DEF these, members, raised
<1>4. MadeOf(members, {} \cup (ToSet(these) \ {Nothing}))
  BY <1>1, NothingYet, RecordedMakes DEF members
<1>5. MadeOf(Recorded(members, raised),
             ({} \cup (ToSet(these) \ {Nothing})) \cup (ToSet(raised) \ {Nothing}))
  BY <1>2, <1>4, RecordedMakes
<1>6. ({} \cup (ToSet(these) \ {Nothing})) \cup (ToSet(raised) \ {Nothing})
        = (ToSet(these) \cup ToSet(raised)) \ {Nothing}
  OBVIOUS
<1> QED BY <1>3, <1>5, <1>6

\* The uses of an owner in one consumer's files.
UsesIn(e, o, forms) == {s \in ToSet(files[e]) : s.form \in forms /\ Crosses(e, s, o)}
ShownIn(e, o, forms, typed) == {ConsumerSighting(s, typed) : s \in UsesIn(e, o, forms)}
Members == ConsumerForms \ {"dynamic"}

LEMMA UsePass ==
  ASSUME NEW e \in ToSet(Entries), FilesRead, NEW typed \in BOOLEAN, NEW o,
         NEW forms, forms \subseteq ConsumerForms
  PROVE  /\ \E n \in Nat : DOMAIN files[e] = 1..n /\ AreSightings(Uses(e, o, forms, typed), n)
         /\ ToSet(Uses(e, o, forms, typed)) \ {Nothing} = ShownIn(e, o, forms, typed)
<1> DEFINE T == UsesIn(e, o, forms)
           show == [s \in T |-> ConsumerSighting(s, typed)]
           sightings == Uses(e, o, forms, typed)
<1>1. sightings = [i \in DOMAIN files[e] |->
                     IF files[e][i].form \in forms /\ Crosses(e, files[e][i], o)
                     THEN ConsumerSighting(files[e][i], typed) ELSE Nothing]
  BY DEF Uses
<1>2. ASSUME NEW i \in DOMAIN files[e], IsStatement(files[e][i])
      PROVE  IF files[e][i] \in T
             THEN sightings[i] = show[files[e][i]] /\ IsMember(show[files[e][i]])
             ELSE sightings[i] = Nothing
  <2>1. files[e][i] \in T <=> files[e][i].form \in forms /\ Crosses(e, files[e][i], o)
    BY DEF ToSet, UsesIn
  <2>2. CASE files[e][i] \in T
    <3>1. sightings[i] = ConsumerSighting(files[e][i], typed) /\ show[files[e][i]] = sightings[i]
      BY <1>1, <2>1, <2>2
    <3>2. files[e][i].form \in ConsumerForms
      BY <2>1, <2>2
    <3>3. IsMember(ConsumerSighting(files[e][i], typed))
      BY <1>2, <3>2, ConsumerReading DEF Reading
    <3> QED BY <2>2, <3>1, <3>3
  <2>3. CASE files[e][i] \notin T
    BY <1>1, <2>1, <2>3
  <2> QED BY <2>2, <2>3
<1>3. DOMAIN sightings = DOMAIN files[e] /\ sightings = [i \in DOMAIN files[e] |-> sightings[i]]
  BY <1>1
<1>4. {show[s] : s \in ToSet(files[e]) \cap T} = {ConsumerSighting(s, typed) : s \in T}
  <2>1. ToSet(files[e]) \cap T = T
    BY DEF UsesIn
  <2>2. \A s \in T : show[s] = ConsumerSighting(s, typed)
    OBVIOUS
  <2> HIDE DEF T, show
  <2> QED BY <2>1, <2>2
<1>6. PassOver(e, T, show, sightings)
  BY <1>2 DEF PassOver
<1> HIDE DEF T, show, sightings
<1>5. /\ \E n \in Nat : DOMAIN files[e] = 1..n /\ AreSightings(sightings, n)
      /\ ToSet(sightings) \ {Nothing} = {show[s] : s \in ToSet(files[e]) \cap T}
  BY <1>3, <1>6, PassShows
<1> QED BY <1>4, <1>5 DEF sightings, T, ShownIn

LEMMA RecordUseMakes ==
  ASSUME NEW e \in ToSet(Entries), FilesRead, NEW typed \in BOOLEAN, NEW o,
         NEW list, NEW shown, MadeOf(list, shown), NEW r, r = RecordUse(list, ScanConsumer(e, o, typed))
  PROVE  MadeOf(r, shown \cup ShownIn(e, o, Members, typed)) /\ Grows(list, r)
<1> DEFINE A == {"connections"}
           B == {"attached"}
           C == {"read", "call", "view"}
           a == Recorded(list, Uses(e, o, A, typed))
           b == Recorded(a, Uses(e, o, B, typed))
<1>1. /\ A \subseteq ConsumerForms /\ B \subseteq ConsumerForms /\ C \subseteq ConsumerForms
      /\ Members = A \cup B \cup C
  BY DEF ConsumerForms, HandlerForms, Members
<1>2. r = Recorded(b, Uses(e, o, C, typed))
  BY DEF RecordUse, ScanConsumer
<1> HIDE DEF A, B, C
<1>3. \A forms : forms \subseteq ConsumerForms =>
        /\ \E n \in Nat : AreSightings(Uses(e, o, forms, typed), n)
        /\ ToSet(Uses(e, o, forms, typed)) \ {Nothing} = ShownIn(e, o, forms, typed)
  BY UsePass
<1>4. MadeOf(a, shown \cup ShownIn(e, o, A, typed)) /\ Grows(list, a)
  <2>1. PICK n \in Nat : AreSightings(Uses(e, o, A, typed), n)
    BY <1>1, <1>3
  <2>2. MadeOf(a, shown \cup (ToSet(Uses(e, o, A, typed)) \ {Nothing})) /\ Grows(list, a)
    BY <2>1, RecordedMakes
  <2> QED BY <2>2, <1>1, <1>3
<1> HIDE DEF a
<1>5. MadeOf(b, (shown \cup ShownIn(e, o, A, typed)) \cup ShownIn(e, o, B, typed)) /\ Grows(a, b)
  <2>1. PICK n \in Nat : AreSightings(Uses(e, o, B, typed), n)
    BY <1>1, <1>3
  <2>2. /\ MadeOf(b, (shown \cup ShownIn(e, o, A, typed))
                       \cup (ToSet(Uses(e, o, B, typed)) \ {Nothing}))
        /\ Grows(a, b)
    BY <1>4, <2>1, RecordedMakes
  <2> QED BY <2>2, <1>1, <1>3
<1> HIDE DEF b
<1>6. /\ MadeOf(r, ((shown \cup ShownIn(e, o, A, typed)) \cup ShownIn(e, o, B, typed))
                     \cup ShownIn(e, o, C, typed))
      /\ Grows(b, r)
  <2>1. PICK n \in Nat : AreSightings(Uses(e, o, C, typed), n)
    BY <1>1, <1>3
  <2>2. /\ MadeOf(r, ((shown \cup ShownIn(e, o, A, typed)) \cup ShownIn(e, o, B, typed))
                       \cup (ToSet(Uses(e, o, C, typed)) \ {Nothing}))
        /\ Grows(b, r)
    BY <1>2, <1>5, <2>1, RecordedMakes
  <2> QED BY <2>2, <1>1, <1>3
<1>7. ((shown \cup ShownIn(e, o, A, typed)) \cup ShownIn(e, o, B, typed)) \cup ShownIn(e, o, C, typed)
        = shown \cup ShownIn(e, o, Members, typed)
  BY <1>1 DEF ShownIn, UsesIn
<1>8. Grows(list, r)
  BY <1>4, <1>5, <1>6, GrowsTransitive DEF MadeOf
<1> QED BY <1>6, <1>7, <1>8

\* What the two ends show together is what the members of the link are made of, and what the
\* owner's files alone come to stands.
LEMMA EdgeMakes ==
  ASSUME NEW o \in ToSet(Entries), FilesRead, NEW typed \in BOOLEAN
  PROVE  /\ MadeOf(EdgeMembers(o, typed), OwnerShows(o, typed) \cup ConsumersShow(o, typed))
         /\ Grows(ScanOwner(o, typed), EdgeMembers(o, typed))
<1> DEFINE N == Len(Entries)
           own == OwnerShows(o, typed)
           at(i) == ShownIn(Entries[i], o, Members, typed)
           sofar(k) == own \cup UNION {at(i) : i \in 1..k}
           scan == ScanOwner(o, typed)
           uses == [e \in ToSet(Entries) |-> ScanConsumer(e, o, typed)]
<1>1. /\ N \in Nat /\ DOMAIN Entries = 1..N
      /\ \A i \in 1..N : Entries[i] \in ToSet(Entries)
  BY ConsumersAssumption, LenProperties
<1>2. PICK f : UsesRun(scan, uses, f, N) /\ EdgeMembers(o, typed) = f[N]
  BY <1>1, UsesUnfold DEF EdgeMembers
<1> HIDE DEF N
<1>3. /\ f[0] = scan
      /\ \A k \in 1..N : f[k] = RecordUse(f[k - 1], ScanConsumer(Entries[k], o, typed))
  <2>1. 0 \in 0..N /\ \A k \in 1..N : k \in 0..N /\ k # 0
    BY <1>1
  <2>2. \A k \in 0..N : f[k] = IF k = 0 THEN scan ELSE RecordUse(f[k - 1], uses[Entries[k]])
    <3> HIDE DEF scan, uses
    <3> QED BY <1>2, Zenon DEF UsesRun
  <2>3. \A k \in 1..N : uses[Entries[k]] = ScanConsumer(Entries[k], o, typed)
    BY <1>1
  <2> HIDE DEF scan, uses
  <2> QED BY <2>1, <2>2, <2>3
<1>4. MadeOf(scan, own)
  BY ScanMakes
<1> HIDE DEF own, scan, at, uses
<1> DEFINE Good == {k \in 0..N : MadeOf(f[k], sofar(k)) /\ Grows(scan, f[k])}
<1>5. 0 \in Good
  <2>1. sofar(0) = own
    OBVIOUS
  <2>2. Grows(scan, scan)
    BY <1>4, StandsReflexive DEF Grows, MadeOf, IsContract
  <2>3. 0 \in 0..N
    BY <1>1
  <2> HIDE DEF sofar
  <2> QED BY <1>3, <1>4, <2>1, <2>2, <2>3
<1>6. ASSUME NEW k \in 1..N, k - 1 \in Good PROVE k \in Good
  <2>1. k \in 0..N /\ MadeOf(f[k - 1], sofar(k - 1)) /\ Grows(scan, f[k - 1])
    BY <1>1, <1>6
  <2>2. sofar(k) = sofar(k - 1) \cup at(k)
    <3>1. 1..k = 1..(k - 1) \cup {k}
      BY <1>1
    <3> QED BY <3>1
  <2> HIDE DEF sofar
  <2>3. f[k] = RecordUse(f[k - 1], ScanConsumer(Entries[k], o, typed)) /\ Entries[k] \in ToSet(Entries)
    BY <1>1, <1>3
  <2>4. MadeOf(f[k], sofar(k - 1) \cup at(k)) /\ Grows(f[k - 1], f[k])
    BY <2>1, <2>3, RecordUseMakes DEF at
  <2>5. Grows(scan, f[k])
    BY <1>4, <2>1, <2>4, GrowsTransitive DEF MadeOf
  <2> QED BY <2>1, <2>2, <2>4, <2>5
<1>7. N \in Good
  <2> HIDE DEF Good
  <2>1. N \in 0..N
    BY <1>1
  <2> QED BY <1>1, <1>5, <1>6, <2>1, UpTo
<1>8. UNION {at(i) : i \in 1..N} = ConsumersShow(o, typed)
  <2>1. ToSet(Entries) = {Entries[i] : i \in 1..N}
    BY <1>1 DEF ToSet
  <2>2. UsesOfForm(o, Members) = UNION {UsesIn(Entries[i], o, Members) : i \in 1..N}
    BY <2>1 DEF UsesOfForm, UsesIn
  <2>3. \A i \in 1..N : at(i) = {ConsumerSighting(s, typed) : s \in UsesIn(Entries[i], o, Members)}
    BY DEF at, ShownIn
  <2>4. ConsumersShow(o, typed) = {ConsumerSighting(s, typed) : s \in UsesOfForm(o, Members)}
    BY DEF ConsumersShow, Members
  <2> QED BY <2>2, <2>3, <2>4
<1> QED BY <1>2, <1>7, <1>8 DEF scan, own

-----------------------------------------------------------------------------
LEMMA NamedIs ==
  ASSUME NEW list, IsContract(list), NEW i \in DOMAIN list
  PROVE  MemberNamed(list, list[i].name) = list[i] /\ list[i].name \in NamesOf(list)
<1>1. \A j \in DOMAIN list : list[j].name = list[i].name => j = i
  BY DEF IsContract
<1>2. (CHOOSE j \in DOMAIN list : list[j].name = list[i].name) = i
  BY <1>1
<1> QED BY <1>2 DEF MemberNamed, NamesOf

LEMMA TypeFilled ==
  ASSUME NEW kind, NEW type, NEW filled, filled = IF kind = "prop" /\ type = "" THEN "var" ELSE type
  PROVE  filled = type \/ (filled = "var" /\ type = "")
<1>1. CASE kind = "prop" /\ type = ""
  BY <1>1, Zenon
<1>2. CASE kind # "prop"
  BY <1>2, Zenon
<1>3. CASE type # ""
  BY <1>3, Zenon
<1> QED BY <1>1, <1>2, <1>3

LEMMA RenderKeeps ==
  ASSUME NEW m
  PROVE  /\ RenderMember(m).bare = FALSE /\ RenderMember(m).kind = m.kind
         /\ RenderMember(m).name = m.name /\ RenderMember(m).params = m.params
         /\ \/ RenderMember(m).type = m.type
            \/ RenderMember(m).type = "var" /\ m.type = ""
<1> DEFINE typeOf == IF m.kind = "prop" /\ m.type = "" THEN "var" ELSE m.type
           rolesOf == IF m.kind = "model" /\ m.roles = <<>> THEN <<[type |-> "var", name |-> "role"]>>
                      ELSE m.roles
<1>1. RenderMember(m) = [bare |-> FALSE, kind |-> m.kind, name |-> m.name, params |-> m.params,
                         type |-> typeOf, roles |-> rolesOf]
  BY Zenon DEF RenderMember
<1>2. typeOf = m.type \/ (typeOf = "var" /\ m.type = "")
  BY TypeFilled, Zenon
<1> HIDE DEF typeOf, rolesOf
<1> DEFINE r == RenderMember(m)
<1>3. r.type = typeOf /\ r.bare = FALSE /\ r.kind = m.kind /\ r.name = m.name /\ r.params = m.params
  <2> HIDE DEF r
  <2>1. r = [bare |-> FALSE, kind |-> m.kind, name |-> m.name, params |-> m.params,
             type |-> typeOf, roles |-> rolesOf]
    BY <1>1, Zenon DEF r
  <2> QED BY <2>1
<1> QED BY <1>2, <1>3, Zenon DEF r

LEMMA OwnersAreEntities ==
  ASSUME NEW o \in PointOwners
  PROVE  o \in ToSet(Entries)
BY ConsumersAssumption

LEMMA OwnersReadingStandsAlways ==
  ASSUME FilesRead
  PROVE  OwnersReadingStands
<1>1. SUFFICES ASSUME NEW o \in PointOwners, NEW typed \in BOOLEAN,
                      NEW m \in ToSet(ScanOwner(o, typed)),
                      NEW e, e = MemberNamed(EdgeMembers(o, typed), m.name)
               PROVE  /\ Known(m.type) => e.type = m.type
                      /\ m.kind # "prop" => e.kind = m.kind
                      /\ Len(e.params) = Len(m.params) =>
                           \A i \in DOMAIN m.params : Known(m.params[i].type) =>
                             e.params[i].type = m.params[i].type
                      /\ \A r \in ToSet(m.roles) : Known(r.type) => r \in ToSet(e.roles)
  BY DEF OwnersReadingStands
<1>2. /\ MadeOf(EdgeMembers(o, typed), OwnerShows(o, typed) \cup ConsumersShow(o, typed))
      /\ Grows(ScanOwner(o, typed), EdgeMembers(o, typed))
  BY OwnersAreEntities, EdgeMakes
<1>3. PICK i \in DOMAIN ScanOwner(o, typed) : m = ScanOwner(o, typed)[i]
  BY DEF ToSet
<1>4. PICK j \in DOMAIN EdgeMembers(o, typed) :
        EdgeMembers(o, typed)[j].name = m.name /\ Stands(m, EdgeMembers(o, typed)[j])
  BY <1>2, <1>3 DEF Grows
<1>5. e = EdgeMembers(o, typed)[j]
  BY <1>1, <1>2, <1>4, NamedIs DEF MadeOf
<1> QED BY <1>4, <1>5 DEF Stands, RolesStand

LEMMA EvidenceIsKeptAlways ==
  ASSUME FilesRead
  PROVE  EvidenceIsKept
<1>1. SUFFICES ASSUME NEW o \in PointOwners, NEW typed \in BOOLEAN,
                      NEW s \in OwnerShows(o, typed) \cup ConsumersShow(o, typed),
                      NEW e, e = MemberNamed(EdgeMembers(o, typed), s.name)
               PROVE  /\ Known(s.type) => Known(e.type)
                      /\ \A r \in ToSet(s.roles) : \E q \in ToSet(e.roles) :
                           q.name = r.name /\ (Known(r.type) => Known(q.type))
  BY DEF EvidenceIsKept
<1>2. MadeOf(EdgeMembers(o, typed), OwnerShows(o, typed) \cup ConsumersShow(o, typed))
  BY OwnersAreEntities, EdgeMakes
<1>3. PICK j \in DOMAIN EdgeMembers(o, typed) :
        EdgeMembers(o, typed)[j].name = s.name /\ Covers(EdgeMembers(o, typed)[j], s)
  BY <1>2 DEF MadeOf, Covered
<1>4. e = EdgeMembers(o, typed)[j]
  BY <1>1, <1>2, <1>3, NamedIs DEF MadeOf
<1> QED BY <1>3, <1>4 DEF Covers, RolesCover, RoleCovered

\* A function of the contract is a function of the Source.
LEMMA SlotsAreFunctions ==
  ASSUME FilesRead, NEW o \in ToSet(Entries), NEW typed \in BOOLEAN,
         NEW i \in DOMAIN ScanOwner(o, typed), ScanOwner(o, typed)[i].kind = "slot"
  PROVE  \E s \in ToSet(files[o]) : s.form = "function" /\ s.name = ScanOwner(o, typed)[i].name
<1>1. MadeOf(ScanOwner(o, typed), OwnerShows(o, typed))
  BY ScanMakes
<1>2. PICK x \in OwnerShows(o, typed) : x.name = ScanOwner(o, typed)[i].name /\ x.kind = "slot"
  BY <1>1 DEF MadeOf, Drawn
<1>3. PICK s \in Showing(o) : x = OwnerSighting(s, typed)
  BY OwnerShowing
<1>4. s \in ToSet(files[o]) /\ s.form \in OwnerForms
  BY DEF Showing, OwnerForms
<1>5. IsStatement(s)
  BY <1>4 DEF FilesRead, ToSet
<1>6. x.name = s.name /\ s.form \in {"function", "call"}
  BY <1>2, <1>3, <1>4, <1>5, OwnerReading DEF Reading
<1>7. s.form = "function"
  BY <1>4, <1>6 DEF OwnerForms
<1> QED BY <1>2, <1>4, <1>6, <1>7

LEMMA CheckedCallsAreAnsweredAlways ==
  ASSUME FilesRead
  PROVE  CheckedCallsAreAnswered
<1>1. SUFFICES ASSUME NEW o \in PointOwners, NEW typed \in BOOLEAN, PassesCheck(o, typed),
                      ScanOwner(o, FALSE) # <<>>, DeclaresMembers(o),
                      NEW u \in ConsumersShow(o, typed), u.kind = "slot"
               PROVE  \E s \in ToSet(files[o]) : s.form = "function" /\ s.name = u.name
  BY DEF CheckedCallsAreAnswered
<1> DEFINE owner == ScanOwner(o, FALSE)
           contract == ContractSource(o)
<1>2. MadeOf(owner, OwnerShows(o, FALSE))
  BY OwnersAreEntities, ScanMakes
<1>3. contract = [i \in DOMAIN export[o].lines |-> WrittenOut(export[o].lines[i], owner)]
  BY DEF ContractSource
<1>4. UseErrors(u, contract) = {}
  BY <1>1 DEF PassesCheck, DriftErrors
<1> HIDE DEF contract
<1>5. u.name \in NamesOf(contract) /\ MemberNamed(contract, u.name).kind = "slot"
  BY <1>1, <1>4 DEF UseErrors
<1>6. PICK i \in DOMAIN contract : contract[i].name = u.name /\ contract[i].kind = "slot"
  <2>1. \E i \in DOMAIN contract : contract[i].name = u.name
    BY <1>5 DEF NamesOf
  <2> QED BY <2>1, <1>5 DEF MemberNamed
<1> DEFINE line == export[o].lines[i]
<1>7. line \in ToSet(export[o].lines) /\ contract[i] = WrittenOut(line, owner)
  BY <1>3, <1>6 DEF ToSet
<1>8. ExportLineErrors(line, owner) = {}
  <2>1. ExportErrors(o) = {} /\ export[o].there
    BY <1>1 DEF PassesCheck
  <2>2. UNION {ExportLineErrors(l, owner) : l \in ToSet(export[o].lines)} = {}
    BY <1>1, <2>1 DEF ExportErrors
  <2> HIDE DEF line, owner
  <2> QED BY <2>2, <1>7
<1> HIDE DEF line, owner
<1>9. line.name \in NamesOf(owner)
  BY <1>8 DEF ExportLineErrors
<1>10. PICK k \in DOMAIN owner : owner[k].name = line.name /\ MemberNamed(owner, line.name) = owner[k]
  <2>1. PICK k \in DOMAIN owner : owner[k].name = line.name
    BY <1>9 DEF NamesOf
  <2> QED BY <2>1, <1>2, NamedIs DEF MadeOf
<1>11. owner[k].kind = "slot" /\ owner[k].name = u.name
  <2>1. CASE line.bare
    <3>1. Certain(owner[k])
      BY <2>1, <1>8, <1>9, <1>10 DEF ExportLineErrors
    <3>2. contract[i] = RenderMember(owner[k])
      <4>1. line.bare /\ line.name \in NamesOf(owner) /\ Certain(MemberNamed(owner, line.name))
        BY <2>1, <3>1, <1>9, <1>10, Zenon
      <4>2. WrittenOut(line, owner) = RenderMember(MemberNamed(owner, line.name))
        BY <4>1, Zenon DEF WrittenOut
      <4> QED BY <4>2, <1>7, <1>10, Zenon
    <3>3. /\ RenderMember(owner[k]).kind = owner[k].kind
          /\ RenderMember(owner[k]).name = owner[k].name
      BY RenderKeeps, Zenon
    <3> QED BY <3>2, <3>3, <1>6
  <2>2. CASE ~line.bare
    <3>1. contract[i] = line
      BY <2>2, <1>7 DEF WrittenOut
    <3>2. owner[k].kind = line.kind
      BY <2>2, <1>8, <1>9, <1>10 DEF ExportLineErrors
    <3> QED BY <3>1, <3>2, <1>6, <1>10
  <2> QED BY <2>1, <2>2
<1>12. /\ k \in DOMAIN ScanOwner(o, FALSE) /\ ScanOwner(o, FALSE)[k].kind = "slot"
       /\ ScanOwner(o, FALSE)[k].name = u.name
  BY <1>10, <1>11, Zenon DEF owner
<1>13. o \in ToSet(Entries) /\ FALSE \in BOOLEAN
  BY OwnersAreEntities
<1>14. \E s \in ToSet(files[o]) : s.form = "function" /\ s.name = ScanOwner(o, FALSE)[k].name
  BY <1>12, <1>13, SlotsAreFunctions, Zenon
<1> QED BY <1>12, <1>14

(***************************************************************************)
(* What `infer --write` writes, the two lints accept.                      *)
(***************************************************************************)
TypesAgree(x, y) ==
  /\ Converts(x.type, y.type)
  /\ \A i \in DOMAIN x.params \cap DOMAIN y.params : Converts(x.params[i].type, y.params[i].type)

\* BothEndsAgree, of any two sets of sightings.
EndsAgree(own, used) ==
  /\ \A s, t \in own : s.name = t.name => Agree(s, t, FALSE)
  /\ \A u, v \in used : u.name = v.name => Agree(u, v, "prop" \in {u.kind, v.kind})
  /\ \A u \in used : \E s \in own : s.name = u.name
  /\ \A u \in used : \A s \in own : s.name = u.name => Agree(u, s, u.kind = "prop")

\* The one set read without the type checker the other was read with.
Weaker(these, those) ==
  /\ \A x \in these : IsMember(x) /\ \E y \in those : Vaguer(x, y)
  /\ \A y \in those : IsMember(y) /\ \E x \in these : Vaguer(x, y)

\* A member no sighting of either end contradicts.
Uncontradicted(m, own, used) ==
  /\ \E s \in own : s.name = m.name
  /\ \A s \in own : s.name = m.name => s.kind = m.kind
  /\ \A u \in used : u.name = m.name => u.kind \in {m.kind, "prop"}
  /\ \A s \in own \cup used : s.name = m.name => TypesAgree(s, m)
  /\ \E s \in own \cup used : s.name = m.name /\ m.type \in {s.type, "var"}

Settled(list, own, used) ==
  /\ IsContract(list)
  /\ NamesOf(list) = {s.name : s \in own}
  /\ \A i \in DOMAIN list : Uncontradicted(list[i], own, used)

LEMMA ConvertsBothWays ==
  /\ \A a, b : Converts(a, b) <=> Converts(b, a)
  /\ \A a : /\ Converts("var", a) /\ Converts(a, "var")
            /\ Converts("", a) /\ Converts(a, "")
<1>1. Family("var") = "any" /\ Family("") = "any"
  BY DEF Family
<1> QED BY <1>1 DEF Converts

LEMMA VaguerAgrees ==
  ASSUME NEW a, NEW b, NEW x, TypesAgree(a, b), Vaguer(x, b)
  PROVE  TypesAgree(a, x)
<1>1. /\ Converts(a.type, b.type) /\ Converts(a.type, "var")
      /\ \A i \in DOMAIN a.params \cap DOMAIN b.params :
           /\ Converts(a.params[i].type, b.params[i].type) /\ Converts(a.params[i].type, "var")
  BY ConvertsBothWays DEF TypesAgree
<1>2. Converts(a.type, x.type)
  <2>1. x.type = b.type \/ x.type = "var"
    BY DEF Vaguer
  <2> QED BY <2>1, <1>1, Zenon
<1>3. ASSUME NEW i \in DOMAIN a.params \cap DOMAIN x.params
      PROVE  Converts(a.params[i].type, x.params[i].type)
  <2>1. i \in DOMAIN b.params /\ (x.params[i].type = b.params[i].type \/ x.params[i].type = "var")
    BY <1>3 DEF Vaguer
  <2> QED BY <2>1, <1>1, <1>3, Zenon
<1> QED BY <1>2, <1>3, Zenon DEF TypesAgree

LEMMA AgreesBothWays ==
  ASSUME NEW a, NEW b, TypesAgree(a, b)
  PROVE  TypesAgree(b, a)
BY ConvertsBothWays DEF TypesAgree

LEMMA EndsConvert ==
  ASSUME NEW own, NEW used, EndsAgree(own, used),
         NEW x \in own \cup used, NEW y \in own \cup used, x.name = y.name
  PROVE  TypesAgree(x, y)
<1>1. CASE x \in own /\ y \in own
  BY <1>1 DEF EndsAgree, Agree, TypesAgree
<1>2. CASE x \in used /\ y \in used
  BY <1>2 DEF EndsAgree, Agree, TypesAgree
<1>3. CASE x \in used /\ y \in own
  BY <1>3 DEF EndsAgree, Agree, TypesAgree
<1>4. CASE x \in own /\ y \in used
  <2>1. TypesAgree(y, x)
    BY <1>4 DEF EndsAgree, Agree, TypesAgree
  <2> QED BY <2>1, AgreesBothWays
<1> QED BY <1>1, <1>2, <1>3, <1>4

LEMMA Settles ==
  ASSUME NEW own, NEW used, EndsAgree(own, used),
         NEW vown, NEW vused, Weaker(vown, own), Weaker(vused, used),
         NEW shown, vown \subseteq shown, shown \subseteq vown \cup vused,
         NEW list, MadeOf(list, shown)
  PROVE  Settled(list, own, used)
<1>1. \A x \in shown : \E y \in own \cup used : Vaguer(x, y)
  BY DEF Weaker
<1>2. ASSUME NEW i \in DOMAIN list, NEW m, m = list[i]
      PROVE  Uncontradicted(m, own, used)
  <2>1. Drawn(m, shown)
    BY <1>2 DEF MadeOf
  <2>2. \E s \in own : s.name = m.name
    <3>1. PICK x \in shown : x.name = m.name
      BY <2>1 DEF Drawn
    <3>2. PICK y \in own \cup used : Vaguer(x, y)
      BY <1>1
    <3> QED BY <3>1, <3>2 DEF Vaguer, EndsAgree
  <2>3. ASSUME NEW s \in own, s.name = m.name PROVE s.kind = m.kind
    <3>1. PICK x \in vown : Vaguer(x, s)
      BY DEF Weaker
    <3>2. x \in shown /\ x.name = m.name /\ x.kind = s.kind
      BY <3>1, <2>3 DEF Vaguer
    <3>3. Covers(m, x)
      <4>1. PICK j \in DOMAIN list : list[j].name = x.name /\ Covers(list[j], x)
        BY <3>2 DEF MadeOf, Covered
      <4>2. j = i
        BY <4>1, <3>2, <1>2 DEF MadeOf, IsContract
      <4> QED BY <4>1, <4>2, <1>2
    <3>4. PICK z \in shown : z.name = m.name /\ z.kind = m.kind
      BY <2>1 DEF Drawn
    <3>5. CASE z \in vown
      <4>1. PICK y \in own : Vaguer(z, y)
        BY <3>5 DEF Weaker
      <4>2. y.name = s.name /\ y.kind = m.kind
        BY <4>1, <3>4, <2>3 DEF Vaguer
      <4> QED BY <4>2, <2>3 DEF EndsAgree, Agree
    <3>6. CASE z \in vused
      <4>1. PICK u \in used : Vaguer(z, u)
        BY <3>6 DEF Weaker
      <4>2. u.name = s.name /\ u.kind = m.kind
        BY <4>1, <3>4, <2>3 DEF Vaguer
      <4>3. u.kind = s.kind \/ u.kind = "prop"
        BY <4>2, <2>3 DEF EndsAgree, Agree
      <4>4. s.kind # "prop" => m.kind # "prop"
        BY <3>2, <3>3 DEF Covers
      <4> QED BY <4>2, <4>3, <4>4
    <3> QED BY <3>5, <3>6
  <2>4. \A u \in used : u.name = m.name => u.kind \in {m.kind, "prop"}
    <3>1. SUFFICES ASSUME NEW u \in used, u.name = m.name PROVE u.kind \in {m.kind, "prop"}
      OBVIOUS
    <3>2. PICK s \in own : s.name = m.name
      BY <2>2
    <3>3. u.kind = s.kind \/ u.kind = "prop"
      BY <3>1, <3>2 DEF EndsAgree, Agree
    <3> QED BY <3>2, <3>3, <2>3
  <2>5. ASSUME NEW s \in own \cup used, s.name = m.name PROVE TypesAgree(s, m)
    <3>1. ASSUME NEW x \in shown, x.name = m.name PROVE TypesAgree(s, x)
      <4>1. PICK y \in own \cup used : Vaguer(x, y)
        BY <1>1
      <4>2. TypesAgree(s, y)
        BY <4>1, <3>1, <2>5, EndsConvert DEF Vaguer
      <4> QED BY <4>1, <4>2, VaguerAgrees
    <3>2. Converts(s.type, m.type)
      <4>1. PICK x \in shown : x.name = m.name /\ x.type = m.type
        BY <2>1 DEF Drawn
      <4> QED BY <4>1, <3>1 DEF TypesAgree
    <3>3. ASSUME NEW k \in DOMAIN s.params \cap DOMAIN m.params
          PROVE  Converts(s.params[k].type, m.params[k].type)
      <4>1. PICK x \in shown : /\ x.name = m.name /\ k \in DOMAIN x.params
                               /\ m.params[k].type = x.params[k].type
        BY <2>1 DEF Drawn
      <4> QED BY <4>1, <3>1 DEF TypesAgree
    <3> QED BY <3>2, <3>3 DEF TypesAgree
  <2>6. \E s \in own \cup used : s.name = m.name /\ m.type \in {s.type, "var"}
    <3>1. PICK x \in shown : x.name = m.name /\ x.type = m.type
      BY <2>1 DEF Drawn
    <3>2. PICK y \in own \cup used : Vaguer(x, y)
      BY <1>1
    <3> QED BY <3>1, <3>2 DEF Vaguer
  <2> QED BY <2>2, <2>3, <2>4, <2>5, <2>6 DEF Uncontradicted
<1>3. NamesOf(list) = {s.name : s \in own}
  <2>1. ASSUME NEW i \in DOMAIN list PROVE list[i].name \in {s.name : s \in own}
    BY <1>2 DEF Uncontradicted
  <2>2. ASSUME NEW s \in own PROVE \E i \in DOMAIN list : list[i].name = s.name
    <3>1. PICK x \in vown : Vaguer(x, s)
      BY DEF Weaker
    <3> QED BY <3>1 DEF Vaguer, MadeOf, Covered
  <2> QED BY <2>1, <2>2 DEF NamesOf
<1> QED BY <1>2, <1>3 DEF Settled, MadeOf

LEMMA WithoutChecker ==
  ASSUME FilesRead, NEW o \in ToSet(Entries), NEW typed \in BOOLEAN
  PROVE  /\ Weaker(OwnerShows(o, typed), OwnerShows(o, TRUE))
         /\ Weaker(ConsumersShow(o, typed), ConsumersShow(o, TRUE))
<1>1. TRUE \in BOOLEAN
  OBVIOUS
<1>2. Weaker(OwnerShows(o, typed), OwnerShows(o, TRUE))
  <2>1. /\ OwnerShows(o, typed) = {OwnerSighting(s, typed) : s \in Showing(o)}
        /\ OwnerShows(o, TRUE) = {OwnerSighting(s, TRUE) : s \in Showing(o)}
    BY <1>1, OwnerShowing
  <2>2. ASSUME NEW s \in Showing(o)
        PROVE  /\ IsMember(OwnerSighting(s, typed)) /\ IsMember(OwnerSighting(s, TRUE))
               /\ Vaguer(OwnerSighting(s, typed), OwnerSighting(s, TRUE))
    <3>1. s \in ToSet(files[o]) /\ s.form \in OwnerForms
      BY DEF Showing, OwnerForms
    <3>2. IsStatement(s)
      BY <3>1 DEF FilesRead, ToSet
    <3> QED BY <3>1, <3>2, OwnerReading DEF Reading
  <2> QED BY <2>1, <2>2 DEF Weaker
<1>3. Weaker(ConsumersShow(o, typed), ConsumersShow(o, TRUE))
  <2> DEFINE seen == UsesOfForm(o, ConsumerForms \ {"dynamic"})
  <2>1. /\ ConsumersShow(o, typed) = {ConsumerSighting(s, typed) : s \in seen}
        /\ ConsumersShow(o, TRUE) = {ConsumerSighting(s, TRUE) : s \in seen}
    BY DEF ConsumersShow
  <2>2. ASSUME NEW s \in seen
        PROVE  /\ IsMember(ConsumerSighting(s, typed)) /\ IsMember(ConsumerSighting(s, TRUE))
               /\ Vaguer(ConsumerSighting(s, typed), ConsumerSighting(s, TRUE))
    <3>1. PICK e \in ToSet(Entries) : s \in ToSet(files[e]) /\ s.form \in ConsumerForms
      BY DEF UsesOfForm
    <3>2. IsStatement(s)
      BY <3>1 DEF FilesRead, ToSet
    <3> QED BY <3>1, <3>2, ConsumerReading DEF Reading
  <2> HIDE DEF seen
  <2> QED BY <2>1, <2>2 DEF Weaker
<1> QED BY <1>2, <1>3

LEMMA EdgeSettles ==
  ASSUME FilesRead, NEW o \in PointOwners, NEW typed \in BOOLEAN, BothEndsAgree(o)
  PROVE  /\ Settled(EdgeMembers(o, typed), OwnerShows(o, TRUE), ConsumersShow(o, TRUE))
         /\ Settled(ScanOwner(o, typed), OwnerShows(o, TRUE), ConsumersShow(o, TRUE))
<1> DEFINE own == OwnerShows(o, TRUE)
           used == ConsumersShow(o, TRUE)
           vown == OwnerShows(o, typed)
           vused == ConsumersShow(o, typed)
<1>1. EndsAgree(own, used)
  BY DEF BothEndsAgree, EndsAgree
<1>2. o \in ToSet(Entries)
  BY OwnersAreEntities
<1>3. Weaker(vown, own) /\ Weaker(vused, used)
  BY <1>2, WithoutChecker
<1>4. MadeOf(EdgeMembers(o, typed), vown \cup vused) /\ MadeOf(ScanOwner(o, typed), vown)
  BY <1>2, EdgeMakes, ScanMakes
<1> SUFFICES Settled(EdgeMembers(o, typed), own, used) /\ Settled(ScanOwner(o, typed), own, used)
  OBVIOUS
<1> HIDE DEF own, used, vown, vused
<1>5. Settled(EdgeMembers(o, typed), own, used)
  <2> DEFINE shown == vown \cup vused
  <2>1. vown \subseteq shown /\ shown \subseteq vown \cup vused
    OBVIOUS
  <2>2. MadeOf(EdgeMembers(o, typed), shown)
    BY <1>4
  <2> HIDE DEF shown
  <2> QED BY <1>1, <1>3, <2>1, <2>2, Settles
<1>6. Settled(ScanOwner(o, typed), own, used)
  <2>1. vown \subseteq vown /\ vown \subseteq vown \cup vused
    OBVIOUS
  <2> QED BY <1>1, <1>3, <1>4, <2>1, Settles
<1> QED BY <1>5, <1>6

\* A member of one settled list against a member of another.
LEMMA SettledAgree ==
  ASSUME NEW own, NEW used, NEW list, NEW other, Settled(list, own, used), Settled(other, own, used),
         NEW i \in DOMAIN list, NEW k \in DOMAIN other, list[i].name = other[k].name
  PROVE  list[i].kind = other[k].kind /\ Converts(list[i].type, other[k].type)
<1> DEFINE m == list[i]
           n == other[k]
<1>1. Uncontradicted(m, own, used) /\ Uncontradicted(n, own, used) /\ m.name = n.name
  BY DEF Settled
<1> SUFFICES m.kind = n.kind /\ Converts(m.type, n.type)
  OBVIOUS
<1> HIDE DEF m, n
<1>2. m.kind = n.kind
  BY <1>1 DEF Uncontradicted
<1>3. Converts(m.type, n.type)
  <2>1. PICK s \in own \cup used : s.name = m.name /\ (m.type = s.type \/ m.type = "var")
    BY <1>1 DEF Uncontradicted
  <2>2. Converts(s.type, n.type)
    BY <1>1, <2>1 DEF Uncontradicted, TypesAgree
  <2>3. Converts("var", n.type)
    BY ConvertsBothWays
  <2> QED BY <2>1, <2>2, <2>3
<1> QED BY <1>2, <1>3

LEMMA WrittenIsAccepted ==
  ASSUME FilesRead, NEW o \in PointOwners, NEW t \in BOOLEAN, NEW typed \in BOOLEAN,
         export[o].there = TRUE, export[o].lines = RenderExport(o, t), BothEndsAgree(o)
  PROVE  PassesCheck(o, typed) /\ Unused(o, typed) = {}
<1> DEFINE own == OwnerShows(o, TRUE)
           used == ConsumersShow(o, TRUE)
           members == EdgeMembers(o, t)
           owner == ScanOwner(o, FALSE)
           lines == export[o].lines
<1>1. /\ Settled(members, own, used) /\ Settled(EdgeMembers(o, typed), own, used)
      /\ Settled(owner, own, used)
  BY EdgeSettles
<1>2. EndsAgree(own, used)
  BY DEF BothEndsAgree, EndsAgree
<1>3. lines = [i \in DOMAIN members |-> RenderMember(members[i])]
  BY DEF RenderExport
<1>4. Weaker(ConsumersShow(o, typed), used)
  BY WithoutChecker, OwnersAreEntities
<1>5. ContractSource(o) = [i \in DOMAIN lines |-> WrittenOut(lines[i], owner)]
  BY DEF ContractSource
<1> HIDE DEF own, used, members, owner
<1>6. DOMAIN lines = DOMAIN members /\ \A i \in DOMAIN lines : lines[i] = RenderMember(members[i])
  <2> HIDE DEF lines
  <2> QED BY <1>3
<1> HIDE DEF lines
<1>7. \A i \in DOMAIN lines :
        /\ lines[i].bare = FALSE /\ lines[i].kind = members[i].kind
        /\ lines[i].name = members[i].name /\ lines[i].params = members[i].params
        /\ \/ lines[i].type = members[i].type
           \/ lines[i].type = "var" /\ members[i].type = ""
  <2>1. ASSUME NEW i \in DOMAIN lines
        PROVE  /\ lines[i].bare = FALSE /\ lines[i].kind = members[i].kind
               /\ lines[i].name = members[i].name /\ lines[i].params = members[i].params
               /\ \/ lines[i].type = members[i].type
                  \/ lines[i].type = "var" /\ members[i].type = ""
    <3> DEFINE l == lines[i]
               m == members[i]
    <3>1. l = RenderMember(m)
      BY <1>6
    <3> HIDE DEF l, m
    <3>2. /\ l.bare = FALSE /\ l.kind = m.kind /\ l.name = m.name /\ l.params = m.params
          /\ l.type = m.type \/ (l.type = "var" /\ m.type = "")
      BY <3>1, RenderKeeps
    <3> QED BY <3>2 DEF l, m
  <2> QED BY <2>1, Zenon
<1>8. ContractSource(o) = lines
  <2>1. ASSUME NEW i \in DOMAIN lines PROVE WrittenOut(lines[i], owner) = lines[i]
    BY <1>7 DEF WrittenOut
  <2>2. lines = [i \in DOMAIN lines |-> lines[i]]
    BY <1>3
  <2> QED BY <1>5, <2>1, <2>2
<1>9. NamesOf(lines) = {s.name : s \in own}
  <2>1. NamesOf(lines) = NamesOf(members)
    <3>1. {lines[i].name : i \in DOMAIN lines} \subseteq {members[i].name : i \in DOMAIN members}
      <4>1. \A i \in DOMAIN lines : i \in DOMAIN members /\ lines[i].name = members[i].name
        BY <1>6, <1>7, Zenon
      <4> QED BY <4>1
    <3>2. {members[i].name : i \in DOMAIN members} \subseteq {lines[i].name : i \in DOMAIN lines}
      <4>1. \A i \in DOMAIN members : i \in DOMAIN lines /\ lines[i].name = members[i].name
        BY <1>6, <1>7, Zenon
      <4> QED BY <4>1
    <3> QED BY <3>1, <3>2 DEF NamesOf
  <2> QED BY <2>1, <1>1 DEF Settled
<1>10. DeclaresMembers(o)
  <2>1. \A l \in ToSet(lines) : l.bare = FALSE
    BY <1>7 DEF ToSet
  <2> QED BY <2>1, <1>8 DEF DeclaresMembers
<1>11. ExportErrors(o) = {}
  <2>1. ASSUME NEW l \in ToSet(lines) PROVE ExportLineErrors(l, owner) = {}
    <3>1. PICK i \in DOMAIN lines : l = lines[i]
      BY DEF ToSet
    <3>2. l.name \in NamesOf(owner)
      BY <3>1, <1>9, <1>1 DEF NamesOf, Settled
    <3>3. PICK k \in DOMAIN owner : owner[k].name = l.name
      BY <3>2 DEF NamesOf
    <3>4. MemberNamed(owner, l.name) = owner[k]
      BY <3>3, <1>1, NamedIs DEF Settled
    <3>5. owner[k].kind = members[i].kind /\ Converts(owner[k].type, members[i].type)
      <4>1. i \in DOMAIN members /\ owner[k].name = members[i].name
        BY <1>6, <1>7, <3>1, <3>3
      <4> QED BY <1>1, <4>1, SettledAgree, Zenon
    <3>6. Converts(owner[k].type, l.type)
      <4>1. l.type = members[i].type \/ l.type = "var"
        BY <3>1, <1>7
      <4>2. Converts(owner[k].type, "var")
        BY ConvertsBothWays
      <4> QED BY <4>1, <4>2, <3>5, Zenon
    <3>7. owner[k].kind = l.kind /\ l.bare = FALSE
      BY <3>1, <3>5, <1>7
    <3> QED BY <3>2, <3>4, <3>6, <3>7 DEF ExportLineErrors
  <2>2. ExportErrors(o) = IF ~export[o].there \/ owner = <<>> THEN {}
                          ELSE UNION {ExportLineErrors(l, owner) : l \in ToSet(lines)}
    BY DEF ExportErrors, owner, lines
  <2> QED BY <2>1, <2>2
<1>12. DriftErrors(o, typed) = {}
  <2>1. ASSUME NEW m \in ConsumersShow(o, typed) PROVE UseErrors(m, lines) = {}
    <3>1. PICK u \in used : Vaguer(m, u)
      BY <1>4 DEF Weaker
    <3>2. PICK s \in own : s.name = u.name
      BY <1>2 DEF EndsAgree
    <3>3. m.name \in NamesOf(lines)
      BY <3>1, <3>2, <1>9 DEF Vaguer
    <3>4. PICK i \in DOMAIN lines : lines[i].name = m.name
      BY <3>3 DEF NamesOf
    <3>5. MemberNamed(lines, m.name) = lines[i]
      <4>1. \A j \in DOMAIN lines : lines[j].name = m.name => j = i
        <5>1. \A j, k \in DOMAIN members : members[j].name = members[k].name => j = k
          BY <1>1 DEF Settled, IsContract
        <5>2. \A j \in DOMAIN lines : j \in DOMAIN members /\ lines[j].name = members[j].name
          BY <1>6, <1>7
        <5> QED BY <3>4, <5>1, <5>2
      <4>2. (CHOOSE j \in DOMAIN lines : lines[j].name = m.name) = i
        BY <3>4, <4>1
      <4> QED BY <4>2 DEF MemberNamed
    <3>6. Uncontradicted(members[i], own, used) /\ members[i].name = u.name /\ IsMember(members[i])
      BY <1>1, <1>6, <1>7, <3>1, <3>4 DEF Settled, IsContract, Vaguer
    <3>7. m.kind # "slot" \/ lines[i].kind = "slot"
      <4>1. m.kind = u.kind
        BY <3>1 DEF Vaguer
      <4>2. u.kind \in {members[i].kind, "prop"}
        BY <3>6 DEF Uncontradicted
      <4> QED BY <4>1, <4>2, <1>7
    <3>8. \A j \in DOMAIN m.params \cap DOMAIN lines[i].params :
            m.params[j].type = "var" \/ Converts(m.params[j].type, lines[i].params[j].type)
      <4>1. TypesAgree(u, members[i])
        BY <3>6 DEF Uncontradicted
      <4>2. DOMAIN m.params = DOMAIN u.params
            /\ \A j \in DOMAIN m.params : m.params[j].type \in {u.params[j].type, "var"}
        BY <3>1 DEF Vaguer
      <4> QED BY <4>1, <4>2, <1>7 DEF TypesAgree
    <3>9. \A j \in 1..(IF Len(m.params) < Len(lines[i].params) THEN Len(m.params)
                       ELSE Len(lines[i].params)) :
            j \in DOMAIN m.params \cap DOMAIN lines[i].params
      <4>1. m.params \in Seq(Param) /\ lines[i].params \in Seq(Param)
        BY <1>4, <1>7, <3>6 DEF Weaker, IsMember
      <4>2. /\ Len(m.params) \in Nat /\ DOMAIN m.params = 1..Len(m.params)
            /\ Len(lines[i].params) \in Nat /\ DOMAIN lines[i].params = 1..Len(lines[i].params)
        BY <4>1, LenProperties
      <4> QED BY <4>2
    <3> QED BY <3>3, <3>5, <3>7, <3>8, <3>9 DEF UseErrors
  <2> QED BY <2>1, <1>8 DEF DriftErrors
<1>13. Unused(o, typed) = {}
  <2>1. NamesOf(EdgeMembers(o, typed)) = {s.name : s \in own}
    BY <1>1 DEF Settled
  <2> QED BY <2>1, <1>8, <1>9 DEF Unused
<1> QED BY <1>11, <1>12, <1>13 DEF PassesCheck

(***************************************************************************)
(* The author and `infer --write`.                                         *)
(***************************************************************************)
ContractTypes ==
  /\ DOMAIN files = ToSet(Entries)
  /\ \A e \in ToSet(Entries) : files[e] \in Seq(Statements[e])
  /\ DOMAIN export = PointOwners
  /\ \A o \in PointOwners : export[o].there \in BOOLEAN
  /\ wrote \subseteq PointOwners

\* The block `infer --write` wrote is still there, and the files it was read from have not changed.
WroteFromFiles ==
  \A o \in wrote : \E t \in BOOLEAN : export[o].there = TRUE /\ export[o].lines = RenderExport(o, t)

ContractInv == ContractTypes /\ WroteFromFiles

LEMMA StatementsAreRead ==
  ASSUME ContractTypes
  PROVE  FilesRead
<1>1. SUFFICES ASSUME NEW e \in ToSet(Entries)
               PROVE  \E n \in Nat : /\ files[e] = [i \in 1..n |-> files[e][i]]
                                     /\ \A i \in 1..n : IsStatement(files[e][i])
  BY DEF FilesRead
<1> DEFINE f == files[e]
<1>2. f \in Seq(Statements[e])
  BY DEF ContractTypes
<1>3. /\ Len(f) \in Nat /\ f \in [1..Len(f) -> Statements[e]]
  BY <1>2, LenProperties
<1>4. \A s \in Statements[e] : IsStatement(s)
  BY StatementsAssumption DEF IsStatement
<1> SUFFICES \E n \in Nat : /\ f = [i \in 1..n |-> f[i]]
                            /\ \A i \in 1..n : IsStatement(f[i])
  OBVIOUS
<1> HIDE DEF f
<1> QED BY <1>3, <1>4

LEMMA SameFilesSameBlock ==
  ASSUME files' = files, NEW o, NEW t
  PROVE  RenderExport(o, t)' = RenderExport(o, t)
<1>1. OwnerSightings(o, t)' = OwnerSightings(o, t)
  BY DEF OwnerSightings
<1>2. ScanOwner(o, t)' = ScanOwner(o, t)
  BY <1>1 DEF ScanOwner, RaisedSightings
<1>3. [e \in ToSet(Entries) |-> ScanConsumer(e, o, t)]' = [e \in ToSet(Entries) |-> ScanConsumer(e, o, t)]
  BY DEF ScanConsumer, Uses
<1>4. EdgeMembers(o, t)' = EdgeMembers(o, t)
  BY <1>2, <1>3 DEF EdgeMembers
<1> QED BY <1>4 DEF RenderExport

LEMMA ContractStart ==
  ASSUME InferInit
  PROVE  ContractInv
<1>1. \A S : <<>> \in Seq(S)
  OBVIOUS
<1> QED BY <1>1 DEF InferInit, ContractInv, ContractTypes, WroteFromFiles

LEMMA ContractStep ==
  ASSUME ContractInv, [InferNext]_inferVars
  PROVE  ContractInv'
<1>1. CASE \E e \in ToSet(Entries) : \E s \in Statements[e] : AuthorWrites(e, s)
  <2>1. PICK e \in ToSet(Entries) : \E s \in Statements[e] : AuthorWrites(e, s)
    BY <1>1
  <2>2. PICK s \in Statements[e] : AuthorWrites(e, s)
    BY <2>1
  <2>3. /\ files' = [files EXCEPT ![e] = Append(@, s)] /\ wrote' = {} /\ export' = export
    BY <2>2 DEF AuthorWrites
  <2>4. Append(files[e], s) \in Seq(Statements[e])
    BY <2>2, AppendProperties DEF ContractInv, ContractTypes
  <2>5. DOMAIN files' = ToSet(Entries) /\ \A x \in ToSet(Entries) : files'[x] \in Seq(Statements[x])
    BY <2>3, <2>4 DEF ContractInv, ContractTypes
  <2> QED BY <2>3, <2>5 DEF ContractInv, ContractTypes, WroteFromFiles
<1>2. CASE \E o \in PointOwners : \E l \in Lines[o] : AuthorExports(o, l)
  <2>1. PICK o \in PointOwners : \E l \in Lines[o] : AuthorExports(o, l)
    BY <1>2
  <2>2. PICK l \in Lines[o] : AuthorExports(o, l)
    BY <2>1
  <2>3. /\ export' = [export EXCEPT ![o] = [there |-> TRUE, lines |-> Append(@.lines, l)]]
        /\ wrote' = wrote \ {o} /\ files' = files
    BY <2>2 DEF AuthorExports
  <2>4. DOMAIN export' = PointOwners /\ \A x \in PointOwners : x # o => export'[x] = export[x]
    BY <2>3 DEF ContractInv, ContractTypes
  <2>5. \A x \in PointOwners : export'[x].there \in BOOLEAN
    BY <2>3, <2>4 DEF ContractInv, ContractTypes
  <2>6. ContractTypes'
    BY <2>3, <2>4, <2>5 DEF ContractInv, ContractTypes
  <2>7. ASSUME NEW x \in wrote'
        PROVE  \E t \in BOOLEAN : export'[x].there = TRUE /\ export'[x].lines = RenderExport(x, t)'
    <3>1. x \in wrote /\ x \in PointOwners /\ x # o
      BY <2>3, <2>7 DEF ContractInv, ContractTypes
    <3>2. PICK t \in BOOLEAN : export[x].there = TRUE /\ export[x].lines = RenderExport(x, t)
      BY <3>1 DEF ContractInv, WroteFromFiles
    <3> QED BY <2>3, <2>4, <3>1, <3>2, SameFilesSameBlock
  <2> QED BY <2>6, <2>7 DEF ContractInv, WroteFromFiles
<1>3. CASE \E typed, force \in BOOLEAN : InferWrite(typed, force)
  <2>1. PICK typed \in BOOLEAN, force \in BOOLEAN : InferWrite(typed, force)
    BY <1>3
  <2> DEFINE planned == {o \in PointOwners : EdgeMembers(o, typed) # <<>>}
  <2>2. /\ export' = [o \in PointOwners |->
                        IF o \in planned THEN [there |-> TRUE, lines |-> RenderExport(o, typed)]
                        ELSE export[o]]
        /\ wrote' = wrote \cup planned /\ files' = files /\ planned \subseteq PointOwners
    BY <2>1 DEF InferWrite
  <2> HIDE DEF planned
  <2>3. /\ \A x \in planned : export'[x].there = TRUE /\ export'[x].lines = RenderExport(x, typed)
        /\ \A x \in PointOwners \ planned : export'[x] = export[x]
        /\ DOMAIN export' = PointOwners
    BY <2>2
  <2>4. ContractTypes'
    <3>1. \A x \in PointOwners : export'[x].there \in BOOLEAN
      BY <2>3 DEF ContractInv, ContractTypes
    <3> QED BY <2>2, <2>3, <3>1 DEF ContractInv, ContractTypes
  <2>5. ASSUME NEW x \in wrote'
        PROVE  \E t \in BOOLEAN : export'[x].there = TRUE /\ export'[x].lines = RenderExport(x, t)'
    <3>1. CASE x \in planned
      BY <2>2, <2>3, <3>1, SameFilesSameBlock
    <3>2. CASE x \notin planned
      <4>1. x \in wrote /\ x \in PointOwners
        BY <2>2, <2>5, <3>2 DEF ContractInv, ContractTypes
      <4>2. PICK t \in BOOLEAN : export[x].there = TRUE /\ export[x].lines = RenderExport(x, t)
        BY <4>1 DEF ContractInv, WroteFromFiles
      <4> QED BY <2>2, <2>3, <3>2, <4>1, <4>2, SameFilesSameBlock
    <3> QED BY <3>1, <3>2
  <2> QED BY <2>4, <2>5 DEF ContractInv, WroteFromFiles
<1>4. CASE UNCHANGED inferVars
  <2>1. files' = files /\ export' = export /\ wrote' = wrote
    BY <1>4 DEF inferVars
  <2>2. ContractTypes'
    BY <2>1 DEF ContractInv, ContractTypes
  <2>3. ASSUME NEW x \in wrote
        PROVE  \E t \in BOOLEAN : export'[x].there = TRUE /\ export'[x].lines = RenderExport(x, t)'
    <3>1. PICK t \in BOOLEAN : export[x].there = TRUE /\ export[x].lines = RenderExport(x, t)
      BY DEF ContractInv, WroteFromFiles
    <3> QED BY <2>1, <3>1, SameFilesSameBlock
  <2> QED BY <2>1, <2>2, <2>3 DEF ContractInv, WroteFromFiles
<1> QED BY <1>1, <1>2, <1>3, <1>4 DEF InferNext

LEMMA WrittenBlocksAreAccepted ==
  ASSUME ContractInv
  PROVE  InferredContractIsAccepted
<1>1. SUFFICES ASSUME NEW o \in wrote, NEW typed \in BOOLEAN, BothEndsAgree(o)
               PROVE  PassesCheck(o, typed) /\ Unused(o, typed) = {}
  BY DEF InferredContractIsAccepted
<1>2. FilesRead /\ o \in PointOwners
  BY StatementsAreRead DEF ContractInv, ContractTypes
<1>3. PICK t \in BOOLEAN : export[o].there = TRUE /\ export[o].lines = RenderExport(o, t)
  BY DEF ContractInv, WroteFromFiles
<1> QED BY <1>1, <1>2, <1>3, WrittenIsAccepted

\* Of every set of files and every block: what was written by `infer --write` is there as the
\* files make it for as long as neither is touched (infer.py `write`).
THEOREM ContractInvariant == InferSpec => []ContractInv
<1>1. InferInit => ContractInv
  BY ContractStart
<1>2. ContractInv /\ [InferNext]_inferVars => ContractInv'
  BY ContractStep
<1> QED BY <1>1, <1>2, PTL DEF InferSpec

\* The owner's own reading of a member stands, whatever the consumers do with it (infer.py
\* `collect`, `_merged`): OwnersReadingStands of every project, for every statement its author
\* may write and in any order.
THEOREM OwnersReadingStandsHolds == InferSpec => []OwnersReadingStands
<1>1. ContractInv => OwnersReadingStands
  BY StatementsAreRead, OwnersReadingStandsAlways DEF ContractInv
<1> QED BY <1>1, ContractInvariant, PTL

\* What any one sighting knew is known of the member it is folded into (infer.py `_merged`):
\* EvidenceIsKept of every project.
THEOREM EvidenceIsKeptHolds == InferSpec => []EvidenceIsKept
<1>1. ContractInv => EvidenceIsKept
  BY StatementsAreRead, EvidenceIsKeptAlways DEF ContractInv
<1> QED BY <1>1, ContractInvariant, PTL

\* What `infer --write` writes, `check` accepts (infer.py `write`, check.py `lint_exports` and
\* `lint_contract_drift`): InferredContractIsAccepted of every project.
THEOREM InferredContractsAreAccepted == InferSpec => []InferredContractIsAccepted
<1>1. ContractInv => InferredContractIsAccepted
  BY WrittenBlocksAreAccepted
<1> QED BY <1>1, ContractInvariant, PTL

\* A call that check lets through is of a function the owner has (check.py `lint_exports`,
\* `lint_contract_drift`): CheckedCallsAreAnswered of every project and every export block.
THEOREM CheckedCallsAnswered == InferSpec => []CheckedCallsAreAnswered
<1>1. ContractInv => CheckedCallsAreAnswered
  BY StatementsAreRead, CheckedCallsAreAnsweredAlways DEF ContractInv
<1> QED BY <1>1, ContractInvariant, PTL
=============================================================================
