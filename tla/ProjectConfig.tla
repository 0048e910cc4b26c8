---------------------------- MODULE ProjectConfig ----------------------------
(***************************************************************************)
(* A project as synqt.yaml declares it, and what every command reads out   *)
(* of it (tools/synqt/synqt/appmodel.py, topologywriter.py).               *)
(*                                                                         *)
(* A block of synqt.yaml is a function from the keys it declares to their  *)
(* values, so that a key left out, a key left blank ("null") and a key     *)
(* that is set are three different things, as they are to the code. Keys   *)
(* keep their dotted names. A value stands for what the readers tell apart: *)
(*   "text", "list", "block"  of that YAML kind ("[]" is the empty list,   *)
(*                   "odd" a list or a block with an entry nobody reads)   *)
(*   "1", "8443"...  whole numbers;  "true", "false"  flags                *)
(*   "env"           an env: reference                                     *)
(*   "127.0.0.1", "0.0.0.0", "hostname"  addresses, and a name             *)
(***************************************************************************)
EXTENDS Naturals, Sequences, FiniteSets, SequencesExt

CONSTANTS
  Names,       \* entity names
  PointOrder,  \* the names a connect point can have, sorted
  MeshPorts    \* the ports from MESH_PORT_BASE up, one per place in that order

FrameworkPoints == {"identity", "sessions", "ingest", "console"}

ASSUME ConfigAssumption ==
  /\ Names \cup FrameworkPoints \subseteq ToSet(PointOrder)
  /\ Len(MeshPorts) >= Len(PointOrder) /\ IsInjective(MeshPorts)

Ints == {"-1", "0", "1", "2", "8443", "8444", "8445", "8446", "8789", "9440", "9441"}
AtLeastOne == Ints \ {"-1", "0"}
Flags == {"true", "false"}
Loopback == {"127.0.0.1", "localhost"}

\* dict.get, where blank and left out read the same.
At(block, key) == IF key \in DOMAIN block /\ block[key] # "null" THEN block[key] ELSE ""

(***************************************************************************)
(* Entities.                                                               *)
(***************************************************************************)
TypeFolders == {"client", "web_edge", "relational", "document", "cache", "api", "jobs",
                "monitor", "service"}

Entities(p) == ToSet(p.list)

EntityType(p, n) == LET t == At(p.ent[n], "type") IN IF t = "" THEN "service" ELSE t

IsClient(p, n) == EntityType(p, n) = "client"
IsEdge(p, n) == EntityType(p, n) = "web_edge"
IsMonitor(p, n) == EntityType(p, n) = "monitor"
IsService(p, n) == ~IsClient(p, n)

\* A monitor serves its own console, so it is one of these too.
ServesBrowser(p, n) == IsEdge(p, n) \/ IsMonitor(p, n)

Clients(p) == {n \in Entities(p) : IsClient(p, n)}
Edges(p) == {n \in Entities(p) : IsEdge(p, n)}
Monitors(p) == {n \in Entities(p) : IsMonitor(p, n)}

\* client_entity: the first client declared, or "".
ClientEntity(p) ==
  LET first == {i \in DOMAIN p.list : /\ IsClient(p, p.list[i])
                                      /\ \A j \in 1..(i - 1) : ~IsClient(p, p.list[j])}
  IN IF first = {} THEN "" ELSE p.list[CHOOSE i \in first : TRUE]

\* A block that is not a mapping reads as an empty one.
Mapping(block, name) == At(block, name) \notin {"text", "list"}
Public(p, n, key) == IF Mapping(p.ent[n], "public") THEN At(p.ent[n], key) ELSE ""
Inbound(p, n, key) ==
  IF At(p.ent[n], "network") # "text" /\ At(p.ent[n], "network.inbound") = "block"
  THEN At(p.ent[n], key) ELSE ""
Security(p, key) == IF Mapping(p.top, "security") THEN At(p.top, key) ELSE ""
Identity(p, key) == IF At(p.top, "identity") = "block" THEN At(p.top, key) ELSE ""

ClientTargets(p, n) ==
  CASE At(p.ent[n], "targets") = "desktop" -> {"desktop"}
    [] At(p.ent[n], "targets") = "both"    -> {"wasm", "desktop"}
    [] OTHER                               -> {"wasm"}
HasDesktopClient(p) == \E n \in Clients(p) : "desktop" \in ClientTargets(p, n)

ServesInbound(p, n) == At(p.ent[n], "network") # "text" /\ At(p.ent[n], "network.inbound") = "block"

\* public_port: a port that is not written is bound all the same.
PublicPort(p, n) ==
  IF Public(p, n, "public.port") \in {"", "0"} THEN "8443" ELSE Public(p, n, "public.port")
PublicHost(p, n) ==
  IF Public(p, n, "public.host") = "" THEN "127.0.0.1" ELSE Public(p, n, "public.host")

\* The readers that refuse a value raise AppGenError: Refused stands for it.
Refused == "AppGenError"
WholeOr(v, default) ==
  IF v = "" THEN default ELSE IF v \in AtLeastOne THEN v ELSE Refused
Replicas(p, n) == WholeOr(At(p.ent[n], "replicas"), "1")
Threads(p, n) == WholeOr(At(p.ent[n], "threads"), "1")
ProxyList(v) ==
  IF v \in {"", "[]"} THEN "" ELSE IF v \in {"list", "odd"} THEN v ELSE Refused
TrustedProxies(p, n) == ProxyList(Public(p, n, "public.trusted_proxies"))
InboundTrustedProxies(p, n) == ProxyList(Inbound(p, n, "network.inbound.trusted_proxies"))

OneOf(v, allowed, default) ==
  IF v = "" THEN default ELSE IF v \in allowed THEN v ELSE Refused
SessionTransport(p) == OneOf(Security(p, "security.session_transport"), {"cookie"}, "")
IdentityFlow(p) == OneOf(Identity(p, "identity.flow"), {"authorization_code"}, "")
DesktopSession(p) ==
  OneOf(Identity(p, "identity.desktop_session"), {"memory", "device"}, "memory")
DeviceMinBinding(p) ==
  OneOf(Identity(p, "identity.device.min_binding"), {"user", "application", "hardware"}, "user")

(***************************************************************************)
(* Identity, scopes and what a browser is given.                           *)
(***************************************************************************)
\* has_dev_stub, dev_stub_port: a port that is not one means the default.
HasDevStub(p) == Identity(p, "identity.dev_stub") \notin {"", "false"}
DevStubPort(p) ==
  LET v == Identity(p, "identity.dev_stub.port") IN
  IF Identity(p, "identity.dev_stub") = "block" /\ v \in AtLeastOne THEN v ELSE "8789"

\* identity_providers: what is declared, and the development sign-in beside it.
IdentityProviders(p) ==
  (IF Identity(p, "identity.providers") = "list" THEN {"github"} ELSE {})
    \cup (IF HasDevStub(p) THEN {"dev"} ELSE {})

IdentityEnabled(p, n) == IdentityProviders(p) # {} /\ At(p.ent[n], "identity") # "false"

ProviderEntity(p) == Identity(p, "identity.provider_entity")
MappingHook(p) == Identity(p, "identity.mapping.hook")

MonitorEntity(p) == IF Mapping(p.top, "monitoring") THEN At(p.top, "monitoring.entity") ELSE ""
MonitorWatches(p, n) == At(p.ent[n], "console") = "true"

\* scopes.order is a sequence of scopes or "" when it is not a list.
ScopeOrder(p) == IF Mapping(p.top, "scopes") THEN p.scopes ELSE <<>>
Hierarchical(p) == At(p.top, "scopes.hierarchical") # "false"
DefaultScope(p) ==
  LET v == IF Mapping(p.top, "scopes") THEN At(p.top, "scopes.default") ELSE ""
  IN IF v = "" THEN "anonymous" ELSE v

Rank(p, s) == IF s \in ToSet(ScopeOrder(p)) THEN CHOOSE i \in 1..Len(ScopeOrder(p)) :
                                                ScopeOrder(p)[i] = s ELSE 0

\* bundles_for: what each scope downloads; with no block, the first client.
BundlesFor(p, n) ==
  IF DOMAIN p.bundles[n] # {} THEN p.bundles[n]
  ELSE IF ClientEntity(p) = "" THEN [s \in {} |-> ""]
  ELSE [s \in {DefaultScope(p)} |-> [kind |-> "client", value |-> ClientEntity(p)]]

(***************************************************************************)
(* Connect points: the ones declared, and the ones two keys imply.         *)
(***************************************************************************)
Owners(p) == DOMAIN p.point

AppPoints(p) ==
  {[name |-> n, owner |-> n, contract |-> n, consumers |-> p.point[n].consumers,
    framework |-> FALSE] : n \in Owners(p)}

Implied(name, contract, owner, consumers) ==
  [name |-> name, owner |-> owner, contract |-> contract, consumers |-> consumers,
   framework |-> TRUE]

PointNames(points) == {q.name : q \in points}

\* auth_connect_points: owned by the auth entity, consumed by every edge that
\* signs people in. A declared point of that name is not replaced.
AuthConnectPoints(p) ==
  LET signIns == {n \in Edges(p) : IdentityEnabled(p, n)}
      implied == {Implied("identity", "Identity", ProviderEntity(p), signIns),
                  Implied("sessions", "SessionStore", ProviderEntity(p), signIns)}
  IN IF ProviderEntity(p) = "" \/ IdentityProviders(p) = {} THEN {}
     ELSE {q \in implied : q.name \notin PointNames(AppPoints(p))}

\* monitoring_connect_points: every service reports, every console watches.
MonitoringConnectPoints(p, declared) ==
  LET owner == MonitorEntity(p)
      reporters == {n \in Entities(p) : IsService(p, n)} \ {owner}
      watchers == {n \in Clients(p) : MonitorWatches(p, n)}
      implied == {Implied("ingest", "Ingest", owner, reporters)}
                   \cup (IF watchers = {} THEN {}
                         ELSE {Implied("console", "Console", owner, watchers)})
  IN IF owner = "" THEN {} ELSE {q \in implied : q.name \notin PointNames(declared)}

WithAuth(p) == AppPoints(p) \cup AuthConnectPoints(p)
ConnectPoints(p) == WithAuth(p) \cup MonitoringConnectPoints(p, WithAuth(p))

OwnedBy(p, n) == {q \in ConnectPoints(p) : q.owner = n}

\* client_facing: what an edge hosts for browsers. mesh_consumed: what an
\* entity reaches over the mesh.
ClientFacing_ByName(p, n) ==
  {q \in ConnectPoints(p) : q.owner = n /\ "client" \in q.consumers}
ClientFacing(p, n) ==
  {q \in ConnectPoints(p) : q.owner = n /\ q.consumers \cap Clients(p) # {}}
MeshConsumed(p, n) == {q \in ConnectPoints(p) : n \in q.consumers /\ q.owner # n}

(***************************************************************************)
(* The topology each process is started with.                              *)
(***************************************************************************)
\* mesh_settings: the point's own key when it is written, blank or not, or else
\* the one in its owner's mesh: block.
MeshSetting(p, q, key) ==
  IF ~q.framework /\ key \in DOMAIN p.point[q.owner].set THEN At(p.point[q.owner].set, key)
  ELSE IF q.owner \in Entities(p) /\ Mapping(p.ent[q.owner], "mesh")
  THEN At(p.ent[q.owner], key) ELSE ""

\* resolve_endpoints: the place among the names sorted gives the port.
ResolveEndpoints(p, points) ==
  LET ordered == SelectSeq(PointOrder, LAMBDA x : x \in PointNames(points))
      place(q) == CHOOSE i \in 1..Len(ordered) : ordered[i] = q.name
      port(q) == LET v == MeshSetting(p, q, "mesh.port")
                 IN IF v \in {"", "0"} THEN MeshPorts[place(q)] ELSE v
      host(q) == LET v == MeshSetting(p, q, "mesh.host") IN IF v = "" THEN "127.0.0.1" ELSE v
  IN [x \in PointNames(points) |->
        LET q == CHOOSE r \in points : r.name = x IN
        IF MeshSetting(p, q, "mesh.transport") = "local"
        THEN [transport |-> "local", host |-> "127.0.0.1", port |-> x]
        ELSE [transport |-> "mtls", host |-> host(q), port |-> port(q)]]

\* entity_topology: the points this process hosts or reaches, each with its
\* endpoint. The points an edge owns are its browsers', and are left out.
EntityTopology(p, n) ==
  LET points == ConnectPoints(p)
      mine == IF IsEdge(p, n) THEN {q \in points : q.owner # n /\ n \in q.consumers}
              ELSE {q \in points : q.owner = n \/ n \in q.consumers}
      endpoints == ResolveEndpoints(p, points)
  IN {[point |-> q, endpoint |-> endpoints[q.name]] : q \in mine}

\* write: one file per service, and one per edge that reaches anything.
WriteTopologies(p) ==
  LET written == {n \in Entities(p) : IsService(p, n)
                    /\ (IsEdge(p, n) => MeshConsumed(p, n) # {})}
  IN [n \in written |-> EntityTopology(p, n)]

=============================================================================
