-------------------------- MODULE ProjectGenerate ---------------------------
(***************************************************************************)
(* What `synqt build` writes out of a project: one main.cpp per entity     *)
(* (tools/synqt/synqt/maingen.py, chosen in appgen.py), told apart by what  *)
(* the process it compiles to hosts, reaches and holds. The rules here are *)
(* the generator's own: it raises AppGenError where it cannot write a      *)
(* value, whatever `synqt check` said of it.                               *)
(***************************************************************************)
EXTENDS ProjectCheck

(***************************************************************************)
(* Where the generator refuses. It asks whether a key is written, so one   *)
(* that is left blank is a value it cannot write.                          *)
(***************************************************************************)
\* _int_literal, _bool_literal
IntRefused(block, key) == key \in DOMAIN block /\ block[key] \notin Ints
BoolRefused(block, key) == key \in DOMAIN block /\ block[key] \notin Flags

\* _api_config_lines
ApiConfigRefused(p, n) ==
  /\ ServesInbound(p, n)
  /\ \/ \E key \in {"network.inbound.port", "network.inbound.max_body_bytes",
                    "network.inbound.rate_per_minute", "network.inbound.max_connections",
                    "network.inbound.reply_timeout_ms"} :
          IntRefused(p.ent[n], key)
     \/ InboundTrustedProxies(p, n) = Refused

SecurityNumbers ==
  {"security.handshake_timeout_ms", "security.max_message_bytes", "security.max_sessions",
   "security.max_requests_per_second"}

\* _edge_policy_lines, identity_flow
EdgePolicyRefused(p, n) ==
  \/ Mapping(p.ent[n], "public") /\ BoolRefused(p.ent[n], "public.serve_client")
  \/ TrustedProxies(p, n) = Refused
  \/ /\ Mapping(p.top, "security")
     /\ \/ /\ "security.allowed_origins" \in DOMAIN p.top
           /\ p.top["security.allowed_origins"] \notin {"list", "[]", "odd"}
        \/ \E key \in SecurityNumbers : IntRefused(p.top, key)
  \/ SessionTransport(p) = Refused \/ IdentityFlow(p) = Refused
  \/ /\ At(p.top, "identity") = "block"
     /\ \/ BoolRefused(p.top, "identity.required")
        \/ IntRefused(p.top, "identity.session.ttl_minutes")
  \/ Threads(p, n) = Refused

\* _identity_provider_block, for whoever is given the client secret
ProviderBlockRefused(p) ==
  /\ Identity(p, "identity.providers") = "list"
  /\ \/ At(p.top, "provider.use_id_token") \notin Flags \cup {""}
     \/ At(p.top, "provider.client_secret") # "env"

\* _identity_device_lines
DeviceRefused(p) ==
  \/ DesktopSession(p) = Refused
  \/ /\ DesktopSession(p) = "device"
     /\ \/ DeviceMinBinding(p) = Refused
        \/ IntRefused(p.top, "identity.device.lifetime_days")

\* _identity_refresh_lines
RefreshRefused(p) == IntRefused(p.top, "identity.refresh.interval_seconds")

\* _identity_lines
IdentityRefused(p, n) ==
  /\ IdentityEnabled(p, n)
  /\ \/ DeviceRefused(p)
     \/ ProviderEntity(p) = "" /\ (RefreshRefused(p) \/ ProviderBlockRefused(p))

\* route_view
RouteRefused(p, n) == \E r \in RoutesFor(p, n) : ~IsRemoteRoute(r) /\ r.view = ""

(***************************************************************************)
(* The mains. `faces` are the points it hosts for browsers and `hosts` the *)
(* ones it hosts on the mesh, `dials` the entities it opens a mesh link to,*)
(* `secrets` the sign-ins whose client secret is read in this process, and *)
(* `serves` what each scope is given to download.                          *)
(***************************************************************************)
NoMain == [main |-> "refused"]

\* render_client_main
RenderClientMain(p, n) ==
  IF \/ RouteRefused(p, n)
     \/ At(p.top, "identity") = "block" /\ DesktopSession(p) = Refused
  THEN NoMain
  ELSE [main |-> "client", faces |-> {}, hosts |-> {}, dials |-> {}, secrets |-> {},
        serves |-> [s \in {} |-> ""]]

\* The adopters and the fronts take a replica the edge already dials.
AuthAdoption(p, n) ==
  {q.name : q \in {x \in MeshConsumed(p, n) : x.framework}} \cap {"identity", "sessions"}
FrontAdoption(p, n) ==
  UNION {{p.point[q.owner].tiers[s] : s \in DOMAIN p.point[q.owner].tiers} :
           q \in {x \in ClientFacing(p, n) : ~x.framework}}

\* render_edge_main
RenderEdgeMain_KeepsSecrets(p, n) ==
  IF \/ EdgePolicyRefused(p, n) \/ IdentityRefused(p, n)
     \/ Mapping(p.ent[n], "public") /\ IntRefused(p.ent[n], "public.port")
  THEN NoMain
  ELSE [main |-> "edge", faces |-> PointNames(ClientFacing(p, n)), hosts |-> {},
        dials |-> {q.owner : q \in MeshConsumed(p, n)},
        secrets |-> IF IdentityEnabled(p, n)
                    THEN IdentityProviders(p) ELSE {},
        serves |-> BundlesFor(p, n)]
RenderEdgeMain(p, n) ==
  IF \/ EdgePolicyRefused(p, n) \/ IdentityRefused(p, n)
     \/ Mapping(p.ent[n], "public") /\ IntRefused(p.ent[n], "public.port")
  THEN NoMain
  ELSE [main |-> "edge", faces |-> PointNames(ClientFacing(p, n)), hosts |-> {},
        dials |-> {q.owner : q \in MeshConsumed(p, n)},
        secrets |-> IF IdentityEnabled(p, n) /\ ProviderEntity(p) = ""
                    THEN IdentityProviders(p) ELSE {},
        serves |-> BundlesFor(p, n)]

\* render_service_main, _auth_entity_lines
RenderServiceMain(p, n) ==
  LET isAuth == ProviderEntity(p) = n IN
  IF \/ ApiConfigRefused(p, n)
     \/ /\ isAuth
        /\ \/ IntRefused(p.top, "identity.session.ttl_minutes")
           \/ RefreshRefused(p) \/ ProviderBlockRefused(p)
  THEN NoMain
  ELSE [main |-> IF isAuth THEN "auth" ELSE "service",
        faces |-> {}, hosts |-> PointNames(OwnedBy(p, n)),
        dials |-> {q.owner : q \in MeshConsumed(p, n)},
        secrets |-> IF isAuth THEN IdentityProviders(p) ELSE {},
        serves |-> [s \in {} |-> ""]]

\* _monitor_bundle_defaults: a name that is no client is left out.
MonitorBundleDefaults(p, n) ==
  LET served == BundlesFor(p, n)
      kept == {s \in DOMAIN served :
                 served[s].kind = "static" \/ served[s].value \in Clients(p)}
  IN [s \in kept |-> served[s]]

\* _monitor_exporters: int() over what is written.
MonitorExportersRefused(p, n) ==
  /\ At(p.ent[n], "export") = "block"
  /\ "export.jsonl.keep" \in DOMAIN p.ent[n] /\ p.ent[n]["export.jsonl.keep"] \notin Ints

\* render_monitor_main: the mesh side from the topology, and the console.
RenderMonitorMain(p, n) ==
  IF TrustedProxies(p, n) = Refused \/ MonitorExportersRefused(p, n) THEN NoMain
  ELSE [main |-> "monitor",
        faces |-> PointNames(OwnedBy(p, n)) \cap {"console"},
        hosts |-> PointNames(OwnedBy(p, n)),
        dials |-> {q.owner : q \in MeshConsumed(p, n)}, secrets |-> {},
        serves |-> MonitorBundleDefaults(p, n)]

\* generate: which main an entity is given.
RenderMain(p, n) ==
  CASE IsClient(p, n)  -> RenderClientMain(p, n)
    [] IsMonitor(p, n) -> RenderMonitorMain(p, n)
    [] IsEdge(p, n)    -> RenderEdgeMain(p, n)
    [] OTHER           -> RenderServiceMain(p, n)

Generate(p) == [n \in Entities(p) |-> RenderMain(p, n)]
GenerateRefused(p) == \E n \in Entities(p) : Generate(p)[n] = NoMain

(***************************************************************************)
(* What `synqt check` leaves to the author: values it never looks at, and  *)
(* shapes it accepts that the mains have no place for.                     *)
(***************************************************************************)
\* A name is not empty, an entity's or a view's.
Named(p) == "" \notin Entities(p) /\ \A n \in Entities(p) : <<n, "">> \notin p.views

\* The rules read a key that is left blank as one left out, the generator as a value.
LeftBlank(block, key) == key \in DOMAIN block /\ At(block, key) = ""

InboundNumbers ==
  {"network.inbound.max_body_bytes", "network.inbound.rate_per_minute",
   "network.inbound.max_connections", "network.inbound.reply_timeout_ms"}

\* The keys only the generator reads hold what it can write, and none both read is blank.
GeneratorsKeysHold(p) ==
  /\ \A n \in Entities(p) :
       /\ ~IntRefused(p.ent[n], "public.port") /\ ~BoolRefused(p.ent[n], "public.serve_client")
       /\ ~MonitorExportersRefused(p, n)
       /\ \A key \in InboundNumbers : ~LeftBlank(p.ent[n], key)
  /\ ~BoolRefused(p.top, "identity.required") /\ ~RefreshRefused(p)
  /\ ~IntRefused(p.top, "identity.device.lifetime_days")
  /\ At(p.top, "provider.use_id_token") \in Flags \cup {""}
  /\ \A key \in SecurityNumbers \cup {"security.allowed_origins",
                                      "identity.session.ttl_minutes"} : ~LeftBlank(p.top, key)

\* A web edge hosts its points for browsers only, a monitor for browsers only the console.
OwnersCanHost(p) ==
  /\ \A n \in Owners(p) \cap Edges(p) : p.point[n].consumers \subseteq Clients(p)
  /\ \A n \in Owners(p) \cap Monitors(p) : p.point[n].consumers \cap Clients(p) = {}

\* The entity identity is promoted to is not the monitor, whose main has no place for it.
KeeperIsNoMonitor(p) == ProviderEntity(p) \notin Monitors(p)
=============================================================================
