---------------------------- MODULE ProjectCheck ----------------------------
(***************************************************************************)
(* `synqt check`: the rules a project has to satisfy before anything is    *)
(* generated, built or started (tools/synqt/synqt/check.py). Each          *)
(* definition is true when the function it models reports an error;        *)
(* warnings and notes refuse nothing and are left out.                     *)
(***************************************************************************)
EXTENDS ProjectConfig

(***************************************************************************)
(* What an entity opens to the network.                                    *)
(***************************************************************************)
\* _outbound_entry_messages: the one entry this model lets an entity declare.
OutboundEntryErrors(p, n) ==
  LET e == p.ent[n] IN
  \/ At(e, "network.outbound.url") \in {"", "hostname"}
  \/ At(e, "network.outbound.headers") \in {"text", "host"}
  \/ At(e, "network.outbound.authorization") = "literal"

\* _inbound_messages: a public surface names its port and who may call it.
InboundErrors(p, n) ==
  LET e == p.ent[n]
      at(key) == Inbound(p, n, key)
      keys == at("network.inbound.api_keys")
  IN \/ IsClient(p, n) \/ IsEdge(p, n)
     \/ at("network.inbound.port") \notin AtLeastOne
     \/ /\ at("network.inbound.public") # "true"
        /\ keys # "env"
     \/ at("network.inbound.allowed_origins") = "text"
     \/ \E key \in {"network.inbound.max_body_bytes", "network.inbound.rate_per_minute"} :
          at(key) \notin AtLeastOne \cup {""}
     \/ \E key \in {"network.inbound.max_connections", "network.inbound.reply_timeout_ms"} :
          at(key) \notin AtLeastOne \cup {"", "0"}

\* _network_messages
NetworkErrors(p) ==
  \E n \in Entities(p) :
    LET e == p.ent[n] IN
    \/ At(e, "network") = "text"
    \/ /\ At(e, "network") # "text"
       /\ \/ At(e, "network.outbound") = "text"
          \/ /\ At(e, "network.outbound") = "list"
             /\ IsClient(p, n) \/ OutboundEntryErrors(p, n)
          \/ At(e, "network.inbound") = "text"
          \/ ServesInbound(p, n) /\ InboundErrors(p, n)

\* _trusted_proxy_messages: "odd" is a list with an entry that is no address.
TrustedProxyErrors(p) ==
  \E n \in Entities(p) :
    {TrustedProxies(p, n), InboundTrustedProxies(p, n)} \cap {Refused, "odd"} # {}

\* _bind_address_messages: a name binds nothing and dials nothing.
BindAddressErrors(p) ==
  LET named == {"hostname", "localhost"} IN
  \/ \E n \in Entities(p) :
       \/ Mapping(p.ent[n], "mesh") /\ At(p.ent[n], "mesh.host") \in named
       \/ Public(p, n, "public.host") \in named
       \/ Inbound(p, n, "network.inbound.bind") \in named
  \/ \E n \in Owners(p) : At(p.point[n].set, "mesh.host") \in named

\* _public_port_messages: two servers cannot bind one address.
PublicPortErrors(p) ==
  \E n, m \in Entities(p) :
    /\ n # m /\ ServesBrowser(p, n) /\ ServesBrowser(p, m)
    /\ PublicPort(p, n) = PublicPort(p, m) /\ PublicHost(p, n) = PublicHost(p, m)

(***************************************************************************)
(* Replicas of an edge.                                                    *)
(***************************************************************************)
\* _replicated_device_store_messages
ReplicatedDeviceStoreErrors(p) ==
  DesktopSession(p) = "device" /\ Identity(p, "identity.device.store") \in {"sqlite", "memory"}

\* _replicated_edge_messages: nothing may live in one of the processes.
ReplicatedEdgeErrors(p, n) ==
  \/ At(p.top, "identity") = "block" /\ ProviderEntity(p) = ""
  \/ Public(p, n, "public.origin") = ""
  \/ TrustedProxies(p, n) = Refused
  \/ n \in Owners(p) /\ ~p.point[n].front
  \/ ReplicatedDeviceStoreErrors(p)

\* _replica_messages and _thread_messages
ReplicaErrors(p) ==
  \E n \in Entities(p) :
    \/ Replicas(p, n) = Refused
    \/ Replicas(p, n) # "1" /\ (IsEdge(p, n) => ReplicatedEdgeErrors(p, n))

ThreadErrors(p) ==
  \E n \in Entities(p) :
    Threads(p, n) = Refused \/ (Threads(p, n) # "1" /\ ~IsEdge(p, n))

(***************************************************************************)
(* Identity.                                                               *)
(***************************************************************************)
\* _identity_messages over the one provider, with _insecure_endpoint_messages
\* and _id_token_messages.
ProviderErrors(p) ==
  LET at(key) == At(p.top, key) IN
  /\ Identity(p, "identity.providers") = "list"
  /\ \/ at("provider.client_secret") # "env"
     \/ at("provider.client_id") = ""
     \/ at("provider.token_url") \in {"plaintext"}
     \/ /\ at("provider.use_id_token") \notin {"", "false"}
        /\ at("provider.issuer") = "" \/ at("provider.jwks_url") = ""

\* _device_session_messages: somewhere to keep it, and a floor a client meets.
DeviceSessionErrors(p) ==
  \/ DesktopSession(p) = Refused
  \/ /\ DesktopSession(p) = "device"
     /\ \/ ~HasDesktopClient(p)
        \/ Identity(p, "identity.device.store") = ""
        \/ DeviceMinBinding(p) \in {Refused, "hardware"}

\* _dev_stub_messages: the port is compared with the ports that are written.
DevStubErrors(p) ==
  LET at(key) == Identity(p, key) IN
  /\ HasDevStub(p)
  /\ \/ at("identity.dev_stub") \notin {"block", "true"}
     \/ /\ at("identity.dev_stub") = "block"
        /\ \/ at("identity.dev_stub.port") \notin AtLeastOne \cup {""}
           \/ at("identity.dev_stub.users") \in {"text", "odd"}
     \/ /\ at("identity.dev_stub") \in {"block", "true"}
        /\ \E n \in Entities(p) : Public(p, n, "public.port") = DevStubPort(p)

\* _provider_entity_messages: anything but a client or a web edge.
ProviderEntityErrors(p) ==
  LET owner == ProviderEntity(p) IN
  /\ owner # ""
  /\ \/ owner \notin Entities(p)
     \/ IsClient(p, owner) \/ IsEdge(p, owner)
     \/ {"identity", "sessions"} \cap Owners(p) # {}

\* validate: an edge that signs people in needs a vocabulary and a hook.
SignInErrors(p) ==
  /\ \E n \in Edges(p) : IdentityEnabled(p, n)
  /\ ScopeOrder(p) = <<>> \/ MappingHook(p) = ""

(***************************************************************************)
(* Monitoring.                                                             *)
(***************************************************************************)
\* _console_delivery_messages: the console is an operator's, and a monitor's
\* own port shows a stranger nothing but a page to sign in on.
ConsoleDeliveryErrors_Written(p) ==
  \E n \in Entities(p) :
    /\ ServesBrowser(p, n)
    /\ LET served == p.bundles[n] IN
       \/ \E s \in DOMAIN served :
            /\ served[s].kind = "client" /\ s # "operator"
            /\ served[s].value \in Clients(p) /\ MonitorWatches(p, served[s].value)
       \/ /\ IsMonitor(p, n) /\ DefaultScope(p) \in DOMAIN served
          /\ served[DefaultScope(p)].kind = "client"
ConsoleDeliveryErrors(p) ==
  \E n \in Entities(p) :
    /\ ServesBrowser(p, n)
    /\ LET served == BundlesFor(p, n) IN
       \/ \E s \in DOMAIN served :
            /\ served[s].kind = "client" /\ s # "operator"
            /\ served[s].value \in Clients(p) /\ MonitorWatches(p, served[s].value)
       \/ /\ IsMonitor(p, n) /\ DefaultScope(p) \in DOMAIN served
          /\ served[DefaultScope(p)].kind = "client"

\* _monitor_as_consumer_messages
MonitorAsConsumerErrors(p) == \E n \in Owners(p) : p.point[n].consumers \cap Monitors(p) # {}

\* _monitor_export_messages
MonitorExportErrors(p, owner, release) ==
  LET at(key) == At(p.ent[owner], key) IN
  \/ at("export") \in {"text", "odd"}
  \/ /\ at("export") = "block"
     /\ \/ at("export.otlp") \in {"text", "hostname"}
        \/ at("export.otlp") = "http" /\ release
        \/ at("export.jsonl") \in {"text", "nowhere"}
        \/ at("export.jsonl.keep") \in {"-1", "0"}

\* _monitor_reach_messages, asked of the monitor monitoring.entity names.
MonitorReachErrors(p, owner) ==
  /\ PublicHost(p, owner) \notin Loopback
  /\ At(p.top, "monitoring.public") # "acknowledged"

\* _monitor_consumer_messages
MonitorConsumerErrors(p, owner) ==
  /\ owner \in Owners(p)
  /\ \E c \in p.point[owner].consumers \cap Clients(p) : ~MonitorWatches(p, c)

\* _monitor_entity_messages
MonitorEntityErrors(p, release) ==
  LET owner == MonitorEntity(p) IN
  \/ At(p.top, "monitoring") \in {"text", "odd"}
  \/ At(p.top, "monitoring.levels") \in {"text", "odd"}
  \/ /\ owner # ""
     /\ \/ owner \notin Entities(p)
        \/ /\ owner \in Entities(p)
           /\ \/ ~IsMonitor(p, owner)
              \/ "ingest" \in Owners(p)
              \/ MonitorExportErrors(p, owner, release)
              \/ MonitorReachErrors(p, owner)
              \/ MonitorConsumerErrors(p, owner)

(***************************************************************************)
(* Connect points, scopes and fronts.                                      *)
(***************************************************************************)
\* The loop over connect_points in validate.
PointErrors(p) ==
  \E q \in ConnectPoints(p) :
    LET set == IF q.framework THEN [k \in {} |-> ""] ELSE p.point[q.owner].set IN
    \/ q.owner \notin Entities(p)
    \/ q.owner \in q.consumers
    \/ q.owner \in Entities(p) /\ IsClient(p, q.owner)
    \/ {"instance", "contract"} \cap DOMAIN set # {}
    \/ "export" \in DOMAIN set /\ set["export"] # "block"
    \/ ~ (q.consumers \subseteq Entities(p))
    \/ /\ q.consumers \cap Clients(p) # {}
       /\ q.owner \in Entities(p) => ~ServesBrowser(p, q.owner)
    \/ /\ At(set, "scope") # "" /\ ScopeOrder(p) # <<>>
       /\ Rank(p, At(set, "scope")) = 0
    \/ /\ MeshSetting(p, q, "mesh.transport") = "local" /\ Cardinality(q.consumers) > 1

\* _mesh_policy_messages
MeshPolicyErrors(p, release) ==
  \/ release /\ At(p.top, "mesh.require_mtls_cross_host") = "false"
  \/ \E q \in ConnectPoints(p) :
       /\ MeshSetting(p, q, "mesh.transport") = "local"
       /\ MeshSetting(p, q, "mesh.host") \notin Loopback \cup {""}

\* _reaches: does a session holding `held` pass `gate`, a set of scopes?
Reaches(p, gate, held) ==
  \/ gate = {} \/ held \in gate
  \/ /\ Hierarchical(p) /\ ScopeOrder(p) # <<>>
     /\ \E s \in gate : Rank(p, s) > 0 /\ Rank(p, held) >= Rank(p, s)

\* lint_member_scopes
MemberScopeErrors(p) ==
  \E n \in Owners(p) :
    LET point == p.point[n]
        scope == At(point.set, "scope")
    IN \E m \in point.members :
         /\ m.gate # {}
         /\ \/ ScopeOrder(p) # <<>> /\ ~ (m.gate \subseteq ToSet(ScopeOrder(p)))
            \/ point.consumers \cap Clients(p) = {}
            \/ /\ scope # "" /\ ScopeOrder(p) # <<>> /\ ~Hierarchical(p)
               /\ scope \notin m.gate

\* _tier_for: the tier written for that scope, or the highest one below it.
TierFor(p, tiers, held) ==
  LET below == {s \in DOMAIN tiers : Rank(p, s) > 0 /\ Rank(p, s) <= Rank(p, held)} IN
  IF held \in DOMAIN tiers THEN tiers[held]
  ELSE IF ~Hierarchical(p) \/ below = {} THEN ""
  ELSE tiers[CHOOSE s \in below : \A t \in below : Rank(p, t) <= Rank(p, s)]

\* _surface_messages: what the front offers a scope is what its tier carries.
SurfaceErrors(p, n, tiers) ==
  LET front == p.point[n]
      ordered == ToSet(ScopeOrder(p))
      held == IF ordered = {} THEN DOMAIN tiers ELSE ordered
      gate(m) == IF m.gate # {} \/ At(front.set, "scope") = "" THEN m.gate
                 ELSE {At(front.set, "scope")}
  IN \E tier \in {TierFor(p, tiers, s) : s \in held} \ {""} :
       {m.name : m \in {x \in front.members : \E s \in held :
                           TierFor(p, tiers, s) = tier /\ Reaches(p, gate(x), s)}}
         # {m.name : m \in p.point[tier].members}

\* lint_fronts and _tier_messages
FrontErrors(p) ==
  \E n \in Owners(p) :
    LET point == p.point[n]
        tiers == point.tiers
        answering == {s \in DOMAIN tiers : /\ tiers[s] \in Entities(p) \ (Clients(p) \cup {n})
                                           /\ tiers[s] \in Owners(p)}
    IN /\ point.front
       /\ \/ n \notin Edges(p)
          \/ point.consumers \cap Clients(p) = {}
          \/ \E m \in point.members : m.returns
          \/ \E s \in DOMAIN tiers : ScopeOrder(p) # <<>> /\ Rank(p, s) = 0
          \/ answering # DOMAIN tiers
          \/ SurfaceErrors(p, n, [s \in answering |-> tiers[s]])

\* lint_contracts: a declared point says what crosses it.
ContractErrors(p) ==
  \E n \in Owners(p) : At(p.point[n].set, "export") \notin {"block", "list"}

\* lint_capture: no identity in a record, unless the project says it means it.
CaptureErrors(p) ==
  /\ At(p.top, "monitoring.capture_identity") # "acknowledged"
  /\ \E n \in Owners(p) : \E m \in p.point[n].members : m.capture

(***************************************************************************)
(* What a browser is served.                                               *)
(***************************************************************************)
\* _public_origin_messages, _cdn_delivery_messages
OriginErrors(p) ==
  \E n \in Edges(p) :
    LET origin == Public(p, n, "public.origin") IN
    \/ origin \in {"hostname", "path"}
    \/ origin = "http" /\ At(p.ent[n], "tls") = "block"
    \/ /\ Public(p, n, "public.serve_client") = "false"
       /\ \/ At(p.top, "project.origin_model") # "split_origin"
          \/ \A m \in Edges(p) : Public(p, m, "public.origin") = ""
          \/ Security(p, "security.allowed_origins") # "list"

\* _rate_limit_behind_a_balancer_messages
RateLimitErrors(p) ==
  /\ Security(p, "security.max_requests_per_second") \in AtLeastOne
  /\ \E n \in Entities(p) : ServesBrowser(p, n) /\ TrustedProxies(p, n) \in {"list", "odd"}

\* _browser_policy_messages
BrowserPolicyErrors_AnyCeiling(p) ==
  \/ SessionTransport(p) = Refused \/ IdentityFlow(p) = Refused
  \/ Security(p, "security.allowed_origins") \notin {"", "list", "[]", "odd"}
  \/ \E key \in {"security.handshake_timeout_ms", "security.max_message_bytes"} :
       Security(p, key) \notin AtLeastOne \cup {""}
  \/ \E key \in {"security.max_requests_per_second"} :
       Security(p, key) \notin AtLeastOne \cup {"", "0"}
  \/ RateLimitErrors(p)
  \/ Identity(p, "identity.session.ttl_minutes") \notin Ints \cup {""}
  \/ /\ At(p.top, "scopes.default") # "" /\ ScopeOrder(p) # <<>>
     /\ Rank(p, DefaultScope(p)) = 0
BrowserPolicyErrors(p) ==
  \/ SessionTransport(p) = Refused \/ IdentityFlow(p) = Refused
  \/ Security(p, "security.allowed_origins") \notin {"", "list", "[]", "odd"}
  \/ \E key \in {"security.handshake_timeout_ms", "security.max_message_bytes"} :
       Security(p, key) \notin AtLeastOne \cup {""}
  \/ \E key \in {"security.max_sessions", "security.max_requests_per_second"} :
       Security(p, key) \notin AtLeastOne \cup {"", "0"}
  \/ RateLimitErrors(p)
  \/ Identity(p, "identity.session.ttl_minutes") \notin Ints \cup {""}
  \/ /\ At(p.top, "scopes.default") # "" /\ ScopeOrder(p) # <<>>
     /\ Rank(p, DefaultScope(p)) = 0

\* lint_bundles: what an edge maps each scope to has to be there to serve.
BundleErrors(p) ==
  \E n \in Edges(p) :
    LET served == p.bundles[n] IN
    /\ DOMAIN served # {}
    /\ \/ DefaultScope(p) \notin DOMAIN served
       \/ \E s \in DOMAIN served :
            \/ ScopeOrder(p) # <<>> /\ Rank(p, s) = 0
            \/ /\ served[s].kind = "client"
               /\ served[s].value \in Clients(p)
                    => "wasm" \notin ClientTargets(p, served[s].value)
            \/ served[s].kind = "static" /\ served[s].value \notin p.files

\* _edge_tls_messages, _desktop_client_messages
EdgeTlsErrors(p, release) ==
  /\ release
  /\ \E n \in Edges(p) : /\ Public(p, n, "public.tls_terminated_upstream") # "true"
                         /\ At(p.ent[n], "tls") # "block"

DesktopClientErrors(p, release) ==
  /\ HasDesktopClient(p)
  /\ \/ At(p.top, "build.desktop.edge_url") = ""
     \/ release /\ At(p.top, "build.desktop.edge_url") # "wss"

(***************************************************************************)
(* Routes.                                                                 *)
(***************************************************************************)
\* routes_for: a client's own block, or the top-level one.
RoutesFor(p, n) == IF At(p.ent[n], "routes") = "list" THEN {} ELSE p.routes

\* normalize_route_path over the paths this model writes.
NormalizeRoutePath(path) == IF path = "//a" THEN "/a" ELSE path

ReservedEdgePaths == {"/sync", "/auth/login"}

IsRemoteRoute(r) == r.remote # "" /\ r.view = ""

\* lint_routes, _route_view_findings
RouteErrors(p, n) ==
  LET routes == RoutesFor(p, n)
      paths == {NormalizeRoutePath(r.path) : r \in routes}
  IN \/ \E r \in routes :
          \/ r.path = "a"
          \/ ~IsRemoteRoute(r) /\ <<n, r.view>> \notin p.views
          \/ NormalizeRoutePath(r.path) \in ReservedEdgePaths
          \/ \E q \in routes : q # r /\ NormalizeRoutePath(q.path) = NormalizeRoutePath(r.path)
     \/ routes # {} /\ "/" \notin paths

\* lint_client_routes: two clients cannot share the top-level block.
ClientRouteErrors(p) ==
  /\ p.routes # {}
  /\ Cardinality({n \in Clients(p) : At(p.ent[n], "routes") # "list"}) > 1

\* lint_remote_pages
RemotePageErrors(p, n) ==
  LET remote == {r \in RoutesFor(p, n) : r.remote # ""} IN
  /\ remote # {}
  /\ \/ Edges(p) = {}
     \/ At(p.top, "router.palette") \in {"", "[]"}
     \/ \E r \in remote : r.view # "" \/ r.remote \notin p.files

(***************************************************************************)
(* The rest of the top-level blocks.                                       *)
(***************************************************************************)
\* _privacy_messages
PrivacyErrors(p) ==
  \/ At(p.top, "privacy") = "text"
  \/ /\ At(p.top, "privacy") = "block"
     /\ \/ At(p.top, "privacy.policy") = "list"
        \/ At(p.top, "privacy.retention_days") \notin AtLeastOne \cup {""}
        \/ At(p.top, "privacy.cookies") \in {"text", "odd"}
        \/ At(p.top, "privacy.erasure") \notin Flags \cup {""}
        \/ At(p.top, "privacy.erasure") = "true" /\ At(p.top, "identity") # "block"

\* The build: and scopes: keys validate reads itself, and _loading_messages.
BuildErrors(p) ==
  \/ At(p.top, "build.client_threads") \notin {"", "single", "multi"}
  \/ At(p.top, "build.client_asyncify") \notin Flags \cup {""}
  \/ At(p.top, "build.client_cache") \notin {"", "service_worker", "http"}
  \/ At(p.top, "build.loading") \in {"text", "odd"}
  \/ At(p.top, "scopes.hierarchical") \notin Flags \cup {""}

\* lint_loading: the page that replaces ours has to be there to be served.
LoadingErrors(p) ==
  At(p.top, "build.loading") = "block" /\ "loading.html" \notin p.files

\* _provider_messages, _provider_secret_messages, and a client's own rules.
EntityProviderErrors(p) ==
  LET families == {"relational", "cache", "document"} IN
  \E n \in Entities(p) :
    LET provider == At(p.ent[n], "provider.name") IN
    \/ provider # "" /\ EntityType(p, n) \notin families
    \/ provider = "sqlserver"
    \/ At(p.ent[n], "provider.password") = "literal"
    \/ IsClient(p, n) /\ \/ provider # "" \/ At(p.ent[n], "settings") # ""
                         \/ "env" \in {p.ent[n][k] : k \in DOMAIN p.ent[n]}

\* lint_connect_point_sources: every point that answers for itself has a file
\* rooted at its contract. lint_client_root: a client is a window.
SourceErrors(p) ==
  \/ \E n \in Owners(p) \cap Entities(p) : ~p.point[n].front /\ p.qml[n] # "source"
  \/ \E n \in Clients(p) : p.qml[n] \notin {"window", "none"}

\* lint_mapping_hook: the file is there and names only declared scopes.
MappingHookErrors(p) ==
  /\ MappingHook(p) # ""
  /\ \/ MappingHook(p) \notin p.files
     \/ ~ ({"user", "moderator", "admin"} \subseteq ToSet(ScopeOrder(p)))

(***************************************************************************)
(* The commands' gates.                                                    *)
(***************************************************************************)
\* validate: what build, dev and serve refuse to continue past.
Validate(p, release) ==
  /\ p.list # <<>>
  /\ \A n \in Entities(p) : At(p.ent[n], "type") \in TypeFolders \cup {""}
  /\ \A n \in Entities(p) : /\ At(p.ent[n], "shared") \in Flags \cup {""}
                            /\ IsClient(p, n) => At(p.ent[n], "shared") = ""
  /\ \/ \E n \in Entities(p) : ServesBrowser(p, n)
     \/ \A n \in Clients(p) : "wasm" \notin ClientTargets(p, n)
  /\ ~NetworkErrors(p) /\ ~TrustedProxyErrors(p) /\ ~BindAddressErrors(p)
  /\ ~PublicPortErrors(p) /\ ~ReplicaErrors(p) /\ ~ThreadErrors(p)
  /\ ~ProviderErrors(p) /\ ~DeviceSessionErrors(p) /\ ~DevStubErrors(p)
  /\ ~ProviderEntityErrors(p) /\ ~SignInErrors(p)
  /\ ~ConsoleDeliveryErrors(p) /\ ~MonitorAsConsumerErrors(p)
  /\ ~MonitorEntityErrors(p, release)
  /\ ~PointErrors(p) /\ ~MeshPolicyErrors(p, release)
  /\ ~MemberScopeErrors(p) /\ ~FrontErrors(p)
  /\ ~OriginErrors(p) /\ ~BrowserPolicyErrors(p)
  /\ ~EdgeTlsErrors(p, release) /\ ~DesktopClientErrors(p, release)
  /\ ~PrivacyErrors(p) /\ ~BuildErrors(p) /\ ~EntityProviderErrors(p)

\* check_project: validate, and the lints that read the files.
CheckProject(p, release) ==
  /\ Validate(p, release)
  /\ ~ContractErrors(p) /\ ~CaptureErrors(p) /\ ~LoadingErrors(p)
  /\ ~SourceErrors(p) /\ ~MappingHookErrors(p)
  /\ \A n \in Clients(p) : ~RouteErrors(p, n) /\ ~RemotePageErrors(p, n)
  /\ ~ClientRouteErrors(p) /\ ~BundleErrors(p)
=============================================================================
