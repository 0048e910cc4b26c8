------------------------------ MODULE MCProject ------------------------------
(* The project `synqt new` writes, two services, a monitor and its console, *)
(* and what an author may write into it by hand.                            *)
EXTENDS ProjectScaffold

MCNames == {"app", "edge", "auth", "store", "mon", "mon-console"}
MCPointOrder == <<"app", "auth", "console", "edge", "identity", "ingest", "mon",
                  "mon-console", "sessions", "store">>
MCMeshPorts == <<"9440", "9441", "9442", "9443", "9444", "9445", "9446", "9447", "9448", "9449">>
MCConsoleOf == [n \in {"mon"} |-> "mon-console"]

\* One nested key, with the block it is written in.
Key(block, key, value) == (block :> "block") @@ (key :> value)

MCAddedTypes == {<<"auth", "service", "">>, <<"store", "relational", "postgres">>,
                 <<"store", "api", "">>}
MCPointConsumers == {<<"edge", {"app"}>>, <<"store", {"edge"}>>, <<"store", {"app"}>>,
                     <<"store", {"auth", "edge"}>>}

MCEntityEdits ==
  {<<"edge", Key("public", "public.port", v)>> : v \in {"8444", "8789"}}
  \cup {<<"edge", Key("public", "public.host", v)>> : v \in {"hostname", "0.0.0.0"}}
  \cup {<<"edge", Key("public", "public.trusted_proxies", v)>> : v \in {"list", "text", "odd"}}
  \cup {<<"edge", Key("public", "public.origin", v)>> : v \in {"http", "hostname", "https"}}
  \cup {<<"edge", k>> : k \in {"replicas" :> "2", "replicas" :> "0", "threads" :> "2",
                               "threads" :> "text", "identity" :> "false"}}
  \cup {<<"store", k>> : k \in
         {"replicas" :> "2", Key("mesh", "mesh.transport", "local"),
          Key("mesh", "mesh.host", "0.0.0.0"), "shared" :> "false",
          Key("network", "network.inbound", "block"),
          Key("network", "network.inbound", "block") @@ ("network.inbound.port" :> "9440")
            @@ ("network.inbound.api_keys" :> "env"),
          Key("network", "network.inbound", "block") @@ ("network.inbound.port" :> "9440")
            @@ ("network.inbound.public" :> "true")
            @@ ("network.inbound.max_connections" :> "text"),
          Key("network", "network.inbound", "block") @@ ("network.inbound.port" :> "9440")
            @@ ("network.inbound.public" :> "true")
            @@ ("network.inbound.trusted_proxies" :> "text")}}
  \cup {<<"app", k>> : k \in {"targets" :> "both", "console" :> "true", "settings" :> "block"}}
  \cup {<<"mon", k>> : k \in
         {Key("public", "public.host", "0.0.0.0"), Key("export", "export.jsonl", "file"),
          Key("export", "export.otlp", "http"), Key("public", "public.trusted_proxies", "text")}}

\* A web edge whose connect point another entity consumes.
MCEdgeOwner == {<<"store", ("type" :> "web_edge") @@ Key("public", "public.port", "8445")>>}

Login == Key("identity", "identity.providers", "list")
           @@ ("provider.client_secret" :> "env") @@ ("provider.client_id" :> "text")
           @@ ("identity.mapping.hook" :> "identity/map.qml")

MCTopEdits ==
  {Key("security", "security.max_sessions", v) : v \in {"text", "-1", "2"}}
  \cup {Key("security", "security.allowed_origins", v) : v \in {"text", "[]"}}
  \cup {Key("security", "security.session_transport", "text"),
        Key("security", "security.handshake_timeout_ms", "0"),
        Key("security", "security.max_requests_per_second", "2"),
        Key("privacy", "privacy.retention_days", "0"), Key("privacy", "privacy.erasure", "true"),
        Key("scopes", "scopes.hierarchical", "text"), Key("scopes", "scopes.hierarchical", "false"),
        Key("build", "build.client_threads", "text"), Key("build", "build.loading", "block"),
        Key("build", "build.desktop.edge_url", "wss"),
        Key("identity", "identity.flow", "text"),
        Key("identity", "identity.desktop_session", "text"),
        Key("identity", "identity.desktop_session", "device")
          @@ ("identity.device.store" :> "sqlite"),
        Key("identity", "identity.session.ttl_minutes", "text"),
        Key("identity", "identity.dev_stub", "true"),
        Login @@ ("provider.token_url" :> "plaintext"),
        Login @@ ("provider.client_secret" :> "literal"),
        Login @@ ("provider.use_id_token" :> "true")}

Point(consumers, members, keys) ==
  [consumers |-> consumers, front |-> FALSE, tiers |-> Blank, members |-> members,
   set |-> ("export" :> "block") @@ keys]
FrontPoint(consumers, members, tiers) ==
  [Point(consumers, members, Blank) EXCEPT !.front = TRUE, !.tiers = tiers]
Member(name, gate) == [name |-> name, gate |-> gate, returns |-> FALSE, capture |-> FALSE]

MCWrittenPoints ==
  {[owner |-> "edge", point |-> Point({"app"}, {Member("a", {"admin"})}, "scope" :> "user")],
   [owner |-> "edge", point |-> Point({"app"}, {Member("a", {"operator"})}, Blank)],
   [owner |-> "edge", point |-> Point({"app"}, StarterMembers, "scope" :> "operator")],
   [owner |-> "edge", point |-> FrontPoint({"app"}, StarterMembers, "anonymous" :> "store")],
   [owner |-> "edge", point |-> FrontPoint({"app"}, StarterMembers, "admin" :> "store")],
   [owner |-> "edge", point |-> FrontPoint({}, StarterMembers, "user" :> "nobody")],
   [owner |-> "store", point |-> Point({"edge"}, {Member("a", {"admin"})}, Blank)],
   [owner |-> "store", point |-> Point({}, StarterMembers, Blank)],
   [owner |-> "store", point |-> Point({"store"}, StarterMembers, Blank)],
   [owner |-> "store", point |-> Point({"edge", "mon"}, StarterMembers, "mesh.port" :> "9440")]}

MCWrittenBundles ==
  {<<"edge", "anonymous" :> [kind |-> "client", value |-> "app"]>>,
   <<"edge", ("anonymous" :> [kind |-> "client", value |-> "app"])
               @@ ("user" :> [kind |-> "client", value |-> "mon-console"])>>,
   <<"edge", "user" :> [kind |-> "static", value |-> "nowhere/"]>>,
   <<"mon", "anonymous" :> [kind |-> "client", value |-> "app"]>>,
   <<"mon", "operator" :> [kind |-> "client", value |-> "mon-console"]>>}

MCWrittenRoutes ==
  {{[path |-> "/", view |-> "Home.qml", remote |-> ""]},
   {[path |-> "/", view |-> "", remote |-> ""]},
   {[path |-> "/", view |-> "", remote |-> "Page.qml"]}}

\* Three steps after `synqt new`: a step after an edit is tried on what passes `synqt check`.
OnePassing == edits + commands < 3 /\ (edits = 0 \/ Checked(project))

MCMonitorNames == {"mon"}
MCProviderEntities == {"", "auth"}
=============================================================================
