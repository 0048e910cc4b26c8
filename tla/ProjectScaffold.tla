-------------------------- MODULE ProjectScaffold ---------------------------
(***************************************************************************)
(* A project over time: `synqt new`, the `synqt add` commands, and the     *)
(* author's own edits of synqt.yaml and of the QML beside it               *)
(* (newproject.py, addentity.py, addauth.py, addcontract.py and            *)
(* monitorscaffold.py under tools/synqt/synqt/).                           *)
(*                                                                         *)
(* A command refuses before it writes (the guards), writes, and then       *)
(* regenerates: appgen.generate may raise there, and what was written      *)
(* stays. `outcome` is how the last command ended.                         *)
(***************************************************************************)
EXTENDS ProjectGenerate

CONSTANTS
  AddedTypes,      \* <<name, type, provider>> an author may ask `add entity` for
  MonitorNames,    \* names `add entity --type monitor` is called with
  ConsoleOf,       \* the name of the console of a monitor of that name
  EntityEdits,     \* <<entity, keys>> an author may write into a block
  TopEdits,        \* keys, each with its value, an author may write at the top level
  WrittenPoints,   \* [owner, point] an author may write by hand
  WrittenBundles,  \* <<entity, bundles>> an author may write
  WrittenRoutes,   \* sets of routes an author may write
  PointConsumers,  \* <<owner, consumers>> `add connect-point` is called with
  ProviderEntities,\* what `add auth --provider-entity` is called with
  MaxEdits, MaxCommands

\* The entities the scaffolders write are among those a project can have, and a
\* monitor's name is not one that YAML reads as nothing.
ASSUME ScaffoldAssumption ==
  /\ {"app", "edge"} \cup {t[1] : t \in AddedTypes} \subseteq Names
  /\ MonitorNames \subseteq Names \ {"", "null"}
  /\ \A n \in MonitorNames : ConsoleOf[n] \in Names

VARIABLES project, edits, commands, outcome
vars == <<project, edits, commands, outcome>>

Blank == [k \in {} |-> ""]
NoFunction == [k \in {} |-> [kind |-> "", value |-> ""]]
p == project

\* A directory with no synqt.yaml in it.
NoProject ==
  [list |-> <<>>, ent |-> [n \in Names |-> Blank], point |-> NoFunction, top |-> Blank,
   scopes |-> <<>>, bundles |-> [n \in Names |-> NoFunction], routes |-> {}, files |-> {},
   views |-> {}, qml |-> [n \in Names |-> "none"]]

Init ==
  /\ project = NoProject /\ edits = 0 /\ commands = 0 /\ outcome = "none"

(***************************************************************************)
(* Writing the file and the tree beside it.                                *)
(***************************************************************************)
\* yamledit: a key of a block set, with every other line as it was.
SetKey(block, key, value) ==
  [k \in DOMAIN block \cup {key} |-> IF k = key THEN value ELSE block[k]]
SetKeys(block, values) ==
  [k \in DOMAIN block \cup DOMAIN values |->
     IF k \in DOMAIN values THEN values[k] ELSE block[k]]

\* yamledit.append_item under entities:, with the entity's own file. The file is
\* written whatever was there.
WithEntity(q, n, block, file) ==
  [q EXCEPT !.list = Append(@, n), !.ent[n] = block, !.qml[n] = file]

SecretTypes == {"postgres", "redis", "mongodb"}

\* entity_block: the engine a family starts with is the embedded one.
EntityBlock(n, type, provider) ==
  LET base == SetKey(Blank, "type", type) IN
  CASE type = "relational" /\ provider \in SecretTypes ->
         SetKeys(base, [k \in {"provider.name", "provider.password"} |->
                          IF k = "provider.name" THEN provider ELSE "env"])
    [] type = "relational" -> SetKey(base, "settings", "block")
    [] type \in {"cache", "document"} ->
         SetKey(base, "provider.name", IF provider = "" THEN "memory" ELSE provider)
    [] type = "api" -> SetKeys(base, [k \in {"network", "network.outbound"} |->
                                        IF k = "network" THEN "block" ELSE "[]"])
    [] OTHER -> base

\* check_qml_name: the names a helper of that type already has.
ShadowsHelper(n, type) ==
  <<n, type>> \in {<<"db", "relational">>, <<"cache", "cache">>, <<"jobs", "jobs">>}

\* The commands end by writing the presets and generating: what was written
\* before that stays when generating raises.
Ends(q) ==
  /\ project' = q
  /\ outcome' = IF GenerateRefused(q) THEN "failed" ELSE "done"

Command == commands < MaxCommands /\ commands' = commands + 1 /\ UNCHANGED edits
Edit == edits < MaxEdits /\ edits' = edits + 1 /\ outcome' = "none" /\ UNCHANGED commands

(***************************************************************************)
(* The commands.                                                           *)
(***************************************************************************)
ScaffoldScopes == <<"anonymous", "user", "moderator", "admin">>

\* newproject.scaffold, _config: a client, an edge with TLS, and the scopes.
NewProject(auth) ==
  LET edge == [k \in {"type", "tls"} \cup (IF auth THEN {"identity"} ELSE {}) |->
                 CASE k = "type" -> "web_edge" [] k = "tls" -> "block" [] OTHER -> "true"]
      top == [k \in {"scopes", "scopes.hierarchical", "scopes.default", "security",
                     "security.allowed_origins", "build.client_threads", "privacy"} |->
                CASE k = "scopes.hierarchical" -> "true"
                  [] k = "scopes.default" -> "anonymous"
                  [] k = "security.allowed_origins" -> "list"
                  [] k = "build.client_threads" -> "single"
                  [] OTHER -> "block"]
  IN /\ project = NoProject
     /\ Ends([WithEntity(WithEntity(NoProject, "app", SetKey(Blank, "type", "client"), "window"),
                         "edge", edge, "singleton")
              EXCEPT !.top = top, !.scopes = ScaffoldScopes])
     /\ UNCHANGED <<edits, commands>>

\* addentity.scaffold
AddEntity(n, type, provider) ==
  /\ Command /\ p.list # <<>>
  /\ ~ShadowsHelper(n, type) /\ n \notin Entities(p)
  /\ Ends(WithEntity(p, n, EntityBlock(n, type, provider), "singleton"))

\* monitorscaffold.free_port: past the ports browsers are already served on.
FreePort(q) ==
  LET ports == <<"8443", "8444", "8445", "8446">>
      taken == {PublicPort(q, n) : n \in {m \in Entities(q) : ServesBrowser(q, m)}}
      free == {i \in 1..Len(ports) : ports[i] \notin taken}
  IN ports[CHOOSE i \in free : \A j \in free : i <= j]

\* monitor_block, console_block, bundles_block
MonitorBlock_DefaultPort(q) ==
  [k \in {"type", "public", "public.host", "public.port"} |->
     CASE k = "type" -> "monitor" [] k = "public" -> "block"
       [] k = "public.host" -> "127.0.0.1" [] OTHER -> "8443"]
MonitorBlock(q) ==
  [k \in {"type", "public", "public.host", "public.port"} |->
     CASE k = "type" -> "monitor" [] k = "public" -> "block"
       [] k = "public.host" -> "127.0.0.1" [] OTHER -> FreePort(q)]
ConsoleBlock(n) ==
  [k \in {"type", "console", "edge"} |->
     CASE k = "type" -> "client" [] k = "console" -> "true" [] OTHER -> n]
BundlesBlock(console) ==
  [s \in {"anonymous", "operator"} |->
     IF s = "anonymous" THEN [kind |-> "static", value |-> "signin/"]
     ELSE [kind |-> "client", value |-> console]]

MonitoringKeys == {"monitoring", "monitoring.entity", "monitoring.levels", "monitoring.public",
                   "monitoring.capture_identity"}

\* The monitoring: line is appended to the text. Where the file already has the
\* block without the key, the second block is the one the parser keeps.
WithMonitoring(q, n) ==
  IF MonitorEntity(q) # "" THEN q
  ELSE LET kept == DOMAIN q.top \ MonitoringKeys
       IN [q EXCEPT !.top = SetKeys([k \in kept |-> q.top[k]],
              [k \in {"monitoring", "monitoring.entity"} |->
                 IF k = "monitoring" THEN "block" ELSE n])]

\* monitorscaffold.scaffold: both blocks, the wiring, the sign-in page, the console.
AddMonitor(n) ==
  LET console == ConsoleOf[n]
      both == WithEntity(WithEntity(p, n, MonitorBlock(p), p.qml[n]),
                         console, ConsoleBlock(n), "window")
  IN /\ Command /\ p.list # <<>>
     /\ {n, console} \cap Entities(p) = {}
     /\ Ends([WithMonitoring(both, n) EXCEPT !.bundles[n] = BundlesBlock(console),
                                            !.files = @ \cup {"signin/"}])

\* addauth.hook_path
HookPath(q) == IF Edges(q) = {} THEN "web/edge/identity/map.qml" ELSE "identity/map.qml"

\* identity_section: the development sign-in is a block of its own.
IdentitySection(provider, owner, hook) ==
  LET common == [k \in {"identity", "identity.required", "identity.provider_entity",
                        "identity.flow", "identity.session.ttl_minutes",
                        "identity.mapping.hook", "identity.providers"} |->
                   CASE k = "identity" -> "block" [] k = "identity.required" -> "false"
                     [] k = "identity.provider_entity" -> owner
                     [] k = "identity.flow" -> "authorization_code"
                     [] k = "identity.session.ttl_minutes" -> "2"
                     [] k = "identity.mapping.hook" -> hook
                     [] OTHER -> IF provider = "dev" THEN "[]" ELSE "list"]
  IN IF provider = "dev"
     THEN SetKeys(common, [k \in {"identity.dev_stub", "identity.dev_stub.users"} |->
                             IF k = "identity.dev_stub" THEN "block" ELSE "list"])
     ELSE SetKeys(common, [k \in {"provider.client_secret", "provider.client_id"} |->
                             IF k = "provider.client_secret" THEN "env" ELSE "text"])

ScopesSection ==
  [k \in {"scopes", "scopes.hierarchical", "scopes.default"} |->
     CASE k = "scopes" -> "block" [] k = "scopes.default" -> "anonymous" [] OTHER -> "true"]

\* addauth.scaffold: no generating here, and a hook that is there is kept.
AddAuth_OwnScopes(provider, owner) ==
  LET hook == HookPath(p)
      scoped == FALSE
      written == SetKeys(p.top, IdentitySection(provider, owner, hook))
  IN /\ Command /\ p.list # <<>>
     /\ "identity" \notin DOMAIN p.top
     /\ project' = [p EXCEPT !.top = IF scoped THEN written
                                     ELSE SetKeys(written, ScopesSection),
                             !.scopes = IF scoped THEN @ ELSE ScaffoldScopes,
                             !.files = @ \cup {hook}]
     /\ outcome' = "done"
AddAuth(provider, owner) ==
  LET hook == HookPath(p)
      scoped == At(p.top, "scopes") = "block"
      written == SetKeys(p.top, IdentitySection(provider, owner, hook))
  IN /\ Command /\ p.list # <<>>
     /\ "identity" \notin DOMAIN p.top
     /\ project' = [p EXCEPT !.top = IF scoped THEN written
                                     ELSE SetKeys(written, ScopesSection),
                             !.scopes = IF scoped THEN @ ELSE ScaffoldScopes,
                             !.files = @ \cup {hook}]
     /\ outcome' = "done"

StarterMembers ==
  {[name |-> x, gate |-> {}, returns |-> FALSE, capture |-> FALSE] : x \in {"count", "add"}}

\* addcontract.scaffold_connect_point, write_source: a file the author has
\* written is kept as it is.
AddConnectPoint(owner, consumers) ==
  /\ Command /\ p.list # <<>>
  /\ {owner} \cup consumers \subseteq Entities(p)
  /\ owner \notin Owners(p)
  /\ project' = [p EXCEPT
       !.point = [n \in DOMAIN @ \cup {owner} |->
                    IF n = owner THEN [consumers |-> consumers, front |-> FALSE,
                                       tiers |-> Blank, members |-> StarterMembers,
                                       set |-> SetKey(Blank, "export", "block")]
                    ELSE @[n]],
       !.qml[owner] = IF @ \in {"none", "singleton"} THEN "source" ELSE @]
  /\ outcome' = "done"

(***************************************************************************)
(* The author.                                                             *)
(***************************************************************************)
EditEntity(n, values) ==
  Edit /\ n \in Entities(p) /\ project' = [p EXCEPT !.ent[n] = SetKeys(@, values)]

EditTop(values) ==
  Edit /\ p.list # <<>> /\ project' = [p EXCEPT !.top = SetKeys(@, values)]

\* A point written by hand, with the file that answers it.
WritePoint(owner, point) ==
  /\ Edit /\ owner \in Entities(p)
  /\ project' = [p EXCEPT !.point = [n \in DOMAIN @ \cup {owner} |->
                                       IF n = owner THEN point ELSE @[n]],
                          !.qml[owner] = IF point.front THEN @ ELSE "source"]

WriteBundles(n, bundles) ==
  Edit /\ n \in Entities(p) /\ project' = [p EXCEPT !.bundles[n] = bundles]

WriteRoutes(routes) ==
  /\ Edit /\ p.list # <<>>
  /\ project' = [p EXCEPT !.routes = routes,
                          !.views = {<<"app", r.view>> : r \in {x \in routes : x.view # ""}}]

RunCommand ==
  \/ \E t \in AddedTypes : AddEntity(t[1], t[2], t[3])
  \/ \E n \in MonitorNames : AddMonitor(n)
  \/ \E provider \in {"github", "dev"}, owner \in ProviderEntities : AddAuth(provider, owner)
  \/ \E c \in PointConsumers : AddConnectPoint(c[1], c[2])

Author ==
  \/ \E e \in EntityEdits : EditEntity(e[1], e[2])
  \/ \E values \in TopEdits : EditTop(values)
  \/ \E w \in WrittenPoints : WritePoint(w.owner, w.point)
  \/ \E b \in WrittenBundles : WriteBundles(b[1], b[2])
  \/ \E r \in WrittenRoutes : WriteRoutes(r)

Next == (\E auth \in BOOLEAN : NewProject(auth)) \/ RunCommand \/ Author
Spec == Init /\ [][Next]_vars

(***************************************************************************)
(* Properties.                                                             *)
(***************************************************************************)
Checked(q) == CheckProject(q, FALSE)

\* What `synqt check` accepts, the generator can write: no value that reached
\* the generated mains by way of a key the rules read makes appgen raise.
CheckedProjectGenerates == Checked(p) => ~GenerateRefused(p)

\* Both ends of every declared connection come up: in a checked project the
\* owner of a point hosts it for each kind of consumer it lists, and each
\* service that consumes it dials the owner on the endpoint the owner opens.
EveryPointIsHosted ==
  Checked(p) =>
    LET mains == Generate(p)
        slices == WriteTopologies(p)
    IN \A q \in ConnectPoints(p) :
         /\ q.consumers \cap Clients(p) # {} => q.name \in mains[q.owner].faces
         /\ \A c \in q.consumers \ Clients(p) :
              /\ q.name \in mains[q.owner].hosts /\ q.owner \in mains[c].dials
              /\ {c, q.owner} \subseteq DOMAIN slices
              /\ \E t \in slices[c] \cap slices[q.owner] : t.point = q

\* The operations console is downloaded by operators and by nobody else, and a
\* stranger at a monitor's port is given a page to sign in on and no client.
ConsoleIsOperatorsOnly ==
  Checked(p) =>
    \A n \in Entities(p) :
      LET served == RenderMain(p, n).serves IN
      \A s \in DOMAIN served :
        served[s].kind = "client" =>
          /\ MonitorWatches(p, served[s].value) => s = "operator"
          /\ IsMonitor(p, n) => s # "anonymous"

\* A client secret is read in one place: each edge that signs people in holds
\* them all, or none does and every one of them adopts the identity and the
\* sessions of the one entity that holds them.
SecretsHaveOneKeeper ==
  Checked(p) =>
    LET signIns == {n \in Edges(p) : IdentityEnabled(p, n)}
        keepers == {n \in Entities(p) : RenderMain(p, n).secrets # {}}
    IN signIns # {} =>
         \/ keepers = signIns
         \/ /\ keepers = {ProviderEntity(p)}
            /\ {"identity", "sessions"} \subseteq RenderMain(p, ProviderEntity(p)).hosts
            /\ \A n \in signIns : AuthAdoption(p, n) = {"identity", "sessions"}

\* What an author writes at the top level is a block with its keys: scopes: is a
\* mapping, a key of identity: is under it, and monitoring: names its entity.
IdentityKeys == UNION {DOMAIN IdentitySection(provider, "", "") : provider \in {"github", "dev"}}
BlocksAreWhole ==
  \A values \in TopEdits :
    /\ "scopes" \in DOMAIN values => values["scopes"] = "block"
    /\ DOMAIN values \cap IdentityKeys # {} => "identity" \in DOMAIN values
    /\ DOMAIN values \cap MonitoringKeys # {} =>
         /\ {"monitoring", "monitoring.entity"} \subseteq DOMAIN values
         /\ values["monitoring"] = "block" /\ values["monitoring.entity"] \notin {"", "null"}

\* A command adds to a project: no entity, point, key, file or page that was
\* there before it is gone or different after it.
ScaffoldsOnlyAdd ==
  [][RunCommand /\ project # NoProject =>
       /\ SubSeq(project'.list, 1, Len(p.list)) = p.list
       /\ \A n \in Entities(p) : project'.ent[n] = p.ent[n] /\ project'.bundles[n] = p.bundles[n]
       /\ \A n \in Owners(p) : project'.point[n] = p.point[n]
       /\ \A k \in DOMAIN p.top : k \in DOMAIN project'.top /\ project'.top[k] = p.top[k]
       /\ p.files \subseteq project'.files /\ p.scopes \in {<<>>, project'.scopes}]_vars

\* A project that passes `synqt check` passes it after `add entity`, and after a
\* monitor is added where no top-level routes would be shared with its console.
CheckedStaysChecked ==
  [][/\ Checked(p)
     /\ \/ \E t \in AddedTypes : AddEntity(t[1], t[2], t[3])
        \/ p.routes = {} /\ \E n \in MonitorNames : AddMonitor(n)
     => Checked(project')]_vars

\* A front dials the entities behind it, so that there is a replica to hand a
\* caller to. What appmodel.behind says of the block that names them.
FrontReachesItsTiers ==
  Checked(p) =>
    \A n \in Edges(p) : FrontAdoption(p, n) \subseteq RenderEdgeMain(p, n).dials

=============================================================================
