# SynQt: a TLA+ model of its sessions and of its tools

SynQt is a framework for applications made of *entities*: C++/QML services joined
by mutually authenticated links, with one entity, the *web edge*, that browsers and
desktop clients reach. Contracts written in QML become QtRemoteObjects Sources and
Replicas; a Python tool (`tools/synqt`) generates the glue.

This directory models two halves of it. In the runtime, the part whose mistakes are
hard to see in a test: who is signed in, for how long, on which machine, and what
survives a rotation, a revocation, a crash or a lost message. In the tools, what a
project goes through: it is scaffolded and edited, checked, drawn in an editor,
generated, built, watched, and put into containers, by commands that share files with
one another and with an author who does not wait for them. All paths below are
relative to the repository (`src/service/...` is `src/src/service/...` in
`PROJECT.json`); the Python files are in `tools/synqt/synqt/`.

## 1. Inventory

| Component | State | Operations | Talks to | Hard behaviour |
|---|---|---|---|---|
| Session table (`service/sessionmanager`) | records, expiry queue of hints, hand-offs | create, lookup, setScope, revoke, revokeByKey, purge, applyUpsert / applyRotation / applyRemove | signals to edge, identity provider, auth entity | rotation chains, lazy hints, ceiling and eviction |
| Web edge (`edge/webedge`) | socket table, Source counts per session, one cookie per browser | page load, upgrade, slot call, sign-in gate, disconnected, sweep | table, identity provider, transport | a session ends or is renamed under open connections; sockets close a turn later |
| Replication (`service/sessionmanager`, generated auth entity) | one table per process, two streams per link | put, rotate, remove and their echoes | connect points over mesh links | own changes heard back late, links of different speed, restarts |
| Identity provider (`edge/identityprovider`) | provider tokens, pending logins, claims | callback, claim, device, logout | OAuth backend, device registry, table | nested event loops, stale cookie |
| Device registry (`identity/deviceregistry`) | families: current and previous secret, clocks; session → family | enrol, redeem, bindSession, forget, purgeExpired | SQL database | overlap window, reuse, database down |
| Native client (`client/synclient`) | session, credential in memory, timers, socket, requests | start, redeem, claim, bootstrap, logout, reconnect | edge routes, secure store | answers out of order, timeouts, crashes |
| Device credential store (`client/devicecredential`) | secret in the keyring, availability | load, save, erase with a deadline | platform keyring | abandoned worker thread |
| OAuth backend (`identity/oauthbackend`) | tokens, pending exchanges, claim codes | begin, exchange, refresh, rekey | provider over HTTP | nested waits, refresh racing a rotation |
| Browser transport (`transport/socketchannel`, `websockettransport`) | two buffers, counters, close state on two threads | write, bytesWritten, read, close, abort | QWebSocket, QtRemoteObjects | cross-thread counters, stall clock |
| Router and remote pages (`client/router`, `remotepageloader`) | history, pending page, resume path | navigate, pop, reply | pages connect point | stale replies, queued pops |
| Mesh and connect points (`service/meshclient`, `meshserver`, `connectpointhost`) | links, backoff, Sources per peer | connect, accept, host, drop | every entity | late join, duplicate links |
| Consumer side (`consumer/`) | promises, pending calls | call, settle, timeout | Replicas | settle once, calls over a reconnect |
| Tracing and ingest (`service/tracer`, `eventring`, `ingestclient`) | ring, spool, gap counter | record, publish, replay | monitor | loss between publish and spool |
| SQL pool (`providers/sqlconnectionpool`) | slots, leases | acquire, release, grow, closeAll | drivers | late release after closeAll |
| Caches, jobs (`providers/`) | entries with TTL and LRU order; bounded queue | get, set, snapshot; enqueue, drain | disk | reload without remaining time; jobs that enqueue |
| Gateway, rate windows (`gateway/`, `service/ratewindow.h`) | hits per address | allow, prune | routes | table at its cap |
| Project configuration (`appmodel.py`, `topologywriter.py`) | synqt.yaml | reads of it: entities, points, bundles, identity, endpoints | every command | defaults and implied connect points |
| Project check (`check.py`) | none | one rule per message | configuration | rules that must agree with the generator |
| Generated mains (`maingen.py`, `appgen.py`) | files under build/ | generate | configuration | raises on values the check may have passed |
| Scaffolders (`newproject.py`, `add*.py`, `monitorscaffold.py`) | synqt.yaml, QML files | new, add entity / auth / contract / monitor | generator | refuses before writing, may fail after |
| Design editor (`design.py`, `designdoc.py`, `designplan.py`) | pages, a plan and its digest, an apply under way | read, plan, apply, restore, stop | project files | two pages, hand edits, failing writes, daemon threads |
| Build and development session (`build.py`, `run.py`, `presets.py`, `profiles.py`) | CMake trees, binaries, bundle, variants, manifest, watched versions | build, serve, dev, poll, hot reload | cmake, browser | edits under a rebuild, reused trees, interrupts |
| Docker stack, mesh authority (`docker.py`, `mesh.py`) | compose file, profile, addresses, .env, volume with keys | init, up, down, mesh-init, cert | docker | kill between two certificates, growing projects |
| Contract inference (`infer.py`, `contractgen.py`, lints of `check.py`) | QML of both ends, export blocks | infer, infer --write, check | configuration, type checker | sightings in any order, drift |
| Contract compiler, client shell, profiles, deployment, tool chain | text | emit, drive | | not modelled |

What makes each correct is in `PROJECT.json` under `hazards`, at the line where it
bites, with the properties that would catch it. The ones with no property yet name
the planned module.

## 2. Plan

Done, in the order of importance:

1. `SessionTable`, `EdgeSessions`, `SessionLifecycle`: one edge, its abstract
   specification, and the proofs (`SessionTableProofs`, `EdgeSessionsProofs`).
2. `DeviceSignIn`: the desktop client and the device registry; `DeviceSignInProofs`.
3. `SessionReplication`: several edges and the auth entity, over the same
   `SessionTable`; `SessionReplicationProofs`.
4. `ProjectConfig`, `ProjectCheck`, `ProjectGenerate`, `ProjectScaffold`: what a
   project means, what the check says of it, what is generated from it, and the
   commands and edits that change it. Each extends the one before; `ProjectProofs`.
5. `DesignEditor`: the editor's plan and apply; `DesignEditorProofs`.
6. `BuildPipeline`: build, serve and the development session; `BuildPipelineProofs`.
7. `DockerStack`: the generated stack and its certificates; `DockerStackProofs`.
8. `ContractInference`: contracts read from both ends, written and linted; proved about in
   `ProjectProofs`, a checked project's contracts being one more thing the check lets through.

Next: the modules still missing, `OAuthTokens` (refresh across nested event loops),
`SqlPool`, `BrowserTransport`, `RouterPages`, `Ingest`, `MemoryCache` with `Jobs`.

The project keeps a dozen standing runs. The configurations that answer a narrower
question, or that record a disagreement, are kept to be run by hand (section 4).

## 3. Modules and the code

`map` in `PROJECT.json` gives the lines of every definition.

**`SessionTable`** is `SessionManager` as a value: `t.sessions`, `t.queue`,
`t.rotations` are `m_sessions`, `m_expiryQueue`, `m_rotations`. Every method is an
operator from table to table, so that one edge and several edges run the same code.
A credential is a member of `Token`, drawn once; an identity is a user or `Nobody`.

**`EdgeSessions`** is one edge process. An action is one handler with every signal
it raises delivered, because the edge is a single event loop: `PageLoad`,
`Upgrade`, `SlotSetScope`, `SignIn`, `LoginCallback`, `DeviceSignIn`, `Logout`,
`RevokeByKey`, `Disconnected`, `Sweep`. `sockets` is `m_sessionSockets`, `refs` is
`m_sessionSources`, `tokens` the keys of `OAuthBackend::m_tokens`. Closing a socket
is two steps: `dropSession` moves it to "closing" and `Disconnected` frees it.
`origin` is history: the first credential of the chain of hand-offs.

**`SessionLifecycle`** is the promise, without credentials: a session begins once
and ends once, connections are attached to living sessions only, and are let go of
in the step that ends the session. `EdgeSessions` maps a session to its chain of
hand-offs and a connection to the chain it is on (`ChainStatus`, `ChainOfConnection`):
the mapping is what the run checks and the proof uses.

**`DeviceSignIn`** is the client's fields (`client`), its secure store (`disk`,
`late`), its requests in flight (`calls`), and the edge's registry, bindings,
sessions and claims. A request leaves `calls` when the client has done with it
and the edge will not act on it any more (`Settled`); a crash or a timeout only stops
the client waiting, and the edge may still handle what nobody waits for. `Events` names what the visitor, the
network and the machines may do in a run, `QuietFrom` when they stop, and `InOrder`
whether requests are handled in the order sent (two launches use two connections,
so the code does not guarantee it).

**`SessionReplication`** is N edges and the store, each with a `SessionTable`, and a
FIFO in each direction per link. `EdgeReceives` and `StoreReceives` deliver one
message and run `applyUpsert`, `applyRotation` or `applyRemove` with what the edge
does on the resulting signal. `LinkLost` loses both directions whole; `EdgeRestart`
loses the process. The late-join snapshot is emitted before anybody listens
(`connectpointhost.cpp:301`), so `LinkUp` delivers nothing.

**`ProjectConfig`** is a project as a value `p`: the list of entities in the order of
the file, the keys of each (dotted, as a function from key to value), the connect
points, the bundles, the top-level keys. Every reader of `appmodel.py` is an operator
of the same name. A value is the class the code tells apart (`"text"`, `"list"`, `"0"`,
`"env"`, ...). **`ProjectCheck`** has one operator per rule of `check.py`, true or
non-empty where the rule has a message, and `CheckProject` is their conjunction.
**`ProjectGenerate`** is what a generated main does: `hosts`, `faces`, `dials`,
`serves`, `secrets`, and `GenerateRefused`, the values that raise. **`ProjectScaffold`**
has the variables: the project, the outcome of the last command, the counters. A
command refuses before it writes (guards), writes, and regenerates; what was written
stays when that fails. `Author` is a hand edit: of an entity, a top-level key, a point with
its Source, bundles, routes.

**`DesignEditor`** is a project on disk, a document per page, and the apply under way
(`job`): its plan, the paths left, and what was held of the files before. `ExecuteStep`
writes the earliest path left; `ExecuteFails` restores from what was held; `Stop` ends the process between any two. Hand edits take no turn. Text is who wrote it.

**`BuildPipeline`** is the CMake trees, the deployed binary, the bundle and its
variants, a `synqt dev` session and two program counters: a command at a terminal and
the rebuild of the watch loop. What a compiler produces is the record of what went
into it; a modification time is the number of the write. The launch order is a function of
the version of the configuration (`StartupOrder`: Kahn's rounds, in the order of the names).

**`DockerStack`** is the generated files (the compose file is a set of services, each
with the address its place in the list of processes gives it), the `.env` values, the volume and the running
containers. mesh-init is one step per file it writes and may be killed between two.

**`ContractInference`** is the QML of each entity as the statements the scan reads, and
each owner's export block. Everything else is a function of these: the scan of each
end (`OwnerSightings`, `RaisedSightings`, `ScanConsumer`: one sighting per statement, or
`Nothing`), the folds over them (`Recorded`, `RecordedUses`, `BetterRoles`), what
`infer --write` writes, the contract and the errors of the two lints. `typed` is whether the
type checker is installed.

## 4. Runs

### Standing

| Run | What it shows |
|---|---|
| `edge_core` | Through every interleaving of two browsers and two connections the Source counts follow rotations and ends, making room spares visitors, and the edge implements `SessionLifecycle`: an elevation is invisible, an ended session never returns, and every end lets go of its connections in the same step. |
| `edge_handoff` | With `identity.required`, and elevations while window and TTL run out: the elevated credential reaches the cookie; `EdgeInv`, the inductive invariant of the proofs (types, socket table, tokens, hints, ceiling, identified connections); what is past its time is reclaimed. |
| `device_core` | Lost answers, crashes, refusals, failed saves, rotations, expiries and edge restarts: the stored generation stays known, a credential buys one session at a time, only a refusal deletes it, and a retired generation presented past its window leaves no session of the family. |
| `device_signout` | With database and keyring failing at any call, a client that is not connected has a timer, a socket or a request under way; a sign-out the database hears of forgets the family. |
| `repl_core` | Two edges and the store, TTL, ceiling and unannounced sweeps: the tables agree once the links are drained, the removal of what an edge revoked or evicted is always on its way to every table that still holds it, one elevation is known everywhere and moves connections instead of closing them. |
| `repl_faults` | With a lost link or a restarted edge, no two processes ever hold different records of a credential. |
| `design_core` | Two pages, hand edits, failing writes, a stop: what is applied is what was shown, over the text it was shown to replace; a failure puts everything back; the project written passes the rules the plan was validated by and needs no second apply; opening and applying changes nothing; a file the author worked on is never overwritten by a page's copy. |
| `project_core` | Projects of up to six entities reached by three commands and edits, two of a kind at most: what the check accepts is generated; both ends of every point come up on one endpoint; the console goes to operators only; client secrets are with one keeper; a command only adds; a project that passed still passes after `add entity` or `add monitor`. |
| `build_core` | Builds of both profiles and a development session, edits between any two steps, configure failures, Ctrl-C: a build that reports its compilation has deployed what was asked for; when the watch loop is quiet after a rebuild the processes and the bundle are the sources as they stand; owners start before consumers; every saved change is taken up. |
| `docker_core` | Four projects, one changing into another, init twice, up twice, a kill, a crash: no address is given twice and every reference to one is held by the right container; a secret that is set stays; entities that are up trust one another; a stack that is brought up comes up. |
| `infer_core` | Up to three statements over a client, an edge and a store: no consumer overrules an owner, no sighting's type or role is lost, the check accepts what `infer --write` wrote where both ends agree, and a checked call is answered. |
| `device_restart_loop` (violation) | `synclient.cpp:512-527` says an edge restart is survivable; a restart between redemption and socket leaves neither way to a new session. |

### By hand, holding

`device_liveness` (in a network gone
quiet, after drops, refusals, timeouts, a refusing mapping, a database outage and a
late keyring, the client ends up connected for good):
`tlc -config device_liveness.cfg MCDeviceSignIn`. `HandoffIsReclaimed` of `EdgeSessions`
(every hand-off is dropped in the end) holds with `edge_handoff`'s constants and
`LiveSpec`. The other properties the modules state and no run checks are theorems
(section 7).

### By hand, refuted: where the code and its words part

| Configuration | Said | Found |
|---|---|---|
| `edge_signin_handoff` | with no hand-off, earlier credentials buy nothing (`sessionmanager.cpp:260-263`) | `rotatedFrom` survives, and the next elevation re-points the old hand-off at the signed-in session |
| `edge_logout` | logout ends the session and its connections (`docs/authentication.md:393-396`) | it revokes the cookie's id, which an elevation in a slot may have replaced |
| `edge_chain` | an elevation follows the chain (`sessionmanager.cpp:245-251`) | `setScope` follows one link (257); a third elevation strands the first hand-off |
| `device_out_of_order` | a retired generation inside the window costs nothing (`docs/desktop.md:154-156`) | a crashed launch's late request takes the place of the generation the client stored |
| `device_outage` | only a refusal deletes the credential (`docs/desktop.md:171-176`) | a database that is down is answered like one |
| `repl_logout_overtakes` | logout clears the session (`docs/authentication.md:393-394`) | a removal that overtakes the creator's put is forgotten |
| `repl_core`, with `NoConnectionOutlivesItsSession` | the edge closes the connections a session authorized as it revokes it (`docs/authentication.md:394-396`) | an edge that hears its own creation back after elevating it holds the old credential again (`applyUpsert`); a connection opened on that is neither moved nor closed, for `dropSession` takes its removal for the rotation |
| `design_half` | "There is no half-applied state to explain" (`designplan.py:693`) | the apply runs on a daemon thread (`design.py:228`); Ctrl-C ends it between two files |
| `design_source` | the owner's half is written "rather than left as an entity that fails to start" (`designplan.py:407`) | a file that is there and not an untouched scaffold (`addcontract.py:231`) is left without a Source, a trimmed scaffold for one |
| `project_front` | a front need not be written onto each consumer list (`appmodel.py:563-566`) | `mesh_consumed` (618-621) reads only those lists, so the front never dials the tiers behind it |
| `project_edge_owner` | a checked project's points are hosted | a web edge whose point another entity consumes passes the check and hosts no mesh point |
| `build_reload` | "rebuilt; the browser will reload." (`run.py:582`) | the edge prefers the `.br`/`.gz` of the last `synqt build` (`webedge.cpp:1549-1581`), which the rebuild leaves alone |
| `build_ships_dev` | a directory that does not say it holds the development sign-in will be shipped (`profiles.py:84-85`) | the tree's name says it, the deployed binary's does not: `serve` after `dev` runs it |
| `build_core`, with `Requests <- MCStrip`, `DevRequests <- MCNothing`, no edits, three commands; `BuildDelivers` | "`--strip` asks for it on any profile" (`docs/build-system-and-cli.md:361`) | a tree configured without it is taken for configured, and the host preset does not carry it |
| `build_core`, with `Requests <- MCCustom`, `DevRequests <- MCNothing`, no edits, three commands; `BuildDelivers` | "a failed one is retried rather than remembered as done" (`build.py:255-256`) | a custom configure that fails after it wrote the cache leaves the stamp of the one before; the request that stamp is of is then taken for configured |
| `build_core`, with `ClientOwnsItsTop = TRUE`; `RebuildReachesTheProcesses` | "rebuilt; the browser will reload." (`run.py:582`) | a service edit saved between the build and the watcher's first look (`SourceWatcher`, 448), or one whose rebuild failed, is not kept; a change of the client alone (`_categorize`, 473) then rebuilds the client alone and says so |
| `docker_repeat` | "Idempotent: `up` runs this every time" (`docker.py:840`) | killed between `ca.key` and `ca.crt`, mesh-init fails ever after (`mesh.py:123`) |
| `docker_restart` | an entity that has a certificate keeps it (`docker.py:849`) | `mesh.cert` issues again; an entity restarted while it does reads a key and a certificate that do not belong together |
| `infer_unanswered` | "a member nothing in the owner implements is an error" (`docs/programming-model.md:79`) | `lint_exports` passes over a Source that shows no member at all (`check.py:3500`) |
| `infer_kind` | "a guess can only fill in what it left open" (`infer.py` `collect`) | a consumer's call turns a declared property into a slot (`_better_kind`) |
| `infer_core`, with `Statements <- MCChange`, two lines; `RefusedUsesAreBroken` | a refused use is of a member the replica lacks (`check.py` `lint_contract_drift`) | `on<Property>Changed` handlers are refused, and every facade has that signal |

The standing runs of the tools leave out the instances these configurations are about:
`project_core` writes no web edge that owns a mesh point, `build_core` no `--strip`
and no second terminal, `docker_core` no restart while mesh-init is at work. The
properties they check are false of those instances.

## 5. Bounds

* `Token`, `Session`, `Secret`, `Family`: the supply of random names. Three tokens
  allow two elevations of one session, or one next to another visitor's; the
  configurations about longer chains have four. `device_core` needs
  four secrets: a generation can only be stretched past its window, or reused, after
  two more were issued. Names are symmetric, and permutations are used in the runs
  without liveness.
* `MaxTime`: past the longest clock of the run that matters, so every comparison is
  met below, at and above its limit. It is 0 where no clock matters
  (`device_signout`). The clock stops at the bound; every other action goes on.
* `Overlap` 0 in `device_core`: a retired generation is inside its window in the tick that
  retired it and past it in the next, before the family lapses in the one after. That a longer
  window is not stretched either is a theorem (`WindowNeverGrows`).
* `MaxSessions` 2 (1 in `repl_core`): the ceiling is met with a visitor to spare.
* `SearchDepth` 2 in `edge_core`, smaller than the queue of hints can get.
* `MaxCalls` 2: two answers can cross, which is what the ordering hazards need.
* `MaxBacklog` 1: how many messages an edge may be behind when it takes another
  handler. The put, the rotation and the removal of one elevation are still in flight
  together, since one handler sends all three.
* `MaxFaults` 1: one lost link or one restart, at any point.
* `design_core`: two entities, one whose scaffold carries commentary and one whose does
  not; two draws, one hand edit, one stop. Two pages are enough for a plan to be stale;
  an apply writes up to three files, so a failure has something before and after it.
* `project_core`: three steps after `synqt new`, two commands or two edits at most among
  them. A step after an edit is taken on projects that still pass (`OnePassing`): a project
  that fails the check satisfies the invariants anyway.
* `build_core`: three services in a chain, a diamond and a cycle (one per version of the
  configuration); two edits and two commands, so that an edit falls before, during and
  after a rebuild, and a tree is used by two requests.
* `docker_core`: a subnet with room for five containers, which one project fills and
  another overflows; two inits, two ups, one kill, one crash, one change of project.
  `up` always builds.
* `infer_core`: three statements in all, one line by hand per export. Folding is over
  pairs, and every rule compares at most an owner's statement, a consumer's and a line;
  the third statement is the one that must not matter.

Two edges in `repl_core` are enough for everything but one order: an eviction on a third
edge, whose removal overtakes the hand-off of an elevation made elsewhere. The exception
`ElevationKeepsConnections` makes for it is exercised by the theorem of section 7, not by
the run.

`CHECK_DEADLOCK FALSE` is set in `device_liveness` and `device_restart_loop`, where the
bounded supply of names can run out in a connected client, and in the runs of the
tools, where the author stops when the edits and commands of the bound are spent.

## 6. Fairness

* `EdgeSessions!LiveSpec`: weak fairness of `Sweep` and `Tick`. The sweep is a
  repeating `QTimer` of the edge's event loop, and time passes.
* `DeviceSignIn!LiveSpec`: weak fairness of the client's timers, of the socket's
  outcome, of the answers (every request has a transfer timeout and every socket a
  handshake timer) and of the edge's handlers. The visitor and the faults are not fair.
* `BuildPipeline`: weak fairness of the steps of the watch loop, which polls on a timer
  for as long as the session runs. Commands and edits are not fair.
* `DockerStack`: weak fairness of mesh-init's steps and of the start of a container whose
  `depends_on` is met: the compose file gives every entity a restart policy. Kills,
  crashes and commands are not fair.

## 7. Proofs

Everything below is proved for every value of the constants that satisfies the modules'
assumptions (finite sets of names, distinguished empty values, natural numbers, and in the
modules of the tools the shape of their inputs). Where a theorem needs more, the
hypothesis is in its statement. No theorem is about ENABLED or fairness, which the provers
do not reach. Induction over data is out of their reach as a schema, and is done where it is
needed by hand: the launch order and the folds of `ContractInference` are recursive
functions, and what holds of each of their steps holds of all, for the least step at which it
did not would contradict (`LeastNumber`, `UpTo`).

### The session table and the edge

`SessionTableProofs` says what each method of the table returns, preserves and bounds:
`CreateProperties`, `SetScopeProperties`, `PurgePreserves`, `ForgetPreserves` and the
lemmas under them. The proofs about one edge and about several rest on it.

`EdgeSessionsProofs` has one lemma per handler under `EdgeInvariant == Spec => []EdgeInv`,
and from it types, the socket table, redirections, tokens, identified connections, hints,
the ceiling and `MakingRoomSparesVisitors`. None of these is inductive alone. That the
socket table names exactly the open connections needs a closing connection never to be on
a session the table holds (`ClosingConnectionsAreOver`); that needs a credential never to
be drawn twice (`CredentialsAreMinted`); and that `dropSession` does not take an ended
session for a rotated one needs no session of the table to have a hand-off
(`RotatedAwayIsGone`). `EdgeInv` is their conjunction; `edge_handoff` checks it with TLC.

Its second half adds `HandoffInv`: chains are rooted in a credential of their own,
each credential was replaced once, a hand-off leads home. With it a chain never has two
living sessions (`ChainsNeverFork`), an elevation reaches the browser that did not make it
(`ElevationIsHandedOver`), and the edge implements `SessionLifecycle`
(`EdgeImplementsLifecycle`, the safety part, which is all there is of it: initial states
map to initial states, and each handler maps to one step of the life cycle or to none).
`SourcesFollowConnections` counts: it is the one proof with cardinalities, since a
Source exists for a session as long as some connection is on it.

### The desktop client

`DeviceSignInProofs`. Every step is reduced to what it does to the requests in flight
(`Moved`: which are given up, which is answered, which is added), so that an invariant has
one lemma about moves and then one case per handler.

* `WaitingInvariant`: `SpendingInv` and `ProgressInv`, and from them `ClientIsNeverStuck`,
  `RedeemingFlagIsExact` and `CredentialBuysOneSession`, with no hypothesis.
* `WindowNeverGrows`, with no hypothesis: `WindowInv` says that a generation is retired
  once, when the next takes its place, and that no other family has it.
* `ReuseEndsTheFamily`, while the database answers (`"storeDown"` is no event): `RegistryInv`
  says that until reuse is found out every session of a family can be reached through its
  binding. A binding that could not be written cannot be followed.
* `LogoutForgetsTheFamily`, without rotation and expiry: both leave the client with a cookie
  that is not the session the binding is under, and its logout then forgets nothing.
* `StoredCredentialStaysKnown`, with requests in the order sent and no write after its
  deadline: `StorageInv` says that what is sent is what is stored and an answer that brings a
  credential brings the live generation. `device_out_of_order` refutes it otherwise.
* `NothingElseErases`, for the run's events: `RefusalInv` says that a refusal is of a
  credential the registry will never take again and that it is the one stored. A database
  that is away (`device_outage`), a refusing mapping and a sign-in begun meanwhile each
  break it. Late writes are left out of the proof, since what is stored is then not what
  was sent; TLC finds no counterexample with them.

### Several edges

`SessionReplicationProofs`. `EveryCopyAgrees` holds with every fault: no two copies of a
record, in a table or on a link, differ (`CopiesAgree`). For `Faults = {}`,
`ReplicationInvariant` explains every difference between an edge's table and the store's by
a message on its way, in the order it will be taken: a creation is private until the store
has it, a revocation is announced after the session was forgotten and for good.
`RevocationArrives` and `ReplicasAreOneTable` follow. A lost link breaks both: what it carried
is not sent again.

`HandoffsReachEveryReplica`, for `Faults = {}` too, is about the third call of an elevation.
Alone it is not inductive: the same record of a hand-off is written by the edge that makes
it, by the store, and by the edges it is announced to, each by its own clock, and is swept,
dropped with the session it leads to, or overwritten by a later elevation of the same
credential. `HandoffInv` (`ReplicaHandoffInvariant`) says where it may be meanwhile: the one
elevation of a credential is still on its way to the store, or the store keeps it and every
edge keeps it or is being told of it (`HandoffIsOnItsWay`), unless nothing is promised any
more of the session it leads to (`Over`: revoked, expired, or made longer ago than a hand-off
lasts). What carries it is that no hand-off travels ahead of the creation of the session it
leads to (`CreationComesFirst`, the order of the calls at `sessionmanager.cpp:277-288`), so
that no record of it is older than that session (`LeadsOn`); that a hand-off told of is an
elevation somebody made (`ToldLead`); and that a session's `rotatedFrom`, by which a later
elevation of it moves the hand-off on, names one too (`OriginsLead`). The window
in the property is counted from the successor's own creation: an edge may sweep its record
while another that heard of it later still keeps one, so that a window over the records that
are left says nothing of the edge that has none.

`ElevationsKeepConnections`, for `Faults = {}`, is why that order was chosen: a removal told of
closes no connection whose session was elevated, since `dropSession` finds the hand-off first.
Its invariant is `RemovalFollowsHandoff` (`RemovalsComeBehind`): on every link a hand-off of the
credential is ahead of every removal of it, or has arrived at the other end (`Trails`), and
what the store keeps is told to every edge (`Spread`); `KeptLead` then gives the session the
hand-off leads to. The attempt refuted the property as it stood before, which excepted only
the credentials that were signed out of and counted on `Ttl` and `Grace` being equal. With
three edges that is false: an edge that has not heard of an elevation evicts the old credential
to make room (`evictOne`, `sessionmanager.cpp:138-142`), its removal reaches the store ahead of
the hand-off, and a third edge closes the connection of a visitor who lives on under the new
credential. Two elevations of one credential on two edges, the first successor already
expired, do the same. So the model now counts an eviction among what an edge ended, as the
code tells of it "the way a revocation is told" (which makes `RevocationArrives` speak of
evictions too), and the property excepts a credential that was let go of (`LetGo`) and one
that was elevated to a session that is over (`Settled`). It asks nothing of the clocks any more.

### The tools

* `DesignEditorProofs`, for any names, files and documents: `ApplyInv` says an apply
  has written a prefix of its plan, and holds the files of that prefix as they were. From
  it all five properties of `design_core`, with no hypothesis: what is shown is applied,
  failure restores, what is applied is sound, the author's files stay, nothing drawn changes
  nothing. Soundness needs what a page read and settled to be the project's own
  configuration (`ReadKeepsConfiguration`).
* `DockerStackProofs`: `SecretsStay`, with no hypothesis; `TrustHolds`, from `StackInv`, for
  `RestartRaces = FALSE` (`docker_restart` refutes it otherwise); `AddressesHold`, for
  configurations in which container names are apart. Nothing in `synqt check` keeps them
  apart: an entity named `front`, or `web-1` beside a `web` with replicas, is given another's
  address.
* `BuildPipelineProofs`. `CoreInv` says who may be at what: a command under way was asked
  for, a rebuild is of the session that watches, no artifact is newer than the sources. From
  it, with no hypothesis, `OwnersStartFirstHolds`: for any services and any connect points a
  launch starts each service once, owners before consumers whenever some order is possible.
  `RebuildsReachTheProcesses` holds for a session that alone works on the project
  (`~OtherTerminal`), whose request builds both halves, and where the client's files count as
  everyone's (`~ClientOwnsItsTop`); each is needed, and the table of section 4 has what
  happens without the last. `BuildsDeliver` holds for one terminal and for requests in which
  `dev` and the profile fit (`RequestsAreOfTheirProfiles`): `StampsAreTrue` says what a
  tree's stamp or preset lets the next command skip, and that it was in fact done.
* `ProjectProofs` begins with the state, not the steps: whatever project `p` is, of whatever
  size, however it came about, if the check passes it then the property holds. The hypotheses say
  what the check leaves to the author, and finding them was the use of the proofs:
  - `GeneratorsKeysHold`: the check never looks at `public.port`, `public.serve_client`,
    a monitor's `export.jsonl.keep`, `identity.required`, `refresh`, `lifetime_days` or
    `use_id_token`, and takes a key left blank for one left out, where the generator raises;
  - `OwnersCanHost` (`ConnectionsComeUp`): a web edge may own a point another entity
    consumes (`project_edge_owner`), and a monitor one for clients, of which its main
    faces only `console` (`maingen.py:1805-1821`);
  - the project's default scope (`ConsoleStaysInside`): the rule about who is served the console
    (`check.py:1437`) takes it, the monitor's main has "anonymous" written into it;
  - `KeeperIsNoMonitor` (`SecretsAreKeptOnce`): the check accepts a monitor as
    `identity.provider_entity` (`check.py:1372-1414`), whose main has no place for the secrets.

  TLC finds all of them satisfied by every checked project of `project_core`, so they are
  no restriction there; they are what its alphabet of values leaves out.
* Its second part is about the scaffolders' steps. `ScaffoldInv` says that a project has the
  shape the commands write, has scopes, and has no key of `identity:` or `monitoring:` without
  the block; from it, `ScaffoldsAdd`: a command takes nothing away and changes nothing. The
  hypothesis `BlocksAreWhole` says what an author writes at the top level (true of the edits of
  `project_core`), and its last part is no formality: `add monitor` appends a `monitoring:`
  block where the one in the file names no entity (`monitorscaffold.py:573-577`), YAML keeps
  the last of the two, and what was in the first is gone.
* Its third part is about contracts, for any entities, any statements
  (`StatementsAssumption` only says that parameters and roles are lists) and any lines.
  `MadeOf` says what a fold of sightings is, whatever their order: one member per name, its
  kind, its type and the type of each parameter taken from a sighting of that name
  (`Drawn`), and nothing a sighting knew forgotten (`Covers`). `EdgeMakes` proves it of the
  members of a link, and that these only add to what the owner's files alone come to
  (`Grows`). `OwnersReadingStandsHolds` and `EvidenceIsKeptHolds` are the two halves.
  `CheckedCallsAnswered` needs in addition that a slot of the Source's reading comes from a
  function (`SlotsAreFunctions`). `InferredContractsAreAccepted` compares three readings of
  the same files: the one that was written, the owner's without a type checker that
  `lint_exports` takes, and the one the drift lint takes. Without the checker every sighting
  is the same but for types that are `var` (`Vaguer`), so every reading is settled by the
  same agreement (`Settles`); `ContractInv` carries it from `infer --write` to the next edit.

### Model-checked only

* Liveness, which is outside the prover: `ExpiredIsReclaimed`, `HandoffIsReclaimed`,
  `EventuallyConnected`, `ChangesAreTakenUp`, `StackComesUp`.
* `CheckedStaysChecked` compares two evaluations of every rule.

## 8. What is not modelled

Cryptography (JWKS, TLS, random numbers): names are drawn fresh. Bytes on the wire,
headers, cookies' attributes, page and bundle delivery, logging. `DeviceSignIn` takes
the rate limit as a 429 at any time and a session as there or gone, since
`EdgeSessions` is about the table. `SessionReplication` closes a connection in one
step, since `EdgeSessions` has the two, and one clock serves all machines. The
components that `PROJECT.json` lists as `not_modelled` are in the plan above or have
no protocol of their own (drivers, presentation, templates, the contract compiler).

Of the tools: wording and layout of every message and file; tokenising of QML and the
TypeScript checker behind `typebackend.py` (an answer or none); qmllint and qmlformat;
CMake and openssl, which succeed, fail or are interrupted; `synqt dev`'s throwaway
certificates, signing and licences; `docker up --no-build` and the choice of a free
subnet; `add provider`; the layers of configuration profiles.
