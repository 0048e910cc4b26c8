--------------------------- MODULE BuildPipeline ---------------------------
(***************************************************************************)
(* `synqt build`, `synqt dev` and `synqt serve` on one project directory:   *)
(* the CMake trees under build/, the binary each entity is deployed as, the *)
(* browser bundle with its precompressed variants and its manifest, the     *)
(* watch loop of a development session and the processes it runs            *)
(* (tools/synqt/synqt/build.py, run.py, presets.py, profiles.py,            *)
(* clientbuild.py, manifest.py).                                            *)
(*                                                                          *)
(* Two commands may be under way: one typed at a terminal ("cli") and the   *)
(* rebuild of the watch loop ("watcher"). The author edits files between    *)
(* any two of their steps. What a compiler run produces is the record of    *)
(* what went into it; a modification time is the number of the write.       *)
(***************************************************************************)
EXTENDS Integers, Sequences, FiniteSets, SequencesExt

CONSTANTS
  Requests,         \* what may be asked of `synqt build`: profile, type, strip, kit, targets
  DevRequests,      \* what may be asked of `synqt dev`
  Services,         \* the service entities, numbered in the order of their names
  EdgeName,         \* the web edge, one of Services
  Consumption,      \* config version -> the <<consumer, owner>> pairs of its connect points
  ClientOwnsItsTop, \* the client's top folder is named as the client is
  ConfigureMayFail, \* cmake's configure step may fail for a reason of its own
  MayInterrupt,     \* a command may be stopped between two steps
  OtherTerminal,    \* `synqt build` may run while `synqt dev` does
  MaxEdits,         \* bound on the author's edits
  MaxCommands       \* bound on the commands typed

ASSUME EdgeAssumption == EdgeName \in Services
ASSUME ServicesAssumption == Services \subseteq Nat /\ IsFiniteSet(Services)
ASSUME ConsumptionAssumption ==
  \A v \in 0..MaxEdits : Consumption[v] \subseteq Services \X Services
ASSUME MaxEditsAssumption == MaxEdits \in Nat
\* `synqt dev` is the only command that asks for development code, and it always does.
ASSUME RequestsAssumption ==
  /\ Requests \cup DevRequests \subseteq
       [profile : {"debug", "release", "custom"}, type : STRING, strip : BOOLEAN,
        dev : BOOLEAN, threads : STRING, services : BOOLEAN, client : BOOLEAN]
  /\ \A req \in Requests : ~req.dev
  /\ \A req \in DevRequests : req.dev

Sides == {"host", "client", "config"}
Actors == {"cli", "watcher"}
\* A file compiles or loads, or does not; a config may also load and be refused by the
\* generator.
Kinds(side) == {"sound", "broken"} \cup (IF side = "config" THEN {"refused"} ELSE {})

VARIABLES
  src,       \* the author's files: per side, the version and the state it was saved in
  trees,     \* build/<env>-<profile>[-dev]: stamp, cache, artifact and its mtime
  presets,   \* CMakePresets.json: the config it is of and its custom preset
  deployed,  \* build/<entity>/: the binary the deploy layout holds
  bundle,    \* build/client/: the wasm, its variants, the manifest, the reload hook
  clock,     \* the number of the last write of an artifact or a variant
  pc,        \* per actor, the step its command is at and what it was asked
  session,   \* the development session
  served,    \* what `synqt serve` launched
  last,      \* what the last command to end reported
  typed      \* the commands typed so far

vars == <<src, trees, presets, deployed, bundle, clock, pc, session, served, last, typed>>

-----------------------------------------------------------------------------
(* Profiles, presets and trees *)

\* The CMake build type one profile stands for in one environment.
BuildType(req, environment) ==
  CASE req.profile = "custom"  -> req.type
    [] req.profile = "release" -> IF environment = "wasm" THEN "MinSizeRel" ELSE "Release"
    [] req.profile = "debug"   -> "Debug"

Strips(req) == req.profile = "release" \/ req.strip

\* One directory per environment, profile, kit and whether it holds development code.
BuildDir(environment, profile, kit, dev) ==
  [env |-> environment, profile |-> profile, dev |-> dev,
   kit |-> IF environment = "wasm" THEN kit ELSE "host"]

\* Mutant: the host tree does not say that it holds development code.
HostDir_DropsDev(req) == BuildDir("host", req.profile, req.threads, FALSE)

HostDir(req) == BuildDir("host", req.profile, req.threads, req.dev)
WasmDir(req) == BuildDir("wasm", req.profile, req.threads, req.dev)

Dirs == {HostDir(r) : r \in Requests \cup DevRequests}
          \cup {WasmDir(r) : r \in Requests \cup DevRequests}
          \cup {BuildDir("host", p, "single", d) : p \in {"debug", "release"}, d \in BOOLEAN}

PresetName(req) ==
  CASE req.dev -> "host-dev"
    [] ~req.dev /\ req.profile = "debug" -> "host"
    [] ~req.dev /\ req.profile = "release" -> "host-release"
    [] ~req.dev /\ req.profile = "custom" -> "host-custom"

NoCache == [type |-> "none", strip |-> FALSE, dev |-> FALSE]

\* What CMakePresets.json says: a custom preset only while a custom build writes it.
PresetsText(config, req) ==
  [config |-> config,
   kit    |-> req.threads,
   custom |-> IF req.profile = "custom"
              THEN [type |-> req.type, strip |-> req.strip, dev |-> req.dev]
              ELSE NoCache]

PresetNames == {"host", "host-release", "host-dev"}
                 \cup (IF presets.custom = NoCache THEN {} ELSE {"host-custom"})

\* The cache variables of a preset, and the directory it configures.
PresetCache(preset) ==
  CASE preset = "host"         -> [type |-> "Debug", strip |-> FALSE, dev |-> FALSE]
    [] preset = "host-release" -> [type |-> "Release", strip |-> TRUE, dev |-> FALSE]
    [] preset = "host-dev"     -> [type |-> "Debug", strip |-> FALSE, dev |-> TRUE]
    [] preset = "host-custom"  -> presets.custom

PresetDir(preset) ==
  CASE preset = "host"         -> BuildDir("host", "debug", "single", FALSE)
    [] preset = "host-release" -> BuildDir("host", "release", "single", FALSE)
    [] preset = "host-dev"     -> BuildDir("host", "debug", "single", TRUE)
    [] preset = "host-custom"  -> BuildDir("host", "custom", "single", presets.custom.dev)

-----------------------------------------------------------------------------
(* Contents *)

NoMade  == [config |-> -1, ver |-> -1, type |-> "none", strip |-> FALSE, dev |-> FALSE]
NoStamp == [asked |-> NoCache, text |-> [config |-> -1, kit |-> "", custom |-> NoCache]]
NoTree  == [stamp |-> NoStamp, cache |-> NoCache, made |-> NoMade, at |-> 0]

NoBundle == [exists |-> FALSE, wasm |-> NoMade, at |-> 0, packed |-> NoMade, packedAt |-> 0,
             id |-> NoMade, hook |-> FALSE, token |-> 0]

NoRequest == [profile |-> "debug", type |-> "", strip |-> FALSE, dev |-> FALSE,
              threads |-> "single", services |-> FALSE, client |-> FALSE]

Idle == [at |-> "idle", cmd |-> "none", req |-> NoRequest, config |-> -1,
         from |-> [s \in Sides |-> 0], compiled |-> FALSE]

NoSession == [on |-> FALSE, watching |-> FALSE, req |-> NoRequest,
              config |-> [ver |-> -1, kind |-> "sound"], running |-> NoMade, order |-> <<>>,
              seen |-> [s \in Sides |-> 0], changed |-> {}, outcome |-> "none"]

NoLast == [result |-> "none", why |-> "none"]

Versions == [s \in Sides |-> src[s].ver]

\* What a compiler run over a configured tree produces from the sources as they stand.
Compiled(side, config, cache) ==
  [config |-> config, ver |-> src[side].ver,
   type |-> cache.type, strip |-> cache.strip, dev |-> cache.dev]

-----------------------------------------------------------------------------
(* The order entities are launched in *)

\* Mutant: a service waits for its consumers instead of its owners.
Ready_Reversed(after, placed) ==
  LET rest  == Services \ ToSet(placed)
      ready == {s \in rest : \A o \in Services :
                  (<<o, s>> \in after /\ o # s) => o \in ToSet(placed)}
  IN IF ready = {} THEN rest ELSE ready

\* The services whose owners are all placed; on a cycle, all that are left.
Ready(after, placed) ==
  LET rest  == Services \ ToSet(placed)
      ready == {s \in rest : \A o \in Services :
                  (<<s, o>> \in after /\ o # s) => o \in ToSet(placed)}
  IN IF ready = {} THEN rest ELSE ready

\* Services in the order of their names.
InNameOrder(S) ==
  CHOOSE order \in [1..Cardinality(S) -> S] :
    \A i, j \in DOMAIN order : i < j => order[i] < order[j]

\* What is placed after each turn of the loop; a turn that finds nothing left places nothing.
Placed(after) ==
  LET rounds[n \in 0..Cardinality(Services)] ==
        IF n = 0 THEN <<>>
        ELSE LET placed == rounds[n - 1] IN placed \o InNameOrder(Ready(after, placed))
  IN rounds

\* The order of one config.
StartupOrder == [v \in 0..MaxEdits |-> Placed(Consumption[v])[Cardinality(Services)]]

\* A development session launches the edge last.
LaunchOrder ==
  [v \in 0..MaxEdits |->
     LET order == StartupOrder[v]
     IN RemoveAt(order, CHOOSE i \in DOMAIN order : order[i] = EdgeName) \o <<EdgeName>>]

-----------------------------------------------------------------------------
(* The steps of a build. Each is a step of the actor `a` that runs it. *)

Goto(a, at) == pc' = [pc EXCEPT ![a].at = at]

\* A command ends: the terminal shows why, the watch loop goes back to polling.
End(a, result, why) ==
  /\ pc' = [pc EXCEPT ![a] = Idle]
  /\ last' = [result |-> result, why |-> why]

Fail(a, why) ==
  /\ End(a, "failed", why)
  /\ session' = IF a = "watcher" THEN [session EXCEPT !.outcome = "failed"] ELSE session

\* load_config, the validation gate, generate, presets.write and topologywriter.write.
Generate(a, cmd, req, config, was) ==
  /\ presets' = PresetsText(config, req)
  /\ pc' = [pc EXCEPT ![a] = [at |-> "host", cmd |-> cmd, req |-> req, config |-> config,
                              from |-> was, compiled |-> TRUE]]

\* `synqt build` and `synqt dev` begin: a config that does not load or does not pass stops
\* them before anything is written.
Begin(cmd, req) ==
  /\ pc["cli"].at = "idle" /\ typed < MaxCommands
  /\ session.on => (OtherTerminal /\ cmd = "build")
  /\ typed' = typed + 1
  /\ IF src["config"].kind = "sound"
     THEN Generate("cli", cmd, req, src["config"].ver, Versions) /\ UNCHANGED last
     ELSE End("cli", "refused", "config") /\ UNCHANGED presets
  /\ UNCHANGED <<src, trees, deployed, bundle, clock, session, served>>

\* A toolchain that is not complete is a note and not an error: the layout is still emitted.
SkipCompile(a) ==
  /\ pc[a].at = "host"
  /\ pc' = [pc EXCEPT ![a].at = "install", ![a].compiled = FALSE]
  /\ UNCHANGED <<src, trees, presets, deployed, bundle, clock, session, served, last, typed>>

\* What a tree holds after cmake configured `into` with `cache`: the cache is that of the
\* directory cmake was given, the stamp that of the directory the command builds.
Configured(dir, into, cache, stamp) ==
  [d \in Dirs |->
     [trees[d] EXCEPT !.cache = IF d = into THEN cache ELSE @,
                      !.stamp = IF d = dir THEN stamp ELSE @]]

\* The configure step is skipped for a directory with a cache and this very command.
IsConfigured(dir, stamp) == trees[dir].cache # NoCache /\ trees[dir].stamp = stamp

\* The build step of one directory: ninja leaves an artifact that is up to date alone.
\* A command line that is being run again for the same inputs writes nothing.
Built(ts, dir, made) ==
  IF ts[dir].made = made THEN ts
  ELSE [ts EXCEPT ![dir].made = made, ![dir].at = clock + 1]

\* cmake configures and builds one directory, or fails at either.
CompileIn(a, side, dir, into, cache, known, next) ==
  LET stamp == [asked |-> cache, text |-> presets]
      skip  == IsConfigured(dir, stamp)
      after == IF skip THEN trees ELSE Configured(dir, into, cache, stamp)
      made  == Compiled(side, pc[a].config, after[dir].cache)
  IN \/ /\ ~skip
        /\ ~known \/ ConfigureMayFail
        /\ Fail(a, "configure")
        /\ trees' \in {trees} \cup
             (IF known THEN {Configured(dir, into, cache, trees[dir].stamp)} ELSE {})
        /\ UNCHANGED clock
     \/ /\ skip \/ known
        /\ after[dir].cache = NoCache \/ src[side].kind # "sound"
        /\ Fail(a, IF after[dir].cache = NoCache THEN "tree" ELSE "source")
        /\ trees' = after
        /\ UNCHANGED clock
     \/ /\ skip \/ known
        /\ after[dir].cache # NoCache /\ src[side].kind = "sound"
        /\ trees' = Built(after, dir, made)
        /\ clock' = IF trees'[dir].at = after[dir].at THEN clock ELSE clock + 1
        /\ Goto(a, next)
        /\ UNCHANGED <<session, last>>

\* The services, through the host preset; the preset decides where cmake configures.
CompileHost(a) ==
  /\ pc[a].at = "host"
  /\ LET req    == pc[a].req
         preset == PresetName(req)
         known  == preset \in PresetNames
         next   == IF req.client THEN "wasm" ELSE "install"
     IN IF req.services
        THEN CompileIn(a, "host", HostDir(req),
                       IF known THEN PresetDir(preset) ELSE HostDir(req),
                       IF known THEN PresetCache(preset) ELSE NoCache, known, next)
        ELSE Goto(a, next) /\ UNCHANGED <<trees, clock, session, last>>
  /\ UNCHANGED <<src, presets, deployed, bundle, served, typed>>

\* The browser client, configured by qt-cmake in the directory it is built in.
CompileWasm(a) ==
  /\ pc[a].at = "wasm"
  /\ LET req == pc[a].req
     IN CompileIn(a, "client", WasmDir(req), WasmDir(req),
                  [type |-> BuildType(req, "wasm"), strip |-> Strips(req), dev |-> req.dev],
                  TRUE, "assemble")
  /\ UNCHANGED <<src, presets, deployed, bundle, served, typed>>

\* assemble_bundle: copy2 keeps the artifact's mtime, the page is written without the hook.
CopyBundle(a) ==
  /\ pc[a].at = "assemble"
  /\ LET tree == trees[WasmDir(pc[a].req)]
     IN bundle' = [bundle EXCEPT !.exists = TRUE, !.wasm = tree.made, !.at = tree.at,
                                 !.hook = FALSE]
  /\ Goto(a, "manifest")
  /\ UNCHANGED <<src, trees, presets, deployed, clock, session, served, last, typed>>

\* manifest.write: the build id is the digest of the wasm in the bundle.
WriteManifest(a) ==
  /\ pc[a].at = "manifest"
  /\ bundle' = [bundle EXCEPT !.id = bundle.wasm]
  /\ Goto(a, "install")
  /\ UNCHANGED <<src, trees, presets, deployed, clock, session, served, last, typed>>

\* _install_binary: whatever binary the host tree holds, when it holds one.
Install(a) ==
  /\ pc[a].at = "install"
  /\ LET req  == pc[a].req
         made == trees[HostDir(req)].made
     IN /\ deployed' = IF req.services /\ made # NoMade THEN made ELSE deployed
        /\ bundle' = IF req.client THEN [bundle EXCEPT !.exists = TRUE] ELSE bundle
        /\ Goto(a, IF a = "watcher" THEN "reload" ELSE "compress")
  /\ UNCHANGED <<src, trees, presets, clock, session, served, last, typed>>

\* A variant at least as new as its asset is current.
IsCurrent == bundle.packed # NoMade /\ bundle.packedAt >= bundle.at

\* precompress, the process manifest and the summary; `synqt dev` goes on to launch.
Compress ==
  /\ pc["cli"].at = "compress"
  /\ LET redo == pc["cli"].req.client /\ bundle.wasm # NoMade /\ ~IsCurrent
     IN /\ bundle' = IF redo THEN [bundle EXCEPT !.packed = bundle.wasm, !.packedAt = clock + 1]
                     ELSE bundle
        /\ clock' = IF redo THEN clock + 1 ELSE clock
  /\ IF pc["cli"].cmd = "dev"
     THEN Goto("cli", "launch") /\ UNCHANGED last
     ELSE End("cli", "built", "none")
  /\ UNCHANGED <<src, trees, presets, deployed, session, served, typed>>

\* The command is stopped between two steps.
Interrupt ==
  /\ MayInterrupt /\ pc["cli"].at # "idle"
  /\ End("cli", "interrupted", "none")
  /\ UNCHANGED <<src, trees, presets, deployed, bundle, clock, session, served, typed>>

-----------------------------------------------------------------------------
(* The development session *)

\* _write_dev_reload_harness: the hook in the page, and a new reload token.
Harness(b) == IF b.exists THEN [b EXCEPT !.hook = b.wasm # NoMade, !.token = clock] ELSE b

\* dev() launches every entity from the development tree, or names the ones not built.
Launch ==
  /\ pc["cli"].at = "launch"
  /\ LET req  == pc["cli"].req
         made == trees[HostDir(req)].made
     IN IF made = NoMade
        THEN End("cli", "failed", "missing") /\ UNCHANGED <<bundle, session>>
        ELSE /\ session' = [NoSession EXCEPT !.on = TRUE, !.req = req,
                              !.config = src["config"], !.running = made,
                              !.order = LaunchOrder[pc["cli"].config]]
             /\ bundle' = Harness(bundle)
             /\ End("cli", "built", "none")
  /\ UNCHANGED <<src, trees, presets, deployed, clock, served, typed>>

\* The watcher's first snapshot is taken once the edge answers.
StartWatching ==
  /\ session.on /\ ~session.watching
  /\ session' = [session EXCEPT !.watching = TRUE, !.seen = Versions]
  /\ UNCHANGED <<src, trees, presets, deployed, bundle, clock, pc, served, last, typed>>

\* Mutant: the loop rebuilds only for files it knows a service by.
Poll_ServicesOnly ==
  /\ session.watching /\ pc["watcher"].at = "idle"
  /\ session.config.kind = "sound" /\ session.seen["host"] # src["host"].ver
  /\ session' = [session EXCEPT !.seen = Versions, !.changed = {"host"}]
  /\ Generate("watcher", "reload", session.req, session.config.ver, Versions)
  /\ UNCHANGED <<src, trees, deployed, bundle, clock, served, last, typed>>

\* One turn of the watch loop that sees a change: the snapshot is the one just taken. A
\* config that does not load leaves the session the one it had; one the generator refuses
\* is the session's from then on, and no rebuild goes past it until it is saved again.
Poll ==
  /\ session.watching /\ pc["watcher"].at = "idle"
  /\ LET changed == {s \in Sides : session.seen[s] # src[s].ver}
         reads   == "config" \in changed
         config  == IF reads /\ src["config"].kind # "broken" THEN src["config"]
                    ELSE session.config
         goes    == ~(reads /\ src["config"].kind = "broken") /\ config.kind = "sound"
     IN /\ changed # {}
        /\ session' = [session EXCEPT !.seen = Versions, !.config = config,
                                      !.changed = changed,
                                      !.outcome = IF goes THEN @ ELSE "failed"]
        /\ IF goes THEN Generate("watcher", "reload", session.req, config.ver, Versions)
                   ELSE UNCHANGED <<pc, presets>>
  /\ UNCHANGED <<src, trees, deployed, bundle, clock, served, last, typed>>

\* Mutant: a change under the client's folder never restarts a service.
HostChanged_ByFolder(changed) == "config" \in changed \/ "host" \in changed

\* _categorize: whether the running processes have to be replaced.
HostChanged(changed) ==
  \/ "config" \in changed
  \/ "host" \in changed
  \/ "client" \in changed /\ ~ClientOwnsItsTop

\* The end of _hot_reload: terminate and launch again if a service changed, then the token.
Reload ==
  /\ pc["watcher"].at = "reload"
  /\ LET made    == trees[HostDir(session.req)].made
         restart == HostChanged(session.changed)
     IN /\ session' = [session EXCEPT
                         !.running = IF restart THEN made ELSE @,
                         !.order = IF restart THEN LaunchOrder[session.config.ver] ELSE @,
                         !.outcome = "rebuilt"]
        /\ bundle' = IF restart /\ made = NoMade THEN bundle ELSE Harness(bundle)
  /\ pc' = [pc EXCEPT !["watcher"] = Idle]
  /\ UNCHANGED <<src, trees, presets, deployed, clock, served, last, typed>>

\* Ctrl-C, or the edge exiting on its own: every process is terminated, and a rebuild that
\* was under way goes no further.
StopDev ==
  /\ session.on
  /\ session' = NoSession
  /\ pc' = [pc EXCEPT !["watcher"] = Idle]
  /\ UNCHANGED <<src, trees, presets, deployed, bundle, clock, served, last, typed>>

-----------------------------------------------------------------------------
(* The other commands, and the author *)

\* `synqt serve` launches what the deploy layout holds, owners first, and supervises nothing.
Serve ==
  /\ pc["cli"].at = "idle" /\ ~session.on /\ typed < MaxCommands
  /\ src["config"].kind = "sound" /\ deployed # NoMade
  /\ served' = [made |-> deployed, config |-> src["config"].ver,
                 order |-> StartupOrder[src["config"].ver]]
  /\ typed' = typed + 1
  /\ UNCHANGED <<src, trees, presets, deployed, bundle, clock, pc, session, last>>

\* `synqt clean` removes build/ and the generated sources.
Clean ==
  /\ pc["cli"].at = "idle" /\ ~session.on /\ typed < MaxCommands
  /\ trees' = [d \in Dirs |-> NoTree]
  /\ deployed' = NoMade
  /\ bundle' = NoBundle
  /\ typed' = typed + 1
  /\ UNCHANGED <<src, presets, clock, pc, session, served, last>>

\* The author saves a file of one side, sound or half typed.
Edit(side, kind) ==
  /\ src["host"].ver + src["client"].ver + src["config"].ver < MaxEdits
  /\ src' = [src EXCEPT ![side] = [ver |-> @.ver + 1, kind |-> kind]]
  /\ UNCHANGED <<trees, presets, deployed, bundle, clock, pc, session, served, last, typed>>

-----------------------------------------------------------------------------
Init ==
  /\ src = [s \in Sides |-> [ver |-> 0, kind |-> "sound"]]
  /\ trees = [d \in Dirs |-> NoTree]
  /\ presets = PresetsText(-1, NoRequest)
  /\ deployed = NoMade
  /\ bundle = NoBundle
  /\ clock = 0
  /\ pc = [a \in Actors |-> Idle]
  /\ session = NoSession
  /\ served = [made |-> NoMade, config |-> 0, order |-> <<>>]
  /\ last = NoLast
  /\ typed = 0

Compile(a) == CompileHost(a) \/ CompileWasm(a) \/ CopyBundle(a) \/ WriteManifest(a) \/ Install(a)

Next ==
  \/ \E req \in Requests : Begin("build", req)
  \/ \E req \in DevRequests : Begin("dev", req)
  \/ \E a \in Actors : Compile(a)
  \/ SkipCompile("cli")
  \/ Compress \/ Interrupt \/ Launch
  \/ StartWatching \/ Poll \/ Reload \/ StopDev
  \/ Serve \/ Clean
  \/ \E side \in Sides : \E kind \in Kinds(side) : Edit(side, kind)

\* The loop and its rebuild go on as long as the session does.
Watching == StartWatching \/ Poll \/ Reload \/ Compile("watcher")

Spec == Init /\ [][Next]_vars /\ WF_vars(Watching)

-----------------------------------------------------------------------------
(* Properties *)

\* An artifact is what one request asks for, from the sources as they stood at its start
\* or later.
Answers(made, p, side, environment) ==
  /\ made.type = BuildType(p.req, environment)
  /\ made.strip = Strips(p.req)
  /\ made.dev = p.req.dev
  /\ made.config = p.config
  /\ made.ver >= p.from[side]

\* A build that reports its compilation has deployed it: the binary and the wasm are of the
\* profile asked for, with development code exactly when asked, no older than the sources
\* the command began with, and the manifest names the wasm beside it (build.py `build`,
\* `_configure_if_needed`, `_install_binary`, `assemble_bundle`; run.py:541 "it must never
\* report success for a binary it did not produce").
BuildDelivers ==
  [][(pc["cli"].at = "compress" /\ pc["cli"].compiled /\ last'.result # "interrupted"
        /\ pc'["cli"].at # "compress") =>
       /\ pc["cli"].req.services => Answers(deployed', pc["cli"], "host", "host")
       /\ pc["cli"].req.client =>
            /\ Answers(bundle'.wasm, pc["cli"], "client", "wasm")
            /\ bundle'.id = bundle'.wasm]_vars

\* The watch loop has nothing left to do.
Quiet == session.watching /\ pc["watcher"].at = "idle" /\ session.seen = Versions

\* Once the loop is quiet after a rebuild it reported, the processes run the sources and
\* the config the session holds, the bundle is built from the client as it stands, and the
\* page still reloads itself: no edit is lost to a rebuild it overtook or to one that
\* failed (run.py `SourceWatcher.poll`, `_hot_reload`, `_categorize`).
RebuildReachesTheProcesses ==
  (Quiet /\ session.outcome = "rebuilt") =>
    /\ session.running.ver = src["host"].ver
    /\ session.running.config = session.config.ver
    /\ bundle.wasm.ver = src["client"].ver
    /\ bundle.hook

\* What a browser is sent for the wasm: the precompressed variant whenever there is one.
Delivered == IF bundle.packed # NoMade THEN bundle.packed ELSE bundle.wasm

\* After a rebuild the browser that reloads gets the client just rebuilt (run.py:582
\* "rebuilt; the browser will reload.", webedge.cpp's variant choice).
BrowserGetsTheRebuild ==
  (Quiet /\ session.outcome = "rebuilt") => Delivered = bundle.wasm

\* `synqt serve` never launches a binary with development code in it (profiles.py
\* `build_dir`, the `-dev` suffix of the tree).
ServedHoldsNoDevCode == ~served.made.dev

\* Whether the services can be ordered at all.
Acyclic(after) ==
  ~ \E S \in (SUBSET Services) \ {{}} :
      \A s \in S : \E o \in S \ {s} : <<s, o>> \in after

\* The position of a service in a launch.
StartsBefore(order, x, y) == \E i, j \in DOMAIN order : i < j /\ order[i] = x /\ order[j] = y

\* A launch starts every service exactly once, owners before their consumers whenever the
\* connect points allow an order, and a development session the edge last (run.py
\* `startup_order`, `_launch_order`).
OwnersStartFirst ==
  /\ served.order # <<>> =>
       /\ IsInjective(served.order) /\ ToSet(served.order) = Services
       /\ Acyclic(Consumption[served.config]) =>
            \A pair \in Consumption[served.config] :
              pair[1] # pair[2] => StartsBefore(served.order, pair[2], pair[1])
  /\ session.order # <<>> =>
       /\ IsInjective(session.order) /\ ToSet(session.order) = Services
       /\ Last(session.order) = EdgeName

\* A saved change is always taken up: the loop becomes quiet again or the session ends
\* (run.py `_watch_loop`).
ChangesAreTakenUp == (session.watching /\ ~Quiet) ~> (Quiet \/ ~session.on)
=============================================================================
