---------------------------- MODULE DesignEditor ----------------------------
(***************************************************************************)
(* `synqt design`: the editor's server, the change set a drawing implies   *)
(* and its application to a project on disk (tools/synqt/synqt/design.py,  *)
(* designplan.py, designdoc.py).                                           *)
(*                                                                         *)
(* Pages hold a document read from the project, draw on it, ask what       *)
(* applying it would do and then apply that change set by its digest.      *)
(* Requests take a turn each (a lock); what does not wait its turn is the  *)
(* author's own editor on the same files, a write that fails, and Ctrl-C,  *)
(* which ends the process while a daemon thread is half way through.       *)
(*                                                                         *)
(* A project is its synqt.yaml (entities, and at most one connect point    *)
(* per owner) and one QML file per entity. Text is abstracted to who wrote *)
(* it:                                                                     *)
(*   "scaffold"  exactly what `synqt add entity` writes                    *)
(*   "trimmed"   the same with its commentary taken out                    *)
(*   "source"    the Source stub of a connect point                        *)
(*   "typed"     what somebody typed into the page                         *)
(*   "work"      what the author wrote in an editor of their own           *)
(***************************************************************************)
EXTENDS Naturals, Sequences

CONSTANTS
  Names,        \* entity names
  Plain,        \* those whose type has no engine: their scaffold has no comments
  PathOrder,    \* Names and Yaml in the order their paths sort
  Tabs,         \* pages open on the project
  None,         \* no entity, no connect point, no file
  MaxDraws,     \* bound on the strokes drawn
  MaxHand,      \* bound on the author's own edits
  MaxStops      \* bound on the times the server is stopped

Yaml == "synqt.yaml"
Providers == {"", "memory", "redis"}
Texts == {"scaffold", "trimmed", "source", "typed", "work"}
EntityBlocks == [provider : Providers, settings : BOOLEAN]
Configurations == [ents  : [Names -> EntityBlocks \cup {None}],
                   links : [Names -> {None} \cup SUBSET Names]]

ASSUME DesignAssumption ==
  /\ Plain \subseteq Names /\ Yaml \notin Names
  /\ None \notin Names /\ None \notin Providers \cup Texts /\ None \notin EntityBlocks
  /\ (\A S \in SUBSET Names : S # None) /\ None \notin Configurations
  /\ PathOrder \in Seq(Names \cup {Yaml})
  /\ {PathOrder[i] : i \in 1..Len(PathOrder)} = Names \cup {Yaml}
  /\ \A i, j \in 1..Len(PathOrder) : PathOrder[i] = PathOrder[j] => i = j
  /\ MaxDraws \in Nat /\ MaxHand \in Nat /\ MaxStops \in Nat

VARIABLES
  disk,   \* the project: [ents, links, file]
  page,   \* page[t]: the document and the plan it was last shown
  job,    \* the apply the server is working on, or Idle
  up,     \* is the server running?
  draws, hands, stops

vars == <<disk, page, job, up, draws, hands, stops>>

(***************************************************************************)
(* Reading a project.                                                      *)
(***************************************************************************)
Config(d) == [ents |-> d.ents, links |-> d.links]

\* Mutant: a provider written as a block is read as no provider.
Read_NoProvider(d) ==
  [ents  |-> [n \in Names |-> IF d.ents[n] = None THEN None
                              ELSE IF d.ents[n].settings THEN "" ELSE d.ents[n].provider],
   links |-> d.links, qml |-> d.file, typed |-> {}, sourceHash |-> Config(d)]

\* designdoc.read: the drawing carries the provider's name and not its
\* settings, a copy of every file, and a fingerprint of synqt.yaml.
Read(d) ==
  [ents  |-> [n \in Names |-> IF d.ents[n] = None THEN None ELSE d.ents[n].provider],
   links |-> d.links, qml |-> d.file, typed |-> {}, sourceHash |-> Config(d)]

Alive(doc) == {n \in Names : doc.ents[n] # None}

(***************************************************************************)
(* Computing a plan.                                                       *)
(***************************************************************************)
\* _settled: names that are gone come off every consumer list.
Settled(doc) ==
  [doc EXCEPT !.links = [n \in Names |-> IF @[n] = None THEN None
                                         ELSE @[n] \cap Alive(doc)]]

\* addentity.entity_block: an external engine comes with its settings.
EntityBlock(n, provider) ==
  IF n \in Plain THEN [provider |-> "", settings |-> FALSE]
  ELSE [provider |-> IF provider = "" THEN "memory" ELSE provider,
        settings |-> provider = "redis"]

\* _uncomment_file over a scaffold: a plain one had no commentary to lose.
Uncommented(n) == IF n \in Plain THEN "scaffold" ELSE "trimmed"

\* addcontract.untouched_scaffold: byte for byte what a scaffolder wrote.
UntouchedScaffold(text) == text = "scaffold"

\* _apply_entities on synqt.yaml: scaffold, patch or remove. The patch puts
\* {name: provider} where the whole provider block was.
EntityAfter(d, doc, n) ==
  IF doc.ents[n] = None THEN None
  ELSE IF d.ents[n] = None THEN EntityBlock(n, doc.ents[n])
  ELSE IF doc.ents[n] = d.ents[n].provider THEN d.ents[n]
  ELSE [provider |-> doc.ents[n], settings |-> FALSE]

\* Mutant: a copy in the document that differs from the disk is written back.
EntityFileAfter_WritesCopy(d, doc, n) ==
  CASE doc.ents[n] = None /\ d.ents[n] = None -> d.file[n]
    [] doc.ents[n] = None /\ d.ents[n] # None -> None
    [] doc.ents[n] # None /\ d.ents[n] = None -> Uncommented(n)
    [] OTHER -> IF doc.qml[n] # None THEN doc.qml[n] ELSE Uncommented(n)

\* _scaffold_entity, _write_entity_qml and the directory of a removed entity.
EntityFileAfter(d, doc, n) ==
  CASE doc.ents[n] = None /\ d.ents[n] = None -> d.file[n]
    [] doc.ents[n] = None /\ d.ents[n] # None -> None
    [] doc.ents[n] # None /\ d.ents[n] = None -> Uncommented(n)
    [] OTHER -> IF n \in doc.typed THEN "typed"
                ELSE IF d.file[n] = None THEN Uncommented(n) ELSE d.file[n]

\* _write_source: the typed text, or a stub over a file nobody has touched.
SourceAfter(doc, n, existing) ==
  IF doc.links[n] = None \/ n \notin Alive(doc) THEN existing
  ELSE IF n \in doc.typed THEN "typed"
  ELSE IF existing # None /\ ~UntouchedScaffold(existing) THEN existing
  ELSE "source"

\* Mutant: the links are written as drawn, names that are gone included.
After_Unsettled(d, doc) ==
  LET want == Settled(doc) IN
  [ents  |-> [n \in Names |-> EntityAfter(d, want, n)],
   links |-> doc.links,
   file  |-> [n \in Names |-> SourceAfter(want, n, EntityFileAfter(d, want, n))]]

\* _apply over the working copy.
After(d, doc) ==
  LET want == Settled(doc) IN
  [ents  |-> [n \in Names |-> EntityAfter(d, want, n)],
   links |-> want.links,
   file  |-> [n \in Names |-> SourceAfter(want, n, EntityFileAfter(d, want, n))]]

\* designdoc.to_config: what the plan validates. Provider settings are carried
\* across from the entity the file already has.
ToConfig(d, doc) ==
  [ents |-> [n \in Names |->
      IF doc.ents[n] = None THEN None
      ELSE [provider |-> doc.ents[n],
            settings |-> /\ doc.ents[n] # "" /\ d.ents[n] # None
                         /\ d.ents[n].settings]],
   links |-> doc.links]

\* check.validate, the rules a drawing can break: both ends of a point exist,
\* an owner does not consume its own point, and a provider fits the type.
Valid(c) ==
  /\ \A n \in Names : c.links[n] # None =>
        /\ c.ents[n] # None
        /\ \A m \in c.links[n] : c.ents[m] # None /\ m # n
  /\ \A n \in Plain : c.ents[n] # None => c.ents[n].provider = ""

Paths == Names \cup {Yaml}

Content(d, p) == IF p = Yaml THEN Config(d) ELSE d.file[p]

\* _changes: what becomes of every path that is written or deleted. A deleted
\* directory is shown as the names in it.
Changes(d, a) ==
  LET Gone(p) == Content(a, p) = None /\ Content(d, p) # None
  IN  [p \in {q \in Paths : Content(a, q) # Content(d, q)} |->
         [after |-> Content(a, p), before |-> IF Gone(p) THEN "listed" ELSE Content(d, p)]]

Position(p) == CHOOSE i \in 1..Len(PathOrder) : PathOrder[i] = p

\* The order of the changes: writes by path, then deletions by path.
Earlier(changes, p, q) ==
  \/ changes[p].after # None /\ changes[q].after = None
  \/ /\ changes[p].after = None <=> changes[q].after = None
     /\ Position(p) =< Position(q)

\* compute
Compute(d, doc) ==
  [changes |-> Changes(d, After(d, doc)),
   ok      |-> Valid(ToConfig(d, Settled(doc))),
   stale   |-> doc.sourceHash # Config(d)]

\* digest: a fingerprint of the diff, which holds every change's two sides, in their order.
Digest(plan) == plan.changes

(***************************************************************************)
(* The pages.                                                              *)
(***************************************************************************)
Blank == [ents |-> [n \in Names |-> None], links |-> [n \in Names |-> None],
          file |-> [n \in Names |-> None]]
NoPlan == None
Nothing == [p \in {} |-> None]
Idle == [tab |-> None, doc |-> Read(Blank), shown |-> NoPlan, plan |-> Nothing,
         left |-> {}, held |-> Nothing, base |-> Blank, hands |-> 0]

\* The projects an editor can be opened on: what `synqt new` and
\* `synqt add entity` leave, with the author's own work in some files.
Init ==
  /\ \E ents \in [Names -> BOOLEAN] : \E redis \in BOOLEAN :
       disk = [ents  |-> [n \in Names |-> IF ents[n]
                            THEN EntityBlock(n, IF redis THEN "redis" ELSE "")
                            ELSE None],
               links |-> [n \in Names |-> None],
               file  |-> [n \in Names |-> IF ents[n] THEN "scaffold" ELSE None]]
  /\ page = [t \in Tabs |-> [doc |-> Read(disk), shown |-> NoPlan]]
  /\ job = Idle /\ up = TRUE
  /\ draws = 0 /\ hands = 0 /\ stops = 0

\* A request gets the server's lock: no apply is under way.
Turn(t) == up /\ job = Idle

\* GET /api/project
OpenProject(t) ==
  /\ Turn(t)
  /\ page' = [page EXCEPT ![t] = [doc |-> Read(disk), shown |-> NoPlan]]
  /\ UNCHANGED <<disk, job, up, draws, hands, stops>>

\* One stroke on the canvas or in the panel: the page changes its document.
Draw(t, doc) ==
  /\ draws < MaxDraws /\ doc # page[t].doc
  /\ draws' = draws + 1
  /\ page' = [page EXCEPT ![t] = [doc |-> doc, shown |-> NoPlan]]
  /\ UNCHANGED <<disk, job, up, hands, stops>>

DrawEntity(t, n, provider) ==
  /\ page[t].doc.ents[n] = None
  /\ Draw(t, [page[t].doc EXCEPT !.ents[n] = provider])
EraseEntity(t, n) ==
  /\ page[t].doc.ents[n] # None
  /\ Draw(t, [page[t].doc EXCEPT !.ents[n] = None, !.links[n] = None,
                                 !.typed = @ \ {n}])
DrawProvider(t, n, provider) ==
  /\ page[t].doc.ents[n] # None /\ n \notin Plain
  /\ Draw(t, [page[t].doc EXCEPT !.ents[n] = provider])
DrawLink(t, n, consumers) ==
  /\ page[t].doc.ents[n] # None
  /\ Draw(t, [page[t].doc EXCEPT !.links[n] = consumers])
EraseLink(t, n) == Draw(t, [page[t].doc EXCEPT !.links[n] = None])
TypeQml(t, n) ==
  /\ page[t].doc.ents[n] # None
  /\ Draw(t, [page[t].doc EXCEPT !.qml[n] = "typed", !.typed = @ \cup {n}])

\* POST /api/plan
Plan(t) ==
  /\ Turn(t)
  /\ page' = [page EXCEPT ![t].shown = Digest(Compute(disk, page[t].doc))]
  /\ UNCHANGED <<disk, job, up, draws, hands, stops>>

(***************************************************************************)
(* Applying: the plan is worked out again, and named by its digest.        *)
(***************************************************************************)
\* Mutant: the digest is not compared.
Accepted_AnyDigest(plan, digest) == ~plan.stale /\ plan.ok

Accepted(plan, digest) ==
  /\ digest = Digest(plan)
  /\ ~plan.stale /\ plan.ok

\* POST /api/apply up to the first write of execute.
Apply(t) ==
  LET plan == Compute(disk, page[t].doc) IN
  /\ Turn(t) /\ page[t].shown # NoPlan
  /\ Accepted(plan, page[t].shown)
  /\ job' = [tab |-> t, doc |-> page[t].doc, shown |-> page[t].shown,
             plan |-> plan.changes, left |-> DOMAIN plan.changes, held |-> Nothing,
             base |-> disk, hands |-> hands]
  /\ UNCHANGED <<disk, page, up, draws, hands, stops>>

\* The same request refused: another digest, a stale document, or a design
\* that does not pass the check. Nothing is written.
ApplyRefused(t) ==
  /\ Turn(t) /\ page[t].shown # NoPlan
  /\ ~Accepted(Compute(disk, page[t].doc), page[t].shown)
  /\ page' = [page EXCEPT ![t].shown = NoPlan]
  /\ UNCHANGED <<disk, job, up, draws, hands, stops>>

Put(d, p, content) ==
  IF p = Yaml THEN [d EXCEPT !.ents = content.ents, !.links = content.links]
  ELSE [d EXCEPT !.file[p] = content]

\* _hold: what a path is now, unless it is held already: of two, the one held first is
\* the last to be put back.
Hold(held, p) ==
  [q \in DOMAIN held \cup {p} |-> IF q \in DOMAIN held THEN held[q] ELSE Content(disk, q)]

\* _hold, then one write or one removal: the earliest of those left.
ExecuteStep ==
  /\ up /\ job # Idle
  /\ \E p \in job.left :
       /\ \A q \in job.left : Earlier(job.plan, p, q)
       /\ job' = [job EXCEPT !.left = @ \ {p}, !.held = Hold(@, p)]
       /\ disk' = Put(disk, p, job.plan[p].after)
  /\ UNCHANGED <<page, up, draws, hands, stops>>

\* Mutant: a file that did not exist before is left where it was created.
Restore_KeepsCreated(d, held) ==
  [ents  |-> IF Yaml \in DOMAIN held THEN held[Yaml].ents ELSE d.ents,
   links |-> IF Yaml \in DOMAIN held THEN held[Yaml].links ELSE d.links,
   file  |-> [n \in Names |-> IF n \in DOMAIN held /\ held[n] # None THEN held[n]
                              ELSE d.file[n]]]

\* _restore: what was held goes back.
Restore(d, held) ==
  [ents  |-> IF Yaml \in DOMAIN held THEN held[Yaml].ents ELSE d.ents,
   links |-> IF Yaml \in DOMAIN held THEN held[Yaml].links ELSE d.links,
   file  |-> [n \in Names |-> IF n \in DOMAIN held THEN held[n] ELSE d.file[n]]]

\* A write raises: everything held is put back and the request is refused.
ExecuteFails ==
  /\ up /\ job # Idle /\ job.left # {}
  /\ disk' = Restore(disk, job.held)
  /\ page' = [page EXCEPT ![job.tab].shown = NoPlan]
  /\ job' = Idle
  /\ UNCHANGED <<up, draws, hands, stops>>

\* Every change is in; the page adopts the project as it now is.
ApplyDone ==
  /\ up /\ job # Idle /\ job.left = {}
  /\ page' = [page EXCEPT ![job.tab] = [doc |-> Read(disk), shown |-> NoPlan]]
  /\ job' = Idle
  /\ UNCHANGED <<disk, up, draws, hands, stops>>

\* Ctrl-C: the handler threads are daemons and nobody waits for them.
Stop ==
  /\ up /\ stops < MaxStops
  /\ up' = FALSE /\ job' = Idle /\ stops' = stops + 1
  /\ UNCHANGED <<disk, page, draws, hands>>

\* `synqt design` again: a new token, so every page is opened anew.
Start ==
  /\ ~up
  /\ up' = TRUE
  /\ page' = [t \in Tabs |-> [doc |-> Read(disk), shown |-> NoPlan]]
  /\ UNCHANGED <<disk, job, draws, hands, stops>>

(***************************************************************************)
(* The author, in an editor of their own.                                  *)
(***************************************************************************)
HandEdit(p) ==
  /\ hands < MaxHand /\ hands' = hands + 1
  /\ \/ /\ p \in Names /\ disk.file[p] \notin {None, "work"}
        /\ disk' = [disk EXCEPT !.file[p] = "work"]
     \/ /\ p \in Names \ Plain /\ disk.ents[p] # None
        /\ disk' = [disk EXCEPT !.ents[p].settings = ~@]
  /\ UNCHANGED <<page, job, up, draws, stops>>

Next ==
  \/ \E t \in Tabs : OpenProject(t) \/ Plan(t) \/ Apply(t) \/ ApplyRefused(t)
  \/ \E t \in Tabs, n \in Names :
       \/ \E provider \in IF n \in Plain THEN {""} ELSE Providers :
             DrawEntity(t, n, provider) \/ DrawProvider(t, n, provider)
       \/ \E consumers \in SUBSET (Names \ {n}) : DrawLink(t, n, consumers)
       \/ EraseEntity(t, n) \/ EraseLink(t, n) \/ TypeQml(t, n)
  \/ ExecuteStep \/ ExecuteFails \/ ApplyDone
  \/ Stop \/ Start
  \/ \E p \in Names : HandEdit(p)

Spec == Init /\ [][Next]_vars

-----------------------------------------------------------------------------
Projects == [ents  : [Names -> EntityBlocks \cup {None}],
             links : [Names -> {None} \cup SUBSET Names],
             file  : [Names -> Texts \cup {None}]]
Documents == [ents  : [Names -> Providers \cup {None}],
              links : [Names -> {None} \cup SUBSET Names],
              qml   : [Names -> Texts \cup {None}],
              typed : SUBSET Names, sourceHash : Configurations]

\* What a path can hold: a configuration, or somebody's text.
ContentOK(p, content) ==
  IF p = Yaml THEN content \in Configurations ELSE content \in Texts \cup {None}

TypeOK ==
  /\ disk \in Projects
  /\ page = [t \in Tabs |-> [doc |-> page[t].doc, shown |-> page[t].shown]]
  /\ \A t \in Tabs : page[t].doc \in Documents
  /\ job = [tab |-> job.tab, doc |-> job.doc, shown |-> job.shown, plan |-> job.plan,
            left |-> job.left, held |-> job.held, base |-> job.base, hands |-> job.hands]
  /\ job # Idle => job.tab \in Tabs /\ job.doc \in Documents /\ job.base \in Projects
  /\ \A p \in DOMAIN job.held : p \in Paths /\ ContentOK(p, job.held[p])
  /\ up \in BOOLEAN /\ draws \in Nat /\ hands \in Nat /\ stops \in Nat /\ job.hands \in Nat

(***************************************************************************)
(* Properties.                                                             *)
(***************************************************************************)
\* No hand edit landed since the server started on this apply.
Quiet == hands = job.hands

\* Opening the project and applying what was read, with nothing drawn, leaves
\* synqt.yaml alone, deletes nothing, and writes only files that are missing
\* or that no author has touched, whatever sequence of applies, hand edits,
\* failures and stops led here (compute over read).
NothingDrawnNothingChanged ==
  job = Idle =>
    LET c == Compute(disk, Read(disk)).changes IN
    \A p \in DOMAIN c :
      /\ p # Yaml
      /\ c[p].after # None
      /\ c[p].before = None \/ UntouchedScaffold(c[p].before)

\* What is applied is what was shown (digest): every write is one the page was
\* shown, over the text it was shown to replace, and when the apply is done
\* every change shown is on disk. Hand edits during the apply itself excepted.
AppliedAsShown ==
  [][Quiet =>
      /\ ExecuteStep =>
           \A p \in job.left \ job'.left :
              /\ p \in DOMAIN job.shown /\ job.shown[p] = job.plan[p]
              /\ job.shown[p].after = None \/ job.shown[p].before = Content(disk, p)
              /\ Content(disk', p) = job.shown[p].after
      /\ ApplyDone =>
           \A p \in DOMAIN job.shown : Content(disk, p) = job.shown[p].after]_vars

\* A write that fails leaves the project exactly as it was before the apply
\* (execute: "any failure puts all of it back"), however many changes were in.
FailureRestores == [][ExecuteFails /\ Quiet => disk' = job.base]_vars

\* A finished apply leaves a project that passes the rules the plan was
\* validated against, and that a second apply of the document the page adopts
\* would not change: the configuration validated (to_config) and the one
\* written (_patch, the scaffolders) are computed by different code.
AppliedProjectIsSound ==
  [][ApplyDone /\ Quiet =>
      /\ Valid(Config(disk))
      /\ DOMAIN Compute(disk, Read(disk)).changes = {}]_vars

\* A file the author has worked on is only replaced by text typed into the
\* page, or goes with its entity: the copy a page read earlier is never written
\* back over it (_edited_qml, _write_source, untouched_scaffold).
AuthorsWorkIsKept ==
  [][ExecuteStep /\ Quiet =>
      \A n \in Names \cap (job.left \ job'.left) :
        job.base.ents[n] # None /\ disk.file[n] = "work" => disk'.file[n] \in {None, "typed"}]_vars

(***************************************************************************)
(* What an apply keeps to while it is under way: the inductive invariant   *)
(* behind the properties above.                                            *)
(***************************************************************************)
\* Every consumer of a point is an entity of the same configuration.
LinksStand(c) ==
  \A n \in Names : c.links[n] # None => \A m \in c.links[n] : c.ents[m] # None

\* The configuration on disk, and the one a failure would put back, stand.
ConfigurationsStand ==
  /\ LinksStand(Config(disk))
  /\ Yaml \in DOMAIN job.held => LinksStand(job.held[Yaml])

\* The changes are those of the document over the project the apply started
\* from, that document passed the check, and what has been done is held.
WorksThePlan ==
  job # Idle =>
    /\ job.plan = Changes(job.base, After(job.base, job.doc))
    /\ job.shown = job.plan
    /\ Valid(ToConfig(job.base, Settled(job.doc)))
    /\ job.left \subseteq DOMAIN job.plan
    /\ DOMAIN job.held = DOMAIN job.plan \ job.left
    /\ job.hands =< hands

\* With no hand edit since the apply began, a path is either done, and then
\* its old content is held, or as it was.
DoneOrUntouched ==
  job # Idle /\ Quiet =>
    \A p \in Paths :
      IF p \in DOMAIN job.held
      THEN job.held[p] = Content(job.base, p) /\ Content(disk, p) = job.plan[p].after
      ELSE Content(disk, p) = Content(job.base, p)

ApplyInv == TypeOK /\ ConfigurationsStand /\ WorksThePlan /\ DoneOrUntouched

(***************************************************************************)
(* What the code's own words promise and the code does not keep.           *)
(***************************************************************************)
\* Drawing a link writes the owner's half of it ("rather than left as an
\* entity that fails to start", _write_source): with no apply under way every
\* connect point has a Source, not the scaffold of an entity without one.
EveryPointHasASource ==
  job = Idle => \A n \in Names :
    disk.links[n] # None => disk.file[n] \notin {None, "scaffold", "trimmed"}

\* An apply is never left half way ("There is no half-applied state to
\* explain", execute), stopping the server included.
NoHalfApplied ==
  [][Stop => job = Idle \/ disk = job.base \/ job.left = {}]_vars

=============================================================================
