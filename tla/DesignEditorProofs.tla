------------------------- MODULE DesignEditorProofs -------------------------
(***************************************************************************)
(* Proofs about `synqt design`: what an apply writes, whatever the project, *)
(* the drawing, the number of pages and the author's edits.                *)
(***************************************************************************)
EXTENDS DesignEditor, TLAPS

(***************************************************************************)
(* The operators: a settled document, and the project it asks for.         *)
(***************************************************************************)
\* Settling takes names off the consumer lists and touches nothing else.
LEMMA SettledFields ==
  ASSUME NEW doc \in Documents
  PROVE  /\ Settled(doc) \in Documents
         /\ Settled(doc).ents = doc.ents /\ Settled(doc).typed = doc.typed
         /\ Settled(doc).qml = doc.qml
         /\ \A n \in Names : Settled(doc).links[n] =
              IF doc.links[n] = None THEN None ELSE doc.links[n] \cap Alive(doc)
         /\ Alive(Settled(doc)) = Alive(doc)
<1>1. PICK L : L = [n \in Names |-> IF doc.links[n] = None THEN None
                                    ELSE doc.links[n] \cap Alive(doc)]
  OBVIOUS
<1>2. \A n \in Names : doc.links[n] = None \/ doc.links[n] \in SUBSET Names
  BY DEF Documents
<1>3. L \in [Names -> {None} \cup SUBSET Names]
  BY <1>1, <1>2
<1>4. Settled(doc) = [doc EXCEPT !.links = L]
  BY <1>1 DEF Settled
<1>5. /\ Settled(doc) \in Documents
      /\ Settled(doc).ents = doc.ents /\ Settled(doc).typed = doc.typed
      /\ Settled(doc).qml = doc.qml /\ Settled(doc).links = L
  BY <1>3, <1>4 DEF Documents
<1>6. Alive(Settled(doc)) = Alive(doc)
  BY <1>5 DEF Alive
<1> QED BY <1>1, <1>5, <1>6

\* What is read from a project is a document.
LEMMA ReadIsDocument ==
  ASSUME NEW d \in Projects
  PROVE  Read(d) \in Documents
<1>1. [n \in Names |-> IF d.ents[n] = None THEN None ELSE d.ents[n].provider]
        \in [Names -> Providers \cup {None}]
  <2> SUFFICES ASSUME NEW n \in Names, d.ents[n] # None
               PROVE  d.ents[n].provider \in Providers
    OBVIOUS
  <2>1. d.ents[n] \in EntityBlocks
    BY DEF Projects
  <2> QED BY <2>1 DEF EntityBlocks
<1>2. Config(d) \in Configurations
  BY DEF Config, Projects, Configurations
<1> QED BY <1>1, <1>2 DEF Read, Documents, Projects

\* The fields of the project a document asks for.
LEMMA AfterFields ==
  ASSUME NEW d, NEW doc, NEW n \in Names
  PROVE  /\ After(d, doc).ents[n] = EntityAfter(d, Settled(doc), n)
         /\ After(d, doc).links = Settled(doc).links
         /\ After(d, doc).file[n] =
              SourceAfter(Settled(doc), n, EntityFileAfter(d, Settled(doc), n))
BY DEF After

\* An entity is there afterwards exactly when it was drawn, and is a block.
LEMMA EntityAfterType ==
  ASSUME NEW d \in Projects, NEW doc \in Documents, NEW n \in Names
  PROVE  /\ EntityAfter(d, doc, n) \in EntityBlocks \cup {None}
         /\ EntityAfter(d, doc, n) = None <=> doc.ents[n] = None
<1>1. d.ents[n] = None \/ d.ents[n] \in EntityBlocks
  BY DEF Projects
<1>2. doc.ents[n] = None \/ doc.ents[n] \in Providers
  BY DEF Documents
<1>3. CASE doc.ents[n] = None
  BY <1>3 DEF EntityAfter
<1>4. CASE doc.ents[n] # None /\ d.ents[n] = None
  <2>1. EntityAfter(d, doc, n) = EntityBlock(n, doc.ents[n])
    BY <1>4 DEF EntityAfter
  <2>2. EntityBlock(n, doc.ents[n]) \in EntityBlocks
    BY <1>2, <1>4 DEF EntityBlock, EntityBlocks, Providers
  <2> QED BY <2>1, <2>2, <1>4, DesignAssumption
<1>5. CASE doc.ents[n] # None /\ d.ents[n] # None
  <2>1. CASE doc.ents[n] = d.ents[n].provider
    <3>1. EntityAfter(d, doc, n) = d.ents[n]
      BY <1>5, <2>1 DEF EntityAfter
    <3> QED BY <3>1, <1>1, <1>5
  <2>2. CASE doc.ents[n] # d.ents[n].provider
    <3>1. EntityAfter(d, doc, n) = [provider |-> doc.ents[n], settings |-> FALSE]
      BY <1>5, <2>2 DEF EntityAfter
    <3>2. [provider |-> doc.ents[n], settings |-> FALSE] \in EntityBlocks
      BY <1>2, <1>5 DEF EntityBlocks
    <3> QED BY <3>1, <3>2, <1>5, DesignAssumption
  <2> QED BY <2>1, <2>2
<1> QED BY <1>3, <1>4, <1>5

\* What a file holds before a Source is written: an entity that was drawn has
\* one, and what was not typed and not missing stays.
LEMMA EntityFileCases ==
  ASSUME NEW d \in Projects, NEW doc \in Documents, NEW n \in Names
  PROVE  LET f == EntityFileAfter(d, doc, n) IN
         /\ f \in Texts \cup {None}
         /\ doc.ents[n] # None => f # None
         /\ doc.ents[n] = None => f = IF d.ents[n] = None THEN d.file[n] ELSE None
         /\ doc.ents[n] # None /\ d.ents[n] # None =>
              f = IF n \in doc.typed THEN "typed"
                  ELSE IF d.file[n] = None THEN Uncommented(n) ELSE d.file[n]
<1>1. d.file[n] \in Texts \cup {None}
  BY DEF Projects
<1>2. Uncommented(n) \in Texts
  BY DEF Uncommented, Texts
<1>3. "typed" \in Texts /\ None \notin Texts
  BY DesignAssumption DEF Texts
<1>4. CASE doc.ents[n] = None
  BY <1>1, <1>4 DEF EntityFileAfter
<1>5. CASE doc.ents[n] # None /\ d.ents[n] = None
  <2>1. EntityFileAfter(d, doc, n) = Uncommented(n)
    BY <1>5 DEF EntityFileAfter
  <2> QED BY <2>1, <1>2, <1>3, <1>5
<1>6. CASE doc.ents[n] # None /\ d.ents[n] # None
  <2>1. EntityFileAfter(d, doc, n) =
          IF n \in doc.typed THEN "typed"
          ELSE IF d.file[n] = None THEN Uncommented(n) ELSE d.file[n]
    BY <1>6 DEF EntityFileAfter
  <2> QED BY <2>1, <1>1, <1>2, <1>3, <1>6
<1> QED BY <1>4, <1>5, <1>6

\* A document asks for a project.
LEMMA AfterIsProject ==
  ASSUME NEW d \in Projects, NEW doc \in Documents
  PROVE  After(d, doc) \in Projects
<1> PICK want : want = Settled(doc)
  OBVIOUS
<1>1. want \in Documents
  BY SettledFields
<1>2. [n \in Names |-> EntityAfter(d, want, n)] \in [Names -> EntityBlocks \cup {None}]
  BY <1>1, EntityAfterType
<1>3. want.links \in [Names -> {None} \cup SUBSET Names]
  BY <1>1 DEF Documents
<1>4. [n \in Names |-> SourceAfter(want, n, EntityFileAfter(d, want, n))]
        \in [Names -> Texts \cup {None}]
  <2> SUFFICES ASSUME NEW n \in Names
               PROVE  SourceAfter(want, n, EntityFileAfter(d, want, n)) \in Texts \cup {None}
    OBVIOUS
  <2>1. EntityFileAfter(d, want, n) \in Texts \cup {None}
    BY <1>1, EntityFileCases
  <2> QED BY <2>1 DEF SourceAfter, Texts
<1> QED BY <1>2, <1>3, <1>4 DEF After, Projects

\* Names that are gone are on no consumer list of the project asked for.
LEMMA AfterStands ==
  ASSUME NEW d \in Projects, NEW doc \in Documents
  PROVE  LinksStand(Config(After(d, doc)))
<1> SUFFICES ASSUME NEW n \in Names, After(d, doc).links[n] # None,
                    NEW m \in After(d, doc).links[n]
             PROVE  After(d, doc).ents[m] # None
  BY DEF LinksStand, Config
<1>1. After(d, doc).links[n] = Settled(doc).links[n]
  BY AfterFields
<1>2. m \in Alive(doc)
  BY <1>1, SettledFields
<1>3. m \in Names /\ Settled(doc).ents[m] # None
  BY <1>2, SettledFields DEF Alive
<1>4. EntityAfter(d, Settled(doc), m) # None
  BY <1>3, SettledFields, EntityAfterType
<1> QED BY <1>3, <1>4, AfterFields

\* The configuration written passes the rules the one validated passed.
LEMMA AfterIsValid ==
  ASSUME NEW d \in Projects, NEW doc \in Documents, Valid(ToConfig(d, Settled(doc)))
  PROVE  Valid(Config(After(d, doc)))
<1> PICK want : want = Settled(doc)
  OBVIOUS
<1> PICK a : a = After(d, doc)
  OBVIOUS
<1>1. want \in Documents
  BY SettledFields
<1>2. PICK c : c = ToConfig(d, want)
  OBVIOUS
<1>3. c.links = want.links
  BY <1>2 DEF ToConfig
<1>4. \A n \in Names : /\ c.ents[n] = None <=> want.ents[n] = None
                       /\ want.ents[n] # None => c.ents[n].provider = want.ents[n]
  <2> TAKE n \in Names
  <2>1. CASE want.ents[n] = None
    BY <1>2, <2>1 DEF ToConfig
  <2>2. CASE want.ents[n] # None
    <3>1. PICK s \in BOOLEAN : c.ents[n] = [provider |-> want.ents[n], settings |-> s]
      BY <1>2, <2>2 DEF ToConfig
    <3>2. want.ents[n] \in Providers
      BY <1>1, <2>2 DEF Documents
    <3>3. c.ents[n] \in EntityBlocks
      BY <3>1, <3>2 DEF EntityBlocks
    <3> QED BY <3>1, <3>3, <2>2, DesignAssumption
  <2> QED BY <2>1, <2>2
<1>5. \A n \in Names : /\ a.ents[n] = EntityAfter(d, want, n)
                       /\ a.ents[n] = None <=> want.ents[n] = None
  BY <1>1, AfterFields, EntityAfterType
<1>6. \A n \in Names : want.links[n] # None =>
        /\ want.ents[n] # None
        /\ \A m \in want.links[n] : want.ents[m] # None /\ m # n
  <2> SUFFICES ASSUME NEW n \in Names, want.links[n] # None
               PROVE  /\ want.ents[n] # None
                      /\ \A m \in want.links[n] : want.ents[m] # None /\ m # n
    OBVIOUS
  <2>1. /\ c.ents[n] # None
        /\ \A m \in want.links[n] : c.ents[m] # None /\ m # n
    BY <1>2, <1>3 DEF Valid
  <2>2. want.links[n] \subseteq Names
    BY <1>1 DEF Documents
  <2> QED BY <2>1, <2>2, <1>4
<1>7. \A n \in Plain : a.ents[n] # None => a.ents[n].provider = ""
  <2> SUFFICES ASSUME NEW n \in Plain, a.ents[n] # None
               PROVE  a.ents[n].provider = ""
    OBVIOUS
  <2>1. n \in Names
    BY DesignAssumption
  <2>2. want.ents[n] = ""
    BY <2>1, <1>2, <1>4, <1>5 DEF Valid
  <2>3. want.ents[n] # None
    BY <2>1, <1>5
  <2>4. CASE d.ents[n] = None
    <3>1. EntityAfter(d, want, n) = EntityBlock(n, want.ents[n])
      BY <2>3, <2>4 DEF EntityAfter
    <3>2. EntityBlock(n, want.ents[n]) = [provider |-> "", settings |-> FALSE]
      BY DEF EntityBlock
    <3>3. PICK r : r = [provider |-> "", settings |-> FALSE]
      OBVIOUS
    <3>4. r.provider = ""
      BY <3>3
    <3>5. a.ents[n] = r
      BY <3>1, <3>2, <3>3, <2>1, <1>5
    <3> QED BY <3>4, <3>5
  <2>5. CASE d.ents[n] # None
    <3>1. \/ EntityAfter(d, want, n) = d.ents[n] /\ d.ents[n].provider = want.ents[n]
          \/ EntityAfter(d, want, n) = [provider |-> want.ents[n], settings |-> FALSE]
      BY <2>3, <2>5 DEF EntityAfter
    <3>2. EntityAfter(d, want, n) = a.ents[n]
      BY <2>1, <1>5
    <3>3. EntityAfter(d, want, n).provider = want.ents[n]
      BY <3>1
    <3> QED BY <3>2, <3>3, <2>2
  <2> QED BY <2>4, <2>5
<1>8. \A n \in Names : \A m \in want.links[n] : want.links[n] # None => m \in Names
  BY <1>1 DEF Documents
<1>9. Config(a).links = want.links /\ Config(a).ents = a.ents
  BY DEF Config, After
<1>10. PICK g : g = Config(a)
  OBVIOUS
<1>11. \A n \in Names : g.links[n] # None =>
         /\ g.ents[n] # None
         /\ \A m \in g.links[n] : g.ents[m] # None /\ m # n
  BY <1>5, <1>6, <1>8, <1>9, <1>10
<1>12. \A n \in Plain : g.ents[n] # None => g.ents[n].provider = ""
  BY <1>7, <1>9, <1>10
<1>13. Valid(g)
  BY <1>11, <1>12 DEF Valid
<1> QED BY <1>10, <1>13

\* The file a document asks for: what an author wrote stays, is typed over, or
\* goes with its entity.
LEMMA FileAfterCases ==
  ASSUME NEW d \in Projects, NEW doc \in Documents, NEW n \in Names,
         d.ents[n] # None, d.file[n] = "work"
  PROVE  After(d, doc).file[n] \in {None, "typed", "work"}
<1> PICK want : want = Settled(doc)
  OBVIOUS
<1> PICK f : f = EntityFileAfter(d, want, n)
  OBVIOUS
<1>1. want \in Documents
  BY SettledFields
<1>2. After(d, doc).file[n] = SourceAfter(want, n, f)
  BY AfterFields
<1>3. "work" # None
  BY DesignAssumption DEF Texts
<1>4. CASE want.ents[n] = None
  <2>1. f = None
    BY <1>1, <1>4, EntityFileCases
  <2>2. n \notin Alive(want)
    BY <1>4 DEF Alive
  <2> QED BY <1>2, <2>1, <2>2 DEF SourceAfter
<1>5. CASE want.ents[n] # None
  <2>1. f = IF n \in want.typed THEN "typed" ELSE "work"
    BY <1>1, <1>3, <1>5, EntityFileCases
  <2> QED BY <1>2, <1>3, <2>1 DEF SourceAfter, UntouchedScaffold
<1> QED BY <1>4, <1>5

\* Nothing drawn: the configuration asked for is the one that was read.
LEMMA ReadKeepsConfiguration ==
  ASSUME NEW d \in Projects, LinksStand(Config(d))
  PROVE  Config(After(d, Read(d))) = Config(d)
<1> PICK doc : doc = Read(d)
  OBVIOUS
<1>1. doc \in Documents
  BY ReadIsDocument
<1>2. /\ doc.links = d.links
      /\ \A n \in Names : doc.ents[n] = IF d.ents[n] = None THEN None ELSE d.ents[n].provider
  BY DEF Read
<1>3. \A n \in Names : d.ents[n] # None => d.ents[n].provider # None
  <2> SUFFICES ASSUME NEW n \in Names, d.ents[n] # None
               PROVE  d.ents[n].provider # None
    OBVIOUS
  <2>1. d.ents[n] \in EntityBlocks
    BY DEF Projects
  <2> QED BY <2>1, DesignAssumption DEF EntityBlocks
<1>4. \A n \in Names : Settled(doc).links[n] = d.links[n]
  <2> TAKE n \in Names
  <2>1. CASE d.links[n] = None
    BY <2>1, <1>1, <1>2, SettledFields
  <2>2. CASE d.links[n] # None
    <3>1. d.links[n] \subseteq Names
      BY <2>2 DEF Projects
    <3>2. \A m \in d.links[n] : d.ents[m] # None
      BY <2>2 DEF LinksStand, Config
    <3>3. d.links[n] \subseteq Alive(doc)
      BY <3>1, <3>2, <1>2, <1>3 DEF Alive
    <3> QED BY <2>2, <3>3, <1>1, <1>2, SettledFields, ZenonT(60)
  <2> QED BY <2>1, <2>2
<1>5. Settled(doc).links = d.links
  BY <1>1, <1>4, SettledFields DEF Documents, Projects
<1>6. \A n \in Names : EntityAfter(d, Settled(doc), n) = d.ents[n]
  <2> TAKE n \in Names
  <2>1. PICK want : want = Settled(doc)
    OBVIOUS
  <2>2. want.ents[n] = IF d.ents[n] = None THEN None ELSE d.ents[n].provider
    BY <1>1, <1>2, <2>1, SettledFields
  <2>3. EntityAfter(d, want, n) = d.ents[n]
    BY <1>3, <2>2 DEF EntityAfter
  <2> QED BY <2>1, <2>3
<1>7. After(d, doc).ents = d.ents
  BY <1>6 DEF After, Projects
<1>8. After(d, doc).links = d.links
  BY <1>5 DEF After
<1> QED BY <1>7, <1>8 DEF Config

\* Nothing drawn: a file is left as it is, unless it is missing or untouched,
\* and no file goes.
LEMMA ReadKeepsFiles ==
  ASSUME NEW d \in Projects, NEW n \in Names
  PROVE  \/ After(d, Read(d)).file[n] = d.file[n]
         \/ After(d, Read(d)).file[n] # None /\ d.file[n] \in {None, "scaffold"}
<1> PICK want : want = Settled(Read(d))
  OBVIOUS
<1> PICK f : f = EntityFileAfter(d, want, n)
  OBVIOUS
<1>1. want \in Documents /\ want.ents = Read(d).ents /\ want.typed = {}
  BY ReadIsDocument, SettledFields DEF Read
<1>2. want.ents[n] = IF d.ents[n] = None THEN None ELSE d.ents[n].provider
  BY <1>1 DEF Read
<1>3. After(d, Read(d)).file[n] = SourceAfter(want, n, f)
  BY AfterFields
<1>4. "source" # None
  BY DesignAssumption DEF Texts
<1>5. CASE d.ents[n] = None
  <2>1. f = d.file[n]
    BY <1>1, <1>2, <1>5, EntityFileCases
  <2>2. n \notin Alive(want)
    BY <1>2, <1>5 DEF Alive
  <2> QED BY <1>3, <2>1, <2>2 DEF SourceAfter
<1>6. CASE d.ents[n] # None
  <2>1. d.ents[n] \in EntityBlocks
    BY <1>6 DEF Projects
  <2>2. want.ents[n] # None
    BY <2>1, <1>2, <1>6, DesignAssumption DEF EntityBlocks
  <2>3. f # None /\ (d.file[n] # None => f = d.file[n])
    BY <1>1, <1>6, <2>2, EntityFileCases
  <2> QED BY <1>1, <1>3, <1>4, <2>3 DEF SourceAfter, UntouchedScaffold
<1> QED BY <1>5, <1>6

\* Applying twice is applying once: the project asked for, read again, asks
\* for itself.
LEMMA AfterIsSettled ==
  ASSUME NEW d \in Projects, NEW doc \in Documents
  PROVE  After(After(d, doc), Read(After(d, doc))) = After(d, doc)
<1> PICK a : a = After(d, doc)
  OBVIOUS
<1> PICK b : b = After(a, Read(a))
  OBVIOUS
<1> PICK want : want = Settled(doc)
  OBVIOUS
<1>1. a \in Projects
  BY AfterIsProject
<1>2. b \in Projects /\ Read(a) \in Documents
  BY <1>1, AfterIsProject, ReadIsDocument
<1>3. Config(b) = Config(a)
  BY <1>1, AfterStands, ReadKeepsConfiguration
<1>4. b.ents = a.ents /\ b.links = a.links
  BY <1>3 DEF Config
<1>5. ASSUME NEW n \in Names
      PROVE  b.file[n] = a.file[n]
  <2>1. PICK again : again = Settled(Read(a))
    OBVIOUS
  <2>2. /\ again \in Documents /\ again.ents = Read(a).ents /\ again.typed = {}
        /\ again.links = b.links
    <3>1. again.links = b.links
      BY <2>1 DEF After
    <3>2. Read(a).typed = {}
      BY DEF Read
    <3> QED BY <1>2, <2>1, <3>1, <3>2, SettledFields
  <2>3. again.ents[n] = IF a.ents[n] = None THEN None ELSE a.ents[n].provider
    BY <2>2 DEF Read
  <2>4. want \in Documents /\ a.links = want.links
    <3>1. a.links = want.links
      BY DEF After
    <3> QED BY <3>1, SettledFields
  <2>5. a.ents[n] = None <=> want.ents[n] = None
    BY <2>4, AfterFields, EntityAfterType
  <2>6. b.file[n] = SourceAfter(again, n, EntityFileAfter(a, again, n))
    BY <2>1, AfterFields
  <2>7. CASE a.ents[n] = None
    <3>1. EntityFileAfter(a, again, n) = a.file[n]
      BY <1>1, <2>2, <2>3, <2>7, EntityFileCases
    <3>2. n \notin Alive(again)
      BY <2>3, <2>7 DEF Alive
    <3> QED BY <2>6, <3>1, <3>2 DEF SourceAfter
  <2>8. CASE a.ents[n] # None
    <3>1. a.ents[n] \in EntityBlocks
      BY <1>1, <2>8 DEF Projects
    <3>2. again.ents[n] # None
      BY <3>1, <2>3, <2>8, DesignAssumption DEF EntityBlocks
    <3>3. PICK f : f = EntityFileAfter(d, want, n)
      OBVIOUS
    <3>4. f # None /\ want.ents[n] # None
      BY <2>4, <2>5, <2>8, <3>3, EntityFileCases
    <3>5. a.file[n] = SourceAfter(want, n, f)
      BY <3>3, AfterFields
    <3>6. "typed" # None /\ "source" # None
      BY DesignAssumption DEF Texts
    <3>7. n \in Alive(want)
      BY <3>4 DEF Alive
    <3>8. a.file[n] # None
      BY <3>4, <3>5, <3>6 DEF SourceAfter
    <3>9. want.links[n] # None => a.file[n] # "scaffold"
      BY <3>5, <3>7 DEF SourceAfter, UntouchedScaffold
    <3>10. EntityFileAfter(a, again, n) = a.file[n]
      BY <1>1, <2>2, <2>8, <3>2, <3>8, EntityFileCases
    <3>11. again.links[n] = want.links[n]
      BY <1>4, <2>2, <2>4
    <3> QED BY <2>2, <2>6, <3>8, <3>9, <3>10, <3>11 DEF SourceAfter, UntouchedScaffold
  <2> QED BY <2>7, <2>8
<1>6. b.file = a.file
  BY <1>1, <1>2, <1>5 DEF Projects
<1>7. a = b
  BY <1>1, <1>2, <1>4, <1>6 DEF Projects
<1> QED BY <1>7

(***************************************************************************)
(* Paths: what a change set names, and what a write leaves.                *)
(***************************************************************************)
LEMMA ContentType ==
  ASSUME NEW d \in Projects, NEW p \in Paths
  PROVE  ContentOK(p, Content(d, p))
<1>1. CASE p = Yaml
  BY <1>1 DEF ContentOK, Content, Config, Projects, Configurations
<1>2. CASE p # Yaml
  BY <1>2 DEF ContentOK, Content, Projects, Paths
<1> QED BY <1>1, <1>2

\* A change set names exactly the paths that differ, with what they become.
LEMMA ChangeSet ==
  ASSUME NEW d, NEW a, NEW c, c = Changes(d, a)
  PROVE  /\ DOMAIN c \subseteq Paths
         /\ \A p \in Paths : p \in DOMAIN c <=> Content(a, p) # Content(d, p)
         /\ \A p \in DOMAIN c :
              /\ c[p].after = Content(a, p)
              /\ c[p].before = IF Content(a, p) = None /\ Content(d, p) # None
                               THEN "listed" ELSE Content(d, p)
BY DEF Changes

\* One write: the path holds what was written, and every other path is as it was.
LEMMA PutOne ==
  ASSUME NEW d \in Projects, NEW p \in Paths, NEW c, ContentOK(p, c)
  PROVE  /\ Put(d, p, c) \in Projects
         /\ Content(Put(d, p, c), p) = c
         /\ \A q \in Paths : q # p => Content(Put(d, p, c), q) = Content(d, q)
<1>1. CASE p = Yaml
  <2>1. c \in Configurations
    BY <1>1 DEF ContentOK
  <2>2. PICK e : e = Put(d, p, c)
    OBVIOUS
  <2>3. e \in Projects /\ e.ents = c.ents /\ e.links = c.links /\ e.file = d.file
    BY <1>1, <2>1, <2>2 DEF Put, Projects, Configurations
  <2>4. Config(e) = c
    BY <2>1, <2>3 DEF Config, Configurations
  <2>5. \A q \in Paths : q # p => Content(e, q) = Content(d, q)
    BY <1>1, <2>3 DEF Content
  <2> QED BY <1>1, <2>2, <2>3, <2>4, <2>5 DEF Content
<1>2. CASE p # Yaml
  <2>1. p \in Names /\ c \in Texts \cup {None}
    BY <1>2 DEF Paths, ContentOK
  <2>2. PICK e : e = Put(d, p, c)
    OBVIOUS
  <2>3. PICK F : F = [d.file EXCEPT ![p] = c]
    OBVIOUS
  <2>4. e = [d EXCEPT !.file = F]
    BY <1>2, <2>2, <2>3 DEF Put
  <2>5. F \in [Names -> Texts \cup {None}] /\ F[p] = c
        /\ \A q \in Names : q # p => F[q] = d.file[q]
    BY <2>1, <2>3 DEF Projects
  <2>6. e \in Projects /\ e.ents = d.ents /\ e.links = d.links /\ e.file = F
    BY <2>4, <2>5 DEF Projects
  <2>7. Config(e) = Config(d)
    BY <2>6 DEF Config
  <2> QED BY <1>2, <2>2, <2>5, <2>6, <2>7 DEF Content, Paths
<1> QED BY <1>1, <1>2

\* Two projects with the same content at every path are the same project.
LEMMA SameContentSameProject ==
  ASSUME NEW d \in Projects, NEW e \in Projects,
         \A p \in Paths : Content(d, p) = Content(e, p)
  PROVE  d = e
<1>1. Config(d) = Config(e)
  BY DEF Content, Paths
<1>2. d.ents = e.ents /\ d.links = e.links
  BY <1>1 DEF Config
<1>3. \A n \in Names : d.file[n] = e.file[n]
  BY DesignAssumption DEF Content, Paths
<1>4. d.file = e.file
  BY <1>3 DEF Projects
<1> QED BY <1>2, <1>4 DEF Projects

\* Putting back what is held: held paths are as held, the others as they are.
LEMMA RestoreContent ==
  ASSUME NEW d \in Projects, NEW held,
         \A p \in DOMAIN held : p \in Paths /\ ContentOK(p, held[p])
  PROVE  /\ Restore(d, held) \in Projects
         /\ \A p \in Paths : Content(Restore(d, held), p) =
              IF p \in DOMAIN held THEN held[p] ELSE Content(d, p)
<1>1. PICK e : e = Restore(d, held)
  OBVIOUS
<1>2. PICK F : F = [n \in Names |-> IF n \in DOMAIN held THEN held[n] ELSE d.file[n]]
  OBVIOUS
<1>3. F \in [Names -> Texts \cup {None}]
  <2> SUFFICES ASSUME NEW n \in Names
               PROVE  (IF n \in DOMAIN held THEN held[n] ELSE d.file[n]) \in Texts \cup {None}
    BY <1>2
  <2>1. n # Yaml
    BY DesignAssumption
  <2> QED BY <2>1 DEF ContentOK, Projects
<1>4. CASE Yaml \in DOMAIN held
  <2>1. held[Yaml] \in Configurations
    BY <1>4 DEF ContentOK
  <2>2. e = [ents |-> held[Yaml].ents, links |-> held[Yaml].links, file |-> F]
    BY <1>1, <1>2, <1>4 DEF Restore
  <2>3. e \in Projects /\ e.file = F
    BY <1>3, <2>1, <2>2 DEF Projects, Configurations
  <2>4. Config(e) = held[Yaml]
    BY <2>1, <2>2 DEF Config, Configurations
  <2> QED BY <1>1, <1>2, <1>4, <2>3, <2>4 DEF Content, Paths
<1>5. CASE Yaml \notin DOMAIN held
  <2>1. e = [ents |-> d.ents, links |-> d.links, file |-> F]
    BY <1>1, <1>2, <1>5 DEF Restore
  <2>2. e \in Projects /\ e.file = F /\ Config(e) = Config(d)
    BY <1>3, <2>1 DEF Projects, Config
  <2> QED BY <1>1, <1>2, <1>5, <2>2 DEF Content, Paths
<1> QED BY <1>4, <1>5

(***************************************************************************)
(* The parts of the type invariant.                                        *)
(***************************************************************************)
PageOK(P) ==
  /\ P = [t \in Tabs |-> [doc |-> P[t].doc, shown |-> P[t].shown]]
  /\ \A t \in Tabs : P[t].doc \in Documents

JobOK(J) ==
  /\ J = [tab |-> J.tab, doc |-> J.doc, shown |-> J.shown, plan |-> J.plan,
          left |-> J.left, held |-> J.held, base |-> J.base, hands |-> J.hands]
  /\ J # Idle => J.tab \in Tabs /\ J.doc \in Documents /\ J.base \in Projects
  /\ \A p \in DOMAIN J.held : p \in Paths /\ ContentOK(p, J.held[p])
  /\ J.hands \in Nat

CountersOK(u, dr, h, s) == u \in BOOLEAN /\ dr \in Nat /\ h \in Nat /\ s \in Nat

LEMMA TypeForm ==
  TypeOK <=> disk \in Projects /\ PageOK(page) /\ JobOK(job) /\ CountersOK(up, draws, hands, stops)
BY Zenon DEF TypeOK, PageOK, JobOK, CountersOK

LEMMA TypeFormNext ==
  TypeOK' <=> disk' \in Projects /\ PageOK(page') /\ JobOK(job')
              /\ CountersOK(up', draws', hands', stops')
BY Zenon DEF TypeOK, PageOK, JobOK, CountersOK

LEMMA PageReplaced ==
  ASSUME NEW P, PageOK(P), NEW t \in Tabs, NEW doc \in Documents, NEW shown
  PROVE  PageOK([P EXCEPT ![t] = [doc |-> doc, shown |-> shown]])
<1>1. PICK r : r = [doc |-> doc, shown |-> shown]
  OBVIOUS
<1>2. PICK Q : Q = [P EXCEPT ![t] = r]
  OBVIOUS
<1>3. DOMAIN P = Tabs
  BY DEF PageOK
<1>4. Q = [u \in Tabs |-> IF u = t THEN r ELSE P[u]]
  BY <1>2, <1>3
<1>5. ASSUME NEW u \in Tabs
      PROVE  Q[u].doc \in Documents /\ Q[u] = [doc |-> Q[u].doc, shown |-> Q[u].shown]
  <2>1. CASE u = t
    BY <1>1, <1>4, <2>1
  <2>2. CASE u # t
    BY <1>4, <2>2 DEF PageOK
  <2> QED BY <2>1, <2>2
<1>6. Q = [u \in Tabs |-> [doc |-> Q[u].doc, shown |-> Q[u].shown]]
  BY <1>4, <1>5
<1>7. PageOK(Q)
  BY <1>5, <1>6 DEF PageOK
<1> QED BY <1>1, <1>2, <1>7

LEMMA PageShown ==
  ASSUME NEW P, PageOK(P), NEW t \in Tabs, NEW shown
  PROVE  PageOK([P EXCEPT ![t].shown = shown])
<1>1. P[t] = [doc |-> P[t].doc, shown |-> P[t].shown] /\ P[t].doc \in Documents
  BY DEF PageOK
<1>2. PICK doc : doc = P[t].doc
  OBVIOUS
<1>3. [P[t] EXCEPT !.shown = shown] = [doc |-> doc, shown |-> shown]
  BY <1>1, <1>2
<1>4. [P EXCEPT ![t].shown = shown] = [P EXCEPT ![t] = [doc |-> doc, shown |-> shown]]
  BY <1>3
<1>5. PageOK([P EXCEPT ![t] = [doc |-> doc, shown |-> shown]])
  BY <1>1, <1>2, PageReplaced
<1> QED BY <1>4, <1>5

LEMMA FreshPages ==
  ASSUME NEW d \in Projects
  PROVE  PageOK([t \in Tabs |-> [doc |-> Read(d), shown |-> NoPlan]])
<1>1. PICK doc : doc = Read(d)
  OBVIOUS
<1>2. doc \in Documents
  BY <1>1, ReadIsDocument
<1>3. PICK P : P = [t \in Tabs |-> [doc |-> doc, shown |-> NoPlan]]
  OBVIOUS
<1>4. \A t \in Tabs : P[t].doc = doc /\ P[t].shown = NoPlan
  BY <1>3
<1>5. P = [t \in Tabs |-> [doc |-> P[t].doc, shown |-> P[t].shown]]
  BY <1>3, <1>4
<1>6. PageOK(P)
  BY <1>2, <1>4, <1>5 DEF PageOK
<1> QED BY <1>1, <1>3, <1>6

LEMMA IdleFields ==
  /\ JobOK(Idle) /\ DOMAIN Idle.held = {} /\ Idle.hands = 0
<1>1. PICK doc, base : doc = Read(Blank) /\ base = Blank
  OBVIOUS
<1>2. PICK J : J = [tab |-> None, doc |-> doc, shown |-> NoPlan, plan |-> Nothing,
                    left |-> {}, held |-> Nothing, base |-> base, hands |-> 0]
  OBVIOUS
<1>3. J = Idle
  BY <1>1, <1>2 DEF Idle
<1>4. DOMAIN J.held = {} /\ J.hands = 0
  BY <1>2 DEF Nothing
<1>5. J = [tab |-> J.tab, doc |-> J.doc, shown |-> J.shown, plan |-> J.plan,
          left |-> J.left, held |-> J.held, base |-> J.base, hands |-> J.hands]
  BY <1>2
<1>6. JobOK(J)
  BY <1>3, <1>4, <1>5 DEF JobOK
<1> QED BY <1>3, <1>4, <1>6

(***************************************************************************)
(* The other parts, over any project, job and count of hand edits.         *)
(***************************************************************************)
Stand(D, J) ==
  LinksStand(Config(D)) /\ (Yaml \in DOMAIN J.held => LinksStand(J.held[Yaml]))

Works(J, H) ==
  J # Idle =>
    /\ J.plan = Changes(J.base, After(J.base, J.doc))
    /\ J.shown = J.plan
    /\ Valid(ToConfig(J.base, Settled(J.doc)))
    /\ J.left \subseteq DOMAIN J.plan
    /\ DOMAIN J.held = DOMAIN J.plan \ J.left
    /\ J.hands =< H

DoneAt(D, J, p) ==
  IF p \in DOMAIN J.held
  THEN J.held[p] = Content(J.base, p) /\ Content(D, p) = J.plan[p].after
  ELSE Content(D, p) = Content(J.base, p)

DoneFor(D, J, H) == J # Idle /\ H = J.hands => \A p \in Paths : DoneAt(D, J, p)

InvFor(D, P, J, u, dr, H, s) ==
  /\ D \in Projects /\ PageOK(P) /\ JobOK(J) /\ CountersOK(u, dr, H, s)
  /\ Stand(D, J) /\ Works(J, H) /\ DoneFor(D, J, H)

LEMMA InvForm == ApplyInv <=> InvFor(disk, page, job, up, draws, hands, stops)
<1>1. ConfigurationsStand <=> Stand(disk, job)
  BY Zenon DEF ConfigurationsStand, Stand
<1>2. WorksThePlan <=> Works(job, hands)
  BY Zenon DEF WorksThePlan, Works
<1>3. DoneOrUntouched <=> DoneFor(disk, job, hands)
  BY Zenon DEF DoneOrUntouched, DoneFor, DoneAt, Quiet
<1> QED BY <1>1, <1>2, <1>3, TypeForm, Zenon DEF ApplyInv, InvFor

LEMMA InvFormNext ==
  ApplyInv' <=> InvFor(disk', page', job', up', draws', hands', stops')
<1>1. ConfigurationsStand' <=> Stand(disk', job')
  BY Zenon DEF ConfigurationsStand, Stand
<1>2. WorksThePlan' <=> Works(job', hands')
  BY Zenon DEF WorksThePlan, Works
<1>3. DoneOrUntouched' <=> DoneFor(disk', job', hands')
  BY Zenon DEF DoneOrUntouched, DoneFor, DoneAt, Quiet
<1> QED BY <1>1, <1>2, <1>3, TypeFormNext, Zenon DEF ApplyInv, InvFor

\* A step that touches the pages and the counters only.
LEMMA PageStep ==
  ASSUME ApplyInv, PageOK(page'), UNCHANGED <<disk, job, hands>>,
         up' \in BOOLEAN, draws' \in Nat, stops' \in Nat
  PROVE  ApplyInv'
<1>1. InvFor(disk, page, job, up, draws, hands, stops)
  BY InvForm
<1>2. InvFor(disk, page', job, up', draws', hands, stops')
  BY <1>1 DEF InvFor, CountersOK
<1>3. disk' = disk /\ job' = job /\ hands' = hands
  OBVIOUS
<1>4. InvFor(disk', page', job', up', draws', hands', stops')
  BY <1>2, <1>3
<1> QED BY <1>4, InvFormNext

\* A step after which no apply is under way.
LEMMA IdleStep ==
  ASSUME ApplyInv, PageOK(page'), job' = Idle, UNCHANGED <<draws, hands>>,
         disk' \in Projects, LinksStand(Config(disk')), up' \in BOOLEAN, stops' \in Nat
  PROVE  ApplyInv'
<1>1. CountersOK(up', draws', hands', stops')
  BY InvForm DEF InvFor, CountersOK
<1>2. JobOK(job') /\ DOMAIN job'.held = {}
  BY IdleFields
<1>3. Stand(disk', job') /\ Works(job', hands') /\ DoneFor(disk', job', hands')
  BY <1>2 DEF Stand, Works, DoneFor
<1>4. InvFor(disk', page', job', up', draws', hands', stops')
  BY <1>1, <1>2, <1>3 DEF InvFor
<1> QED BY <1>4, InvFormNext

LEMMA InvInit ==
  ASSUME Init
  PROVE  ApplyInv
<1>1. PICK ents \in [Names -> BOOLEAN], redis \in BOOLEAN :
        disk = [ents  |-> [n \in Names |-> IF ents[n]
                             THEN EntityBlock(n, IF redis THEN "redis" ELSE "")
                             ELSE None],
                links |-> [n \in Names |-> None],
                file  |-> [n \in Names |-> IF ents[n] THEN "scaffold" ELSE None]]
  BY DEF Init
<1>2. \A n \in Names : EntityBlock(n, IF redis THEN "redis" ELSE "") \in EntityBlocks
  BY DEF EntityBlock, EntityBlocks, Providers
<1>3. disk \in Projects
  BY <1>1, <1>2 DEF Projects, Texts
<1>4. disk.links = [n \in Names |-> None]
  BY <1>1
<1>5. LinksStand(Config(disk))
  BY <1>4 DEF LinksStand, Config
<1>6. PageOK(page)
  BY <1>3, FreshPages DEF Init
<1>7. job = Idle /\ CountersOK(up, draws, hands, stops)
  BY DEF Init, CountersOK
<1>8. JobOK(job) /\ DOMAIN job.held = {}
  BY <1>7, IdleFields
<1>9. Stand(disk, job) /\ Works(job, hands) /\ DoneFor(disk, job, hands)
  BY <1>5, <1>7, <1>8 DEF Stand, Works, DoneFor
<1>10. InvFor(disk, page, job, up, draws, hands, stops)
  BY <1>3, <1>6, <1>7, <1>8, <1>9 DEF InvFor
<1> QED BY <1>10, InvForm

(***************************************************************************)
(* The pages' steps.                                                       *)
(***************************************************************************)
LEMMA DrawStep ==
  ASSUME ApplyInv, NEW t \in Tabs, NEW doc \in Documents, Draw(t, doc)
  PROVE  ApplyInv'
<1>1. PageOK(page) /\ CountersOK(up, draws, hands, stops)
  BY InvForm DEF InvFor
<1>2. /\ draws' = draws + 1 /\ UNCHANGED <<disk, job, up, hands, stops>>
      /\ page' = [page EXCEPT ![t] = [doc |-> doc, shown |-> NoPlan]]
  BY DEF Draw
<1>3. PICK shown : shown = NoPlan
  OBVIOUS
<1>4. PageOK(page')
  BY <1>1, <1>2, <1>3, PageReplaced
<1>5. up' \in BOOLEAN /\ draws' \in Nat /\ stops' \in Nat
  BY <1>1, <1>2 DEF CountersOK
<1> QED BY <1>2, <1>4, <1>5, PageStep

\* Every stroke leaves a document.
LEMMA StrokeEntity ==
  ASSUME NEW doc \in Documents, NEW n \in Names, NEW v \in Providers \cup {None}
  PROVE  [doc EXCEPT !.ents[n] = v] \in Documents
BY DEF Documents

LEMMA StrokeLink ==
  ASSUME NEW doc \in Documents, NEW n \in Names, NEW v \in {None} \cup SUBSET Names
  PROVE  [doc EXCEPT !.links[n] = v] \in Documents
BY DEF Documents

LEMMA StrokeErase ==
  ASSUME NEW doc \in Documents, NEW n \in Names
  PROVE  [doc EXCEPT !.ents[n] = None, !.links[n] = None, !.typed = @ \ {n}] \in Documents
BY DEF Documents

LEMMA StrokeType ==
  ASSUME NEW doc \in Documents, NEW n \in Names
  PROVE  [doc EXCEPT !.qml[n] = "typed", !.typed = @ \cup {n}] \in Documents
BY DEF Documents, Texts

LEMMA StrokeStep ==
  ASSUME ApplyInv, NEW t \in Tabs, NEW n \in Names,
         \/ \E provider \in IF n \in Plain THEN {""} ELSE Providers :
               DrawEntity(t, n, provider) \/ DrawProvider(t, n, provider)
         \/ \E consumers \in SUBSET (Names \ {n}) : DrawLink(t, n, consumers)
         \/ EraseEntity(t, n) \/ EraseLink(t, n) \/ TypeQml(t, n)
  PROVE  ApplyInv'
<1>1. PICK doc : doc = page[t].doc
  OBVIOUS
<1>2. doc \in Documents
  BY <1>1, InvForm DEF InvFor, PageOK
<1>3. CASE \E provider \in IF n \in Plain THEN {""} ELSE Providers :
             DrawEntity(t, n, provider) \/ DrawProvider(t, n, provider)
  <2>1. PICK provider \in IF n \in Plain THEN {""} ELSE Providers :
          DrawEntity(t, n, provider) \/ DrawProvider(t, n, provider)
    BY <1>3
  <2>2. provider \in Providers
    BY DEF Providers
  <2>3. PICK new : new = [doc EXCEPT !.ents[n] = provider]
    OBVIOUS
  <2>4. Draw(t, new)
    BY <1>1, <2>1, <2>3 DEF DrawEntity, DrawProvider
  <2>5. new \in Documents
    BY <1>2, <2>2, <2>3, StrokeEntity
  <2> QED BY <2>4, <2>5, DrawStep
<1>4. CASE \E consumers \in SUBSET (Names \ {n}) : DrawLink(t, n, consumers)
  <2>1. PICK consumers \in SUBSET (Names \ {n}) : DrawLink(t, n, consumers)
    BY <1>4
  <2>2. consumers \in {None} \cup SUBSET Names
    OBVIOUS
  <2>3. PICK new : new = [doc EXCEPT !.links[n] = consumers]
    OBVIOUS
  <2>4. Draw(t, new)
    BY <1>1, <2>1, <2>3 DEF DrawLink
  <2>5. new \in Documents
    BY <1>2, <2>2, <2>3, StrokeLink
  <2> QED BY <2>4, <2>5, DrawStep
<1>5. CASE EraseEntity(t, n)
  <2>1. PICK new : new = [doc EXCEPT !.ents[n] = None, !.links[n] = None, !.typed = @ \ {n}]
    OBVIOUS
  <2>2. Draw(t, new)
    BY <1>1, <1>5, <2>1 DEF EraseEntity
  <2>3. new \in Documents
    BY <1>2, <2>1, StrokeErase
  <2> QED BY <2>2, <2>3, DrawStep
<1>6. CASE EraseLink(t, n)
  <2>1. PICK new : new = [doc EXCEPT !.links[n] = None]
    OBVIOUS
  <2>2. Draw(t, new)
    BY <1>1, <1>6, <2>1 DEF EraseLink
  <2>3. new \in Documents
    BY <1>2, <2>1, StrokeLink
  <2> QED BY <2>2, <2>3, DrawStep
<1>7. CASE TypeQml(t, n)
  <2>1. PICK new : new = [doc EXCEPT !.qml[n] = "typed", !.typed = @ \cup {n}]
    OBVIOUS
  <2>2. Draw(t, new)
    BY <1>1, <1>7, <2>1 DEF TypeQml
  <2>3. new \in Documents
    BY <1>2, <2>1, StrokeType
  <2> QED BY <2>2, <2>3, DrawStep
<1> QED BY <1>3, <1>4, <1>5, <1>6, <1>7

\* Opening, planning, a refused apply and starting the server again.
LEMMA RequestStep ==
  ASSUME ApplyInv,
         \/ \E t \in Tabs : OpenProject(t) \/ Plan(t) \/ ApplyRefused(t)
         \/ Start
  PROVE  ApplyInv'
<1>1. disk \in Projects /\ PageOK(page) /\ CountersOK(up, draws, hands, stops)
  BY InvForm DEF InvFor
<1>2. CASE \E t \in Tabs : OpenProject(t) \/ Plan(t) \/ ApplyRefused(t)
  <2>1. PICK t \in Tabs : OpenProject(t) \/ Plan(t) \/ ApplyRefused(t)
    BY <1>2
  <2>2. UNCHANGED <<disk, job, up, draws, hands, stops>>
    BY <2>1 DEF OpenProject, Plan, ApplyRefused
  <2>3. CASE OpenProject(t)
    <3>1. PICK doc, shown : doc = Read(disk) /\ shown = NoPlan
      OBVIOUS
    <3>2. page' = [page EXCEPT ![t] = [doc |-> doc, shown |-> shown]]
      BY <2>3, <3>1 DEF OpenProject
    <3>3. doc \in Documents
      BY <1>1, <3>1, ReadIsDocument
    <3>4. PageOK(page')
      BY <1>1, <3>2, <3>3, PageReplaced
    <3> QED BY <1>1, <2>2, <3>4, PageStep DEF CountersOK
  <2>4. CASE Plan(t) \/ ApplyRefused(t)
    <3>1. PICK shown : page' = [page EXCEPT ![t].shown = shown]
      BY <2>4 DEF Plan, ApplyRefused
    <3>2. PageOK(page')
      BY <1>1, <3>1, PageShown
    <3> QED BY <1>1, <2>2, <3>2, PageStep DEF CountersOK
  <2> QED BY <2>1, <2>3, <2>4
<1>3. CASE Start
  <2>1. /\ page' = [t \in Tabs |-> [doc |-> Read(disk), shown |-> NoPlan]]
        /\ up' = TRUE /\ UNCHANGED <<disk, job, draws, hands, stops>>
    BY <1>3 DEF Start
  <2>2. PageOK(page')
    BY <1>1, <2>1, FreshPages
  <2> QED BY <1>1, <2>1, <2>2, PageStep DEF CountersOK
<1> QED BY <1>2, <1>3

(***************************************************************************)
(* The apply.                                                              *)
(***************************************************************************)
\* The apply starts: nothing is done, nothing is held.
LEMMA ApplyStep ==
  ASSUME ApplyInv, NEW t \in Tabs, Apply(t)
  PROVE  ApplyInv'
<1>1. /\ disk \in Projects /\ PageOK(page) /\ CountersOK(up, draws, hands, stops)
      /\ LinksStand(Config(disk))
  BY InvForm DEF InvFor, Stand
<1>2. PICK doc : doc = page[t].doc
  OBVIOUS
<1>3. doc \in Documents
  BY <1>1, <1>2 DEF PageOK
<1>4. PICK plan : plan = Compute(disk, doc)
  OBVIOUS
<1>5. PICK c : c = plan.changes
  OBVIOUS
<1>6. /\ c = Changes(disk, After(disk, doc)) /\ plan.ok = Valid(ToConfig(disk, Settled(doc)))
  BY <1>4, <1>5 DEF Compute
<1>7. /\ UNCHANGED <<disk, page, up, draws, hands, stops>>
      /\ Accepted(plan, page[t].shown)
      /\ job' = [tab |-> t, doc |-> doc, shown |-> page[t].shown,
                 plan |-> c, left |-> DOMAIN c, held |-> Nothing,
                 base |-> disk, hands |-> hands]
  BY <1>2, <1>4, <1>5 DEF Apply
<1>8. page[t].shown = c /\ Valid(ToConfig(disk, Settled(doc)))
  BY <1>5, <1>6, <1>7 DEF Accepted, Digest
<1>9. PICK J : J = job'
  OBVIOUS
<1>10. /\ J = [tab |-> t, doc |-> doc, shown |-> c, plan |-> c, left |-> DOMAIN c,
               held |-> Nothing, base |-> disk, hands |-> hands]
  BY <1>7, <1>8, <1>9
<1>11. /\ J.tab = t /\ J.doc = doc /\ J.shown = c /\ J.plan = c /\ J.left = DOMAIN c
       /\ J.held = Nothing /\ J.base = disk /\ J.hands = hands
  BY <1>10
<1>12. DOMAIN J.held = {}
  BY <1>11 DEF Nothing
<1>13. JobOK(J)
  <2>1. J = [tab |-> J.tab, doc |-> J.doc, shown |-> J.shown, plan |-> J.plan,
             left |-> J.left, held |-> J.held, base |-> J.base, hands |-> J.hands]
    BY <1>10, <1>11
  <2>2. J.hands \in Nat
    BY <1>1, <1>11 DEF CountersOK
  <2> QED BY <1>1, <1>3, <1>11, <1>12, <2>1, <2>2 DEF JobOK
<1>14. Stand(disk, J)
  BY <1>1, <1>12 DEF Stand
<1>15. Works(J, hands)
  <2>1. J.hands =< hands
    BY <1>1, <1>11 DEF CountersOK
  <2>2. DOMAIN J.held = DOMAIN J.plan \ J.left
    BY <1>11, <1>12
  <2> QED BY <1>6, <1>8, <1>11, <2>1, <2>2 DEF Works
<1>16. DoneFor(disk, J, hands)
  BY <1>11, <1>12 DEF DoneFor, DoneAt
<1>17. InvFor(disk, page, J, up, draws, hands, stops)
  BY <1>1, <1>13, <1>14, <1>15, <1>16 DEF InvFor
<1>18. InvFor(disk', page', job', up', draws', hands', stops')
  BY <1>7, <1>9, <1>17
<1> QED BY <1>18, InvFormNext

\* What one write does, over any path the plan names.
WriteOf(p) ==
  /\ p \in job.left /\ p \in Paths
  /\ job' = [job EXCEPT !.left = @ \ {p}, !.held = Hold(@, p)]
  /\ disk' = Put(disk, p, job.plan[p].after)

LEMMA WriteFields ==
  ASSUME ApplyInv, job # Idle, NEW p, WriteOf(p)
  PROVE  /\ job' = [tab |-> job.tab, doc |-> job.doc, shown |-> job.shown, plan |-> job.plan,
                    left |-> job'.left, held |-> job'.held, base |-> job.base,
                    hands |-> job.hands]
         /\ job'.left = job.left \ {p}
         /\ p \notin DOMAIN job.held
         /\ DOMAIN job'.held = DOMAIN job.held \cup {p}
         /\ job'.held[p] = Content(disk, p)
         /\ \A q \in DOMAIN job.held : job'.held[q] = job.held[q]
<1>1. JobOK(job) /\ Works(job, hands)
  BY InvForm DEF InvFor
<1>2. job = [tab |-> job.tab, doc |-> job.doc, shown |-> job.shown, plan |-> job.plan,
             left |-> job.left, held |-> job.held, base |-> job.base, hands |-> job.hands]
  BY <1>1 DEF JobOK
<1>3. PICK h, l : h = Hold(job.held, p) /\ l = job.left \ {p}
  OBVIOUS
<1>4. job' = [job EXCEPT !.left = l, !.held = h]
  BY <1>3 DEF WriteOf
<1>5. job' = [tab |-> job.tab, doc |-> job.doc, shown |-> job.shown, plan |-> job.plan,
              left |-> l, held |-> h, base |-> job.base, hands |-> job.hands]
  BY <1>2, <1>4
<1>6. job'.left = l /\ job'.held = h
  BY <1>5
<1>7. p \notin DOMAIN job.held
  BY <1>1 DEF Works, WriteOf
<1>8. /\ DOMAIN h = DOMAIN job.held \cup {p}
      /\ h[p] = Content(disk, p)
      /\ \A q \in DOMAIN job.held : h[q] = job.held[q]
  BY <1>3, <1>7 DEF Hold
<1> QED BY <1>3, <1>5, <1>6, <1>7, <1>8

LEMMA WriteStep ==
  ASSUME ApplyInv, job # Idle, NEW p, WriteOf(p),
         UNCHANGED <<page, up, draws, hands, stops>>
  PROVE  ApplyInv'
<1>1. /\ disk \in Projects /\ PageOK(page) /\ JobOK(job) /\ CountersOK(up, draws, hands, stops)
      /\ Stand(disk, job) /\ Works(job, hands) /\ DoneFor(disk, job, hands)
  BY InvForm DEF InvFor
<1>2. PICK J, D : J = job' /\ D = disk'
  OBVIOUS
<1>3. /\ J = [tab |-> job.tab, doc |-> job.doc, shown |-> job.shown, plan |-> job.plan,
              left |-> J.left, held |-> J.held, base |-> job.base, hands |-> job.hands]
      /\ J.left = job.left \ {p} /\ p \notin DOMAIN job.held
      /\ DOMAIN J.held = DOMAIN job.held \cup {p}
      /\ J.held[p] = Content(disk, p)
      /\ \A q \in DOMAIN job.held : J.held[q] = job.held[q]
  BY <1>2, WriteFields
<1>4. /\ J.tab = job.tab /\ J.doc = job.doc /\ J.shown = job.shown /\ J.plan = job.plan
      /\ J.base = job.base /\ J.hands = job.hands
  BY <1>3
<1>5. p \in Paths /\ p \in job.left /\ D = Put(disk, p, job.plan[p].after)
  BY <1>2 DEF WriteOf
<1>6. PICK a : a = After(job.base, job.doc)
  OBVIOUS
<1>7. /\ job.tab \in Tabs /\ job.doc \in Documents /\ job.base \in Projects /\ job.hands \in Nat
      /\ \A q \in DOMAIN job.held : q \in Paths /\ ContentOK(q, job.held[q])
  BY <1>1 DEF JobOK
<1>8. /\ job.plan = Changes(job.base, a) /\ job.shown = job.plan
      /\ Valid(ToConfig(job.base, Settled(job.doc)))
      /\ job.left \subseteq DOMAIN job.plan
      /\ DOMAIN job.held = DOMAIN job.plan \ job.left
      /\ job.hands =< hands
  BY <1>1, <1>6 DEF Works
<1>9. a \in Projects /\ LinksStand(Config(a))
  BY <1>6, <1>7, AfterIsProject, AfterStands
<1>10. job.plan[p].after = Content(a, p)
  BY <1>5, <1>8, ChangeSet
<1>11. ContentOK(p, Content(a, p)) /\ ContentOK(p, Content(disk, p))
  BY <1>1, <1>5, <1>9, ContentType
<1>12. /\ D \in Projects /\ Content(D, p) = Content(a, p)
       /\ \A q \in Paths : q # p => Content(D, q) = Content(disk, q)
  BY <1>1, <1>5, <1>10, <1>11, PutOne
<1>13. JobOK(J)
  <2>1. \A q \in DOMAIN J.held : q \in Paths /\ ContentOK(q, J.held[q])
    BY <1>3, <1>5, <1>7, <1>11
  <2>2. J = [tab |-> J.tab, doc |-> J.doc, shown |-> J.shown, plan |-> J.plan,
             left |-> J.left, held |-> J.held, base |-> J.base, hands |-> J.hands]
    BY <1>3, <1>4
  <2> QED BY <1>4, <1>7, <2>1, <2>2 DEF JobOK
<1>14. Stand(D, J)
  <2>1. CASE p = Yaml
    <3>1. Config(D) = Config(a)
      BY <1>12, <2>1 DEF Content
    <3>2. J.held[Yaml] = Config(disk)
      BY <1>3, <2>1 DEF Content
    <3>3. LinksStand(Config(D)) /\ LinksStand(J.held[Yaml])
      BY <1>1, <1>9, <3>1, <3>2 DEF Stand
    <3> QED BY <3>3 DEF Stand
  <2>2. CASE p # Yaml
    <3>1. Config(D) = Config(disk)
      BY <1>12, <2>2 DEF Content, Paths
    <3>2. Yaml \in DOMAIN J.held => Yaml \in DOMAIN job.held /\ J.held[Yaml] = job.held[Yaml]
      BY <1>3, <2>2
    <3>3. LinksStand(Config(D))
      BY <1>1, <3>1 DEF Stand
    <3>4. Yaml \in DOMAIN J.held => LinksStand(J.held[Yaml])
      BY <1>1, <3>2 DEF Stand
    <3> QED BY <3>3, <3>4 DEF Stand
  <2> QED BY <2>1, <2>2
<1>15. Works(J, hands)
  <2>1. J.left \subseteq DOMAIN J.plan /\ DOMAIN J.held = DOMAIN J.plan \ J.left
    BY <1>3, <1>4, <1>5, <1>8
  <2>2. J.plan = Changes(J.base, After(J.base, J.doc)) /\ J.shown = J.plan
    BY <1>4, <1>6, <1>8
  <2>3. Valid(ToConfig(J.base, Settled(J.doc))) /\ J.hands =< hands
    BY <1>4, <1>8
  <2> QED BY <2>1, <2>2, <2>3 DEF Works
<1>16. DoneFor(D, J, hands)
  <2> SUFFICES ASSUME hands = J.hands, NEW q \in Paths
               PROVE  DoneAt(D, J, q)
    BY DEF DoneFor
  <2>1. DoneAt(disk, job, p) /\ DoneAt(disk, job, q)
    BY <1>1, <1>4, <1>5 DEF DoneFor
  <2>2. CASE q = p
    <3>1. Content(disk, p) = Content(job.base, p)
      BY <1>3, <2>1 DEF DoneAt
    <3>2. /\ p \in DOMAIN J.held /\ J.held[p] = Content(J.base, p)
          /\ Content(D, p) = J.plan[p].after
      BY <1>3, <1>4, <1>10, <1>12, <3>1
    <3> QED BY <2>2, <3>2 DEF DoneAt
  <2>3. CASE q # p
    <3>1. Content(D, q) = Content(disk, q)
      BY <1>12, <2>3
    <3>2. /\ q \in DOMAIN J.held <=> q \in DOMAIN job.held
          /\ q \in DOMAIN job.held => J.held[q] = job.held[q]
      BY <1>3, <2>3
    <3> QED BY <1>4, <2>1, <3>1, <3>2 DEF DoneAt
  <2> QED BY <2>2, <2>3
<1>17. InvFor(D, page, J, up, draws, hands, stops)
  BY <1>1, <1>12, <1>13, <1>14, <1>15, <1>16 DEF InvFor
<1>18. InvFor(disk', page', job', up', draws', hands', stops')
  BY <1>2, <1>17
<1> QED BY <1>18, InvFormNext

\* ExecuteStep is such a write.
LEMMA ExecuteWrites ==
  ASSUME ApplyInv, ExecuteStep
  PROVE  \E p \in job.left \ job'.left : WriteOf(p)
<1>1. PICK p \in job.left :
        /\ job' = [job EXCEPT !.left = @ \ {p}, !.held = Hold(@, p)]
        /\ disk' = Put(disk, p, job.plan[p].after)
  BY DEF ExecuteStep
<1>2. job # Idle /\ Works(job, hands)
  BY InvForm DEF InvFor, ExecuteStep
<1>3. p \in Paths
  BY <1>2, ChangeSet DEF Works
<1>4. WriteOf(p)
  BY <1>1, <1>3 DEF WriteOf
<1>5. p \notin job'.left
  BY <1>2, <1>4, WriteFields
<1> QED BY <1>4, <1>5

\* A failed write: what is held goes back.
LEMMA FailStep ==
  ASSUME ApplyInv, ExecuteFails
  PROVE  ApplyInv'
<1>1. /\ disk \in Projects /\ PageOK(page) /\ JobOK(job) /\ CountersOK(up, draws, hands, stops)
      /\ Stand(disk, job)
  BY InvForm DEF InvFor
<1>2. /\ job # Idle /\ disk' = Restore(disk, job.held)
      /\ page' = [page EXCEPT ![job.tab].shown = NoPlan]
      /\ job' = Idle /\ UNCHANGED <<up, draws, hands, stops>>
  BY DEF ExecuteFails
<1>3. /\ disk' \in Projects
      /\ \A p \in Paths : Content(disk', p) =
           IF p \in DOMAIN job.held THEN job.held[p] ELSE Content(disk, p)
  BY <1>1, <1>2, RestoreContent DEF JobOK
<1>4. Config(disk') = IF Yaml \in DOMAIN job.held THEN job.held[Yaml] ELSE Config(disk)
  BY <1>3 DEF Content, Paths
<1>5. LinksStand(Config(disk'))
  BY <1>1, <1>4 DEF Stand
<1>6. PICK t, shown : t = job.tab /\ shown = NoPlan
  OBVIOUS
<1>7. t \in Tabs
  BY <1>1, <1>2, <1>6 DEF JobOK
<1>8. PageOK(page')
  BY <1>1, <1>2, <1>6, <1>7, PageShown
<1>9. up' \in BOOLEAN /\ stops' \in Nat
  BY <1>1, <1>2 DEF CountersOK
<1> QED BY <1>2, <1>3, <1>5, <1>8, <1>9, IdleStep

\* The end of an apply, and Ctrl-C: the disk stays as it is.
LEMMA EndStep ==
  ASSUME ApplyInv, ApplyDone \/ Stop
  PROVE  ApplyInv'
<1>1. /\ disk \in Projects /\ PageOK(page) /\ JobOK(job) /\ CountersOK(up, draws, hands, stops)
      /\ LinksStand(Config(disk))
  BY InvForm DEF InvFor, Stand
<1>2. CASE ApplyDone
  <2>1. /\ job # Idle /\ job' = Idle /\ UNCHANGED <<disk, up, draws, hands, stops>>
        /\ page' = [page EXCEPT ![job.tab] = [doc |-> Read(disk), shown |-> NoPlan]]
    BY <1>2 DEF ApplyDone
  <2>2. PICK t, doc, shown : t = job.tab /\ doc = Read(disk) /\ shown = NoPlan
    OBVIOUS
  <2>3. t \in Tabs /\ doc \in Documents
    BY <1>1, <2>1, <2>2, ReadIsDocument DEF JobOK
  <2>4. PageOK(page')
    BY <1>1, <2>1, <2>2, <2>3, PageReplaced
  <2>5. disk' = disk /\ up' \in BOOLEAN /\ stops' \in Nat
    BY <1>1, <2>1 DEF CountersOK
  <2> QED BY <1>1, <2>1, <2>4, <2>5, IdleStep
<1>3. CASE Stop
  <2>1. up' = FALSE /\ job' = Idle /\ stops' = stops + 1 /\ UNCHANGED <<disk, page, draws, hands>>
    BY <1>3 DEF Stop
  <2>2. page' = page /\ disk' = disk
    BY <2>1
  <2>3. PageOK(page')
    BY <1>1, <2>2
  <2>4. up' \in BOOLEAN
    BY <2>1
  <2>5. stops \in Nat
    BY <1>1 DEF CountersOK
  <2>6. stops' \in Nat
    BY <2>1, <2>5
  <2> QED BY <1>1, <2>1, <2>2, <2>3, <2>4, <2>6, IdleStep
<1> QED BY <1>2, <1>3

\* A hand edit: the apply under way, if any, is no longer quiet.
LEMMA HandStep ==
  ASSUME ApplyInv, NEW p \in Names, HandEdit(p)
  PROVE  ApplyInv'
<1>1. /\ disk \in Projects /\ PageOK(page) /\ JobOK(job) /\ CountersOK(up, draws, hands, stops)
      /\ Stand(disk, job) /\ Works(job, hands)
  BY InvForm DEF InvFor
<1>2. hands' = hands + 1 /\ UNCHANGED <<page, job, up, draws, stops>>
  BY DEF HandEdit
<1>3. hands \in Nat /\ job.hands \in Nat
  BY <1>1 DEF CountersOK, JobOK
<1>4. disk' \in Projects /\ LinksStand(Config(disk'))
  <2>1. CASE disk' = [disk EXCEPT !.file[p] = "work"]
    <3>1. PICK F : F = [disk.file EXCEPT ![p] = "work"]
      OBVIOUS
    <3>2. disk' = [disk EXCEPT !.file = F]
      BY <2>1, <3>1
    <3>3. F \in [Names -> Texts \cup {None}]
      BY <1>1, <3>1 DEF Projects, Texts
    <3>4. disk' \in Projects /\ disk'.ents = disk.ents /\ disk'.links = disk.links
      BY <1>1, <3>2, <3>3 DEF Projects
    <3> QED BY <1>1, <3>4 DEF Stand, LinksStand, Config
  <2>2. CASE disk.ents[p] # None /\ disk' = [disk EXCEPT !.ents[p].settings = ~@]
    <3>1. disk.ents[p] \in EntityBlocks
      BY <1>1, <2>2 DEF Projects
    <3>2. PICK b : b = [disk.ents[p] EXCEPT !.settings = ~disk.ents[p].settings]
      OBVIOUS
    <3>3. b \in EntityBlocks
      BY <3>1, <3>2 DEF EntityBlocks
    <3>4. PICK E : E = [disk.ents EXCEPT ![p] = b]
      OBVIOUS
    <3>5. /\ E \in [Names -> EntityBlocks \cup {None}]
          /\ \A n \in Names : E[n] = None <=> disk.ents[n] = None
      BY <1>1, <2>2, <3>3, <3>4, DesignAssumption DEF Projects
    <3>6. disk' = [disk EXCEPT !.ents = E]
      BY <2>2, <3>2, <3>4
    <3>7. disk' \in Projects /\ disk'.ents = E /\ disk'.links = disk.links
      BY <1>1, <3>5, <3>6 DEF Projects
    <3>8. LinksStand(Config(disk'))
      <4>1. \A n \in Names : disk.links[n] # None => disk.links[n] \subseteq Names
        BY <1>1 DEF Projects
      <4>2. \A n \in Names : disk.links[n] # None => \A m \in disk.links[n] : disk.ents[m] # None
        BY <1>1 DEF Stand, LinksStand, Config
      <4> QED BY <3>5, <3>7, <4>1, <4>2 DEF LinksStand, Config
    <3> QED BY <3>7, <3>8
  <2> QED BY <2>1, <2>2 DEF HandEdit
<1>5. Stand(disk', job)
  BY <1>1, <1>4 DEF Stand
<1>6. Works(job, hands')
  BY <1>1, <1>2, <1>3 DEF Works
<1>7. DoneFor(disk', job, hands')
  BY <1>1, <1>2, <1>3 DEF DoneFor, Works
<1>8. CountersOK(up, draws, hands', stops)
  BY <1>1, <1>2 DEF CountersOK
<1>9. InvFor(disk', page, job, up, draws, hands', stops)
  BY <1>1, <1>4, <1>5, <1>6, <1>7, <1>8 DEF InvFor
<1>10. InvFor(disk', page', job', up', draws', hands', stops')
  BY <1>2, <1>9
<1> QED BY <1>10, InvFormNext

(***************************************************************************)
(* The theorems.                                                           *)
(***************************************************************************)
LEMMA InvNext ==
  ASSUME ApplyInv, [Next]_vars
  PROVE  ApplyInv'
<1>1. CASE \E t \in Tabs : OpenProject(t) \/ Plan(t) \/ Apply(t) \/ ApplyRefused(t)
  BY <1>1, RequestStep, ApplyStep
<1>2. CASE \E t \in Tabs, n \in Names :
             \/ \E provider \in IF n \in Plain THEN {""} ELSE Providers :
                   DrawEntity(t, n, provider) \/ DrawProvider(t, n, provider)
             \/ \E consumers \in SUBSET (Names \ {n}) : DrawLink(t, n, consumers)
             \/ EraseEntity(t, n) \/ EraseLink(t, n) \/ TypeQml(t, n)
  BY <1>2, StrokeStep
<1>3. CASE ExecuteStep
  <2>1. job # Idle /\ UNCHANGED <<page, up, draws, hands, stops>>
    BY <1>3 DEF ExecuteStep
  <2>2. PICK p : WriteOf(p)
    BY <1>3, ExecuteWrites
  <2> QED BY <2>1, <2>2, WriteStep
<1>4. CASE ExecuteFails
  BY <1>4, FailStep
<1>5. CASE ApplyDone \/ Stop
  BY <1>5, EndStep
<1>6. CASE Start
  BY <1>6, RequestStep
<1>7. CASE \E p \in Names : HandEdit(p)
  BY <1>7, HandStep
<1>8. CASE UNCHANGED vars
  <2>1. UNCHANGED <<disk, page, job, up, draws, hands, stops>>
    BY <1>8 DEF vars
  <2>2. PageOK(page) /\ CountersOK(up, draws, hands, stops)
    BY InvForm DEF InvFor
  <2> QED BY <2>1, <2>2, PageStep DEF CountersOK
<1> QED BY <1>1, <1>2, <1>3, <1>4, <1>5, <1>6, <1>7, <1>8 DEF Next

\* What an apply keeps to while it is under way (compute, execute, _hold,
\* _restore): its changes are those of a checked document over the project it
\* started from, what is done is held, and no configuration that is on disk or
\* could be put back names an entity that is gone.
THEOREM ApplyKeepsToThePlan == Spec => []ApplyInv
<1>1. Init => ApplyInv
  BY InvInit
<1>2. ApplyInv /\ [Next]_vars => ApplyInv'
  BY InvNext
<1> QED BY <1>1, <1>2, PTL DEF Spec

LEMMA NothingDrawnFromInv ==
  ASSUME ApplyInv
  PROVE  NothingDrawnNothingChanged
<1>1. disk \in Projects /\ LinksStand(Config(disk))
  BY InvForm DEF InvFor, Stand
<1>2. PICK a : a = After(disk, Read(disk))
  OBVIOUS
<1>3. PICK c : c = Changes(disk, a)
  OBVIOUS
<1>4. Compute(disk, Read(disk)).changes = c
  BY <1>2, <1>3 DEF Compute
<1>5. ASSUME NEW p \in DOMAIN c
      PROVE  /\ p # Yaml
             /\ c[p].after # None
             /\ c[p].before = None \/ UntouchedScaffold(c[p].before)
  <2>1. /\ p \in Paths /\ Content(a, p) # Content(disk, p)
        /\ c[p].after = Content(a, p)
        /\ c[p].before = IF Content(a, p) = None /\ Content(disk, p) # None
                         THEN "listed" ELSE Content(disk, p)
    BY <1>3, <1>5, ChangeSet
  <2>2. Config(a) = Config(disk)
    BY <1>1, <1>2, ReadKeepsConfiguration
  <2>3. p # Yaml
    BY <2>1, <2>2 DEF Content
  <2>4. p \in Names /\ Content(a, p) = a.file[p] /\ Content(disk, p) = disk.file[p]
    BY <2>1, <2>3 DEF Content, Paths
  <2>5. a.file[p] # None /\ disk.file[p] \in {None, "scaffold"}
    BY <1>1, <1>2, <2>1, <2>4, ReadKeepsFiles
  <2> QED BY <2>1, <2>3, <2>4, <2>5 DEF UntouchedScaffold
<1> QED BY <1>4, <1>5 DEF NothingDrawnNothingChanged

\* Applying what was read, with nothing drawn, leaves synqt.yaml alone, deletes
\* nothing and touches no file an author has worked on (compute over read), in
\* every reachable state of the server.
THEOREM NothingDrawnNothingWritten == Spec => []NothingDrawnNothingChanged
<1>1. ApplyInv => NothingDrawnNothingChanged
  BY NothingDrawnFromInv
<1> QED BY <1>1, ApplyKeepsToThePlan, PTL

\* A write in a quiet apply: the path was as the apply found it, and now holds
\* what the plan says.
LEMMA QuietWrite ==
  ASSUME ApplyInv, ExecuteStep, Quiet, NEW p \in job.left \ job'.left
  PROVE  /\ WriteOf(p) /\ p \in Paths /\ p \in DOMAIN job.plan
         /\ job.doc \in Documents /\ job.base \in Projects
         /\ job.shown = job.plan
         /\ job.plan = Changes(job.base, After(job.base, job.doc))
         /\ Content(disk, p) = Content(job.base, p)
         /\ Content(disk', p) = job.plan[p].after
<1>1. job # Idle
  BY DEF ExecuteStep
<1>2. /\ disk \in Projects /\ JobOK(job) /\ Works(job, hands) /\ DoneFor(disk, job, hands)
  BY InvForm DEF InvFor
<1>3. PICK r \in job.left \ job'.left : WriteOf(r)
  BY ExecuteWrites
<1>4. job'.left = job.left \ {r} /\ r \notin DOMAIN job.held
  BY <1>1, <1>3, WriteFields
<1>5. p = r
  BY <1>4
<1>6. p \in Paths /\ disk' = Put(disk, p, job.plan[p].after)
  BY <1>3, <1>5 DEF WriteOf
<1>7. job.doc \in Documents /\ job.base \in Projects
  BY <1>1, <1>2 DEF JobOK
<1>8. /\ job.shown = job.plan /\ p \in DOMAIN job.plan
      /\ job.plan = Changes(job.base, After(job.base, job.doc))
  BY <1>1, <1>2 DEF Works
<1>9. DoneAt(disk, job, p)
  BY <1>1, <1>2, <1>6 DEF DoneFor, Quiet
<1>10. Content(disk, p) = Content(job.base, p)
  BY <1>4, <1>5, <1>9 DEF DoneAt
<1>11. PICK a : a = After(job.base, job.doc)
  OBVIOUS
<1>12. job.plan[p].after = Content(a, p)
  BY <1>8, <1>11, ChangeSet
<1>13. ContentOK(p, Content(a, p))
  BY <1>6, <1>7, <1>11, AfterIsProject, ContentType
<1>14. Content(disk', p) = job.plan[p].after
  BY <1>2, <1>6, <1>12, <1>13, PutOne
<1> QED BY <1>3, <1>5, <1>6, <1>7, <1>8, <1>10, <1>14

\* A quiet apply that is done: the disk is the project the document asked for.
LEMMA QuietDone ==
  ASSUME ApplyInv, ApplyDone, Quiet
  PROVE  /\ job.doc \in Documents /\ job.base \in Projects
         /\ job.shown = job.plan
         /\ \A p \in DOMAIN job.plan : Content(disk, p) = job.plan[p].after
         /\ disk = After(job.base, job.doc)
         /\ Valid(ToConfig(job.base, Settled(job.doc)))
<1>1. job # Idle /\ job.left = {}
  BY DEF ApplyDone
<1>2. /\ disk \in Projects /\ JobOK(job) /\ Works(job, hands) /\ DoneFor(disk, job, hands)
  BY InvForm DEF InvFor
<1>3. job.doc \in Documents /\ job.base \in Projects
  BY <1>1, <1>2 DEF JobOK
<1>4. PICK a : a = After(job.base, job.doc)
  OBVIOUS
<1>5. /\ job.shown = job.plan /\ job.plan = Changes(job.base, a)
      /\ DOMAIN job.held = DOMAIN job.plan
      /\ Valid(ToConfig(job.base, Settled(job.doc)))
  BY <1>1, <1>2, <1>4 DEF Works
<1>6. \A p \in Paths : DoneAt(disk, job, p)
  BY <1>1, <1>2 DEF DoneFor, Quiet
<1>7. DOMAIN job.plan \subseteq Paths
  BY <1>5, ChangeSet
<1>8. \A p \in DOMAIN job.plan : Content(disk, p) = job.plan[p].after
  BY <1>5, <1>6, <1>7 DEF DoneAt
<1>9. ASSUME NEW p \in Paths
      PROVE  Content(disk, p) = Content(a, p)
  <2>1. CASE p \in DOMAIN job.plan
    BY <1>5, <1>8, <2>1, ChangeSet
  <2>2. CASE p \notin DOMAIN job.plan
    <3>1. Content(a, p) = Content(job.base, p)
      BY <1>5, <2>2, ChangeSet
    <3> QED BY <1>5, <1>6, <2>2, <3>1 DEF DoneAt
  <2> QED BY <2>1, <2>2
<1>10. a \in Projects
  BY <1>3, <1>4, AfterIsProject
<1>11. disk = a
  BY <1>2, <1>9, <1>10, SameContentSameProject
<1> QED BY <1>3, <1>4, <1>5, <1>8, <1>11

\* What is applied is what was shown (digest, execute): every write is one the
\* page was shown over the text it was shown to replace, and a finished apply
\* has every change shown on disk.
THEOREM ShownIsApplied == Spec => AppliedAsShown
<1>1. ASSUME ApplyInv, Quiet, ExecuteStep, NEW p \in job.left \ job'.left
      PROVE  /\ p \in DOMAIN job.shown /\ job.shown[p] = job.plan[p]
             /\ job.shown[p].after = None \/ job.shown[p].before = Content(disk, p)
             /\ Content(disk', p) = job.shown[p].after
  <2>1. /\ p \in Paths /\ p \in DOMAIN job.plan /\ job.shown = job.plan
        /\ job.plan = Changes(job.base, After(job.base, job.doc))
        /\ Content(disk, p) = Content(job.base, p)
        /\ Content(disk', p) = job.plan[p].after
    BY <1>1, QuietWrite
  <2>2. job.plan[p].after = None \/ job.plan[p].before = Content(job.base, p)
    BY <2>1, ChangeSet
  <2> QED BY <2>1, <2>2
<1>2. ASSUME ApplyInv, Quiet, ApplyDone, NEW p \in DOMAIN job.shown
      PROVE  Content(disk, p) = job.shown[p].after
  BY <1>2, QuietDone
<1>3. ApplyInv /\ Quiet =>
        /\ ExecuteStep =>
             \A p \in job.left \ job'.left :
                /\ p \in DOMAIN job.shown /\ job.shown[p] = job.plan[p]
                /\ job.shown[p].after = None \/ job.shown[p].before = Content(disk, p)
                /\ Content(disk', p) = job.shown[p].after
        /\ ApplyDone =>
             \A p \in DOMAIN job.shown : Content(disk, p) = job.shown[p].after
  BY <1>1, <1>2, Zenon
<1> QED BY <1>3, ApplyKeepsToThePlan, PTL DEF AppliedAsShown

\* A write that fails leaves the project exactly as it was before the apply
\* (execute, _restore), however many changes were in.
THEOREM FailurePutsBack == Spec => FailureRestores
<1>1. ASSUME ApplyInv, ExecuteFails, Quiet
      PROVE  disk' = job.base
  <2>1. job # Idle /\ disk' = Restore(disk, job.held)
    BY <1>1 DEF ExecuteFails
  <2>2. disk \in Projects /\ JobOK(job) /\ DoneFor(disk, job, hands)
    BY <1>1, InvForm DEF InvFor
  <2>3. /\ job.base \in Projects
        /\ \A p \in DOMAIN job.held : p \in Paths /\ ContentOK(p, job.held[p])
    BY <2>1, <2>2 DEF JobOK
  <2>4. /\ disk' \in Projects
        /\ \A p \in Paths : Content(disk', p) =
             IF p \in DOMAIN job.held THEN job.held[p] ELSE Content(disk, p)
    BY <2>1, <2>2, <2>3, RestoreContent
  <2>5. \A p \in Paths : DoneAt(disk, job, p)
    BY <1>1, <2>1, <2>2 DEF DoneFor, Quiet
  <2>6. \A p \in Paths : Content(disk', p) = Content(job.base, p)
    BY <2>4, <2>5 DEF DoneAt
  <2> QED BY <2>3, <2>4, <2>6, SameContentSameProject
<1>2. ApplyInv => (ExecuteFails /\ Quiet => disk' = job.base)
  BY <1>1
<1> QED BY <1>2, ApplyKeepsToThePlan, PTL DEF FailureRestores

\* A finished apply leaves a project that passes the rules its plan was
\* validated against and that a second apply would not change (to_config and
\* _patch compute the configuration in different code).
THEOREM AppliedIsSound == Spec => AppliedProjectIsSound
<1>1. ASSUME ApplyInv, ApplyDone, Quiet
      PROVE  Valid(Config(disk)) /\ DOMAIN Compute(disk, Read(disk)).changes = {}
  <2>1. /\ job.doc \in Documents /\ job.base \in Projects
        /\ disk = After(job.base, job.doc)
        /\ Valid(ToConfig(job.base, Settled(job.doc)))
    BY <1>1, QuietDone
  <2>2. Valid(Config(disk))
    BY <2>1, AfterIsValid
  <2>3. After(disk, Read(disk)) = disk
    BY <2>1, AfterIsSettled
  <2>4. Compute(disk, Read(disk)).changes = Changes(disk, disk)
    BY <2>3 DEF Compute
  <2>5. DOMAIN Changes(disk, disk) = {}
    BY ChangeSet
  <2> QED BY <2>2, <2>4, <2>5
<1>2. ApplyInv => (ApplyDone /\ Quiet =>
        Valid(Config(disk)) /\ DOMAIN Compute(disk, Read(disk)).changes = {})
  BY <1>1
<1> QED BY <1>2, ApplyKeepsToThePlan, PTL DEF AppliedProjectIsSound

\* A file the author has worked on is only replaced by text typed into the
\* page, or goes with its entity (_edited_qml, _write_source).
THEOREM AuthorsWorkStays == Spec => AuthorsWorkIsKept
<1>1. ASSUME ApplyInv, ExecuteStep, Quiet, NEW n \in Names \cap (job.left \ job'.left),
             job.base.ents[n] # None, disk.file[n] = "work"
      PROVE  disk'.file[n] \in {None, "typed"}
  <2>1. PICK a : a = After(job.base, job.doc)
    OBVIOUS
  <2>2. /\ job.doc \in Documents /\ job.base \in Projects /\ n \in DOMAIN job.plan /\ n \in Paths
        /\ job.plan = Changes(job.base, a)
        /\ Content(disk, n) = Content(job.base, n)
        /\ Content(disk', n) = job.plan[n].after
    BY <1>1, <2>1, QuietWrite
  <2>3. n # Yaml
    BY <1>1, DesignAssumption
  <2>4. /\ job.base.file[n] = "work"
        /\ Content(a, n) = a.file[n] /\ Content(disk', n) = disk'.file[n]
        /\ Content(job.base, n) = job.base.file[n]
    BY <1>1, <2>2, <2>3 DEF Content
  <2>5. job.plan[n].after = a.file[n] /\ a.file[n] # "work"
    <3>1. job.plan[n].after = Content(a, n) /\ Content(a, n) # Content(job.base, n)
      BY <2>2, ChangeSet
    <3> QED BY <2>4, <3>1
  <2>6. a.file[n] \in {None, "typed", "work"}
    BY <1>1, <2>1, <2>2, <2>4, FileAfterCases
  <2> QED BY <2>2, <2>4, <2>5, <2>6
<1>2. ApplyInv => (ExecuteStep /\ Quiet =>
        \A n \in Names \cap (job.left \ job'.left) :
          job.base.ents[n] # None /\ disk.file[n] = "work" => disk'.file[n] \in {None, "typed"})
  BY <1>1, Zenon
<1> QED BY <1>2, ApplyKeepsToThePlan, PTL DEF AuthorsWorkIsKept

================================================================================
