------------------------- MODULE ContractInference -------------------------
(***************************************************************************)
(* Reading contracts back from QML and holding them to it: the scan of both  *)
(* ends of every connect point (`synqt infer`, tools/synqt/synqt/infer.py),  *)
(* the `export:` block it writes, the contract that block is turned into     *)
(* (contractgen.py), and the two lints of `synqt check` that compare export, *)
(* owner and consumers (check.py `lint_exports`, `lint_contract_drift`).     *)
(*                                                                          *)
(* A QML file is the sequence of the statements the scan has a reader for;   *)
(* a statement carries the name the reader would cut out of it. What a value *)
(* says of its type is its `by`: "literal" and "declared" are read from the  *)
(* file, "expression" only a type checker can answer.                        *)
(***************************************************************************)
EXTENDS Integers, Sequences, FiniteSets, SequencesExt

CONSTANTS
  Entries,        \* the entities in the order of declaration
  Client,         \* the one that runs in the browser
  PointOwners,    \* the entities that own a connect point
  Consumers,      \* owner -> the entities on its consumers list
  FirstEdge,      \* the first web edge
  Statements,     \* entity -> the statements its author may write
  Lines,          \* owner -> the lines an author may write into its export
  MaxStatements,  \* bound on the statements in the project
  MaxLines        \* bound on the lines of an export written by hand

ASSUME ConsumersAssumption ==
  /\ Entries \in Seq(ToSet(Entries))
  /\ PointOwners \subseteq ToSet(Entries)
  /\ Consumers \in [PointOwners -> SUBSET ToSet(Entries)]

\* What the readers leave of a statement: the parameters and the roles are lists of a type
\* and a name.
ASSUME StatementsAssumption ==
  \A e \in ToSet(Entries) : \A s \in Statements[e] :
    /\ s.rows \in BOOLEAN
    /\ s.params \in Seq([type : STRING, name : STRING, by : STRING])
    /\ s.roles \in Seq([type : STRING, name : STRING])

VARIABLES
  files,   \* entity -> its QML
  export,  \* owner -> [there, lines], the export: block on its connect point
  wrote    \* the owners whose block `infer --write` wrote from the files as they stand

inferVars == <<files, export, wrote>>

Known(type) == type \notin {"", "var"}

-----------------------------------------------------------------------------
(* Two sightings of a member folded into one *)

Positional(name) == name \in {"arg1", "arg2"}

BetterKind(first, second) == IF first = "prop" THEN second ELSE first

\* Mutant: the last type seen wins.
BetterType_LastWins(first, second) == IF Known(second) THEN second ELSE first

\* Anything beats `var`, which beats nothing; what is known already stands.
BetterType(first, second) ==
  IF Known(first) THEN first ELSE IF second = "" THEN first ELSE second

BetterName(first, second) ==
  IF Positional(first) /\ ~Positional(second) THEN second ELSE first

BetterParam(first, second) ==
  [type |-> BetterType(first.type, second.type), name |-> BetterName(first.name, second.name)]

\* By position; of two lengths the longer list is kept whole.
BetterParams(first, second) ==
  IF Len(first) # Len(second)
  THEN IF Len(first) > Len(second) THEN first ELSE second
  ELSE [i \in DOMAIN first |-> BetterParam(first[i], second[i])]

\* By name: a delegate reads the roles it needs and not all of them. A row literal can name one
\* role twice; the first is the one that learns.
RoleFound(roles, r) ==
  LET named == {i \in DOMAIN roles : roles[i].name = r.name}
      first == CHOOSE i \in named : \A j \in named : i <= j
  IN IF named = {} THEN Append(roles, r)
     ELSE [roles EXCEPT ![first] = BetterParam(@, r)]

\* Mutant: the roles of the first sighting are all there is.
BetterRoles_First(first, second) == IF first = <<>> THEN second ELSE first

BetterRoles(first, second) ==
  LET upTo[n \in 0..Len(second)] ==
        IF n = 0 THEN first ELSE RoleFound(upTo[n - 1], second[n])
  IN upTo[Len(second)]

Merged(first, second) ==
  [kind   |-> BetterKind(first.kind, second.kind), name |-> first.name,
   type   |-> BetterType(first.type, second.type),
   params |-> BetterParams(first.params, second.params),
   roles  |-> BetterRoles(first.roles, second.roles)]

\* _settled: nothing about the member is left for a person to fill in.
Certain(m) ==
  CASE m.kind = "prop"  -> Known(m.type)
    [] m.kind = "model" -> m.roles # <<>> /\ \A r \in ToSet(m.roles) : r.type # "var"
    [] OTHER            -> m.type # "var" /\ \A p \in ToSet(m.params) : p.type # "var"

\* A contract has one member per name.
Record(members, m) ==
  IF \E i \in DOMAIN members : members[i].name = m.name
  THEN [i \in DOMAIN members |->
          IF members[i].name = m.name THEN Merged(members[i], m) ELSE members[i]]
  ELSE Append(members, m)

\* What one pass over a file shows, statement by statement: nothing, where the pass has no
\* reader for it.
Nothing == [kind |-> "none", name |-> "", type |-> "", params |-> <<>>, roles |-> <<>>]

Recorded(members, sightings) ==
  LET upTo[n \in 0..Len(sightings)] ==
        IF n = 0 THEN members
        ELSE IF sightings[n] = Nothing THEN upTo[n - 1]
        ELSE Record(upTo[n - 1], sightings[n])
  IN upTo[Len(sightings)]

NamesOf(members) == {members[i].name : i \in DOMAIN members}
MemberNamed(members, n) == members[CHOOSE i \in DOMAIN members : members[i].name = n]

-----------------------------------------------------------------------------
(* What one statement shows *)

OwnerForms == {"property", "signal", "function", "assignment", "write", "emit", "push", "raise"}
HandlerForms == {"connections", "attached"}
ConsumerForms == HandlerForms \cup {"read", "call", "view", "dynamic"}

\* The framework's own on every consumer facade.
FacadeMembers == {"ready"}

\* With no type checker behind the scan an expression says nothing.
TypeOf(type, by, typed) == IF by = "expression" /\ ~typed THEN "var" ELSE type

Params(s, typed) ==
  [i \in DOMAIN s.params |->
     [type |-> TypeOf(s.params[i].type, s.params[i].by, typed), name |-> s.params[i].name]]

Member(kind, s, type, params, roles) ==
  [kind |-> kind, name |-> s.name, type |-> type, params |-> params, roles |-> roles]

\* The owner's end. `<model>Rows` being bound or written publishes the model, its roles
\* unknown; a value written in a function body counts only as a literal.
OwnerSighting(s, typed) ==
  CASE s.form = "property" -> Member("prop", s, s.type, <<>>, <<>>)
    [] s.form \in {"assignment", "write"} /\ s.rows -> Member("model", s, "", <<>>, <<>>)
    [] s.form = "assignment" /\ ~s.rows -> Member("prop", s, TypeOf(s.type, s.by, typed), <<>>, <<>>)
    [] s.form = "write" /\ ~s.rows -> Member("prop", s, TypeOf(s.type, s.by, FALSE), <<>>, <<>>)
    [] s.form = "function"   -> Member("slot", s, s.type, Params(s, typed), <<>>)
    [] s.form = "push"       -> Member("model", s, "", <<>>, s.roles)
    [] s.form \in {"signal", "emit", "raise"} -> Member("signal", s, "", Params(s, typed), <<>>)

\* The consumer's end: a call is a slot, a `model:` binding a model, a handler a signal, and
\* everything else is a read.
ConsumerSighting(s, typed) ==
  CASE s.form \in HandlerForms -> Member("signal", s, "", Params(s, FALSE), <<>>)
    [] s.form = "call" -> Member("slot", s, s.type, Params(s, typed), <<>>)
    [] s.form = "view" -> Member("model", s, "", <<>>, s.roles)
    [] s.form \in {"read", "dynamic"} -> Member("prop", s, "var", <<>>, <<>>)

-----------------------------------------------------------------------------
(* The scan *)

OwnerSightings(o, typed) ==
  [i \in DOMAIN files[o] |->
     IF files[o][i].form \in OwnerForms \ {"raise"} THEN OwnerSighting(files[o][i], typed)
     ELSE Nothing]

FunctionsOf(members) == {m.name : m \in {x \in ToSet(members) : x.kind = "slot"}}

\* Raising a signal looks like calling a function of one's own.
RaisedSightings(o, functions, typed) ==
  [i \in DOMAIN files[o] |->
     IF files[o][i].form = "raise" /\ files[o][i].name \notin functions
     THEN OwnerSighting(files[o][i], typed) ELSE Nothing]

\* scan_owner: everything but the raised signals in the order of the file, then those whose
\* name did not turn out to be a function.
ScanOwner(o, typed) ==
  LET members == Recorded(<<>>, OwnerSightings(o, typed))
  IN Recorded(members, RaisedSightings(o, FunctionsOf(members), typed))

\* accessors_for: a client reaches the owner that lists it, or else the first edge.
Accessors(e) ==
  LET owners == {o \in PointOwners : e \in Consumers[o] /\ o # e}
  IN IF e # Client THEN owners ELSE IF owners = {} THEN {FirstEdge} ELSE owners

Crosses(e, s, o) ==
  /\ s.form \in ConsumerForms /\ s.name \notin FacadeMembers
  /\ s.target = o
  /\ IF s.form = "attached" THEN e \in Consumers[o] ELSE o \in Accessors(e)

Uses(e, o, forms, typed) ==
  [i \in DOMAIN files[e] |->
     IF files[e][i].form \in forms /\ Crosses(e, files[e][i], o)
     THEN ConsumerSighting(files[e][i], typed) ELSE Nothing]

\* scan_consumer: Connections blocks, then attached handlers, then the references. One that
\* computes the name shows no member.
ScanConsumer(e, o, typed) ==
  <<Uses(e, o, {"connections"}, typed), Uses(e, o, {"attached"}, typed),
    Uses(e, o, {"read", "call", "view"}, typed)>>

\* _scan: owners first and consumers after, in the order of declaration.
RecordedUses(members, uses) ==
  LET upTo[n \in 0..Len(Entries)] ==
        IF n = 0 THEN members
        ELSE LET use == uses[Entries[n]]
             IN Recorded(Recorded(Recorded(upTo[n - 1], use[1]), use[2]), use[3])
  IN upTo[Len(Entries)]

EdgeMembers(o, typed) ==
  RecordedUses(ScanOwner(o, typed), [e \in ToSet(Entries) |-> ScanConsumer(e, o, typed)])

UsesOfForm(o, forms) ==
  UNION {{s \in ToSet(files[e]) : s.form \in forms /\ Crosses(e, s, o)} : e \in ToSet(Entries)}

\* An owner some file reached by a computed name is one the scan did not see the whole of.
EdgeDynamic(o) == UsesOfForm(o, {"dynamic"}) # {}

OwnerShows(o, typed) ==
  LET members == Recorded(<<>>, OwnerSightings(o, typed))
  IN (ToSet(OwnerSightings(o, typed))
        \cup ToSet(RaisedSightings(o, FunctionsOf(members), typed))) \ {Nothing}

ConsumersShow(o, typed) ==
  {ConsumerSighting(s, typed) : s \in UsesOfForm(o, ConsumerForms \ {"dynamic"})}

-----------------------------------------------------------------------------
(* The export block and the contract made of it *)

\* Mutant: a member both ends together are sure of is written by its name alone.
RenderMember_Bare(m) ==
  [bare |-> Certain(m), kind |-> m.kind, name |-> m.name, params |-> m.params, type |-> m.type,
   roles |-> m.roles]

\* A line that spells a member, as _record_of and contractgen.rendered write one: a model has
\* a role and a property a type, if only a placeholder.
RenderMember(m) ==
  [bare |-> FALSE, kind |-> m.kind, name |-> m.name, params |-> m.params,
   type  |-> IF m.kind = "prop" /\ m.type = "" THEN "var" ELSE m.type,
   roles |-> IF m.kind = "model" /\ m.roles = <<>> THEN <<[type |-> "var", name |-> "role"]>>
             ELSE m.roles]

RenderExport(o, typed) ==
  LET members == EdgeMembers(o, typed)
  IN [i \in DOMAIN members |-> RenderMember(members[i])]

\* A name on its own is written out only from what the owner is certain of.
WrittenOut(line, owner) ==
  IF line.bare /\ line.name \in NamesOf(owner) /\ Certain(MemberNamed(owner, line.name))
  THEN RenderMember(MemberNamed(owner, line.name)) ELSE line

ContractSource(o) ==
  [i \in DOMAIN export[o].lines |-> WrittenOut(export[o].lines[i], ScanOwner(o, FALSE))]

\* _declared_members: none without a block, or with one that does not parse.
DeclaresMembers(o) == export[o].there /\ \A l \in ToSet(ContractSource(o)) : ~l.bare

-----------------------------------------------------------------------------
(* What `synqt check` says *)

Family(type) == CASE type \in {"int", "real", "double"} -> "number"
                  [] type \in {"string", "url", "date"} -> "text"
                  [] type = "bool"                      -> "truth"
                  [] OTHER                              -> "any"

Converts(from, to) == "any" \in {Family(from), Family(to)} \/ Family(from) = Family(to)

Error(rule, name) == [rule |-> rule, name |-> name]

\* Mutant: a member of another kind passes.
ExportLineErrors_AnyKind(line, owner) ==
  IF line.name \in NamesOf(owner) THEN {} ELSE {Error("unanswered", line.name)}

ExportLineErrors(line, owner) ==
  LET found == MemberNamed(owner, line.name)
  IN IF line.name \notin NamesOf(owner) THEN {Error("unanswered", line.name)}
     ELSE IF line.bare THEN (IF Certain(found) THEN {} ELSE {Error("untyped", line.name)})
     ELSE IF found.kind # line.kind THEN {Error("kind", line.name)}
     ELSE IF line.kind = "prop" /\ Certain(found) /\ ~Converts(found.type, line.type)
     THEN {Error("type", line.name)} ELSE {}

\* lint_exports: an owner whose Source shows no member is passed over.
ExportErrors(o) ==
  LET owner == ScanOwner(o, FALSE)
  IN IF ~export[o].there \/ owner = <<>> THEN {}
     ELSE UNION {ExportLineErrors(l, owner) : l \in ToSet(export[o].lines)}

\* One reach across the point, against the contract it crosses.
UseErrors(m, contract) ==
  LET match == MemberNamed(contract, m.name)
      both  == 1..(IF Len(m.params) < Len(match.params) THEN Len(m.params) ELSE Len(match.params))
  IN IF m.name \notin NamesOf(contract) THEN {Error("undeclared", m.name)}
     ELSE IF m.kind # "slot" THEN {}
     ELSE IF match.kind # "slot" THEN {Error("called", m.name)}
     ELSE {Error("argument", m.name) :
             i \in {j \in both : /\ m.params[j].type # "var"
                                 /\ ~Converts(m.params[j].type, match.params[j].type)}}

\* lint_contract_drift, the consumers' half: a point that declares nothing is not drifted from.
DriftErrors(o, typed) ==
  IF ~DeclaresMembers(o) THEN {}
  ELSE UNION {UseErrors(m, ContractSource(o)) : m \in ConsumersShow(o, typed)}

\* The declared members neither end mentions, unless a computed name hides who does.
Unused(o, typed) ==
  IF ~DeclaresMembers(o) \/ EdgeDynamic(o) THEN {}
  ELSE NamesOf(ContractSource(o)) \ NamesOf(EdgeMembers(o, typed))

\* check_project on this point; lint_contracts refuses a point with no block.
PassesCheck(o, typed) == export[o].there /\ ExportErrors(o) = {} /\ DriftErrors(o, typed) = {}

-----------------------------------------------------------------------------
(* The author, and `synqt infer --write` *)

InferInit ==
  /\ files = [e \in ToSet(Entries) |-> <<>>]
  /\ export = [o \in PointOwners |-> [there |-> FALSE, lines |-> <<>>]]
  /\ wrote = {}

Written == Len(FlattenSeq([i \in DOMAIN Entries |-> files[Entries[i]]]))

\* The code may move on under a block: a member the block has and the files lack is one a line
\* written by hand can name.
AuthorWrites(e, s) ==
  /\ Written < MaxStatements
  /\ files' = [files EXCEPT ![e] = Append(@, s)]
  /\ wrote' = {}
  /\ UNCHANGED export

AuthorExports(o, line) ==
  /\ Len(export[o].lines) < MaxLines /\ line.name \notin NamesOf(export[o].lines)
  /\ export' = [export EXCEPT ![o] = [there |-> TRUE, lines |-> Append(@.lines, line)]]
  /\ wrote' = wrote \ {o}
  /\ UNCHANGED files

\* write: every link with a member, or, where one of them says already what crosses it and
\* there is no --force, none of them.
InferWrite(typed, force) ==
  LET planned == {o \in PointOwners : EdgeMembers(o, typed) # <<>>}
  IN /\ planned # {}
     /\ force \/ \A o \in planned : ~export[o].there
     /\ export' = [o \in PointOwners |->
                     IF o \in planned THEN [there |-> TRUE, lines |-> RenderExport(o, typed)]
                     ELSE export[o]]
     /\ wrote' = wrote \cup planned
     /\ UNCHANGED files

InferNext ==
  \/ \E e \in ToSet(Entries) : \E s \in Statements[e] : AuthorWrites(e, s)
  \/ \E o \in PointOwners : \E l \in Lines[o] : AuthorExports(o, l)
  \/ \E typed, force \in BOOLEAN : InferWrite(typed, force)

InferSpec == InferInit /\ [][InferNext]_inferVars

-----------------------------------------------------------------------------
(* Properties *)

\* What the owner's own files say of a member stands, whatever the consumers do with it: the
\* type, the types of the parameters and of the roles, and a kind that is more than a
\* property (infer.py `collect`: "a guess can only fill in what it left open").
OwnersReadingStands ==
  \A o \in PointOwners, typed \in BOOLEAN : LET both == EdgeMembers(o, typed) IN
    \A m \in ToSet(ScanOwner(o, typed)) : LET e == MemberNamed(both, m.name) IN
       /\ Known(m.type) => e.type = m.type
       /\ m.kind # "prop" => e.kind = m.kind
       /\ Len(e.params) = Len(m.params) =>
            \A i \in DOMAIN m.params : Known(m.params[i].type) => e.params[i].type = m.params[i].type
       /\ \A r \in ToSet(m.roles) : Known(r.type) => r \in ToSet(e.roles)

\* Silence never overrules evidence: a type or a role any one sighting of a member knew is
\* known of the member both ends are folded into (infer.py `_merged`).
EvidenceIsKept ==
  \A o \in PointOwners, typed \in BOOLEAN : LET both == EdgeMembers(o, typed) IN
    \A s \in OwnerShows(o, typed) \cup ConsumersShow(o, typed) :
      LET e == MemberNamed(both, s.name) IN
         /\ Known(s.type) => Known(e.type)
         /\ \A r \in ToSet(s.roles) : \E q \in ToSet(e.roles) :
              q.name = r.name /\ (Known(r.type) => Known(q.type))

\* Two sightings that do not contradict each other: of one kind (a consumer's read is of any
\* kind), of as many parameters, and of types that convert.
Agree(s, t, read) ==
  /\ s.kind = t.kind \/ read
  /\ s.kind = t.kind => Len(s.params) = Len(t.params)
  /\ Converts(s.type, t.type)
  /\ \A i \in DOMAIN s.params \cap DOMAIN t.params : Converts(s.params[i].type, t.params[i].type)

\* Every name a consumer uses is one the owner implements, and no two sightings contradict.
BothEndsAgree(o) ==
  LET own  == OwnerShows(o, TRUE)
      used == ConsumersShow(o, TRUE)
  IN /\ \A s, t \in own : s.name = t.name => Agree(s, t, FALSE)
     /\ \A u, v \in used : u.name = v.name => Agree(u, v, "prop" \in {u.kind, v.kind})
     /\ \A u \in used : \E s \in own : s.name = u.name
     /\ \A u \in used : \A s \in own : s.name = u.name => Agree(u, s, u.kind = "prop")

\* What `infer --write` writes, `check` accepts: where the two ends of a link do not
\* contradict each other, the block just written has no error and no note against it, with or
\* without the type checker (infer.py `write`, contractgen.py, check.py; programming-model.md
\* "the same reading `synqt infer` prints").
InferredContractIsAccepted ==
  \A o \in wrote, typed \in BOOLEAN :
    BothEndsAgree(o) => PassesCheck(o, typed) /\ Unused(o, typed) = {}

\* A call of a checked project is answered: where the owner's Source shows a member at all, the
\* function a consumer calls across the point is in it (check.py `lint_exports`,
\* `lint_contract_drift`).
CheckedCallsAreAnswered ==
  \A o \in PointOwners, typed \in BOOLEAN :
    (PassesCheck(o, typed) /\ ScanOwner(o, FALSE) # <<>> /\ DeclaresMembers(o)) =>
      \A u \in ConsumersShow(o, typed) :
        u.kind = "slot" => \E s \in ToSet(files[o]) : s.form = "function" /\ s.name = u.name

\* The same of every Source that is there (docs/programming-model.md:79 "a member nothing in
\* the owner implements is an error").
EveryCheckedCallIsAnswered ==
  \A o \in PointOwners : (PassesCheck(o, FALSE) /\ DeclaresMembers(o)) =>
    \A u \in ConsumersShow(o, FALSE) :
      u.kind = "slot" => \E s \in ToSet(files[o]) : s.form = "function" /\ s.name = u.name

\* A property the owner declares is a property of the link (infer.py `collect`: "a declaration is
\* always the first thing recorded about a member and a guess can only fill in what it left
\* open").
DeclarationStands ==
  \A o \in PointOwners : \A s \in ToSet(files[o]) :
    (s.form = "property" /\ \A t \in ToSet(files[o]) : t.name = s.name => t.form = "property")
      => MemberNamed(EdgeMembers(o, FALSE), s.name).kind = "prop"

\* The notify signal of a property, which every consumer facade has (synqtc emit.py:1479).
ChangeOf(name) == name \o "Changed"

\* A use that is refused is of something the facade lacks (check.py `lint_contract_drift`: "the
\* replica it holds has no such member").
RefusedUsesAreBroken ==
  \A o \in PointOwners : \A e \in DriftErrors(o, FALSE) : e.rule = "undeclared" =>
    \A l \in ToSet(ContractSource(o)) :
      l.kind \in {"prop", "model"} => e.name # ChangeOf(l.name)
=============================================================================
