----------------------------- MODULE CodeTrace ------------------------------
(***************************************************************************)
(* specreg code-map: the inventory of a repository's code, its links to    *)
(* the specs of the working copy, and the files that keep both             *)
(* (cli/src/codeMetadata.ts, cli/src/traceCheck.ts).                       *)
(*                                                                         *)
(* The code is one TypeScript file.  A declaration has a fixed place       *)
(* (a slot), its kind and the declaration it is in; people change the      *)
(* rest.  A digest is the text it is made of.  How well a name matches a   *)
(* spec's text is a function of the name.                                  *)
(***************************************************************************)
EXTENDS Integers, Sequences, SequencesExt, FiniteSetsExt

CONSTANTS
  Slots,         \* numbers in the order of the file; 0 is the file itself
  Kind, Within,  \* of each slot its kind and the slot it is in
  Exported,      \* exported slots
  Paths, Names,  \* names of the file and of declarations
  Signatures, Bodies,
  Specs,         \* specs the working copy may have, each with its Anchors
  Anchors,
  Refs,          \* annotations people write: [spec, section], the section may be NoRef
  Confidence,    \* of each name and spec, what the matching tokens give, or 0
  OverrideFiles, \* contents of trace-overrides.json: sequences of [name, action, spec]
  Formats,       \* "v1", "v2"
  MaxEdits, MaxCommands  \* bounds

CONSTANTS Absent, NoRef, NoSlot

\* What something is in starts before it; ratios are rounded to four digits, which a file
\* of fewer declarations does not notice.
ASSUME TraceAssumption ==
  /\ Slots \subseteq Nat /\ IsFiniteSet(Slots) /\ Cardinality(Slots) < 10000
  /\ 0 \in Slots /\ Within[0] = NoSlot
  /\ \A s \in Slots : Within[s] # NoSlot => Within[s] \in Slots /\ Within[s] < s
  /\ Paths # {} /\ Names # {} /\ IsFiniteSet(Specs)
  /\ \A n \in Names \cup Paths, p \in Specs : Confidence[n][p] \in Nat
  /\ \A file \in OverrideFiles :
       /\ Len(file) \in Nat /\ DOMAIN file = 1..Len(file)
       /\ \A n \in DOMAIN file : file[n].action \in {"override", "waive", "reject"}

VARIABLES
  code,      \* the file: its path and, for each slot, a declaration or Absent
  local,     \* specs in the working copy
  overrides, \* trace-overrides.json
  disk,      \* code-map.json, code-trace.json, code-map.sqlite
  command,   \* what the running command has left to write
  edits, commands

traceVars == <<code, local, overrides, disk, command, edits, commands>>

File == 0
NoFile == [at |-> 0]
Idle == [step |-> "idle"]
Artifacts == {"map", "trace", "sqlite"}
Present(c) == {s \in Slots : c.decls[s] # Absent}
-----------------------------------------------------------------------------
\* The inventory.

NameOf(c, s) == IF s = File THEN c.path ELSE c.decls[s].name
SignatureOf(c, s) == IF s = File THEN c.path ELSE c.decls[s].signature

\* makeId hashes the id of what the entity is in.
IdFrom(c, s, parent) == <<Kind[s], c.path, parent, NameOf(c, s), SignatureOf(c, s)>>
Ids(c) ==
  LET id[s \in Slots] == IF Within[s] = NoSlot THEN IdFrom(c, s, NoSlot) ELSE IdFrom(c, s, id[Within[s]])
  IN [s \in Present(c) |-> id[s]]

\* The digest of an entity's text, annotations inside it included.
Hashes(c) ==
  LET hash[s \in Slots] ==
        [own |-> IF s = File THEN <<>> ELSE <<c.decls[s].name, c.decls[s].signature, c.decls[s].body>>,
         inside |-> {<<d, c.decls[d].ref, hash[d]>> : d \in {d \in Present(c) : Within[d] = s}}]
  IN [s \in Present(c) |-> hash[s]]

Inventory(c) == [ids |-> Ids(c), hashes |-> Hashes(c), names |-> [s \in Present(c) |-> NameOf(c, s)], code |-> c]

\* decodeCodeInventoryV2: ids are not stored but made again, the parent's without its own parent.
DecodedId(c, s) ==
  IdFrom(c, s, IF Within[s] = NoSlot THEN NoSlot ELSE IdFrom(c, Within[s], NoSlot))

Decoded(format, inventory) ==
  IF format = "v1" THEN inventory
  ELSE [inventory EXCEPT !.ids = [s \in DOMAIN @ |-> DecodedId(inventory.code, s)]]

\* aliasChanges: where an id that has gone went, by the digest or else by kind, path and
\* name; of several candidates the last.
Alias(previous, current, s) ==
  LET sameHash == {d \in DOMAIN current.ids : current.hashes[d] = previous.hashes[s]}
      sameName == {d \in DOMAIN current.ids : /\ Kind[d] = Kind[s] /\ current.names[d] = previous.names[s]
                                              /\ current.code.path = previous.code.path}
      to == IF sameHash # {} THEN {Max(sameHash)} ELSE IF sameName # {} THEN {Max(sameName)} ELSE {}
  IN {[slot |-> s, previous |-> previous.ids[s], current |-> current.ids[d]] : d \in to}

Gone(previous, current) ==
  {s \in DOMAIN previous.ids : \A d \in DOMAIN current.ids : current.ids[d] # previous.ids[s]}
Aliases(previous, current) ==
  IF previous = NoFile THEN {} ELSE UNION {Alias(previous, current, s) : s \in Gone(previous, current)}
-----------------------------------------------------------------------------
\* Links.

RefOf(c, s) == IF s = File THEN NoRef ELSE c.decls[s].ref

\* An annotation governs what the kind alone does not.
Governable(c, s) ==
  \/ RefOf(c, s) # NoRef
  \/ Kind[s] \in {"route", "command", "config", "migration", "schema", "index", "class"}
  \/ s \in Exported /\ Kind[s] \in {"function", "interface", "type", "method"}
Governables(c) == {s \in Present(c) : Governable(c, s)}

Explicit(c, s) == RefOf(c, s) # NoRef /\ RefOf(c, s).spec \in local

\* linkEntitiesToSpecs: an annotation that names a local spec replaces the search.
LinksOf(c, s) ==
  IF Explicit(c, s)
  THEN LET ref == RefOf(c, s)
           known == ref.section = NoRef \/ ref.section \in Anchors[ref.spec]
       IN {[id |-> Ids(c)[s], spec |-> ref.spec, section |-> IF known THEN ref.section ELSE NoRef,
            confidence |-> IF known THEN 100 ELSE 90]}
  ELSE {[id |-> Ids(c)[s], spec |-> p, section |-> NoRef, confidence |-> Confidence[NameOf(c, s)][p]]
        : p \in {p \in local : Confidence[NameOf(c, s)][p] > 0}}
RawLinks(c) == UNION {LinksOf(c, s) : s \in Governables(c)}

\* A map by entity keeps the last link of each, the one of the least confidence.
Weakest(links) == CHOOSE l \in links : \A k \in links : l.confidence <= k.confidence
LastLinks(links) == {Weakest({l \in links : l.id = i}) : i \in {l.id : l \in links}}

\* One entry of trace-overrides.json, on every entity of its name.
ApplyOverride(c, done, o) ==
  LET matched == {Ids(c)[s] : s \in {d \in Present(c) : NameOf(c, d) = o.name}}
      others == {l \in done.links : l.id \notin matched}
  IN CASE o.action = "override" ->
            [done EXCEPT !.links = others \cup {[id |-> i, spec |-> o.spec, section |-> NoRef, confidence |-> 100] : i \in matched}]
       [] o.action = "waive" -> [links |-> others, waived |-> done.waived \cup matched]
       [] o.action = "reject" -> [done EXCEPT !.links = others]

ApplyTraceOverrides(c) ==
  IF overrides = <<>> THEN [links |-> RawLinks(c), waived |-> {}]
  ELSE FoldLeft(LAMBDA done, o : ApplyOverride(c, done, o), [links |-> LastLinks(RawLinks(c)), waived |-> {}], overrides)

LinkedIds(result) == {l.id : l \in result.links}

WaivedToo(c, result) == {s \in Governables(c) : Ids(c)[s] \notin LinkedIds(result)}  \* mutant of Unlinked
Unlinked(c, result) ==
  {s \in Governables(c) : Ids(c)[s] \notin LinkedIds(result) \cup result.waived}

\* summarizeCoverage, summarizeDrift
Counted(c, result) == {s \in Governables(c) : Ids(c)[s] \notin result.waived}
Coverage(c, result) ==
  [governed |-> Cardinality(Counted(c, result)),
   linked |-> Cardinality({s \in Counted(c, result) : Ids(c)[s] \in LinkedIds(result)})]
Drift(coverage) ==
  LET unlinked == coverage.governed - coverage.linked
  IN IF unlinked = 0 THEN "none" ELSE IF 4 * unlinked < coverage.governed THEN "low"
     ELSE IF 2 * unlinked < coverage.governed THEN "medium" ELSE "high"

Trace(previous, c) ==
  LET result == ApplyTraceOverrides(c)
  IN [links |-> result.links, unlinked |-> Unlinked(c, result), waived |-> result.waived,
      coverage |-> Coverage(c, result), drift |-> Drift(Coverage(c, result)),
      aliases |-> Aliases(previous, Inventory(c)), previous |-> previous, code |-> c, specs |-> local]

\* encodeCodeTraceV2: specs and sections are kept once, in tables, and named by their place.
TableOf(values) == SetToSeq(values)
PlaceIn(table, v) == CHOOSE n \in DOMAIN table : table[n] = v
EncodedLinks(links) ==
  LET specTable == TableOf({l.spec : l \in links})
      sectionTable == TableOf({l.section : l \in links} \ {NoRef})
  IN [specs |-> specTable, sections |-> sectionTable,
      links |-> {<<l.id, PlaceIn(specTable, l.spec), l.confidence,
                   IF l.section = NoRef THEN 0 ELSE PlaceIn(sectionTable, l.section)>> : l \in links}]
DecodedLinks(stored) ==
  {[id |-> l[1], spec |-> stored.specs[l[2]], confidence |-> l[3],
    section |-> IF l[4] = 0 THEN NoRef ELSE stored.sections[l[4]]] : l \in stored.links}

\* What trace-check and comply read; the waivers are not in the file.
ReadTrace ==
  LET file == disk["trace"]
  IN IF file.format = "v1" THEN file.trace ELSE [file.trace EXCEPT !.links = DecodedLinks(@)]

\* evaluateTrace: at least min percent covered, at most max percent adrift, nothing of kinds unmapped.
Passes(trace, min, max, kinds) ==
  LET g == trace.coverage.governed
      unlinked == g - trace.coverage.linked
  IN /\ g > 0 => 100 * trace.coverage.linked >= min * g /\ 100 * unlinked <= max * g
     /\ \A s \in trace.unlinked : Kind[s] \notin kinds

\* specreg trace-check
RunTraceCheck(min, max, kinds) == disk["trace"] # NoFile /\ Passes(ReadTrace, min, max, kinds)
-----------------------------------------------------------------------------
\* Actions.

TraceInit ==
  /\ code = [path |-> CHOOSE p \in Paths : TRUE,
             decls |-> [s \in Slots |->
               IF s = File THEN File
               ELSE [name |-> CHOOSE n \in Names : TRUE, signature |-> CHOOSE g \in Signatures : TRUE,
                     body |-> CHOOSE b \in Bodies : TRUE, ref |-> NoRef]]]
  /\ local = Specs
  /\ overrides \in OverrideFiles
  /\ disk = [a \in Artifacts |-> NoFile]
  /\ command = Idle
  /\ edits = 0 /\ commands = 0

\* People change the code, the specs and the overrides, also while the command runs.
Editing == edits < MaxEdits /\ edits' = edits + 1 /\ UNCHANGED <<disk, command, commands>>

\* A declaration is added, or changed in one respect.
Declare(s, decl) ==
  /\ Editing
  /\ code.decls[Within[s]] # Absent
  /\ code.decls[s] # Absent => Cardinality({k \in DOMAIN decl : decl[k] # code.decls[s][k]}) = 1
  /\ code' = [code EXCEPT !.decls[s] = decl]
  /\ UNCHANGED <<local, overrides>>
RemoveDeclaration(s) ==
  /\ Editing
  /\ s \in Present(code) /\ \A d \in Present(code) : Within[d] # s
  /\ code' = [code EXCEPT !.decls[s] = Absent]
  /\ UNCHANGED <<local, overrides>>
MoveFile(path) == Editing /\ path # code.path /\ code' = [code EXCEPT !.path = path] /\ UNCHANGED <<local, overrides>>
SetSpecs(some) == Editing /\ some # local /\ local' = some /\ UNCHANGED <<code, overrides>>

\* writeCodeInventory: nothing is replaced unless forced; the map is written first.
StartCodeMap(force, format) ==
  /\ command = Idle /\ commands < MaxCommands
  /\ commands' = commands + 1
  /\ IF ~force /\ (disk["map"] # NoFile \/ disk["trace"] # NoFile) THEN UNCHANGED command
     ELSE LET previous == IF disk["map"] = NoFile THEN NoFile ELSE Decoded(disk["map"].format, disk["map"].inventory)
          IN command' = [step |-> "map", format |-> format, inventory |-> Inventory(code), trace |-> Trace(previous, code)]
  /\ UNCHANGED <<code, local, overrides, disk, edits>>

Writing(artifact, content, next) ==
  /\ command.step = artifact
  /\ disk' = [disk EXCEPT ![artifact] = content]
  /\ command' = next
  /\ UNCHANGED <<code, local, overrides, edits, commands>>

WriteMap == Writing("map", [format |-> command.format, inventory |-> command.inventory, at |-> commands],
                    [command EXCEPT !.step = "trace"])
WriteTrace ==
  Writing("trace",
          [format |-> command.format, at |-> commands,
           trace |-> IF command.format = "v1" THEN command.trace ELSE [command.trace EXCEPT !.links = EncodedLinks(@)]],
          [command EXCEPT !.step = "sqlite"])

\* writeCodeMapSqlite: one transaction, a row for each entity; whatever goes wrong is logged.
WriteSqlite == Writing("sqlite", [links |-> LastLinks(command.trace.links), at |-> commands], Idle)

\* The command dies, or the database cannot be written.
Stop == command # Idle /\ command' = Idle /\ UNCHANGED <<code, local, overrides, disk, edits, commands>>

TraceNext ==
  \/ \E s \in Slots \ {File} :
       \/ \E name \in Names, signature \in Signatures, body \in Bodies, ref \in Refs \cup {NoRef} :
            Declare(s, [name |-> name, signature |-> signature, body |-> body, ref |-> ref])
       \/ RemoveDeclaration(s)
  \/ \E path \in Paths : MoveFile(path)
  \/ \E some \in SUBSET Specs : SetSpecs(some)
  \/ \E force \in BOOLEAN, format \in Formats : StartCodeMap(force, format)
  \/ WriteMap \/ WriteTrace \/ WriteSqlite \/ Stop

TraceSpec == TraceInit /\ [][TraceNext]_traceVars
-----------------------------------------------------------------------------
Depth(s) == IF Within[s] = NoSlot THEN 0 ELSE IF Within[s] = File THEN 1 ELSE 2

\* What a trace counts is what it lists, it fails a strict check exactly when it lists
\* something, and a waived entity is neither linked by the matcher nor held against anybody.
CountsAreListed(trace) ==
  /\ trace.coverage.linked + Cardinality(trace.unlinked) = trace.coverage.governed
  /\ trace.drift = "none" <=> trace.unlinked = {}
  /\ RunTraceCheck(100, 0, {Kind[s] : s \in Slots}) <=> trace.unlinked = {}

\* An alias leads from an id that has gone to one that exists, and no declaration of the
\* file itself that stayed as it was is said to have moved, although the map stores no ids.
AliasesNameMovedCode(trace) ==
  \A a \in trace.aliases :
    /\ a.previous \notin {Ids(trace.code)[s] : s \in Present(trace.code)}
    /\ a.current \in {Ids(trace.code)[s] : s \in Present(trace.code)}
    /\ Depth(a.slot) <= 1 => a.previous = Ids(trace.previous.code)[a.slot]

\* An annotation that names a spec of the working copy is the entity's only link, whatever
\* the matcher would find and whatever overrides other entities have, unless another
\* declaration has its id, which tells only kind, place, name and signature.
AnnotationsWin(trace) ==
  \A s \in Governables(trace.code) :
    LET ref == RefOf(trace.code, s)
        mine == {l \in trace.links : l.id = Ids(trace.code)[s]}
        alone == \A d \in Governables(trace.code) : Ids(trace.code)[d] = Ids(trace.code)[s] => d = s
    IN ref # NoRef /\ ref.spec \in trace.specs /\ alone /\ (\A k \in DOMAIN overrides : overrides[k].name # NameOf(trace.code, s))
         => /\ {l.spec : l \in mine} = {ref.spec}
            /\ \A l \in mine : l.confidence >= 90 /\ (l.confidence = 100 <=> l.section = ref.section)

\* Every trace on disk is sound in these ways, and the three files are never newer than
\* the one written before them: a command that dies leaves an old trace beside a new map,
\* never a trace of code the map has not seen.
TracesAreSound ==
  /\ disk["sqlite"].at <= disk["trace"].at /\ disk["trace"].at <= disk["map"].at
  /\ disk["trace"] # NoFile =>
       LET trace == ReadTrace
       IN CountsAreListed(trace) /\ AliasesNameMovedCode(trace) /\ AnnotationsWin(trace)
=============================================================================
