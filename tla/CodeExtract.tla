---------------------------- MODULE CodeExtract -----------------------------
(***************************************************************************)
(* How the code map reads one file: the extractors of cli/src/             *)
(* codeMetadata.ts for TypeScript and Python, which go through the file    *)
(* with a stack of open classes, and for SQL and configuration, and the    *)
(* attachment of @spec annotations to what was found.                      *)
(*                                                                         *)
(* A line is what starts on it and how deep it is; TypeScript is read by   *)
(* its syntax tree, Python by its indentation.                             *)
(***************************************************************************)
EXTENDS Integers, Sequences, SequencesExt, FiniteSetsExt

CONSTANTS
  Languages,    \* subset of {"TypeScript", "Python", "SQL", "JSON"}
  Depths,       \* depths of lines
  MaxLines,     \* bound
  SqlFiles,     \* [migration, statements: sequences of [kind, fields, blank]]
  ConfigFiles   \* [package, valid, scripts]

ASSUME ExtractAssumption ==
  /\ Depths \subseteq Nat
  /\ \A file \in SqlFiles : file.statements \in Seq([kind : {"table", "index"}, fields : Nat, blank : BOOLEAN])

VARIABLES
  language,
  source,   \* lines read: [kind, depth, exported]
  classes,  \* lines of the classes that are open, outermost first
  pending_route, \* the line of a decorator whose function has not come yet, or 0
  entities  \* what was found: [kind, line, parent, exported]; parent 0 is the file

extractVars == <<language, source, classes, pending_route, entities>>

OfFile == 0
NoLine == 0
Entity(kind, line, parent, exported) == [kind |-> kind, line |-> line, parent |-> parent, exported |-> exported]

DepthOf(n) == source[n].depth
Innermost(stack) == IF stack = <<>> THEN OfFile ELSE Last(stack)

\* A line ends the innermost classes, up to one it is deeper than; a blank line ends nothing,
\* nor does a comment of TypeScript.
StillOpen(l) ==
  IF l.kind = "blank" \/ (l.kind = "annotation" /\ language = "TypeScript") THEN classes
  ELSE SubSeq(classes, 1, Max({0} \cup {k \in DOMAIN classes : DepthOf(classes[k]) < l.depth}))

\* The parent of a function or method and what that makes of it.  A method is exported
\* with its class in TypeScript, by its own name in Python.
Callable(l, n, stack) ==
  LET parent == Innermost(stack)
      exported == IF language = "TypeScript" /\ l.kind = "method" THEN parent # OfFile /\ source[parent].exported
                  ELSE l.exported
      kind == IF language = "Python" THEN (IF parent = OfFile THEN "function" ELSE "method") ELSE l.kind
  IN Entity(kind, n, IF kind = "method" THEN parent ELSE OfFile, exported)

\* A Python decorator is kept for the next function; another one replaces it.
RouteOf(n) == IF pending_route = NoLine THEN {} ELSE {Entity("route", pending_route, n, FALSE)}

\* extractPython, extractTypeScript: one line.
FoundOn(l, n, stack) ==
  CASE l.kind \in {"function", "method"} ->
         {Callable(l, n, stack)} \cup (IF language = "Python" THEN RouteOf(n) ELSE {})
    [] l.kind = "route" -> IF language = "Python" THEN {} ELSE {Entity("route", n, OfFile, FALSE)}
    [] l.kind \in {"class", "interface", "type", "import"} -> {Entity(l.kind, n, OfFile, l.exported)}
    [] OTHER -> {}

ReadLine(l) ==
  LET n == Len(source) + 1
      stack == StillOpen(l)
  IN /\ language \in {"TypeScript", "Python"}
     /\ n <= MaxLines
     /\ source' = Append(source, l)
     /\ classes' = IF l.kind = "class" THEN Append(stack, n) ELSE stack
     /\ entities' = entities \cup FoundOn(l, n, stack)
     /\ pending_route' = IF language # "Python" THEN NoLine
                         ELSE IF l.kind = "route" THEN n
                         ELSE IF l.kind = "function" THEN NoLine ELSE pending_route
     /\ UNCHANGED language

\* Lines a file may go on with: what is deeper than the line before is inside it.
Opens(l) == l.kind \in {"class", "function", "method"}
CodeBefore == {n \in DOMAIN source : source[n].kind \notin {"blank", "annotation"}}
MayFollow(l) ==
  IF CodeBefore = {} THEN l.depth = 0
  ELSE LET n == Max(CodeBefore) IN l.depth <= DepthOf(n) + (IF Opens(source[n]) THEN 1 ELSE 0)
LineKinds ==
  IF language = "Python" THEN {"class", "function", "route", "blank", "annotation"}
  ELSE {"class", "function", "method", "route", "annotation"}
-----------------------------------------------------------------------------
\* SQL: the statement of a table goes on to the later one of its semicolon and the next
\* blank line, so that columns of the tables in between are taken for its own, except the
\* first column of each.
Until(statements, n) ==
  LET blank == {k \in n..Len(statements) : statements[k].blank}
  IN IF blank = {} THEN n ELSE Min(blank)
FieldsOf(statements, n) ==
  {<<n, k>> : k \in 1..statements[n].fields}
    \cup UNION {{<<m, k>> : k \in 2..statements[m].fields} : m \in (n + 1)..Until(statements, n)}

ExtractSql(file) ==
  LET tables == {n \in DOMAIN file.statements : file.statements[n].kind = "table"}
  IN (IF file.migration THEN {Entity("migration", <<0, 0>>, OfFile, FALSE)} ELSE {})
       \cup {Entity("index", <<n, 0>>, OfFile, FALSE) : n \in DOMAIN file.statements \ tables}
       \cup {Entity("schema", <<n, 0>>, OfFile, FALSE) : n \in tables}
       \cup UNION {{Entity("field", f, n, FALSE) : f \in FieldsOf(file.statements, n)} : n \in tables}

\* A package.json that does not parse yields nothing.
ExtractConfig(file) ==
  IF ~file.package THEN {Entity("config", 1, OfFile, FALSE)}
  ELSE IF ~file.valid THEN {}
  ELSE {Entity("command", s, OfFile, FALSE) : s \in file.scripts} \cup {Entity("config", 1, OfFile, FALSE)}

ReadFile ==
  /\ source = <<>>
  /\ \/ language = "SQL" /\ \E file \in SqlFiles : source' = <<file>> /\ entities' = ExtractSql(file)
     \/ language = "JSON" /\ \E file \in ConfigFiles : source' = <<file>> /\ entities' = ExtractConfig(file)
  /\ UNCHANGED <<language, classes, pending_route>>
-----------------------------------------------------------------------------
\* annotateSpecReferences: the first declaration from the line of the annotation to three
\* lines below it; the last annotation of a declaration counts.
Reach == 3
Traceable == {e \in entities : e.kind \notin {"file", "import", "field"}}
Annotates(n, e) ==
  /\ e.line \in n..(n + Reach)
  /\ \A d \in Traceable : d.line \in n..(n + Reach) => e.line <= d.line
AnnotationsOf(e) == {n \in DOMAIN source : source[n].kind = "annotation" /\ Annotates(n, e)}
SpecRefOf(e) == IF AnnotationsOf(e) = {} THEN NoLine ELSE Max(AnnotationsOf(e))

ExtractInit ==
  /\ language \in Languages
  /\ source = <<>> /\ classes = <<>> /\ pending_route = NoLine /\ entities = {}

ExtractNext ==
  \/ \E kind \in LineKinds, depth \in Depths, exported \in BOOLEAN :
       LET l == [kind |-> kind, depth |-> depth, exported |-> exported]
       IN /\ language \in {"TypeScript", "Python"}
          /\ MayFollow(l) \/ kind \in {"blank", "annotation"}
          /\ exported => kind \in {"class", "function"} /\ (language = "Python" \/ depth = 0)
          /\ kind = "blank" => depth = 0
          /\ ReadLine(l)
  \/ ReadFile

ExtractSpec == ExtractInit /\ [][ExtractNext]_extractVars
-----------------------------------------------------------------------------
\* The class a line of code is in, by the blocks of the file.
Encloses(c, n) ==
  /\ source[c].kind = "class" /\ c < n
  /\ \A k \in (c + 1)..n : k \in CodeBefore => DepthOf(k) > DepthOf(c)
EnclosingClass(n) ==
  LET around == {c \in 1..(n - 1) : Encloses(c, n)} IN IF around = {} THEN OfFile ELSE Max(around)

\* In Python an annotation, or any other comment, that is written further left than the
\* class it stands in ends that class for the extractor.
Outdented(n) ==
  language = "Python" /\ \E k \in 1..(n - 1), c \in 1..(n - 1) :
     /\ source[k].kind = "annotation" /\ c < k /\ Encloses(c, n) /\ DepthOf(k) <= DepthOf(c)
MethodsAreMethods ==
  \A e \in entities : e.kind \in {"function", "method"} /\ language = "Python" => (e.kind = "method" <=> EnclosingClass(e.line) # OfFile)

\* Every method belongs to the class whose block it is in, whatever was opened and closed
\* before, and is as exported as that class; every route of Python has a handler declared
\* after it; an annotation above a declaration, with nothing between, is that of the
\* declaration; a table has its own columns; and all of it exactly once.
FilesAreRead ==
  /\ language \in {"TypeScript", "Python"} =>
       /\ \A e \in entities : e.kind = "method" /\ ~Outdented(e.line) =>
            /\ e.parent = EnclosingClass(e.line)
            /\ language = "TypeScript" /\ e.exported => source[e.parent].exported
       /\ \A e \in entities : e.kind = "function" /\ language = "Python" /\ ~Outdented(e.line) => EnclosingClass(e.line) = OfFile
       /\ \A e \in entities : e.kind = "route" /\ e.parent # OfFile =>
            \A k \in (e.line + 1)..(e.parent - 1) : source[k].kind \notin {"function", "route"}
       /\ \A n \in 2..Len(source), e \in Traceable :
            source[n - 1].kind = "annotation" /\ e.line = n => SpecRefOf(e) = n - 1
       /\ \A n \in DOMAIN source : Cardinality({e \in entities : e.line = n}) <= 1
  /\ language = "SQL" /\ source # <<>> =>
       \A n \in DOMAIN source[1].statements : source[1].statements[n].kind = "table" =>
         Cardinality({e \in entities : e.kind = "field" /\ e.parent = n}) >= source[1].statements[n].fields

\* A column is that of the table it is declared in.  It is not: see FieldsOf.
FieldsAreOfTheirTable == \A e \in entities : e.kind = "field" => e.line[1] = e.parent
=============================================================================
