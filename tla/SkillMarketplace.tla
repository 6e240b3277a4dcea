-------------------------- MODULE SkillMarketplace --------------------------
(***************************************************************************)
(* Untrusted skill material: sources, the scan of a GitHub repository, the *)
(* classification and the gates of candidates, and their conversion into   *)
(* disabled skills of AgentSkills (routes/skills.ts).                      *)
(*                                                                         *)
(* A scan checks its source, awaits GitHub file by file and then imports   *)
(* what it read without another await; everything else is one request.     *)
(***************************************************************************)
EXTENDS AgentSkills

CONSTANTS
  Sources,        \* rows of skill_sources
  Scans,          \* concurrent scan requests
  Paths,          \* file paths inside a source, or None for manual material
  Contents,       \* texts of candidates
  Words,          \* of each text, the word lists of classifyCandidate it matches
  Signals,        \* of each text, the review gates it raises by itself
  Injects,        \* texts that match the prompt-injection pattern
  MaxFiles,       \* bound on the files a scan imports
  SourceRows,     \* the settings that sources are given
  Submissions     \* license, type and state that submitted candidates are given

Types == {"agent_skill", "spec_seed", "project_type_template", "reference_only", "unsafe", "unknown"}
CandidateStates == {"candidate", "converted", "rejected", "archived"}
SourceRow == [status : {"active", "paused", "archived"}, trust : {"trusted", "unreviewed", "blocked"},
              github : BOOLEAN, licensed : BOOLEAN]
Gates == {"command_intent", "network_intent", "secrets", "token_budget"}

ASSUME SkillMarketplaceAssumption ==
  /\ Words \in [Contents -> SUBSET (Types \ {"unknown"})]
  /\ Signals \in [Contents -> SUBSET Gates]
  /\ SourceRows \subseteq SourceRow
  /\ Submissions \subseteq [licensed : BOOLEAN, type : Types, state : CandidateStates]
  /\ Injects \subseteq Contents /\ MaxFiles \in Nat /\ None \notin Sources \cup Paths
  /\ IsFiniteSet(Candidates)

VARIABLES
  sources,    \* table skill_sources
  candidates, \* table skill_candidates
  scans       \* scans awaiting GitHub, with the source row they hold

marketVars == <<sources, candidates, scans>>
vars == <<skillVars, marketVars>>

NoSource == [status |-> "none"]
NoCandidate == [state |-> "none"]
CandidateRow == [state : CandidateStates,
                 source : Sources \cup {None}, path : Paths \cup {None}, content : Contents,
                 licensed : BOOLEAN, type : Types, gate : {"pass", "review", "block"}]
NoScan == [source |-> None]

MarketTypeOK ==
  /\ TypeOK
  /\ sources \in [Sources -> SourceRow \cup {NoSource}]
  /\ candidates \in [Candidates -> CandidateRow \cup {NoCandidate}]
  /\ scans \in [Scans -> {NoScan} \cup [source : Sources, row : SourceRow]]

MarketInit ==
  /\ Init
  /\ sources = [s \in Sources |-> NoSource]
  /\ candidates = [c \in Candidates |-> NoCandidate]
  /\ scans = [n \in Scans |-> NoScan]

-----------------------------------------------------------------------------
(* classifyCandidate: the first word list that matches decides.            *)

Classified(content) ==
  LET lists == <<"unsafe", "project_type_template", "spec_seed", "agent_skill", "reference_only">>
      hits == {i \in 1..5 : lists[i] \in Words[content]}
  IN IF hits = {} THEN "unknown" ELSE lists[Min(hits)]

\* Mutant of GateStatus: the first copy is not counted.
GateStatusOffByOne(content, type, licensed, duplicates) ==
  IF content \in Injects \/ type = "unsafe" THEN "block"
  ELSE IF Signals[content] # {} \/ ~licensed \/ duplicates > 1 THEN "review"
  ELSE "pass"

\* evaluateCandidateGates: the gravest of the gates.
GateStatus(content, type, licensed, duplicates) ==
  IF content \in Injects \/ type = "unsafe" THEN "block"
  ELSE IF Signals[content] # {} \/ ~licensed \/ duplicates > 0 THEN "review"
  ELSE "pass"

Rows(cs) == {c \in Candidates : cs[c] # NoCandidate}
Copies(cs, content) == {c \in Rows(cs) : cs[c].content = content}

\* createSkillCandidateRecord on the table cs: a row of the same source, path and
\* content is returned instead of a second one.
Existing(cs, source, path, content) ==
  {c \in Copies(cs, content) : cs[c].source = source /\ cs[c].path = path}

WithCandidate(cs, source, path, content, licensed, type, state) ==
  IF Existing(cs, source, path, content) # {} THEN cs
  ELSE [cs EXCEPT ![CHOOSE c \in Candidates : cs[c] = NoCandidate] =
         [state |-> state, source |-> source, path |-> path, content |-> content,
          licensed |-> licensed, type |-> type,
          gate |-> GateStatus(content, type, licensed, Cardinality(Copies(cs, content)))]]

\* One file after the other: each finds the rows that those before it made.
Imported(source, licensed, files) ==
  LET table[n \in 0..Len(files)] ==
        IF n = 0 THEN candidates
        ELSE WithCandidate(table[n - 1], source, files[n].path, files[n].content,
                           licensed, Classified(files[n].content), "candidate")
  IN table[Len(files)]

-----------------------------------------------------------------------------
AddSource(s, row) ==
  /\ sources[s] = NoSource
  /\ sources' = [sources EXCEPT ![s] = row]
  /\ UNCHANGED <<skillVars, candidates, scans>>

\* A license, once recorded, can be replaced but not taken away.
EditSource(s, row) ==
  /\ sources[s] # NoSource
  /\ sources[s].licensed => row.licensed
  /\ sources' = [sources EXCEPT ![s] = row]
  /\ UNCHANGED <<skillVars, candidates, scans>>

StartScan(n, s) ==
  /\ scans[n] = NoScan
  /\ sources[s] # NoSource
  /\ sources[s].status = "active" /\ sources[s].trust # "blocked" /\ sources[s].github
  /\ scans' = [scans EXCEPT ![n] = [source |-> s, row |-> sources[s]]]
  /\ UNCHANGED <<skillVars, sources, candidates>>

FailScan(n) ==
  /\ scans[n] # NoScan
  /\ scans' = [scans EXCEPT ![n] = NoScan]
  /\ UNCHANGED <<skillVars, sources, candidates>>

\* The row read at the start gives the license, whatever became of the source.
FinishScan(n, files) ==
  /\ scans[n] # NoScan
  /\ Cardinality(Candidates \ Rows(candidates)) >= Len(files)
  /\ candidates' = Imported(scans[n].source, scans[n].row.licensed, files)
  /\ scans' = [scans EXCEPT ![n] = NoScan]
  /\ UNCHANGED <<skillVars, sources>>

\* POST /skills/candidates: the caller may name the type and the state.
Submit(source, path, content, form) ==
  /\ source # None => sources[source] # NoSource
  /\ Rows(candidates) # Candidates
  /\ Existing(candidates, source, path, content) = {}
  /\ LET license == form.licensed \/ (source # None /\ sources[source].licensed)
     IN candidates' = WithCandidate(candidates, source, path, content, license, form.type, form.state)
  /\ UNCHANGED <<skillVars, sources, scans>>

Regated(c, type) ==
  LET row == candidates[c] IN
  [row EXCEPT !.type = type,
     !.gate = GateStatus(row.content, type, row.licensed,
                         Cardinality(Copies(candidates, row.content) \ {c}))]

Classify(c) ==
  /\ candidates[c] # NoCandidate
  /\ candidates' = [candidates EXCEPT ![c] = Regated(c, Classified(candidates[c].content))]
  /\ UNCHANGED <<skillVars, sources, scans>>

EvaluateGates(c) ==
  /\ candidates[c] # NoCandidate
  /\ candidates' = [candidates EXCEPT ![c] = Regated(c, candidates[c].type)]
  /\ UNCHANGED <<skillVars, sources, scans>>

Convertible(c) ==
  /\ candidates[c] # NoCandidate /\ candidates[c].state # "converted"
  /\ candidates[c].type = "agent_skill" /\ candidates[c].gate # "block"

Convert(c, id, slug, body) ==
  /\ Convertible(c)
  /\ Insert(id, slug, "disabled", body, c)
  /\ candidates' = [candidates EXCEPT ![c].state = "converted"]
  /\ UNCHANGED <<reviews, proposals, assignments, links, local, sources, scans>>

-----------------------------------------------------------------------------
MarketNext ==
  \/ \E s \in Sources, row \in SourceRows : AddSource(s, row) \/ EditSource(s, row)
  \/ \E n \in Scans :
       \/ \E s \in Sources : StartScan(n, s)
       \/ FailScan(n)
       \/ \E files \in SeqOf([path : Paths, content : Contents], MaxFiles) : FinishScan(n, files)
  \/ \E source \in Sources \cup {None}, path \in Paths \cup {None}, content \in Contents,
       form \in Submissions : Submit(source, path, content, form)
  \/ \E c \in Candidates :
       \/ Classify(c)
       \/ EvaluateGates(c)
       \/ \E id \in Skills, slug \in Slugs, body \in Bodies : Convert(c, id, slug, body)

Next == MarketNext \/ (SkillNext /\ UNCHANGED marketVars)

Spec == MarketInit /\ [][Next]_vars

-----------------------------------------------------------------------------
(* Properties.                                                             *)

\* However scans, submissions and their overlaps come, the same text from the same
\* place of the same source is one candidate.
CandidatesAreDistinct ==
  \A c, d \in Rows(candidates) :
    (/\ candidates[c].content = candidates[d].content
     /\ candidates[c].source = candidates[d].source
     /\ candidates[c].path = candidates[d].path) => c = d

\* Copies of one text cannot all pass the gates: somebody has to look at every copy
\* but one, in whatever order they arrive and are gated or classified again.
DuplicatesAreReviewed ==
  \A c, d \in Rows(candidates) :
    (/\ candidates[c].content = candidates[d].content
     /\ candidates[c].gate = "pass" /\ candidates[d].gate = "pass") => c = d

\* A candidate becomes at most one skill, and stays marked for it.
CandidatesConvertOnce ==
  \A id, other \in Skills :
    (Live(id) /\ skills[id].from # None) =>
      /\ candidates[skills[id].from].state = "converted"
      /\ Live(other) /\ skills[other].from = skills[id].from => other = id

\* The marketplace keeps copies apart from originals on every way from a source to a skill.
CandidatesAreSound ==
  MarketTypeOK /\ CandidatesAreDistinct /\ DuplicatesAreReviewed /\ CandidatesConvertOnce
=============================================================================
