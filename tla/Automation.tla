----------------------------- MODULE Automation -----------------------------
(***************************************************************************)
(* Spec automation: the gaps a repository has, the drafts that close them, *)
(* the sections a task needs within a token budget, and the audit prompt   *)
(* of a spec, which a language model may rewrite while people edit it      *)
(* (routes/automation.ts, lib/specAutomation.ts, lib/features.ts).         *)
(*                                                                         *)
(* A text is a set of sections.  What the regular expressions make of a    *)
(* section (its class, its tokens, the words it shares with the task) are  *)
(* functions of the section.  Specs are published and deleted by           *)
(* SpecLifecycle; here that takes one step.                                *)
(***************************************************************************)
EXTENDS Integers, Sequences, SequencesExt, FiniteSetsExt

CONSTANTS
  RowIds,          \* ids of spec rows
  Purposes,     \* PURPOSE_TEMPLATES, each known by its filename
  Filenames,    \* filenames; drafts of a purpose may have another
  Position,     \* the place of each filename in a bundle
  Texts,        \* the sections of each text
  Signals,      \* of each section, the words of its heading and text that classify it
  Tokens,       \* its estimated tokens
  Words,        \* the words it shares with the task
  Listed,       \* sections a plan lists: 12
  Budgets,      \* token budgets of callers, which nothing validates
  Edited,       \* audit prompts people write
  EnvFlags,     \* switches of the environment
  Turned,       \* switches people turn
  MaxVersion, MaxCalls, MaxSteps  \* bounds

CONSTANTS NoSpec, NoPrompt, NotStored

\* Rows of table specs, and the audit prompts that are generated for them.
Prompts == [version : Nat, focus : SUBSET UNION {Texts[text] : text \in DOMAIN Texts}, improved : BOOLEAN]
SpecRows ==
  [filename : Filenames, global : BOOLEAN, project : BOOLEAN, status : {"draft", "published"}, deleted : BOOLEAN,
   version : Nat, text : DOMAIN Texts, prompt : {NoPrompt} \cup Edited \cup Prompts]

\* Names have places of their own; sections are numbered as their text has them.
ASSUME AutomationAssumption ==
  /\ Purposes \subseteq Filenames /\ IsFiniteSet(RowIds) /\ NoSpec \notin SpecRows
  /\ Listed \in Nat /\ Budgets \subseteq Int
  /\ \A f, g \in Filenames : Position[f] \in Nat /\ (Position[f] = Position[g] => f = g)
  /\ \A text \in DOMAIN Texts : /\ IsFiniteSet(Texts[text]) /\ Texts[text] \subseteq Nat
                               /\ \A a \in Texts[text] : Tokens[a] \in Nat /\ Words[a] \in Nat

VARIABLES
  specs,     \* table specs: [filename, global, project, status, deleted, version, text, prompt]
  flags,     \* stored switches
  calls,     \* audit prompts a language model is writing
  steps      \* steps so far

automationVars == <<specs, flags, calls, steps>>

Features == {"enabled", "gap_detection", "generation", "llm_generation", "audit_prompts"}
-----------------------------------------------------------------------------
\* valuesFor: what is stored wins over the environment.
Switch(f) == IF flags[f] = NotStored THEN EnvFlags[f] ELSE flags[f]

\* getAutomationFeatureFlags and requireFeature: the master switch turns everything off.
Enabled(f) == Switch("enabled") /\ Switch(f)

Rows == {s \in RowIds : specs[s] # NoSpec}
Live == {s \in Rows : ~specs[s].deleted}
-----------------------------------------------------------------------------
\* Gaps: purposes the tree has evidence for and no spec is named for.

Gaps(tree, existing) == {p \in Purposes \cap tree : p \notin existing}

\* POST /spec-gaps counts what its caller says there is, and else every spec that is not
\* deleted; an empty list says nothing.
Existing == {specs[s].filename : s \in Live}
SpecGaps(tree, given) == Gaps(tree, IF given = {} THEN Existing ELSE given)

\* bundleSpecs: a spec of the type hides the global one of its name.
Published == {s \in Live : specs[s].status # "draft" /\ ~specs[s].project}
Governed ==
  {s \in Published : specs[s].global => \A t \in Published : specs[t].filename = specs[s].filename => specs[t].global}

\* POST /automation/task-plan counts the specs it plans with.
Planned == {specs[s].filename : s \in Governed}
MissingSpecs(tree) == Gaps(tree, Planned)
-----------------------------------------------------------------------------
\* Plans.

Precedence == <<"directive", "non_goal", "acceptance_criteria", "security", "operational", "example", "reference">>

\* classifySpecSections: the first class whose signals match.
Classify(a) ==
  IF Signals[a] = {} THEN "invariant"
  ELSE Precedence[Min({k \in DOMAIN Precedence : Precedence[k] \in Signals[a]})]

Weight(class) ==
  CASE class = "directive" -> 3 [] class = "acceptance_criteria" -> 2 [] class = "security" -> 1 [] OTHER -> 0
Score(a) == Words[a] + Weight(Classify(a))

Sections(some) == UNION {{[spec |-> s, place |-> Position[specs[s].filename], anchor |-> a] : a \in Texts[specs[s].text]}
                         : s \in some}

\* The order of a plan; sections that tie keep the order of the bundle.
Before(x, y) ==
  \/ Score(x.anchor) > Score(y.anchor)
  \/ Score(x.anchor) = Score(y.anchor) /\ Tokens[x.anchor] < Tokens[y.anchor]
  \/ /\ Score(x.anchor) = Score(y.anchor) /\ Tokens[x.anchor] = Tokens[y.anchor]
     /\ x.place < y.place \/ (x.place = y.place /\ x.anchor < y.anchor)

\* Each section comes after those that are before it.
Ranked ==
  LET all == Sections(Governed)
  IN [n \in 1..Cardinality(all) |-> CHOOSE x \in all : Cardinality({y \in all : Before(y, x)}) = n - 1]

UpTo(n, list) == SubSeq(list, 1, IF Len(list) < n THEN Len(list) ELSE n)

Nothing == [used |-> 0, selected |-> {}, open |-> TRUE]

Fits(section, chosen, budget) == chosen.used + Tokens[section.anchor] <= budget

StopWhenFull(list, budget) ==  \* mutant of OptimizeContext
  FoldLeft(LAMBDA chosen, section :
             IF chosen.open /\ Fits(section, chosen, budget)
             THEN [chosen EXCEPT !.used = @ + Tokens[section.anchor], !.selected = @ \cup {section}]
             ELSE [chosen EXCEPT !.open = FALSE],
           Nothing, list)

\* optimizeContext: each section in turn is selected when it still fits.
OptimizeContext(list, budget) ==
  FoldLeft(LAMBDA chosen, section :
             IF Fits(section, chosen, budget)
             THEN [chosen EXCEPT !.used = @ + Tokens[section.anchor], !.selected = @ \cup {section}]
             ELSE chosen,
           Nothing, list)

\* planTaskContext selects from all the sections and lists the first of them;
\* POST /automation/context-budget selects from the list.
TaskPlan(ranked, budget) == [sections |-> UpTo(Listed, ranked), selection |-> OptimizeContext(ranked, budget)]
ContextBudget(ranked, budget) == OptimizeContext(TaskPlan(ranked, budget).sections, budget)
-----------------------------------------------------------------------------
\* Audit prompts.

Focus(text) == {a \in Texts[text] : Classify(a) \in {"directive", "acceptance_criteria", "security", "operational"}}

\* auditPromptForSpec names the version of the spec and its sections.
Baseline(spec) == [version |-> spec.version, focus |-> Focus(spec.text), improved |-> FALSE]
Improved(prompt) == [prompt EXCEPT !.improved = TRUE]

\* GET /automation/audit-prompts, of a project type or of every published spec: the prompts
\* are generated, whatever is stored.
AuditPrompts(some) == [s \in some |-> Baseline(specs[s])]

\* GET /automation/audit-prompt/:specId
Shown(s) == IF specs[s].prompt = NoPrompt THEN Baseline(specs[s]) ELSE specs[s].prompt

AutomationInit ==
  /\ specs = [s \in RowIds |-> NoSpec]
  /\ flags = [f \in Features |-> NotStored]
  /\ calls = {}
  /\ steps = 0

\* PUT /features/config: a form holds some of the switches.
SaveFeatureConfig(input) ==
  /\ flags' = [f \in Features |-> IF f \in DOMAIN input THEN input[f] ELSE flags[f]]
  /\ UNCHANGED <<specs, calls>>

\* Deleted rows reserve their name, specs of projects do not.
Duplicate(name) == \E s \in Rows : specs[s].filename = name /\ ~specs[s].global /\ ~specs[s].project

\* POST /spec-generation/draft
Draft(s, name, text) ==
  LET row == [filename |-> name, global |-> FALSE, project |-> FALSE, status |-> "draft", deleted |-> FALSE,
              version |-> 0, text |-> text, prompt |-> NoPrompt]
  IN /\ Enabled("generation")
     /\ specs[s] = NoSpec
     /\ ~Duplicate(name)
     /\ specs' = [specs EXCEPT ![s] = [row EXCEPT !.prompt = Baseline(row)]]
     /\ UNCHANGED <<flags, calls>>

\* POST /automation/audit-prompt without a language model
GenerateAuditPrompt(s) ==
  /\ Enabled("audit_prompts")
  /\ s \in Live
  /\ specs' = [specs EXCEPT ![s].prompt = Baseline(specs[s])]
  /\ UNCHANGED <<flags, calls>>

\* The same with one: the spec is read, the model is awaited, and its answer is stored in
\* whatever the row has become.
AskForAuditPrompt(s) ==
  /\ Enabled("audit_prompts") /\ Enabled("llm_generation")
  /\ s \in Live
  /\ Cardinality(calls) < MaxCalls
  /\ calls' = calls \cup {[spec |-> s, prompt |-> Improved(Baseline(specs[s]))]}
  /\ UNCHANGED <<specs, flags>>

AuditPromptArrives(c) ==
  /\ calls' = calls \ {c}
  /\ specs' = [specs EXCEPT ![c.spec] = IF @ = NoSpec THEN @ ELSE [@ EXCEPT !.prompt = c.prompt]]
  /\ UNCHANGED flags

AuditPromptFails(c) == calls' = calls \ {c} /\ UNCHANGED <<specs, flags>>

\* PUT /automation/audit-prompt/:specId
SaveAuditPrompt(s, prompt) ==
  /\ Enabled("audit_prompts")
  /\ s \in Live
  /\ specs' = [specs EXCEPT ![s].prompt = prompt]
  /\ UNCHANGED <<flags, calls>>

-----------------------------------------------------------------------------
\* The lifecycle, which SpecLifecycle models in detail.

Import(s, name, global, project, text) ==
  /\ specs[s] = NoSpec /\ ~(global /\ project)
  /\ \A t \in Rows : <<specs[t].filename, specs[t].global, specs[t].project>> # <<name, global, project>>
  /\ specs' = [specs EXCEPT ![s] =
       [filename |-> name, global |-> global, project |-> project, status |-> "published", deleted |-> FALSE,
        version |-> 1, text |-> text, prompt |-> NoPrompt]]
  /\ UNCHANGED <<flags, calls>>

\* PUT /specs/:key edits a draft and leaves its prompt alone; every publication replaces it.
EditDraft(s, text) ==
  /\ s \in Live /\ specs[s].status = "draft"
  /\ specs' = [specs EXCEPT ![s].text = text]
  /\ UNCHANGED <<flags, calls>>

Released(spec, text) == [spec EXCEPT !.status = "published", !.version = @ + 1, !.text = text]
Publish(s, text) ==
  LET next == Released(specs[s], text)
  IN /\ s \in Live /\ specs[s].version < MaxVersion
     /\ specs' = [specs EXCEPT ![s] = [next EXCEPT !.prompt = Baseline(next)]]
     /\ UNCHANGED <<flags, calls>>

Delete(s) == s \in Live /\ specs' = [specs EXCEPT ![s].deleted = TRUE] /\ UNCHANGED <<flags, calls>>
Restore(s) ==
  s \in Rows \ Live /\ specs' = [specs EXCEPT ![s].deleted = FALSE] /\ UNCHANGED <<flags, calls>>

AutomationStep ==
  \/ \E s \in RowIds :
       \/ \E name \in Filenames, text \in DOMAIN Texts :
            Draft(s, name, text) \/ \E global, project \in BOOLEAN : Import(s, name, global, project, text)
       \/ GenerateAuditPrompt(s) \/ AskForAuditPrompt(s)
       \/ \E prompt \in Edited : SaveAuditPrompt(s, prompt)
       \/ \E text \in DOMAIN Texts : EditDraft(s, text) \/ Publish(s, text)
       \/ Delete(s) \/ Restore(s)
  \/ \E c \in calls : AuditPromptArrives(c) \/ AuditPromptFails(c)
  \/ \E f \in Turned, on \in BOOLEAN : SaveFeatureConfig([g \in {f} |-> on])

AutomationNext == steps < MaxSteps /\ steps' = steps + 1 /\ AutomationStep

AutomationSpec == AutomationInit /\ [][AutomationNext]_automationVars
-----------------------------------------------------------------------------
\* The tokens of some of the sections of a list.
TotalTokens(some, list) ==
  FoldLeft(LAMBDA total, x : IF x \in some THEN total + Tokens[x.anchor] ELSE total, 0, list)

\* A selection stays within its budget, or is empty where a caller asks for less than nothing,
\* and leaves nothing out that would still fit, and the two endpoints that select for a task differ only in sections the plan does not list.
PlansFillTheirBudget ==
  LET ranked == Ranked
  IN \A budget \in Budgets :
       LET plan == TaskPlan(ranked, budget)
           chosen == plan.selection.selected
           listed == {plan.sections[k] : k \in DOMAIN plan.sections}
       IN /\ chosen \subseteq Sections(Governed)
          /\ TotalTokens(chosen, ranked) = plan.selection.used
          /\ plan.selection.used <= budget \/ (budget < 0 /\ chosen = {})
          /\ \A x \in Sections(Governed) \ chosen : plan.selection.used + Tokens[x.anchor] > budget
          /\ ContextBudget(ranked, budget).selected = chosen \cap listed

\* A spec that is governed is a gap for neither endpoint; what POST /spec-gaps reports the
\* plan misses too, and what only the plan misses has a draft or a spec of a project.  Who
\* lists the governed specs, if there are any, is told what the plan misses, and a list of
\* specs there are hides none that is missing.  No two specs of the type have one name, deleted
\* ones included, however they were drafted.
GapsAreDrafts ==
  /\ SpecGaps(Purposes, {}) \subseteq MissingSpecs(Purposes)
  /\ Planned # {} => SpecGaps(Purposes, Planned) = MissingSpecs(Purposes)
  /\ \A given \in SUBSET Existing : SpecGaps(Purposes, {}) \subseteq SpecGaps(Purposes, given)
  /\ \A p \in MissingSpecs(Purposes) \ SpecGaps(Purposes, {}) :
       \E s \in Live : specs[s].filename = p /\ (specs[s].status = "draft" \/ specs[s].project)
  /\ \A s, t \in Rows : specs[s].filename = specs[t].filename /\ s # t
       => specs[s].global \/ specs[t].global \/ specs[s].project \/ specs[t].project

\* The prompt that is shown of a published spec, where neither people nor a model wrote it,
\* describes the text that is served and its version, and is the one that both lists of
\* prompts have; no answer of a model is ever of a version to come.
PromptsFollowTheirSpec ==
  \A s \in Rows :
    Shown(s) \notin Edited
      => /\ Shown(s).version <= specs[s].version
         /\ specs[s].status = "published" /\ ~Shown(s).improved => Shown(s) = Baseline(specs[s])
         /\ \A some \in {Governed, {t \in Live : specs[t].status = "published"}} :
              s \in some /\ ~Shown(s).improved => AuditPrompts(some)[s] = Shown(s)

\* What the planner, the gap detector and the audit prompts promise together.
AutomationIsSound == PlansFillTheirBudget /\ GapsAreDrafts /\ PromptsFollowTheirSpec
=============================================================================
