----------------------------- MODULE MCWorkbench -----------------------------
(***************************************************************************)
(* The instances of Settings, Automation, CodeExtract, CodeTrace, Tasks,   *)
(* Drafting, PeerStates, ServerUpdate and Setup for TLC.  They share no    *)
(* state, so that a behaviour follows one of them, chosen at the start,    *)
(* and the state space is the sum of theirs.  Sections of automation are   *)
(* numbers; the code is a class with a method and a function beside it.    *)
(***************************************************************************)
EXTENDS Settings, Automation, CodeMap, Tasks, Drafting, WorkingCopies, ServerUpdate

CONSTANTS personal, payments, orders, t1, d1, d2, d3, z1, z2

\* Automation: three sections of different weight and size, two texts that share one.
NamePosition == [f \in Filenames |-> IF f = "SECURITY.md" THEN 1 ELSE 2]
SectionsOfTexts == "first" :> {1, 2} @@ "second" :> {2, 3}
SectionSignals == 1 :> {"directive"} @@ 2 :> {} @@ 3 :> {"example", "security"}
SectionTokens == 1 :> 3 @@ 2 :> 2 @@ 3 :> 1
SharedWords == 1 :> 0 @@ 2 :> 1 @@ 3 :> 0
Environment == [f \in Features |-> TRUE]
CallerBudgets == {-1, 0, 2, 4}

\* Settings: an environment names no model, one of its own provider's, or one of another's.
Unnamed == [main |-> Unset, vendor |-> Unset, frontier |-> Unset]
ModelNames ==
  {Unnamed, [Unnamed EXCEPT !.main = "p"], [Unnamed EXCEPT !.main = "q"], [Unnamed EXCEPT !.vendor = "p"],
   [Unnamed EXCEPT !.vendor = "q", !.main = "p"], [Unnamed EXCEPT !.frontier = "q"]}

\* Models are chosen by the forms of providers and routes, whatever keys they carry.
ModelsNext ==
  \/ \E p \in Providers \cup {Unset} :
       \/ SaveLlmConfig(p, Unset, Blank)
       \/ \E t \in Tiers, model \in {p, Unset} : SaveLlmTierConfig(t, p, model, Blank)
  \/ \E r \in LlmRoutes, t \in Tiers : SaveLlmRoutes(Only(r, t))
  \/ \E endpoint \in BOOLEAN, models \in EnvModels : Reconfigure(Unset, endpoint, models)

\* CodeExtract: scripts of up to three statements, and configurations of every kind.
Statements == [kind : {"table"}, fields : 1..3, blank : BOOLEAN] \cup [kind : {"index"}, fields : {0}, blank : BOOLEAN]
Scripts == [migration : BOOLEAN, statements : UNION {[1..n -> Statements] : n \in 1..3}]
Configurations == [package : BOOLEAN, valid : BOOLEAN, scripts : SUBSET {1, 2}]

\* CodeTrace: the file, a class, its method and a function.
SlotKinds == 0 :> "file" @@ 1 :> "class" @@ 2 :> "method" @@ 3 :> "function"
Enclosing == 0 :> NoSlot @@ 1 :> 0 @@ 2 :> 1 @@ 3 :> 0
SpecAnchors == payments :> {"rules"} @@ orders :> {}
Annotations == {[spec |-> payments, section |-> "rules"], [spec |-> orders, section |-> "gone"], [spec |-> orders, section |-> NoRef]}
Matches ==
  "pay" :> (payments :> 60 @@ orders :> 40) @@ "order" :> (payments :> 0 @@ orders :> 50)
    @@ "src" :> (payments :> 0 @@ orders :> 0) @@ "lib" :> (payments :> 0 @@ orders :> 0)
OverrideSets ==
  {<<>>,
   <<[name |-> "order", action |-> "waive", spec |-> orders], [name |-> "pay", action |-> "reject", spec |-> orders]>>,
   <<[name |-> "pay", action |-> "override", spec |-> orders]>>}

\* Tasks: two titles differ after the letters a slug keeps.
CutTitles == d1 :> 1 @@ d2 :> 1 @@ d3 :> 2
Beginnings == [g \in Slugs |-> {"add"}]

\* Drafting: a spec of the repository on disk beside one of the organization, and beside a new draft.
Starts ==
  {<<[f \in Drafts |-> t1], 1 :> "repo" @@ 2 :> "organization">>,
   <<1 :> t1 @@ 2 :> NoFileText, 1 :> "repo" @@ 2 :> "nobody">>}

\* A key for every provider, two keys of which one is the provider's, and no key.
Keyrings ==
  {[provider |-> NoRun, url |-> FALSE, keys |-> {"any"}],
   [provider |-> "gemini", url |-> TRUE, keys |-> {"openai", "gemini"}],
   [provider |-> NoRun, url |-> FALSE, keys |-> {}]}

\* What else the audit of the registry may find.
Findings == {[warnings |-> {}, tokens |-> TRUE], [warnings |-> {"no backups"}, tokens |-> FALSE]}

\* The registries of Setup are alike, so that one order of them is enough; an enrollment may
\* fail anyway, so that no registry need refuse it.
Interchanged ==
  /\ \A r \in Registries : hosts[r].enrolls
  /\ hosts[z1].auth => hosts[z2].auth

FirstRegistry == setups = 0 /\ setups' = 1 /\ hosts[z1] = hosts[z2] => setup'.server = z1

\* Where no type is named, nothing reads whether a token is required.
UntypedSetup == setup' # Missing /\ setup'.kind = "init" /\ ~setup'.typed => setup'.secure

\* So are the working copies of PeerStates, and their files.
FirstCopy == started = 0 /\ started' = 1 => jobs'[CHOOSE p \in Copies : TRUE] # Resting
FirstFile == changed = 0 /\ changed' = 1 =>
  LET first == CHOOSE f \in SpecFiles : TRUE IN \A p \in Copies, f \in SpecFiles \ {first} : copies'[p][f] = copies[p][f]

\* So are the users of Tasks, and the titles of one slug.  A kill before the call of GitHub undoes nothing.
FirstTask ==
  /\ told = {} /\ issues = <<>> /\ outages = 0 /\ (\A u \in Users : run[u] = NoCommand)
       => LET first == CHOOSE u \in Users : TRUE IN run'[first] # NoCommand /\ run'[first].title # d2
  /\ \A u \in Users : run[u] # NoCommand /\ run'[u] = NoCommand /\ run[u].step = "create" => issues' # issues \/ outages' # outages

\* A code map is read again by a later version of the command.
LaterFormat == command = Idle /\ command' # Idle /\ commands = 1 => command'.format = "v2"

VARIABLE focus

workbenchVars == <<settingsVars, automationVars, traceVars, extractVars, taskVars, draftVars, peerVars, serverVars, setupVars, focus>>

\* Where a part is not followed, one of its initial states stands for all.
Init ==
  /\ focus \in {"settings", "models", "automation", "trace", "extract", "tasks", "drafting", "peers", "updates", "setup"}
  /\ SettingsInit
  /\ focus # "models" => env.models = Unnamed
  /\ focus # "settings" => env.master = Unset
  /\ focus \notin {"settings", "models"} => ~env.local
  /\ AutomationInit
  /\ TraceInit /\ (focus # "trace" => overrides = <<>>)
  /\ ExtractInit /\ (focus # "extract" => language = "SQL")
  /\ TasksInit /\ (focus # "tasks" => hosted /\ token)
  /\ DraftingInit /\ (IF focus = "drafting" THEN <<folder, manifest>> \in Starts ELSE <<folder, manifest>> = CHOOSE x \in Starts : TRUE)
  /\ PeersInit
  /\ ServerInit
  /\ SetupInit /\ (IF focus = "setup" THEN Interchanged ELSE \A r \in Registries : hosts[r].auth /\ hosts[r].enrolls)

Next ==
  /\ UNCHANGED focus
  /\ \/ /\ focus = "settings" /\ SettingsNext
        /\ UNCHANGED <<automationVars, traceVars, extractVars, taskVars, draftVars, peerVars, serverVars, setupVars>>
        /\ env'.models = Unnamed
     \/ /\ focus = "models" /\ ModelsNext
        /\ UNCHANGED <<automationVars, traceVars, extractVars, taskVars, draftVars, peerVars, serverVars, setupVars>>
     \/ /\ focus = "automation" /\ AutomationNext
        /\ UNCHANGED <<settingsVars, traceVars, extractVars, taskVars, draftVars, peerVars, serverVars, setupVars>>
     \/ /\ focus = "trace" /\ TraceNext /\ LaterFormat
        /\ UNCHANGED <<settingsVars, automationVars, extractVars, taskVars, draftVars, peerVars, serverVars, setupVars>>
     \/ /\ focus = "extract" /\ ExtractNext
        /\ UNCHANGED <<settingsVars, automationVars, traceVars, taskVars, draftVars, peerVars, serverVars, setupVars>>
     \/ /\ focus = "tasks" /\ TasksNext /\ FirstTask
        /\ UNCHANGED <<settingsVars, automationVars, traceVars, extractVars, draftVars, peerVars, serverVars, setupVars>>
     \/ /\ focus = "drafting" /\ DraftingNext
        /\ UNCHANGED <<settingsVars, automationVars, traceVars, extractVars, taskVars, peerVars, serverVars, setupVars>>
     \/ /\ focus = "peers" /\ PeersNext /\ FirstCopy /\ FirstFile
        /\ UNCHANGED <<settingsVars, automationVars, traceVars, extractVars, taskVars, draftVars, serverVars, setupVars>>
     \/ /\ focus = "updates" /\ ServerNext
        /\ UNCHANGED <<settingsVars, automationVars, traceVars, extractVars, taskVars, draftVars, peerVars, setupVars>>
     \/ /\ focus = "setup" /\ SetupNext /\ FirstRegistry /\ UntypedSetup
        /\ UNCHANGED <<settingsVars, automationVars, traceVars, extractVars, taskVars, draftVars, peerVars, serverVars>>

Spec == Init /\ [][Next]_workbenchVars
=============================================================================
