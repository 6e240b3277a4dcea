------------------------------- MODULE Drafting -------------------------------
(***************************************************************************)
(* The commands that bring local spec files to a registry: generate writes *)
(* drafts with a language model, submit-drafts hands them over file by     *)
(* file, migrate hands the specs of a repository to another registry and   *)
(* stamps its manifest (cli/src/generate.ts, submitDrafts.ts, migrate.ts). *)
(*                                                                         *)
(* A command decides from the list of specs it read at its start, while    *)
(* people publish, review, delete and edit.  A refused call ends it.  One  *)
(* command runs at a time, possibly the rest of a killed one.              *)
(***************************************************************************)
EXTENDS Integers, Sequences, SequencesExt, FiniteSetsExt

CONSTANTS
  Drafts,      \* filenames, as numbers in their order
  Wordings,    \* texts
  Templates,   \* filenames the registry has prompts for
  Answers,     \* texts a language model answers with
  Environments,\* environments of generate: [provider, url, keys]
  MaxHands,    \* bound: changes of other people
  MaxRuns      \* bound: commands

CONSTANTS NoRow, NoFileText, NoRun

ASSUME DraftingAssumption ==
  Drafts \subseteq Nat /\ IsFiniteSet(Drafts) /\ Templates \subseteq Drafts

VARIABLES
  rows,       \* table specs, by scope and filename: [status, text, deleted]
  requests,   \* pending change requests on specs of the project
  folder,     \* the local files
  manifest,   \* whom each file belongs to that the manifest lists: "repo", "organization", "nobody"
  stamped,    \* the manifest names the target registry
  running,    \* the running command
  handed,     \* history: texts the registry was given for each file, or held already
  held,       \* history: texts each file had since the command started
  hands, runs

draftVars == <<rows, requests, folder, manifest, stamped, running, handed, held, hands, runs>>

Scopes == {"global", "type", "project"}
LiveRow(x) == rows[x] # NoRow /\ ~rows[x].deleted
Own(f) == <<"project", f>>
LocalFiles == {f \in Drafts : folder[f] # NoFileText}
InOrder(some) ==
  CHOOSE s \in [1..Cardinality(some) -> some] :
    ToSet(s) = some /\ \A i, j \in DOMAIN s : i < j => s[i] < s[j]
-----------------------------------------------------------------------------
\* The language model generate uses, by what the environment sets.

Keyed == {"anthropic", "openai", "gemini"}

\* inferProvider: a configured provider, else what a base URL or a key suggests.
InferProvider(env) ==
  IF env.provider # NoRun THEN env.provider
  ELSE IF env.url THEN "openai_compatible"
  ELSE IF "openai" \in env.keys THEN "openai"
  ELSE IF "gemini" \in env.keys THEN "gemini" ELSE "anthropic"

\* providerApiKey: a key for all providers, else the provider's own.
ProviderApiKey(env) ==
  IF "any" \in env.keys THEN {"any"} ELSE env.keys \cap {InferProvider(env)}

\* generateMarkdown: hosted providers need a key, others a base URL.
CanGenerate(env) ==
  IF InferProvider(env) \in Keyed THEN ProviderApiKey(env) # {} ELSE env.url
-----------------------------------------------------------------------------
\* What the commands know of the registry: of each filename the spec of the narrowest scope.

Snapshot ==
  [f \in Drafts |->
    LET in(scope) == LiveRow(<<scope, f>>)
        of(scope) == [scope |-> scope, status |-> rows[<<scope, f>>].status, text |-> rows[<<scope, f>>].text]
    IN IF in("project") THEN of("project") ELSE IF in("type") THEN of("type")
       ELSE IF in("global") THEN of("global") ELSE NoRow]

\* Which call hands a file over.
Creates(seen) == seen = NoRow \/ seen.scope # "project"
Edits(seen) == ~Creates(seen) /\ seen.status = "draft"

\* submit-drafts leaves drafts and pending specs alone unless forced.
Skipped(seen) == ~Creates(seen) /\ seen.status \in {"draft", "pending_review"} /\ ~running.force

StaleAccepts(f, seen, text) == Creates(seen) => rows[Own(f)] = NoRow  \* mutant of Accepts

\* What the registry accepts by then: POST /specs while the name is free, PUT /specs/:key
\* while it is a draft, POST /specs/review of another text once it is published.
Accepts(f, seen, text) ==
  IF Creates(seen) THEN rows[Own(f)] = NoRow
  ELSE /\ LiveRow(Own(f))
       /\ IF Edits(seen) THEN rows[Own(f)].status = "draft"
          ELSE rows[Own(f)].status # "draft" /\ rows[Own(f)].text # text

HandOver(f, seen, text) ==
  /\ Accepts(f, seen, text)
  /\ handed' = [handed EXCEPT ![f] = @ \cup {text}]
  /\ IF Creates(seen) THEN rows' = [rows EXCEPT ![Own(f)] = [status |-> "draft", text |-> text, deleted |-> FALSE]]
     ELSE IF Edits(seen) THEN rows' = [rows EXCEPT ![Own(f)].text = text]
     ELSE rows' = [rows EXCEPT ![Own(f)].status = "pending_review"]
  /\ requests' = IF Creates(seen) \/ Edits(seen) THEN requests
                 ELSE requests \cup {[file |-> f, text |-> text, run |-> runs]}
-----------------------------------------------------------------------------
DraftingInit ==
  /\ rows = [x \in Scopes \X Drafts |-> NoRow]
  /\ requests = {}
  /\ folder \in [Drafts -> {NoFileText} \cup Wordings]
  /\ manifest \in [Drafts -> {"repo", "organization", "nobody"}]
  /\ stamped = FALSE
  /\ running = NoRun
  /\ handed = [f \in Drafts |-> {}]
  /\ held = [f \in Drafts |-> {}]
  /\ hands = 0 /\ runs = 0

\* Other people, whose steps SpecLifecycle models in detail.
Others == hands < MaxHands /\ hands' = hands + 1 /\ UNCHANGED <<manifest, stamped, running, runs>>
Registry == Others /\ UNCHANGED <<folder, handed, held>>

EditFile(f, text) ==
  /\ Others
  /\ folder' = [folder EXCEPT ![f] = text]
  /\ held' = [held EXCEPT ![f] = @ \cup {text}]
  /\ UNCHANGED <<rows, requests, handed>>
AddSpec(x, text, status) ==
  /\ Registry /\ rows[x] = NoRow
  /\ rows' = [rows EXCEPT ![x] = [status |-> status, text |-> text, deleted |-> FALSE]]
  /\ UNCHANGED requests
PublishDraft(x) ==
  /\ Registry /\ LiveRow(x) /\ rows[x].status = "draft"
  /\ rows' = [rows EXCEPT ![x].status = "published"]
  /\ UNCHANGED requests
DecideRequest(r, approve) ==
  LET more == \E q \in requests \ {r} : q.file = r.file
      row == rows[Own(r.file)]
  IN /\ Registry
     /\ approve => LiveRow(Own(r.file))
     /\ requests' = requests \ {r}
     /\ rows' = [rows EXCEPT ![Own(r.file)] =
          [row EXCEPT !.text = IF approve THEN r.text ELSE @,
                      !.status = IF more THEN "pending_review" ELSE "published"]]
DeleteSpec(x) == Registry /\ LiveRow(x) /\ rows' = [rows EXCEPT ![x].deleted = TRUE] /\ UNCHANGED requests
RestoreSpec(x) ==
  Registry /\ rows[x] # NoRow /\ rows[x].deleted /\ rows' = [rows EXCEPT ![x].deleted = FALSE] /\ UNCHANGED requests

\* Commands.

Beginning(run) ==
  /\ running = NoRun /\ runs < MaxRuns
  /\ runs' = runs + 1
  /\ running' = run
  /\ held' = [f \in Drafts |-> {folder[f]}]
  /\ UNCHANGED <<rows, requests, folder, manifest, stamped, hands>>

Continue(step, todo) == running' = [running EXCEPT !.step = step, !.todo = todo]
Finish == running' = NoRun
Step(kind, step) == running # NoRun /\ running.kind = kind /\ running.step = step
Following == UNCHANGED <<folder, manifest, stamped, held, hands, runs>>
RegistryStays == UNCHANGED <<rows, requests, handed>>

\* A call is refused, the language model fails, or the command is killed.
EndRun == running # NoRun /\ Finish /\ RegistryStays /\ Following

\* generate --write: governed files are left alone, existing ones too, unless forced.
StartGenerate(env, force) ==
  /\ Beginning([kind |-> "generate", step |-> "check", todo |-> InOrder(Templates), force |-> force, publish |-> FALSE,
                seen |-> NoRow, env |-> env])
  /\ UNCHANGED handed
CheckTarget ==
  /\ Step("generate", "check")
  /\ IF running.todo = <<>> THEN Finish
     ELSE /\ running.force \/ (manifest[Head(running.todo)] = "nobody" /\ folder[Head(running.todo)] = NoFileText)
          /\ CanGenerate(running.env)
          /\ Continue("generate", running.todo)
  /\ RegistryStays /\ Following

\* The answer is written over whatever the file has become meanwhile.
WriteGenerated(text) ==
  /\ Step("generate", "generate")
  /\ folder' = [folder EXCEPT ![Head(running.todo)] = text]
  /\ held' = [held EXCEPT ![Head(running.todo)] = @ \cup {text}]
  /\ Continue("check", Tail(running.todo))
  /\ UNCHANGED <<rows, requests, manifest, stamped, handed, hands, runs>>

\* submit-drafts reads the directory, then the registry.
StartSubmit(force, publish) ==
  /\ LocalFiles # {}
  /\ Beginning([kind |-> "submit", step |-> "snapshot", todo |-> InOrder(LocalFiles), force |-> force, publish |-> publish,
                seen |-> NoRow, env |-> NoRun])
  /\ UNCHANGED handed
TakeSnapshot ==
  /\ Step("submit", "snapshot")
  /\ running' = [running EXCEPT !.step = "file", !.seen = Snapshot]
  /\ RegistryStays /\ Following

SubmitFile ==
  /\ Step("submit", "file")
  /\ IF running.todo = <<>> THEN Finish /\ RegistryStays
     ELSE LET f == Head(running.todo)
          IN /\ folder[f] # NoFileText
             /\ IF Skipped(running.seen[f]) THEN Continue("file", Tail(running.todo)) /\ RegistryStays
                ELSE /\ HandOver(f, running.seen[f], folder[f])
                     /\ IF running.publish /\ Creates(running.seen[f]) THEN Continue("publish", running.todo)
                        ELSE Continue("file", Tail(running.todo))
  /\ Following

\* POST /specs/:key/publish of the draft just made
PublishCreated ==
  LET x == Own(Head(running.todo))
  IN /\ Step("submit", "publish")
     /\ LiveRow(x) /\ rows[x].status = "draft"
     /\ rows' = [rows EXCEPT ![x].status = "published"]
     /\ Continue("file", Tail(running.todo))
     /\ UNCHANGED <<requests, handed>> /\ Following

\* migrate --apply plans with the specs of the repository that are on disk and compares
\* each with the target's.
MissingOrgSpecs == {f \in Drafts : manifest[f] = "organization" /\ running.seen[f] = NoRow}
StartMigrate ==
  /\ ~stamped
  /\ Beginning([kind |-> "migrate", step |-> "plan", todo |-> <<>>, force |-> TRUE, publish |-> FALSE,
                seen |-> Snapshot, env |-> NoRun])
  /\ handed' = [f \in Drafts |-> {}]
Compared(f) == running.seen[f] # NoRow /\ rows[<<running.seen[f].scope, f>>].text = folder[f]
Plan ==
  LET planned == {f \in LocalFiles : manifest[f] = "repo"}
      alike == {f \in planned : Compared(f)}
  IN /\ Step("migrate", "plan")
     /\ MissingOrgSpecs = {}
     /\ \A f \in planned : running.seen[f] # NoRow => LiveRow(<<running.seen[f].scope, f>>)
     /\ Continue("file", InOrder(planned \ alike))
     /\ handed' = [f \in Drafts |-> IF f \in alike THEN handed[f] \cup {folder[f]} ELSE handed[f]]
     /\ UNCHANGED <<rows, requests>> /\ Following
UploadFile ==
  LET f == Head(running.todo)
  IN /\ Step("migrate", "file") /\ running.todo # <<>>
     /\ folder[f] # NoFileText
     /\ HandOver(f, running.seen[f], folder[f])
     /\ Continue("file", Tail(running.todo))
     /\ Following

\* The manifest is stamped last.
Stamp ==
  /\ Step("migrate", "file") /\ running.todo = <<>>
  /\ stamped' = TRUE
  /\ Finish
  /\ RegistryStays /\ UNCHANGED <<folder, manifest, held, hands, runs>>

DraftingNext ==
  \/ \E f \in Drafts, text \in Wordings \cup {NoFileText} : EditFile(f, text)
  \/ \E x \in Scopes \X Drafts :
       \/ \E text \in Wordings : AddSpec(x, text, IF x[1] = "project" THEN "draft" ELSE "published")
       \/ PublishDraft(x) \/ DeleteSpec(x) \/ RestoreSpec(x)
  \/ \E r \in requests, approve \in BOOLEAN : DecideRequest(r, approve)
  \/ \E env \in Environments, force \in BOOLEAN : StartGenerate(env, force)
  \/ CheckTarget \/ \E text \in Answers : WriteGenerated(text)
  \/ \E force, publish \in BOOLEAN : StartSubmit(force, publish)
  \/ TakeSnapshot \/ SubmitFile \/ PublishCreated
  \/ StartMigrate \/ Plan \/ UploadFile \/ Stamp
  \/ EndRun

DraftingSpec == DraftingInit /\ [][DraftingNext]_draftVars
-----------------------------------------------------------------------------
ByCommand == running # NoRun /\ hands' = hands

\* No command changes a text that is governed, however old the list it decides from: it
\* only drafts, edits drafts and proposes.
GovernedTextsStay ==
  [][\A x \in Scopes \X Drafts :
       ByCommand /\ rows[x] # NoRow /\ rows[x].status # "draft" => rows'[x].text = rows[x].text]_draftVars

\* A manifest names the target registry only when a text each file of the repository had
\* since the command started was handed to it or found there, and files that other
\* commands or people govern are not overwritten by generated ones.
MigrationIsComplete ==
  [][/\ ~stamped /\ stamped'
        => \A f \in Drafts : manifest[f] = "repo" => NoFileText \in held[f] \/ handed[f] \cap held[f] # {}
     /\ running # NoRun /\ running.kind = "generate" /\ ~running.force /\ hands' = hands
        => \A f \in Drafts : manifest[f] # "nobody" => folder'[f] = folder[f]]_draftVars

\* A model that is being asked is the configured one, if one is, and is never asked with
\* another provider's key.
ProvidersKeepTheirKeys ==
  running # NoRun /\ running.step = "generate" =>
    LET env == running.env
    IN /\ env.provider # NoRun => InferProvider(env) = env.provider
       /\ InferProvider(env) \in Keyed
            => ProviderApiKey(env) # {} /\ ProviderApiKey(env) \subseteq {"any", InferProvider(env)}

\* What the commands that hand over texts promise together.
DraftsAreProposed == GovernedTextsStay /\ MigrationIsComplete /\ []ProvidersKeepTheirKeys
=============================================================================
