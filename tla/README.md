# A TLA+ model of SpecRegistry

SpecRegistry keeps Markdown specifications for many repositories. Specs are
drafted, published, changed through reviewed change requests and distributed as
signed bundles; repositories report back what they hold, and AI agents are let
through a delivery gate. This directory models the parts of the server and of the
`specreg` CLI where order, failure and concurrency matter, checks them with TLC and
proves the central ones with TLAPS.

Paths below are relative to the repository; `server` stands for
`packages/server/src` and `cli` for `packages/cli/src`.

## How the code runs

The server is one Node process over one SQLite database used synchronously
(better-sqlite3). A handler runs without interruption up to its first `await`;
what it does to the tables before that is one step of a model, and everything after
an `await` (search index, webhooks, calls to GitHub, a directory or a language model)
is a separate step that any other handler may precede. Rows survive a crash; suspended
handlers and background promises do not. Migrations are the exception: SQLite commits
each of their statements, so each is a step. The CLI is a process of its own in the
working copy of a repository: it interleaves with the server at every request and
with the owner of the files at every await, and may be killed between two files.

## Inventory

| Component | State | Operations | What is hard | Correct means | Model |
| --- | --- | --- | --- | --- | --- |
| Specification engine (`server/routes/specs.ts`, `routes/reviews.ts`, `lib/changes.ts`, `lib/approvalPolicies.ts`) | `specs`, `spec_versions`, `change_requests`, `review_approvals`, `approval_policies` | create, edit, publish, submit, approve, reject, promote, delete, restore, purge, set policy | several requests per spec, betas beside a stable head, approval row outside the transaction, policies that change, soft deletion | every head is in the history; history and decisions are immutable; no stranded review; approvals are by others; names are reserved | `SpecLifecycle`, `GovernedRegistry` |
| Version arithmetic (`packages/shared/src/index.ts`) | none | bump, drift severity, caret | resets of minor and patch | severity and pins tell the bumps | `Semver` |
| Feedback, AI drafting, inbound Git (`routes/feedback.ts`, `routes/integrations.ts`, `lib/aifix.ts`, `lib/audit.ts`) | `agent_feedback`, `efficacy_runs` | report, triage, draft fix of an item or cluster, push webhook, efficacy run | check before an await, act after it | late answers break no invariant of the engine and undo no resolution | `ChangeSources` over `SpecLifecycle` |
| Search index (`lib/search.ts`, `lib/embeddings.ts`, `lib/sections.ts`) | `spec_chunks`, `spec_embeddings` | index, reindex, search | embeddings arrive late, a provider fails half way, restore does not await | search serves the head; the semantic index catches up | `SearchIndex` |
| Git push-back (`lib/github.ts`, sync jobs in `routes/admin.ts`) | `repo_subscriptions`, `sync_jobs`, branches and pull requests at GitHub | enqueue, run, subscribe, unsubscribe | overlapping runs over one snapshot, releases and deletions during a run, failing calls, crash | done means proposed; a branch holds its release; every job is decided | `PushBack` |
| Project telemetry (`routes/projects.ts`, `routes/stubPrompts.ts`, `routes/agentState.ts`, `lib/codeTrace.ts`) | `repo_consumers`, `repo_consumer_specs`, `agent_states`, `code_trace_*` | create project, report manifest, trace, workspace state | `INSERT OR REPLACE` deletes rows and cascades | one row per repository and type | `Projects` |
| Delivery gate (`lib/compliance.ts`, sessions in `routes/feedback.ts`) | `agent_sessions`, `compliance_attestations`, `compliance_policies` | begin, check, finish, set policy | sessions and attestations are linked by repository name, projects are replaced in between | a session keeps its project and is judged by its own evidence | `Projects` |
| Token reports, audits, insights (`lib/tokenUsage.ts`, reports of `routes/admin.ts`) | `context_events`, `token_usage_events`, `audit_reports` | deliver, report usage, audit, overview | six computations of the same facts | reports add up; audits agree with each other and with the gate | `Evidence` over `Projects` |
| Agent skills and harness proposals (`routes/skills.ts`, `lib/skills.ts`, `cli/skills.ts`) | `agent_skills` and versions, reviews, assignments, proposals | edit, review, propose, assign, install | two ways to change a text, an upgrade of seeds | texts are recorded, versions stand, after a sync the check sees what drifts | `AgentSkills` |
| Skill marketplace (`routes/skills.ts`) | `skill_sources`, `skill_candidates` | scan, submit, decide, convert | overlapping scans, sources blocked meanwhile | copies are found and converted once | `SkillMarketplace` |
| Spec automation (`routes/automation.ts`, `lib/specAutomation.ts`, `lib/features.ts`) | `specs.audit_prompt`, feature switches | plan, optimize a context, find and draft gaps, write audit prompts | late answers beside edits, budgets | the plan fits and keeps what matters; a gap is drafted once | `Automation` |
| Accounts, tokens, logins (`lib/auth.ts`, `routes/auth.ts`) | `users`, `tokens`, the limiter | login, enroll, create, revoke, change password | the directory is awaited between the limiter's check and its count | no more attempts than allowed; the directory's roles win | `Accounts`; roles in reviews in `SpecLifecycle` |
| Settings and language-model routing (`lib/llm.ts`, `lib/appKeys.ts`, `lib/secretCrypto.ts`, `lib/publicUrl.ts`) | `settings` | save forms, resolve provider, key and address | three layers of fallback, a master key that changes | what is saved is what is served | `Settings` |
| Schema and migrations (`db.ts`) | the schema, `settings.schema_version` | `createDb` | errors are swallowed, a death between two statements | rows survive; the schema is the new one | `Migrations` |
| Backup and restore (`lib/backup.ts`, `backup-cli.ts`) | backup files and checksums | scheduled, manual and CLI backups, pruning, verify, restore | overlap, kills, pruning of good files by torn ones | there is a backup that can be restored | `Backups` |
| Server version and update (`lib/versionInfo.ts`, `routes/admin.ts`) | checkout, build, running process, cache | version, update, registry audit | overlapping updates that fail half way | the version shown is true; what runs was built | `ServerUpdate` |
| Bundles and CLI sync (`lib/compile.ts`, `lib/manifestDiagnostics.ts`, `cli/init.ts`, `sync.ts`, `verify.ts`) | files and manifest of a working copy | download, sync-check, init, check, sync | releases, withdrawals, overrides and edits between a command's requests; killed commands | no edit is lost unforced; "in sync" is true; stale copies catch up | `BundleSync` |
| CLI setup (`cli/init.ts`, `credentials.ts`, `compile.ts`, `sync.ts`) | manifest, credentials, `.mcp.json`, `SPECREGISTRY.md`, compiled files | enroll, init, compile, sync, adopt | the stored token goes to any server; killed anywhere | one registry; listed files are current; agents are admitted | `Setup` |
| CLI workspace states (`cli/agentState.ts`, `routes/agentState.ts`) | `agent_states`, `.spec/incoming` | push, check, pull, sync | edits and a manifest report in between | a state is a snapshot; "no differences" is true | `PeerStates` |
| CLI drafts (`cli/generate.ts`, `submitDrafts.ts`, `migrate.ts`) | draft files, rows and requests of a registry | generate, submit, migrate | a list of specs read once, people in between | governed texts change only by review; nothing is lost | `Drafting` |
| CLI tasks (`cli/task.ts`) | `.tasks/`, GitHub issues | open, list, update, close | GitHub out of reach, two people | a task is found by what `open` said | `Tasks` |
| CLI code map (`cli/codeMetadata.ts`, `traceCheck.ts`) | inventory, trace and SQLite files | extract, link, override, write, check | identities across edits, two formats, kills | unchanged code keeps its identity and aliases; links are what the annotations say | `CodeExtract`, `CodeTrace` |

Components interact in a few places. An approval or a promotion (engine) queues
jobs (push-back) and reindexes (search); fixes and pushes (feedback, inbound Git) open
requests of the engine; a download (bundles) records context events, which later block
the purge of the specs it served (engine), protect the project row they name from
replacement (telemetry) and are counted by token reports; a sync reports the manifest
(telemetry), which cascades into states and traces, which the delivery gate and the
audits read; candidates (marketplace) become skills. `ChangeSources` extends
`SpecLifecycle`, `Evidence` extends `Projects` and `SkillMarketplace` extends
`AgentSkills`, so that these compositions are checked over the same state. The other
links are variables of the component they constrain: `served` in `SpecLifecycle`,
`referenced` in `Projects`, `specs` and `tails` in `PushBack`, `head` and `deleted` in
`BundleSync`, `specs` in `SearchIndex` and `Automation`, `rows` in `Drafting`,
`hosts` in `Setup`.

## Modules

Every module names its tables or files as VARIABLES and its routes, commands, awaits and
faults as actions; comments in the modules give the route or function behind an action.

* **`Semver`** models a version as three numbers and a beta number. Strings that do
  not parse, for which the code returns defaults, are outside the domain.
* **`GovernedRegistry`** is the abstract specification of the engine: documents
  that are drafts until their first release, then change only by releases that
  append to a history under fresh versions, may be hidden, and vanish whole and only
  from hiding.
* **`SpecLifecycle`** has one variable per table and one action per route. Approve
  is three actions, for the three ways it ends: not enough approvals yet
  (`ApproveMore`), published (`ApprovePublish`), or the approval row written and
  nothing else (`ApproveUnpublished`: the transaction hits the unique index, or the
  process dies before it). `policy` is the effective policy of a filename, which the
  code computes from globs and required reviewers. Time is reduced to
  `RetentionEnds`. Authors are names from the request; `user` is the authenticated
  account, `reviewed_by` the name in the body, as in the code, which records and
  counts the latter.
* **`ChangeSources`** extends it with the writers that are not people. A task is a
  suspended handler (draft fix, cluster fix, inbound push) with the rows it read; all of
  the engine's steps may come before it goes on.
* **`PushBack`** numbers the releases of a spec. A run is the async function
  `processSyncJobs` with its snapshot; its stages are the awaits of
  `pushSpecToRepo`. GitHub is the files on branches and the set of pull requests, under the
  names the code gives them: a branch is a filename and a version, a file a base path and a
  filename, so that specs of one filename meet there. A branch that was not created yet
  reads as the base branch does; creating a branch or a pull request that exists is no
  error, a stale blob sha is.
* **`SearchIndex`** keeps the FTS rows and the embeddings of every spec, and for each
  handler the sections it has yet to embed. Each answer of the provider is a step.
* **`Projects`** models `INSERT OR REPLACE` as SQLite performs it: colliding rows
  are deleted, dependants cascade, and a plain reference to a row that does not come
  back fails the statement (`ReplaceConsumer`, `ReferencesHold`). The gate evaluates
  policies of a type and of all types; `Directive` is what an agent is told.
* **`Evidence`** extends it with what is delivered, used and audited: context and usage
  events with days, the token report of a period, the audits of a project, a spec, a run
  and a release, both overviews, the portfolio and the patterns of harness insights.
* **`AgentSkills`** and **`SkillMarketplace`**: skills with their versions, the two ways
  to change them, assignments and a workspace; sources, scans and candidates before that.
* **`Automation`**: plans, contexts within a budget, gaps with their drafts, which a caller may count
  against a list of his own, audit prompts and the switches. A section is its class, weight and words; the texts of plans are left out.
* **`Accounts`** has a directory login in three steps (start, groups read or not to be had,
  finish) and the limiter it passes twice. **`Migrations`** runs every migration statement by statement,
  over the columns, the rebuilt constraints and the shipped texts. **`Backups`** counts the
  writes a database has seen, and so tells a snapshot from a torn file. **`Settings`** has
  one action per form and `Single`, `Tier` and `Route` resolutions as operators.
  **`ServerUpdate`** numbers commits and has a step per await of an update.
* **`BundleSync`** models one working copy. A command moves through the stages
  check, download, validate and write; the owner edits and removes files and adds
  pins while it awaits the registry.
* **`Setup`** models what else those commands leave in a working copy: every request and
  every file is a step, a command carries the stored token whatever server it is given,
  and it may be killed anywhere. Agents are enrolled only where a type is named: by
  `init --type` and `sync`. One command runs at a time.
* **`PeerStates`**, **`Drafting`**, **`Tasks`**: the other commands of the CLI, each with
  the people who edit, publish, review and delete between its calls.
* **`CodeExtract`** reads files line by line with the stack of open classes (TypeScript and
  Python), statement by statement (SQL) or by kind (configuration); **`CodeTrace`** makes
  identities, links, overrides and files of what was read, over edits of the code.
* **`MC...`** instantiate these for TLC. `MCOperations` and `MCWorkbench` hold parts that
  share no state: a behaviour follows one part, chosen at the start, so that the state space
  is the sum of theirs and not their product.
* The proofs are in modules of their own: **`SpecLifecycleProofs`** about the
  engine, **`ChangeSourcesProofs`**, which builds on them, **`PushBackProofs`**,
  **`ProjectsProofs`** about projects, the gate and the reports, **`BundleSyncProofs`**,
  **`OperationsProofs`** about search, accounts, backups and upgrades, **`WorkbenchProofs`** about updates, working copies, settings, drafts,
  tasks, automation and the code map, and **`SkillMarketplaceProofs`** about skills and where they
  come from. **`WorkingCopies`** joins `Setup` and `PeerStates`, which together say what commands
  leave behind, and **`CodeMap`** joins `CodeExtract` and `CodeTrace`.

A definition whose comment reads "mutant of" is the form a plausible bug would give
the definition named: an omitted guard, a missing reset, a stale read. Every property
is violated when one of them replaces the definition it belongs to.

## Runs

| Run | Instance | Shows |
| --- | --- | --- |
| `lifecycle` | one spec, two requests, three people, changing policies, both channels, crash | rows outlive no spec, heads are recorded, reviews are not stranded, approvals have evidence, evidence is immutable, the abstract registry is implemented |
| `lifecycle_stable` | two specs of one name, three requests of any delta, stable channel, one approval | names stay reserved, full approval publishes, the history is linear and severity and pins tell its bumps |
| `sources` | one spec, two requests, two feedback items in one cluster, two suspended handlers, crash | the engine's invariants survive late answers; accepted pushes are kept; a fix undoes no resolution |
| `pushback` | one subscription, two specs of one filename (one of a global type), two releases in all, two runs, outages and one crash | done means proposed, files hold the release of their branch, jobs are decided and, while GitHub answers, proposed |
| `projects` | two repositories, two sessions, up to three attestations, renames by id and by name, two policies | one row per repository and type, sessions keep their project, evidence is their own |
| `evidence` | one repository under two types, two specs of one filename, two days; six parts | token reports add up as far as they list, audits agree with each other and with the gate, stored reports stand |
| `skills` | a seeded and two custom skills, a review, a proposal, a workspace; a source with two scans | texts are recorded, versions stand, a sync installs what is assigned and the check sees the rest, copies are found and converted once |
| `operations` | accounts, backups, migrations, search | logins are contained and roles catch up; a backup can be restored; upgrades keep rows; search serves the head and semantic search catches up |
| `bundle` | two files, three specs, one project override, one killed command | no edit lost, no orphans, "in sync" is true, stale copies catch up |
| `workbench` | settings, automation, extraction, traces, tasks, drafts, peers, updates, setup | see the table of properties below |
| `promote_regress`, `upgrade_crash` | | counterexamples, see below |

| Property of `workbench` | What it says |
| --- | --- |
| `SettingsAreSound` | what people entered last is what the server uses, a provider is asked for another one's model only where the environment named it, no save destroys what it cannot read |
| `AutomationIsSound` | a context fits and omits nothing that would have fitted before it, a missing spec is a gap for every list of existing ones and is drafted once, prompts are of their spec |
| `CodeIsTraced` | methods belong to the class whose block they are in, annotations win, aliases name moved code, the three files are never newer than the one before |
| `TasksAreFound` | whoever was told of a task finds it by the bare name he was told, unless another user's `open` wrote over its file; an issue is listed unless a page of newer ones hides it |
| `DraftsAreProposed` | commands change governed texts by review only, a stamped manifest has all its specs on the target, a provider gets its own key |
| `WorkingCopiesAreSound` | a state is what a working copy held, and "no differing changes" is true; a set-up copy names one registry, its listed compiled files are current, a token its agents have is of their registry, and there is one where a command with `--type` found one required |
| `UpdatesAreSound` | an update that says so runs what it pulled, the comparison with GitHub is of the version shown, the audit quotes both |

Bounds. Two requests suffice for every conflict between requests of one spec, since
each decision involves one other request at most; the third of `lifecycle_stable` is
there for histories of three bumps, the shortest that tell a caret from a comparison
of the parts. Two runs, two handlers, two logins, two updates and two scans are the least
that overlap, two releases the least that make one of them stale, and one crash separates
the rows from what lived in memory. Two sessions and attestations are the least that can be
confused; the iteration that tells an agent to halt is the second in `projects` and, as in
the code, the third in `evidence`. Two files are needed in `bundle` because a bundle without
any file is a 404, and in `workbench` for a state of a workspace to be torn. Four seconds of backups with three files kept are the least at which
a file is pruned at all, torn files push out good ones, and a backup can lose its own file to
another one's pruning. Extraction reads files of four lines at three depths: two
nested classes, a method and what follows it. Three commands of `Setup` are an init, a
compile and the init that makes the file old, or an enrollment that is killed, another
registry and the check that tells them apart. Counters (`Max...`) bound guards and nothing
else. Symmetry is declared for identities the specifications never order, and only where no
liveness property is checked. `MCWorkbench` starts the first setup at one of two registries in
the same state and the first state command in one of two equal working copies, and lets every
registry enroll, since an enrollment may fail anyway; an `init` that names no type is told to be
secure, which nothing reads; the first edit of a working copy is of one of two files alike; its second code map is of format v2, so
that a v1 file may be replaced by one of v2 and not the other way round; the first task is
opened by one of two users alike, and a command killed before it calls GitHub, which leaves
nothing, is not opened at all. Of three titles two have one slug, and a page of issues holds one (100
in the code), so that of two issues one may be hidden. A changed signature stands for any changed body.
A token report lists one spec, two sections and one session in
`evidence` (100, 200 and 100 in the code), and a governance audit looks at one session (20), so
that every limit cuts something; harness insights take the five largest of their groups, of
which there are fewer. A release has two things to be missing (four in the code), one of them below the
count that makes a risk medium. The `audits` part reports no
token usage, which has a part of its own, and reports of feedback neither sessions nor contexts.
In `pushback` two specs of one filename have two releases in all, and only one of them can be deleted.
`MCProjects` refers to projects in `reports` only: at the gate the sessions themselves do. `CHECK_DEADLOCK FALSE` appears where the bounds exhaust the
instance.

Fairness. `PushBack` assumes that the event loop continues a run that is not
waiting (`WF` of each run's step: a call to GitHub answers or fails by its timeout)
and that an admin, or a scheduler, keeps posting `/sync-jobs/run`; nothing in the
server retries by itself. `BundleSync` assumes that a started command gets its
answers and that the owner asks for a forced sync again and again (`SF`, since other
commands may be in the way); the claim is conditional on the registry settling, because a
withdrawal and reinstatement at each download can keep any copy stale. `SearchIndex` assumes
that the provider answers in the end and that an administrator asks for a reindex again and
again; `Accounts`, that the directory answers (a lookup of groups fails a bounded number of times), that locks end and that a user logs in again
and again (`SF`, since the limiter may be in the way); both only promise what holds once
changes stop, as their bounds make them. `PurgeSpec` assumes an admin who keeps purging. No
other action is fair.

## Where code and documents disagree

Two runs end in the counterexample they are there to show.

* `promote_regress`: promoting an older beta after a newer stable release takes the
  head back, and later bumps collide with versions already recorded: the approval
  is then stored and the request stays pending.
* `upgrade_crash`: a process that dies after `DROP TABLE specs` in migration 11 runs it
  again at the next start, which drops the only copy of the specs (`db.ts:682`), although
  migrations are to "run once" (`db.ts:585`).

The following definitions state promises that the code does not keep. They stay in their
modules, and no run checks them; a configuration with one of them as its property ends in a
counterexample.

| Definition | Promise | What the code does |
| --- | --- | --- |
| `ExpiredSpecsArePurged` | `server/routes/specs.ts:558`, "permanently purge soft-deleted specs older than 14 days" | a spec that was ever served cannot be purged, and keeps all others from being purged |
| `DeletedSpecsAreNotPushed` | `docs/CONCEPTS.md:14` | a spec deleted after its job was queued is pushed (`lib/github.ts:131`) |
| `WorkspaceStatesAreKept` | `specs/AGENT_STATE_SYNC.md:16`, "must retain the latest state for each project and workspace" | a manifest report, which `check` and `sync` send, deletes the states of all workspaces and the stored trace (`routes/stubPrompts.ts:128`); a trace report deletes the manifest in turn |
| `PinnedManifestsVerify` | `docs/CONCEPTS.md:129` | a pin in the manifest makes `check` report tampering (`cli/verify.ts:48`) |
| `RetiredGuidanceIsRemoved` | `docs/DEVELOPER_GUIDE.md:231` | a sync leaves a withdrawn spec in place and says "in sync" (`lib/manifestDiagnostics.ts:106`) |
| `VerifiedBackupsAreSnapshots` | `docs/OPERATIONS.md:52` | a backup killed early is an empty file without a checksum, which verifies |
| `WildcardIsNeverAdvertised` | comment at `lib/publicUrl.ts:65`, "never a valid client-facing URL" | a server without an external interface detects `0.0.0.0` (`lib/publicUrl.ts:113`) and advertises it |
| `OlderFormIsStandard` | `docs/OPERATIONS.md:217`, `/llm/config` "still configures the standard tier" | once the standard tier was saved on its own, the older form changes the base only, which that tier no longer reads (`lib/llm.ts:459`) |
| `PrintedNamesAreFound` | `cli/task.ts:313` and `:355`, the `Task-Ref` that `open` prints | no command finds a task by `#N` or `.tasks/<file>`, only by the bare number or filename (`cli/task.ts:407`, `:418`) |
| `EveryIssueIsListed` | `cli/task.ts:98`, `listGitHubIssues` | one page of 100 issues is read (`cli/task.ts:104`) |
| `SecureSetupsEnroll` | `cli/index.ts:67`, help of `init --secure` | an `init` that asks for the project type enrolls nobody, and goes on without a token where it is not refused (`cli/init.ts:46-49`) |
| `NoTaskIsLost` | comment at `cli/task.ts:289`, a file stands for a task in an outage | two titles with one slug that draw one number share a file, and the second is written over the first |
| `PushesAreProposed` | comment at `routes/integrations.ts:53` | a push to a spec under review is dropped |
| `RunningIsReported` | `docs/CONCEPTS.md:137`, "reports the running commit" | the HEAD of the checkout is reported, which a pull has moved |
| `SyncAlwaysEndsDrift` | `cli/skills.ts` | a skill that returns to an earlier text keeps the newer version's number and hash |
| `FieldsAreOfTheirTable` | `cli/codeMetadata.ts:855` | a table ends at the later of `;` and a blank line, and takes the columns of those that follow |
| `MethodsAreMethods` | `cli/codeMetadata.ts:737` | a comment further left than its class ends the class for the Python extractor |

Also visible in the models, and left as the code has it:

* Engine and gate. Approving one of several pending requests marks the spec published while
  the others are undecided; the second of two requests against one head overwrites the first;
  approvals are counted by the name in the request, so that one account can give two. A
  session blocked at preflight can lose its project. The iteration of the gate counts
  compliant attestations (`lib/compliance.ts:160`). A job failed by one of two
  overlapping runs stays an error if the process dies before the other ends.
* Push-back. Two specs of one filename, say of a project type and of a global one, share the
  branch of a version (`lib/github.ts:63`): both jobs end as done, and the pull request shows
  the text that was written last.
* Reports. The quality audit counts every change request as a contradiction
  (`routes/admin.ts:1031`) and triaged feedback; release and project audits include specs of
  other projects; a completed session without a repository is a failure to the run audit; a
  session filter narrows the usage of a token report but not its contexts. A token report
  that is cut does not say so, and its parts then sum to less than its total
  (`lib/tokenUsage.ts:217`); a blocked completion that supports a pattern of the harness
  insights is in no audit once 20 sessions began after it (`routes/admin.ts:1166`).
* Logins. A lookup of groups that fails after a good bind is best effort (`lib/auth.ts:381`): the
  login succeeds and the account is stored with the default role until a later one reads them.
* Settings. A save copies the key of the environment into the table, so that rotating it has
  no effect; saving a tier with a blank key copies its provider's; saving the standard tier
  replaces the key typed for the base, by the provider's if none is typed (`lib/llm.ts:549`); a model named
  by `ANTHROPIC_MODEL` is asked of whichever provider was chosen for the frontier tier, or for
  the base it falls back on (`lib/llm.ts:437`); saving the effective
  switches while the master is off leaves every feature off; secrets that became unreadable
  cannot be cleared, since a save decrypts first (`lib/secretCrypto.ts:60`); backups are off
  by default where `docs/OPERATIONS.md:32` gives an interval.
* Skills. `specreg skills sync` without `--force` keeps a `SKILL.md` that exists and writes the
  newest version's hash into the manifest all the same (`cli/skills.ts:181`, the command line
  passes `false` where `cli/skills.ts:466` would default to forcing): its own check then reports drift.
  Where the kept file happens to be the newest version of a skill that returned to an
  earlier text, it reports none, and the registry's text is not installed.
* Automation. `GET /automation/audit-prompts` ignores stored prompts (`routes/automation.ts:303`);
  a late answer of a model overwrites the prompt of a newer version.
* Updates. An installation or a build that fails after the pull is not retried: the next update
  says "Already up to date" (`lib/versionInfo.ts:267`); two updates at once may leave the build
  of the older commit.
* Setup. Every command sends the stored token to whichever server it is given
  (`cli/index.ts:160`). An init that is refused because the registry changed has already stored
  the other registry's token, after which commands without a token of their own are refused by
  the first one; a revoked token that is stored is never replaced by enrolling again; `.mcp.json`
  keeps the token of the first enrollment. An `init`, or a `sync` that fails between its init
  and its compiling, forgets the compile targets that `sync` is said to regenerate
  (`cli/compile.ts:37`, `docs/CONCEPTS.md:102`), and a sync that enrolls goes on to compile
  without the token it got; a drift sync overwrites a `CLAUDE.md` written by hand; `compile`
  does not compare registries. `migrate` leaves `.mcp.json` and `SPECREGISTRY.md` on the old one.
* Tasks and drafts. `task list` shows no provisional file where GitHub can be asked
  (`cli/task.ts:365`); `task update` and `close` drop references (`cli/task.ts:197`); two tasks
  may get one number. Titles are modelled without quotation marks, which every rewrite of a file
  escapes once more (`cli/task.ts:178`, `:197`). `submit-drafts` and `migrate` report an empty manifest, which deletes the
  reported one. A re-stamped manifest keeps the old registry's signature.
* Code map. Of stacked route decorators in Python only the last is kept; an override file
  collapses the links of an entity to the least confident one (`cli/codeMetadata.ts:1143`); a kill
  between map and trace loses the aliases of that run; two declarations that share an id, such as
  overloads with the same first line, share their links, so that the annotation of one may lose to a match of the other.
* Workspaces. A killed `state push` leaves a state under an id nobody has; withdrawn snapshots
  stay in `.spec/incoming`, so that what is there of a workspace may mix two of its states. The
  files of a copy are read without a wait between them, and in the model in one step.

## What is proved

TLAPS checks the following for every value of the constants that the modules' assumptions
allow. The assumptions are those of the code: sets that are rows or processes are finite
(`IsFiniteSet`: the history of a spec, subscriptions, concurrent logins, backup jobs, candidates,
files that are drafts, people who run `task`, the projects, specs and sections that reports sum
over), token estimates are natural numbers (`Evidence`), names that are sorted are numbers (`Drafting`,
`Tasks`), sections are numbered in the order of their text and names have places of their own
(`Automation`), what declares something starts before it in its file, and a file has fewer than
10 000 declarations, below which the four digits a ratio is rounded to tell all from almost all
(`CodeTrace`), bounds are numbers, ids that are drawn at random are not used up (`PeerStates`), values that stand for
nothing are none of the values there are (`Setup`, `Tasks`, `Evidence`, `Automation`), the channel `stable` exists (`ChangeSources`: the AI drafts and the webhook open
requests of that channel), and the layers of a bundle are stacked (`BundleSync`: of two specs
with one filename one overrides the other, as the `ORDER BY` of `bundleSpecs` in
`server/lib/compile.ts:58` makes it). Each safety theorem rests on an invariant that is
inductive; TLC checked every one of them on the instance of the component's run before it was
proved.

**The engine.**

* `TypesHold`, `DraftsStayUngoverned` and `RowsStayWellFormed` (`SpecLifecycleProofs`).
  Neither of the first two is inductive alone: a draft is published as 1.0.0 into its history,
  and the type of that history as a finite set of well-formed rows is needed to number betas.
  Their conjunction `Base` is inductive.
* `HeadsAreRecorded`, `ReviewsAreNotStranded`, `FilenamesAreReserved`,
  `ApprovalsHaveEvidence` and `EvidenceNeverChanges`, from
  `LifecycleInv`, which adds to `Base` what each needs of the others: a rejected request
  returns its spec to `published`, which preserves `HeadIsRecorded` only because
  drafts have no requests; a purge removes a name together with its history and
  requests.
* `HistoriesAreLinear` and `ApprovalsPublish`, each under what it is about as a hypothesis, and
  `lifecycle_stable` is an instance of both. The first assumes that `stable` is the only channel: the run
  `promote_regress` shows what a beta does to a history. Then every recorded version but the
  first is the bump of an approved request, in order, and a bump beyond the head keeps all
  earlier pairs as they were; severities and carets follow from the arithmetic of `Semver`. The
  second assumes in addition no crash between the approval row and the transaction and
  policies that do not change: what is left to show is that the unique index never refuses a
  release, and it does not because the new version is beyond everything in a linear history.
* `RegistryIsImplemented` (`SpecLifecycleProofs`): under the mapping that
  reads phase, head, history and hidden off the tables, initial states map to initial
  states and every step to a step of `GovernedRegistry` or a stutter. The unique index
  (`HasVersion`) is what makes a release fresh.

**Late answers** (`ChangeSourcesProofs`, over the composition with the engine).
`LateAnswersStayHarmless` says that drafts, pushes and cluster fixes which resume after any
other steps break no invariant of the engine, and that every push the server answered for is
kept as its answer said; `ResolvedStaysResolved` is the action property that a single fix never reopens
resolved feedback. The invariant they need is `TasksAreCurrent`: the row a suspended handler
read is not deleted for good while it waits, and its text is in the history, so that the
request it opens is about a spec that still has one. Each step of the engine is taken over from
`SpecLifecycleProofs`; what is new is that it keeps what the handlers hold.

**Push-back** (`PushBackProofs`). `JobsStayTrue` and `BranchesHoldTheirRelease`. A run works on
a snapshot of jobs, so the invariant relates what it holds to the tables as they are now
(`ItemsAreJobs`, since ids are not used again), bounds releases by heads (`TailsAreReleased`,
`JobsAreReleased`, `PushesAreReleases`: heads only grow) and records what GitHub has already
answered (`AnswersStand`: a file that was written stays written, by whichever run, and before
there is a pull request). Runs of different specs may write one file; what each relies on is
only that it holds some text of its filename and version.

**Telemetry and gate** (`ProjectsProofs`). `ProjectsStayUnique`, `SessionsKeepTheirProjects`
and `EvidenceStaysOwn`. A ready session is named by a context event
(`SessionsAreReferenced`), named rows stand (`ReferencesStand`, since a replacement that would
drop one fails), and ids are new (`RowsAreIssued`). That no agent that was told to halt is told to
continue needs `Numbered`: the iteration of an attestation is its place among those of its
repository.

The module goes on to the reports, over all of `EvidenceNext`. `EvidenceImplementsProjects` says
that a behaviour of `Evidence` is one of `Projects`: a delivery, a usage report and a publication
name a project (`Reference`), a search that answers late does so only while its project is
there, and everything else leaves the rows alone. So the three theorems above hold of it too,
and the next ones start from `IInv`.

* `RunsStayJudgedAlike`, from `EvidenceIInv`: sessions end by their finish (`SessionsEnd`),
  events and usage are only added (`RecordsGrow`), and what a stored audit found good of a run
  (`Accounted`) is not taken back by any later step. Finishing an ended session again is what
  could take it back; the property names the two ways it does. One is a session of no
  repository that names one at its first finish and none at the next, and so loses the link to
  its attestation while it stays completed.
* `TokenReportsStayInAgreement`, from `Recording`: an event sums the sections it delivered at the
  time it did. The sums are folds, whose laws are proved here by a least counterexample among the
  subsets of a finite set (`SubsetInduction`): a sum is that of its groups (`SumOfGroups`) and
  does not depend on what its terms are called (`SumRenamed`).
* `AuditsStayInAgreement`, from `Library`: a report is about a published spec or about the
  guidance a type lacks, never both, and a published spec of a project has a row that stays,
  of the type of the spec. The second half rests on `StepKept`, the lemma that a named row keeps
  its type.

**Working copies** (`BundleSyncProofs`). `CopiesStayManaged`, `EditsAlwaysSurvive` and
`InSyncStaysCurrent`. Extraction is many writes: `WritesAreSafe` carries the validation of the
files over to each of them, `WritesAreComplete` tells that whatever is not yet as the bundle
has it is still to be written.

**Operations** (`OperationsProofs`).

* `SearchStaysCurrent`: rows of the index follow the text of every live governed spec, also
  between a commit and the indexing that a crash cut off.
* `LoginsStayContained`: the limiter checks before the directory answers and counts after. The
  invariant counts both: failures plus the logins that passed the check and wait are at most
  the limit plus the logins there can be, and an unlocked entry is below the limit. Local
  accounts are safe because a suspended login that knew its user had read a directory user.
* `BackupsStayRestorable` and `EnoughBackupsAreKept`: a torn or unfinished file counts among the
  newest `Keep`, so pruning can take the last good one. The first theorem makes the condition
  explicit (`FewAreUnfinished`: fewer than `Keep` files are unfinished at a time), the second
  derives it from the constants: each kill leaves as many files as jobs it ended, so
  `|Jobs| + MaxKills * Widest <= Keep` is enough (`KeepIsEnough`, with `Widest` the larger of
  the server's and the command line's jobs; 2 + 1 * 1 <= 3 in `operations`). Where two backups start in
  one second nothing is promised, as in the property.
* `UpgradesLoseNothing`, the half of `UpgradesAreSafe` that outlasts deaths (`UpgradesKeepData`),
  for any number of processes that open the database at once and any number of deaths, where the
  run has one of each. That a copy is dropped only when its rows are elsewhere needs
  `CopiesAreHeld`: renaming fails while the copy is there, and the error skips the rest of that
  migration, so of the openers that stand behind the renaming there is one. `RowsAreCopied` then says
  that the rows of a copy about to be dropped are in another table of theirs, and of two copies of
  reports about to be dropped together, in `agent_feedback` itself. All other statements
  of the list are shown to leave these tables alone (`MigrationsAreKnown`, `ElsewhereKeeps`).

**Updates, settings and the commands of the CLI** (`WorkbenchProofs`).

* `UpdatesStaySound`: `BuildIsOwed` says at each step of the only update what the checkout has
  and the installation and the build have not yet, whatever the branch does meanwhile, and
  `PullsFindNoMore` that an update which is about to pull has read no newer commit than the
  checkout has. For comparisons, `CacheIsHonest` says that a cached verdict is
  the one of the commit it is keyed by.
* `WorkingCopiesStaySound`, first about commands that set up a copy. They may be refused or
  killed between any two files, so `CommandInv` says what a command has found out once it is at
  a step: that the registry it writes about is the one of the manifest, and that the token it
  is about to write was issued by that registry, and is there if a type was named and a token required. `ManifestLeads` says what follows from the
  order of the writes: what the other files name is what the manifest names, unless the
  manifest was lost.
  Then about states of workspaces: `IsSnapshot` says that a row, in the table or in an answer
  under way, is the difference of one manifest and all the texts a workspace had at one time.
  It is about what the workspace ever had, so it outlasts edits. New workspaces do not inherit
  states because at least as many ids were never drawn as commands are left (`IdsAreUsed`).

* `SettingsStaySound`, with `SettingsInv`: what a person entered for a secret last, and did not
  clear, is what is stored, whether or not the current master key can read it (`Told`), so it
  survives saves of other fields and restarts; and what is stored for the base and each tier
  names a model of its own provider (`Matched`), also where the standard tier is copied to the base.
* `DraftsStayProposed`. `MigrationOwes` says of every file of the repository that it has been
  handed over, or found there, with a text it had since the command started, or is among the files
  still to come; the invariant needs that a command's list is a sequence of the files it planned
  with, so the existence of the sorted sequence `InOrder` chooses is proved first
  (`SortingExists`). That governed texts stay holds of each step, as the registry decides by the
  row it has then and not by the list of the command.
* `TasksStayFound`, with `TasksInv`: what was told is an issue or a file, files are never
  removed and have a title that was told by their name, and `OutagesCover` counts the files
  together with the fallbacks that owe one. Two users may be told one name; nobody is told one
  twice, because the number he draws is more than those of the files there are (`NumbersAreFree`,
  `NewTo`), so a title that is not his is another user's.
* `AutomationStaysSound`. Of a plan the order comes first: `Before` is a strict total order,
  because governed specs differ in their names (`GovernedNames`, from `NamesAreUnique`), so as many
  sections come before each as its place says (`RankedSections`). What a fold over that list
  selects is then told for each place (`OptimizeSteps`, `SelectionSteps`): a section is selected
  where it fits in its turn, what is used only grows, and the selection of a prefix is that of the
  whole up to there. That the fold's steps exist is shown once, for any step and any
  number of places (`FoldExists`). Prompts need `PromptIsKept` and, for a model that is still
  writing, `CallIsOld`: its answer is never of a version to come.
* `CodeStaysTraced`, over the two modules of the code map. While a file is read, the stack has
  just the classes whose blocks the last line is in (`Stacks`, `StackOfLine`): those with no
  shallower line after them. So the innermost one is the parent (`AboveIsMine`), and one line
  changes no earlier verdict. For the files that are written, ids are made in the order of the
  file (`IdsInOrder`), so the function `Ids` chooses exists and declarations that share an id
  share their name; an override replaces the links of the code it matches and of no other
  (`OverridesApply`, again a fold); and what a link says survives the tables of the second
  format (`TablesHold`). Commands may be killed between any two of the three files, which is why
  `FilesAreOrdered` compares when each was written.

**Skills and the marketplace** (`SkillMarketplaceProofs`, over the composition of both).

* `HistoriesAreKept`, from `SkillsInv`: an approved review or proposal is of a skill that is
  there (`RecordsAreLive`: reviews go with their skill, proposals keep it), so that the text it
  promised stays in that skill's history; a write of any of the four routes only extends it.
* `SyncsEndDrift` is an action property of the same invariant and of `SlugsDiffer`: without two
  skills of one slug, what the check finds under a slug is what the sync installed there. It
  says of a forced and of an unforced sync when the check reports drift afterwards, which is
  whenever some `SKILL.md` is not the newest version: `SyncAlwaysEndsDrift` fails.
* `CandidatesStaySound`. An import is a loop in which each file finds the rows of those before
  it; `ImportKeeps` takes the table through it by a least counterexample, with the rows that
  are still free. Of two copies the later was gated with the earlier in the table, and one that
  is gated again with all others, so at most one passes. Conversions count on `OriginsStay`: no
  edit of a skill gives it another origin.

What is only model-checked:

* Liveness (`JobsEnd`, `StaleCopiesCatchUp`, `DirectoryRolesCatchUp`,
  `SemanticIndexCatchesUp`): fairness and `ENABLED` are beyond the prover.
* `UpgradesAreComplete`, the other half of `UpgradesAreSafe`: the schema is fixed, and TLC visits
  every interruption of every earlier version's upgrade. It is about one process that opens the
  database; where two migrate at once, only what `UpgradesLoseNothing` says is claimed.

The library's induction theorems have an operator as a parameter, which no backend
instantiates; the proofs here use least counterexamples instead (`StepByStep`, `Minimum`). No
module with a theorem reaches a `RECURSIVE` operator.

## Not modelled

* Slack notifications, webhooks and the audit log: fire-and-forget or append-only, and no
  handler reads what they leave.
* Review impact, risk, lint, compatibility, contradiction heuristics and change summaries:
  functions of texts and aggregate queries without state; what they return is data the
  properties do not tell apart.
* Project types, templates and seeds: plain rows and fixture data. The shipped texts that
  upgrades rewrite are in `Migrations`.
* The scan, the style guides and the project wizard of the CLI: reports about files,
  downloads of public documents and prompts on a terminal. The profile an interactive init
  writes and submits is left out of `Setup`; beta downloads are left out of `BundleSync`.
* The MCP server and the web application: stateless adapters over the routes. What the forms of
  the settings page save is in `Settings`.

## Plan

1. `Migrations`: `UpgradesAreComplete`, by what the statements before a position have left.
