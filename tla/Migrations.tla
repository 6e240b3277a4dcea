----------------------------- MODULE Migrations -----------------------------
(***************************************************************************)
(* Opening a database (db.ts, createDb): the current schema is created     *)
(* where tables are missing, then the migrations after the stored version  *)
(* run statement by statement.  SQLite commits every statement by itself;  *)
(* an error ends its migration, is taken for "already satisfied" and the   *)
(* next migration follows; the version is stored once, at the end.  The    *)
(* process may die between any two statements and is then started again,   *)
(* and the operations commands open the database like the server does.     *)
(*                                                                         *)
(* Of a table the model keeps the columns that migrations add, what a      *)
(* rebuild widens (named like a column) and whether the registry's rows    *)
(* are in it; of the shipped texts, the version that wrote them.           *)
(***************************************************************************)
EXTENDS Integers, Sequences, SequencesExt

CONSTANTS
  StartVersions,   \* versions of the databases that are opened; 0: no version stored
  Openers,         \* processes that may open the database at a time
  MaxCrashes       \* bound on deaths in the middle

VARIABLES tables, texts, versioned, stored, openers, crashes

migrationVars == <<tables, texts, versioned, stored, openers, crashes>>
-----------------------------------------------------------------------------
(* The current schema, by table: SCHEMA.                                   *)

BaseTables == [
  change_requests |-> {"compatibility", "lint", "contradictions", "risk"},
  spec_versions   |-> {"channel"},
  project_types   |-> {"required_reviewers"},
  specs           |-> {"project_id", "audit_prompt", "deleted_at"},
  agent_feedback  |-> {"nullable", "project_type_id", "languages", "topic"},
  webhooks        |-> {"gchat"},
  users           |-> {"repo", "project_type_id"},
  tokens          |-> {"expires_at"}]

\* Tables that a migration introduced, with the columns added since.
LaterTables == [
  review_approvals |-> {}, approval_policies |-> {}, audit_log |-> {},
  repo_consumers |-> {}, spec_embeddings |-> {}, code_trace_reports |-> {},
  agent_skills |-> {"source_candidate_id", "source_url", "source_path", "source_commit",
                    "imported_at", "transformed_by", "transformation_note",
                    "upstream_content_hash"},
  code_trace_links |-> {"entity_path", "spec_section"},
  compliance_attestations |-> {}, agent_sessions |-> {}, harness_proposals |-> {},
  context_events |-> {}, skill_candidates |-> {"gate_status", "gate_results"},
  skill_change_requests |-> {}, skill_assignments |-> {}, skill_spec_links |-> {},
  agent_skill_versions |-> {}, audit_reports |-> {}, agent_states |-> {}]

Schema == [t \in DOMAIN BaseTables \cup DOMAIN LaterTables |->
  IF t \in DOMAIN BaseTables THEN BaseTables[t] ELSE LaterTables[t]]
Rebuilt == {"webhooks", "specs", "agent_feedback"}
Copies == {"webhooks_old", "specs_new", "agent_feedback_old", "agent_feedback_v32_old"}
TableNames == DOMAIN Schema \cup Copies
NoTable == [columns |-> {"absent"}, rows |-> FALSE]
-----------------------------------------------------------------------------
(* The statements of the migrations.                                       *)

Ensure(t) == [op |-> "ensure", table |-> t]                        \* CREATE TABLE IF NOT EXISTS
Add(t, c) == [op |-> "add", table |-> t, column |-> c]             \* ALTER TABLE ADD COLUMN
Rename(t, to) == [op |-> "rename", table |-> t, to |-> to]         \* ALTER TABLE RENAME TO
Create(t, cs) == [op |-> "create", table |-> t, columns |-> cs]    \* CREATE TABLE
Copy(t, to) == [op |-> "copy", table |-> t, to |-> to]             \* INSERT INTO SELECT
Drop(t) == [op |-> "drop", table |-> t]                            \* DROP TABLE
DropIf(t) == [op |-> "drop_if", table |-> t]                       \* DROP TABLE IF EXISTS
ForeignKeys(on) == [op |-> "fk", on |-> on]                        \* PRAGMA foreign_keys
Rewrite(k, old, new) == [op |-> "rewrite", text |-> k, old |-> old, new |-> new]  \* UPDATE

WebhooksRebuild ==  \* 5
  <<Rename("webhooks", "webhooks_old"), Create("webhooks", {"gchat"}),
    Copy("webhooks_old", "webhooks"), Drop("webhooks_old")>>

ReviewTables ==  \* 6 to 8
  <<<<Ensure("review_approvals")>>, <<Ensure("approval_policies")>>, <<Ensure("audit_log")>>>>

SpecsRebuild ==  \* 11
  <<ForeignKeys(FALSE), DropIf("specs_new"), Create("specs_new", {"project_id"}),
    Copy("specs", "specs_new"), Drop("specs"), Rename("specs_new", "specs"),
    ForeignKeys(TRUE)>>

TraceTables == <<Ensure("code_trace_reports"), Ensure("code_trace_links")>>  \* 17

UserColumns == <<Add("users", "repo"), Add("users", "project_type_id")>>  \* 18

FeedbackRebuild ==  \* 21
  <<Rename("agent_feedback", "agent_feedback_old"),
    Create("agent_feedback", Schema["agent_feedback"]),
    Copy("agent_feedback_old", "agent_feedback"), Drop("agent_feedback_old")>>

LoopTexts ==  \* 28 to 30
  <<<<Rewrite("loop", 0, 28)>>, <<Rewrite("loop", 28, 29)>>,
    <<Rewrite("evidence", 0, 30), Rewrite("loop", 29, 30)>>>>

\* The operating rules have two older forms; the recorded version is rewritten only
\* from the first of them.
OperatingRules ==  \* 31
  <<Rewrite("rules", 29, 31), Rewrite("rules", 0, 31), Rewrite("rules_recorded", 0, 31)>>

FeedbackRepairUnenforced ==  \* mutant of FeedbackRepair
  <<ForeignKeys(FALSE), Rename("agent_feedback", "agent_feedback_v32_old"),
    Create("agent_feedback", Schema["agent_feedback"]),
    Copy("agent_feedback_v32_old", "agent_feedback"), Drop("agent_feedback_v32_old")>>
FeedbackRepair ==  \* 32
  <<ForeignKeys(FALSE), Rename("agent_feedback", "agent_feedback_v32_old"),
    Create("agent_feedback", Schema["agent_feedback"]),
    Copy("agent_feedback_v32_old", "agent_feedback"), Drop("agent_feedback_v32_old"),
    ForeignKeys(TRUE)>>

BaselineTexts ==  \* 33
  <<Rewrite("baseline", 0, 33), Rewrite("baseline_recorded", 0, 33)>>

UsageTables == <<Ensure("context_events")>>  \* 34
MarketplaceTables == <<Ensure("skill_candidates")>>  \* 35
GateColumns ==  \* 36
  <<Add("skill_candidates", "gate_status"), Add("skill_candidates", "gate_results")>>
ProvenanceColumns ==  \* 37
  <<Add("agent_skills", "source_candidate_id"), Add("agent_skills", "source_url"),
    Add("agent_skills", "source_path"), Add("agent_skills", "source_commit"),
    Add("agent_skills", "imported_at"), Add("agent_skills", "transformed_by"),
    Add("agent_skills", "transformation_note"), Add("agent_skills", "upstream_content_hash")>>
SkillReviewTables ==  \* 38 to 41
  <<<<Ensure("skill_change_requests")>>, <<Ensure("skill_assignments")>>,
    <<Ensure("skill_spec_links")>>, <<Ensure("agent_skill_versions")>>>>

MIGRATIONS ==
  <<<<Add("change_requests", "compatibility")>>, <<Add("change_requests", "lint")>>,
    <<Add("spec_versions", "channel")>>, <<Add("project_types", "required_reviewers")>>,
    WebhooksRebuild>>
  \o ReviewTables
  \o <<<<Add("change_requests", "contradictions")>>, <<Ensure("repo_consumers")>>,
       SpecsRebuild, <<Add("change_requests", "risk")>>, <<Ensure("spec_embeddings")>>,
       <<Ensure("agent_skills")>>, <<Add("specs", "audit_prompt")>>,
       <<Add("specs", "deleted_at")>>, TraceTables, UserColumns,
       <<Ensure("compliance_attestations")>>, <<Ensure("agent_sessions")>>,
       FeedbackRebuild, <<Rewrite("load", 0, 22)>>,
       <<Add("agent_feedback", "project_type_id")>>, <<Add("agent_feedback", "languages")>>,
       <<Add("agent_feedback", "topic")>>, <<Ensure("harness_proposals")>>,
       <<Add("tokens", "expires_at")>>>>
  \o LoopTexts
  \o <<OperatingRules, FeedbackRepair, BaselineTexts, UsageTables, MarketplaceTables,
       GateColumns, ProvenanceColumns>>
  \o SkillReviewTables
  \o <<<<Ensure("audit_reports")>>, <<Add("code_trace_links", "entity_path")>>,
       <<Add("code_trace_links", "spec_section")>>, <<Ensure("agent_states")>>>>

Newest == Len(MIGRATIONS)

\* The texts that the migrations rewrite, with the version of the current one.
Shipped == [load |-> 22, loop |-> 30, evidence |-> 30]
SeededSpecs == [rules |-> 31, rules_recorded |-> 31, baseline |-> 33, baseline_recorded |-> 33]
LatestText == Shipped @@ SeededSpecs
Absent == -1
Customized == -2
-----------------------------------------------------------------------------
(* Databases as earlier versions left them.                                *)

AddedBy(v, t) == {s.column : s \in {x \in ToSet(MIGRATIONS[v]) : x.op = "add" /\ x.table = t}}
Widened == [webhooks |-> [gchat |-> 5], specs |-> [project_id |-> 11],
            agent_feedback |-> [nullable |-> 21]]
\* The columns of a table in a database of version v.
ColumnsAt(v, t) ==
  UNION {AddedBy(w, t) : w \in 1..v}
  \cup (IF t \in Rebuilt THEN {c \in DOMAIN Widened[t] : Widened[t][c] <= v} ELSE {})
ExistsAt(v, t) ==
  t \in DOMAIN BaseTables \/ \E w \in 1..v : Ensure(t) \in ToSet(MIGRATIONS[w])

TablesAt(v) == [t \in TableNames |->
  IF t \in Copies \/ ~ExistsAt(v, t) THEN NoTable
  ELSE [columns |-> ColumnsAt(v, t), rows |-> t \in Rebuilt]]

\* The text of version v: of the last migration up to v that writes it.
TextAt(v, k) ==
  LET writers == {w \in 1..v : \E s \in ToSet(MIGRATIONS[w]) : s.op = "rewrite" /\ s.text = k}
  IN  IF writers = {} THEN 0 ELSE CHOOSE w \in writers : \A x \in writers : x <= w

TextsAt(v, custom, rules) == [k \in DOMAIN LatestText |->
  IF k \in DOMAIN Shipped /\ ~ExistsAt(v, "agent_skills") THEN Absent
  ELSE IF k \in custom THEN Customized
  ELSE IF k = "rules" /\ v < 31 THEN rules
  ELSE TextAt(v, k)]

Closed == [version |-> 0, statement |-> 0, fk |-> TRUE]
Up(p) == openers[p].version = Newest + 2
NoDatabase == -1

MigrationsTypeOK ==
  /\ \A t \in TableNames : tables[t] = NoTable \/
       /\ tables[t].columns \subseteq UNION {Schema[u] : u \in DOMAIN Schema}
       /\ tables[t].rows \in BOOLEAN
  /\ DOMAIN texts = DOMAIN LatestText
  /\ versioned \subseteq DOMAIN Shipped
  /\ stored \in NoDatabase..Newest
  /\ \A p \in Openers : openers[p].version \in 0..(Newest + 2) /\ openers[p].fk \in BOOLEAN
  /\ crashes \in 0..MaxCrashes

\* A new database, or one of an earlier version.  Some databases have passed version 21
\* without its change to agent_feedback, which is what version 32 repairs.
MigrationsInit ==
  /\ \/ /\ stored = NoDatabase
        /\ tables = [t \in TableNames |-> NoTable]
        /\ texts = [k \in DOMAIN LatestText |-> Absent]
     \/ /\ stored \in StartVersions
        /\ \/ tables = TablesAt(stored)
           \/ /\ stored \in 21..31
              /\ tables = [TablesAt(stored) EXCEPT !["agent_feedback"].columns = @ \ {"nullable"}]
        /\ \E custom \in {{}, {"load"}, {"loop", "evidence"}}, rules \in {0, 29} :
             texts = TextsAt(stored, custom, rules)
  /\ versioned = IF stored >= 41 THEN DOMAIN Shipped ELSE {}
  /\ openers = [p \in Openers |-> Closed]
  /\ crashes = 0
-----------------------------------------------------------------------------
(* createDb.                                                               *)

Present(t) == tables[t] # NoTable

\* The statement fails: no such table, or the table or column is there already.
Fails(s) ==
  CASE s.op = "add" -> ~Present(s.table) \/ s.column \in tables[s.table].columns
    [] s.op = "rename" -> ~Present(s.table) \/ Present(s.to)
    [] s.op = "create" -> Present(s.table)
    [] s.op = "copy" -> \/ ~Present(s.table) \/ ~Present(s.to)
                        \/ tables[s.table].rows /\ tables[s.to].rows
    [] s.op = "drop" -> ~Present(s.table)
    [] OTHER -> FALSE

\* A copy names the columns of the old table that its migration knows; the widened
\* definition itself comes with the new table.
Changed(s) ==
  CASE s.op = "ensure" ->
         IF Present(s.table) THEN tables
         ELSE [tables EXCEPT ![s.table] = [columns |-> Schema[s.table], rows |-> FALSE]]
    [] s.op = "add" -> [tables EXCEPT ![s.table].columns = @ \cup {s.column}]
    [] s.op = "rename" -> [tables EXCEPT ![s.to] = tables[s.table], ![s.table] = NoTable]
    [] s.op = "create" ->
         [tables EXCEPT ![s.table] = [columns |-> s.columns, rows |-> FALSE]]
    [] s.op = "copy" -> [tables EXCEPT ![s.to].rows = @ \/ tables[s.table].rows]
    [] s.op \in {"drop", "drop_if"} -> [tables EXCEPT ![s.table] = NoTable]
    [] OTHER -> tables

RewrittenAnyway(s) == [texts EXCEPT ![s.text] = s.new]  \* mutant of Rewritten

\* Gated on the exact text that was shipped before.
Rewritten(s) == IF texts[s.text] = s.old THEN [texts EXCEPT ![s.text] = s.new] ELSE texts

\* Two columns are added when they are missing, then SCHEMA; IF NOT EXISTS all through,
\* it is repeated by every start.
Open(p) ==
  LET with == [t \in TableNames |->
        CASE t = "specs" /\ Present(t) -> [tables[t] EXCEPT !.columns = @ \cup {"project_id"}]
          [] t = "change_requests" /\ Present(t) -> [tables[t] EXCEPT !.columns = @ \cup {"risk"}]
          [] OTHER -> tables[t]]
      from == IF stored = NoDatabase THEN Newest ELSE stored
  IN  /\ openers[p] = Closed
      /\ tables' = [t \in TableNames |->
           IF with[t] = NoTable /\ t \in DOMAIN Schema
           THEN [columns |-> Schema[t], rows |-> FALSE] ELSE with[t]]
      /\ stored' = IF stored = NoDatabase THEN 0 ELSE stored
      /\ openers' = [openers EXCEPT ![p] = [version |-> from + 1, statement |-> 1, fk |-> TRUE]]
      /\ UNCHANGED <<texts, versioned, crashes>>

\* One statement of db.exec(migration.sql).
Migrate(p) ==
  LET at == openers[p]
      migration == MIGRATIONS[at.version]
      s == migration[at.statement]
      next == [at EXCEPT !.version = @ + 1, !.statement = 1]
  IN  /\ at.version \in 1..Newest
      /\ IF Fails(s)
         THEN /\ openers' = [openers EXCEPT ![p] = next]
              /\ UNCHANGED <<tables, texts>>
         ELSE /\ openers' = [openers EXCEPT ![p] =
                   [IF at.statement < Len(migration)
                    THEN [at EXCEPT !.statement = @ + 1] ELSE next
                    EXCEPT !.fk = IF s.op = "fk" THEN s.on ELSE @]]
              /\ tables' = Changed(s)
              /\ texts' = IF s.op = "rewrite" THEN Rewritten(s) ELSE texts
      /\ UNCHANGED <<versioned, stored, crashes>>

\* INSERT OR REPLACE of schema_version, then the default skills and their versions; the
\* process may die after either.
SaveVersion(p) ==
  /\ openers[p].version = Newest + 1 /\ openers[p].statement = 1
  /\ stored' = Newest
  /\ openers' = [openers EXCEPT ![p].statement = 2]
  /\ UNCHANGED <<tables, texts, versioned, crashes>>

SeedSkills(p) ==
  /\ openers[p].version = Newest + 1 /\ openers[p].statement = 2
  /\ texts' = [k \in DOMAIN LatestText |->
       IF k \in DOMAIN Shipped /\ texts[k] = Absent THEN LatestText[k] ELSE texts[k]]
  /\ openers' = [openers EXCEPT ![p].statement = 3]
  /\ UNCHANGED <<tables, versioned, stored, crashes>>

SeedVersions(p) ==
  /\ openers[p].version = Newest + 1 /\ openers[p].statement = 3
  /\ versioned' = {k \in DOMAIN Shipped : texts[k] # Absent}
  /\ openers' = [openers EXCEPT ![p].version = Newest + 2]
  /\ UNCHANGED <<tables, texts, stored, crashes>>

Close(p) ==
  /\ Up(p)
  /\ openers' = [openers EXCEPT ![p] = Closed]
  /\ UNCHANGED <<tables, texts, versioned, stored, crashes>>

Die(p) ==
  /\ openers[p] # Closed /\ ~Up(p)
  /\ crashes < MaxCrashes /\ crashes' = crashes + 1
  /\ openers' = [openers EXCEPT ![p] = Closed]
  /\ UNCHANGED <<tables, texts, versioned, stored>>

MigrationsNext == \E p \in Openers :
  Open(p) \/ Migrate(p) \/ SaveVersion(p) \/ SeedSkills(p) \/ SeedVersions(p) \/ Close(p) \/ Die(p)

MigrationsSpec == MigrationsInit /\ [][MigrationsNext]_migrationVars
-----------------------------------------------------------------------------
(* Properties.                                                             *)

HasRows(ts) == \E t \in ts : tables[t].rows

\* An upgrade that nobody interrupts is complete from every earlier version: all columns,
\* the rows in the tables that are read, foreign keys enforced, every shipped text the
\* current one unless it was customized, every skill with a recorded version.
UpgradesAreComplete ==
  \A p \in Openers : Up(p) /\ crashes = 0 =>
    /\ stored = Newest /\ openers[p].fk
    /\ \A t \in DOMAIN Schema : Present(t) /\ tables[t].columns = Schema[t]
    /\ HasRows(Rebuilt) => \A t \in Rebuilt : tables[t].rows
    /\ \A k \in DOMAIN Shipped : texts[k] \in {LatestText[k], Customized} /\ k \in versioned

Reports == {"agent_feedback", "agent_feedback_old", "agent_feedback_v32_old"}
Webhooks == {"webhooks", "webhooks_old"}

\* An interrupted upgrade may leave reports of agents and webhooks in a copy that nobody
\* reads, but drops neither, and never overwrites a skill that was customized.
UpgradesKeepData ==
  [][/\ HasRows(Reports) => HasRows(Reports)'
     /\ HasRows(Webhooks) => HasRows(Webhooks)'
     /\ \A k \in DOMAIN texts : texts[k] = Customized => texts'[k] = Customized]_migrationVars

\* The two together: complete when nobody interrupts, and without loss when somebody does.
UpgradesAreSafe == []UpgradesAreComplete /\ UpgradesKeepData

\* Each migration runs once: no start drops the only copy of the specifications.  A process
\* that dies between DROP TABLE specs and the renaming of its copy leaves version 10
\* stored, and the next start drops the copy.
SpecsSurviveUpgrades ==
  [][HasRows({"specs", "specs_new"}) => HasRows({"specs", "specs_new"})']_migrationVars
=============================================================================
