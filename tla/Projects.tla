------------------------------ MODULE Projects ------------------------------
(***************************************************************************)
(* What the registry keeps about each project (a repository under a        *)
(* project type): its reported manifest, the states of its workspaces, its *)
(* latest code trace, and the agent sessions and compliance attestations   *)
(* of the delivery gate (routes/projects.ts, routes/stubPrompts.ts,        *)
(* routes/agentState.ts, routes/feedback.ts, lib/codeTrace.ts,             *)
(* lib/compliance.ts).                                                     *)
(*                                                                         *)
(* No handler here awaits anything, so each is one step.  Reports write    *)
(* the row of repo_consumers with INSERT OR REPLACE: SQLite deletes every  *)
(* row that collides on a key before it inserts, the rows that reference   *)
(* those with ON DELETE CASCADE go with them, and a plain reference to a   *)
(* row that does not come back fails the statement.                        *)
(***************************************************************************)
EXTENDS Integers, Sequences, FiniteSets

CONSTANTS
  Ids,             \* identities of repo_consumers rows
  Repos, Types,    \* repository names and project types
  Workspaces, Edits,  \* workspaces and the spec edits they report
  Manifests,       \* reported manifests
  Traces,          \* reported code traces
  Policies,        \* compliance policies: the traces each accepts
  DefaultPolicy,   \* the one of a registry that stores none
  MaxAttempts,     \* evaluations of a repository after which its agents are told to halt
  Sessions,        \* agent sessions
  MaxAttestations, \* bound on the rows of compliance_attestations
  NoId, NoRepo, NoTrace  \* the request, or the row, names none

ASSUME ProjectsAssumption ==
  /\ NoId \notin Ids /\ NoRepo \notin Repos /\ NoTrace \notin Traces
  /\ \A accepted \in Policies \cup {DefaultPolicy} : NoTrace \notin accepted
  /\ MaxAttestations \in Nat /\ MaxAttempts \in Nat

VARIABLES
  consumers,   \* table repo_consumers
  issued,      \* ids ever given to a consumer
  referenced,  \* consumers that context_events, specs or llm_usage_reports name
  manifests,   \* table repo_consumer_specs
  states,      \* table agent_states, by consumer and workspace
  traces,      \* table code_trace_reports: the latest report
  policy,      \* table compliance_policies, by project type; one row may be for all of them
  sessions,    \* table agent_sessions
  attestations \* table compliance_attestations, oldest first

telemetry == <<consumers, issued, manifests, states, traces>>
vars == <<telemetry, referenced, policy, sessions, attestations>>
-----------------------------------------------------------------------------
NoConsumer == [row |-> "none"]
NoManifest == "no manifest"
NoEdits == "no state"
NoSession == [status |-> "none"]
NoAttestation == 0

Consumer(repo, type) == [row |-> "consumer", repo |-> repo, type |-> type]

SessionRow == [status : {"active", "completed", "blocked"}, preflight : {"ready", "blocked"},
               type : Types, repo : Repos \cup {NoRepo}, consumer : Ids \cup {NoId},
               finished : BOOLEAN, attestation : 0..MaxAttestations]

AttestationRow == [type : Types, consumer : Ids \cup {NoId}, repo : Repos \cup {NoRepo},
                   compliant : BOOLEAN, iteration : 1..MaxAttestations]

AllTypes == "all types"

TypeOK ==
  /\ consumers \in [Ids -> [row : {"consumer"}, repo : Repos, type : Types] \cup {NoConsumer}]
  /\ referenced \subseteq issued /\ issued \subseteq Ids
  /\ manifests \in [Ids -> Manifests \cup {NoManifest}]
  /\ states \in [Ids -> [Workspaces -> Edits \cup {NoEdits}]]
  /\ traces \in [Ids -> Traces \cup {NoTrace}]
  /\ DOMAIN policy \subseteq Types \cup {AllTypes} /\ \A type \in DOMAIN policy : policy[type] \in Policies
  /\ sessions \in [Sessions -> SessionRow \cup {NoSession}]
  /\ attestations \in Seq(AttestationRow) /\ Len(attestations) <= MaxAttestations

NoStates == [w \in Workspaces |-> NoEdits]

Init ==
  /\ consumers = [i \in Ids |-> NoConsumer]
  /\ issued = {} /\ referenced = {}
  /\ manifests = [i \in Ids |-> NoManifest]
  /\ states = [i \in Ids |-> NoStates]
  /\ traces = [i \in Ids |-> NoTrace]
  /\ policy = <<>>
  /\ sessions = [x \in Sessions |-> NoSession]
  /\ attestations = <<>>
-----------------------------------------------------------------------------
(* Finding and replacing the row of a project.                             *)

Live(i) == i \in Ids /\ consumers[i] # NoConsumer

Matching(repo, type) == {i \in Ids : consumers[i] = Consumer(repo, type)}

\* findProjectConsumer by repository name.
ByRepo(repo, type) ==
  IF Matching(repo, type) = {} THEN NoId ELSE CHOOSE i \in Matching(repo, type) : TRUE

\* findProjectConsumer by id.
ById(i, type) == IF Live(i) /\ consumers[i].type = type THEN i ELSE NoId

\* A request names its project by id, else by repository, else not at all.
Named(project_id, repo, type) ==
  IF project_id # NoId THEN ById(project_id, type) ELSE ByRepo(repo, type)

\* A uuid.
Fresh(i) == i \in Ids \ issued

OnlySameId(i, row) == {i} \cap {j \in Ids : Live(j)}  \* mutant of Replaced
\* The rows INSERT OR REPLACE deletes: same id, or same (repo, project_type_id).
Replaced(i, row) == {j \in Ids : Live(j) /\ (j = i \/ consumers[j] = row)}

CascadeAlways(i, row) == TRUE  \* mutant of ReferencesHold
ReferencesHold(i, row) == (Replaced(i, row) \ {i}) \cap referenced = {}

ReplaceConsumer(i, row, manifest, trace) ==
  LET gone == Replaced(i, row)
      cascade(table, empty) == [j \in Ids |-> IF j \in gone THEN empty ELSE table[j]]
  IN  /\ ReferencesHold(i, row)
      /\ consumers' = [cascade(consumers, NoConsumer) EXCEPT ![i] = row]
      /\ issued' = issued \cup {i}
      /\ manifests' = [cascade(manifests, NoManifest) EXCEPT ![i] = manifest]
      /\ states' = cascade(states, NoStates)
      /\ traces' = [cascade(traces, NoTrace) EXCEPT ![i] = trace]

\* persistCodeTrace fails where its consumer is gone.
StoreTrace(i, trace) ==
  /\ Live(i)
  /\ traces' = [traces EXCEPT ![i] = trace]
  /\ UNCHANGED <<consumers, issued, manifests, states>>

\* ensureConsumer: the project asked for by id, else the one of the repository,
\* else a new one; its row then says the repository of the request.
EnsureConsumer(i, project_id, repo, type, trace) ==
  LET known == {j \in {ById(project_id, type)} : j # NoId}
      same == {j \in {ByRepo(repo, type)} : j # NoId}
  IN  /\ IF known # {} THEN i \in known
         ELSE IF same # {} THEN i \in same
         ELSE Fresh(i)
      /\ ReplaceConsumer(i, Consumer(repo, type), NoManifest, trace)
-----------------------------------------------------------------------------
(* Reports.                                                                *)

\* POST /projects
CreateProject(i, repo, type) ==
  /\ ByRepo(repo, type) = NoId /\ Fresh(i)
  /\ consumers' = [consumers EXCEPT ![i] = Consumer(repo, type)]
  /\ issued' = issued \cup {i}
  /\ UNCHANGED <<manifests, states, traces, referenced, policy, sessions, attestations>>

\* POST /cli/manifest-report
ManifestReport(i, repo, type, manifest) ==
  /\ IF ByRepo(repo, type) # NoId THEN i = ByRepo(repo, type) ELSE Fresh(i)
  /\ ReplaceConsumer(i, Consumer(repo, type), manifest, NoTrace)
  /\ UNCHANGED <<referenced, policy, sessions, attestations>>

\* POST /cli/code-trace-report
CodeTraceReport(i, project_id, repo, type, trace) ==
  /\ EnsureConsumer(i, project_id, repo, type, trace)
  /\ UNCHANGED <<referenced, policy, sessions, attestations>>

\* POST /cli/agent-state
StatePush(w, repo, type, edits) ==
  LET i == ByRepo(repo, type)
  IN  /\ i # NoId
      /\ states' = [states EXCEPT ![i][w] = edits]
      /\ UNCHANGED <<consumers, issued, manifests, traces, referenced, policy, sessions,
                     attestations>>

\* Specs served to a project, specs scoped to it and token usage of it name it.
Reference(i) ==
  /\ Live(i)
  /\ referenced' = referenced \cup {i}
  /\ UNCHANGED <<telemetry, policy, sessions, attestations>>
-----------------------------------------------------------------------------
(* The delivery gate.                                                      *)

\* PUT /compliance-policies, of a project type or of all
SetPolicy(type, accepted) ==
  /\ policy' = [t \in DOMAIN policy \cup {type} |-> IF t = type THEN accepted ELSE policy[t]]
  /\ UNCHANGED <<telemetry, referenced, sessions, attestations>>

\* The policy of the type, else that of all types, else the default.
GetCompliancePolicy(type) ==
  CASE type \in DOMAIN policy -> policy[type]
    [] type \notin DOMAIN policy /\ AllTypes \in DOMAIN policy -> policy[AllTypes]
    [] OTHER -> DefaultPolicy

\* What a gate does first with the trace of its request, if there is one.
ReceiveTrace(known, project_id, repo, type, trace) ==
  CASE trace = NoTrace -> UNCHANGED telemetry
    [] trace # NoTrace /\ known # NoId -> StoreTrace(known, trace)
    [] trace # NoTrace /\ known = NoId /\ repo = NoRepo -> UNCHANGED telemetry
    [] trace # NoTrace /\ known = NoId /\ repo # NoRepo ->
         \E i \in Ids : EnsureConsumer(i, project_id, repo, type, trace)

\* The signals a gate judges: the trace of the request, else the stored one.
StoredSignals(i) == IF i # NoId THEN traces[i] ELSE NoTrace
Signals(known, trace) == IF trace # NoTrace THEN trace ELSE StoredSignals(known)

\* The project a gate judges: the known one, else the one its trace was stored for.
Judged(known, repo, type, trace) ==
  IF known # NoId \/ trace = NoTrace \/ repo = NoRepo THEN known
  ELSE CHOOSE i \in Ids : consumers'[i] = Consumer(repo, type)

\* Evaluations of a repository are numbered, whoever asked for them and whatever they said;
\* those of no repository are all the first.
Iteration(repo) == 1 + Cardinality({n \in DOMAIN attestations : repo # NoRepo /\ attestations[n].repo = repo})

\* evaluateCompliance
Attestation(consumer, repo, type, signals) ==
  [type |-> type, consumer |-> consumer, repo |-> repo, compliant |-> signals \in GetCompliancePolicy(type),
   iteration |-> Iteration(repo)]

\* What the agent is told to do next.
Directive(n) ==
  IF attestations[n].compliant THEN "complete"
  ELSE IF attestations[n].iteration >= MaxAttempts THEN "halt" ELSE "continue"

Attest(consumer, repo, type, signals) ==
  /\ Len(attestations) < MaxAttestations
  /\ attestations' = Append(attestations, Attestation(consumer, repo, type, signals))

RepoOf(i, otherwise) == IF i # NoId THEN consumers[i].repo ELSE otherwise

\* POST /ai/compliance-check, and finish without a session
ComplianceCheck(project_id, repo, type, trace) ==
  LET project == Named(project_id, repo, type)
  IN  /\ ReceiveTrace(project, project_id, repo, type, trace)
      /\ Attest(Judged(project, repo, type, trace), RepoOf(project, repo), type,
                Signals(project, trace))
      /\ UNCHANGED <<referenced, policy, sessions>>

\* POST /ai/agent-sessions/begin: a session is blocked when no governed spec
\* applies to it; only a session with specs records a context event.
BeginSession(x, project_id, repo, type, preflight) ==
  LET project == Named(project_id, repo, type)
  IN  /\ sessions[x] = NoSession
      /\ sessions' = [sessions EXCEPT ![x] =
           [status |-> IF preflight = "ready" THEN "active" ELSE "blocked",
            preflight |-> preflight, type |-> type, repo |-> RepoOf(project, repo),
            consumer |-> project, finished |-> FALSE, attestation |-> NoAttestation]]
      /\ referenced' = IF preflight = "ready" /\ project # NoId
                         THEN referenced \cup {project} ELSE referenced
      /\ UNCHANGED <<telemetry, policy, attestations>>

LatestBefore(repo, rows) ==  \* mutant of Latest
  LET own == {n \in DOMAIN attestations : repo # NoRepo /\ attestations[n].repo = repo}
  IN  IF own = {} THEN NoAttestation ELSE CHOOSE n \in own : \A k \in own : k <= n
\* The newest attestation of the repository, none without a repository.
Latest(repo, rows) ==
  LET own == {n \in DOMAIN rows : repo # NoRepo /\ rows[n].repo = repo}
  IN  IF own = {} THEN NoAttestation ELSE CHOOSE n \in own : \A k \in own : k <= n

\* POST /ai/agent-sessions/finish, as often as the agent likes: the session's own
\* project, else the one the request names.
FinishSession(x, project_id, repo, trace) ==
  LET own == sessions[x].consumer
      type == sessions[x].type
      project == IF own # NoId THEN ById(own, type) ELSE Named(project_id, repo, type)
      known == IF project # NoId THEN project ELSE own
      claimed == IF sessions[x].repo # NoRepo THEN sessions[x].repo ELSE repo
      subject == RepoOf(project, claimed)
  IN  /\ sessions[x] # NoSession
      /\ ReceiveTrace(known, project_id, repo, type, trace)
      /\ Attest(Judged(known, repo, type, trace), subject, type, Signals(known, trace))
      /\ sessions' = [sessions EXCEPT
           ![x].status = IF attestations'[Len(attestations')].compliant THEN "completed" ELSE "blocked",
           ![x].finished = TRUE,
           ![x].attestation = Latest(subject, attestations')]
      /\ UNCHANGED <<referenced, policy>>
-----------------------------------------------------------------------------
Next ==
  \/ \E i \in Ids, repo \in Repos, type \in Types :
        \/ CreateProject(i, repo, type)
        \/ \E m \in Manifests : ManifestReport(i, repo, type, m)
        \/ \E project_id \in Ids \cup {NoId}, trace \in Traces :
              CodeTraceReport(i, project_id, repo, type, trace)
  \/ \E w \in Workspaces, repo \in Repos, type \in Types, edits \in Edits :
        StatePush(w, repo, type, edits)
  \/ \E i \in Ids : Reference(i)
  \/ \E type \in Types \cup {AllTypes}, accepted \in Policies : SetPolicy(type, accepted)
  \/ \E project_id \in Ids \cup {NoId}, repo \in Repos \cup {NoRepo} :
        \/ \E type \in Types, trace \in Traces \cup {NoTrace} :
              ComplianceCheck(project_id, repo, type, trace)
        \/ \E x \in Sessions, type \in Types, preflight \in {"ready", "blocked"} :
              BeginSession(x, project_id, repo, type, preflight)
        \/ \E x \in Sessions, trace \in Traces \cup {NoTrace} :
              FinishSession(x, project_id, repo, trace)

Spec == Init /\ [][Next]_vars
-----------------------------------------------------------------------------
(* Properties.                                                             *)

\* A repository has one row per project type, whichever reports, renames and
\* creations came in which order: a second row would split its evidence.
OneProjectPerRepo ==
  \A i, j \in Ids : Live(i) /\ consumers[i] = consumers[j] => i = j

\* Rows stay well-formed and one per repository and type.
ProjectsAreUnique == TypeOK /\ OneProjectPerRepo

\* The project of a session that passed preflight is there when the session
\* finishes: no report of another project replaces it.  Nothing in agent_sessions
\* refers to the row; what holds it is the context event of begin, so a session
\* blocked at preflight has no such protection.
SessionsKeepTheirProject ==
  \A x \in Sessions :
    sessions[x] # NoSession /\ sessions[x].preflight = "ready" /\ sessions[x].consumer # NoId =>
      Live(sessions[x].consumer) /\ consumers[sessions[x].consumer].type = sessions[x].type

\* The attestation a session is linked to is the one its own finish recorded:
\* compliant exactly when the session is completed, of its project type, and of
\* no other session; a session with a repository never completes without one.  An agent that
\* was told to halt is never told to continue on that repository again, under whatever
\* policies, and told to halt only after as many evaluations.
EvidenceIsOwn ==
  /\ \A x \in Sessions : sessions[x] # NoSession =>
       LET n == sessions[x].attestation
       IN  /\ n # NoAttestation =>
                /\ attestations[n].type = sessions[x].type
                /\ attestations[n].compliant <=> sessions[x].status = "completed"
                /\ \A y \in Sessions \ {x} : sessions[y] = NoSession \/ sessions[y].attestation # n
           /\ sessions[x].status = "completed" /\ sessions[x].repo # NoRepo => n # NoAttestation /\ Directive(n) = "complete"
  /\ \A n \in DOMAIN attestations : Directive(n) = "halt" =>
       LET same == {k \in DOMAIN attestations : attestations[k].repo = attestations[n].repo}
       IN /\ attestations[n].repo # NoRepo => Cardinality({k \in same : k <= n}) >= MaxAttempts
          /\ \A k \in same : k > n => Directive(k) # "continue"

\* AGENT_STATE_SYNC.md, requirement 4: the state of a workspace is retained until
\* that workspace reports a later one.
WorkspaceStatesAreKept ==
  [][\A i \in Ids, w \in Workspaces :
       Live(i) /\ consumers'[i] = consumers[i] /\ states[i][w] # NoEdits => states'[i][w] # NoEdits]_vars
=============================================================================
