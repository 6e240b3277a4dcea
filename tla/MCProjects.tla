----------------------------- MODULE MCProjects -----------------------------
(***************************************************************************)
(* A small instance of Projects for TLC: a trace that satisfies the        *)
(* lenient policy only, and one that satisfies both.  A behaviour follows  *)
(* the gate under the default policy, which is strict, the gate under      *)
(* policies that change, or the reports of workspaces.                     *)
(***************************************************************************)
EXTENDS Projects, TLC

CONSTANTS weak, strong

BothPolicies == {{weak, strong}, {strong}}
Strict == {strong}

VARIABLE focus

Registering(i, repo, type) ==
  \/ CreateProject(i, repo, type)
  \/ \E project_id \in Ids \cup {NoId} : CodeTraceReport(i, project_id, repo, type, strong)

Gate ==
  \/ \E i \in Ids, repo \in Repos, type \in Types : Registering(i, repo, type)
  \/ \E project_id \in Ids \cup {NoId}, repo \in Repos \cup {NoRepo}, type \in Types :
       \/ \E x \in Sessions, preflight \in {"ready", "blocked"} :
             BeginSession(x, project_id, repo, type, preflight)
       \/ \E trace \in {strong, NoTrace} :
             \/ ComplianceCheck(project_id, repo, type, trace)
             \/ \E x \in Sessions : FinishSession(x, project_id, repo, trace)

\* One repository, whose agents evaluate it until they are told to halt; a trace that both
\* policies accept changes nothing here.
Changing ==
  \/ \E type \in Types \cup {AllTypes}, accepted \in Policies : SetPolicy(type, accepted)
  \/ \E type \in Types, x \in Sessions : BeginSession(x, NoId, CHOOSE repo \in Repos : TRUE, type, "ready")
  \/ \E trace \in {weak, NoTrace}, repo \in {CHOOSE repo \in Repos : TRUE} :
       \/ \E x \in Sessions : FinishSession(x, NoId, repo, trace)
       \/ \E type \in Types : ComplianceCheck(NoId, repo, type, trace)

Reports == Next /\ sessions' = sessions /\ policy' = policy /\ Len(attestations') <= 1

MCInit == focus \in {"gate", "policies", "reports"} /\ Init

MCNext ==
  /\ UNCHANGED focus
  /\ \/ focus = "gate" /\ Gate /\ Len(attestations') <= 2
     \/ focus = "policies" /\ Changing
     \/ focus = "reports" /\ Reports

MCSpec == MCInit /\ [][MCNext]_<<vars, focus>>

Interchangeable == Permutations(Sessions) \cup Permutations(Ids)
=============================================================================
