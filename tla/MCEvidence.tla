----------------------------- MODULE MCEvidence -----------------------------
(***************************************************************************)
(* An instance of Evidence for TLC: one repository under two project types *)
(* and two specs, a global one and one of a project.                       *)
(***************************************************************************)
EXTENDS Evidence, TLC

CONSTANTS app, i1, i2, shared, owned, listed, high, low, a, b, f1

TwoTypes == {"web", "api"}
SpecTypes == shared :> "base" @@ owned :> "web"
SpecOwners == shared :> NoId @@ owned :> i1
SectionTokens == a :> 1 @@ b :> 2
TraceLinks == high :> {} @@ low :> {<<f1, shared, a>>}
ListedVersions == listed :> [s \in Specs |-> 1]
AcceptLow == {low}
NoPolicies == {}

Filenames == [s \in Specs |-> "AGENTS.md"]

VARIABLE focus

MCInit == focus \in {"contexts", "usage", "audits", "insights", "feedback", "reports"} /\ EvidenceInit

TypeIn(i) == IF i = i1 THEN "web" ELSE "api"
Creating == \E i \in Ids : CreateProject(i, app, TypeIn(i)) /\ UNCHANGED evidence
BeginningApp == Begin(1, NoId, app, "web")

\* The reports of contexts and of usage read neither traces nor manifests; the audits read no day,
\* the insights in the harness no review.
MCNext ==
  /\ UNCHANGED focus
  /\ \/ /\ focus = "contexts"
        /\ \/ Creating
           \/ BeginningApp
           \/ GetSpecs(i2, "api")
           \/ \E found \in SUBSET Sections(shared) : shared \in Bundle("web", i1) /\ Search("search", i1, "web", found)
           \/ \E q \in searches : Answer(q)
           \/ specs[owned].version = 0 /\ Publish(owned, {b})
           \/ \E sections \in {{a}, {a, b}} : Publish(shared, sections)
           \/ NextDay
     \/ /\ focus = "usage"
        /\ \/ Creating
           \/ BeginningApp
           \/ Reporting({1}, {0, 3})
           \/ CompileSpecs(NoId, "web") \/ AgentPack(i1, "web")
           \/ specs[shared].version = 0 /\ Publish(shared, {a, b})
           \/ NextDay
     \/ /\ focus = "audits"
        /\ \/ Registering(i1, NoId, app, "web")
           \/ Creating
           \/ Judging(NoId, app)
           \/ BeginningApp
           \/ Discussing(owned) /\ (pending' = {} \/ feedback' = <<>>) /\ Len(feedback') < MaxFeedback
           \/ specs[owned].version = 0 /\ Publish(owned, {b})
           \/ Publish(shared, {a})
        /\ Len(attestations') < MaxAttestations
     \/ /\ focus = "reports"
        /\ \/ CreateProject(i1, app, "web") /\ UNCHANGED evidence
           \/ BeginningApp \/ Begin(1, NoId, NoRepo, "web")
           \/ Judging(NoId, app)
           \/ /\ sessions[1] # NoSession /\ sessions[1].repo = NoRepo /\ sessions[1].finished
              /\ FinishSession(1, NoId, NoRepo, low) /\ UNCHANGED evidence
           \/ ReportUsage(1, NoId, 1, 1, 0)
           \/ Publish(shared, {a})
           \/ AuditProject(i1) \/ AuditSpec(shared) \/ AuditRun(1)
           \/ \E r \in Releases : r.loaded = {shared} /\ r.missing \in {{}, Validations} /\ AuditRelease(i1, r)
     \/ /\ focus = "insights"
        /\ \/ Creating
           \/ \E x \in Sessions : Begin(x, NoId, app, "web")
           \/ \E x \in Sessions, trace \in {low, NoTrace} : FinishSession(x, NoId, app, trace) /\ UNCHANGED evidence
           \/ specs[shared].version = 0 /\ Publish(shared, {b})
           \/ NextDay
     \/ /\ focus = "feedback"
        /\ \/ CreateProject(i1, app, "web") /\ UNCHANGED evidence
           \/ \E s \in Specs : specs[s].version = 0 /\ Publish(s, {b})
           \/ \E s \in Specs, kind \in Kinds, words \in Wordings : ReportFeedback(s, kind, words)
           \/ ReportingGaps
           \/ \E n \in DOMAIN feedback : TriageFeedback(n)

MCSpec == MCInit /\ [][MCNext]_<<evidenceVars, focus>>
=============================================================================
