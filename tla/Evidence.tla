------------------------------ MODULE Evidence ------------------------------
(***************************************************************************)
(* What the registry reports of the work of agents: the contexts delivered *)
(* to them, the tokens they used, the audits of projects, releases, runs   *)
(* and specs, and the section evidence of a project (lib/tokenUsage.ts and *)
(* the reports of routes/admin.ts), over the projects, sessions and        *)
(* attestations of Projects.                                               *)
(*                                                                         *)
(* A trace is opaque to the gate; the reports read its links and its       *)
(* drift, and the versions a manifest lists.                               *)
(* Specs are published by SpecLifecycle; here a publication is one step.   *)
(***************************************************************************)
EXTENDS Projects, FiniteSetsExt, Functions

CONSTANTS
  Specs, Anchors,  \* specs and the sections they may have
  Global,          \* the project type that governs every project
  TypeOf, Owner,   \* the project type of each spec, and its project or NoId
  Tokens,          \* the estimated tokens of the text under each anchor
  Reported,        \* the version of each spec a manifest lists, or 0
  Files,           \* files of the repositories
  Links, HighDrift,\* of each trace its links <<file, spec, anchor>>; the traces of high drift
  NameOf,          \* the filename of each spec
  Wordings, Topics,\* the long words of a report of feedback; what guidance is missing on
  Validations,     \* what a release reports: tests, checks, approvals, a commit trailer
  Expensive,       \* tokens from which a section counts as expensive (250)
  SpecRows, SectionRows, SessionRows,  \* rows of a token report's groupings (100, 200, 100)
  RunRows,         \* sessions a governance audit looks at (20)
  MaxVersion, MaxEvents, MaxUsage, MaxFeedback, MaxReports, LastDay,  \* bounds
  Window           \* days a token report covers

NoSessionId == 0
NoSpecId == "no spec"
NoTopic == "no topic"

\* Texts have finitely many sections, and ids and keys finitely many bits; no spec has the
\* id that stands for none.
ASSUME EvidenceAssumption ==
  /\ IsFiniteSet(Ids) /\ IsFiniteSet(Specs) /\ IsFiniteSet(Anchors)
  /\ NoSpecId \notin Specs /\ Tokens \in [Anchors -> Nat] /\ LastDay \in Nat
  /\ Sessions \subseteq Nat \ {0} /\ IsFiniteSet(Sessions)
  /\ {SpecRows, SectionRows, SessionRows, RunRows} \subseteq Nat \ {0}

VARIABLES
  specs,     \* [version, sections] of each spec; version 0 is a draft
  pending,   \* specs with a pending change request
  feedback,  \* table agent_feedback: reports about a spec, or about guidance a type lacks
  reviewed,  \* specs that ever had a change request
  measured,  \* specs with efficacy runs
  reports,   \* table audit_reports: [kind, subject, status]
  events,    \* table context_events, each with its context_event_sections
  usage,     \* table llm_usage_reports
  searches,  \* searches under way
  today

library == <<specs, pending, feedback, reviewed, measured, reports>>
evidence == <<library, events, usage, searches, today>>
evidenceVars == <<vars, evidence>>

\* What is reported of a spec; "missing_guidance" is reported of a project type.
Kinds == {"contradiction", "ambiguity"}
-----------------------------------------------------------------------------
\* What a project is served, and what its audits take for its own: they do not
\* leave out the specs of other projects of its type.

Published(s) == specs[s].version > 0

Bundle(type, i) ==
  {s \in Specs : Published(s) /\ IF Owner[s] = NoId THEN TypeOf[s] \in {type, Global} ELSE Owner[s] = i}

OfProject(s, i) == TypeOf[s] = consumers[i].type \/ Owner[s] = i

Governing(i) == {s \in Specs : Published(s) /\ (TypeOf[s] = Global \/ OfProject(s, i))}

\* projectSpecCurrency
Outdated(i) ==
  {s \in Bundle(consumers[i].type, i) :
     manifests[i] # NoManifest /\ Reported[manifests[i]][s] \notin {0, specs[s].version}}

\* The sections of a spec, with their estimated tokens.
Sections(s) == {[spec |-> s, version |-> specs[s].version, anchor |-> a, tokens |-> Tokens[a]]
                : a \in specs[s].sections}
SectionsOf(bundle) == UNION {Sections(s) : s \in bundle}

TokensOf(sections) == SumFunction([e \in sections |-> e.tokens])
-----------------------------------------------------------------------------
\* Recording.

EvidenceInit ==
  /\ Init
  /\ specs = [s \in Specs |-> [version |-> 0, sections |-> {}]]
  /\ pending = {} /\ feedback = <<>> /\ reviewed = {} /\ measured = {} /\ reports = {}
  /\ events = <<>> /\ usage = <<>> /\ searches = {} /\ today = 0

ServedTokens(sections) ==  \* mutant of EventTokens
  SumFunction([s \in {e.spec : e \in sections} |-> TokensOf(Sections(s))])
EventTokens(sections) == TokensOf(sections)

\* recordContextEvent: a context without sections is not recorded.
RecordContext(type, consumer, session, sections) ==
  IF sections = {} THEN UNCHANGED events
  ELSE /\ Len(events) < MaxEvents
       /\ events' = Append(events, [type |-> type, consumer |-> consumer, session |-> session,
            day |-> today, sections |-> sections, tokens |-> EventTokens(sections),
            count |-> Cardinality(sections)])

Requested(i, type) == i # NoId => Live(i) /\ consumers[i].type = type

\* What is delivered to a project, or to somebody who names none.
Deliver(event, i, sections) ==
  /\ RecordContext(event, i, NoSessionId, sections)
  /\ referenced' = referenced \cup (IF sections = {} THEN {} ELSE {i} \ {NoId})
  /\ UNCHANGED <<telemetry, policy, sessions, attestations, library, usage, today>>

\* GET /ai/specs/:projectType
GetSpecs(i, type) ==
  /\ Requested(i, type)
  /\ Deliver("get_specs", i, SectionsOf(Bundle(type, i)))
  /\ UNCHANGED searches

\* GET /specs/:key/compile
CompileSpecs(i, type) ==
  /\ Requested(i, type)
  /\ Deliver("compile", i, SectionsOf(Bundle(type, i)))
  /\ UNCHANGED searches

\* GET /specs/:key/agent-pack
AgentPack(i, type) ==
  /\ Requested(i, type)
  /\ Deliver("agent_pack", i, SectionsOf(Bundle(type, i)))
  /\ UNCHANGED searches

\* GET /ai/search and POST /ai/resolve-guidance: the project is looked up, the search is
\* awaited, and what it found is recorded.
Search(event, i, type, found) ==
  /\ searches = {}
  /\ Requested(i, type)
  /\ found \subseteq SectionsOf(Bundle(type, i))
  /\ searches' = {[event |-> event, consumer |-> i, found |-> found]}
  /\ UNCHANGED <<vars, library, events, usage, today>>

\* The answer reads the text again; a section that has gone keeps the excerpt.  When the
\* project's row was replaced meanwhile the event refers to nothing, and the request fails.
Answer(q) ==
  /\ searches' = searches \ {q}
  /\ IF q.consumer = NoId \/ Live(q.consumer) THEN Deliver(q.event, q.consumer, q.found)
     ELSE UNCHANGED <<vars, library, events, usage, today>>

\* POST /ai/agent-sessions/begin: sessions are numbered in the order they begin.
Begin(x, project_id, repo, type) ==
  LET project == Named(project_id, repo, type)
      bundle == Bundle(type, project)
  IN /\ \A y \in Sessions : y < x <=> sessions[y] # NoSession
     /\ BeginSession(x, project_id, repo, type, IF bundle = {} THEN "blocked" ELSE "ready")
     /\ RecordContext("begin_task", project, x, SectionsOf(bundle))
     /\ UNCHANGED <<library, usage, searches, today>>

\* recordLlmUsageReport: a total below its parts is not believed.
UsageTotal(prompt, completion, claimed) == IF claimed > prompt + completion THEN claimed ELSE prompt + completion

\* POST /ai/token-usage: at least the sum of the parts, and never nothing.
ReportUsage(x, i, prompt, completion, claimed) ==
  LET total == UsageTotal(prompt, completion, claimed)
      project == IF x # NoSessionId /\ sessions[x].consumer # NoId THEN sessions[x].consumer ELSE i
  IN /\ x # NoSessionId => sessions[x] # NoSession
     /\ total > 0
     /\ i # NoId => Live(i)
     /\ project # NoId => Live(project)
     /\ Len(usage) < MaxUsage
     /\ usage' = Append(usage, [consumer |-> project, session |-> x, day |-> today,
          prompt |-> prompt, completion |-> completion, total |-> total])
     /\ referenced' = referenced \cup ({project} \ {NoId})
     /\ UNCHANGED <<telemetry, policy, sessions, attestations, library, events, searches, today>>

NextDay == today < LastDay /\ today' = today + 1 /\ UNCHANGED <<vars, library, events, usage, searches>>
-----------------------------------------------------------------------------
\* The library, which other modules model in detail.

\* A spec of a project refers to its row.
Publish(s, sections) ==
  /\ specs[s].version < MaxVersion
  /\ Owner[s] # NoId => Live(Owner[s]) /\ consumers[Owner[s]].type = TypeOf[s]
  /\ specs' = [specs EXCEPT ![s] = [version |-> @.version + 1, sections |-> sections]]
  /\ pending' = pending \ {s}
  /\ referenced' = referenced \cup ({Owner[s]} \ {NoId})
  /\ UNCHANGED <<telemetry, policy, sessions, attestations, feedback, reviewed, measured, reports, events, usage,
                 searches, today>>

Discuss(pendingNow, feedbackNow, measuredNow) ==
  /\ pending' = pendingNow /\ feedback' = feedbackNow /\ measured' = measuredNow
  /\ reviewed' = reviewed \cup pendingNow
  /\ UNCHANGED <<vars, specs, reports, events, usage, searches, today>>

OpenReview(s) == Published(s) /\ Discuss(pending \cup {s}, feedback, measured)
RejectReview(s) == s \in pending /\ Discuss(pending \ {s}, feedback, measured)

\* POST /ai/feedback
StoreFeedback(kind, s, type, words, topic) ==
  /\ Len(feedback) < MaxFeedback
  /\ Discuss(pending, Append(feedback, [kind |-> kind, spec |-> s, type |-> type, words |-> words,
                                        topic |-> topic, open |-> TRUE]), measured)
ReportFeedback(s, kind, words) == Published(s) /\ StoreFeedback(kind, s, TypeOf[s], words, NoTopic)
ReportGap(type, words, topic) == StoreFeedback("missing_guidance", NoSpecId, type, words, topic)

TriageFeedback(n) == feedback[n].open /\ Discuss(pending, [feedback EXCEPT ![n].open = FALSE], measured)
MeasureEfficacy(s) == Published(s) /\ Discuss(pending, feedback, measured \cup {s})
-----------------------------------------------------------------------------
\* The token report.

Recent(day, days) == day + days >= today
\* A row counts when it is recent; section rows when their event is.
Covered(e, days) == Recent(e.day, days)

\* Its context events: of the window, of a project when asked for one, of a session
\* when asked for one.
Contexts(days, i, x) ==
  {n \in DOMAIN events : /\ Covered(events[n], days)
                         /\ i # NoId => events[n].consumer = i
                         /\ x # NoSessionId => events[n].session = x}

\* The rows of context_event_sections of these events.
Delivered(contexts) == UNION {{<<n, e>> : e \in events[n].sections} : n \in contexts}

TokensOfRows(rows) == SumFunction([d \in rows |-> d[2].tokens])

\* Of the groups of a report, the largest that fit (ORDER BY ... DESC LIMIT).
Fitting(groups, limit, top) ==
  Cardinality(top) = limit /\ \A g \in top, h \in DOMAIN groups \ top : groups[g] >= groups[h]
Largest(groups, limit) ==
  IF Cardinality(DOMAIN groups) <= limit THEN DOMAIN groups
  ELSE CHOOSE top \in SUBSET DOMAIN groups : Fitting(groups, limit, top)
Listed(groups, limit) == [g \in Largest(groups, limit) |-> groups[g]]

SpecGroups(contexts) ==
  [s \in {d[2].spec : d \in Delivered(contexts)} |->
     TokensOfRows({d \in Delivered(contexts) : d[2].spec = s})]
BySpec(contexts) == Listed(SpecGroups(contexts), SpecRows)

SectionGroups(contexts) ==
  [p \in {<<d[2].spec, d[2].anchor>> : d \in Delivered(contexts)} |->
     TokensOfRows({d \in Delivered(contexts) : <<d[2].spec, d[2].anchor>> = p})]
BySection(contexts) == Listed(SectionGroups(contexts), SectionRows)

TokensOfEvents(contexts) == SumFunction([n \in contexts |-> events[n].tokens])
ByEventType(contexts) ==
  [t \in {events[n].type : n \in contexts} |-> TokensOfEvents({n \in contexts : events[n].type = t})]

Trend(contexts) ==
  [d \in {events[n].day : n \in contexts} |-> TokensOfEvents({n \in contexts : events[n].day = d})]

SessionGroups(contexts) ==
  [x \in {events[n].session : n \in contexts} \ {NoSessionId} |->
     TokensOfEvents({n \in contexts : events[n].session = x})]
BySession(contexts) == Listed(SessionGroups(contexts), SessionRows)

\* Real usage is grouped by provider and model, by project and by day.
Spent(rows) == SumFunction([n \in rows |-> usage[n].total])
UsageRows(days, i, x) ==
  {n \in DOMAIN usage : /\ Recent(usage[n].day, days)
                        /\ i # NoId => usage[n].consumer = i
                        /\ x # NoSessionId => usage[n].session = x}

\* The row of a project: its contexts and its usage.
ByProject(days, i) == [projected |-> TokensOfEvents(Contexts(days, i, NoSessionId)),
                       real |-> Spent(UsageRows(days, i, NoSessionId))]

\* Section evidence of a project: the sections its bundle serves now, whether its latest
\* trace links them and how often they were ever delivered to it.
LinkedSection(i, s, a) == traces[i] # NoTrace /\ \E f \in Files : <<f, s, a>> \in Links[traces[i]]
Deliveries(i, s, a) ==
  Cardinality({d \in Delivered(Contexts(LastDay, i, NoSessionId)) : d[2].spec = s /\ d[2].anchor = a})
SectionEvidence(i) ==
  {[section |-> e, linked |-> LinkedSection(i, e.spec, e.anchor),
    deliveries |-> Deliveries(i, e.spec, e.anchor)]
   : e \in SectionsOf(Bundle(consumers[i].type, i))}
-----------------------------------------------------------------------------
\* Audits: a status from a list of warnings.

If(condition, warning) == IF condition THEN {warning} ELSE {}
AuditStatus(failing, warnings) ==
  IF failing THEN "fail" ELSE IF warnings # {} THEN "warning" ELSE "pass"

\* Attestations of the project, or of its repository under whichever project type.
Evaluations(i) ==
  {n \in DOMAIN attestations : attestations[n].consumer = i \/ attestations[n].repo = consumers[i].repo}

Newest(rows) == IF rows = {} THEN NoAttestation ELSE Max(rows)
Failing(n) == n # NoAttestation /\ ~attestations[n].compliant

RunsOf(i) ==
  {x \in Sessions : sessions[x] # NoSession
                    /\ (sessions[x].consumer = i \/ sessions[x].repo = consumers[i].repo)}
\* The newest of them
After(x, i) == {y \in RunsOf(i) : y > x}
RecentRuns(i) == {x \in RunsOf(i) : Cardinality(After(x, i)) < RunRows}

OpenReports == {n \in DOMAIN feedback : feedback[n].open}
OwnerOf(n) == IF feedback[n].spec = NoSpecId THEN NoId ELSE Owner[feedback[n].spec]
\* The audits list the newest 25 of either and warn when there is one.
OpenFeedback(i) == {n \in OpenReports : feedback[n].type = consumers[i].type \/ OwnerOf(n) = i}
PendingReviews(i) == {s \in pending : OfProject(s, i)}

\* buildProjectGovernanceAudit
GovernanceWarnings(i) ==
  If(Failing(Newest(Evaluations(i))), "compliance failed")
    \cup If(Evaluations(i) = {}, "no attestation")
    \cup If(traces[i] = NoTrace, "no trace")
    \cup If(Outdated(i) # {}, "outdated specs")
    \cup If(traces[i] \in HighDrift, "high drift")
    \cup If(OpenFeedback(i) # {}, "open feedback")
    \cup If(PendingReviews(i) # {}, "pending reviews")
    \cup If(\E x \in RecentRuns(i) : sessions[x].status = "blocked", "blocked sessions")
GovernanceStatus(i) == AuditStatus(Failing(Newest(Evaluations(i))), GovernanceWarnings(i))

\* buildReleaseAudit, of the changed files and loaded specs of r, and of the validations it
\* does not report: each is a risk of its own.
Releases == [files : SUBSET Files, loaded : SUBSET Specs, missing : SUBSET Validations]

MappedSpecs(i, f) == IF traces[i] = NoTrace THEN {} ELSE {l[2] : l \in {k \in Links[traces[i]] : k[1] = f}}
Unmapped(i, r) == {f \in r.files : MappedSpecs(i, f) = {}}

OutdatedUnseen(i, r) ==  \* mutant of RiskReasons
  If(Failing(Newest(Evaluations(i))), "compliance failed")
    \cup If(Evaluations(i) = {}, "no attestation")
    \cup If(traces[i] = NoTrace, "no trace")
    \cup If(traces[i] \in HighDrift, "high drift")
    \cup If(Unmapped(i, r) # {}, "unmapped files")
    \cup r.missing
    \cup If(PendingReviews(i) # {}, "pending reviews")
    \cup If(OpenFeedback(i) # {}, "open feedback")
RiskReasons(i, r) ==
  If(Failing(Newest(Evaluations(i))), "compliance failed")
    \cup If(Evaluations(i) = {}, "no attestation")
    \cup If(traces[i] = NoTrace, "no trace")
    \cup If(traces[i] \in HighDrift, "high drift")
    \cup If(Unmapped(i, r) # {}, "unmapped files")
    \cup If(Outdated(i) # {}, "outdated specs")
    \cup r.missing
    \cup If(PendingReviews(i) # {}, "pending reviews")
    \cup If(OpenFeedback(i) # {}, "open feedback")

RolloutLevel(i, r) ==
  IF Failing(Newest(Evaluations(i))) THEN "high"
  ELSE IF Cardinality(RiskReasons(i, r)) >= 4 \/ Unmapped(i, r) # {} THEN "medium" ELSE "low"

MissingLoaded(i, r) ==
  {s \in Governing(i) : r.loaded # {} /\ \A t \in r.loaded : NameOf[t] # NameOf[s]}

ReleaseWarnings(i, r) ==
  RiskReasons(i, r) \cup If(r.loaded = {}, "nothing loaded") \cup If(MissingLoaded(i, r) # {}, "specs not loaded")
ReleaseStatus(i, r) == AuditStatus(Failing(Newest(Evaluations(i))), ReleaseWarnings(i, r))

\* buildAgentRunAudit
Linked(x) == sessions[x].attestation
Halt(x) ==
  IF sessions[x].status = "completed" /\ Linked(x) # NoAttestation /\ ~Failing(Linked(x)) THEN "pass"
  ELSE IF (sessions[x].status = "blocked" /\ sessions[x].finished) \/ sessions[x].status = "active"
  THEN "warning" ELSE "fail"

RunContexts(x) == {n \in DOMAIN events : events[n].session = x}
RunUsage(x) == {n \in DOMAIN usage : usage[n].session = x}

RunWarnings(x) ==
  If(sessions[x].status = "active", "still active")
    \cup If(~sessions[x].finished, "no completion")
    \cup If(Linked(x) = NoAttestation, "no attestation")
    \cup If(Failing(Linked(x)), "attestation failed")
    \cup If(RunContexts(x) = {}, "no context")
    \cup If(RunUsage(x) = {}, "no usage")
    \cup If(sessions[x].preflight = "blocked", "preflight blocked")
RunStatus(x) == AuditStatus(Halt(x) = "fail", RunWarnings(x))

\* buildSpecQualityAudit: every change request carries an analysis, which counts as
\* contradiction evidence whether or not it found one, and reports count when triaged too.
Contradicted(s) == \E n \in DOMAIN feedback : feedback[n].spec = s /\ feedback[n].kind = "contradiction"
ExpensiveUnused(s) == {e \in Sections(s) : e.tokens >= Expensive /\ \A n \in DOMAIN events : \A d \in events[n].sections :
                <<d.spec, d.anchor>> # <<s, e.anchor>>}
QualityWarnings(s) ==
  If(\E n \in OpenReports : feedback[n].spec = s, "open feedback")
    \cup If(s \in pending, "pending reviews")
    \cup If(Contradicted(s), "contradictions")
    \cup If(s \in reviewed, "contradiction evidence")
    \cup If(s \notin measured, "no efficacy runs")
    \cup If(ExpensiveUnused(s) # {}, "unused sections")
QualityStatus(s) == AuditStatus(Contradicted(s) \/ s \in reviewed, QualityWarnings(s))

\* How many of the rows fall into each group.
Counted(groups) ==
  [g \in {groups[n] : n \in DOMAIN groups} |-> Cardinality({n \in DOMAIN groups : groups[n] = g})]

\* GET /ai/feedback/clusters: of one spec, or of one type without one, of one kind and in
\* the same words.
FeedbackClusterKey(n) ==
  <<IF feedback[n].spec = NoSpecId THEN feedback[n].type ELSE feedback[n].spec, feedback[n].kind, feedback[n].words>>
Clusters(status) ==
  Counted([n \in IF status = "open" THEN OpenReports ELSE DOMAIN feedback \ OpenReports |-> FeedbackClusterKey(n)])

\* GET /reports/overview: of a project its own specs, of a project type all its specs.
OverviewOfProject(i) ==
  [open |-> {n \in OpenReports : OwnerOf(n) = i},
   pending |-> {s \in pending : Owner[s] = i},
   outdated |-> Outdated(i)]
OverviewOfType(type) ==
  [open |-> {n \in OpenReports : feedback[n].spec # NoSpecId /\ feedback[n].type = type},
   pending |-> {s \in pending : TypeOf[s] = type}]
\* Of each global spec its own, and of all feedback how much there is of each kind.
OverviewOfSpec(s) == [open |-> {n \in OpenReports : feedback[n].spec = s}, pending |-> {s} \cap pending]
FeedbackByType(status) ==
  Counted([n \in IF status = "open" THEN OpenReports ELSE DOMAIN feedback \ OpenReports |-> feedback[n].kind])
-----------------------------------------------------------------------------
\* GET /harness-insights: patterns in what went wrong, each supported by its five largest
\* groups.
PerPattern == 5
RepoOfRun(x) == sessions[x].repo  \* NoRepo is reported as "unreported repo"
BlockedFinishes ==
  Counted([x \in {x \in Sessions : sessions[x] # NoSession /\ sessions[x].status = "blocked" /\ sessions[x].finished}
             |-> RepoOfRun(x)])
\* A session that is active was told what governs it when it began.
Started(x) == events[CHOOSE n \in DOMAIN events : events[n].type = "begin_task" /\ events[n].session = x].day
StaleSessions ==
  Counted([x \in {x \in Sessions : sessions[x] # NoSession /\ sessions[x].status = "active" /\ Started(x) < today}
             |-> RepoOfRun(x)])

Gap(n) == <<feedback[n].type, feedback[n].topic>>
MissingGuidance == Counted([n \in {n \in OpenReports : feedback[n].kind = "missing_guidance"} |-> Gap(n)])

Subject(n) == <<feedback[n].kind, NameOf[feedback[n].spec]>>
\* Only what was reported more than once, of specs of one filename, is a cluster.
FeedbackClusters ==
  LET all == Counted([n \in {n \in OpenReports : feedback[n].kind \in Kinds} |-> Subject(n)])
  IN [g \in {h \in DOMAIN all : all[h] > 1} |-> all[g]]

SupportOf(groups) == SumFunctionOnSet(groups, Largest(groups, PerPattern))
Insights == [blocked |-> SupportOf(BlockedFinishes), gaps |-> SupportOf(MissingGuidance),
             clusters |-> SupportOf(FeedbackClusters), stale |-> SupportOf(StaleSessions)]

-----------------------------------------------------------------------------
\* Audits that are stored, and listed by kind and subject.

StoreReport(kind, subject, status) ==
  /\ Cardinality(reports) < MaxReports
  /\ reports' = reports \cup {[kind |-> kind, subject |-> subject, status |-> status]}
  /\ UNCHANGED <<vars, specs, pending, feedback, reviewed, measured, events, usage, searches, today>>

\* POST /audit-reports/project, /spec, /agent-session and /release
AuditProject(i) == Live(i) /\ StoreReport("project_governance", i, GovernanceStatus(i))
AuditSpec(s) == Published(s) /\ StoreReport("spec_quality", s, QualityStatus(s))
AuditRun(x) == sessions[x] # NoSession /\ StoreReport("agent_run", x, RunStatus(x))
AuditRelease(i, r) == Live(i) /\ StoreReport("release", i, ReleaseStatus(i, r))

\* GET /audit-reports
ReportsOf(kind, subject) == {r \in reports : r.kind = kind /\ r.subject = subject}
-----------------------------------------------------------------------------
Registering(i, project_id, repo, type) ==
  /\ \/ CreateProject(i, repo, type)
     \/ \E m \in Manifests : ManifestReport(i, repo, type, m)
     \/ \E trace \in Traces : CodeTraceReport(i, project_id, repo, type, trace)
  /\ UNCHANGED evidence

Judging(project_id, repo) ==
  /\ \E trace \in Traces \cup {NoTrace} :
       \/ \E type \in Types : ComplianceCheck(project_id, repo, type, trace)
       \/ \E x \in Sessions : FinishSession(x, project_id, repo, trace)
  /\ UNCHANGED evidence

Beginning(project_id, repo) == \E x \in Sessions, type \in Types : Begin(x, project_id, repo, type)

Delivering(i, type) ==
  \/ GetSpecs(i, type) \/ CompileSpecs(i, type) \/ AgentPack(i, type)
  \/ \E event \in {"search", "resolve_guidance"}, found \in SUBSET SectionsOf(Bundle(type, i)) :
        Search(event, i, type, found)

Reporting(parts, claims) ==
  \E x \in Sessions \cup {NoSessionId}, i \in Ids \cup {NoId}, prompt \in parts, completion \in parts, claimed \in claims :
    ReportUsage(x, i, prompt, completion, claimed)

Publishing == \E s \in Specs, sections \in SUBSET Anchors : Publish(s, sections)

Discussing(s) ==
  \/ OpenReview(s) \/ RejectReview(s) \/ MeasureEfficacy(s)
  \/ \E kind \in Kinds, words \in Wordings : ReportFeedback(s, kind, words)
  \/ \E n \in DOMAIN feedback : feedback[n].spec = s /\ TriageFeedback(n)

ReportingGaps ==
  \/ \E type \in Types, words \in Wordings, topic \in Topics : ReportGap(type, words, topic)
  \/ \E n \in DOMAIN feedback : feedback[n].spec = NoSpecId /\ TriageFeedback(n)

Auditing ==
  \/ \E i \in Ids : AuditProject(i) \/ \E r \in Releases : AuditRelease(i, r)
  \/ \E s \in Specs : AuditSpec(s)
  \/ \E x \in Sessions : AuditRun(x)

EvidenceNext ==
  \/ \E i \in Ids, project_id \in Ids \cup {NoId}, repo \in Repos, type \in Types :
        Registering(i, project_id, repo, type)
  \/ \E project_id \in Ids \cup {NoId}, repo \in Repos \cup {NoRepo} :
        Judging(project_id, repo) \/ Beginning(project_id, repo)
  \/ /\ \/ \E type \in Types \cup {AllTypes}, accepted \in Policies : SetPolicy(type, accepted)
        \/ \E w \in Workspaces, repo \in Repos, type \in Types, edits \in Edits : StatePush(w, repo, type, edits)
     /\ UNCHANGED evidence
  \/ \E i \in Ids \cup {NoId}, type \in Types : Delivering(i, type)
  \/ \E q \in searches : Answer(q)
  \/ Reporting(Nat, Nat) \/ Publishing \/ NextDay \/ ReportingGaps \/ Auditing
  \/ \E s \in Specs : Discussing(s)

EvidenceSpec == EvidenceInit /\ [][EvidenceNext]_evidenceVars
-----------------------------------------------------------------------------
\* The groups a report lists of a total: never more than it, and all of it unless the
\* report is full.
AddsUp(report, limit, total) ==
  /\ SumFunction(report) <= total
  /\ Cardinality(DOMAIN report) < limit => SumFunction(report) = total

\* The groupings of the token report agree on what was delivered, for the whole registry,
\* for each project and for each session, whatever was republished or has left the
\* window meanwhile, as far as they list it; and the audit of a run and the section
\* evidence of a project count the same deliveries.
TokenReportsAgree ==
  /\ \A i \in Ids \cup {NoId}, x \in Sessions \cup {NoSessionId} :
       LET contexts == Contexts(Window, i, x)
           total == SumFunction(ByEventType(contexts))
       IN /\ AddsUp(BySpec(contexts), SpecRows, total)
          /\ AddsUp(BySection(contexts), SectionRows, total)
          /\ SumFunction(Trend(contexts)) = total
          /\ SumFunction(BySession(contexts)) <= total
          /\ x # NoSessionId => SumFunction(BySession(contexts)) = total
  /\ LET all == Contexts(Window, NoId, NoSessionId)
     IN SumFunction(ByEventType(all))
          = SumFunction([i \in Ids |-> ByProject(Window, i).projected])
            + TokensOfEvents({n \in all : events[n].consumer = NoId})
  /\ LET all == UsageRows(Window, NoId, NoSessionId)
     IN Spent(all) = SumFunction([i \in Ids |-> ByProject(Window, i).real])
                       + Spent({n \in all : usage[n].consumer = NoId})
  /\ \A i \in Ids : Live(i) =>
       \A row \in SectionEvidence(i) :
         row.deliveries = 0 =>
           <<row.section.spec, row.section.anchor>>
             \notin DOMAIN BySection(Contexts(Window, i, NoSessionId))

\* What the harness insights report, by filename and by topic, is what the list of clusters
\* counts, by spec and by words, and that list adds up to the overview of all feedback.
\* Every pattern is visible in the audits as well: a gap in those of the projects of its
\* type, a cluster in that of a spec of its filename, a stale session in that of its run, and
\* a blocked completion in those of its repository until as many sessions have begun there
\* as the audit looks at; and what no audit warns of supports no pattern.
InsightsAgree ==
  /\ \A g \in DOMAIN FeedbackClusters :
       /\ FeedbackClusters[g] =
            SumFunctionOnSet(Clusters("open"), {k \in DOMAIN Clusters("open") : k[2] = g[1] /\ NameOf[k[1]] = g[2]})
       /\ \E s \in Specs : NameOf[s] = g[2] /\ "open feedback" \in QualityWarnings(s)
  /\ \A type \in Types :
       SumFunctionOnSet(MissingGuidance, {g \in DOMAIN MissingGuidance : g[1] = type}) =
         SumFunctionOnSet(Clusters("open"), {k \in DOMAIN Clusters("open") : k[2] = "missing_guidance" /\ k[1] = type})
  /\ \A status \in {"open", "closed"} : SumFunction(Clusters(status)) = SumFunction(FeedbackByType(status))
  /\ \A i \in Ids : Live(i) =>
       /\ \A x \in Sessions : sessions[x] # NoSession /\ consumers[i].repo \in DOMAIN BlockedFinishes =>
            \/ "blocked sessions" \in GovernanceWarnings(i)
            \/ sessions[x].status = "blocked" /\ RepoOfRun(x) = consumers[i].repo => Cardinality(After(x, i)) >= RunRows
       /\ \A g \in DOMAIN MissingGuidance : g[1] = consumers[i].type => "open feedback" \in GovernanceWarnings(i)
  /\ (\A s \in Specs : Published(s) => QualityStatus(s) = "pass") => Insights.clusters = 0
  /\ Insights.stale > 0 => \E x \in Sessions : sessions[x] # NoSession /\ "still active" \in RunWarnings(x)

\* A release audit and the governance audit of its project never disagree: one fails when
\* the other does, a release that passes is a low risk and leaves its project nothing but
\* blocked sessions, what the overview holds against a project both audits do, and the insights into the
\* harness are about nothing the audits miss.
AuditsAgree ==
  /\ InsightsAgree
  /\ \A i \in Ids : Live(i) =>
       LET governance == GovernanceStatus(i)
           warnings == GovernanceWarnings(i)
       IN /\ \A r \in Releases :
               LET status == ReleaseStatus(i, r)
                   level == RolloutLevel(i, r)
               IN /\ status = "fail" <=> governance = "fail"
                  /\ status = "fail" <=> level = "high"
                  /\ status = "pass" => level = "low" /\ warnings \subseteq {"blocked sessions"}
          /\ OverviewOfProject(i).open # {} => "open feedback" \in warnings
          /\ OverviewOfProject(i).pending \subseteq OverviewOfType(consumers[i].type).pending
          /\ OverviewOfType(consumers[i].type).pending # {} => "pending reviews" \in warnings
          /\ \A s \in {t \in Governing(i) : TypeOf[t] = Global} :
               QualityStatus(s) = "pass" => OverviewOfSpec(s).open = {} /\ OverviewOfSpec(s).pending = {}
          /\ \A s \in PendingReviews(i) \cup ({feedback[n].spec : n \in OpenFeedback(i)} \ {NoSpecId}) :
               QualityStatus(s) # "pass"

\* A stored audit of a run that passed stands: the run passes still, whatever was delivered
\* to it, attested and published since, unless the agent itself finished it again, and was
\* blocked or, in a session of no repository, named none this time.  And a failure is never
\* stored of a run that no finish had ended.
RunAuditsStand ==
  \A x \in Sessions : \A r \in ReportsOf("agent_run", x) :
    /\ r.status = "pass" => 
         \/ RunStatus(x) = "pass" \/ sessions[x].status = "blocked"
         \/ sessions[x].repo = NoRepo /\ Linked(x) = NoAttestation
    /\ r.status = "fail" => sessions[x].finished \/ sessions[x].preflight = "blocked"

\* A completion the gate accepted is one every audit accepts: the run passes its halt
\* assessment, and its project does not fail unless something was evaluated after it.
AcceptedRunsPass ==
  \A x \in Sessions :
    sessions[x] # NoSession /\ sessions[x].status = "completed" /\ sessions[x].repo # NoRepo =>
      /\ Halt(x) = "pass" /\ RunStatus(x) # "fail"
      /\ \A i \in Ids : Live(i) /\ Failing(Newest(Evaluations(i))) /\ x \in RunsOf(i)
           => Newest(Evaluations(i)) > Linked(x) \/ attestations[Linked(x)].repo # consumers[i].repo

\* Both: what the gate, the audits and the stored audits say of a run.
RunsAreJudgedAlike == AcceptedRunsPass /\ RunAuditsStand
=============================================================================
