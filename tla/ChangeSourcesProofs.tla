------------------------ MODULE ChangeSourcesProofs ------------------------
(***************************************************************************)
(* Machine-checked proofs about ChangeSources, for any sets of specs,      *)
(* requests, feedback, tasks and texts.                                    *)
(*                                                                         *)
(* Every step of the composition is a step of the engine, a request opened *)
(* from a row that was read before an await, or leaves the engine alone.   *)
(* The engine's steps keep the engine's invariants by SpecLifecycleProofs; *)
(* what an awaiting handler holds has to be still true of the engine for   *)
(* the second kind to keep them too.                                       *)
(***************************************************************************)
EXTENDS ChangeSources, SpecLifecycleProofs

\* What a suspended handler holds is still there: its spec was not purged nor is it
\* about to be, a spec that was released then is released now, and the text that was
\* its head then is in its history.
TaskIsCurrent(task) ==
  /\ specs[task.spec] # NoSpec /\ task.spec \notin expired
  /\ task.kind = "push" => task.row.status # "draft"
  /\ task.row.status # "draft" =>
       /\ Governed(task.spec)
       /\ \E v \in spec_versions[task.spec] : v.content = task.row.content

TasksAreCurrent ==
  \A t \in Tasks : tasks[t].kind \in {"fix", "cluster", "push"} => TaskIsCurrent(tasks[t])

EngineInv == Base /\ HeadIsRecorded /\ ReviewIsNotStranded

IInv == SourcesTypeOK /\ EngineInv /\ TasksAreCurrent /\ PushesAreKept

-----------------------------------------------------------------------------
(* What a step of the engine leaves to the handlers.                       *)

\* A spec whose retention has not ended keeps existing, stays released and keeps its
\* versions.
Stays(s) ==
  /\ specs'[s] # NoSpec
  /\ Governed(s) => Governed(s)'
  /\ spec_versions[s] \subseteq spec_versions'[s]

\* A request keeps its spec and its text.
RequestStays(c) ==
  /\ change_requests'[c] # NoCR
  /\ change_requests'[c].spec = change_requests[c].spec
  /\ change_requests'[c].proposed_content = change_requests[c].proposed_content

LEMMA ImmutableVersions ==
  ASSUME LifecycleAssumption, Base, Next, NEW s \in SpecIds
  PROVE  spec_versions[s] \subseteq spec_versions'[s] \/ (s \in expired /\ specs'[s] = NoSpec)
BY ImmutableStep DEF Purged

LEMMA StaysStep ==
  ASSUME LifecycleAssumption, Base, Next,
         NEW t \in SpecIds, specs[t] # NoSpec, t \notin expired
  PROVE  Stays(t)
<1>. USE LifecycleAssumption
<1>. DEFINE Goal == specs'[t] # NoSpec /\ (Governed(t) => Governed(t)')
<1>. SUFFICES Goal
  BY ImmutableVersions DEF Stays
<1>b. ASSUME NEW s \in SpecIds, NEW row, SpecBecomes(s, row),
             Governed(s) => row.status \in {"pending_review", "published"}
      PROVE  Goal
  BY <1>b DEF SpecBecomes, Governed
<1>u. specs' = specs => Goal
  BY DEF Governed
<1>1. ASSUME NEW s \in SpecIds, NEW content \in Contents, CreateSpec(s, content)
      PROVE  Goal
  <2>. DEFINE row == [status |-> "draft", deleted |-> FALSE,
                      current_version |-> DraftVersion, content |-> content]
  <2>1. SpecBecomes(s, row) /\ specs[s] = NoSpec
    BY <1>1, CreateEffect
  <2>. HIDE DEF row
  <2>2. ~Governed(s)
    BY <2>1 DEF Governed, NoSpec
  <2>. QED BY <1>b, <2>1, <2>2
<1>2. ASSUME NEW s \in SpecIds, NEW content \in Contents, EditDraft(s, content)
      PROVE  Goal
  <2>1. SpecBecomes(s, Row(s, "draft", specs[s].current_version, content)) /\ ~Governed(s)
    BY <1>2, EditEffect DEF Governed
  <2>. QED BY <1>b, <2>1
<1>3. ASSUME NEW s \in SpecIds, PublishDraft(s)
      PROVE  Goal
  <2>1. SpecBecomes(s, Row(s, "published", FirstVersion, specs[s].content)) /\ ~Governed(s)
    BY <1>3, PublishDraftEffect DEF Governed
  <2>. QED BY <1>b, <2>1
<1>4. ASSUME NEW s \in SpecIds, NEW c \in CRs, NEW author \in People,
             NEW delta \in VersionDeltas, NEW content \in Contents,
             SubmitReview(s, c, author, delta, content)
      PROVE  Goal
  <2>1. SpecBecomes(s, Row(s, "pending_review", specs[s].current_version, specs[s].content))
    BY <1>4, SubmitEffect
  <2>. QED BY <1>b, <2>1 DEF Row
<1>5. ASSUME NEW c \in CRs, NEW user \in People, NEW reviewed_by \in People,
             NEW channel \in Channels, ApprovePublish(c, user, reviewed_by, channel)
      PROVE  Goal
  <2>. DEFINE s == change_requests[c].spec
              v == NewVersion(c, channel)
              content == change_requests[c].proposed_content
              head == Row(s, "published", v, content)
              kept == Row(s, "published", specs[s].current_version, specs[s].content)
  <2>1. /\ s \in SpecIds
        /\ channel = "stable" => SpecBecomes(s, head)
        /\ channel # "stable" => SpecBecomes(s, kept)
        /\ HistoryGains(s, [version |-> v, content |-> content, channel |-> channel])
    BY <1>5, ApproveEffect
  <2>2. head.status = "published" /\ kept.status = "published"
    BY DEF Row
  <2>. HIDE DEF s, head, kept
  <2>. QED BY <1>b, <2>1, <2>2
<1>6. ASSUME NEW c \in CRs, Reject(c)
      PROVE  Goal
  <2>. DEFINE s == change_requests[c].spec
  <2>1. /\ s \in SpecIds
        /\ \/ SpecBecomes(s, Row(s, "published", specs[s].current_version, specs[s].content))
           \/ specs' = specs
    BY <1>6, RejectEffect
  <2>. HIDE DEF s
  <2>. QED BY <1>b, <1>u, <2>1 DEF Row
<1>7. ASSUME NEW s \in SpecIds, NEW beta \in spec_versions[s], Promote(s, beta)
      PROVE  Goal
  <2>1. PICK v : SpecBecomes(s, Row(s, specs[s].status, v, beta.content))
    BY <1>7, PromoteEffect
  <2>. QED BY <1>b, <2>1 DEF Row, Governed
<1>8. ASSUME NEW s \in SpecIds, Delete(s) \/ Restore(s)
      PROVE  Goal
  <2>1. PICK b : SpecBecomes(s, [status |-> specs[s].status, deleted |-> b,
                                 current_version |-> specs[s].current_version,
                                 content |-> specs[s].content])
    BY <1>8, DeleteEffect, RestoreEffect
  <2>. QED BY <1>b, <2>1 DEF Governed
<1>9. ASSUME Purge
      PROVE  Goal
  BY <1>9, <1>u DEF Purge, OfExpired, Governed
<1>10. ASSUME Quiet
       PROVE  Goal
  BY <1>10, <1>u, QuietEffect
<1>. QED
  BY <1>1, <1>2, <1>3, <1>4, <1>5, <1>6, <1>7, <1>8, <1>9, <1>10 DEF Next, Quiet

LEMMA RequestStep ==
  ASSUME LifecycleAssumption, Base, Next, NEW d \in CRs, change_requests[d] # NoCR
  PROVE  RequestStays(d) \/ Purged(change_requests[d].spec)
<1>. USE LifecycleAssumption
<1>. DEFINE Goal == RequestStays(d) \/ Purged(change_requests[d].spec)
<1>u. change_requests'[d] = change_requests[d] => Goal
  BY DEF RequestStays
<1>1. ASSUME NEW s \in SpecIds, NEW c \in CRs, NEW author \in People,
             NEW delta \in VersionDeltas, NEW content \in Contents,
             SubmitReview(s, c, author, delta, content)
      PROVE  Goal
  <2>1. RequestBecomes(c, change_requests'[c]) /\ change_requests[c] = NoCR
    BY <1>1, SubmitEffect
  <2>. QED BY <1>u, <2>1 DEF RequestBecomes
<1>2. ASSUME NEW c \in CRs, NEW user \in People, NEW reviewed_by \in People,
             NEW channel \in Channels, ApprovePublish(c, user, reviewed_by, channel)
      PROVE  Goal
  <2>1. PICK v : RequestBecomes(c, Approved(c, v))
    BY <1>2, ApproveEffect
  <2>2. /\ Approved(c, v).spec = change_requests[c].spec
        /\ Approved(c, v).proposed_content = change_requests[c].proposed_content
    <3>1. change_requests[c] \in CRRow
      BY <1>2, PendingFacts DEF ApprovePublish, RecordApproval, MayApprove
    <3>. QED BY <3>1 DEF Approved, CRRow
  <2>. QED BY <1>u, <2>1, <2>2 DEF RequestBecomes, RequestStays
<1>3. ASSUME NEW c \in CRs, Reject(c)
      PROVE  Goal
  <2>. DEFINE cr == [change_requests[c] EXCEPT !.status = "rejected"]
  <2>1. RequestBecomes(c, cr) /\ change_requests[c] \in CRRow
    BY <1>3, RejectEffect
  <2>2. cr.spec = change_requests[c].spec /\ cr.proposed_content = change_requests[c].proposed_content
    BY <2>1 DEF CRRow
  <2>. HIDE DEF cr
  <2>. QED BY <1>u, <2>1, <2>2 DEF RequestBecomes, RequestStays
<1>4. ASSUME Purge
      PROVE  Goal
  <2>1. change_requests[d].spec \in SpecIds
    BY DEF Base, TypeOK, CRRow
  <2>2. CASE change_requests[d].spec \in expired
    BY <1>4, <2>1, <2>2 DEF Purge, OfExpired, Purged
  <2>3. CASE change_requests[d].spec \notin expired
    BY <1>4, <1>u, <2>3 DEF Purge, OfExpired
  <2>. QED BY <2>2, <2>3
<1>5. ASSUME UNCHANGED change_requests
      PROVE  Goal
  BY <1>5, <1>u
<1>6. ASSUME \/ \E s \in SpecIds, content \in Contents : CreateSpec(s, content) \/ EditDraft(s, content)
             \/ \E s \in SpecIds : PublishDraft(s) \/ Delete(s) \/ Restore(s)
             \/ \E s \in SpecIds : \E beta \in spec_versions[s] : Promote(s, beta)
             \/ Quiet
      PROVE  UNCHANGED change_requests
  BY <1>6, QuietEffect DEF CreateSpec, EditDraft, PublishDraft, Delete, Restore, Promote
<1>. QED BY <1>1, <1>2, <1>3, <1>4, <1>5, <1>6 DEF Next, Quiet

\* What every step grants the handlers, whoever takes it.
Keeps ==
  /\ EngineInv'
  /\ \A s \in SpecIds : spec_versions[s] \subseteq spec_versions'[s] \/ Purged(s)
  /\ \A s \in SpecIds : specs[s] # NoSpec /\ s \notin expired => Stays(s)
  /\ \A c \in CRs : change_requests[c] # NoCR =>
       RequestStays(c) \/ Purged(change_requests[c].spec)

LEMMA EngineKeeps ==
  ASSUME LifecycleAssumption, EngineInv, [Next]_vars
  PROVE  Keeps
<1>1. EngineInv'
  BY BaseStep, HeadRecordedStep, StrandedStep DEF EngineInv
<1>2. CASE Next
  BY <1>1, <1>2, ImmutableStep, StaysStep, RequestStep DEF EngineInv, Keeps
<1>3. CASE UNCHANGED vars
  BY <1>1, <1>3 DEF vars, Keeps, Stays, Governed, RequestStays
<1>. QED BY <1>2, <1>3

\* No row of specs leaves while expired stays as it is.
LEMMA NothingPurged ==
  ASSUME Base', expired' = expired, NEW s \in SpecIds
  PROVE  ~Purged(s)
BY DEF Base, TypeOK, Purged, Deleted

LEMMA OpenEffect ==
  ASSUME LifecycleAssumption, SourcesAssumption, Base, NEW c \in CRs, NEW s \in SpecIds,
         Governed(s), NEW row, NEW delta \in VersionDeltas, NEW content \in Contents,
         Open(c, s, row, delta, content)
  PROVE  /\ specs[s] # NoSpec /\ change_requests[c] = NoCR
         /\ SpecBecomes(s, Row(s, "pending_review", specs[s].current_version, specs[s].content))
         /\ RequestBecomes(c, change_requests'[c])
         /\ change_requests'[c].spec = s /\ change_requests'[c].status = "pending"
         /\ change_requests'[c].proposed_content = content
         /\ UNCHANGED <<spec_versions, review_approvals, policy, expired, served>>
<1>. DEFINE cr == [status |-> "pending", spec |-> s, proposed_by |-> Machine,
                   version_delta |-> delta,
                   proposed_content |-> content, resulting_version |-> {}]
<1>1. specs[s] # NoSpec
  BY DEF Governed, NoSpec
<1>2. SpecBecomes(s, Row(s, "pending_review", specs[s].current_version, specs[s].content))
  BY <1>1, StatusStep DEF Open, Base
<1>3. cr \in CRRow /\ cr # NoCR
  BY DEF CRRow, LifecycleAssumption, SourcesAssumption, NoCR
<1>4. change_requests' = [change_requests EXCEPT ![c] = cr] /\ change_requests[c] = NoCR
  BY DEF Open
<1>5. RequestBecomes(c, cr)
  BY <1>3, <1>4 DEF Base, TypeOK, RequestBecomes
<1>6. cr.spec = s /\ cr.status = "pending" /\ cr.proposed_content = content
  OBVIOUS
<1>7. UNCHANGED <<spec_versions, review_approvals, policy, expired, served>>
  BY DEF Open
<1>. HIDE DEF cr
<1>. QED BY <1>1, <1>2, <1>4, <1>5, <1>6, <1>7 DEF RequestBecomes

\* A request opened on a released spec does no harm, whatever the row it was opened from.
LEMMA OpenKeeps ==
  ASSUME LifecycleAssumption, SourcesAssumption, EngineInv, NEW c \in CRs, NEW s \in SpecIds,
         Governed(s), NEW row, NEW delta \in VersionDeltas, NEW content \in Contents,
         Open(c, s, row, delta, content)
  PROVE  /\ Keeps /\ expired' = expired
         /\ change_requests'[c] # NoCR
         /\ change_requests'[c].spec = s
         /\ change_requests'[c].proposed_content = content
<1>. USE LifecycleAssumption
<1>. DEFINE head == Row(s, "pending_review", specs[s].current_version, specs[s].content)
<1>1. /\ specs[s] # NoSpec /\ change_requests[c] = NoCR
      /\ SpecBecomes(s, head)
      /\ RequestBecomes(c, change_requests'[c])
      /\ change_requests'[c].spec = s /\ change_requests'[c].status = "pending"
      /\ change_requests'[c].proposed_content = content
      /\ UNCHANGED <<spec_versions, review_approvals, policy, expired, served>>
  BY OpenEffect DEF EngineInv
<1>2. /\ head.status = "pending_review" /\ head.deleted = specs[s].deleted
      /\ head.current_version = specs[s].current_version /\ head.content = specs[s].content
  BY DEF Row
<1>. HIDE DEF head
<1>3. Base'
  <2>1. TypeOK'
    BY <1>1, <1>2 DEF EngineInv, Base, TypeOK, SpecBecomes, RequestBecomes, Deleted
  <2>2. DraftsAreUngoverned'
    BY <1>1, <1>2 DEF EngineInv, Base, TypeOK, SpecBecomes, RequestBecomes, CRRow,
       DraftsAreUngoverned, Governed
  <2>. QED BY <2>1, <2>2 DEF Base
<1>4. HeadIsRecorded'
  <2>. SUFFICES ASSUME NEW t \in SpecIds, Governed(t)'
                PROVE  HeadRow(t)' \in spec_versions'[t]
    BY DEF HeadIsRecorded, HeadRow
  <2>1. Governed(t) /\ HeadRow(t)' = HeadRow(t)
    BY <1>1, <1>2 DEF SpecBecomes, Governed, HeadRow
  <2>2. HeadRow(t) \in spec_versions[t]
    BY <2>1 DEF EngineInv, HeadIsRecorded, HeadRow
  <2>. QED BY <1>1, <2>1, <2>2
<1>5. ReviewIsNotStranded'
  <2>. SUFFICES ASSUME NEW t \in SpecIds, specs'[t].status = "pending_review"
                PROVE  Waiting(t)'
    BY DEF ReviewIsNotStranded, PendingFor, Pending, Waiting
  <2>1. CASE s = t
    BY <1>1, <2>1 DEF Waiting
  <2>2. CASE s # t
    <3>1. PICK d \in CRs : change_requests[d].status = "pending" /\ change_requests[d].spec = t
      BY <1>1, <2>2 DEF SpecBecomes, EngineInv, ReviewIsNotStranded, PendingFor, Pending
    <3>2. d # c
      BY <1>1, <3>1 DEF NoCR
    <3>. QED BY <1>1, <3>1, <3>2 DEF RequestBecomes, Waiting
  <2>. QED BY <2>1, <2>2
<1>6. \A t \in SpecIds : specs[t] # NoSpec => Stays(t)
  BY <1>1, <1>2 DEF SpecBecomes, Stays, Governed
<1>7. \A d \in CRs : change_requests[d] # NoCR => RequestStays(d)
  BY <1>1 DEF RequestBecomes, RequestStays
<1>8. Keeps
  BY <1>1, <1>3, <1>4, <1>5, <1>6, <1>7 DEF Keeps, EngineInv
<1>. QED BY <1>1, <1>8 DEF RequestBecomes

-----------------------------------------------------------------------------
(* What handlers hold and what pushes left behind outlives such a step.    *)

PushIsKept(p) ==
  /\ p.outcome = "identical" => \E row \in spec_versions[p.spec] : row.content = p.text
  /\ p.outcome = "opened" => \E c \in CRs : /\ change_requests[c] # NoCR
                                            /\ change_requests[c].spec = p.spec
                                            /\ change_requests[c].proposed_content = p.text

LEMMA KeptPushes ==
  PushesAreKept <=> \A p \in pushes : PushIsKept(p)
<1>1. ASSUME NEW p
      PROVE  (CASE p.outcome = "identical" -> \E row \in spec_versions[p.spec] : row.content = p.text
                [] p.outcome = "opened" -> \E c \in CRs : /\ change_requests[c] # NoCR
                                                /\ change_requests[c].spec = p.spec
                                                /\ change_requests[c].proposed_content = p.text
                [] OTHER -> TRUE) <=> PushIsKept(p)
  <2>1. CASE p.outcome = "identical"
    BY <2>1 DEF PushIsKept
  <2>2. CASE p.outcome = "opened"
    BY <2>2 DEF PushIsKept
  <2>3. CASE p.outcome \notin {"identical", "opened"}
    BY <2>3 DEF PushIsKept
  <2>. QED BY <2>1, <2>2, <2>3
<1>. QED BY <1>1 DEF PushesAreKept

LEMMA HeldRow ==
  ASSUME SourcesTypeOK, NEW t \in Tasks
  PROVE  /\ tasks[t].kind \in {"fix", "cluster", "push"} =>
              tasks[t].spec \in SpecIds /\ tasks[t].row \in SpecRow
         /\ tasks[t].kind \in {"fix", "cluster"} => tasks[t].items \in SUBSET Feedbacks
         /\ tasks[t].kind = "push" => tasks[t].text \in Contents
         /\ tasks[t].kind = "efficacy" => tasks[t] \in RunTask
BY DEF SourcesTypeOK, FixTask, PushTask, RunTask, NoTask

LEMMA OldPush ==
  ASSUME IInv, Keeps, NEW p \in pushes, ~Purged(p.spec)
  PROVE  PushIsKept(p)'
<1>1. PushIsKept(p) /\ p.spec \in SpecIds
  BY KeptPushes DEF IInv, SourcesTypeOK, PushRow
<1>2. spec_versions[p.spec] \subseteq spec_versions'[p.spec]
  BY <1>1 DEF Keeps
<1>3. \A c \in CRs : change_requests[c] # NoCR /\ change_requests[c].spec = p.spec => RequestStays(c)
  BY DEF Keeps
<1>. QED BY <1>1, <1>2, <1>3 DEF PushIsKept, RequestStays

LEMMA OldTask ==
  ASSUME IInv, Keeps, NEW t \in Tasks, tasks[t].kind \in {"fix", "cluster", "push"},
         tasks'[t] = tasks[t], tasks[t].spec \notin expired'
  PROVE  TaskIsCurrent(tasks[t])'
<1>1. TaskIsCurrent(tasks[t]) /\ tasks[t].spec \in SpecIds
  BY HeldRow DEF IInv, TasksAreCurrent
<1>2. Stays(tasks[t].spec)
  BY <1>1 DEF Keeps, TaskIsCurrent
<1>. QED BY <1>1, <1>2 DEF TaskIsCurrent, Stays, Governed

OwnTypes ==
  /\ feedback \in [Feedbacks -> FeedbackRow \cup {NoFeedback}]
  /\ tasks \in [Tasks -> FixTask \cup PushTask \cup RunTask \cup {NoTask}]
  /\ efficacy \subseteq SpecIds
  /\ pushes \subseteq PushRow

LEMMA Combine ==
  ASSUME IInv, Keeps, OwnTypes',
         \A t \in Tasks : tasks'[t].kind \in {"fix", "cluster", "push"} =>
           \/ tasks'[t] = tasks[t] /\ tasks[t].spec \notin expired'
           \/ TaskIsCurrent(tasks[t])',
         \A p \in pushes' : (p \in pushes /\ ~Purged(p.spec)) \/ PushIsKept(p)'
  PROVE  IInv'
<1>1. SourcesTypeOK'
  BY DEF SourcesTypeOK, OwnTypes, Keeps, EngineInv, Base
<1>2. TasksAreCurrent'
  BY OldTask DEF TasksAreCurrent
<1>3. PushesAreKept'
  <2>1. (\A p \in pushes : PushIsKept(p))'
    BY OldPush
  <2>. QED BY <2>1, KeptPushes, PTL
<1>. QED BY <1>1, <1>2, <1>3 DEF IInv, Keeps

-----------------------------------------------------------------------------
(* The steps.                                                              *)

\* Steps that leave the engine alone, or change it without a purge.
Quietly == Keeps /\ expired' = expired

LEMMA IdleEngine ==
  ASSUME LifecycleAssumption, EngineInv, UNCHANGED vars
  PROVE  Quietly
BY EngineKeeps DEF Quietly, vars

LEMMA LateRequest ==
  ASSUME LifecycleAssumption, SourcesAssumption, IInv, NEW t \in Tasks,
         tasks[t].kind \in {"fix", "cluster", "push"},
         NEW c \in CRs, NEW delta \in VersionDeltas, NEW content \in Contents,
         Open(c, tasks[t].spec, tasks[t].row, delta, content)
  PROVE  /\ Quietly
         /\ change_requests'[c] # NoCR
         /\ change_requests'[c].spec = tasks[t].spec
         /\ change_requests'[c].proposed_content = content
<1>1. tasks[t].spec \in SpecIds /\ Governed(tasks[t].spec)
  BY HeldRow DEF IInv, TasksAreCurrent, TaskIsCurrent, Open, Openable
<1>. QED BY <1>1, OpenKeeps DEF IInv, Quietly

\* When no task is started and no push is handled, nothing but types is left to show.
LEMMA QuietStep ==
  ASSUME IInv, Quietly, OwnTypes',
         \A t \in Tasks : tasks'[t].kind \in {"fix", "cluster", "push"} => tasks'[t] = tasks[t],
         pushes' = pushes
  PROVE  IInv'
<1>1. ASSUME NEW t \in Tasks, tasks'[t].kind \in {"fix", "cluster", "push"}
      PROVE  tasks'[t] = tasks[t] /\ tasks[t].spec \notin expired'
  BY <1>1 DEF IInv, TasksAreCurrent, TaskIsCurrent, Quietly
<1>2. ASSUME NEW p \in pushes'
      PROVE  p \in pushes /\ ~Purged(p.spec)
  BY <1>2, NothingPurged DEF IInv, SourcesTypeOK, PushRow, Quietly, Keeps, EngineInv
<1>. QED BY <1>1, <1>2, Combine DEF Quietly

LEMMA Dropped ==
  ASSUME IInv, NEW t \in Tasks, Done(t)
  PROVE  /\ tasks' \in [Tasks -> FixTask \cup PushTask \cup RunTask \cup {NoTask}]
         /\ tasks'[t] = NoTask
         /\ \A u \in Tasks : u # t => tasks'[u] = tasks[u]
         /\ \A u \in Tasks : tasks'[u].kind \in {"fix", "cluster", "push"} => tasks'[u] = tasks[u]
<1>1. NoTask.kind = "none"
  BY DEF NoTask
<1>2. /\ tasks' \in [Tasks -> FixTask \cup PushTask \cup RunTask \cup {NoTask}]
      /\ tasks'[t] = NoTask
      /\ \A u \in Tasks : u # t => tasks'[u] = tasks[u]
  BY DEF IInv, SourcesTypeOK, Done
<1>. QED BY <1>1, <1>2

LEMMA Acknowledged ==
  ASSUME IInv, NEW items, Acknowledge(items)
  PROVE  feedback' \in [Feedbacks -> FeedbackRow \cup {NoFeedback}]
<1>1. ASSUME NEW f \in Feedbacks, feedback[f] # NoFeedback
      PROVE  [feedback[f] EXCEPT !.status = "acknowledged"] \in FeedbackRow
  BY <1>1 DEF IInv, SourcesTypeOK, FeedbackRow, Statuses
<1>. QED BY <1>1 DEF IInv, SourcesTypeOK, Acknowledge

\* A spec that a handler may hold, as it takes it.
LEMMA TakesCurrentRow ==
  ASSUME LifecycleAssumption, IInv, UNCHANGED vars, NEW s \in SpecIds, Live(s), NEW task,
         task.spec = s, task.row = specs[s], task.kind = "push" => specs[s].status # "draft"
  PROVE  TaskIsCurrent(task)'
<1>1. /\ specs' = specs /\ spec_versions' = spec_versions /\ expired' = expired
      /\ specs[s] # NoSpec /\ specs[s] \in SpecRow
  BY DEF vars, Live, IInv, SourcesTypeOK, TypeOK
<1>2. s \notin expired
  BY DEF IInv, SourcesTypeOK, TypeOK, Live, Deleted
<1>3. ASSUME specs[s].status # "draft"
      PROVE  Governed(s) /\ \E v \in spec_versions[s] : v.content = specs[s].content
  <2>1. Governed(s)
    BY <1>1, <1>3 DEF Governed, SpecRow
  <2>2. HeadRow(s) \in spec_versions[s]
    BY <2>1 DEF IInv, EngineInv, HeadIsRecorded, HeadRow
  <2>. QED BY <2>1, <2>2 DEF HeadRow
<1>. QED BY <1>1, <1>2, <1>3 DEF TaskIsCurrent, Governed

LEMMA StartStep ==
  ASSUME LifecycleAssumption, IInv, UNCHANGED <<vars, feedback, efficacy>>,
         NEW t \in Tasks, NEW s \in SpecIds, Live(s), NEW task, Suspend(t, task),
         task \in FixTask \cup PushTask,
         task.spec = s, task.row = specs[s], task.kind = "push" => specs[s].status # "draft",
         UNCHANGED pushes
  PROVE  IInv'
<1>1. TaskIsCurrent(task)'
  BY TakesCurrentRow DEF vars
<1>2. Quietly
  BY IdleEngine DEF IInv
<1>3. tasks'[t] = task /\ \A u \in Tasks : u # t => tasks'[u] = tasks[u]
  BY DEF Suspend, IInv, SourcesTypeOK
<1>4. OwnTypes'
  BY DEF OwnTypes, Suspend, IInv, SourcesTypeOK
<1>5. ASSUME NEW u \in Tasks, tasks'[u].kind \in {"fix", "cluster", "push"}
      PROVE  \/ tasks'[u] = tasks[u] /\ tasks[u].spec \notin expired'
             \/ TaskIsCurrent(tasks[u])'
  <2>1. CASE u = t
    BY <1>1, <1>3, <2>1 DEF TaskIsCurrent
  <2>2. CASE u # t
    BY <1>2, <1>3, <1>5, <2>2 DEF IInv, TasksAreCurrent, TaskIsCurrent, Quietly
  <2>. QED BY <2>1, <2>2
<1>6. ASSUME NEW p \in pushes'
      PROVE  p \in pushes /\ ~Purged(p.spec)
  BY <1>2, <1>6, NothingPurged DEF IInv, SourcesTypeOK, PushRow, Quietly, Keeps, EngineInv
<1>. QED BY <1>2, <1>4, <1>5, <1>6, Combine DEF Quietly

LEMMA EngineStep ==
  ASSUME LifecycleAssumption, IInv, Engine
  PROVE  IInv'
<1>1. Keeps
  BY EngineKeeps DEF Engine, IInv
<1>2. OwnTypes'
  BY DEF Engine, OwnTypes, IInv, SourcesTypeOK
<1>3. ASSUME NEW t \in Tasks, tasks'[t].kind \in {"fix", "cluster", "push"}
      PROVE  tasks'[t] = tasks[t] /\ tasks[t].spec \notin expired'
  BY <1>3 DEF Engine, Held, IInv, TasksAreCurrent, TaskIsCurrent
<1>4. ASSUME NEW p \in pushes'
      PROVE  p \in pushes /\ ~Purged(p.spec)
  BY <1>4 DEF Engine, Gone, Purged, IInv, SourcesTypeOK, TypeOK, Deleted
<1>. QED BY <1>1, <1>2, <1>3, <1>4, Combine

\* An action of a message is a step of the engine that ends no retention.
LEMMA SlackIsEngine ==
  ASSUME LifecycleAssumption, SourcesAssumption, NEW c \in CRs, NEW name \in Reviewers,
         SlackAction(c, name)
  PROVE  Next /\ expired' = expired /\ UNCHANGED sourceVars
<1>1. name \in People /\ "stable" \in Channels
  BY DEF LifecycleAssumption, SourcesAssumption
<1>2. expired' = expired /\ UNCHANGED sourceVars
  BY DEF SlackAction, ApproveMore, ApprovePublish, Reject
<1>3. Next
  <2>1. CASE ApproveMore(c, name, name)
    BY <1>1, <2>1 DEF Next
  <2>2. CASE ApprovePublish(c, name, name, "stable")
    BY <1>1, <2>2 DEF Next
  <2>3. CASE Reject(c)
    BY <2>3 DEF Next
  <2>. QED BY <2>1, <2>2, <2>3 DEF SlackAction
<1>. QED BY <1>2, <1>3

LEMMA FixStep ==
  ASSUME LifecycleAssumption, SourcesAssumption, IInv, NEW t \in Tasks, NEW c \in CRs,
         NEW delta \in VersionDeltas, NEW content \in Contents,
         \/ FinishFix(t, c, delta, content)
         \/ FinishClusterFix(t, c, delta, content)
         \/ DieAfterFix(t, c, delta, content)
  PROVE  IInv'
<1>1. /\ tasks[t].kind \in {"fix", "cluster", "push"}
      /\ Open(c, tasks[t].spec, tasks[t].row, delta, content)
      /\ UNCHANGED <<efficacy, pushes>>
  BY DEF FinishFix, FinishClusterFix, DieAfterFix
<1>2. Quietly
  BY <1>1, LateRequest
<1>3. feedback' \in [Feedbacks -> FeedbackRow \cup {NoFeedback}]
  <2>1. (\E items : Acknowledge(items)) \/ feedback' = feedback
    BY DEF FinishFix, FinishClusterFix, DieAfterFix
  <2>. QED BY <2>1, Acknowledged DEF IInv, SourcesTypeOK
<1>4. /\ tasks' \in [Tasks -> FixTask \cup PushTask \cup RunTask \cup {NoTask}]
      /\ \A u \in Tasks : tasks'[u].kind \in {"fix", "cluster", "push"} => tasks'[u] = tasks[u]
  <2>1. CASE Done(t)
    BY <2>1, Dropped
  <2>2. CASE tasks' = [u \in Tasks |-> NoTask]
    BY <2>2 DEF NoTask
  <2>. QED BY <2>1, <2>2 DEF FinishFix, FinishClusterFix, DieAfterFix
<1>5. OwnTypes'
  BY <1>1, <1>3, <1>4 DEF OwnTypes, IInv, SourcesTypeOK
<1>. QED BY <1>1, <1>2, <1>4, <1>5, QuietStep

LEMMA HandledType ==
  ASSUME IInv, NEW s \in SpecIds, NEW text \in Contents,
         NEW outcome \in {"opened", "identical", "pending"}, Handled(s, text, outcome)
  PROVE  pushes' \subseteq PushRow
BY DEF Handled, PushRow, IInv, SourcesTypeOK

\* A step that handles one push and drops its task.
LEMMA PushStep ==
  ASSUME IInv, Quietly, NEW t \in Tasks, Done(t), NEW s \in SpecIds, NEW text \in Contents,
         NEW outcome \in {"opened", "identical", "pending"}, Handled(s, text, outcome),
         PushIsKept([spec |-> s, text |-> text, outcome |-> outcome])',
         UNCHANGED <<feedback, efficacy>>
  PROVE  IInv'
<1>1. OwnTypes'
  BY HandledType, Dropped DEF OwnTypes, IInv, SourcesTypeOK
<1>2. ASSUME NEW u \in Tasks, tasks'[u].kind \in {"fix", "cluster", "push"}
      PROVE  tasks'[u] = tasks[u] /\ tasks[u].spec \notin expired'
  BY <1>2, Dropped DEF IInv, TasksAreCurrent, TaskIsCurrent, Quietly
<1>3. ASSUME NEW p \in pushes'
      PROVE  (p \in pushes /\ ~Purged(p.spec)) \/ PushIsKept(p)'
  <2>1. CASE p \in pushes
    BY <2>1, NothingPurged DEF IInv, SourcesTypeOK, PushRow, Quietly, Keeps, EngineInv
  <2>2. CASE p = [spec |-> s, text |-> text, outcome |-> outcome]
    BY <2>2
  <2>. QED BY <1>3, <2>1, <2>2 DEF Handled
<1>. QED BY <1>1, <1>2, <1>3, Combine DEF Quietly

LEMMA FinishIdenticalStep ==
  ASSUME LifecycleAssumption, IInv, NEW t \in Tasks, FinishIdentical(t)
  PROVE  IInv'
<1>0. PICK s, text : s = tasks[t].spec /\ text = tasks[t].text
  OBVIOUS
<1>. DEFINE p == [spec |-> s, text |-> text, outcome |-> "identical"]
<1>1. s \in SpecIds /\ text \in Contents /\ text = tasks[t].row.content
  BY <1>0, HeldRow DEF FinishIdentical, IInv, Same
<1>2. Quietly
  BY IdleEngine DEF FinishIdentical, IInv
<1>3. \E v \in spec_versions[s] : v.content = text
  BY <1>0, <1>1 DEF FinishIdentical, IInv, TasksAreCurrent, TaskIsCurrent
<1>4. p.spec = s /\ p.text = text /\ p.outcome = "identical"
  OBVIOUS
<1>5. spec_versions' = spec_versions
  BY DEF FinishIdentical, vars
<1>6. Handled(s, text, "identical") /\ Done(t) /\ UNCHANGED <<feedback, efficacy>>
  BY <1>0 DEF FinishIdentical
<1>. HIDE DEF p
<1>7. PushIsKept(p)'
  BY <1>3, <1>4, <1>5 DEF PushIsKept
<1>. QED BY <1>1, <1>2, <1>6, <1>7, PushStep DEF p

LEMMA FinishPushStep ==
  ASSUME LifecycleAssumption, SourcesAssumption, IInv, NEW t \in Tasks, NEW c \in CRs,
         NEW delta \in VersionDeltas, FinishPush(t, c, delta)
  PROVE  IInv'
<1>0. PICK s, text : s = tasks[t].spec /\ text = tasks[t].text
  OBVIOUS
<1>. DEFINE p == [spec |-> s, text |-> text, outcome |-> "opened"]
<1>1. s \in SpecIds /\ text \in Contents /\ tasks[t].kind = "push"
  BY <1>0, HeldRow DEF FinishPush, IInv
<1>2. /\ Quietly
      /\ change_requests'[c] # NoCR
      /\ change_requests'[c].spec = s
      /\ change_requests'[c].proposed_content = text
  BY <1>0, <1>1, LateRequest DEF FinishPush
<1>3. p.spec = s /\ p.text = text /\ p.outcome = "opened"
  OBVIOUS
<1>4. Handled(s, text, "opened") /\ Done(t) /\ UNCHANGED <<feedback, efficacy>>
  BY <1>0 DEF FinishPush
<1>. HIDE DEF p
<1>5. PushIsKept(p)'
  BY <1>2, <1>3 DEF PushIsKept
<1>. QED BY <1>1, <1>2, <1>4, <1>5, PushStep DEF p

LEMMA ReceivePushStep ==
  ASSUME LifecycleAssumption, IInv, NEW t \in Tasks, NEW s \in SpecIds, NEW text \in Contents,
         ReceivePush(t, s, text)
  PROVE  IInv'
<1>1. CASE specs[s].status = "pending_review"
  <2>. DEFINE p == [spec |-> s, text |-> text, outcome |-> "pending"]
  <2>1. Handled(s, text, "pending") /\ UNCHANGED <<vars, feedback, tasks, efficacy>>
    BY <1>1 DEF ReceivePush
  <2>2. Quietly
    BY <2>1, IdleEngine DEF IInv
  <2>3. OwnTypes'
    BY <2>1, HandledType DEF OwnTypes, IInv, SourcesTypeOK
  <2>4. p.outcome = "pending"
    OBVIOUS
  <2>5. pushes' = pushes \cup {p}
    BY <2>1 DEF Handled
  <2>. HIDE DEF p
  <2>6. PushIsKept(p)'
    BY <2>4 DEF PushIsKept
  <2>7. ASSUME NEW q \in pushes'
        PROVE  (q \in pushes /\ ~Purged(q.spec)) \/ PushIsKept(q)'
    BY <2>2, <2>5, <2>6, <2>7, NothingPurged DEF IInv, SourcesTypeOK, PushRow, Quietly,
       Keeps, EngineInv
  <2>8. ASSUME NEW u \in Tasks, tasks'[u].kind \in {"fix", "cluster", "push"}
        PROVE  tasks'[u] = tasks[u] /\ tasks[u].spec \notin expired'
    BY <2>1, <2>2, <2>8 DEF IInv, TasksAreCurrent, TaskIsCurrent, Quietly
  <2>. QED BY <2>2, <2>3, <2>7, <2>8, Combine DEF Quietly
<1>2. CASE specs[s].status # "pending_review"
  <2>. DEFINE task == [kind |-> "push", spec |-> s, row |-> specs[s], text |-> text]
  <2>1. /\ Live(s) /\ specs[s].status # "draft" /\ Suspend(t, task)
        /\ UNCHANGED <<vars, feedback, efficacy, pushes>>
    BY <1>2 DEF ReceivePush, Reviewable
  <2>2. specs[s] \in SpecRow
    BY <2>1 DEF IInv, SourcesTypeOK, TypeOK, Live
  <2>3. task \in PushTask /\ task.spec = s /\ task.row = specs[s]
    BY <2>2 DEF PushTask
  <2>. HIDE DEF task
  <2>. QED BY <2>1, <2>3, StartStep
<1>. QED BY <1>1, <1>2

LEMMA StartFixStep ==
  ASSUME LifecycleAssumption, IInv, NEW t \in Tasks, NEW f \in Feedbacks,
         StartFix(t, f) \/ StartClusterFix(t, f)
  PROVE  IInv'
<1>. DEFINE s == feedback[f].spec
            task(kind, items) == [kind |-> kind, spec |-> s, row |-> specs[s], items |-> items]
<1>1. PICK kind \in {"fix", "cluster"}, items \in SUBSET Feedbacks : Suspend(t, task(kind, items))
  <2>1. CASE StartFix(t, f)
    BY <2>1 DEF StartFix
  <2>2. CASE StartClusterFix(t, f)
    BY <2>2 DEF StartClusterFix, Cluster
  <2>. QED BY <2>1, <2>2
<1>2. s \in SpecIds /\ Live(s) /\ UNCHANGED <<vars, feedback, efficacy, pushes>>
  BY DEF StartFix, StartClusterFix, MayDraft
<1>3. specs[s] \in SpecRow
  BY <1>2 DEF IInv, SourcesTypeOK, TypeOK, Live
<1>4. /\ task(kind, items) \in FixTask /\ task(kind, items).spec = s
      /\ task(kind, items).row = specs[s] /\ task(kind, items).kind # "push"
  BY <1>2, <1>3 DEF FixTask
<1>. HIDE DEF s, task
<1>. QED BY <1>1, <1>2, <1>4, StartStep

\* Steps that touch neither the engine nor the pushes, and start no late request.
LEMMA AsideStep ==
  ASSUME LifecycleAssumption, IInv, UNCHANGED <<vars, pushes>>, OwnTypes',
         \A t \in Tasks : tasks'[t].kind \in {"fix", "cluster", "push"} => tasks'[t] = tasks[t]
  PROVE  IInv'
BY IdleEngine, QuietStep DEF IInv

LEMMA FeedbackStep ==
  ASSUME LifecycleAssumption, IInv, NEW f \in Feedbacks,
         \/ \E s \in SpecIds \cup {NoSubject}, words \in Words : Report(f, s, words)
         \/ \E status \in Statuses : Triage(f, status) \/ TriageCluster(f, status)
  PROVE  IInv'
<1>1. UNCHANGED <<vars, tasks, efficacy, pushes>>
  BY DEF Report, Triage, TriageCluster
<1>2. ASSUME NEW g \in Feedbacks, feedback[g] # NoFeedback, NEW status \in Statuses
      PROVE  [feedback[g] EXCEPT !.status = status] \in FeedbackRow
  BY <1>2 DEF IInv, SourcesTypeOK, FeedbackRow
<1>3. feedback' \in [Feedbacks -> FeedbackRow \cup {NoFeedback}]
  <2>1. ASSUME NEW s \in SpecIds \cup {NoSubject}, NEW words \in Words, Report(f, s, words)
        PROVE  feedback' \in [Feedbacks -> FeedbackRow \cup {NoFeedback}]
    BY <2>1 DEF Report, FeedbackRow, Statuses, IInv, SourcesTypeOK
  <2>2. ASSUME NEW status \in Statuses, Triage(f, status)
        PROVE  feedback' \in [Feedbacks -> FeedbackRow \cup {NoFeedback}]
    <3>1. feedback' = [feedback EXCEPT ![f] = [feedback[f] EXCEPT !.status = status]]
      BY <2>2 DEF Triage
    <3>2. [feedback[f] EXCEPT !.status = status] \in FeedbackRow
      BY <1>2, <2>2 DEF Triage
    <3>. QED BY <3>1, <3>2 DEF IInv, SourcesTypeOK
  <2>3. ASSUME NEW status \in Statuses, TriageCluster(f, status)
        PROVE  feedback' \in [Feedbacks -> FeedbackRow \cup {NoFeedback}]
    <3>1. \A g \in Cluster(f) : feedback[g] # NoFeedback
      BY DEF Cluster
    <3>. QED BY <1>2, <2>3, <3>1 DEF TriageCluster, IInv, SourcesTypeOK
  <2>. QED BY <2>1, <2>2, <2>3
<1>4. OwnTypes'
  BY <1>1, <1>3 DEF OwnTypes, IInv, SourcesTypeOK
<1>. QED BY <1>1, <1>4, AsideStep

LEMMA DropStep ==
  ASSUME LifecycleAssumption, IInv,
         \/ \E t \in Tasks : FailFix(t) \/ FailPush(t) \/ StopEfficacy(t)
         \/ Crash
  PROVE  IInv'
<1>1. UNCHANGED <<vars, feedback, efficacy, pushes>>
  BY DEF FailFix, FailPush, StopEfficacy, Crash
<1>2. /\ tasks' \in [Tasks -> FixTask \cup PushTask \cup RunTask \cup {NoTask}]
      /\ \A u \in Tasks : tasks'[u].kind \in {"fix", "cluster", "push"} => tasks'[u] = tasks[u]
  <2>1. ASSUME NEW t \in Tasks, Done(t)
        PROVE  <1>2!1 /\ <1>2!2
    BY <2>1, Dropped
  <2>2. CASE Crash
    BY <2>2 DEF Crash, NoTask
  <2>. QED BY <2>1, <2>2 DEF FailFix, FailPush, StopEfficacy
<1>3. OwnTypes'
  BY <1>1, <1>2 DEF OwnTypes, IInv, SourcesTypeOK
<1>. QED BY <1>1, <1>2, <1>3, AsideStep

LEMMA EfficacyStep ==
  ASSUME LifecycleAssumption, IInv, NEW t \in Tasks,
         \/ \E left \in SUBSET SpecIds : StartEfficacy(t, left)
         \/ \E s \in SpecIds : Measure(t, s)
  PROVE  IInv'
<1>1. UNCHANGED <<vars, feedback, pushes>> /\ efficacy' \subseteq SpecIds
  BY DEF StartEfficacy, Measure, IInv, SourcesTypeOK
<1>2. PICK task \in RunTask \cup {NoTask} : tasks' = [tasks EXCEPT ![t] = task]
  <2>1. ASSUME NEW left \in SUBSET SpecIds, StartEfficacy(t, left)
        PROVE  \E task \in RunTask \cup {NoTask} : tasks' = [tasks EXCEPT ![t] = task]
    <3>1. [kind |-> "efficacy", left |-> left] \in RunTask
      BY DEF RunTask
    <3>. QED BY <2>1, <3>1 DEF StartEfficacy, Suspend
  <2>2. ASSUME NEW s \in SpecIds, Measure(t, s)
        PROVE  \E task \in RunTask \cup {NoTask} : tasks' = [tasks EXCEPT ![t] = task]
    <3>1. tasks[t] \in RunTask
      BY <2>2, HeldRow DEF Measure, IInv
    <3>2. [kind |-> "efficacy", left |-> tasks[t].left \ {s}] \in RunTask
      BY <3>1 DEF RunTask
    <3>. QED BY <2>2, <3>2 DEF Measure
  <2>. QED BY <2>1, <2>2
<1>3. task.kind \notin {"fix", "cluster", "push"}
  BY DEF RunTask, NoTask
<1>4. /\ tasks' \in [Tasks -> FixTask \cup PushTask \cup RunTask \cup {NoTask}]
      /\ tasks'[t] = task /\ \A u \in Tasks : u # t => tasks'[u] = tasks[u]
  BY <1>2 DEF IInv, SourcesTypeOK
<1>5. OwnTypes'
  BY <1>1, <1>4 DEF OwnTypes, IInv, SourcesTypeOK
<1>. QED BY <1>1, <1>3, <1>4, <1>5, AsideStep

LEMMA InitIInv == ASSUME LifecycleAssumption, SourcesInit PROVE IInv
<1>1. Base
  BY InitBase DEF SourcesInit
<1>2. \A s \in SpecIds : specs[s].status = "absent"
  BY DEF SourcesInit, Init, NoSpec
<1>3. HeadIsRecorded /\ ReviewIsNotStranded
  BY <1>2 DEF HeadIsRecorded, Governed, ReviewIsNotStranded
<1>4. \A t \in Tasks : tasks[t].kind = "none"
  BY DEF SourcesInit, NoTask
<1>5. TasksAreCurrent /\ PushesAreKept
  BY <1>4 DEF TasksAreCurrent, PushesAreKept, SourcesInit
<1>6. SourcesTypeOK
  BY <1>1 DEF Base, SourcesTypeOK, SourcesInit
<1>. QED BY <1>1, <1>3, <1>5, <1>6 DEF IInv, EngineInv

LEMMA IInvStep ==
  ASSUME LifecycleAssumption, SourcesAssumption, IInv, [SourcesNext]_allVars
  PROVE  IInv'
<1>. USE LifecycleAssumption, SourcesAssumption
<1>1. ASSUME NEW c \in CRs, NEW name \in Reviewers, SlackAction(c, name)
      PROVE  IInv'
  <2>1. Next /\ expired' = expired /\ UNCHANGED sourceVars
    BY <1>1, SlackIsEngine
  <2>2. Quietly
    BY <2>1, EngineKeeps DEF IInv, Quietly
  <2>3. UNCHANGED <<tasks, pushes>> /\ OwnTypes'
    BY <2>1 DEF sourceVars, OwnTypes, IInv, SourcesTypeOK
  <2>. QED BY <2>2, <2>3, QuietStep
<1>2. CASE UNCHANGED allVars
  <2>1. UNCHANGED <<vars, tasks, pushes>> /\ OwnTypes'
    BY <1>2 DEF allVars, sourceVars, OwnTypes, IInv, SourcesTypeOK
  <2>. QED BY <2>1, AsideStep
<1>3. ASSUME NEW t \in Tasks,
             \/ \E f \in Feedbacks : StartFix(t, f) \/ StartClusterFix(t, f)
             \/ \E c \in CRs, delta \in VersionDeltas, content \in Contents :
                  \/ FinishFix(t, c, delta, content)
                  \/ FinishClusterFix(t, c, delta, content)
                  \/ DieAfterFix(t, c, delta, content)
             \/ \E s \in SpecIds, text \in Contents : ReceivePush(t, s, text)
             \/ FinishIdentical(t)
             \/ \E c \in CRs, delta \in VersionDeltas : FinishPush(t, c, delta)
             \/ \E left \in SUBSET SpecIds : StartEfficacy(t, left)
             \/ \E s \in SpecIds : Measure(t, s)
      PROVE  IInv'
  BY <1>3, StartFixStep, FixStep, ReceivePushStep, FinishIdenticalStep, FinishPushStep,
     EfficacyStep
<1>. QED BY <1>1, <1>2, <1>3, EngineStep, FeedbackStep, DropStep DEF SourcesNext

-----------------------------------------------------------------------------
(* The theorems.                                                           *)

(***************************************************************************)
(* The inductive invariant.  TasksAreCurrent is what makes a stale row     *)
(* harmless: no step of the engine takes a released spec back to a draft,  *)
(* no version is ever rewritten, and a purge only takes specs that nobody  *)
(* holds.                                                                  *)
(***************************************************************************)
THEOREM IInvHolds == SourcesSpec => []IInv
<1>1. SourcesInit => IInv
  BY InitIInv, LifecycleAssumption
<1>2. IInv /\ [SourcesNext]_allVars => IInv'
  BY IInvStep, LifecycleAssumption, SourcesAssumption
<1>. QED BY <1>1, <1>2, PTL DEF SourcesSpec

(***************************************************************************)
(* A request opened from a row that was read before an await never goes to *)
(* a draft or to a purged spec, never strands a spec in review and leaves  *)
(* every head recorded; and what a push was told is in the history or in a *)
(* request stays there.                                                    *)
(***************************************************************************)
THEOREM LateAnswersStayHarmless == SourcesSpec => []LateAnswersAreHarmless
<1>1. IInv => LateAnswersAreHarmless
  BY DEF IInv, EngineInv, Base, LateAnswersAreHarmless, StaleRequestsAreHarmless
<1>. QED BY <1>1, IInvHolds, PTL

(***************************************************************************)
(* The fix of one item leaves an item alone that was resolved while the    *)
(* model answered.                                                         *)
(***************************************************************************)
THEOREM ResolvedStaysResolved == SourcesSpec => FixesKeepResolved
<1>. DEFINE Step == \A t \in Tasks : (tasks[t].kind = "fix" /\ tasks'[t] = NoTask) =>
              \A f \in tasks[t].items : feedback[f].status = "resolved" => feedback'[f] = feedback[f]
<1>1. IInv /\ [SourcesNext]_allVars => [Step]_allVars
  <2>. SUFFICES ASSUME IInv, SourcesNext, NEW t \in Tasks,
                       tasks[t].kind = "fix", tasks'[t] = NoTask,
                       NEW f \in tasks[t].items, feedback[f].status = "resolved"
                PROVE  feedback'[f] = feedback[f]
    OBVIOUS
  <2>1. f \in Feedbacks /\ tasks[t] # NoTask
    BY HeldRow DEF IInv, NoTask
  <2>2. ASSUME NEW u \in Tasks, Done(u)
        PROVE  u = t
    BY <2>1, <2>2, Dropped
  <2>3. tasks' # tasks
    BY <2>1
  <2>4. CASE feedback' = feedback
    BY <2>4
  <2>5. ASSUME NEW u \in Tasks, NEW c \in CRs, NEW delta \in VersionDeltas,
               NEW content \in Contents, FinishFix(u, c, delta, content)
        PROVE  feedback'[f] = feedback[f]
    <3>1. Acknowledge(OpenItems(tasks[u].items))
      BY <2>5 DEF FinishFix
    <3>2. f \notin OpenItems(tasks[u].items)
      BY DEF OpenItems
    <3>. QED BY <2>1, <3>1, <3>2 DEF Acknowledge
  <2>6. ASSUME NEW u \in Tasks, NEW c \in CRs, NEW delta \in VersionDeltas,
               NEW content \in Contents, FinishClusterFix(u, c, delta, content)
        PROVE  FALSE
    BY <2>2, <2>6 DEF FinishClusterFix
  <2>7. CASE Engine
    BY <2>3, <2>7 DEF Engine
  <2>8. ASSUME NEW c \in CRs, NEW name \in Reviewers, SlackAction(c, name)
        PROVE  FALSE
    BY <2>3, <2>8 DEF SlackAction, sourceVars
  <2>9. ASSUME NEW g \in Feedbacks,
               \/ \E s \in SpecIds \cup {NoSubject}, words \in Words : Report(g, s, words)
               \/ \E status \in Statuses : Triage(g, status) \/ TriageCluster(g, status)
        PROVE  FALSE
    BY <2>3, <2>9 DEF Report, Triage, TriageCluster
  <2>10. ASSUME NEW u \in Tasks,
               \/ \E g \in Feedbacks : StartFix(u, g) \/ StartClusterFix(u, g)
               \/ \E c \in CRs, delta \in VersionDeltas, content \in Contents :
                    DieAfterFix(u, c, delta, content)
               \/ FailFix(u)
               \/ \E s \in SpecIds, text \in Contents : ReceivePush(u, s, text)
               \/ FinishIdentical(u)
               \/ \E c \in CRs, delta \in VersionDeltas : FinishPush(u, c, delta)
               \/ FailPush(u)
               \/ \E left \in SUBSET SpecIds : StartEfficacy(u, left)
               \/ \E s \in SpecIds : Measure(u, s)
               \/ StopEfficacy(u)
         PROVE  feedback' = feedback
    BY <2>10 DEF StartFix, StartClusterFix, DieAfterFix, FailFix, ReceivePush, FinishIdentical,
       FinishPush, FailPush, StartEfficacy, Measure, StopEfficacy
  <2>11. CASE Crash
    BY <2>11 DEF Crash
  <2>. QED BY <2>4, <2>5, <2>6, <2>7, <2>8, <2>9, <2>10, <2>11 DEF SourcesNext
<1>. QED BY <1>1, IInvHolds, PTL DEF SourcesSpec, FixesKeepResolved

=============================================================================
