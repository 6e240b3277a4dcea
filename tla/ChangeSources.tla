--------------------------- MODULE ChangeSources ---------------------------
(***************************************************************************)
(* Change requests that no person writes: drafts of the language model     *)
(* that answer agent feedback, one item or a cluster, and pushes to a      *)
(* subscribed repository; with the feedback they triage and the efficacy   *)
(* runs over the same specs (routes/feedback.ts, routes/integrations.ts,   *)
(* lib/aifix.ts, lib/audit.ts), composed with the engine of SpecLifecycle. *)
(*                                                                         *)
(* Each of these handlers reads a spec, awaits the model or GitHub, and    *)
(* goes on with the row it read: a task holds that row, and any step of    *)
(* the engine may come between its two steps.                              *)
(***************************************************************************)
EXTENDS SpecLifecycle

CONSTANTS
  Feedbacks,      \* rows of agent_feedback
  Words,          \* descriptions, as far as clusters tell them apart
  Tasks,          \* handlers that may be suspended at a time
  Machine,        \* the author that drafted and inbound requests carry
  NoSubject       \* the spec of a report of missing guidance

\* An approval that names no channel is on the stable one.
ASSUME SourcesAssumption ==
  /\ Machine \in People \ Reviewers
  /\ "stable" \in Channels
  /\ NoSubject \notin SpecIds

VARIABLES
  feedback,   \* table agent_feedback
  tasks,      \* suspended handlers
  efficacy,   \* specs with rows in efficacy_runs
  pushes      \* what became of the files of webhooks: opened, identical or pending

sourceVars == <<feedback, tasks, efficacy, pushes>>
allVars == <<vars, sourceVars>>

Statuses == {"open", "acknowledged", "resolved"}
NoFeedback == [status |-> "none"]
FeedbackRow == [status : Statuses, spec : SpecIds \cup {NoSubject}, words : Words]

NoTask == [kind |-> "none"]
FixTask == [kind : {"fix", "cluster"}, spec : SpecIds, row : SpecRow, items : SUBSET Feedbacks]
PushTask == [kind : {"push"}, spec : SpecIds, row : SpecRow, text : Contents]
RunTask == [kind : {"efficacy"}, left : SUBSET SpecIds]

PushRow == [spec : SpecIds, text : Contents, outcome : {"opened", "identical", "pending"}]

SourcesTypeOK ==
  /\ TypeOK
  /\ feedback \in [Feedbacks -> FeedbackRow \cup {NoFeedback}]
  /\ tasks \in [Tasks -> FixTask \cup PushTask \cup RunTask \cup {NoTask}]
  /\ efficacy \subseteq SpecIds
  /\ pushes \subseteq PushRow

SourcesInit ==
  /\ Init
  /\ feedback = [f \in Feedbacks |-> NoFeedback]
  /\ tasks = [t \in Tasks |-> NoTask]
  /\ efficacy = {}
  /\ pushes = {}

Done(t) == tasks' = [tasks EXCEPT ![t] = NoTask]
Suspend(t, task) == tasks[t] = NoTask /\ tasks' = [tasks EXCEPT ![t] = task]
-----------------------------------------------------------------------------
(* Feedback and its triage.                                                *)

\* POST /ai/feedback: about a live spec, drafts included, or a gap.
Report(f, s, words) ==
  /\ feedback[f] = NoFeedback
  /\ s \in SpecIds => Live(s)
  /\ feedback' = [feedback EXCEPT ![f] = [status |-> "open", spec |-> s, words |-> words]]
  /\ UNCHANGED <<vars, tasks, efficacy, pushes>>

\* POST /ai/feedback/:id/status
Triage(f, status) ==
  /\ feedback[f] # NoFeedback
  /\ feedback' = [feedback EXCEPT ![f].status = status]
  /\ UNCHANGED <<vars, tasks, efficacy, pushes>>

\* feedbackClusterKey
Cluster(f) ==
  {g \in Feedbacks : /\ feedback[g] # NoFeedback
                     /\ feedback[g].spec = feedback[f].spec
                     /\ feedback[g].words = feedback[f].words}

\* POST /ai/feedback/clusters/status
TriageCluster(f, status) ==
  /\ feedback[f] # NoFeedback
  /\ feedback' = [g \in Feedbacks |->
       IF g \in Cluster(f) THEN [feedback[g] EXCEPT !.status = status] ELSE feedback[g]]
  /\ UNCHANGED <<vars, tasks, efficacy, pushes>>
-----------------------------------------------------------------------------
(* createChangeRequest with a row read before an await.                    *)

OpenableDraft(row, content) == content # row.content  \* mutant of Openable
Openable(row, content) == row.status # "draft" /\ content # row.content

Open(c, s, row, delta, content) ==
  /\ Openable(row, content)
  /\ change_requests[c] = NoCR
  /\ change_requests' = [change_requests EXCEPT
       ![c] = [status |-> "pending", spec |-> s, proposed_by |-> Machine,
               version_delta |-> delta, proposed_content |-> content,
               resulting_version |-> {}]]
  /\ SetStatus(s, "pending_review")
  /\ UNCHANGED <<spec_versions, review_approvals, policy, expired, served>>
-----------------------------------------------------------------------------
(* Draft fixes.                                                            *)

MayDraft(s) == s \in SpecIds /\ Live(s) /\ specs[s].status # "pending_review"

\* POST /ai/feedback/:id/draft-fix, up to the model's answer.
StartFix(t, f) ==
  /\ feedback[f] # NoFeedback /\ feedback[f].status # "resolved"
  /\ MayDraft(feedback[f].spec)
  /\ Suspend(t, [kind |-> "fix", spec |-> feedback[f].spec,
                 row |-> specs[feedback[f].spec], items |-> {f}])
  /\ UNCHANGED <<vars, feedback, efficacy, pushes>>

\* POST /ai/feedback/clusters/draft-fix: the items not resolved by then.
StartClusterFix(t, f) ==
  /\ feedback[f] # NoFeedback
  /\ LET items == {g \in Cluster(f) : feedback[g].status # "resolved"} IN
       /\ items # {}
       /\ MayDraft(feedback[f].spec)
       /\ Suspend(t, [kind |-> "cluster", spec |-> feedback[f].spec,
                      row |-> specs[feedback[f].spec], items |-> items])
  /\ UNCHANGED <<vars, feedback, efficacy, pushes>>

Acknowledge(items) ==
  feedback' = [f \in Feedbacks |->
    IF f \in items /\ feedback[f] # NoFeedback
    THEN [feedback[f] EXCEPT !.status = "acknowledged"] ELSE feedback[f]]

OpenItems(items) == {f \in items : feedback[f].status = "open"}

\* Mutant of FinishFix: whatever the item is by then, it is acknowledged.
FinishFixBlindly(t, c, delta, content) ==
  /\ tasks[t].kind = "fix"
  /\ Open(c, tasks[t].spec, tasks[t].row, delta, content)
  /\ Acknowledge(tasks[t].items)
  /\ Done(t)
  /\ UNCHANGED <<efficacy, pushes>>

\* The model answers: the request is opened and an item that is still open
\* becomes acknowledged.
FinishFix(t, c, delta, content) ==
  /\ tasks[t].kind = "fix"
  /\ Open(c, tasks[t].spec, tasks[t].row, delta, content)
  /\ Acknowledge(OpenItems(tasks[t].items))
  /\ Done(t)
  /\ UNCHANGED <<efficacy, pushes>>

\* A cluster fix acknowledges all its items, also those resolved meanwhile.
FinishClusterFix(t, c, delta, content) ==
  /\ tasks[t].kind = "cluster"
  /\ Open(c, tasks[t].spec, tasks[t].row, delta, content)
  /\ Acknowledge(tasks[t].items)
  /\ Done(t)
  /\ UNCHANGED <<efficacy, pushes>>

\* No answer, an answer that changes nothing, or a draft.
FailFix(t) ==
  /\ tasks[t].kind \in {"fix", "cluster"}
  /\ Done(t)
  /\ UNCHANGED <<vars, feedback, efficacy, pushes>>

\* The process dies between the request's transaction and the update of the items.
DieAfterFix(t, c, delta, content) ==
  /\ Crashes
  /\ tasks[t].kind \in {"fix", "cluster"}
  /\ Open(c, tasks[t].spec, tasks[t].row, delta, content)
  /\ tasks' = [u \in Tasks |-> NoTask]
  /\ UNCHANGED <<feedback, efficacy, pushes>>

Crash ==
  /\ Crashes
  /\ tasks' = [u \in Tasks |-> NoTask]
  /\ UNCHANGED <<vars, feedback, efficacy, pushes>>
-----------------------------------------------------------------------------
(* Pushes to a subscribed repository, file by file.                        *)

Handled(s, text, outcome) ==
  pushes' = pushes \cup {[spec |-> s, text |-> text, outcome |-> outcome]}

\* POST /integrations/github/webhook for a file that a governed spec is named by.
\* A file of a spec under review is skipped; any other is fetched.
ReceivePush(t, s, text) ==
  /\ Reviewable(s)
  /\ IF specs[s].status = "pending_review"
     THEN Handled(s, text, "pending") /\ UNCHANGED tasks
     ELSE /\ Suspend(t, [kind |-> "push", spec |-> s, row |-> specs[s], text |-> text])
          /\ UNCHANGED pushes
  /\ UNCHANGED <<vars, feedback, efficacy>>

\* The file is compared with the row that was read before it was fetched.
Same(task) == task.text = task.row.content

FinishIdentical(t) ==
  /\ tasks[t].kind = "push" /\ Same(tasks[t])
  /\ Handled(tasks[t].spec, tasks[t].text, "identical")
  /\ Done(t)
  /\ UNCHANGED <<vars, feedback, efficacy>>

FinishPush(t, c, delta) ==
  /\ tasks[t].kind = "push" /\ ~Same(tasks[t])
  /\ Open(c, tasks[t].spec, tasks[t].row, delta, tasks[t].text)
  /\ Handled(tasks[t].spec, tasks[t].text, "opened")
  /\ Done(t)
  /\ UNCHANGED <<feedback, efficacy>>

\* The file cannot be fetched.
FailPush(t) ==
  /\ tasks[t].kind = "push"
  /\ Done(t)
  /\ UNCHANGED <<vars, feedback, efficacy, pushes>>
-----------------------------------------------------------------------------
(* Efficacy runs: one spec, or the published ones in turn.                 *)

StartEfficacy(t, left) ==
  /\ left # {}
  /\ \/ \E s \in left : left = {s} /\ Live(s)
     \/ \A s \in left : Live(s) /\ specs[s].status = "published"
  /\ Suspend(t, [kind |-> "efficacy", left |-> left])
  /\ UNCHANGED <<vars, feedback, efficacy, pushes>>

Measure(t, s) ==
  /\ tasks[t].kind = "efficacy" /\ s \in tasks[t].left
  /\ efficacy' = efficacy \cup {s}
  /\ LET rest == tasks[t].left \ {s}
     IN  tasks' = [tasks EXCEPT ![t] =
           IF rest = {} THEN NoTask ELSE [kind |-> "efficacy", left |-> rest]]
  /\ UNCHANGED <<vars, feedback, pushes>>

\* The model or GitHub fails.
StopEfficacy(t) ==
  /\ tasks[t].kind = "efficacy"
  /\ Done(t)
  /\ UNCHANGED <<vars, feedback, efficacy, pushes>>
-----------------------------------------------------------------------------
\* Whatever the engine does.  A purge takes feedback and efficacy runs along; no
\* handler is suspended for the fourteen days that pass before it.
Gone(s) == s \in SpecIds /\ specs[s] # NoSpec /\ specs'[s] = NoSpec

Held(s) == \E t \in Tasks : \/ tasks[t].kind \in {"fix", "cluster", "push"} /\ tasks[t].spec = s
                            \/ tasks[t].kind = "efficacy" /\ s \in tasks[t].left

Engine ==
  /\ Next
  /\ \A s \in expired' \ expired : ~Held(s)
  /\ feedback' = [f \in Feedbacks |->
       IF feedback[f] # NoFeedback /\ Gone(feedback[f].spec) THEN NoFeedback ELSE feedback[f]]
  /\ efficacy' = {s \in efficacy : ~Gone(s)}
  /\ pushes' = {p \in pushes : ~Gone(p.spec)}
  /\ UNCHANGED tasks

\* An action of a Slack message reaches the routes of the engine under a name of its
\* own: the account that approves is the name recorded.
SlackAction(c, name) ==
  /\ \/ ApproveMore(c, name, name)
     \/ ApprovePublish(c, name, name, "stable")
     \/ Reject(c)
  /\ UNCHANGED sourceVars

SourcesNext ==
  \/ Engine
  \/ \E c \in CRs, name \in Reviewers : SlackAction(c, name)
  \/ \E f \in Feedbacks :
       \/ \E s \in SpecIds \cup {NoSubject}, words \in Words : Report(f, s, words)
       \/ \E status \in Statuses : Triage(f, status) \/ TriageCluster(f, status)
  \/ \E t \in Tasks :
       \/ \E f \in Feedbacks : StartFix(t, f) \/ StartClusterFix(t, f)
       \/ \E c \in CRs, delta \in VersionDeltas, content \in Contents :
            \/ FinishFix(t, c, delta, content)
            \/ FinishClusterFix(t, c, delta, content)
            \/ DieAfterFix(t, c, delta, content)
       \/ FailFix(t)
       \/ \E s \in SpecIds, text \in Contents : ReceivePush(t, s, text)
       \/ FinishIdentical(t)
       \/ \E c \in CRs, delta \in VersionDeltas : FinishPush(t, c, delta)
       \/ FailPush(t)
       \/ \E left \in SUBSET SpecIds : StartEfficacy(t, left)
       \/ \E s \in SpecIds : Measure(t, s)
       \/ StopEfficacy(t)
  \/ Crash

SourcesSpec == SourcesInit /\ [][SourcesNext]_allVars
-----------------------------------------------------------------------------
(* Properties.                                                             *)

\* Requests opened from rows read before an await do not disturb the engine, even if
\* the spec was released, deleted or restored in between: no draft or purged spec gets a
\* request, and a spec under review can be taken out of review again.
StaleRequestsAreHarmless == DraftsAreUngoverned /\ ReviewIsNotStranded /\ HeadIsRecorded

\* The fix of one item never takes it out of "resolved", however long the model
\* answers and whoever triages meanwhile; only people and cluster fixes do.
FixesKeepResolved ==
  [][\A t \in Tasks : (tasks[t].kind = "fix" /\ tasks'[t] = NoTask) =>
       \A f \in tasks[t].items : feedback[f].status = "resolved" => feedback'[f] = feedback[f]]_allVars

\* A pushed text that the webhook took for the head's, or for which it opened a
\* request, is in the history or in a request as long as the spec is there: the
\* registry never loses it.
PushesAreKept ==
  \A p \in pushes :
    CASE p.outcome = "identical" -> \E row \in spec_versions[p.spec] : row.content = p.text
      [] p.outcome = "opened" -> \E c \in CRs : /\ change_requests[c] # NoCR
                                                /\ change_requests[c].spec = p.spec
                                                /\ change_requests[c].proposed_content = p.text
      [] OTHER -> TRUE

\* No late answer undoes what people or the engine did while it was awaited.
LateAnswersAreHarmless == StaleRequestsAreHarmless /\ PushesAreKept

\* routes/integrations.ts promises a request "instead of letting the copies fork":
\* whatever was pushed is in the history or in a request.
PushesAreProposed ==
  \A p \in pushes :
    \/ \E row \in spec_versions[p.spec] : row.content = p.text
    \/ \E c \in CRs : /\ change_requests[c] # NoCR
                      /\ change_requests[c].spec = p.spec
                      /\ change_requests[c].proposed_content = p.text
=============================================================================
