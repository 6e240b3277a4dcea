--------------------------- MODULE SpecLifecycle ---------------------------
(***************************************************************************)
(* The specification engine of the server: drafts, change requests,        *)
(* approvals, stable and beta releases, promotion, soft delete, restore    *)
(* and purge (routes/specs.ts, routes/reviews.ts, lib/changes.ts,          *)
(* lib/approvalPolicies.ts), over the SQLite tables specs, spec_versions,  *)
(* change_requests, review_approvals and approval_policies.                *)
(*                                                                         *)
(* Node runs a handler without interruption up to its first await and the  *)
(* database calls are synchronous, so everything a handler does to these   *)
(* tables is one step, with one exception: the approval row is written     *)
(* before, and outside, the transaction that publishes.  What a handler    *)
(* does after its first await touches none of these tables.                *)
(***************************************************************************)
EXTENDS Semver, FiniteSets

CONSTANTS
  SpecIds,        \* identities of specs
  CRs,            \* identities of change requests
  People,         \* names of authors and reviewers
  Contents,       \* markdown bodies
  Filenames,      \* names a spec can have within its scope
  FilenameOf,     \* the filename (with its scope) of each spec
  Reviewers,      \* authenticated users of role reviewer or admin
  Admins,         \* those of role admin
  Policies,       \* effective approval policies a filename may be given
  Channels,       \* channels an approval may name
  VersionDeltas,  \* deltas a change request may ask for
  AllowAdminSelfApprove,  \* the operator setting allow_admin_self_approve
  Crashes         \* whether the process may die inside the approve handler

Policy == [min_approvals : Nat \ {0}, required_reviewers : SUBSET People]

ASSUME LifecycleAssumption ==
  /\ IsFiniteSet(CRs) /\ IsFiniteSet(People)
  /\ FilenameOf \in [SpecIds -> Filenames]
  /\ Reviewers \subseteq People
  /\ Admins \subseteq Reviewers
  /\ Policies \subseteq Policy
  /\ Channels \subseteq {"stable", "beta"}
  /\ VersionDeltas \subseteq Deltas
  /\ AllowAdminSelfApprove \in BOOLEAN
  /\ Crashes \in BOOLEAN

VARIABLES
  specs,            \* table specs
  spec_versions,    \* table spec_versions, by spec
  change_requests,  \* table change_requests
  review_approvals, \* table review_approvals, by change request
  policy,           \* what policyForSpec and required_reviewers yield, by filename
  expired,          \* deleted specs whose deleted_at is more than 14 days old
  served            \* specs with rows in context_event_sections

vars == <<specs, spec_versions, change_requests, review_approvals, policy,
          expired, served>>

tables == <<specs, spec_versions, change_requests, review_approvals>>
-----------------------------------------------------------------------------
SpecRow == [status : {"draft", "pending_review", "published"},
            deleted : BOOLEAN, current_version : Version, content : Contents]

NoSpec == [status |-> "absent"]

VersionRow == [version : Version, content : Contents, channel : {"stable", "beta"}]

\* resulting_version is a set with the version, empty while the column is NULL.
CRRow == [status : {"pending", "approved", "rejected"}, spec : SpecIds,
          proposed_by : People, version_delta : Deltas,
          proposed_content : Contents, resulting_version : SUBSET Version]

NoCR == [status |-> "none"]

\* An approval row: the name it was given under and the user who sent it (the
\* actor of the audit entry review.approval_recorded).
ApprovalRow == [reviewer : People, actor : People]

\* requireSpec: the row exists and is not soft-deleted.
Live(s) == specs[s] # NoSpec /\ ~specs[s].deleted

Deleted(s) == specs[s] # NoSpec /\ specs[s].deleted

TypeOK ==
  /\ specs \in [SpecIds -> SpecRow \cup {NoSpec}]
  /\ spec_versions \in [SpecIds -> SUBSET VersionRow]
  /\ \A s \in SpecIds : IsFiniteSet(spec_versions[s])
  /\ change_requests \in [CRs -> CRRow \cup {NoCR}]
  /\ review_approvals \in [CRs -> SUBSET ApprovalRow]
  /\ policy \in [Filenames -> Policies]
  /\ expired \subseteq {s \in SpecIds : Deleted(s)}
  /\ served \subseteq SpecIds

Init ==
  /\ specs = [s \in SpecIds |-> NoSpec]
  /\ spec_versions = [s \in SpecIds |-> {}]
  /\ change_requests = [c \in CRs |-> NoCR]
  /\ review_approvals = [c \in CRs |-> {}]
  /\ policy \in [Filenames -> Policies]
  /\ expired = {}
  /\ served = {}
-----------------------------------------------------------------------------
\* A unique index on (spec_id, version).
NoUniqueIndex(s, v) == FALSE  \* mutant of HasVersion
HasVersion(s, v) == \E row \in spec_versions[s] : row.version = v

Undecided(c) == change_requests[c].status \in {"pending", "approved"}  \* mutant of Pending
Pending(c) == change_requests[c].status = "pending"

PendingFor(s) == {c \in CRs : Pending(c) /\ change_requests[c].spec = s}

\* INSERT INTO spec_versions.
Record(s, v, content, channel) ==
  spec_versions' = [spec_versions EXCEPT
    ![s] = @ \cup {[version |-> v, content |-> content, channel |-> channel]}]

SetHeadText(s, status, v, content) ==  \* mutant of SetHead
  specs' = [specs EXCEPT ![s].status = status, ![s].content = content]
SetHead(s, status, v, content) ==
  specs' = [specs EXCEPT ![s].status = status, ![s].current_version = v,
                         ![s].content = content]

SetStatus(s, status) == specs' = [specs EXCEPT ![s].status = status]
-----------------------------------------------------------------------------
\* The duplicate check also sees soft-deleted rows.
NameFreeAmongLive(s) ==  \* mutant of NameFree
  specs[s] = NoSpec /\ \A t \in SpecIds : FilenameOf[t] = FilenameOf[s] => ~Live(t)
NameFree(s) == \A t \in SpecIds : FilenameOf[t] = FilenameOf[s] => specs[t] = NoSpec

\* POST /specs
CreateSpec(s, content) ==
  /\ NameFree(s)
  /\ specs' = [specs EXCEPT ![s] = [status |-> "draft", deleted |-> FALSE,
                 current_version |-> DraftVersion, content |-> content]]
  /\ UNCHANGED <<spec_versions, change_requests, review_approvals, policy,
                 expired, served>>

\* PUT /specs/:key
EditDraft(s, content) ==
  /\ Live(s) /\ specs[s].status = "draft"
  /\ specs' = [specs EXCEPT ![s].content = content]
  /\ UNCHANGED <<spec_versions, change_requests, review_approvals, policy,
                 expired, served>>

\* POST /specs/:key/publish
PublishDraft(s) ==
  /\ Live(s) /\ specs[s].status = "draft"
  /\ ~HasVersion(s, FirstVersion)
  /\ SetHead(s, "published", FirstVersion, specs[s].content)
  /\ Record(s, FirstVersion, specs[s].content, "stable")
  /\ UNCHANGED <<change_requests, review_approvals, policy, expired, served>>

\* Drafts are edited directly, not reviewed.
Reviewable(s) == Live(s) /\ specs[s].status # "draft"

\* POST /specs/review and createChangeRequest.  Several requests may be pending
\* for one spec.
SubmitReview(s, c, author, delta, content) ==
  /\ Reviewable(s)
  /\ content # specs[s].content
  /\ change_requests[c] = NoCR
  /\ change_requests' = [change_requests EXCEPT
       ![c] = [status |-> "pending", spec |-> s, proposed_by |-> author,
               version_delta |-> delta, proposed_content |-> content,
               resulting_version |-> {}]]
  /\ SetStatus(s, "pending_review")
  /\ UNCHANGED <<spec_versions, review_approvals, policy, expired, served>>
-----------------------------------------------------------------------------
\* policyReviewers and enforceRequiredReviewers; admins bypass both.
RoutedTo(s, user) ==
  LET required == policy[FilenameOf[s]].required_reviewers
  IN  required = {} \/ user \in Admins \/ user \in required

AdminsMaySelfApprove(c, user) ==  \* mutant of DutiesSeparated
  user # change_requests[c].proposed_by \/ user \in Admins
\* A proposer may approve only as an admin, where the operator allows it.
DutiesSeparated(c, user) ==
  \/ user # change_requests[c].proposed_by
  \/ user \in Admins /\ AllowAdminSelfApprove

MayApprove(c, user, reviewed_by) ==
  /\ Pending(c)
  /\ Live(change_requests[c].spec)
  /\ user \in Reviewers
  /\ RoutedTo(change_requests[c].spec, user)
  /\ DutiesSeparated(c, user)
  /\ \A row \in review_approvals[c] : row.reviewer # reviewed_by

WithApproval(c, user, reviewed_by) ==
  review_approvals[c] \cup {[reviewer |-> reviewed_by, actor |-> user]}

RequiredApprovalCount(s) == policy[FilenameOf[s]].min_approvals

MoreThanEnough(c, user, reviewed_by) ==  \* mutant of Enough
  Cardinality(WithApproval(c, user, reviewed_by)) >
    RequiredApprovalCount(change_requests[c].spec)
Enough(c, user, reviewed_by) ==
  Cardinality(WithApproval(c, user, reviewed_by)) >=
    RequiredApprovalCount(change_requests[c].spec)

\* INSERT INTO review_approvals, the first statement of the handler that writes.
RecordApproval(c, user, reviewed_by) ==
  /\ MayApprove(c, user, reviewed_by)
  /\ review_approvals' =
       [review_approvals EXCEPT ![c] = WithApproval(c, user, reviewed_by)]

\* The version a publication of c gets: a beta is numbered after the betas
\* already recorded for the same release.
NewVersion(c, channel) ==
  LET s == change_requests[c].spec
      bumped == Bump(specs[s].current_version, change_requests[c].version_delta)
      priorBetas == {row \in spec_versions[s] :
                       SameRelease(row.version, bumped) /\ ~IsStable(row.version)}
  IN  IF channel = "stable" THEN bumped
      ELSE [bumped EXCEPT !.beta = Cardinality(priorBetas) + 1]

\* Not enough approvals yet.
ApproveMore(c, user, reviewed_by) ==
  /\ RecordApproval(c, user, reviewed_by)
  /\ ~Enough(c, user, reviewed_by)
  /\ UNCHANGED <<specs, spec_versions, change_requests, policy, expired, served>>

\* The transaction: the request is approved, the version recorded and, on the
\* stable channel, the head replaced.  Either way the spec leaves pending_review.
ApprovePublish(c, user, reviewed_by, channel) ==
  LET cr == change_requests[c]
      s == cr.spec
      v == NewVersion(c, channel)
  IN  /\ RecordApproval(c, user, reviewed_by)
      /\ Enough(c, user, reviewed_by)
      /\ ~HasVersion(s, v)
      /\ change_requests' = [change_requests EXCEPT
           ![c].status = "approved", ![c].resulting_version = {v}]
      /\ IF channel = "stable"
           THEN SetHead(s, "published", v, cr.proposed_content)
           ELSE SetStatus(s, "published")
      /\ Record(s, v, cr.proposed_content, channel)
      /\ UNCHANGED <<policy, expired, served>>

\* The transaction fails on UNIQUE (spec_id, version), or the process dies
\* before it commits: the approval row stays, nothing else happened.
ApproveUnpublished(c, user, reviewed_by, channel) ==
  /\ RecordApproval(c, user, reviewed_by)
  /\ Enough(c, user, reviewed_by)
  /\ Crashes \/ HasVersion(change_requests[c].spec, NewVersion(c, channel))
  /\ UNCHANGED <<specs, spec_versions, change_requests, policy, expired, served>>

CountedBeforeUpdate(c) == PendingFor(change_requests[c].spec) = {}  \* mutant of LastPending
LastPending(c) == PendingFor(change_requests[c].spec) = {c}

\* POST /reviews/:id/reject, also on a deleted spec: the status is restored when
\* no other request is pending.
Reject(c) ==
  /\ Pending(c)
  /\ change_requests' = [change_requests EXCEPT ![c].status = "rejected"]
  /\ IF LastPending(c) THEN SetStatus(change_requests[c].spec, "published")
     ELSE UNCHANGED specs
  /\ UNCHANGED <<spec_versions, review_approvals, policy, expired, served>>

\* POST /specs/:key/promote: a beta becomes the head; the status stays.
Promote(s, beta) ==
  LET v == StableOf(beta.version)
  IN  /\ Live(s)
      /\ beta \in spec_versions[s] /\ beta.channel # "stable"
      /\ ~HasVersion(s, v)
      /\ SetHead(s, specs[s].status, v, beta.content)
      /\ Record(s, v, beta.content, "stable")
      /\ UNCHANGED <<change_requests, review_approvals, policy, expired, served>>
-----------------------------------------------------------------------------
\* DELETE /specs/:id
Delete(s) ==
  /\ Live(s)
  /\ specs' = [specs EXCEPT ![s].deleted = TRUE]
  /\ UNCHANGED <<spec_versions, change_requests, review_approvals, policy,
                 expired, served>>

\* deleted_at becomes NULL.
ClearDeletion(s) == expired' = expired \ {s}

\* POST /specs/:id/restore
Restore(s) ==
  /\ Deleted(s)
  /\ \A t \in SpecIds : FilenameOf[t] = FilenameOf[s] => ~Live(t)
  /\ specs' = [specs EXCEPT ![s].deleted = FALSE]
  /\ ClearDeletion(s)
  /\ UNCHANGED <<spec_versions, change_requests, review_approvals, policy, served>>

\* Fourteen days pass after a deletion.
RetentionEnds(s) ==
  /\ Deleted(s) /\ s \notin expired
  /\ expired' = expired \cup {s}
  /\ UNCHANGED <<tables, policy, served>>

OpenOfExpired(c) ==  \* mutant of OfExpired
  change_requests[c].status = "pending" /\ change_requests[c].spec \in expired
OfExpired(c) == change_requests[c] # NoCR /\ change_requests[c].spec \in expired

\* POST /specs/purge: one transaction for every expired spec.  A row of
\* context_event_sections still references a served spec, so deleting that spec
\* fails and the whole transaction rolls back.
Purge ==
  /\ expired # {} /\ expired \cap served = {}
  /\ specs' = [s \in SpecIds |-> IF s \in expired THEN NoSpec ELSE specs[s]]
  /\ spec_versions' = [s \in SpecIds |-> IF s \in expired THEN {} ELSE spec_versions[s]]
  /\ change_requests' = [c \in CRs |-> IF OfExpired(c) THEN NoCR ELSE change_requests[c]]
  /\ review_approvals' = [c \in CRs |-> IF OfExpired(c) THEN {} ELSE review_approvals[c]]
  /\ expired' = {}
  /\ UNCHANGED <<policy, served>>

\* Approval policies and required reviewers are created, changed and deleted.
SetPolicy(f, p) ==
  /\ policy' = [policy EXCEPT ![f] = p]
  /\ UNCHANGED <<tables, expired, served>>

\* A download, compile or agent pack records which specs it served.
Serve(s) ==
  /\ Live(s) /\ specs[s].status # "draft"
  /\ served' = served \cup {s}
  /\ UNCHANGED <<tables, policy, expired>>
-----------------------------------------------------------------------------
Next ==
  \/ \E s \in SpecIds, content \in Contents : CreateSpec(s, content) \/ EditDraft(s, content)
  \/ \E s \in SpecIds : PublishDraft(s) \/ Delete(s) \/ Restore(s) \/ RetentionEnds(s) \/ Serve(s)
  \/ \E s \in SpecIds, c \in CRs, author \in People, delta \in VersionDeltas, content \in Contents :
        SubmitReview(s, c, author, delta, content)
  \/ \E c \in CRs, user \in People, reviewed_by \in People :
        \/ ApproveMore(c, user, reviewed_by)
        \/ \E channel \in Channels :
              \/ ApprovePublish(c, user, reviewed_by, channel)
              \/ ApproveUnpublished(c, user, reviewed_by, channel)
  \/ \E c \in CRs : Reject(c)
  \/ \E s \in SpecIds : \E beta \in spec_versions[s] : Promote(s, beta)
  \/ Purge
  \/ \E f \in Filenames, p \in Policies : SetPolicy(f, p)

Spec == Init /\ [][Next]_vars
-----------------------------------------------------------------------------
(***************************************************************************)
(* Properties.                                                             *)
(***************************************************************************)

Governed(s) == specs[s].status \in {"pending_review", "published"}

\* The text and version of every published spec are those of a recorded stable
\* version: no path (approve, promote, reject, restore) leaves a head that the
\* history cannot reproduce.
HeadIsRecorded ==
  \A s \in SpecIds : Governed(s) =>
    [version |-> specs[s].current_version, content |-> specs[s].content,
     channel |-> "stable"] \in spec_versions[s]

\* A draft, or a spec that is gone, has no version history, change request or
\* approval, so publishing it as 1.0.0 can never collide with an old version.
DraftsAreUngoverned ==
  /\ \A s \in SpecIds : ~Governed(s) => spec_versions[s] = {}
  /\ \A c \in CRs : change_requests[c] = NoCR \/ Governed(change_requests[c].spec)
  /\ \A c \in CRs : change_requests[c] = NoCR => review_approvals[c] = {}

\* Both: every row is of its type and no row outlives the spec it belongs to, whatever
\* was deleted, restored and purged between its requests.
RowsAreWellFormed == TypeOK /\ DraftsAreUngoverned

\* A spec in pending_review always has a pending request that can take it out
\* of there again, whatever order its requests were submitted and decided in.
ReviewIsNotStranded ==
  \A s \in SpecIds : specs[s].status = "pending_review" => PendingFor(s) # {}

\* An approved request has the evidence SPEC_GOVERNANCE.md asks for: approvals,
\* none of them by its proposer unless the operator allows it, and its text
\* recorded under the version it resulted in.
ApprovalEvidence ==
  \A c \in CRs : change_requests[c].status = "approved" =>
    LET cr == change_requests[c]
    IN  /\ review_approvals[c] # {}
        /\ \A row \in review_approvals[c] :
              row.actor = cr.proposed_by => row.actor \in Admins /\ AllowAdminSelfApprove
        /\ \E v \in cr.resulting_version : \E row \in spec_versions[cr.spec] :
              row.version = v /\ row.content = cr.proposed_content

\* Two specs of one filename never coexist, deleted ones included: the filename
\* stays reserved until the purge (docs/CONCEPTS.md).
FilenameIsReserved ==
  \A s, t \in SpecIds :
    specs[s] # NoSpec /\ specs[t] # NoSpec /\ FilenameOf[s] = FilenameOf[t] => s = t

\* Recorded versions are never rewritten and decided requests never reopened;
\* only the purge of an expired spec removes them.
EvidenceIsImmutable ==
  [][/\ \A s \in SpecIds :
          \/ spec_versions[s] \subseteq spec_versions'[s]
          \/ s \in expired /\ specs'[s] = NoSpec
     /\ \A c \in CRs :
          change_requests[c].status \in {"approved", "rejected"} =>
            \/ /\ change_requests'[c] = change_requests[c]
               /\ review_approvals'[c] = review_approvals[c]
            \/ change_requests[c].spec \in expired /\ specs'[change_requests[c].spec] = NoSpec
    ]_vars

\* Without betas the history is linear: no stable version is ahead of the head.
HeadIsNewest ==
  \A s \in SpecIds : Governed(s) =>
    \A row \in spec_versions[s] : ~Precedes(specs[s].current_version, row.version)

\* docs/SPEC.md, "strict Semantic Versioning": the version of a published spec
\* never goes back.
VersionNeverRegresses ==
  [][\A s \in SpecIds :
       Governed(s) /\ specs'[s] # NoSpec =>
         ~Precedes(specs'[s].current_version, specs[s].current_version)]_vars

\* docs/CONCEPTS.md, "approval bumps the semver by the requested delta": a
\* request of a live spec is not left pending with all its approvals given.
ApprovalPublishes ==
  \A c \in CRs :
    Pending(c) /\ Live(change_requests[c].spec) =>
      Cardinality(review_approvals[c]) < RequiredApprovalCount(change_requests[c].spec)

\* What drift reports say of any two releases of a history without betas: the
\* severity is the gravest bump between them, and the later one satisfies a caret
\* pin on the earlier one iff no bump between them was breaking.
SeverityIsGravestBump ==
  \A s \in SpecIds : \A old, new \in spec_versions[s] : Precedes(old.version, new.version) =>
    LET between == {c \in CRs :
                      /\ change_requests[c].status = "approved" /\ change_requests[c].spec = s
                      /\ \E v \in change_requests[c].resulting_version :
                           Precedes(old.version, v) /\ ~Precedes(new.version, v)}
        bumps == {change_requests[c].version_delta : c \in between}
    IN  /\ DriftSeverity(old.version, new.version) =
             CASE "major" \in bumps -> "major"
               [] "major" \notin bumps /\ "minor" \in bumps -> "minor"
               [] OTHER -> "patch"
        /\ SatisfiesCaret(new.version, old.version) <=> "major" \notin bumps

\* Without betas the versions of a spec are a line whose steps tell what changed.
HistoryIsLinear == HeadIsNewest /\ SeverityIsGravestBump

\* Deletion is retained for 14 days before purge: an admin who keeps purging
\* gets rid of an expired spec unless somebody restores it.
PurgeSpec == Spec /\ WF_vars(Purge)

ExpiredSpecsArePurged ==
  \A s \in SpecIds : (s \in expired) ~> (s \notin expired)
-----------------------------------------------------------------------------
\* The abstract registry this module implements.
PhaseOf(s) ==
  CASE specs[s] = NoSpec -> "absent"
    [] specs[s].status = "draft" -> "draft"
    [] Governed(s) -> "governed"

HeadOf(s) ==
  IF specs[s] = NoSpec THEN NoSpec
  ELSE [version |-> specs[s].current_version, content |-> specs[s].content]

Registry == INSTANCE GovernedRegistry WITH
  Docs <- SpecIds,
  phase <- [s \in SpecIds |-> PhaseOf(s)],
  head <- [s \in SpecIds |-> HeadOf(s)],
  history <- spec_versions,
  hidden <- {s \in SpecIds : Deleted(s)}

ImplementsRegistry == Registry!RegistrySpec
=============================================================================
