------------------------ MODULE SpecLifecycleProofs ------------------------
(***************************************************************************)
(* Machine-checked proofs about SpecLifecycle, for any sets of specs,      *)
(* requests, people, contents and policies: its rows are well-formed, and  *)
(* it implements GovernedRegistry.                                         *)
(***************************************************************************)
EXTENDS SpecLifecycle, FiniteSetTheorems, TLAPS

Base == TypeOK /\ DraftsAreUngoverned

-----------------------------------------------------------------------------
(* Versions.                                                               *)

LEMMA ReleaseType ==
  ASSUME NEW a \in Nat, NEW b \in Nat, NEW c \in Nat
  PROVE  Release(a, b, c) \in Version
BY DEF Release, Version

LEMMA VersionTypes ==
  /\ DraftVersion \in Version
  /\ FirstVersion \in Version
  /\ \A v \in Version, d \in Deltas : Bump(v, d) \in Version
  /\ \A v \in Version : StableOf(v) \in Version
<1>1. \A v \in Version, d \in Deltas : Bump(v, d) \in Version
  <2>. SUFFICES ASSUME NEW v \in Version, NEW d \in Deltas
                PROVE  Bump(v, d) \in Version
    OBVIOUS
  <2>1. v.major \in Nat /\ v.minor \in Nat /\ v.patch \in Nat
    BY DEF Version
  <2>2. CASE d = "major"
    BY <2>1, <2>2, ReleaseType DEF Bump
  <2>3. CASE d = "minor"
    <3>1. Bump(v, d) = Release(v.major, v.minor + 1, 0)
      BY <2>3 DEF Bump
    <3>. QED BY <2>1, <3>1, ReleaseType
  <2>4. CASE d = "patch"
    BY <2>1, <2>4, ReleaseType DEF Bump
  <2>. QED BY <2>2, <2>3, <2>4 DEF Deltas
<1>2. \A v \in Version : StableOf(v) \in Version
  BY DEF StableOf, Version
<1>. QED BY <1>1, <1>2, ReleaseType DEF DraftVersion, FirstVersion

-----------------------------------------------------------------------------
(* What a handler does to one row of a table.                              *)

Row(s, status, v, content) ==
  [status |-> status, deleted |-> specs[s].deleted, current_version |-> v, content |-> content]

SpecBecomes(s, row) ==
  /\ specs' \in [SpecIds -> SpecRow \cup {NoSpec}]
  /\ \A t \in SpecIds : t # s => specs'[t] = specs[t]
  /\ specs'[s] = row /\ row \in SpecRow /\ row # NoSpec

HistoryGains(s, row) ==
  /\ spec_versions' \in [SpecIds -> SUBSET VersionRow]
  /\ \A t \in SpecIds : IsFiniteSet(spec_versions'[t])
  /\ \A t \in SpecIds : t # s => spec_versions'[t] = spec_versions[t]
  /\ spec_versions'[s] = spec_versions[s] \cup {row}
  /\ row \in VersionRow
  /\ \A old \in spec_versions[s] : old.version # row.version

RequestBecomes(c, row) ==
  /\ change_requests' \in [CRs -> CRRow \cup {NoCR}]
  /\ \A d \in CRs : d # c => change_requests'[d] = change_requests[d]
  /\ change_requests'[c] = row /\ row \in CRRow /\ row # NoCR

ApprovalsGain(c, row) ==
  /\ review_approvals' \in [CRs -> SUBSET ApprovalRow]
  /\ \A d \in CRs : d # c => review_approvals'[d] = review_approvals[d]
  /\ review_approvals'[c] = review_approvals[c] \cup {row}
  /\ row \in ApprovalRow

LEMMA SpecRowIsNotNoSpec == \A row \in SpecRow : row # NoSpec
BY DEF SpecRow, NoSpec

LEMMA CRRowIsNotNoCR == \A row \in CRRow : row # NoCR
BY DEF CRRow, NoCR

LEMMA HeadStep ==
  ASSUME TypeOK, NEW s \in SpecIds, specs[s] # NoSpec,
         NEW status \in {"draft", "pending_review", "published"},
         NEW v \in Version, NEW content \in Contents,
         SetHead(s, status, v, content)
  PROVE  SpecBecomes(s, Row(s, status, v, content))
<1>1. specs[s] \in SpecRow
  BY DEF TypeOK
<1>2. Row(s, status, v, content) \in SpecRow
  BY <1>1 DEF SpecRow, Row
<1>3. specs'[s] = Row(s, status, v, content)
  BY <1>1 DEF TypeOK, SetHead, SpecRow, Row
<1>4. /\ \A t \in SpecIds : t # s => specs'[t] = specs[t]
      /\ specs' = [t \in SpecIds |-> specs'[t]]
  BY DEF TypeOK, SetHead
<1>. QED BY <1>2, <1>3, <1>4, SpecRowIsNotNoSpec DEF TypeOK, SpecBecomes

LEMMA StatusStep ==
  ASSUME TypeOK, NEW s \in SpecIds, specs[s] # NoSpec,
         NEW status \in {"draft", "pending_review", "published"},
         SetStatus(s, status)
  PROVE  SpecBecomes(s, Row(s, status, specs[s].current_version, specs[s].content))
<1>. DEFINE row == Row(s, status, specs[s].current_version, specs[s].content)
<1>1. specs[s] \in SpecRow
  BY DEF TypeOK
<1>2. row \in SpecRow
  BY <1>1 DEF SpecRow, Row
<1>3. specs'[s] = row
  BY <1>1 DEF TypeOK, SetStatus, SpecRow, Row
<1>4. /\ \A t \in SpecIds : t # s => specs'[t] = specs[t]
      /\ specs' = [t \in SpecIds |-> specs'[t]]
  BY DEF TypeOK, SetStatus
<1>. QED BY <1>2, <1>3, <1>4, SpecRowIsNotNoSpec DEF TypeOK, SpecBecomes

LEMMA RecordStep ==
  ASSUME TypeOK, NEW s \in SpecIds, NEW v \in Version, NEW content \in Contents,
         NEW channel \in {"stable", "beta"}, Record(s, v, content, channel),
         ~HasVersion(s, v)
  PROVE  HistoryGains(s, [version |-> v, content |-> content, channel |-> channel])
<1>. DEFINE row == [version |-> v, content |-> content, channel |-> channel]
<1>1. row \in VersionRow /\ \A old \in spec_versions[s] : old.version # row.version
  BY DEF VersionRow, HasVersion
<1>2. spec_versions'[s] = spec_versions[s] \cup {row}
  BY DEF TypeOK, Record
<1>3. \A t \in SpecIds : t # s => spec_versions'[t] = spec_versions[t]
  BY DEF TypeOK, Record
<1>4. IsFiniteSet(spec_versions'[s])
  <2>1. IsFiniteSet(spec_versions[s])
    BY DEF TypeOK
  <2>2. IsFiniteSet(spec_versions[s] \cup {row})
    BY <2>1, FS_AddElement
  <2>. QED BY <1>2, <2>2
<1>5. spec_versions' = [t \in SpecIds |-> spec_versions'[t]]
  BY DEF TypeOK, Record
<1>6. spec_versions' \in [SpecIds -> SUBSET VersionRow]
  BY <1>1, <1>2, <1>3, <1>5 DEF TypeOK
<1>7. \A t \in SpecIds : IsFiniteSet(spec_versions'[t])
  BY <1>3, <1>4 DEF TypeOK
<1>. QED BY <1>1, <1>2, <1>3, <1>6, <1>7 DEF HistoryGains

LEMMA PendingFacts ==
  ASSUME Base, NEW c \in CRs, Pending(c)
  PROVE  /\ change_requests[c] \in CRRow /\ change_requests[c] # NoCR
         /\ change_requests[c].status = "pending"
         /\ change_requests[c].spec \in SpecIds
         /\ change_requests[c].proposed_content \in Contents
         /\ specs[change_requests[c].spec] \in SpecRow
         /\ specs[change_requests[c].spec] # NoSpec
         /\ Governed(change_requests[c].spec)
<1>1. change_requests[c] # NoCR /\ change_requests[c].status = "pending"
  BY DEF Pending, NoCR
<1>2. change_requests[c] \in CRRow
  BY <1>1 DEF Base, TypeOK
<1>3. Governed(change_requests[c].spec)
  BY <1>1 DEF Base, DraftsAreUngoverned
<1>4. specs[change_requests[c].spec] # NoSpec
  BY <1>3 DEF Governed, NoSpec
<1>. QED BY <1>1, <1>2, <1>3, <1>4 DEF CRRow, Base, TypeOK

LEMMA GovernedFacts ==
  ASSUME Base, NEW s \in SpecIds, Live(s), specs[s].status # "draft"
  PROVE  Governed(s) /\ specs[s] \in SpecRow /\ specs[s] # NoSpec
BY DEF Base, TypeOK, Live, Governed, SpecRow

LEMMA NewVersionType ==
  ASSUME Base, LifecycleAssumption, NEW c \in CRs, Pending(c), NEW channel \in Channels
  PROVE  NewVersion(c, channel) \in Version /\ channel \in {"stable", "beta"}
<1>. DEFINE s == change_requests[c].spec
            bumped == Bump(specs[s].current_version, change_requests[c].version_delta)
            prior == {row \in spec_versions[s] :
                        SameRelease(row.version, bumped) /\ ~IsStable(row.version)}
<1>1. specs[s] \in SpecRow /\ change_requests[c] \in CRRow /\ s \in SpecIds
  BY PendingFacts DEF Base, TypeOK
<1>2. bumped \in Version
  BY <1>1, VersionTypes DEF SpecRow, CRRow
<1>3. Cardinality(prior) \in Nat
  <2>1. IsFiniteSet(spec_versions[s])
    BY <1>1 DEF Base, TypeOK
  <2>2. IsFiniteSet(prior)
    BY <2>1, FS_Subset
  <2>. QED BY <2>2, FS_CardinalityType
<1>4. [bumped EXCEPT !.beta = Cardinality(prior) + 1] \in Version
  BY <1>2, <1>3 DEF Version
<1>. QED BY <1>2, <1>4 DEF NewVersion, LifecycleAssumption

-----------------------------------------------------------------------------
(* What each handler does to the rows it touches.                          *)

LEMMA CreateEffect ==
  ASSUME Base, NEW s \in SpecIds, NEW content \in Contents, CreateSpec(s, content)
  PROVE  /\ specs[s] = NoSpec /\ NameFree(s)
         /\ SpecBecomes(s, [status |-> "draft", deleted |-> FALSE,
                            current_version |-> DraftVersion, content |-> content])
<1>. DEFINE row == [status |-> "draft", deleted |-> FALSE,
                    current_version |-> DraftVersion, content |-> content]
<1>1. specs[s] = NoSpec /\ NameFree(s)
  BY DEF CreateSpec, NameFree
<1>2. row \in SpecRow /\ row # NoSpec
  BY VersionTypes DEF SpecRow, NoSpec
<1>3. specs' = [specs EXCEPT ![s] = row]
  BY DEF CreateSpec
<1>. QED BY <1>1, <1>2, <1>3 DEF Base, TypeOK, SpecBecomes

LEMMA EditEffect ==
  ASSUME Base, NEW s \in SpecIds, NEW content \in Contents, EditDraft(s, content)
  PROVE  /\ specs[s] \in SpecRow /\ specs[s] # NoSpec /\ specs[s].status = "draft"
         /\ SpecBecomes(s, Row(s, "draft", specs[s].current_version, content))
<1>1. specs[s] \in SpecRow /\ specs[s] # NoSpec /\ specs[s].status = "draft"
  BY DEF EditDraft, Live, Base, TypeOK
<1>2. Row(s, "draft", specs[s].current_version, content) \in SpecRow
  BY <1>1 DEF SpecRow, Row
<1>3. specs'[s] = Row(s, "draft", specs[s].current_version, content)
  BY <1>1 DEF EditDraft, SpecRow, Base, TypeOK, Row
<1>4. /\ \A t \in SpecIds : t # s => specs'[t] = specs[t]
      /\ specs' = [t \in SpecIds |-> specs'[t]]
  BY DEF EditDraft, Base, TypeOK
<1>. QED BY <1>1, <1>2, <1>3, <1>4, SpecRowIsNotNoSpec DEF Base, TypeOK, SpecBecomes

LEMMA PublishDraftEffect ==
  ASSUME Base, NEW s \in SpecIds, PublishDraft(s)
  PROVE  /\ specs[s] \in SpecRow /\ specs[s] # NoSpec /\ specs[s].status = "draft"
         /\ ~Deleted(s)
         /\ SpecBecomes(s, Row(s, "published", FirstVersion, specs[s].content))
         /\ HistoryGains(s, [version |-> FirstVersion, content |-> specs[s].content,
                             channel |-> "stable"])
<1>1. /\ specs[s] \in SpecRow /\ specs[s] # NoSpec /\ specs[s].content \in Contents
      /\ specs[s].status = "draft" /\ ~Deleted(s)
  BY DEF PublishDraft, Live, Deleted, Base, TypeOK, SpecRow
<1>2. SpecBecomes(s, Row(s, "published", FirstVersion, specs[s].content))
  BY <1>1, HeadStep, VersionTypes DEF PublishDraft, Base
<1>3. HistoryGains(s, [version |-> FirstVersion, content |-> specs[s].content,
                       channel |-> "stable"])
  BY <1>1, RecordStep, VersionTypes DEF PublishDraft, Base
<1>. QED BY <1>1, <1>2, <1>3

LEMMA SubmitEffect ==
  ASSUME Base, LifecycleAssumption, NEW s \in SpecIds, NEW c \in CRs, NEW author \in People,
         NEW delta \in VersionDeltas, NEW content \in Contents,
         SubmitReview(s, c, author, delta, content)
  PROVE  /\ Governed(s) /\ specs[s] \in SpecRow /\ specs[s] # NoSpec
         /\ change_requests[c] = NoCR
         /\ SpecBecomes(s, Row(s, "pending_review", specs[s].current_version, specs[s].content))
         /\ RequestBecomes(c, change_requests'[c])
         /\ change_requests'[c].spec = s /\ change_requests'[c].status = "pending"
<1>. DEFINE cr == [status |-> "pending", spec |-> s, proposed_by |-> author,
                   version_delta |-> delta,
                   proposed_content |-> content, resulting_version |-> {}]
<1>1. /\ Governed(s) /\ specs[s] \in SpecRow /\ specs[s] # NoSpec
      /\ specs[s].content \in Contents
  BY GovernedFacts DEF SubmitReview, Reviewable, SpecRow
<1>2. SpecBecomes(s, Row(s, "pending_review", specs[s].current_version, specs[s].content))
  BY <1>1, StatusStep DEF SubmitReview, Base
<1>3. cr \in CRRow /\ cr # NoCR
  BY <1>1 DEF CRRow, LifecycleAssumption, NoCR
<1>4. change_requests' = [change_requests EXCEPT ![c] = cr] /\ change_requests[c] = NoCR
  BY DEF SubmitReview
<1>5. RequestBecomes(c, cr)
  BY <1>3, <1>4 DEF Base, TypeOK, RequestBecomes
<1>. QED BY <1>1, <1>2, <1>4, <1>5 DEF RequestBecomes

\* An approval row added to a pending request.
LEMMA ApprovalStep ==
  ASSUME Base, LifecycleAssumption, NEW c \in CRs, NEW user \in People,
         NEW reviewed_by \in People, RecordApproval(c, user, reviewed_by)
  PROVE  /\ ApprovalsGain(c, [reviewer |-> reviewed_by, actor |-> user])
         /\ Pending(c) /\ DutiesSeparated(c, user)
BY DEF Base, TypeOK, RecordApproval, MayApprove, WithApproval, ApprovalRow, ApprovalsGain

\* The request as its approval leaves it.
Approved(c, v) ==
  [change_requests[c] EXCEPT !.status = "approved", !.resulting_version = {v}]

LEMMA ApproveEffect ==
  ASSUME Base, LifecycleAssumption, NEW c \in CRs, NEW user \in People,
         NEW reviewed_by \in People, NEW channel \in Channels,
         ApprovePublish(c, user, reviewed_by, channel),
         NEW s, s = change_requests[c].spec,
         NEW v, v = NewVersion(c, channel),
         NEW content, content = change_requests[c].proposed_content
  PROVE  /\ s \in SpecIds /\ specs[s] \in SpecRow /\ specs[s] # NoSpec
         /\ Governed(s) /\ ~Deleted(s)
         /\ change_requests[c] \in CRRow /\ change_requests[c].status = "pending"
         /\ change_requests[c] # NoCR
         /\ channel \in {"stable", "beta"}
         /\ channel = "stable" => SpecBecomes(s, Row(s, "published", v, content))
         /\ channel # "stable" =>
              SpecBecomes(s, Row(s, "published", specs[s].current_version, specs[s].content))
         /\ HistoryGains(s, [version |-> v, content |-> content, channel |-> channel])
         /\ RequestBecomes(c, Approved(c, v))
         /\ Approved(c, v).spec = s /\ Approved(c, v).status = "approved"
<1>1. Pending(c) /\ Live(s)
  BY DEF ApprovePublish, RecordApproval, MayApprove
<1>2. /\ s \in SpecIds /\ specs[s] \in SpecRow /\ specs[s] # NoSpec /\ content \in Contents
      /\ change_requests[c] \in CRRow /\ Governed(s) /\ ~Deleted(s)
      /\ change_requests[c].status = "pending" /\ change_requests[c] # NoCR
  BY <1>1, PendingFacts DEF Live, Deleted
<1>3. v \in Version /\ channel \in {"stable", "beta"}
  BY <1>1, NewVersionType
<1>4. ASSUME channel = "stable"
      PROVE  SpecBecomes(s, Row(s, "published", v, content))
  <2>1. SetHead(s, "published", v, content)
    BY <1>4 DEF ApprovePublish
  <2>. QED BY <2>1, <1>2, <1>3, HeadStep DEF Base
<1>5. ASSUME channel # "stable"
      PROVE  SpecBecomes(s, Row(s, "published", specs[s].current_version, specs[s].content))
  <2>1. SetStatus(s, "published")
    BY <1>5 DEF ApprovePublish
  <2>. QED BY <2>1, <1>2, StatusStep DEF Base
<1>6. HistoryGains(s, [version |-> v, content |-> content, channel |-> channel])
  <2>1. Record(s, v, content, channel) /\ ~HasVersion(s, v)
    BY DEF ApprovePublish
  <2>. QED BY <2>1, <1>2, <1>3, RecordStep DEF Base
<1>7. RequestBecomes(c, Approved(c, v))
  <2>1. change_requests' = [change_requests EXCEPT ![c] = Approved(c, v)]
    BY DEF ApprovePublish, Approved
  <2>2. Approved(c, v) \in CRRow
    BY <1>2, <1>3 DEF CRRow, Approved
  <2>. QED BY <2>1, <2>2, CRRowIsNotNoCR DEF Base, TypeOK, RequestBecomes
<1>8. Approved(c, v).spec = s /\ Approved(c, v).status = "approved"
  BY <1>2 DEF CRRow, Approved
<1>. QED BY <1>2, <1>3, <1>4, <1>5, <1>6, <1>7, <1>8

LEMMA RejectEffect ==
  ASSUME Base, NEW c \in CRs, Reject(c), NEW s, s = change_requests[c].spec
  PROVE  /\ s \in SpecIds /\ specs[s] \in SpecRow /\ specs[s] # NoSpec /\ Governed(s)
         /\ change_requests[c] \in CRRow /\ change_requests[c] # NoCR
         /\ change_requests[c].status = "pending"
         /\ \/ LastPending(c) /\ SpecBecomes(s, Row(s, "published", specs[s].current_version,
                                                    specs[s].content))
            \/ ~LastPending(c) /\ specs' = specs
         /\ RequestBecomes(c, [change_requests[c] EXCEPT !.status = "rejected"])
         /\ change_requests'[c].spec = s /\ change_requests'[c].status = "rejected"
<1>1. /\ s \in SpecIds /\ specs[s] \in SpecRow /\ specs[s] # NoSpec /\ Governed(s)
      /\ change_requests[c] \in CRRow /\ change_requests[c] # NoCR
      /\ change_requests[c].status = "pending"
  BY PendingFacts DEF Reject
<1>2. /\ RequestBecomes(c, [change_requests[c] EXCEPT !.status = "rejected"])
      /\ change_requests'[c].spec = s /\ change_requests'[c].status = "rejected"
  <2>1. [change_requests[c] EXCEPT !.status = "rejected"] \in CRRow
    BY <1>1 DEF CRRow
  <2>2. RequestBecomes(c, [change_requests[c] EXCEPT !.status = "rejected"])
    BY <2>1, CRRowIsNotNoCR DEF Reject, Base, TypeOK, RequestBecomes
  <2>. QED BY <1>1, <2>2 DEF RequestBecomes, CRRow
<1>3. CASE LastPending(c)
  <2>1. SetStatus(s, "published")
    BY <1>3 DEF Reject
  <2>2. SpecBecomes(s, Row(s, "published", specs[s].current_version, specs[s].content))
    BY <2>1, <1>1, StatusStep DEF Base
  <2>. QED BY <2>2, <1>1, <1>2, <1>3
<1>4. CASE ~LastPending(c)
  BY <1>1, <1>2, <1>4 DEF Reject
<1>. QED BY <1>3, <1>4

LEMMA PromoteEffect ==
  ASSUME Base, NEW s \in SpecIds, NEW beta \in spec_versions[s], Promote(s, beta),
         NEW v, v = StableOf(beta.version)
  PROVE  /\ Governed(s) /\ specs[s] \in SpecRow /\ specs[s] # NoSpec /\ ~Deleted(s)
         /\ SpecBecomes(s, Row(s, specs[s].status, v, beta.content))
         /\ HistoryGains(s, [version |-> v, content |-> beta.content, channel |-> "stable"])
<1>1. beta \in VersionRow
  BY DEF Base, TypeOK
<1>2. v \in Version /\ beta.content \in Contents
  BY <1>1, VersionTypes DEF VersionRow
<1>3. Governed(s) /\ ~Deleted(s)
  BY DEF Base, DraftsAreUngoverned, Promote, Live, Deleted
<1>4. specs[s] \in SpecRow /\ specs[s] # NoSpec
  BY <1>3 DEF Base, TypeOK, Governed, NoSpec
<1>5. SpecBecomes(s, Row(s, specs[s].status, v, beta.content))
  <2>1. SetHead(s, specs[s].status, v, beta.content)
    BY DEF Promote
  <2>2. specs[s].status \in {"draft", "pending_review", "published"}
    BY <1>4 DEF SpecRow
  <2>. QED BY <1>2, <1>4, <2>1, <2>2, HeadStep DEF Base
<1>6. HistoryGains(s, [version |-> v, content |-> beta.content, channel |-> "stable"])
  <2>1. Record(s, v, beta.content, "stable") /\ ~HasVersion(s, v)
    BY DEF Promote
  <2>. QED BY <1>2, <2>1, RecordStep DEF Base
<1>. QED BY <1>3, <1>4, <1>5, <1>6

\* Deleting and restoring flip one flag.
LEMMA FlagEffect ==
  ASSUME Base, NEW s \in SpecIds, NEW b \in BOOLEAN, specs[s] # NoSpec,
         specs' = [specs EXCEPT ![s].deleted = b]
  PROVE  /\ specs[s] \in SpecRow
         /\ SpecBecomes(s, [status |-> specs[s].status, deleted |-> b,
                            current_version |-> specs[s].current_version,
                            content |-> specs[s].content])
<1>. DEFINE row == [status |-> specs[s].status, deleted |-> b,
                    current_version |-> specs[s].current_version,
                    content |-> specs[s].content]
<1>1. specs[s] \in SpecRow
  BY DEF Base, TypeOK
<1>2. row \in SpecRow
  BY <1>1 DEF SpecRow
<1>3. specs'[s] = row
  BY <1>1 DEF Base, TypeOK, SpecRow
<1>4. /\ \A t \in SpecIds : t # s => specs'[t] = specs[t]
      /\ specs' = [t \in SpecIds |-> specs'[t]]
  BY DEF Base, TypeOK
<1>. QED BY <1>1, <1>2, <1>3, <1>4, SpecRowIsNotNoSpec DEF Base, TypeOK, SpecBecomes

LEMMA DeleteEffect ==
  ASSUME Base, NEW s \in SpecIds, Delete(s)
  PROVE  /\ specs[s] \in SpecRow /\ specs[s] # NoSpec
         /\ SpecBecomes(s, [status |-> specs[s].status, deleted |-> TRUE,
                            current_version |-> specs[s].current_version,
                            content |-> specs[s].content])
BY FlagEffect DEF Delete, Live

LEMMA RestoreEffect ==
  ASSUME Base, NEW s \in SpecIds, Restore(s)
  PROVE  /\ specs[s] \in SpecRow /\ specs[s] # NoSpec
         /\ SpecBecomes(s, [status |-> specs[s].status, deleted |-> FALSE,
                            current_version |-> specs[s].current_version,
                            content |-> specs[s].content])
         /\ expired' = expired \ {s}
BY FlagEffect DEF Restore, Deleted, ClearDeletion

\* A step that touches no row of specs, spec_versions or change_requests.
Quiet ==
  \/ \E c \in CRs, user \in People, reviewed_by \in People :
       \/ ApproveMore(c, user, reviewed_by)
       \/ \E channel \in Channels : ApproveUnpublished(c, user, reviewed_by, channel)
  \/ \E s \in SpecIds : RetentionEnds(s) \/ Serve(s)
  \/ \E f \in Filenames, q \in Policies : SetPolicy(f, q)
  \/ UNCHANGED vars

LEMMA QuietEffect ==
  ASSUME Quiet
  PROVE  UNCHANGED <<specs, spec_versions, change_requests>>
BY DEF Quiet, ApproveMore, ApproveUnpublished, RetentionEnds, Serve, SetPolicy, tables, vars

-----------------------------------------------------------------------------
(* Types, and drafts without history.                                      *)

LEMMA InitBase == ASSUME LifecycleAssumption, Init PROVE Base
<1>1. \A s \in SpecIds : IsFiniteSet(spec_versions[s])
  BY FS_EmptySet DEF Init
<1>2. TypeOK
  BY <1>1 DEF Init, TypeOK
<1>3. DraftsAreUngoverned
  BY DEF Init, DraftsAreUngoverned
<1>. QED BY <1>2, <1>3 DEF Base

LEMMA BaseStep ==
  ASSUME LifecycleAssumption, Base, [Next]_vars
  PROVE  Base'
<1>. USE LifecycleAssumption
<1>1. ASSUME NEW s \in SpecIds, NEW content \in Contents, CreateSpec(s, content)
      PROVE  Base'
  <2>1. /\ specs[s] = NoSpec
        /\ SpecBecomes(s, [status |-> "draft", deleted |-> FALSE,
                           current_version |-> DraftVersion, content |-> content])
        /\ UNCHANGED <<spec_versions, change_requests, review_approvals, policy,
                       expired, served>>
    BY <1>1, CreateEffect DEF CreateSpec
  <2>2. TypeOK'
    BY <2>1 DEF Base, TypeOK, SpecBecomes, Deleted
  <2>3. DraftsAreUngoverned'
    BY <2>1 DEF Base, TypeOK, SpecBecomes, CRRow, DraftsAreUngoverned, Governed, NoSpec
  <2>. QED BY <2>2, <2>3 DEF Base
<1>2. ASSUME NEW s \in SpecIds, NEW content \in Contents, EditDraft(s, content)
      PROVE  Base'
  <2>1. /\ specs[s] \in SpecRow /\ specs[s] # NoSpec /\ specs[s].status = "draft"
        /\ SpecBecomes(s, Row(s, "draft", specs[s].current_version, content))
        /\ UNCHANGED <<spec_versions, change_requests, review_approvals, policy,
                       expired, served>>
    BY <1>2, EditEffect DEF EditDraft
  <2>2. TypeOK'
    BY <2>1 DEF Base, TypeOK, SpecBecomes, Row, Deleted
  <2>3. DraftsAreUngoverned'
    BY <2>1 DEF Base, TypeOK, SpecBecomes, Row, CRRow, DraftsAreUngoverned, Governed
  <2>. QED BY <2>2, <2>3 DEF Base
<1>3. ASSUME NEW s \in SpecIds, PublishDraft(s)
      PROVE  Base'
  <2>. DEFINE entry == [version |-> FirstVersion, content |-> specs[s].content,
                        channel |-> "stable"]
  <2>1. /\ specs[s] # NoSpec
        /\ SpecBecomes(s, Row(s, "published", FirstVersion, specs[s].content))
        /\ HistoryGains(s, entry)
        /\ UNCHANGED <<change_requests, review_approvals, policy, expired, served>>
    BY <1>3, PublishDraftEffect DEF PublishDraft
  <2>. HIDE DEF entry
  <2>2. TypeOK'
    BY <2>1 DEF Base, TypeOK, SpecBecomes, HistoryGains, Row, Deleted
  <2>3. DraftsAreUngoverned'
    BY <2>1 DEF Base, TypeOK, SpecBecomes, HistoryGains, Row, CRRow, DraftsAreUngoverned, Governed
  <2>. QED BY <2>2, <2>3 DEF Base
<1>4. ASSUME NEW s \in SpecIds, NEW c \in CRs, NEW author \in People,
             NEW delta \in VersionDeltas, NEW content \in Contents,
             SubmitReview(s, c, author, delta, content)
      PROVE  Base'
  <2>1. /\ specs[s] # NoSpec
        /\ SpecBecomes(s, Row(s, "pending_review", specs[s].current_version, specs[s].content))
        /\ RequestBecomes(c, change_requests'[c]) /\ change_requests'[c].spec = s
        /\ UNCHANGED <<spec_versions, review_approvals, policy, expired, served>>
    BY <1>4, SubmitEffect DEF SubmitReview
  <2>2. TypeOK'
    BY <2>1 DEF Base, TypeOK, SpecBecomes, RequestBecomes, Row, Deleted
  <2>3. DraftsAreUngoverned'
    BY <2>1 DEF Base, TypeOK, SpecBecomes, RequestBecomes, Row, CRRow, DraftsAreUngoverned, Governed
  <2>. QED BY <2>2, <2>3 DEF Base
<1>5. ASSUME NEW c \in CRs, NEW user \in People, NEW reviewed_by \in People,
             RecordApproval(c, user, reviewed_by),
             UNCHANGED <<specs, spec_versions, change_requests, policy, expired, served>>
      PROVE  Base'
  <2>. DEFINE row == [reviewer |-> reviewed_by, actor |-> user]
  <2>1. ApprovalsGain(c, row) /\ change_requests[c] # NoCR
    BY <1>5, ApprovalStep DEF Pending, NoCR
  <2>. HIDE DEF row
  <2>2. TypeOK'
    BY <1>5, <2>1 DEF Base, TypeOK, ApprovalsGain, Deleted
  <2>3. DraftsAreUngoverned'
    BY <1>5, <2>1 DEF Base, DraftsAreUngoverned, ApprovalsGain, Governed
  <2>. QED BY <2>2, <2>3 DEF Base
<1>6. ASSUME NEW c \in CRs, NEW user \in People, NEW reviewed_by \in People,
             NEW channel \in Channels, ApprovePublish(c, user, reviewed_by, channel)
      PROVE  Base'
  <2>1. PICK s, spec_row, version_row, cr, approval :
          /\ s \in SpecIds /\ s = change_requests[c].spec /\ cr.spec = s
          /\ change_requests[c] # NoCR
          /\ specs[s] # NoSpec /\ spec_row.status = "published"
          /\ spec_row.deleted = specs[s].deleted
          /\ SpecBecomes(s, spec_row) /\ HistoryGains(s, version_row)
          /\ RequestBecomes(c, cr) /\ ApprovalsGain(c, approval)
    <3>. DEFINE s == change_requests[c].spec
                v == NewVersion(c, channel)
                content == change_requests[c].proposed_content
                head == Row(s, "published", v, content)
                kept == Row(s, "published", specs[s].current_version, specs[s].content)
                entry == [version |-> v, content |-> content, channel |-> channel]
                approval == [reviewer |-> reviewed_by, actor |-> user]
    <3>1. /\ s \in SpecIds /\ specs[s] # NoSpec
          /\ change_requests[c] # NoCR
          /\ SpecBecomes(s, head) \/ SpecBecomes(s, kept)
          /\ HistoryGains(s, entry)
          /\ RequestBecomes(c, Approved(c, v)) /\ Approved(c, v).spec = s
      BY <1>6, ApproveEffect
    <3>2. ApprovalsGain(c, approval)
      BY <1>6, ApprovalStep DEF ApprovePublish
    <3>3. /\ head.status = "published" /\ head.deleted = specs[s].deleted
          /\ kept.status = "published" /\ kept.deleted = specs[s].deleted
      BY DEF Row
    <3>. HIDE DEF v, content, head, kept, entry, approval
    <3>. QED BY <3>1, <3>2, <3>3
  <2>2. UNCHANGED <<policy, expired, served>>
    BY <1>6 DEF ApprovePublish
  <2>3. TypeOK'
    BY <2>1, <2>2 DEF Base, TypeOK, SpecBecomes, HistoryGains, RequestBecomes, ApprovalsGain,
       Deleted
  <2>4. DraftsAreUngoverned'
    BY <2>1, <2>2 DEF Base, TypeOK, SpecBecomes, HistoryGains, RequestBecomes, ApprovalsGain,
       CRRow, DraftsAreUngoverned, Governed
  <2>. QED BY <2>3, <2>4 DEF Base
<1>7. ASSUME NEW c \in CRs, Reject(c)
      PROVE  Base'
  <2>1. PICK s, spec_row, cr :
          /\ s \in SpecIds /\ s = change_requests[c].spec /\ cr.spec = s
          /\ change_requests[c] # NoCR
          /\ specs[s] # NoSpec /\ spec_row.status \in {"pending_review", "published"}
          /\ spec_row.deleted = specs[s].deleted
          /\ SpecBecomes(s, spec_row) /\ RequestBecomes(c, cr)
    <3>. DEFINE s == change_requests[c].spec
                cr == [change_requests[c] EXCEPT !.status = "rejected"]
    <3>1. /\ s \in SpecIds /\ specs[s] \in SpecRow /\ specs[s] # NoSpec /\ Governed(s)
          /\ change_requests[c] # NoCR
          /\ \/ SpecBecomes(s, Row(s, "published", specs[s].current_version, specs[s].content))
             \/ specs' = specs
          /\ RequestBecomes(c, cr) /\ cr.spec = s
      BY <1>7, RejectEffect DEF RequestBecomes
    <3>2. specs' = specs => SpecBecomes(s, specs[s])
      BY <3>1 DEF Base, TypeOK, SpecBecomes
    <3>3. Row(s, "published", specs[s].current_version, specs[s].content).status = "published"
      BY DEF Row
    <3>4. Row(s, "published", specs[s].current_version, specs[s].content).deleted = specs[s].deleted
      BY DEF Row
    <3>5. specs[s].status \in {"pending_review", "published"}
      BY <3>1 DEF Governed
    <3>. HIDE DEF s, cr
    <3>. QED BY <3>1, <3>2, <3>3, <3>4, <3>5 DEF s
  <2>2. UNCHANGED <<spec_versions, review_approvals, policy, expired, served>>
    BY <1>7 DEF Reject
  <2>3. TypeOK'
    BY <2>1, <2>2 DEF Base, TypeOK, SpecBecomes, RequestBecomes, Deleted
  <2>4. DraftsAreUngoverned'
    BY <2>1, <2>2 DEF Base, TypeOK, SpecBecomes, RequestBecomes, CRRow,
       DraftsAreUngoverned, Governed
  <2>. QED BY <2>3, <2>4 DEF Base
<1>8. ASSUME NEW s \in SpecIds, NEW beta \in spec_versions[s], Promote(s, beta)
      PROVE  Base'
  <2>1. PICK v, row :
          /\ Governed(s) /\ specs[s] # NoSpec
          /\ SpecBecomes(s, Row(s, specs[s].status, v, beta.content))
          /\ HistoryGains(s, row)
    BY <1>8, PromoteEffect
  <2>2. UNCHANGED <<change_requests, review_approvals, policy, expired, served>>
    BY <1>8 DEF Promote
  <2>3. TypeOK'
    BY <2>1, <2>2 DEF Base, TypeOK, SpecBecomes, HistoryGains, Row, Deleted
  <2>4. DraftsAreUngoverned'
    BY <2>1, <2>2 DEF Base, TypeOK, SpecBecomes, HistoryGains, Row, CRRow,
       DraftsAreUngoverned, Governed
  <2>. QED BY <2>3, <2>4 DEF Base
<1>9. ASSUME NEW s \in SpecIds, Delete(s) \/ Restore(s)
      PROVE  Base'
  <2>1. PICK row :
          /\ specs[s] # NoSpec /\ SpecBecomes(s, row) /\ row.status = specs[s].status
          /\ \/ row.deleted /\ expired' = expired
             \/ expired' = expired \ {s}
    <3>. DEFINE row(b) == [status |-> specs[s].status, deleted |-> b,
                           current_version |-> specs[s].current_version,
                           content |-> specs[s].content]
    <3>1. row(TRUE).deleted = TRUE /\ \A b : row(b).status = specs[s].status
      OBVIOUS
    <3>2. CASE Delete(s)
      <4>1. specs[s] # NoSpec /\ SpecBecomes(s, row(TRUE)) /\ expired' = expired
        BY <3>2, DeleteEffect DEF Delete
      <4>. HIDE DEF row
      <4>. QED BY <3>1, <4>1
    <3>3. CASE Restore(s)
      <4>1. specs[s] # NoSpec /\ SpecBecomes(s, row(FALSE)) /\ expired' = expired \ {s}
        BY <3>3, RestoreEffect
      <4>. HIDE DEF row
      <4>. QED BY <3>1, <4>1
    <3>. QED BY <1>9, <3>2, <3>3
  <2>2. UNCHANGED <<spec_versions, change_requests, review_approvals, policy, served>>
    BY <1>9 DEF Delete, Restore
  <2>3. TypeOK'
    BY <2>1, <2>2 DEF Base, TypeOK, SpecBecomes, Deleted
  <2>4. DraftsAreUngoverned'
    BY <2>1, <2>2 DEF Base, TypeOK, SpecBecomes, CRRow, DraftsAreUngoverned, Governed
  <2>. QED BY <2>3, <2>4 DEF Base
<1>10. ASSUME Purge
       PROVE  Base'
  <2>1. \A s \in SpecIds : IsFiniteSet(spec_versions'[s])
    BY <1>10, FS_EmptySet DEF Purge, OfExpired, Base, TypeOK
  <2>2. TypeOK'
    BY <1>10, <2>1 DEF Purge, OfExpired, Base, TypeOK, Deleted
  <2>3. DraftsAreUngoverned'
    BY <1>10 DEF Purge, OfExpired, Base, TypeOK, CRRow, DraftsAreUngoverned, Governed, NoSpec
  <2>. QED BY <2>2, <2>3 DEF Base
<1>11. ASSUME Quiet
       PROVE  Base'
  <2>1. ASSUME NEW s \in SpecIds, RetentionEnds(s)
        PROVE  Base'
    BY <2>1 DEF RetentionEnds, tables, Base, TypeOK, DraftsAreUngoverned, Deleted, Governed
  <2>2. ASSUME NEW s \in SpecIds, Serve(s)
        PROVE  Base'
    BY <2>2 DEF Serve, tables, Base, TypeOK, DraftsAreUngoverned, Deleted, Governed
  <2>3. ASSUME NEW f \in Filenames, NEW q \in Policies, SetPolicy(f, q)
        PROVE  Base'
    BY <2>3 DEF SetPolicy, tables, Base, TypeOK, DraftsAreUngoverned, Deleted, Governed
  <2>4. CASE UNCHANGED vars
    BY <2>4 DEF vars, Base, TypeOK, DraftsAreUngoverned, Deleted, Governed
  <2>5. ASSUME NEW c \in CRs, NEW user \in People, NEW reviewed_by \in People,
               \/ ApproveMore(c, user, reviewed_by)
               \/ \E channel \in Channels : ApproveUnpublished(c, user, reviewed_by, channel)
        PROVE  Base'
    BY <1>5, <2>5 DEF ApproveMore, ApproveUnpublished
  <2>. QED BY <1>11, <2>1, <2>2, <2>3, <2>4, <2>5 DEF Quiet
<1>. QED
  BY <1>1, <1>2, <1>3, <1>4, <1>6, <1>7, <1>8, <1>9, <1>10, <1>11 DEF Next, Quiet

(***************************************************************************)
(* Every row has its type, references that matter resolve (a request's     *)
(* spec exists and is governed), expired specs are deleted ones, and       *)
(* drafts have no history: neither holds by itself, because rejecting or   *)
(* approving a request writes the status of the spec it names.             *)
(***************************************************************************)
THEOREM TypeCorrect == Spec => []Base
<1>1. Init => Base
  BY InitBase, LifecycleAssumption
<1>2. Base /\ [Next]_vars => Base'
  BY BaseStep, LifecycleAssumption
<1>. QED BY <1>1, <1>2, PTL DEF Spec

(***************************************************************************)
(* Every row keeps its type; in particular a spec whose retention ended is *)
(* still a deleted one, whatever restores and purges came in between.      *)
(***************************************************************************)
THEOREM TypesHold == Spec => []TypeOK
<1>1. Base => TypeOK
  BY DEF Base
<1>. QED BY <1>1, TypeCorrect, PTL

(***************************************************************************)
(* Drafts and purged specs have no versions, requests or approvals.        *)
(***************************************************************************)
THEOREM DraftsStayUngoverned == Spec => []DraftsAreUngoverned
<1>1. Base => DraftsAreUngoverned
  BY DEF Base
<1>. QED BY <1>1, TypeCorrect, PTL

(***************************************************************************)
(* The rows of the engine are well-formed: both of the above.              *)
(***************************************************************************)
THEOREM RowsStayWellFormed == Spec => []RowsAreWellFormed
<1>1. Base => RowsAreWellFormed
  BY DEF Base, RowsAreWellFormed
<1>. QED BY <1>1, TypeCorrect, PTL
-----------------------------------------------------------------------------
(* SpecLifecycle implements GovernedRegistry: every handler is an edit, a  *)
(* release, a hiding, an unhiding, a forgetting, or leaves the registry as *)
(* it is.                                                                  *)

phaseMap == [s \in SpecIds |-> PhaseOf(s)]
headMap == [s \in SpecIds |-> HeadOf(s)]
hiddenSet == {s \in SpecIds : Deleted(s)}

PhaseOfRow(row) == IF row.status = "draft" THEN "draft" ELSE "governed"

-----------------------------------------------------------------------------
(* The mapping of a row, and of a step that changes one row.               *)

LEMMA RowPhase ==
  ASSUME NEW s \in SpecIds, specs[s] \in SpecRow
  PROVE  /\ PhaseOf(s) = PhaseOfRow(specs[s])
         /\ HeadOf(s) = [version |-> specs[s].current_version, content |-> specs[s].content]
<1>1. specs[s] # NoSpec
  BY SpecRowIsNotNoSpec
<1>2. specs[s].status = "draft" \/ Governed(s)
  BY DEF SpecRow, Governed
<1>3. specs[s].status = "draft" => ~Governed(s)
  BY DEF Governed
<1>. QED BY <1>1, <1>2, <1>3 DEF PhaseOf, HeadOf, PhaseOfRow

LEMMA AbsentPhase ==
  ASSUME NEW s \in SpecIds, specs[s] = NoSpec
  PROVE  PhaseOf(s) = "absent" /\ HeadOf(s) = NoSpec
<1>1. ~Governed(s) /\ specs[s].status # "draft"
  BY DEF Governed, NoSpec
<1>. QED BY <1>1 DEF PhaseOf, HeadOf

LEMMA OneRowStep ==
  ASSUME NEW s \in SpecIds, NEW row, SpecBecomes(s, row)
  PROVE  /\ phaseMap' = [phaseMap EXCEPT ![s] = PhaseOfRow(row)]
         /\ headMap' = [headMap EXCEPT
              ![s] = [version |-> row.current_version, content |-> row.content]]
         /\ hiddenSet' = IF row.deleted THEN hiddenSet \cup {s} ELSE hiddenSet \ {s}
<1>1. /\ \A t \in SpecIds : t # s => specs'[t] = specs[t]
      /\ specs'[s] = row /\ row \in SpecRow /\ row # NoSpec
  BY DEF SpecBecomes
<1>2. \A t \in SpecIds : t # s =>
        PhaseOf(t)' = PhaseOf(t) /\ HeadOf(t)' = HeadOf(t) /\ (Deleted(t)' <=> Deleted(t))
  BY <1>1 DEF PhaseOf, HeadOf, Deleted, Governed
<1>3. /\ PhaseOf(s)' = PhaseOfRow(row)
      /\ HeadOf(s)' = [version |-> row.current_version, content |-> row.content]
  <2>1. row.status = "draft" \/ Governed(s)'
    BY <1>1 DEF SpecRow, Governed
  <2>2. row.status = "draft" => ~Governed(s)'
    BY <1>1 DEF Governed
  <2>. QED BY <1>1, <2>1, <2>2 DEF PhaseOf, HeadOf, PhaseOfRow
<1>4. Deleted(s)' <=> row.deleted
  BY <1>1 DEF Deleted
<1>5. phaseMap' = [phaseMap EXCEPT ![s] = PhaseOfRow(row)]
  BY <1>2, <1>3 DEF phaseMap
<1>6. headMap' = [headMap EXCEPT ![s] = [version |-> row.current_version, content |-> row.content]]
  BY <1>2, <1>3 DEF headMap
<1>7. hiddenSet' = IF row.deleted THEN hiddenSet \cup {s} ELSE hiddenSet \ {s}
  BY <1>2, <1>4 DEF hiddenSet
<1>. QED BY <1>5, <1>6, <1>7

\* A step that keeps phase, version, text and flag of one row is a stutter.
LEMMA SameRowStep ==
  ASSUME NEW s \in SpecIds, NEW row, SpecBecomes(s, row), specs[s] \in SpecRow,
         PhaseOfRow(row) = PhaseOfRow(specs[s]), row.deleted = specs[s].deleted,
         row.current_version = specs[s].current_version, row.content = specs[s].content
  PROVE  UNCHANGED <<phaseMap, headMap, hiddenSet>>
<1>1. /\ phaseMap' = [phaseMap EXCEPT ![s] = PhaseOf(s)]
      /\ headMap' = [headMap EXCEPT ![s] = HeadOf(s)]
  BY OneRowStep, RowPhase
<1>2. phaseMap' = phaseMap /\ headMap' = headMap
  BY <1>1 DEF phaseMap, headMap
<1>3. specs[s] # NoSpec
  BY SpecRowIsNotNoSpec
<1>4. hiddenSet' = IF specs[s].deleted THEN hiddenSet \cup {s} ELSE hiddenSet \ {s}
  BY OneRowStep
<1>5. s \in hiddenSet <=> specs[s].deleted
  BY <1>3 DEF hiddenSet, Deleted
<1>. QED BY <1>2, <1>4, <1>5

-----------------------------------------------------------------------------
(* The kinds of steps.                                                     *)

RegistryStep == [Registry!RegistryNext]_(Registry!registryVars)

LEMMA StutterStep ==
  ASSUME UNCHANGED <<phaseMap, headMap, hiddenSet, spec_versions>>
  PROVE  RegistryStep
BY DEF RegistryStep, Registry!registryVars, phaseMap, headMap, hiddenSet

LEMMA EditStep ==
  ASSUME NEW s \in SpecIds, NEW row, SpecBecomes(s, row), row.status = "draft",
         PhaseOf(s) \in {"absent", "draft"},
         s \in hiddenSet <=> row.deleted, UNCHANGED spec_versions
  PROVE  RegistryStep
<1>1. /\ phaseMap' = [phaseMap EXCEPT ![s] = "draft"]
      /\ headMap' = [headMap EXCEPT
           ![s] = [version |-> row.current_version, content |-> row.content]]
      /\ hiddenSet' = hiddenSet
  BY OneRowStep DEF PhaseOfRow
<1>2. phaseMap[s] \in {"absent", "draft"}
  BY DEF phaseMap
<1>3. \A d \in SpecIds \ {s} : headMap'[d] = headMap[d]
  BY <1>1 DEF headMap
<1>4. Registry!EditDraft(s)
  BY <1>1, <1>2, <1>3 DEF Registry!EditDraft, Registry!OnlyHeadsOf, phaseMap, headMap, hiddenSet
<1>. QED BY <1>4 DEF RegistryStep, Registry!RegistryNext

LEMMA AppendStep ==
  ASSUME Base, NEW s \in SpecIds, NEW entry, HistoryGains(s, entry)
  PROVE  Registry!Appends(s, entry) /\ entry \in spec_versions'[s]
<1>1. entry \in Registry!Entry
  BY DEF HistoryGains, Registry!Entry, VersionRow, Registry!Version, Version
<1>2. spec_versions' = [spec_versions EXCEPT ![s] = @ \cup {entry}]
  BY DEF HistoryGains, Base, TypeOK
<1>. QED BY <1>1, <1>2 DEF HistoryGains, Registry!Appends

LEMMA StableStep ==
  ASSUME Base, NEW s \in SpecIds, NEW row, NEW entry, SpecBecomes(s, row),
         HistoryGains(s, entry), entry.channel = "stable",
         entry.version = row.current_version, entry.content = row.content,
         row.status # "draft", ~row.deleted,
         specs[s] # NoSpec, s \notin hiddenSet
  PROVE  RegistryStep
<1>1. /\ phaseMap' = [phaseMap EXCEPT ![s] = "governed"]
      /\ headMap' = [headMap EXCEPT
           ![s] = [version |-> row.current_version, content |-> row.content]]
      /\ hiddenSet' = hiddenSet
  BY OneRowStep DEF PhaseOfRow
<1>2. phaseMap[s] \in {"draft", "governed"}
  <2>1. specs[s] \in SpecRow
    BY DEF Base, TypeOK
  <2>. QED BY <2>1, RowPhase DEF phaseMap, PhaseOfRow
<1>3. \A d \in SpecIds \ {s} : headMap'[d] = headMap[d]
  BY <1>1 DEF headMap
<1>4. headMap'[s] = [version |-> entry.version, content |-> entry.content]
  BY <1>1 DEF headMap
<1>5. Registry!Appends(s, entry) /\ entry \in spec_versions'[s]
  BY AppendStep
<1>6. Registry!IsHead(s, entry)
  BY <1>4 DEF Registry!IsHead, headMap
<1>7. Registry!OnlyHeadsOf({s})
  BY <1>3 DEF Registry!OnlyHeadsOf, headMap
<1>8. Registry!ReleaseStable(s)
  BY <1>1, <1>2, <1>5, <1>6, <1>7 DEF Registry!ReleaseStable, phaseMap, hiddenSet
<1>. QED BY <1>8 DEF RegistryStep, Registry!RegistryNext

LEMMA BetaStep ==
  ASSUME Base, NEW s \in SpecIds, NEW entry, HistoryGains(s, entry), entry.channel = "beta",
         Governed(s), s \notin hiddenSet, UNCHANGED <<phaseMap, headMap, hiddenSet>>
  PROVE  RegistryStep
<1>1. phaseMap[s] = "governed"
  BY DEF phaseMap, PhaseOf, Governed, NoSpec
<1>2. Registry!Appends(s, entry) /\ entry \in spec_versions'[s]
  BY AppendStep
<1>3. Registry!ReleaseBeta(s)
  BY <1>1, <1>2 DEF Registry!ReleaseBeta, phaseMap, headMap, hiddenSet
<1>. QED BY <1>3 DEF RegistryStep, Registry!RegistryNext

-----------------------------------------------------------------------------
(* Each handler.                                                           *)

LEMMA InitRefines == ASSUME LifecycleAssumption, Init PROVE Registry!RegistryInit
<1>1. \A s \in SpecIds : PhaseOf(s) = "absent" /\ ~Deleted(s)
  BY AbsentPhase DEF Init, Deleted
<1>. QED BY <1>1 DEF Init, Registry!RegistryInit

LEMMA StepRefines ==
  ASSUME LifecycleAssumption, Base, [Next]_vars
  PROVE  RegistryStep
<1>. USE LifecycleAssumption
<1>1. ASSUME NEW s \in SpecIds, NEW content \in Contents, CreateSpec(s, content)
      PROVE  RegistryStep
  <2>. DEFINE row == [status |-> "draft", deleted |-> FALSE,
                      current_version |-> DraftVersion, content |-> content]
  <2>1. specs[s] = NoSpec /\ SpecBecomes(s, row) /\ UNCHANGED spec_versions
    BY <1>1, CreateEffect DEF CreateSpec
  <2>2. row.status = "draft" /\ ~row.deleted
    OBVIOUS
  <2>3. PhaseOf(s) = "absent" /\ s \notin hiddenSet
    BY <2>1, AbsentPhase DEF hiddenSet, Deleted
  <2>. HIDE DEF row
  <2>. QED BY <2>1, <2>2, <2>3, EditStep
<1>2. ASSUME NEW s \in SpecIds, NEW content \in Contents, EditDraft(s, content)
      PROVE  RegistryStep
  <2>. DEFINE row == Row(s, "draft", specs[s].current_version, content)
  <2>1. /\ specs[s] \in SpecRow /\ specs[s] # NoSpec /\ specs[s].status = "draft"
        /\ SpecBecomes(s, row) /\ UNCHANGED spec_versions
    BY <1>2, EditEffect DEF EditDraft
  <2>2. row.status = "draft" /\ row.deleted = specs[s].deleted
    BY DEF Row
  <2>3. PhaseOf(s) = "draft"
    BY <2>1, RowPhase DEF PhaseOfRow
  <2>4. s \in hiddenSet <=> specs[s].deleted
    BY <2>1 DEF hiddenSet, Deleted
  <2>. HIDE DEF row
  <2>. QED BY <2>1, <2>2, <2>3, <2>4, EditStep
<1>3. ASSUME NEW s \in SpecIds, PublishDraft(s)
      PROVE  RegistryStep
  <2>. DEFINE row == Row(s, "published", FirstVersion, specs[s].content)
              entry == [version |-> FirstVersion, content |-> specs[s].content,
                        channel |-> "stable"]
  <2>1. /\ specs[s] # NoSpec /\ ~Deleted(s)
        /\ SpecBecomes(s, row) /\ HistoryGains(s, entry)
    BY <1>3, PublishDraftEffect
  <2>2. /\ entry.channel = "stable" /\ entry.version = row.current_version
        /\ entry.content = row.content /\ row.status # "draft" /\ row.deleted = specs[s].deleted
    BY DEF Row
  <2>3. s \notin hiddenSet /\ ~specs[s].deleted
    BY <2>1 DEF hiddenSet, Deleted
  <2>. HIDE DEF row, entry
  <2>. QED BY <2>1, <2>2, <2>3, StableStep
<1>4. ASSUME NEW s \in SpecIds, NEW c \in CRs, NEW author \in People,
             NEW delta \in VersionDeltas, NEW content \in Contents,
             SubmitReview(s, c, author, delta, content)
      PROVE  RegistryStep
  <2>. DEFINE row == Row(s, "pending_review", specs[s].current_version, specs[s].content)
  <2>1. Governed(s) /\ specs[s] \in SpecRow /\ SpecBecomes(s, row) /\ UNCHANGED spec_versions
    BY <1>4, SubmitEffect DEF SubmitReview
  <2>2. /\ PhaseOfRow(row) = PhaseOfRow(specs[s]) /\ row.deleted = specs[s].deleted
        /\ row.current_version = specs[s].current_version /\ row.content = specs[s].content
    BY <2>1 DEF Row, PhaseOfRow, Governed
  <2>. HIDE DEF row
  <2>3. UNCHANGED <<phaseMap, headMap, hiddenSet>>
    BY <2>1, <2>2, SameRowStep
  <2>. QED BY <2>1, <2>3, StutterStep
<1>5. ASSUME NEW c \in CRs, NEW user \in People, NEW reviewed_by \in People,
             NEW channel \in Channels, ApprovePublish(c, user, reviewed_by, channel)
      PROVE  RegistryStep
  <2>. DEFINE s == change_requests[c].spec
              v == NewVersion(c, channel)
              content == change_requests[c].proposed_content
              head == Row(s, "published", v, content)
              kept == Row(s, "published", specs[s].current_version, specs[s].content)
              entry == [version |-> v, content |-> content, channel |-> channel]
  <2>1. /\ s \in SpecIds /\ specs[s] \in SpecRow /\ specs[s] # NoSpec
        /\ Governed(s) /\ ~Deleted(s)
        /\ channel \in {"stable", "beta"}
        /\ channel = "stable" => SpecBecomes(s, Row(s, "published", v, content))
        /\ channel # "stable" =>
             SpecBecomes(s, Row(s, "published", specs[s].current_version, specs[s].content))
        /\ HistoryGains(s, [version |-> v, content |-> content, channel |-> channel])
    BY <1>5, ApproveEffect
  <2>2. /\ entry.channel = channel /\ entry.version = v /\ entry.content = content
        /\ head.status # "draft" /\ head.deleted = specs[s].deleted
        /\ head.current_version = v /\ head.content = content
        /\ kept.status = "published" /\ kept.deleted = specs[s].deleted
        /\ kept.current_version = specs[s].current_version /\ kept.content = specs[s].content
    BY DEF Row
  <2>3. /\ channel = "stable" => SpecBecomes(s, head)
        /\ channel # "stable" => SpecBecomes(s, kept)
        /\ HistoryGains(s, entry)
    BY <2>1
  <2>. HIDE DEF s, v, content, head, kept, entry
  <2>4. s \notin hiddenSet /\ ~specs[s].deleted
    BY <2>1 DEF hiddenSet, Deleted
  <2>5. CASE channel = "stable"
    BY <2>1, <2>2, <2>3, <2>4, <2>5, StableStep
  <2>6. CASE channel = "beta"
    <3>1. PhaseOfRow(kept) = PhaseOfRow(specs[s])
      BY <2>1, <2>2 DEF PhaseOfRow, Governed
    <3>2. UNCHANGED <<phaseMap, headMap, hiddenSet>>
      BY <2>1, <2>2, <2>3, <2>6, <3>1, SameRowStep
    <3>. QED BY <2>1, <2>2, <2>3, <2>4, <2>6, <3>2, BetaStep
  <2>. QED BY <2>1, <2>5, <2>6
<1>6. ASSUME NEW c \in CRs, Reject(c)
      PROVE  RegistryStep
  <2>. DEFINE s == change_requests[c].spec
              row == Row(s, "published", specs[s].current_version, specs[s].content)
  <2>1. /\ s \in SpecIds /\ specs[s] \in SpecRow /\ Governed(s)
        /\ \/ LastPending(c) /\ SpecBecomes(s, row)
           \/ ~LastPending(c) /\ specs' = specs
    BY <1>6, RejectEffect
  <2>2. /\ PhaseOfRow(row) = PhaseOfRow(specs[s]) /\ row.deleted = specs[s].deleted
        /\ row.current_version = specs[s].current_version /\ row.content = specs[s].content
    BY <2>1 DEF Row, PhaseOfRow, Governed
  <2>. HIDE DEF s, row
  <2>3. SpecBecomes(s, row) => UNCHANGED <<phaseMap, headMap, hiddenSet>>
    BY <2>1, <2>2, SameRowStep
  <2>4. specs' = specs => UNCHANGED <<phaseMap, headMap, hiddenSet>>
    BY DEF phaseMap, headMap, hiddenSet, PhaseOf, HeadOf, Deleted, Governed
  <2>5. UNCHANGED <<phaseMap, headMap, hiddenSet>>
    BY <2>1, <2>3, <2>4
  <2>6. UNCHANGED spec_versions
    BY <1>6 DEF Reject
  <2>. QED BY <2>5, <2>6, StutterStep
<1>7. ASSUME NEW s \in SpecIds, NEW beta \in spec_versions[s], Promote(s, beta)
      PROVE  RegistryStep
  <2>. DEFINE v == StableOf(beta.version)
              row == Row(s, specs[s].status, v, beta.content)
              entry == [version |-> v, content |-> beta.content, channel |-> "stable"]
  <2>1. /\ Governed(s) /\ specs[s] # NoSpec /\ ~Deleted(s)
        /\ SpecBecomes(s, row) /\ HistoryGains(s, entry)
    BY <1>7, PromoteEffect
  <2>2. /\ entry.channel = "stable" /\ entry.version = row.current_version
        /\ entry.content = row.content /\ row.status = specs[s].status
        /\ row.deleted = specs[s].deleted
    BY DEF Row
  <2>3. s \notin hiddenSet /\ ~specs[s].deleted /\ specs[s].status # "draft"
    BY <2>1 DEF hiddenSet, Deleted, Governed
  <2>. HIDE DEF v, row, entry
  <2>. QED BY <2>1, <2>2, <2>3, StableStep
<1>8. ASSUME NEW s \in SpecIds, NEW b \in BOOLEAN, specs[s] \in SpecRow, specs[s] # NoSpec,
             SpecBecomes(s, [status |-> specs[s].status, deleted |-> b,
                             current_version |-> specs[s].current_version,
                             content |-> specs[s].content])
      PROVE  /\ UNCHANGED <<phaseMap, headMap>>
             /\ hiddenSet' = IF b THEN hiddenSet \cup {s} ELSE hiddenSet \ {s}
  <2>. DEFINE row == [status |-> specs[s].status, deleted |-> b,
                      current_version |-> specs[s].current_version,
                      content |-> specs[s].content]
  <2>0. /\ row.status = specs[s].status /\ row.deleted = b
        /\ row.current_version = specs[s].current_version /\ row.content = specs[s].content
    OBVIOUS
  <2>1. /\ PhaseOfRow(row) = PhaseOf(s)
        /\ [version |-> row.current_version, content |-> row.content] = HeadOf(s)
        /\ row.deleted = b
    <3>. HIDE DEF row
    <3>1. PhaseOf(s) = PhaseOfRow(specs[s])
      BY <1>8, RowPhase
    <3>2. HeadOf(s) = [version |-> specs[s].current_version, content |-> specs[s].content]
      BY <1>8, RowPhase
    <3>. QED BY <2>0, <3>1, <3>2 DEF PhaseOfRow
  <2>2. SpecBecomes(s, row)
    BY <1>8
  <2>. HIDE DEF row
  <2>3. /\ phaseMap' = [phaseMap EXCEPT ![s] = PhaseOf(s)]
        /\ headMap' = [headMap EXCEPT ![s] = HeadOf(s)]
        /\ hiddenSet' = IF b THEN hiddenSet \cup {s} ELSE hiddenSet \ {s}
    BY <2>1, <2>2, OneRowStep
  <2>. QED BY <2>3 DEF phaseMap, headMap
<1>9. ASSUME NEW s \in SpecIds, Delete(s)
      PROVE  RegistryStep
  <2>1. specs[s] \in SpecRow /\ specs[s] # NoSpec /\ UNCHANGED spec_versions
    BY <1>9, DeleteEffect DEF Delete
  <2>2. /\ UNCHANGED <<phaseMap, headMap>>
        /\ hiddenSet' = hiddenSet \cup {s}
    BY <1>8, <1>9, <2>1, DeleteEffect
  <2>3. phaseMap[s] # "absent"
    BY <2>1, RowPhase DEF phaseMap, PhaseOfRow
  <2>4. Registry!Hide(s)
    BY <2>1, <2>2, <2>3 DEF Registry!Hide, phaseMap, headMap, hiddenSet
  <2>. QED BY <2>4 DEF RegistryStep, Registry!RegistryNext
<1>10. ASSUME NEW s \in SpecIds, Restore(s)
       PROVE  RegistryStep
  <2>1. specs[s] \in SpecRow /\ specs[s] # NoSpec /\ UNCHANGED spec_versions
    BY <1>10, RestoreEffect DEF Restore
  <2>2. /\ UNCHANGED <<phaseMap, headMap>>
        /\ hiddenSet' = hiddenSet \ {s}
    BY <1>8, <1>10, <2>1, RestoreEffect
  <2>3. Registry!Unhide(s)
    BY <2>1, <2>2 DEF Registry!Unhide, phaseMap, headMap, hiddenSet
  <2>. QED BY <2>3 DEF RegistryStep, Registry!RegistryNext
<1>11. ASSUME Purge
       PROVE  RegistryStep
  <2>1. expired \subseteq hiddenSet
    BY DEF Base, TypeOK, hiddenSet
  <2>2. \A s \in SpecIds \ expired :
          PhaseOf(s)' = PhaseOf(s) /\ HeadOf(s)' = HeadOf(s) /\ (Deleted(s)' <=> Deleted(s))
    BY <1>11 DEF Purge, OfExpired, PhaseOf, HeadOf, Deleted, Governed
  <2>3. \A s \in SpecIds \cap expired : PhaseOf(s)' = "absent" /\ ~Deleted(s)'
    BY <1>11 DEF Purge, OfExpired, PhaseOf, Governed, Deleted, NoSpec
  <2>4. phaseMap' = [s \in SpecIds |-> IF s \in expired THEN "absent" ELSE phaseMap[s]]
    BY <2>2, <2>3 DEF phaseMap
  <2>5. \A s \in SpecIds \ expired : headMap'[s] = headMap[s]
    BY <2>2 DEF headMap
  <2>6. hiddenSet' = hiddenSet \ expired
    BY <2>2, <2>3 DEF hiddenSet
  <2>7. spec_versions' = [s \in SpecIds |-> IF s \in expired THEN {} ELSE spec_versions[s]]
    BY <1>11 DEF Purge, OfExpired
  <2>8. Registry!Forget(expired)
    BY <2>1, <2>4, <2>5, <2>6, <2>7
       DEF Registry!Forget, Registry!OnlyHeadsOf, phaseMap, headMap, hiddenSet
  <2>9. expired \in SUBSET {s \in SpecIds : Deleted(s)}
    BY <2>1 DEF hiddenSet
  <2>. QED BY <2>8, <2>9 DEF RegistryStep, Registry!RegistryNext
<1>12. ASSUME Quiet
       PROVE  RegistryStep
  <2>1. UNCHANGED <<specs, spec_versions>>
    BY <1>12, QuietEffect
  <2>2. UNCHANGED <<phaseMap, headMap, hiddenSet>>
    BY <2>1 DEF phaseMap, headMap, hiddenSet, PhaseOf, HeadOf, Deleted, Governed
  <2>. QED BY <2>1, <2>2, StutterStep
<1>. QED
  BY <1>1, <1>2, <1>3, <1>4, <1>5, <1>6, <1>7, <1>9, <1>10, <1>11, <1>12 DEF Next, Quiet

(***************************************************************************)
(* The handlers implement the registry: whatever happens, a governed text  *)
(* changes only by a release recorded under a fresh version, history only  *)
(* grows, and a document is forgotten only after it was deleted.           *)
(***************************************************************************)
THEOREM RegistryIsImplemented == Spec => ImplementsRegistry
<1>1. Init => Registry!RegistryInit
  BY InitRefines, LifecycleAssumption
<1>2. Base /\ [Next]_vars => [Registry!RegistryNext]_(Registry!registryVars)
  BY StepRefines, LifecycleAssumption DEF RegistryStep
<1>3. Spec => []Base
  BY TypeCorrect
<1>. QED BY <1>1, <1>2, <1>3, PTL DEF Spec, ImplementsRegistry, Registry!RegistrySpec

-----------------------------------------------------------------------------
(* Every published head is a recorded stable version.                      *)

HeadRow(s) ==
  [version |-> specs[s].current_version, content |-> specs[s].content, channel |-> "stable"]

LEMMA HeadRecordedStep ==
  ASSUME LifecycleAssumption, Base, HeadIsRecorded, [Next]_vars
  PROVE  HeadIsRecorded'
<1>. USE LifecycleAssumption
<1>. SUFFICES ASSUME NEW t \in SpecIds, Governed(t)'
              PROVE  HeadRow(t)' \in spec_versions'[t]
  BY DEF HeadIsRecorded, HeadRow
<1>0. Governed(t) => HeadRow(t) \in spec_versions[t]
  BY DEF HeadIsRecorded, HeadRow
\* A step that leaves the head of t and adds to its history at most.
<1>. DEFINE Keeps == /\ specs'[t].status \in {"pending_review", "published"} => Governed(t)
                     /\ specs'[t].current_version = specs[t].current_version
                     /\ specs'[t].content = specs[t].content
                     /\ spec_versions[t] \subseteq spec_versions'[t]
<1>k. Keeps => HeadRow(t)' \in spec_versions'[t]
  BY <1>0 DEF Governed, HeadRow
<1>1. ASSUME NEW s \in SpecIds, NEW content \in Contents, CreateSpec(s, content)
      PROVE  HeadRow(t)' \in spec_versions'[t]
  <2>1. SpecBecomes(s, [status |-> "draft", deleted |-> FALSE,
                        current_version |-> DraftVersion, content |-> content])
    BY <1>1, CreateEffect
  <2>2. s # t
    BY <2>1 DEF SpecBecomes, Governed
  <2>. QED BY <1>1, <1>k, <2>1, <2>2 DEF SpecBecomes, CreateSpec, Governed
<1>2. ASSUME NEW s \in SpecIds, NEW content \in Contents, EditDraft(s, content)
      PROVE  HeadRow(t)' \in spec_versions'[t]
  <2>1. SpecBecomes(s, Row(s, "draft", specs[s].current_version, content))
    BY <1>2, EditEffect
  <2>2. s # t
    BY <2>1 DEF SpecBecomes, Row, Governed
  <2>. QED BY <1>2, <1>k, <2>1, <2>2 DEF SpecBecomes, EditDraft, Governed
<1>3. ASSUME NEW s \in SpecIds, PublishDraft(s)
      PROVE  HeadRow(t)' \in spec_versions'[t]
  <2>1. /\ SpecBecomes(s, Row(s, "published", FirstVersion, specs[s].content))
        /\ HistoryGains(s, [version |-> FirstVersion, content |-> specs[s].content,
                            channel |-> "stable"])
    BY <1>3, PublishDraftEffect
  <2>2. CASE s = t
    BY <2>1, <2>2 DEF SpecBecomes, HistoryGains, Row, HeadRow
  <2>3. CASE s # t
    BY <1>k, <2>1, <2>3 DEF SpecBecomes, HistoryGains, Governed
  <2>. QED BY <2>2, <2>3
<1>4. ASSUME NEW s \in SpecIds, NEW c \in CRs, NEW author \in People,
             NEW delta \in VersionDeltas, NEW content \in Contents,
             SubmitReview(s, c, author, delta, content)
      PROVE  HeadRow(t)' \in spec_versions'[t]
  <2>1. /\ Governed(s) /\ spec_versions' = spec_versions
        /\ SpecBecomes(s, Row(s, "pending_review", specs[s].current_version, specs[s].content))
    BY <1>4, SubmitEffect DEF SubmitReview
  <2>. QED BY <1>k, <2>1 DEF SpecBecomes, Row, Governed
<1>5. ASSUME NEW c \in CRs, NEW user \in People, NEW reviewed_by \in People,
             NEW channel \in Channels, ApprovePublish(c, user, reviewed_by, channel)
      PROVE  HeadRow(t)' \in spec_versions'[t]
  <2>1. PICK s, v, content :
          /\ Governed(s)
          /\ \/ /\ channel = "stable"
                /\ SpecBecomes(s, Row(s, "published", v, content))
             \/ SpecBecomes(s, Row(s, "published", specs[s].current_version, specs[s].content))
          /\ HistoryGains(s, [version |-> v, content |-> content, channel |-> channel])
    <3>. DEFINE s == change_requests[c].spec
                v == NewVersion(c, channel)
                content == change_requests[c].proposed_content
    <3>1. /\ Governed(s) /\ channel \in {"stable", "beta"}
          /\ channel = "stable" => SpecBecomes(s, Row(s, "published", v, content))
          /\ channel # "stable" =>
               SpecBecomes(s, Row(s, "published", specs[s].current_version, specs[s].content))
          /\ HistoryGains(s, [version |-> v, content |-> content, channel |-> channel])
      BY <1>5, ApproveEffect
    <3>. HIDE DEF s, v, content
    <3>. QED BY <3>1
  <2>2. CASE s = t /\ channel = "stable" /\ SpecBecomes(s, Row(s, "published", v, content))
    BY <2>1, <2>2 DEF SpecBecomes, HistoryGains, Row, HeadRow
  <2>3. CASE \/ s # t
             \/ SpecBecomes(s, Row(s, "published", specs[s].current_version, specs[s].content))
    BY <1>k, <2>1, <2>3 DEF SpecBecomes, HistoryGains, Row, Governed
  <2>. QED BY <2>1, <2>2, <2>3
<1>6. ASSUME NEW c \in CRs, Reject(c)
      PROVE  HeadRow(t)' \in spec_versions'[t]
  <2>1. PICK s :
          /\ Governed(s)
          /\ \/ SpecBecomes(s, Row(s, "published", specs[s].current_version, specs[s].content))
             \/ specs' = specs
    BY <1>6, RejectEffect
  <2>2. spec_versions' = spec_versions
    BY <1>6 DEF Reject
  <2>. QED BY <1>k, <2>1, <2>2 DEF SpecBecomes, Row, Governed
<1>7. ASSUME NEW s \in SpecIds, NEW beta \in spec_versions[s], Promote(s, beta)
      PROVE  HeadRow(t)' \in spec_versions'[t]
  <2>1. PICK v :
          /\ SpecBecomes(s, Row(s, specs[s].status, v, beta.content))
          /\ HistoryGains(s, [version |-> v, content |-> beta.content, channel |-> "stable"])
    BY <1>7, PromoteEffect
  <2>2. CASE s = t
    BY <2>1, <2>2 DEF SpecBecomes, HistoryGains, Row, HeadRow
  <2>3. CASE s # t
    BY <1>k, <2>1, <2>3 DEF SpecBecomes, HistoryGains, Governed
  <2>. QED BY <2>2, <2>3
<1>8. ASSUME NEW s \in SpecIds, Delete(s) \/ Restore(s)
      PROVE  HeadRow(t)' \in spec_versions'[t]
  <2>1. PICK b : SpecBecomes(s, [status |-> specs[s].status, deleted |-> b,
                                 current_version |-> specs[s].current_version,
                                 content |-> specs[s].content])
    BY <1>8, DeleteEffect, RestoreEffect
  <2>2. spec_versions' = spec_versions
    BY <1>8 DEF Delete, Restore
  <2>. QED BY <1>k, <2>1, <2>2 DEF SpecBecomes, Governed
<1>9. ASSUME Purge
      PROVE  HeadRow(t)' \in spec_versions'[t]
  <2>1. t \notin expired
    BY <1>9 DEF Purge, OfExpired, Governed, NoSpec
  <2>. QED BY <1>9, <1>k, <2>1 DEF Purge, OfExpired, Governed
<1>10. ASSUME Quiet
       PROVE  HeadRow(t)' \in spec_versions'[t]
  BY <1>10, <1>k, QuietEffect DEF Governed
<1>. QED
  BY <1>1, <1>2, <1>3, <1>4, <1>5, <1>6, <1>7, <1>8, <1>9, <1>10 DEF Next, Quiet

-----------------------------------------------------------------------------
(* A spec in review has a pending request.                                 *)

Waiting(s) == \E c \in CRs : change_requests[c].status = "pending" /\ change_requests[c].spec = s

LEMMA StrandedStep ==
  ASSUME LifecycleAssumption, Base, ReviewIsNotStranded, [Next]_vars
  PROVE  ReviewIsNotStranded'
<1>. USE LifecycleAssumption
<1>. SUFFICES ASSUME NEW t \in SpecIds, specs'[t].status = "pending_review"
              PROVE  Waiting(t)'
  BY DEF ReviewIsNotStranded, PendingFor, Pending, Waiting
<1>0. specs[t].status = "pending_review" => Waiting(t)
  BY DEF ReviewIsNotStranded, PendingFor, Pending, Waiting
\* A step that does not bring t into review, nor decides a request.
<1>. DEFINE Keeps == /\ specs[t].status = "pending_review"
                     /\ change_requests' = change_requests
<1>k. Keeps => Waiting(t)'
  BY <1>0 DEF Waiting
<1>1. ASSUME NEW s \in SpecIds, NEW content \in Contents, CreateSpec(s, content)
      PROVE  Waiting(t)'
  <2>1. SpecBecomes(s, [status |-> "draft", deleted |-> FALSE,
                        current_version |-> DraftVersion, content |-> content])
    BY <1>1, CreateEffect
  <2>. QED BY <1>1, <1>k, <2>1 DEF SpecBecomes, CreateSpec
<1>2. ASSUME NEW s \in SpecIds, NEW content \in Contents, EditDraft(s, content)
      PROVE  Waiting(t)'
  <2>1. SpecBecomes(s, Row(s, "draft", specs[s].current_version, content))
    BY <1>2, EditEffect
  <2>. QED BY <1>2, <1>k, <2>1 DEF SpecBecomes, Row, EditDraft
<1>3. ASSUME NEW s \in SpecIds, PublishDraft(s)
      PROVE  Waiting(t)'
  <2>1. SpecBecomes(s, Row(s, "published", FirstVersion, specs[s].content))
    BY <1>3, PublishDraftEffect
  <2>. QED BY <1>3, <1>k, <2>1 DEF SpecBecomes, Row, PublishDraft
<1>4. ASSUME NEW s \in SpecIds, NEW c \in CRs, NEW author \in People,
             NEW delta \in VersionDeltas, NEW content \in Contents,
             SubmitReview(s, c, author, delta, content)
      PROVE  Waiting(t)'
  <2>1. /\ SpecBecomes(s, Row(s, "pending_review", specs[s].current_version, specs[s].content))
        /\ RequestBecomes(c, change_requests'[c])
        /\ change_requests'[c].spec = s /\ change_requests'[c].status = "pending"
        /\ change_requests[c] = NoCR
    BY <1>4, SubmitEffect
  <2>2. CASE s = t
    BY <2>1, <2>2 DEF Waiting
  <2>3. CASE s # t
    <3>1. PICK d \in CRs : change_requests[d].status = "pending" /\ change_requests[d].spec = t
      BY <1>0, <2>1, <2>3 DEF SpecBecomes, Waiting
    <3>2. d # c
      BY <2>1, <3>1 DEF NoCR
    <3>. QED BY <2>1, <3>1, <3>2 DEF RequestBecomes, Waiting
  <2>. QED BY <2>2, <2>3
<1>5. ASSUME NEW c \in CRs, NEW user \in People, NEW reviewed_by \in People,
             NEW channel \in Channels, ApprovePublish(c, user, reviewed_by, channel)
      PROVE  Waiting(t)'
  <2>. DEFINE s == change_requests[c].spec
              v == NewVersion(c, channel)
              content == change_requests[c].proposed_content
  <2>1. /\ channel = "stable" => SpecBecomes(s, Row(s, "published", v, content))
        /\ channel # "stable" =>
             SpecBecomes(s, Row(s, "published", specs[s].current_version, specs[s].content))
        /\ RequestBecomes(c, Approved(c, v))
    BY <1>5, ApproveEffect
  <2>2. s # t /\ specs'[t] = specs[t]
    <3>. HIDE DEF s, v, content
    <3>. QED BY <2>1 DEF SpecBecomes, Row
  <2>3. PICK d \in CRs : change_requests[d].status = "pending" /\ change_requests[d].spec = t
    BY <1>0, <2>2 DEF Waiting
  <2>. QED BY <2>1, <2>2, <2>3 DEF RequestBecomes, Waiting
<1>6. ASSUME NEW c \in CRs, Reject(c)
      PROVE  Waiting(t)'
  <2>. DEFINE s == change_requests[c].spec
  <2>1. /\ change_requests[c].status = "pending"
        /\ \/ LastPending(c) /\ SpecBecomes(s, Row(s, "published", specs[s].current_version,
                                                   specs[s].content))
           \/ ~LastPending(c) /\ specs' = specs
        /\ RequestBecomes(c, [change_requests[c] EXCEPT !.status = "rejected"])
    BY <1>6, RejectEffect
  <2>2. PICK d \in CRs : change_requests[d].status = "pending" /\ change_requests[d].spec = t /\ d # c
    <3>1. specs'[t] = specs[t]
      BY <2>1 DEF SpecBecomes, Row
    <3>2. Waiting(t)
      BY <1>0, <3>1
    <3>3. CASE s # t
      BY <3>2, <3>3 DEF Waiting
    <3>4. CASE s = t
      <4>1. PendingFor(t) # {c}
        BY <2>1, <3>4 DEF LastPending, SpecBecomes, Row
      <4>2. c \in PendingFor(t)
        BY <2>1, <3>4 DEF PendingFor, Pending
      <4>. QED BY <4>1, <4>2 DEF PendingFor, Pending
    <3>. QED BY <3>3, <3>4
  <2>. QED BY <2>1, <2>2 DEF RequestBecomes, Waiting
<1>7. ASSUME NEW s \in SpecIds, NEW beta \in spec_versions[s], Promote(s, beta)
      PROVE  Waiting(t)'
  <2>1. PICK v : SpecBecomes(s, Row(s, specs[s].status, v, beta.content))
    BY <1>7, PromoteEffect
  <2>. QED BY <1>7, <1>k, <2>1 DEF SpecBecomes, Row, Promote
<1>8. ASSUME NEW s \in SpecIds, Delete(s) \/ Restore(s)
      PROVE  Waiting(t)'
  <2>1. PICK b : SpecBecomes(s, [status |-> specs[s].status, deleted |-> b,
                                 current_version |-> specs[s].current_version,
                                 content |-> specs[s].content])
    BY <1>8, DeleteEffect, RestoreEffect
  <2>. QED BY <1>8, <1>k, <2>1 DEF SpecBecomes, Delete, Restore
<1>9. ASSUME Purge
      PROVE  Waiting(t)'
  <2>1. t \notin expired
    BY <1>9 DEF Purge, OfExpired, NoSpec
  <2>2. PICK d \in CRs : change_requests[d].status = "pending" /\ change_requests[d].spec = t
    <3>1. specs'[t] = specs[t]
      BY <1>9, <2>1 DEF Purge, OfExpired
    <3>. QED BY <1>0, <3>1 DEF Waiting
  <2>3. change_requests'[d] = change_requests[d]
    BY <1>9, <2>1, <2>2 DEF Purge, OfExpired
  <2>. QED BY <2>2, <2>3 DEF Waiting
<1>10. ASSUME Quiet
       PROVE  Waiting(t)'
  BY <1>10, <1>k, QuietEffect
<1>. QED
  BY <1>1, <1>2, <1>3, <1>4, <1>5, <1>6, <1>7, <1>8, <1>9, <1>10 DEF Next, Quiet

-----------------------------------------------------------------------------
(* A filename belongs to one spec.                                         *)

LEMMA NamesStep ==
  ASSUME LifecycleAssumption, Base, FilenameIsReserved, [Next]_vars
  PROVE  FilenameIsReserved'
<1>. USE LifecycleAssumption
<1>. DEFINE Same == \A s \in SpecIds : specs'[s] # NoSpec => specs[s] # NoSpec
<1>s. Same => FilenameIsReserved'
  BY DEF FilenameIsReserved
<1>1. ASSUME NEW s \in SpecIds, NEW content \in Contents, CreateSpec(s, content)
      PROVE  FilenameIsReserved'
  <2>1. /\ NameFree(s)
        /\ SpecBecomes(s, [status |-> "draft", deleted |-> FALSE,
                           current_version |-> DraftVersion, content |-> content])
    BY <1>1, CreateEffect
  <2>. QED BY <2>1 DEF NameFree, SpecBecomes, FilenameIsReserved
<1>2. ASSUME NEW s \in SpecIds, NEW row, specs[s] # NoSpec, SpecBecomes(s, row)
      PROVE  FilenameIsReserved'
  BY <1>2, <1>s DEF SpecBecomes
<1>3. ASSUME NEW s \in SpecIds, NEW content \in Contents, EditDraft(s, content)
      PROVE  FilenameIsReserved'
  BY <1>2, <1>3, EditEffect
<1>4. ASSUME NEW s \in SpecIds, PublishDraft(s)
      PROVE  FilenameIsReserved'
  BY <1>2, <1>4, PublishDraftEffect
<1>5. ASSUME NEW s \in SpecIds, NEW c \in CRs, NEW author \in People,
             NEW delta \in VersionDeltas, NEW content \in Contents,
             SubmitReview(s, c, author, delta, content)
      PROVE  FilenameIsReserved'
  BY <1>2, <1>5, SubmitEffect
<1>6. ASSUME NEW c \in CRs, NEW user \in People, NEW reviewed_by \in People,
             NEW channel \in Channels, ApprovePublish(c, user, reviewed_by, channel)
      PROVE  FilenameIsReserved'
  <2>. DEFINE s == change_requests[c].spec
              v == NewVersion(c, channel)
              content == change_requests[c].proposed_content
  <2>1. /\ s \in SpecIds /\ specs[s] # NoSpec
        /\ channel = "stable" => SpecBecomes(s, Row(s, "published", v, content))
        /\ channel # "stable" =>
             SpecBecomes(s, Row(s, "published", specs[s].current_version, specs[s].content))
        /\ HistoryGains(s, [version |-> v, content |-> content, channel |-> channel])
    BY <1>6, ApproveEffect
  <2>. HIDE DEF s, v, content
  <2>. QED BY <1>2, <2>1
<1>7. ASSUME NEW c \in CRs, Reject(c)
      PROVE  FilenameIsReserved'
  BY <1>2, <1>7, <1>s, RejectEffect
<1>8. ASSUME NEW s \in SpecIds, NEW beta \in spec_versions[s], Promote(s, beta)
      PROVE  FilenameIsReserved'
  BY <1>2, <1>8, PromoteEffect
<1>9. ASSUME NEW s \in SpecIds, Delete(s) \/ Restore(s)
      PROVE  FilenameIsReserved'
  BY <1>2, <1>9, DeleteEffect, RestoreEffect
<1>10. ASSUME Purge
       PROVE  FilenameIsReserved'
  BY <1>10, <1>s DEF Purge, OfExpired
<1>11. ASSUME Quiet
       PROVE  FilenameIsReserved'
  BY <1>11, <1>s, QuietEffect
<1>. QED
  BY <1>1, <1>3, <1>4, <1>5, <1>6, <1>7, <1>8, <1>9, <1>10, <1>11 DEF Next, Quiet

-----------------------------------------------------------------------------
(* The evidence behind an approved request.                                *)

\* No approval row of c is its proposer's own, unless the operator allows it.
Separated(c) ==
  \A row \in review_approvals[c] :
    row.actor = change_requests[c].proposed_by => row.actor \in Admins /\ AllowAdminSelfApprove

Documented(c) ==
  change_requests[c].status = "approved" =>
    LET cr == change_requests[c]
    IN  /\ review_approvals[c] # {}
        /\ \E v \in cr.resulting_version : \E row \in spec_versions[cr.spec] :
              row.version = v /\ row.content = cr.proposed_content

\* ApprovalEvidence is not inductive: an approval counts towards the evidence
\* before its request is approved, so the separation must hold from the start.
EvidenceInv ==
  \A c \in CRs : (change_requests[c] # NoCR => Separated(c)) /\ Documented(c)

LEMMA EvidenceInvImplies == EvidenceInv => ApprovalEvidence
BY DEF EvidenceInv, ApprovalEvidence, Separated, Documented, NoCR

LEMMA EvidenceStep ==
  ASSUME LifecycleAssumption, Base, EvidenceInv, [Next]_vars
  PROVE  EvidenceInv'
<1>. USE LifecycleAssumption
<1>. DEFINE Good(d) == (change_requests'[d] # NoCR => Separated(d)') /\ Documented(d)'
<1>. SUFFICES ASSUME NEW d \in CRs PROVE Good(d)
  BY DEF EvidenceInv
<1>0. (change_requests[d] # NoCR => Separated(d)) /\ Documented(d)
  BY DEF EvidenceInv
<1>. DEFINE Grows == \A s \in SpecIds : spec_versions[s] \subseteq spec_versions'[s]
<1>k. ASSUME change_requests'[d] = change_requests[d], review_approvals'[d] = review_approvals[d],
             Grows
      PROVE  Good(d)
  <2>1. change_requests[d].status = "approved" => change_requests[d].spec \in SpecIds
    BY DEF Base, TypeOK, CRRow, NoCR
  <2>. QED BY <1>0, <1>k, <2>1 DEF Separated, Documented
<1>g. ASSUME NEW s \in SpecIds, NEW row, HistoryGains(s, row) PROVE Grows
  BY <1>g DEF HistoryGains
<1>1. ASSUME UNCHANGED <<change_requests, review_approvals>>, Grows PROVE Good(d)
  BY <1>1, <1>k
<1>2. ASSUME NEW s \in SpecIds, PublishDraft(s) PROVE Good(d)
  <2>1. Grows
    BY <1>2, <1>g, PublishDraftEffect
  <2>. QED BY <1>2, <1>1, <2>1 DEF PublishDraft
<1>3. ASSUME NEW s \in SpecIds, NEW c \in CRs, NEW author \in People,
             NEW delta \in VersionDeltas, NEW content \in Contents,
             SubmitReview(s, c, author, delta, content)
      PROVE  Good(d)
  <2>1. /\ RequestBecomes(c, change_requests'[c]) /\ change_requests'[c].status = "pending"
        /\ change_requests[c] = NoCR
        /\ UNCHANGED <<review_approvals, spec_versions>>
    BY <1>3, SubmitEffect DEF SubmitReview
  <2>2. CASE d = c
    <3>1. review_approvals[c] = {}
      BY <2>1 DEF Base, DraftsAreUngoverned
    <3>. QED BY <2>1, <2>2, <3>1 DEF Separated, Documented
  <2>3. CASE d # c
    BY <2>1, <2>3, <1>k DEF RequestBecomes
  <2>. QED BY <2>2, <2>3
<1>4. ASSUME NEW c \in CRs, NEW user \in People, NEW reviewed_by \in People,
             RecordApproval(c, user, reviewed_by)
      PROVE  /\ \A e \in CRs : e # c => review_approvals'[e] = review_approvals[e]
             /\ review_approvals'[c] # {}
             /\ change_requests[c] # NoCR /\ change_requests[c].status = "pending"
             /\ \A row \in review_approvals'[c] :
                  row.actor = change_requests[c].proposed_by =>
                    row.actor \in Admins /\ AllowAdminSelfApprove
  <2>. DEFINE new == [reviewer |-> reviewed_by, actor |-> user]
  <2>1. ApprovalsGain(c, new) /\ Pending(c) /\ DutiesSeparated(c, user)
    BY <1>4, ApprovalStep
  <2>2. Separated(c) /\ change_requests[c] # NoCR
    BY <2>1 DEF EvidenceInv, Pending, NoCR
  <2>3. new.actor = user
    OBVIOUS
  <2>. HIDE DEF new
  <2>. QED BY <2>1, <2>2, <2>3 DEF ApprovalsGain, Pending, DutiesSeparated, Separated
<1>5. ASSUME NEW c \in CRs, NEW user \in People, NEW reviewed_by \in People,
             \/ ApproveMore(c, user, reviewed_by)
             \/ \E channel \in Channels : ApproveUnpublished(c, user, reviewed_by, channel)
      PROVE  Good(d)
  <2>1. /\ RecordApproval(c, user, reviewed_by)
        /\ UNCHANGED <<change_requests, spec_versions>>
    BY <1>5 DEF ApproveMore, ApproveUnpublished
  <2>2. CASE d = c
    BY <1>4, <2>1, <2>2 DEF Separated, Documented
  <2>3. CASE d # c
    BY <1>4, <1>k, <2>1, <2>3
  <2>. QED BY <2>2, <2>3
<1>6. ASSUME NEW c \in CRs, NEW user \in People, NEW reviewed_by \in People,
             NEW channel \in Channels, ApprovePublish(c, user, reviewed_by, channel)
      PROVE  Good(d)
  <2>. DEFINE s == change_requests[c].spec
              v == NewVersion(c, channel)
              content == change_requests[c].proposed_content
              entry == [version |-> v, content |-> content, channel |-> channel]
  <2>1. RecordApproval(c, user, reviewed_by)
    BY <1>6 DEF ApprovePublish
  <2>2. /\ s \in SpecIds /\ change_requests[c] \in CRRow
        /\ HistoryGains(s, entry)
        /\ RequestBecomes(c, Approved(c, v)) /\ Approved(c, v).spec = s
    BY <1>6, ApproveEffect
  <2>3. /\ Approved(c, v).proposed_by = change_requests[c].proposed_by
        /\ Approved(c, v).proposed_content = content
        /\ Approved(c, v).resulting_version = {v}
    BY <2>2 DEF CRRow, Approved
  <2>4. entry.version = v /\ entry.content = content
    OBVIOUS
  <2>5. CASE d = c
    <3>. HIDE DEF s, v, content, entry
    <3>1. Separated(d)'
      BY <1>4, <2>1, <2>2, <2>3, <2>5 DEF Separated, RequestBecomes
    <3>2. Documented(d)'
      BY <1>4, <2>1, <2>2, <2>3, <2>4, <2>5 DEF Documented, RequestBecomes, HistoryGains
    <3>. QED BY <3>1, <3>2
  <2>6. CASE d # c
    <3>. HIDE DEF s, v, content, entry
    <3>1. Grows
      BY <1>g, <2>2
    <3>. QED BY <1>4, <1>k, <2>1, <2>2, <2>6, <3>1 DEF RequestBecomes
  <2>. QED BY <2>5, <2>6
<1>7. ASSUME NEW c \in CRs, Reject(c) PROVE Good(d)
  <2>. DEFINE cr == [change_requests[c] EXCEPT !.status = "rejected"]
  <2>1. /\ change_requests[c] \in CRRow /\ change_requests[c] # NoCR
        /\ RequestBecomes(c, cr) /\ change_requests'[c].status = "rejected"
        /\ UNCHANGED <<review_approvals, spec_versions>>
    BY <1>7, RejectEffect DEF Reject
  <2>2. cr.proposed_by = change_requests[c].proposed_by
    BY <2>1 DEF CRRow
  <2>3. CASE d = c
    <3>. HIDE DEF cr
    <3>1. Documented(d)'
      BY <2>1, <2>3 DEF Documented
    <3>2. change_requests'[c] = cr /\ review_approvals' = review_approvals
      BY <2>1 DEF RequestBecomes
    <3>3. Separated(d)'
      BY <1>0, <2>1, <2>2, <2>3, <3>2 DEF Separated
    <3>. QED BY <3>1, <3>3
  <2>4. CASE d # c
    BY <1>k, <2>1, <2>4 DEF RequestBecomes
  <2>. QED BY <2>3, <2>4
<1>8. ASSUME NEW s \in SpecIds, NEW beta \in spec_versions[s], Promote(s, beta) PROVE Good(d)
  <2>1. PICK row : HistoryGains(s, row)
    BY <1>8, PromoteEffect
  <2>2. Grows
    BY <1>g, <2>1
  <2>. QED BY <1>8, <1>1, <2>2 DEF Promote
<1>9. ASSUME Purge PROVE Good(d)
  <2>1. CASE change_requests[d] # NoCR /\ change_requests[d].spec \in expired
    BY <1>9, <2>1 DEF Purge, OfExpired, Separated, Documented, NoCR
  <2>2. CASE ~(change_requests[d] # NoCR /\ change_requests[d].spec \in expired)
    <3>1. change_requests'[d] = change_requests[d] /\ review_approvals'[d] = review_approvals[d]
      BY <1>9, <2>2 DEF Purge, OfExpired
    <3>2. change_requests[d].status = "approved" =>
            spec_versions'[change_requests[d].spec] = spec_versions[change_requests[d].spec]
      BY <1>9, <2>2 DEF Purge, OfExpired, Base, TypeOK, CRRow, NoCR
    <3>. QED BY <1>0, <3>1, <3>2 DEF Separated, Documented
  <2>. QED BY <2>1, <2>2
<1>10. ASSUME UNCHANGED <<change_requests, review_approvals, spec_versions>> PROVE Good(d)
  BY <1>10, <1>1
<1>11. ASSUME \/ \E s \in SpecIds, content \in Contents : CreateSpec(s, content) \/ EditDraft(s, content)
              \/ \E s \in SpecIds : Delete(s) \/ Restore(s) \/ RetentionEnds(s) \/ Serve(s)
              \/ \E f \in Filenames, q \in Policies : SetPolicy(f, q)
              \/ UNCHANGED vars
       PROVE  UNCHANGED <<change_requests, review_approvals, spec_versions>>
  BY <1>11 DEF CreateSpec, EditDraft, Delete, Restore, RetentionEnds, Serve, SetPolicy, tables, vars
<1>. QED
  BY <1>2, <1>3, <1>5, <1>6, <1>7, <1>8, <1>9, <1>10, <1>11 DEF Next

-----------------------------------------------------------------------------
(* Nothing but the purge of an expired spec removes or rewrites evidence.  *)

Purged(s) == s \in expired /\ specs'[s] = NoSpec

LEMMA ImmutableStep ==
  ASSUME LifecycleAssumption, Base, Next
  PROVE  /\ \A s \in SpecIds : spec_versions[s] \subseteq spec_versions'[s] \/ Purged(s)
         /\ \A c \in CRs :
              change_requests[c].status \in {"approved", "rejected"} =>
                \/ /\ change_requests'[c] = change_requests[c]
                   /\ review_approvals'[c] = review_approvals[c]
                \/ Purged(change_requests[c].spec)
<1>. USE LifecycleAssumption
<1>. DEFINE Grows == \A s \in SpecIds : spec_versions[s] \subseteq spec_versions'[s]
            Decided(c) == change_requests[c].status \in {"approved", "rejected"}
            Same(c) == /\ change_requests'[c] = change_requests[c]
                       /\ review_approvals'[c] = review_approvals[c]
            Kept == \A c \in CRs : Decided(c) => Same(c)
            Goal == /\ \A s \in SpecIds : spec_versions[s] \subseteq spec_versions'[s] \/ Purged(s)
                    /\ \A c \in CRs : Decided(c) => Same(c) \/ Purged(change_requests[c].spec)
<1>. SUFFICES Goal
  OBVIOUS
<1>k. Grows /\ Kept => Goal
  OBVIOUS
<1>g. ASSUME NEW s \in SpecIds, NEW row, HistoryGains(s, row) PROVE Grows
  BY <1>g DEF HistoryGains
<1>u. spec_versions' = spec_versions => Grows
  OBVIOUS
<1>v. UNCHANGED <<change_requests, review_approvals>> => Kept
  OBVIOUS
<1>1. ASSUME NEW s \in SpecIds, PublishDraft(s) PROVE Goal
  <2>1. Grows
    BY <1>1, <1>g, PublishDraftEffect
  <2>. QED BY <1>1, <1>k, <1>v, <2>1 DEF PublishDraft
<1>2. ASSUME NEW s \in SpecIds, NEW c \in CRs, NEW author \in People,
             NEW delta \in VersionDeltas, NEW content \in Contents,
             SubmitReview(s, c, author, delta, content)
      PROVE  Goal
  <2>1. /\ RequestBecomes(c, change_requests'[c]) /\ change_requests[c] = NoCR
        /\ UNCHANGED <<review_approvals, spec_versions>>
    BY <1>2, SubmitEffect DEF SubmitReview
  <2>2. Kept
    BY <2>1 DEF RequestBecomes, NoCR
  <2>. QED BY <1>k, <1>u, <2>1, <2>2
<1>3. ASSUME NEW c \in CRs, NEW user \in People, NEW reviewed_by \in People,
             RecordApproval(c, user, reviewed_by)
      PROVE  /\ \A e \in CRs : e # c => review_approvals'[e] = review_approvals[e]
             /\ ~Decided(c)
  BY <1>3, ApprovalStep DEF ApprovalsGain, Pending
<1>4. ASSUME NEW c \in CRs, NEW user \in People, NEW reviewed_by \in People,
             \/ ApproveMore(c, user, reviewed_by)
             \/ \E channel \in Channels : ApproveUnpublished(c, user, reviewed_by, channel)
      PROVE  Goal
  <2>1. /\ RecordApproval(c, user, reviewed_by)
        /\ UNCHANGED <<change_requests, spec_versions>>
    BY <1>4 DEF ApproveMore, ApproveUnpublished
  <2>2. Kept
    BY <1>3, <2>1
  <2>. QED BY <1>k, <1>u, <2>1, <2>2
<1>5. ASSUME NEW c \in CRs, NEW user \in People, NEW reviewed_by \in People,
             NEW channel \in Channels, ApprovePublish(c, user, reviewed_by, channel)
      PROVE  Goal
  <2>. DEFINE s == change_requests[c].spec
              v == NewVersion(c, channel)
              entry == [version |-> v, content |-> change_requests[c].proposed_content,
                        channel |-> channel]
  <2>1. RecordApproval(c, user, reviewed_by)
    BY <1>5 DEF ApprovePublish
  <2>2. /\ s \in SpecIds
        /\ HistoryGains(s, entry)
        /\ RequestBecomes(c, Approved(c, v))
    BY <1>5, ApproveEffect
  <2>. HIDE DEF s, v, entry
  <2>3. Grows
    BY <1>g, <2>2
  <2>4. Kept
    BY <1>3, <2>1, <2>2 DEF RequestBecomes
  <2>. QED BY <1>k, <2>3, <2>4
<1>6. ASSUME NEW c \in CRs, Reject(c) PROVE Goal
  <2>1. /\ change_requests[c].status = "pending"
        /\ RequestBecomes(c, [change_requests[c] EXCEPT !.status = "rejected"])
        /\ UNCHANGED <<review_approvals, spec_versions>>
    BY <1>6, RejectEffect DEF Reject
  <2>2. Kept
    BY <2>1 DEF RequestBecomes
  <2>. QED BY <1>k, <1>u, <2>1, <2>2
<1>7. ASSUME NEW s \in SpecIds, NEW beta \in spec_versions[s], Promote(s, beta) PROVE Goal
  <2>1. PICK row : HistoryGains(s, row)
    BY <1>7, PromoteEffect
  <2>2. Grows
    BY <1>g, <2>1
  <2>. QED BY <1>7, <1>k, <1>v, <2>2 DEF Promote
<1>8. ASSUME Purge PROVE Goal
  <2>1. \A s \in SpecIds : s \in expired => Purged(s)
    BY <1>8 DEF Purge, OfExpired, Purged
  <2>2. ASSUME NEW s \in SpecIds
        PROVE  spec_versions[s] \subseteq spec_versions'[s] \/ Purged(s)
    BY <1>8, <2>1 DEF Purge, OfExpired
  <2>3. ASSUME NEW c \in CRs, Decided(c)
        PROVE  Same(c) \/ Purged(change_requests[c].spec)
    <3>1. change_requests[c].spec \in SpecIds
      BY <2>3 DEF Base, TypeOK, CRRow, NoCR
    <3>2. CASE change_requests[c].spec \in expired
      BY <2>1, <3>1, <3>2
    <3>3. CASE change_requests[c].spec \notin expired
      BY <1>8, <3>3 DEF Purge, OfExpired
    <3>. QED BY <3>2, <3>3
  <2>. QED BY <2>2, <2>3
<1>9. ASSUME \/ \E s \in SpecIds, content \in Contents : CreateSpec(s, content) \/ EditDraft(s, content)
             \/ \E s \in SpecIds : Delete(s) \/ Restore(s) \/ RetentionEnds(s) \/ Serve(s)
             \/ \E f \in Filenames, q \in Policies : SetPolicy(f, q)
      PROVE  Goal
  <2>1. UNCHANGED <<change_requests, review_approvals, spec_versions>>
    BY <1>9 DEF CreateSpec, EditDraft, Delete, Restore, RetentionEnds, Serve, SetPolicy, tables
  <2>. QED BY <1>k, <1>u, <1>v, <2>1
<1>. QED BY <1>1, <1>2, <1>4, <1>5, <1>6, <1>7, <1>8, <1>9 DEF Next

-----------------------------------------------------------------------------
(* The inductive invariant and the theorems.                               *)

LifecycleInv ==
  /\ Base
  /\ HeadIsRecorded
  /\ ReviewIsNotStranded
  /\ FilenameIsReserved
  /\ EvidenceInv

LEMMA InitLifecycleInv == ASSUME LifecycleAssumption, Init PROVE LifecycleInv
<1>1. \A s \in SpecIds : specs[s].status = "absent" /\ specs[s] = NoSpec
  BY DEF Init, NoSpec
<1>2. \A c \in CRs : change_requests[c] = NoCR /\ change_requests[c].status = "none"
  BY DEF Init, NoCR
<1>. QED
  BY <1>1, <1>2, InitBase DEF LifecycleInv, HeadIsRecorded, Governed, ReviewIsNotStranded,
     FilenameIsReserved, EvidenceInv, Documented

(***************************************************************************)
(* The inductive invariant of the specification engine.  Its parts lean on *)
(* Base alone: rejecting or approving a request writes to the spec the     *)
(* request names, so that spec must exist and be governed.                 *)
(***************************************************************************)
THEOREM LifecycleCorrect == Spec => []LifecycleInv
<1>1. Init => LifecycleInv
  BY InitLifecycleInv, LifecycleAssumption
<1>2. LifecycleInv /\ [Next]_vars => LifecycleInv'
  BY BaseStep, HeadRecordedStep, StrandedStep, NamesStep, EvidenceStep, LifecycleAssumption
     DEF LifecycleInv
<1>. QED BY <1>1, <1>2, PTL DEF Spec

(***************************************************************************)
(* What is published can always be reproduced from the version history.    *)
(***************************************************************************)
THEOREM HeadsAreRecorded == Spec => []HeadIsRecorded
<1>1. LifecycleInv => HeadIsRecorded
  BY DEF LifecycleInv
<1>. QED BY <1>1, LifecycleCorrect, PTL

(***************************************************************************)
(* No order of submissions, approvals, rejections, promotions, deletions   *)
(* and purges leaves a spec in review with nothing left to decide.         *)
(***************************************************************************)
THEOREM ReviewsAreNotStranded == Spec => []ReviewIsNotStranded
<1>1. LifecycleInv => ReviewIsNotStranded
  BY DEF LifecycleInv
<1>. QED BY <1>1, LifecycleCorrect, PTL

(***************************************************************************)
(* A filename is never held by two specs, deleted ones included.           *)
(***************************************************************************)
THEOREM FilenamesAreReserved == Spec => []FilenameIsReserved
<1>1. LifecycleInv => FilenameIsReserved
  BY DEF LifecycleInv
<1>. QED BY <1>1, LifecycleCorrect, PTL

(***************************************************************************)
(* Every approved request carries its evidence: approvals, none of them    *)
(* its proposer's, and the text it published under the version it got.     *)
(***************************************************************************)
THEOREM ApprovalsHaveEvidence == Spec => []ApprovalEvidence
<1>1. LifecycleInv => ApprovalEvidence
  BY EvidenceInvImplies DEF LifecycleInv
<1>. QED BY <1>1, LifecycleCorrect, PTL

(***************************************************************************)
(* Versions are append-only and decided requests final, but for the purge  *)
(* of a spec whose retention has ended.                                    *)
(***************************************************************************)
THEOREM EvidenceNeverChanges == Spec => EvidenceIsImmutable
<1>. DEFINE Step ==
       /\ \A s \in SpecIds :
            \/ spec_versions[s] \subseteq spec_versions'[s]
            \/ s \in expired /\ specs'[s] = NoSpec
       /\ \A c \in CRs :
            change_requests[c].status \in {"approved", "rejected"} =>
              \/ /\ change_requests'[c] = change_requests[c]
                 /\ review_approvals'[c] = review_approvals[c]
              \/ change_requests[c].spec \in expired /\ specs'[change_requests[c].spec] = NoSpec
<1>1. Base /\ [Next]_vars => [Step]_vars
  BY ImmutableStep, LifecycleAssumption DEF Purged
<1>2. Spec => []Base
  BY TypeCorrect
<1>. QED BY <1>1, <1>2, PTL DEF Spec, EvidenceIsImmutable

-----------------------------------------------------------------------------
(* Without betas: the history of a spec is a line.                         *)

LEMMA BumpGoesUp ==
  ASSUME NEW v \in Version, NEW delta \in Deltas
  PROVE  LET w == Bump(v, delta)
         IN  /\ w \in Version /\ w.beta = 0 /\ Precedes(v, w)
             /\ w.major = IF delta = "major" THEN v.major + 1 ELSE v.major
             /\ delta = "minor" => w.minor = v.minor + 1
             /\ delta = "patch" => w.minor = v.minor
<1>1. v.major \in Nat /\ v.minor \in Nat /\ v.patch \in Nat
  BY DEF Version
<1>2. Bump(v, delta) \in Version
  BY VersionTypes
<1>3. CASE delta = "major"
  BY <1>1, <1>2, <1>3 DEF Bump, Release, Precedes
<1>4. CASE delta = "minor"
  <2>1. Bump(v, delta) = Release(v.major, v.minor + 1, 0)
    BY <1>4 DEF Bump
  <2>. QED BY <1>1, <1>2, <1>4, <2>1 DEF Release, Precedes
<1>5. CASE delta = "patch"
  <2>1. Bump(v, delta) = Release(v.major, v.minor, v.patch + 1)
    BY <1>5 DEF Bump
  <2>. QED BY <1>1, <1>2, <1>5, <2>1 DEF Release, Precedes
<1>. QED BY <1>3, <1>4, <1>5 DEF Deltas

\* An approved request of s asked for delta and was released after v and no later than w.
BumpBetween(s, v, w, delta) ==
  \E c \in CRs :
    /\ change_requests[c].status = "approved" /\ change_requests[c].spec = s
    /\ change_requests[c].version_delta = delta
    /\ \E x \in change_requests[c].resulting_version : Precedes(v, x) /\ ~Precedes(w, x)

\* The parts of two versions differ as the requests between them asked for.
Graded(s, v, w) ==
  /\ BumpBetween(s, v, w, "major") <=> v.major # w.major
  /\ v.major = w.major => (BumpBetween(s, v, w, "minor") <=> v.minor # w.minor)

LinearAt(s) ==
  /\ \A row \in spec_versions[s] :
       /\ row.channel = "stable" /\ row.version.major > 0
       /\ ~Precedes(specs[s].current_version, row.version)
  /\ \A c \in CRs :
       change_requests[c].status = "approved" /\ change_requests[c].spec = s =>
         \A x \in change_requests[c].resulting_version :
           \E row \in spec_versions[s] : row.version = x
  /\ \A old, new \in spec_versions[s] :
       Precedes(old.version, new.version) => Graded(s, old.version, new.version)

LinearInv == \A s \in SpecIds : LinearAt(s)

LEMMA LinearImplies ==
  ASSUME LifecycleAssumption, Base, LinearInv
  PROVE  HistoryIsLinear
<1>1. HeadIsNewest
  BY DEF HeadIsNewest, LinearInv, LinearAt
<1>2. ASSUME NEW s \in SpecIds, NEW old \in spec_versions[s], NEW new \in spec_versions[s],
             Precedes(old.version, new.version)
      PROVE  LET between == {c \in CRs :
                      /\ change_requests[c].status = "approved" /\ change_requests[c].spec = s
                      /\ \E v \in change_requests[c].resulting_version :
                           Precedes(old.version, v) /\ ~Precedes(new.version, v)}
                 bumps == {change_requests[c].version_delta : c \in between}
             IN  /\ DriftSeverity(old.version, new.version) =
                      CASE "major" \in bumps -> "major"
                        [] "major" \notin bumps /\ "minor" \in bumps -> "minor"
                        [] OTHER -> "patch"
                 /\ SatisfiesCaret(new.version, old.version) <=> "major" \notin bumps
  <2>. DEFINE between == {c \in CRs :
                      /\ change_requests[c].status = "approved" /\ change_requests[c].spec = s
                      /\ \E v \in change_requests[c].resulting_version :
                           Precedes(old.version, v) /\ ~Precedes(new.version, v)}
              bumps == {change_requests[c].version_delta : c \in between}
  <2>1. \A delta : delta \in bumps <=> BumpBetween(s, old.version, new.version, delta)
    BY DEF BumpBetween
  <2>2. /\ "major" \in bumps <=> old.version.major # new.version.major
        /\ old.version.major = new.version.major =>
             ("minor" \in bumps <=> old.version.minor # new.version.minor)
    BY <1>2, <2>1 DEF LinearInv, LinearAt, Graded
  <2>. HIDE DEF bumps
  <2>3. DriftSeverity(old.version, new.version) =
          CASE "major" \in bumps -> "major"
            [] "major" \notin bumps /\ "minor" \in bumps -> "minor"
            [] OTHER -> "patch"
    <3>1. CASE "major" \in bumps
      BY <2>2, <3>1 DEF DriftSeverity
    <3>2. CASE "major" \notin bumps /\ "minor" \in bumps
      BY <2>2, <3>2 DEF DriftSeverity
    <3>3. CASE "major" \notin bumps /\ "minor" \notin bumps
      BY <2>2, <3>3 DEF DriftSeverity
    <3>. QED BY <3>1, <3>2, <3>3
  <2>4. SatisfiesCaret(new.version, old.version) <=> "major" \notin bumps
    <3>1. old.version \in Version /\ new.version \in Version /\ old.version.major > 0
      BY DEF Base, TypeOK, VersionRow, LinearInv, LinearAt
    <3>. QED BY <1>2, <2>2, <3>1 DEF SatisfiesCaret, Precedes, Version
  <2>. QED BY <2>3, <2>4 DEF bumps
<1>3. SeverityIsGravestBump
  BY <1>2 DEF SeverityIsGravestBump
<1>. QED BY <1>1, <1>3 DEF HistoryIsLinear

\* Versions are typed wherever they are stored.
LEMMA VersionsTyped ==
  ASSUME Base, NEW s \in SpecIds
  PROVE  /\ \A row \in spec_versions[s] : row.version \in Version
         /\ \A c \in CRs : change_requests[c].status = "approved" =>
              /\ change_requests[c].resulting_version \subseteq Version
              /\ change_requests[c].version_delta \in Deltas
         /\ specs[s] # NoSpec => specs[s].current_version \in Version
BY DEF Base, TypeOK, VersionRow, CRRow, SpecRow, NoCR

\* A step that leaves history, head and approved requests of t as they are.
LEMMA LinearKept ==
  ASSUME NEW t \in SpecIds, LinearAt(t), spec_versions'[t] = spec_versions[t],
         spec_versions[t] # {} => specs'[t].current_version = specs[t].current_version,
         \A c \in CRs :
           LET before == change_requests[c].status = "approved" /\ change_requests[c].spec = t
               after == change_requests'[c].status = "approved" /\ change_requests'[c].spec = t
           IN  (before \/ after) => change_requests'[c] = change_requests[c]
  PROVE  LinearAt(t)'
<1>1. \A v, w, delta : BumpBetween(t, v, w, delta)' <=> BumpBetween(t, v, w, delta)
  <2>. SUFFICES ASSUME NEW v, NEW w, NEW delta
                PROVE  BumpBetween(t, v, w, delta)' <=> BumpBetween(t, v, w, delta)
    OBVIOUS
  <2>. QED BY DEF BumpBetween
<1>2. \A v, w : Graded(t, v, w)' <=> Graded(t, v, w)
  BY <1>1 DEF Graded
<1>. QED BY <1>2 DEF LinearAt

\* The release of an approved request continues the line.
LEMMA LinearGrows ==
  ASSUME LifecycleAssumption, Channels \subseteq {"stable"}, Base, NEW t \in SpecIds, LinearAt(t),
         HeadIsRecorded, NEW c \in CRs, NEW user \in People, NEW reviewed_by \in People,
         NEW channel \in Channels, ApprovePublish(c, user, reviewed_by, channel),
         change_requests[c].spec = t
  PROVE  LinearAt(t)'
<1>0. PICK head, delta, content, v :
        /\ head = specs[t].current_version
        /\ delta = change_requests[c].version_delta
        /\ content = change_requests[c].proposed_content
        /\ v = NewVersion(c, channel)
  OBVIOUS
<1>. DEFINE entry == [version |-> v, content |-> content, channel |-> channel]
<1>1. /\ specs[t] \in SpecRow /\ specs[t] # NoSpec /\ Governed(t)
      /\ change_requests[c] \in CRRow /\ change_requests[c].status = "pending"
      /\ channel = "stable" => SpecBecomes(t, Row(t, "published", v, content))
      /\ HistoryGains(t, entry)
      /\ RequestBecomes(c, Approved(c, v))
  BY <1>0, ApproveEffect
<1>2. channel = "stable" /\ v = Bump(head, delta) /\ delta \in Deltas /\ head \in Version
  BY <1>0, <1>1 DEF NewVersion, CRRow, SpecRow
<1>3. specs'[t].current_version = v
  BY <1>1, <1>2 DEF SpecBecomes, Row
<1>4. entry.version = v /\ entry.channel = "stable"
  BY <1>2
<1>5. spec_versions'[t] = spec_versions[t] \cup {entry}
  BY <1>1 DEF HistoryGains
<1>6. PICK top \in spec_versions[t] : top.version = head
  BY <1>0, <1>1 DEF HeadIsRecorded
<1>7. /\ change_requests'[c].status = "approved" /\ change_requests'[c].spec = t
      /\ change_requests'[c].version_delta = delta /\ change_requests'[c].resulting_version = {v}
      /\ \A d \in CRs : d # c => change_requests'[d] = change_requests[d]
  <2>1. /\ Approved(c, v).status = "approved" /\ Approved(c, v).spec = t
        /\ Approved(c, v).version_delta = delta /\ Approved(c, v).resulting_version = {v}
    BY <1>0, <1>1 DEF Approved, CRRow
  <2>. QED BY <1>1, <2>1 DEF RequestBecomes
<1>8. /\ v \in Version /\ Precedes(head, v)
      /\ v.major = IF delta = "major" THEN head.major + 1 ELSE head.major
      /\ delta = "minor" => v.minor = head.minor + 1
      /\ delta = "patch" => v.minor = head.minor
  BY <1>2, BumpGoesUp
<1>. HIDE DEF entry
\* Everything before is not above the head, so the new version is above it all.
<1>9. ASSUME NEW w \in Version, ~Precedes(head, w)
      PROVE  Precedes(w, v)
  BY <1>2, <1>8, <1>9 DEF Precedes, Version
<1>10. \A row \in spec_versions[t] : row.version \in Version /\ ~Precedes(head, row.version)
  BY <1>0, VersionsTyped DEF LinearAt
<1>11. ASSUME NEW d \in CRs, change_requests[d].status = "approved", change_requests[d].spec = t,
              NEW x \in change_requests[d].resulting_version
       PROVE  x \in Version /\ ~Precedes(head, x)
  BY <1>0, <1>10, <1>11 DEF LinearAt
<1>12. ASSUME NEW old \in Version, NEW new \in Version, ~Precedes(head, new), NEW which
       PROVE  BumpBetween(t, old, new, which)' <=> BumpBetween(t, old, new, which)
  <2>1. Precedes(new, v)
    BY <1>9, <1>12
  <2>. QED BY <1>1, <1>7, <2>1 DEF BumpBetween
<1>13. ASSUME NEW old \in Version, Precedes(old, v), NEW which
       PROVE  BumpBetween(t, old, v, which)' <=> (which = delta \/ BumpBetween(t, old, head, which))
  <2>1. ~Precedes(v, v)
    BY <1>8 DEF Precedes, Version
  <2>2. \A x \in Version : ~Precedes(head, x) => ~Precedes(v, x)
    BY <1>9, <1>8 DEF Precedes, Version
  <2>3. ASSUME BumpBetween(t, old, v, which)'
        PROVE  which = delta \/ BumpBetween(t, old, head, which)
    <3>1. PICK d \in CRs :
            /\ change_requests'[d].status = "approved" /\ change_requests'[d].spec = t
            /\ change_requests'[d].version_delta = which
            /\ \E x \in change_requests'[d].resulting_version : Precedes(old, x) /\ ~Precedes(v, x)
      BY <2>3 DEF BumpBetween
    <3>2. CASE d = c
      BY <1>7, <3>1, <3>2
    <3>3. CASE d # c
      BY <1>7, <1>11, <3>1, <3>3 DEF BumpBetween
    <3>. QED BY <3>2, <3>3
  <2>4. ASSUME which = delta
        PROVE  BumpBetween(t, old, v, which)'
    <3>1. Precedes(old, v) /\ v \in change_requests'[c].resulting_version
      BY <1>7, <1>13
    <3>. QED BY <1>7, <2>1, <2>4, <3>1 DEF BumpBetween
  <2>5. ASSUME BumpBetween(t, old, head, which)
        PROVE  BumpBetween(t, old, v, which)'
    <3>1. PICK d \in CRs :
            /\ change_requests[d].status = "approved" /\ change_requests[d].spec = t
            /\ change_requests[d].version_delta = which
            /\ \E x \in change_requests[d].resulting_version : Precedes(old, x) /\ ~Precedes(head, x)
      BY <2>5 DEF BumpBetween
    <3>0. PICK x \in change_requests[d].resulting_version : Precedes(old, x) /\ ~Precedes(head, x)
      BY <3>1
    <3>2. d # c /\ ~Precedes(v, x)
      BY <1>1, <1>11, <2>2, <3>1, <3>0
    <3>. QED BY <1>7, <3>1, <3>0, <3>2 DEF BumpBetween
  <2>. QED BY <2>3, <2>4, <2>5
<1>14. \A row \in spec_versions'[t] :
         /\ row.channel = "stable" /\ row.version.major > 0
         /\ ~Precedes(v, row.version)
  <2>1. head.major > 0
    BY <1>6 DEF LinearAt
  <2>2. v.major > 0 /\ ~Precedes(v, v)
    BY <1>2, <1>8, <2>1 DEF Precedes, Version
  <2>3. \A w \in Version : ~Precedes(head, w) => ~Precedes(v, w)
    BY <1>8, <1>9 DEF Precedes, Version
  <2>. QED BY <1>4, <1>5, <1>10, <2>2, <2>3 DEF LinearAt
<1>15. ASSUME NEW d \in CRs, change_requests'[d].status = "approved", change_requests'[d].spec = t,
              NEW x \in change_requests'[d].resulting_version
       PROVE  \E row \in spec_versions'[t] : row.version = x
  <2>1. CASE d = c
    BY <1>4, <1>5, <1>7, <1>15, <2>1
  <2>2. CASE d # c
    BY <1>5, <1>7, <1>15, <2>2 DEF LinearAt
  <2>. QED BY <2>1, <2>2
<1>16. ASSUME NEW old \in Version, ~Precedes(head, old), Precedes(old, head) => Graded(t, old, head)
       PROVE  Graded(t, old, v)'
  <2>1. Precedes(old, v)
    BY <1>9, <1>16
  <2>2. ~Precedes(old, head) => \A which : ~BumpBetween(t, old, head, which)
    <3>1. ASSUME ~Precedes(old, head), NEW x \in Version, Precedes(old, x)
          PROVE  Precedes(head, x)
      BY <1>2, <1>16, <3>1 DEF Precedes, Version
    <3>. QED BY <1>11, <3>1 DEF BumpBetween
  <2>3. ~Precedes(old, head) => old.major = head.major /\ old.minor = head.minor
    BY <1>2, <1>16 DEF Precedes, Version
  <2>4. Precedes(old, head) =>
          /\ BumpBetween(t, old, head, "major") <=> old.major # head.major
          /\ old.major = head.major =>
               (BumpBetween(t, old, head, "minor") <=> old.minor # head.minor)
          /\ old.major < head.major \/ (old.major = head.major /\ old.minor <= head.minor)
    BY <1>2, <1>16 DEF Graded, Precedes, Version
  <2>5. /\ BumpBetween(t, old, v, "major")' <=> ("major" = delta \/ BumpBetween(t, old, head, "major"))
        /\ BumpBetween(t, old, v, "minor")' <=> ("minor" = delta \/ BumpBetween(t, old, head, "minor"))
    BY <1>13, <2>1
  <2>6. /\ old.major \in Nat /\ old.minor \in Nat /\ head.major \in Nat /\ head.minor \in Nat
        /\ delta \in {"major", "minor", "patch"}
    BY <1>2 DEF Version, Deltas
  <2>7. /\ BumpBetween(t, old, v, "major")' <=> old.major # v.major
        /\ old.major = v.major => (BumpBetween(t, old, v, "minor")' <=> old.minor # v.minor)
    <3>1. CASE Precedes(old, head)
      BY <1>8, <2>4, <2>5, <2>6, <3>1
    <3>2. CASE ~Precedes(old, head)
      BY <1>8, <2>2, <2>3, <2>5, <2>6, <3>2
    <3>. QED BY <3>1, <3>2
  <2>. QED BY <2>7 DEF Graded
<1>17. ASSUME NEW old \in spec_versions'[t], NEW new \in spec_versions'[t],
              Precedes(old.version, new.version)
       PROVE  Graded(t, old.version, new.version)'
  <2>1. old \in spec_versions[t]
    BY <1>4, <1>5, <1>14, <1>17
  <2>2. old.version \in Version /\ ~Precedes(head, old.version)
    BY <1>10, <2>1
  <2>3. CASE new \in spec_versions[t]
    <3>1. new.version \in Version /\ ~Precedes(head, new.version)
      BY <1>10, <2>3
    <3>2. Graded(t, old.version, new.version)
      BY <1>17, <2>1, <2>3 DEF LinearAt
    <3>. QED BY <1>12, <2>2, <3>1, <3>2 DEF Graded
  <2>4. CASE new = entry
    <3>1. Precedes(old.version, head) => Graded(t, old.version, head)
      BY <1>6, <2>1 DEF LinearAt
    <3>2. Graded(t, old.version, v)'
      BY <1>16, <2>2, <3>1
    <3>. QED BY <1>4, <2>4, <3>2
  <2>. QED BY <1>5, <1>17, <2>3, <2>4
<1>. QED BY <1>3, <1>14, <1>15, <1>17 DEF LinearAt

LEMMA LinearStep ==
  ASSUME LifecycleAssumption, Channels \subseteq {"stable"}, Base, HeadIsRecorded, LinearInv,
         [Next]_vars
  PROVE  LinearInv'
<1>. USE LifecycleAssumption
<1>. SUFFICES ASSUME NEW t \in SpecIds PROVE LinearAt(t)'
  BY DEF LinearInv
<1>0. LinearAt(t)
  BY DEF LinearInv
<1>. DEFINE Approves(d) == change_requests[d].status = "approved" /\ change_requests[d].spec = t
            SameRequests == \A d \in CRs :
              (Approves(d) \/ Approves(d)') => change_requests'[d] = change_requests[d]
            SameHead == spec_versions[t] # {} =>
              specs'[t].current_version = specs[t].current_version
            Keeps == SameHead /\ SameRequests /\ spec_versions'[t] = spec_versions[t]
<1>k. Keeps => LinearAt(t)'
  BY <1>0, LinearKept
<1>v. ASSUME NEW s \in SpecIds, NEW row, SpecBecomes(s, row),
             ~Governed(s) \/ row.current_version = specs[s].current_version
      PROVE  SameHead
  BY <1>v DEF SpecBecomes, Base, DraftsAreUngoverned
<1>1. ASSUME NEW s \in SpecIds, NEW content \in Contents, CreateSpec(s, content)
      PROVE  LinearAt(t)'
  <2>. DEFINE row == [status |-> "draft", deleted |-> FALSE,
                      current_version |-> DraftVersion, content |-> content]
  <2>1. SpecBecomes(s, row) /\ ~Governed(s)
    BY <1>1, CreateEffect DEF Governed, NoSpec
  <2>. HIDE DEF row
  <2>2. SameHead
    BY <1>v, <2>1
  <2>. QED BY <1>1, <1>k, <2>2 DEF CreateSpec
<1>2. ASSUME NEW s \in SpecIds, NEW content \in Contents, EditDraft(s, content)
      PROVE  LinearAt(t)'
  <2>1. SpecBecomes(s, Row(s, "draft", specs[s].current_version, content)) /\ ~Governed(s)
    BY <1>2, EditEffect DEF Governed
  <2>2. SameHead
    BY <1>v, <2>1
  <2>. QED BY <1>2, <1>k, <2>2 DEF EditDraft
<1>3. ASSUME NEW s \in SpecIds, PublishDraft(s)
      PROVE  LinearAt(t)'
  <2>. DEFINE entry == [version |-> FirstVersion, content |-> specs[s].content,
                        channel |-> "stable"]
  <2>1. /\ SpecBecomes(s, Row(s, "published", FirstVersion, specs[s].content))
        /\ HistoryGains(s, entry) /\ ~Governed(s)
        /\ change_requests' = change_requests
    BY <1>3, PublishDraftEffect DEF PublishDraft, Governed
  <2>2. CASE s # t
    <3>1. SameHead
      BY <1>v, <2>1
    <3>. QED BY <1>k, <2>1, <2>2, <3>1 DEF HistoryGains
  <2>3. CASE s = t
    <3>1. entry.version = FirstVersion /\ entry.channel = "stable"
      OBVIOUS
    <3>. HIDE DEF entry
    <3>2. spec_versions'[t] = {entry} /\ specs'[t].current_version = FirstVersion
      <4>1. spec_versions[t] = {}
        BY <2>1, <2>3 DEF Base, DraftsAreUngoverned
      <4>. QED BY <2>1, <2>3, <4>1 DEF HistoryGains, SpecBecomes, Row
    <3>3. \A d \in CRs : ~Approves(d)'
      <4>1. \A d \in CRs : ~Approves(d)
        BY <2>1, <2>3 DEF Base, DraftsAreUngoverned, NoCR
      <4>. QED BY <2>1, <4>1
    <3>4. FirstVersion.major > 0 /\ ~Precedes(FirstVersion, FirstVersion)
      BY DEF FirstVersion, Release, Precedes
    <3>. QED BY <3>1, <3>2, <3>3, <3>4 DEF LinearAt
  <2>. QED BY <2>2, <2>3
<1>4. ASSUME NEW s \in SpecIds, NEW c \in CRs, NEW author \in People,
             NEW delta \in VersionDeltas, NEW content \in Contents,
             SubmitReview(s, c, author, delta, content)
      PROVE  LinearAt(t)'
  <2>1. /\ SpecBecomes(s, Row(s, "pending_review", specs[s].current_version, specs[s].content))
        /\ RequestBecomes(c, change_requests'[c]) /\ change_requests'[c].status = "pending"
        /\ change_requests[c] = NoCR /\ spec_versions' = spec_versions
    BY <1>4, SubmitEffect DEF SubmitReview
  <2>2. SameHead
    BY <1>v, <2>1 DEF Row
  <2>3. SameRequests
    BY <2>1 DEF RequestBecomes, NoCR
  <2>. QED BY <1>k, <2>1, <2>2, <2>3
<1>5. ASSUME NEW c \in CRs, NEW user \in People, NEW reviewed_by \in People,
             NEW channel \in Channels, ApprovePublish(c, user, reviewed_by, channel)
      PROVE  LinearAt(t)'
  <2>1. CASE change_requests[c].spec = t
    BY <1>0, <1>5, <2>1, LinearGrows
  <2>2. CASE change_requests[c].spec # t
    <3>. DEFINE s == change_requests[c].spec
                v == NewVersion(c, channel)
                content == change_requests[c].proposed_content
                entry == [version |-> v, content |-> content, channel |-> channel]
    <3>1. /\ channel = "stable" => SpecBecomes(s, Row(s, "published", v, content))
          /\ HistoryGains(s, entry)
          /\ RequestBecomes(c, Approved(c, v)) /\ Approved(c, v).spec = s
      BY <1>5, ApproveEffect
    <3>. HIDE DEF v, content, entry
    <3>2. SameHead
      BY <2>2, <3>1 DEF SpecBecomes
    <3>3. SameRequests
      BY <2>2, <3>1 DEF RequestBecomes
    <3>4. spec_versions'[t] = spec_versions[t]
      BY <2>2, <3>1 DEF HistoryGains
    <3>. QED BY <1>k, <3>2, <3>3, <3>4
  <2>. QED BY <2>1, <2>2
<1>6. ASSUME NEW c \in CRs, Reject(c)
      PROVE  LinearAt(t)'
  <2>. DEFINE s == change_requests[c].spec
  <2>1. /\ s \in SpecIds
        /\ change_requests[c].status = "pending" /\ change_requests'[c].status = "rejected"
        /\ \/ SpecBecomes(s, Row(s, "published", specs[s].current_version, specs[s].content))
           \/ specs' = specs
        /\ \A d \in CRs : d # c => change_requests'[d] = change_requests[d]
    BY <1>6, RejectEffect DEF RequestBecomes
  <2>. HIDE DEF s
  <2>2. SameHead
    BY <1>v, <2>1 DEF Row
  <2>3. SameRequests
    BY <2>1
  <2>. QED BY <1>6, <1>k, <2>2, <2>3 DEF Reject
<1>7. ASSUME NEW s \in SpecIds, NEW beta \in spec_versions[s], Promote(s, beta)
      PROVE  FALSE
  BY <1>7 DEF Promote, LinearInv, LinearAt
<1>8. ASSUME NEW s \in SpecIds, Delete(s) \/ Restore(s)
      PROVE  LinearAt(t)'
  <2>1. PICK b : SpecBecomes(s, [status |-> specs[s].status, deleted |-> b,
                                 current_version |-> specs[s].current_version,
                                 content |-> specs[s].content])
    BY <1>8, DeleteEffect, RestoreEffect
  <2>2. SameHead
    BY <1>v, <2>1
  <2>. QED BY <1>8, <1>k, <2>2 DEF Delete, Restore
<1>9. ASSUME Purge
      PROVE  LinearAt(t)'
  <2>1. CASE t \in expired
    <3>1. spec_versions'[t] = {}
      BY <1>9, <2>1 DEF Purge, OfExpired
    <3>2. \A d \in CRs : ~Approves(d)'
      BY <1>9, <2>1 DEF Purge, OfExpired, NoCR
    <3>. QED BY <3>1, <3>2 DEF LinearAt
  <2>2. CASE t \notin expired
    <3>1. SameHead /\ spec_versions'[t] = spec_versions[t]
      BY <1>9, <2>2 DEF Purge, OfExpired
    <3>2. SameRequests
      BY <1>9, <2>2 DEF Purge, OfExpired, NoCR
    <3>. QED BY <1>k, <3>1, <3>2
  <2>. QED BY <2>1, <2>2
<1>10. ASSUME Quiet
       PROVE  LinearAt(t)'
  BY <1>10, <1>k, QuietEffect
<1>. QED
  BY <1>1, <1>2, <1>3, <1>4, <1>5, <1>6, <1>7, <1>8, <1>9, <1>10 DEF Next, Quiet

LEMMA InitLinear == ASSUME LifecycleAssumption, Init PROVE LinearInv
BY DEF Init, LinearInv, LinearAt, NoCR

(***************************************************************************)
(* On the stable channel alone the history of a spec is a line: nothing in *)
(* it is ahead of the head, the severity of the drift between two releases *)
(* is the gravest bump approved between them, and a caret pin breaks only  *)
(* on a major one.  The first part carries the second: a request that is   *)
(* approved extends the line at its end.                                   *)
(***************************************************************************)
THEOREM HistoriesAreLinear ==
  ASSUME Channels \subseteq {"stable"}
  PROVE  Spec => []HistoryIsLinear
<1>1. Init => LinearInv
  BY InitLinear, LifecycleAssumption
<1>2. LifecycleInv /\ LinearInv /\ [Next]_vars => LinearInv'
  BY LinearStep, LifecycleAssumption DEF LifecycleInv
<1>3. LifecycleInv /\ LinearInv => HistoryIsLinear
  BY LinearImplies, LifecycleAssumption DEF LifecycleInv
<1>. QED BY <1>1, <1>2, <1>3, LifecycleCorrect, PTL DEF Spec

-----------------------------------------------------------------------------
(* A request with all its approvals is published.                          *)

\* Also of deleted specs, which may be restored.
Unfinished(c) ==
  Pending(c) => Cardinality(review_approvals[c]) < RequiredApprovalCount(change_requests[c].spec)

UnfinishedInv == \A c \in CRs : Unfinished(c)

SamePolicies == \A p, q \in Policies : p.min_approvals = q.min_approvals

LEMMA RequiredIsFixed ==
  ASSUME LifecycleAssumption, Base, Base', SamePolicies, NEW s \in SpecIds
  PROVE  /\ RequiredApprovalCount(s) \in Nat \ {0}
         /\ RequiredApprovalCount(s)' = RequiredApprovalCount(s)
<1>1. policy[FilenameOf[s]] \in Policies /\ policy'[FilenameOf[s]] \in Policies
  BY DEF LifecycleAssumption, Base, TypeOK
<1>. QED BY <1>1 DEF LifecycleAssumption, SamePolicies, Policy, RequiredApprovalCount

LEMMA ApprovalRowsAreFinite ==
  ASSUME LifecycleAssumption
  PROVE  IsFiniteSet(ApprovalRow)
<1>. DEFINE row == [x \in People \X People |-> [reviewer |-> x[1], actor |-> x[2]]]
<1>1. IsFiniteSet(People \X People)
  BY FS_Product DEF LifecycleAssumption
<1>2. row \in [People \X People -> ApprovalRow]
  BY DEF ApprovalRow
<1>3. ASSUME NEW a \in ApprovalRow
      PROVE  \E x \in People \X People : row[x] = a
  <2>1. a = [reviewer |-> a.reviewer, actor |-> a.actor] /\ a.reviewer \in People /\ a.actor \in People
    BY DEF ApprovalRow
  <2>2. <<a.reviewer, a.actor>> \in People \X People
    BY <2>1
  <2>3. row[<<a.reviewer, a.actor>>] = a
    BY <2>1, <2>2
  <2>. QED BY <2>2, <2>3
<1>4. row \in Surjection(People \X People, ApprovalRow)
  BY <1>2, <1>3 DEF Surjection
<1>. HIDE DEF row
<1>. QED BY <1>1, <1>4, FS_Surjection

LEMMA UnfinishedStep ==
  ASSUME LifecycleAssumption, Channels \subseteq {"stable"}, Crashes = FALSE, SamePolicies,
         Base, LinearInv, UnfinishedInv, [Next]_vars
  PROVE  UnfinishedInv'
<1>. USE LifecycleAssumption
<1>. SUFFICES ASSUME NEW d \in CRs PROVE Unfinished(d)'
  BY DEF UnfinishedInv
<1>0. Base' /\ Unfinished(d)
  BY BaseStep DEF UnfinishedInv
<1>k. ASSUME Pending(d)' => Pending(d), review_approvals'[d] = review_approvals[d],
             Pending(d)' => change_requests'[d] = change_requests[d]
      PROVE  Unfinished(d)'
  <2>1. Pending(d) => change_requests[d].spec \in SpecIds
    BY PendingFacts
  <2>. QED BY <1>0, <1>k, <2>1, RequiredIsFixed DEF Unfinished, RequiredApprovalCount
<1>u. UNCHANGED <<change_requests, review_approvals>> => Unfinished(d)'
  BY <1>k DEF Pending
<1>1. ASSUME NEW s \in SpecIds, NEW c \in CRs, NEW author \in People,
             NEW delta \in VersionDeltas, NEW content \in Contents,
             SubmitReview(s, c, author, delta, content)
      PROVE  Unfinished(d)'
  <2>1. /\ RequestBecomes(c, change_requests'[c]) /\ change_requests'[c].spec = s
        /\ change_requests[c] = NoCR /\ review_approvals' = review_approvals
    BY <1>1, SubmitEffect DEF SubmitReview
  <2>2. CASE d = c
    <3>1. review_approvals'[d] = {}
      BY <2>1, <2>2 DEF Base, DraftsAreUngoverned
    <3>2. RequiredApprovalCount(s)' \in Nat \ {0}
      BY <1>0, RequiredIsFixed
    <3>3. Cardinality(review_approvals'[d]) = 0
      BY <3>1, FS_EmptySet
    <3>. QED BY <2>1, <2>2, <3>2, <3>3 DEF Unfinished, RequiredApprovalCount
  <2>3. CASE d # c
    BY <1>k, <2>1, <2>3 DEF RequestBecomes, Pending
  <2>. QED BY <2>2, <2>3
<1>2. ASSUME NEW c \in CRs, NEW user \in People, NEW reviewed_by \in People,
             ApproveMore(c, user, reviewed_by)
      PROVE  Unfinished(d)'
  <2>1. /\ review_approvals'[c] = WithApproval(c, user, reviewed_by)
        /\ \A e \in CRs : e # c => review_approvals'[e] = review_approvals[e]
        /\ change_requests' = change_requests /\ policy' = policy
        /\ Pending(c) /\ ~Enough(c, user, reviewed_by)
    BY <1>2 DEF ApproveMore, RecordApproval, MayApprove, Base, TypeOK
  <2>2. CASE d = c
    <3>1. IsFiniteSet(WithApproval(c, user, reviewed_by))
      <4>4. IsFiniteSet(review_approvals[c])
        BY ApprovalRowsAreFinite, FS_Subset DEF Base, TypeOK
      <4>. QED BY <4>4, FS_AddElement DEF WithApproval
    <3>2. Cardinality(WithApproval(c, user, reviewed_by)) \in Nat
      BY <3>1, FS_CardinalityType
    <3>3. RequiredApprovalCount(change_requests[c].spec) \in Nat
      BY <1>0, <2>1, PendingFacts, RequiredIsFixed
    <3>4. Cardinality(WithApproval(c, user, reviewed_by)) <
            RequiredApprovalCount(change_requests[c].spec)
      BY <2>1, <3>2, <3>3 DEF Enough
    <3>5. Cardinality(review_approvals'[c]) = Cardinality(WithApproval(c, user, reviewed_by))
      BY <2>1, Zenon
    <3>. QED BY <2>1, <2>2, <3>4, <3>5 DEF Unfinished, RequiredApprovalCount
  <2>3. CASE d # c
    BY <1>k, <2>1, <2>3 DEF Pending
  <2>. QED BY <2>2, <2>3
<1>3. ASSUME NEW c \in CRs, NEW user \in People, NEW reviewed_by \in People,
             NEW channel \in Channels, ApprovePublish(c, user, reviewed_by, channel)
      PROVE  Unfinished(d)'
  <2>1. /\ \A e \in CRs : e # c => review_approvals'[e] = review_approvals[e]
        /\ \A e \in CRs : e # c => change_requests'[e] = change_requests[e]
    BY <1>3 DEF ApprovePublish, RecordApproval, Base, TypeOK
  <2>. DEFINE s == change_requests[c].spec
              v == NewVersion(c, channel)
              content == change_requests[c].proposed_content
  <2>3. /\ HistoryGains(s, [version |-> v, content |-> content, channel |-> channel])
        /\ RequestBecomes(c, Approved(c, v)) /\ Approved(c, v).status = "approved"
    BY <1>3, ApproveEffect
  <2>2. change_requests'[c].status = "approved"
    BY <2>3 DEF RequestBecomes
  <2>. QED BY <1>k, <2>1, <2>2 DEF Pending, Unfinished
<1>4. ASSUME NEW c \in CRs, NEW user \in People, NEW reviewed_by \in People,
             NEW channel \in Channels, ApproveUnpublished(c, user, reviewed_by, channel)
      PROVE  FALSE
  <2>. DEFINE s == change_requests[c].spec
              v == Bump(specs[s].current_version, change_requests[c].version_delta)
  <2>1. Pending(c) /\ channel = "stable" /\ NewVersion(c, channel) = v
    BY <1>4 DEF ApproveUnpublished, RecordApproval, MayApprove, NewVersion
  <2>2. specs[s].current_version \in Version /\ change_requests[c].version_delta \in Deltas /\ s \in SpecIds
    BY <2>1, PendingFacts DEF CRRow, SpecRow
  <2>3. Precedes(specs[s].current_version, v)
    BY <2>2, BumpGoesUp
  <2>4. HasVersion(s, v)
    BY <1>4, <2>1 DEF ApproveUnpublished
  <2>. HIDE DEF v
  <2>5. \A row \in spec_versions[s] : ~Precedes(specs[s].current_version, row.version)
    BY <2>2 DEF LinearInv, LinearAt
  <2>. QED BY <2>3, <2>4, <2>5 DEF HasVersion
<1>5. ASSUME NEW c \in CRs, Reject(c)
      PROVE  Unfinished(d)'
  <2>1. /\ change_requests'[c].status = "rejected" /\ review_approvals' = review_approvals
        /\ \A e \in CRs : e # c => change_requests'[e] = change_requests[e]
    BY <1>5, RejectEffect DEF Reject, RequestBecomes
  <2>. QED BY <1>k, <2>1 DEF Pending, Unfinished
<1>6. ASSUME Purge
      PROVE  Unfinished(d)'
  <2>1. CASE OfExpired(d)
    BY <1>6, <2>1 DEF Purge, Unfinished, Pending, NoCR
  <2>2. CASE ~OfExpired(d)
    BY <1>6, <1>k, <2>2 DEF Purge, Pending
  <2>. QED BY <2>1, <2>2
<1>7. ASSUME \/ \E s \in SpecIds, content \in Contents : CreateSpec(s, content) \/ EditDraft(s, content)
             \/ \E s \in SpecIds : PublishDraft(s) \/ Delete(s) \/ Restore(s) \/ RetentionEnds(s) \/ Serve(s)
             \/ \E s \in SpecIds : \E beta \in spec_versions[s] : Promote(s, beta)
             \/ \E f \in Filenames, q \in Policies : SetPolicy(f, q)
             \/ UNCHANGED vars
      PROVE  UNCHANGED <<change_requests, review_approvals>>
  BY <1>7 DEF CreateSpec, EditDraft, PublishDraft, Delete, Restore, RetentionEnds, Serve, Promote,
     SetPolicy, tables, vars
<1>. QED BY <1>1, <1>2, <1>3, <1>4, <1>5, <1>6, <1>7, <1>u DEF Next

(***************************************************************************)
(* The approval that completes a request publishes it: no request stays    *)
(* pending with all its approvals given, as long as only stable releases   *)
(* are made, the process does not die in between and the number of         *)
(* approvals is not changed.  That the transaction cannot fail on a        *)
(* version it finds recorded is what the line of versions is needed for.   *)
(***************************************************************************)
THEOREM ApprovalsPublish ==
  ASSUME Channels \subseteq {"stable"}, Crashes = FALSE, SamePolicies
  PROVE  Spec => []ApprovalPublishes
<1>1. Init => LinearInv /\ UnfinishedInv
  BY InitLinear, LifecycleAssumption DEF Init, NoCR, UnfinishedInv, Unfinished, Pending
<1>2. LifecycleInv /\ LinearInv /\ UnfinishedInv /\ [Next]_vars => LinearInv' /\ UnfinishedInv'
  BY LinearStep, UnfinishedStep, LifecycleAssumption DEF LifecycleInv
<1>3. UnfinishedInv => ApprovalPublishes
  BY DEF UnfinishedInv, Unfinished, ApprovalPublishes
<1>. QED BY <1>1, <1>2, <1>3, LifecycleCorrect, PTL DEF Spec

=============================================================================
