----------------------- MODULE SkillMarketplaceProofs -----------------------
(***************************************************************************)
(* Machine-checked proofs about AgentSkills and SkillMarketplace, for any  *)
(* sets of skills, people, reviews, proposals, sources, scans and files.   *)
(***************************************************************************)
EXTENDS SkillMarketplace, FiniteSetTheorems, WellFoundedInduction, TLAPS

-----------------------------------------------------------------------------
(* Versions.                                                               *)

Has(history, body) == \E i \in DOMAIN history : history[i] = body
Taught(history, says) == \E i \in DOMAIN history : history[i].says = says

LEMMA TeachingStays ==
  ASSUME NEW history, NEW longer, \A body : Has(history, body) => Has(longer, body)
  PROVE  \A says : Taught(history, says) => Taught(longer, says)
<1>1. ASSUME NEW says, Taught(history, says)
      PROVE  Taught(longer, says)
  <2>1. PICK i \in DOMAIN history : history[i].says = says
    BY <1>1 DEF Taught
  <2>2. PICK body : body = history[i]
    OBVIOUS
  <2>3. Has(longer, body)
    BY <2>2 DEF Has
  <2>. QED BY <2>1, <2>2, <2>3 DEF Has, Taught
<1>. QED BY <1>1

LEMMA RecordedExtends ==
  ASSUME NEW history \in Seq(Bodies), NEW body \in Bodies
  PROVE  /\ Recorded(history, body) \in Seq(Bodies)
         /\ Has(Recorded(history, body), body)
         /\ \A other : Has(history, other) => Has(Recorded(history, body), other)
         /\ IsInjective(history) => IsInjective(Recorded(history, body))
         /\ IsPrefix(history, Recorded(history, body))
<1>1. CASE Has(history, body)
  <2>1. Recorded(history, body) = history
    BY <1>1 DEF Recorded, Has
  <2>. QED BY <1>1, <2>1 DEF IsPrefix
<1>2. CASE ~Has(history, body)
  <2>. DEFINE longer == Append(history, body)
  <2>1. Recorded(history, body) = longer
    BY <1>2 DEF Recorded, Has
  <2>2. /\ longer \in Seq(Bodies) /\ Len(longer) = Len(history) + 1 /\ DOMAIN longer = 1..(Len(history) + 1)
        /\ longer[Len(history) + 1] = body
        /\ \A i \in 1..Len(history) : longer[i] = history[i]
        /\ DOMAIN history = 1..Len(history) /\ Len(history) \in Nat
    OBVIOUS
  <2>. HIDE DEF longer
  <2>3. Has(longer, body)
    BY <2>2 DEF Has
  <2>4. \A other : Has(history, other) => Has(longer, other)
    BY <2>2 DEF Has
  <2>5. IsInjective(history) => IsInjective(longer)
    BY <1>2, <2>2 DEF IsInjective, Has
  <2>6. SubSeq(history, 1, Len(history)) = SubSeq(longer, 1, Len(history))
    BY <2>2
  <2>7. IsPrefix(history, longer)
    BY <2>2, <2>6 DEF IsPrefix
  <2>. QED BY <2>1, <2>2, <2>3, <2>4, <2>5, <2>7
<1>. QED BY <1>1, <1>2

-----------------------------------------------------------------------------
(* Skills, their reviews and proposals.                                    *)

\* Reviews and proposals are of skills that are there: the former go with their skill,
\* the latter keep it.
RecordsAreLive ==
  /\ \A r \in Reviews : reviews[r] # NoReview => Live(reviews[r].skill)
  /\ \A p \in Proposals : proposals[p] # NoProposal => Live(proposals[p].skill)

\* What a sync has fetched.
WorkspaceTyped ==
  /\ DOMAIN local = {"manifest", "files", "fetching", "catalog"}
  /\ \A e \in local.catalog : e.slug \in Slugs /\ e.hash \in Hashes /\ e.rendered \in Hashes

SkillsInv == TypeOK /\ WorkspaceTyped /\ RecordsAreLive /\ TextsAreRecorded

LEMMA RowKinds ==
  ASSUME TypeOK
  PROVE  /\ \A id \in Skills : /\ Live(id) => skills[id] \in SkillRow
                               /\ skills[id] \in SkillRow => Live(id)
                               /\ skills[id] # NoSkill /\ ~Live(id) => skills[id] = Deleted
                               /\ skills[id] = NoSkill => ~Live(id)
         /\ \A r \in Reviews : reviews[r] # NoReview => reviews[r] \in ReviewRow
         /\ \A p \in Proposals : proposals[p] # NoProposal => proposals[p] \in ProposalRow
         /\ NoReview \notin ReviewRow /\ NoProposal \notin ProposalRow
         /\ NoReview.state = "none" /\ NoProposal.state = "none"
BY DEF TypeOK, SkillRow, NoSkill, Deleted, Live, ReviewRow, NoReview, ProposalRow, NoProposal

ReviewStands(r) ==
  /\ reviews[r].skill \in Skills /\ Live(reviews[r].skill)
  /\ reviews[r].state = "approved" /\ reviews[r].action # "delete" =>
       Has(versions[reviews[r].skill], reviews[r].body)

ProposalStands(p) ==
  /\ proposals[p].skill \in Skills /\ Live(proposals[p].skill)
  /\ proposals[p].state = "approved" => Taught(versions[proposals[p].skill], proposals[p].proposed)

LEMMA RecordsStand ==
  ASSUME SkillsInv
  PROVE  /\ \A r \in Reviews : reviews[r] # NoReview => ReviewStands(r)
         /\ \A p \in Proposals : proposals[p] # NoProposal => ProposalStands(p)
BY RowKinds DEF SkillsInv, RecordsAreLive, TextsAreRecorded, Has, Taught, ReviewStands, ProposalStands, ReviewRow, ProposalRow

\* A step that does not delete: skills stay, histories grow, and what is approved is recorded.
LEMMA NothingIsDeleted ==
  ASSUME SkillsInv,
         skills' \in [Skills -> SkillRow \cup {NoSkill, Deleted}], versions' \in [Skills -> Seq(Bodies)],
         reviews' \in [Reviews -> ReviewRow \cup {NoReview}],
         proposals' \in [Proposals -> ProposalRow \cup {NoProposal}],
         \A id \in Skills :
           /\ Live(id) => Live(id)'
           /\ Live(id)' => Has(versions'[id], skills'[id].body)
           /\ IsInjective(versions'[id])
           /\ \A body : Has(versions[id], body) => Has(versions'[id], body),
         \A r \in Reviews : reviews'[r] = reviews[r] \/ ReviewStands(r)',
         \A p \in Proposals : proposals'[p] = proposals[p] \/ ProposalStands(p)',
         assignments' \in SUBSET (Skills \X Scopes), links' \in SUBSET (Skills \X Specs), UNCHANGED local
  PROVE  SkillsInv'
<1>1. TypeOK'
  BY DEF SkillsInv, TypeOK
<1>2. WorkspaceTyped'
  BY DEF SkillsInv, WorkspaceTyped
<1>3. ASSUME NEW r \in Reviews, reviews'[r] # NoReview
      PROVE  ReviewStands(r)'
  <2>1. CASE reviews'[r] = reviews[r]
    <3>1. PICK row : row = reviews[r]
      OBVIOUS
    <3>2. row.skill \in Skills /\ Live(row.skill)'
      BY <1>3, <2>1, <3>1, RecordsStand DEF ReviewStands
    <3>3. row.state = "approved" /\ row.action # "delete" => Has(versions'[row.skill], row.body)
      BY <1>3, <2>1, <3>1, RecordsStand DEF ReviewStands
    <3>. QED BY <2>1, <3>1, <3>2, <3>3 DEF ReviewStands
  <2>. QED BY <2>1
<1>4. ASSUME NEW p \in Proposals, proposals'[p] # NoProposal
      PROVE  ProposalStands(p)'
  <2>1. CASE proposals'[p] = proposals[p]
    <3>1. PICK row : row = proposals[p]
      OBVIOUS
    <3>2. row.skill \in Skills /\ Live(row.skill)'
      BY <1>4, <2>1, <3>1, RecordsStand DEF ProposalStands
    <3>3. row.state = "approved" => Taught(versions[row.skill], row.proposed)
      BY <1>4, <2>1, <3>1, RecordsStand DEF ProposalStands
    <3>4. PICK before, after : before = versions[row.skill] /\ after = versions'[row.skill]
      OBVIOUS
    <3>5. \A body : Has(before, body) => Has(after, body)
      BY <1>4, <2>1, <3>1, <3>4, RecordsStand DEF ProposalStands
    <3>6. row.state = "approved" => Taught(versions'[row.skill], row.proposed)
      BY <3>3, <3>4, <3>5, TeachingStays
    <3>. QED BY <2>1, <3>1, <3>2, <3>6 DEF ProposalStands
  <2>. QED BY <2>1
<1>5. RecordsAreLive'
  BY <1>3, <1>4 DEF RecordsAreLive, ReviewStands, ProposalStands
<1>6. /\ \A r \in Reviews : reviews'[r].state = "approved" => reviews'[r] # NoReview
      /\ \A p \in Proposals : proposals'[p].state = "approved" => proposals'[p] # NoProposal
  BY DEF NoReview, NoProposal
<1>7. TextsAreRecorded'
  BY <1>3, <1>4, <1>6 DEF TextsAreRecorded, Has, Taught, ReviewStands, ProposalStands
<1>. QED BY <1>1, <1>2, <1>5, <1>7 DEF SkillsInv

\* Whoever writes a skill records the text it has then.
LEMMA WritingRecords ==
  ASSUME SkillsInv, NEW id \in Skills, NEW row \in SkillRow, Live(id) \/ skills[id] = NoSkill,
         skills' = [skills EXCEPT ![id] = row], versions' = [versions EXCEPT ![id] = Recorded(versions[id], row.body)]
  PROVE  /\ skills' \in [Skills -> SkillRow \cup {NoSkill, Deleted}] /\ versions' \in [Skills -> Seq(Bodies)]
         /\ skills'[id] = row /\ Has(versions'[id], row.body)
         /\ \A i \in Skills :
              /\ Live(i) => Live(i)'
              /\ Live(i)' => Has(versions'[i], skills'[i].body)
              /\ IsInjective(versions'[i]) /\ IsPrefix(versions[i], versions'[i])
              /\ \A body : Has(versions[i], body) => Has(versions'[i], body)
<1>1. /\ skills \in [Skills -> SkillRow \cup {NoSkill, Deleted}] /\ versions \in [Skills -> Seq(Bodies)]
      /\ row.body \in Bodies
      /\ \A i \in Skills : IsInjective(versions[i]) /\ (Live(i) => Has(versions[i], skills[i].body))
  BY DEF SkillsInv, TypeOK, TextsAreRecorded, Has, SkillRow
<1>2. /\ skills'[id] = row /\ versions'[id] = Recorded(versions[id], row.body)
      /\ \A i \in Skills : i # id => skills'[i] = skills[i] /\ versions'[i] = versions[i]
  BY <1>1
<1>3. Live(id)' /\ \A i \in Skills : i # id => (Live(i)' <=> Live(i))
  BY <1>2 DEF Live, SkillRow
<1>4. /\ Has(versions'[id], row.body) /\ IsInjective(versions'[id]) /\ IsPrefix(versions[id], versions'[id])
      /\ versions'[id] \in Seq(Bodies)
      /\ \A body : Has(versions[id], body) => Has(versions'[id], body)
  BY <1>1, <1>2, RecordedExtends
<1>5. \A i \in Skills : IsPrefix(versions[i], versions[i])
  BY <1>1 DEF IsPrefix
<1>6. skills' \in [Skills -> SkillRow \cup {NoSkill, Deleted}] /\ versions' \in [Skills -> Seq(Bodies)]
  BY <1>1, <1>4
<1>. QED BY <1>1, <1>2, <1>3, <1>4, <1>5, <1>6

LEMMA WriteIsAWriting ==
  ASSUME SkillsInv, NEW id \in Skills, Live(id), NEW state \in {"active", "disabled"}, NEW body \in Bodies,
         Write(id, state, body)
  PROVE  \E row \in SkillRow :
           /\ row.body = body /\ row.from = skills[id].from
           /\ skills' = [skills EXCEPT ![id] = row]
           /\ versions' = [versions EXCEPT ![id] = Recorded(versions[id], row.body)]
<1>. DEFINE row == [skills[id] EXCEPT !.state = state, !.body = body]
<1>1. skills[id] \in SkillRow
  BY RowKinds DEF SkillsInv
<1>2. row \in SkillRow /\ row.body = body /\ row.from = skills[id].from
  BY <1>1 DEF SkillRow
<1>3. /\ skills' = [skills EXCEPT ![id] = row]
      /\ versions' = [versions EXCEPT ![id] = Recorded(versions[id], body)]
  BY DEF Write, SkillsInv, TypeOK
<1>. QED BY <1>2, <1>3

LEMMA InsertIsAWriting ==
  ASSUME SkillsInv, NEW id \in Skills, NEW slug \in Slugs, NEW state \in {"active", "disabled"},
         NEW body \in Bodies, NEW from \in Candidates \cup {None}, Insert(id, slug, state, body, from)
  PROVE  \E row \in SkillRow :
           /\ row.body = body /\ row.from = from
           /\ skills' = [skills EXCEPT ![id] = row]
           /\ versions' = [versions EXCEPT ![id] = Recorded(versions[id], row.body)]
<1>. DEFINE row == [state |-> state, slug |-> slug, body |-> body, from |-> from]
<1>1. row \in SkillRow /\ row.body = body /\ row.from = from
  BY DEF SkillRow
<1>2. /\ skills' = [skills EXCEPT ![id] = row]
      /\ versions' = [versions EXCEPT ![id] = Recorded(versions[id], body)]
  BY DEF Insert
<1>. QED BY <1>1, <1>2

VersionsStand == \A id \in Skills : Live(id)' => IsPrefix(versions[id], versions'[id])

\* No skill gets another origin.
OriginsStay ==
  \A id \in Skills : Live(id)' /\ skills'[id].from # None => Live(id) /\ skills'[id].from = skills[id].from

LEMMA NoSkillChanges ==
  ASSUME SkillsInv, UNCHANGED <<skills, versions>>
  PROVE  /\ skills' \in [Skills -> SkillRow \cup {NoSkill, Deleted}] /\ versions' \in [Skills -> Seq(Bodies)]
         /\ \A id \in Skills :
              /\ Live(id) => Live(id)'
              /\ Live(id)' => Has(versions'[id], skills'[id].body)
              /\ IsInjective(versions'[id])
              /\ \A body : Has(versions[id], body) => Has(versions'[id], body)
         /\ VersionsStand /\ OriginsStay
<1>1. /\ skills \in [Skills -> SkillRow \cup {NoSkill, Deleted}] /\ versions \in [Skills -> Seq(Bodies)]
      /\ \A id \in Skills : IsInjective(versions[id]) /\ (Live(id) => Has(versions[id], skills[id].body))
  BY DEF SkillsInv, TypeOK, TextsAreRecorded, Has
<1>2. \A id \in Skills : Live(id)' <=> Live(id)
  BY DEF Live
<1>3. \A id \in Skills : IsPrefix(versions[id], versions'[id])
  BY <1>1 DEF IsPrefix
<1>. QED BY <1>1, <1>2, <1>3 DEF VersionsStand, OriginsStay

LEMMA WritingKeepsSkills ==
  ASSUME SkillsInv, NEW id \in Skills, NEW row \in SkillRow, Live(id) \/ skills[id] = NoSkill,
         skills' = [skills EXCEPT ![id] = row], versions' = [versions EXCEPT ![id] = Recorded(versions[id], row.body)],
         UNCHANGED <<reviews, proposals, assignments, links, local>>
  PROVE  SkillsInv' /\ VersionsStand
<1>1. /\ reviews \in [Reviews -> ReviewRow \cup {NoReview}] /\ proposals \in [Proposals -> ProposalRow \cup {NoProposal}]
      /\ assignments \in SUBSET (Skills \X Scopes) /\ links \in SUBSET (Skills \X Specs)
  BY DEF SkillsInv, TypeOK
<1>. QED BY <1>1, WritingRecords, NothingIsDeleted DEF VersionsStand

\* A skill keeps its origin when it is written again.
LEMMA WritingKeepsOrigins ==
  ASSUME SkillsInv, NEW id \in Skills, NEW row \in SkillRow, Live(id), row.from = skills[id].from,
         skills' = [skills EXCEPT ![id] = row]
  PROVE  OriginsStay
<1>1. skills \in [Skills -> SkillRow \cup {NoSkill, Deleted}]
  BY DEF SkillsInv, TypeOK
<1>2. skills'[id] = row /\ \A i \in Skills : i # id => skills'[i] = skills[i]
  BY <1>1
<1>. QED BY <1>2 DEF OriginsStay, Live

LEMMA CreateKeeps ==
  ASSUME SkillsInv, NEW id \in Skills, NEW slug \in Slugs, NEW state \in {"active", "disabled"},
         NEW body \in Bodies, Create(id, slug, state, body)
  PROVE  SkillsInv' /\ VersionsStand /\ OriginsStay
<1>1. PICK row \in SkillRow :
        /\ row.from = None
        /\ skills' = [skills EXCEPT ![id] = row]
        /\ versions' = [versions EXCEPT ![id] = Recorded(versions[id], row.body)]
  BY InsertIsAWriting DEF Create
<1>2. skills[id] = NoSkill /\ UNCHANGED <<reviews, proposals, assignments, links, local>>
  BY DEF Create, Insert
<1>3. SkillsInv' /\ VersionsStand
  BY <1>1, <1>2, WritingKeepsSkills
<1>4. skills'[id] = row /\ \A i \in Skills : i # id => skills'[i] = skills[i]
  BY <1>1 DEF SkillsInv, TypeOK
<1>. QED BY <1>1, <1>3, <1>4 DEF OriginsStay, Live

LEMMA UpdateKeeps ==
  ASSUME SkillsInv, NEW id \in Skills, NEW state \in {"active", "disabled"}, NEW body \in Bodies,
         Update(id, state, body)
  PROVE  SkillsInv' /\ VersionsStand /\ OriginsStay
<1>1. Live(id) /\ UNCHANGED <<reviews, proposals, assignments, links, local>>
  BY DEF Update
<1>2. PICK row \in SkillRow :
        /\ row.from = skills[id].from
        /\ skills' = [skills EXCEPT ![id] = row]
        /\ versions' = [versions EXCEPT ![id] = Recorded(versions[id], row.body)]
  BY <1>1, WriteIsAWriting DEF Update
<1>. QED BY <1>1, <1>2, WritingKeepsSkills, WritingKeepsOrigins

LEMMA DeleteKeeps ==
  ASSUME SkillsInv, NEW id \in Skills, Delete(id)
  PROVE  SkillsInv' /\ VersionsStand /\ OriginsStay
<1>1. /\ skills' = [skills EXCEPT ![id] = Deleted] /\ versions' = [versions EXCEPT ![id] = <<>>]
      /\ reviews' = [r \in Reviews |-> IF reviews[r] # NoReview /\ reviews[r].skill = id THEN NoReview ELSE reviews[r]]
      /\ \A p \in Proposals : proposals[p] # NoProposal => proposals[p].skill # id
      /\ assignments' \subseteq assignments /\ links' \subseteq links
      /\ UNCHANGED <<proposals, local>>
  BY DEF Delete
<1>2. TypeOK /\ WorkspaceTyped
  BY DEF SkillsInv
<1>3. /\ skills'[id] = Deleted /\ versions'[id] = <<>>
      /\ \A i \in Skills : i # id => skills'[i] = skills[i] /\ versions'[i] = versions[i]
  BY <1>1, <1>2 DEF TypeOK
<1>4. ~Live(id)' /\ \A i \in Skills : i # id => (Live(i)' <=> Live(i))
  BY <1>3 DEF Live, Deleted
<1>5. TypeOK'
  <2>1. skills' \in [Skills -> SkillRow \cup {NoSkill, Deleted}] /\ versions' \in [Skills -> Seq(Bodies)]
    BY <1>1, <1>2 DEF TypeOK
  <2>2. reviews' \in [Reviews -> ReviewRow \cup {NoReview}]
    BY <1>1, <1>2 DEF TypeOK
  <2>. QED BY <1>1, <1>2, <2>1, <2>2 DEF TypeOK
<1>6. WorkspaceTyped'
  BY <1>1, <1>2 DEF WorkspaceTyped
<1>7. ASSUME NEW r \in Reviews, reviews'[r] # NoReview
      PROVE  ReviewStands(r)'
  <2>1. reviews'[r] = reviews[r] /\ reviews[r] # NoReview /\ reviews[r].skill # id
    BY <1>1, <1>7
  <2>2. PICK row : row = reviews[r]
    OBVIOUS
  <2>3. row.skill \in Skills /\ Live(row.skill) /\ row.skill # id
    BY <2>1, <2>2, RecordsStand DEF ReviewStands
  <2>4. row.state = "approved" /\ row.action # "delete" => Has(versions[row.skill], row.body)
    BY <2>1, <2>2, RecordsStand DEF ReviewStands
  <2>5. Live(row.skill)' /\ versions'[row.skill] = versions[row.skill]
    BY <1>3, <1>4, <2>3
  <2>. QED BY <2>1, <2>2, <2>3, <2>4, <2>5 DEF ReviewStands
<1>8. ASSUME NEW p \in Proposals, proposals'[p] # NoProposal
      PROVE  ProposalStands(p)'
  <2>1. PICK row : row = proposals[p]
    OBVIOUS
  <2>2. row.skill \in Skills /\ Live(row.skill) /\ row.skill # id /\ proposals'[p] = row
    BY <1>1, <1>8, <2>1, RecordsStand DEF ProposalStands
  <2>3. row.state = "approved" => Taught(versions[row.skill], row.proposed)
    BY <1>1, <1>8, <2>1, RecordsStand DEF ProposalStands
  <2>4. Live(row.skill)' /\ versions'[row.skill] = versions[row.skill]
    BY <1>3, <1>4, <2>2
  <2>. QED BY <2>2, <2>3, <2>4 DEF ProposalStands
<1>9. RecordsAreLive'
  BY <1>7, <1>8 DEF RecordsAreLive, ReviewStands, ProposalStands
<1>10. \A i \in Skills : IsInjective(versions'[i]) /\ (Live(i)' => Has(versions'[i], skills'[i].body))
  <2>1. IsInjective(<<>>)
    BY DEF IsInjective
  <2>. QED BY <1>3, <1>4, <2>1 DEF SkillsInv, TextsAreRecorded, Has
<1>11. TextsAreRecorded'
  <2>1. /\ \A r \in Reviews : reviews'[r].state = "approved" => reviews'[r] # NoReview
        /\ \A p \in Proposals : proposals'[p].state = "approved" => proposals'[p] # NoProposal
    BY DEF NoReview, NoProposal
  <2>. QED BY <1>7, <1>8, <1>10, <2>1 DEF TextsAreRecorded, Has, Taught, ReviewStands, ProposalStands
<1>12. VersionsStand
  <2>1. \A i \in Skills : IsPrefix(versions[i], versions[i])
    BY <1>2 DEF TypeOK, IsPrefix
  <2>. QED BY <1>3, <1>4, <2>1 DEF VersionsStand
<1>13. OriginsStay
  BY <1>3, <1>4 DEF OriginsStay
<1>. QED BY <1>5, <1>6, <1>9, <1>11, <1>12, <1>13 DEF SkillsInv

\* Reviews and proposals that change while no skill does.
LEMMA RecordsChange ==
  ASSUME SkillsInv, UNCHANGED <<skills, versions, assignments, links, local>>,
         reviews' \in [Reviews -> ReviewRow \cup {NoReview}],
         proposals' \in [Proposals -> ProposalRow \cup {NoProposal}],
         \A r \in Reviews : reviews'[r] = reviews[r] \/ ReviewStands(r)',
         \A p \in Proposals : proposals'[p] = proposals[p] \/ ProposalStands(p)'
  PROVE  SkillsInv' /\ VersionsStand /\ OriginsStay
<1>1. assignments' \in SUBSET (Skills \X Scopes) /\ links' \in SUBSET (Skills \X Specs)
  BY DEF SkillsInv, TypeOK
<1>2. UNCHANGED <<skills, versions>>
  OBVIOUS
<1>3. SkillsInv'
  BY <1>1, <1>2, NoSkillChanges, NothingIsDeleted
<1>. QED BY <1>2, <1>3, NoSkillChanges

LEMMA SubmitReviewKeeps ==
  ASSUME SkillsInv, AgentSkillsAssumption, NEW r \in Reviews, NEW id \in Skills,
         NEW action \in {"update", "enable", "disable", "delete"}, NEW status \in {"active", "disabled"},
         NEW body \in Bodies, NEW by \in Admins, SubmitReview(r, id, action, status, body, by)
  PROVE  SkillsInv' /\ VersionsStand /\ OriginsStay
<1>. DEFINE row == [state |-> "pending", skill |-> id, action |-> action, body |-> body,
                    status |-> ProposedStatus(action, status), by |-> by]
<1>1. row \in ReviewRow /\ row.skill = id /\ row.state = "pending"
  BY DEF ReviewRow, ProposedStatus, AgentSkillsAssumption
<1>2. Live(id) /\ reviews' = [reviews EXCEPT ![r] = row]
      /\ UNCHANGED <<skills, versions, proposals, assignments, links, local>>
  BY DEF SubmitReview
<1>. HIDE DEF row
<1>3. /\ reviews \in [Reviews -> ReviewRow \cup {NoReview}]
      /\ proposals \in [Proposals -> ProposalRow \cup {NoProposal}]
  BY DEF SkillsInv, TypeOK
<1>4. reviews' \in [Reviews -> ReviewRow \cup {NoReview}] /\ reviews'[r] = row
      /\ \A q \in Reviews : q # r => reviews'[q] = reviews[q]
  BY <1>1, <1>2, <1>3
<1>5. ReviewStands(r)'
  BY <1>1, <1>2, <1>4 DEF ReviewStands, Live
<1>. QED BY <1>2, <1>3, <1>4, <1>5, RecordsChange

LEMMA RejectReviewKeeps ==
  ASSUME SkillsInv, NEW r \in Reviews, RejectReview(r)
  PROVE  SkillsInv' /\ VersionsStand /\ OriginsStay
<1>. DEFINE row == [reviews[r] EXCEPT !.state = "rejected"]
<1>1. reviews[r] \in ReviewRow /\ reviews[r] # NoReview
  BY RowKinds DEF SkillsInv, RejectReview, NoReview
<1>2. row \in ReviewRow /\ row.skill = reviews[r].skill /\ row.state = "rejected"
  BY <1>1 DEF ReviewRow
<1>3. reviews' = [reviews EXCEPT ![r] = row] /\ UNCHANGED <<skills, versions, proposals, assignments, links, local>>
  BY DEF RejectReview, SkillsInv, TypeOK
<1>. HIDE DEF row
<1>4. /\ reviews \in [Reviews -> ReviewRow \cup {NoReview}]
      /\ proposals \in [Proposals -> ProposalRow \cup {NoProposal}]
  BY DEF SkillsInv, TypeOK
<1>5. reviews' \in [Reviews -> ReviewRow \cup {NoReview}] /\ reviews'[r] = row
      /\ \A q \in Reviews : q # r => reviews'[q] = reviews[q]
  BY <1>2, <1>3, <1>4
<1>6. row.skill \in Skills /\ Live(row.skill)
  BY <1>1, <1>2, RecordsStand DEF ReviewStands
<1>7. ReviewStands(r)'
  BY <1>2, <1>3, <1>5, <1>6 DEF ReviewStands, Live
<1>. QED BY <1>3, <1>4, <1>5, <1>7, RecordsChange

LEMMA ApproveReviewKeeps ==
  ASSUME SkillsInv, NEW r \in Reviews, NEW by \in People, ApproveReview(r, by)
  PROVE  SkillsInv' /\ VersionsStand /\ OriginsStay
<1>. DEFINE row == [reviews[r] EXCEPT !.state = "approved"]
<1>1. reviews[r] \in ReviewRow /\ reviews[r] # NoReview
  BY RowKinds DEF SkillsInv, ApproveReview, NoReview
<1>2. /\ row \in ReviewRow /\ row.skill = reviews[r].skill
      /\ row.action = reviews[r].action /\ row.body = reviews[r].body
  BY <1>1 DEF ReviewRow
<1>3. reviews' = [reviews EXCEPT ![r] = row] /\ UNCHANGED <<proposals, assignments, links, local>>
  BY DEF ApproveReview, SkillsInv, TypeOK
<1>. HIDE DEF row
<1>4. PICK id : id = reviews[r].skill
  OBVIOUS
<1>5. id \in Skills /\ Live(id)
  BY <1>1, <1>4, RecordsStand DEF ReviewStands
<1>6. /\ reviews[r].body \in Bodies /\ reviews[r].status \in {"active", "disabled"}
      /\ skills[id].body \in Bodies
  BY <1>1, <1>5, RowKinds DEF SkillsInv, ReviewRow, SkillRow
<1>7. \/ reviews[r].action = "delete" /\ Write(id, "disabled", skills[id].body)
      \/ reviews[r].action # "delete" /\ Write(id, reviews[r].status, reviews[r].body)
  BY <1>4 DEF ApproveReview
<1>8. PICK new \in SkillRow :
        /\ new.from = skills[id].from /\ (reviews[r].action # "delete" => new.body = reviews[r].body)
        /\ skills' = [skills EXCEPT ![id] = new]
        /\ versions' = [versions EXCEPT ![id] = Recorded(versions[id], new.body)]
  BY <1>5, <1>6, <1>7, WriteIsAWriting
<1>9. /\ reviews \in [Reviews -> ReviewRow \cup {NoReview}]
      /\ proposals \in [Proposals -> ProposalRow \cup {NoProposal}]
      /\ assignments \in SUBSET (Skills \X Scopes) /\ links \in SUBSET (Skills \X Specs)
  BY DEF SkillsInv, TypeOK
<1>10. reviews' \in [Reviews -> ReviewRow \cup {NoReview}] /\ reviews'[r] = row
       /\ \A q \in Reviews : q # r => reviews'[q] = reviews[q]
  BY <1>2, <1>3, <1>9
<1>11. Live(id)' /\ Has(versions'[id], new.body)
  BY <1>5, <1>8, WritingRecords
<1>12. ReviewStands(r)'
  BY <1>2, <1>4, <1>5, <1>8, <1>10, <1>11 DEF ReviewStands
<1>13. SkillsInv' /\ VersionsStand
  BY <1>3, <1>5, <1>8, <1>9, <1>10, <1>12, WritingRecords, NothingIsDeleted DEF VersionsStand
<1>14. OriginsStay
  BY <1>5, <1>8, WritingKeepsOrigins
<1>. QED BY <1>13, <1>14

LEMMA ProposeKeeps ==
  ASSUME SkillsInv, NEW p \in Proposals, NEW pattern \in Patterns, NEW by \in People, Propose(p, pattern, by)
  PROVE  SkillsInv' /\ VersionsStand /\ OriginsStay
<1>1. PICK id \in Skills :
        /\ Live(id)
        /\ proposals' = [proposals EXCEPT ![p] =
             [state |-> "pending", skill |-> id, current |-> skills[id].body.says,
              proposed |-> WithAddition(skills[id].body.says, pattern), by |-> by]]
  BY DEF Propose
<1>. DEFINE row == [state |-> "pending", skill |-> id, current |-> skills[id].body.says,
                    proposed |-> WithAddition(skills[id].body.says, pattern), by |-> by]
<1>2. skills[id].body.says \in Instructions
  BY <1>1, RowKinds DEF SkillsInv, SkillRow, Bodies
<1>3. WithAddition(skills[id].body.says, pattern) \in Instructions
  BY <1>2 DEF WithAddition, Instructions
<1>4. row \in ProposalRow /\ row.skill = id /\ row.state = "pending"
  BY <1>2, <1>3 DEF ProposalRow
<1>5. proposals' = [proposals EXCEPT ![p] = row] /\ UNCHANGED <<skills, versions, reviews, assignments, links, local>>
  BY <1>1 DEF Propose
<1>. HIDE DEF row
<1>6. /\ reviews \in [Reviews -> ReviewRow \cup {NoReview}]
      /\ proposals \in [Proposals -> ProposalRow \cup {NoProposal}]
  BY DEF SkillsInv, TypeOK
<1>7. proposals' \in [Proposals -> ProposalRow \cup {NoProposal}] /\ proposals'[p] = row
      /\ \A q \in Proposals : q # p => proposals'[q] = proposals[q]
  BY <1>4, <1>5, <1>6
<1>8. ProposalStands(p)'
  BY <1>1, <1>4, <1>5, <1>7 DEF ProposalStands, Live
<1>. QED BY <1>5, <1>6, <1>7, <1>8, RecordsChange

LEMMA RejectProposalKeeps ==
  ASSUME SkillsInv, NEW p \in Proposals, RejectProposal(p)
  PROVE  SkillsInv' /\ VersionsStand /\ OriginsStay
<1>. DEFINE row == [proposals[p] EXCEPT !.state = "rejected"]
<1>1. proposals[p] \in ProposalRow /\ proposals[p] # NoProposal
  BY RowKinds DEF SkillsInv, RejectProposal, NoProposal
<1>2. row \in ProposalRow /\ row.skill = proposals[p].skill /\ row.state = "rejected"
  BY <1>1 DEF ProposalRow
<1>3. /\ proposals' = [proposals EXCEPT ![p] = row]
      /\ UNCHANGED <<skills, versions, reviews, assignments, links, local>>
  BY DEF RejectProposal, SkillsInv, TypeOK
<1>. HIDE DEF row
<1>4. /\ reviews \in [Reviews -> ReviewRow \cup {NoReview}]
      /\ proposals \in [Proposals -> ProposalRow \cup {NoProposal}]
  BY DEF SkillsInv, TypeOK
<1>5. proposals' \in [Proposals -> ProposalRow \cup {NoProposal}] /\ proposals'[p] = row
      /\ \A q \in Proposals : q # p => proposals'[q] = proposals[q]
  BY <1>2, <1>3, <1>4
<1>6. row.skill \in Skills /\ Live(row.skill)
  BY <1>1, <1>2, RecordsStand DEF ProposalStands
<1>7. ProposalStands(p)'
  BY <1>2, <1>3, <1>5, <1>6 DEF ProposalStands, Live
<1>. QED BY <1>3, <1>4, <1>5, <1>7, RecordsChange

LEMMA ApproveProposalKeeps ==
  ASSUME SkillsInv, NEW p \in Proposals, NEW by \in Admins, NEW selfApprove, NEW validation,
         ApproveProposal(p, by, selfApprove, validation)
  PROVE  SkillsInv' /\ VersionsStand /\ OriginsStay
<1>. DEFINE row == [proposals[p] EXCEPT !.state = "approved"]
<1>1. proposals[p] \in ProposalRow /\ proposals[p] # NoProposal
  BY RowKinds DEF SkillsInv, ApproveProposal, NoProposal
<1>2. row \in ProposalRow /\ row.skill = proposals[p].skill /\ row.proposed = proposals[p].proposed
  BY <1>1 DEF ProposalRow
<1>3. proposals' = [proposals EXCEPT ![p] = row] /\ UNCHANGED <<reviews, assignments, links, local>>
  BY DEF ApproveProposal, SkillsInv, TypeOK
<1>. HIDE DEF row
<1>4. PICK id : id = proposals[p].skill
  OBVIOUS
<1>5. id \in Skills /\ Live(id)
  BY <1>1, <1>4, RecordsStand DEF ProposalStands
<1>. DEFINE body == [skills[id].body EXCEPT !.says = proposals[p].proposed]
<1>6. body \in Bodies /\ body.says = proposals[p].proposed /\ skills[id].state \in {"active", "disabled"}
  BY <1>1, <1>5, RowKinds DEF SkillsInv, ProposalRow, SkillRow, Bodies, Live
<1>7. Write(id, skills[id].state, body)
  BY <1>4 DEF ApproveProposal
<1>. HIDE DEF body
<1>8. PICK new \in SkillRow :
        /\ new.from = skills[id].from /\ new.body = body
        /\ skills' = [skills EXCEPT ![id] = new]
        /\ versions' = [versions EXCEPT ![id] = Recorded(versions[id], new.body)]
  BY <1>5, <1>6, <1>7, WriteIsAWriting
<1>9. /\ reviews \in [Reviews -> ReviewRow \cup {NoReview}]
      /\ proposals \in [Proposals -> ProposalRow \cup {NoProposal}]
      /\ assignments \in SUBSET (Skills \X Scopes) /\ links \in SUBSET (Skills \X Specs)
  BY DEF SkillsInv, TypeOK
<1>10. proposals' \in [Proposals -> ProposalRow \cup {NoProposal}] /\ proposals'[p] = row
       /\ \A q \in Proposals : q # p => proposals'[q] = proposals[q]
  BY <1>2, <1>3, <1>9
<1>11. Live(id)' /\ Has(versions'[id], new.body)
  BY <1>5, <1>8, WritingRecords
<1>12. ProposalStands(p)'
  <2>1. Taught(versions'[id], proposals[p].proposed)
    BY <1>6, <1>8, <1>11 DEF Has, Taught
  <2>. QED BY <1>2, <1>4, <1>5, <1>10, <1>11, <2>1 DEF ProposalStands
<1>13. SkillsInv' /\ VersionsStand
  BY <1>3, <1>5, <1>8, <1>9, <1>10, <1>12, WritingRecords, NothingIsDeleted DEF VersionsStand
<1>14. OriginsStay
  BY <1>5, <1>8, WritingKeepsOrigins
<1>. QED BY <1>13, <1>14

-----------------------------------------------------------------------------
(* Assignments, links and the workspace.                                   *)

LEMMA LinksChange ==
  ASSUME SkillsInv, UNCHANGED <<skills, versions, reviews, proposals, local>>,
         assignments' \in SUBSET (Skills \X Scopes), links' \in SUBSET (Skills \X Specs)
  PROVE  SkillsInv' /\ VersionsStand /\ OriginsStay
<1>1. /\ reviews' \in [Reviews -> ReviewRow \cup {NoReview}]
      /\ proposals' \in [Proposals -> ProposalRow \cup {NoProposal}]
  BY DEF SkillsInv, TypeOK
<1>2. SkillsInv'
  BY <1>1, NoSkillChanges, NothingIsDeleted
<1>. QED BY <1>2, NoSkillChanges

WorkspaceOK ==
  /\ WorkspaceTyped
  /\ DOMAIN local.manifest \subseteq Slugs /\ DOMAIN local.files \subseteq Slugs
  /\ \A s \in DOMAIN local.manifest : local.manifest[s].hash \in Hashes
  /\ \A s \in DOMAIN local.files : local.files[s] \in Hashes \cup {Edited}

LEMMA WorkspaceChanges ==
  ASSUME SkillsInv, UNCHANGED <<skills, versions, reviews, proposals, assignments, links>>, WorkspaceOK'
  PROVE  SkillsInv' /\ VersionsStand /\ OriginsStay
<1>1. TypeOK' /\ WorkspaceTyped'
  BY DEF SkillsInv, TypeOK, WorkspaceOK
<1>2. RecordsAreLive' /\ TextsAreRecorded'
  BY DEF SkillsInv, RecordsAreLive, TextsAreRecorded, Live
<1>. QED BY <1>1, <1>2, NoSkillChanges DEF SkillsInv

\* What is catalogued is of the types it is installed under.
LEMMA CatalogTyped ==
  ASSUME SkillsInv
  PROVE  \A e \in Catalog : e.slug \in Slugs /\ e.hash \in Hashes /\ e.rendered \in Hashes
<1>1. ASSUME NEW id \in Skills, Active(id)
      PROVE  Entry(id).slug \in Slugs /\ Entry(id).hash \in Hashes /\ Entry(id).rendered \in Hashes
  <2>1. skills[id] \in SkillRow /\ Live(id)
    BY <1>1, RowKinds DEF SkillsInv, Active, Live
  <2>2. versions[id] \in Seq(Bodies) /\ Has(versions[id], skills[id].body)
    BY <2>1 DEF SkillsInv, TypeOK, TextsAreRecorded, Has
  <2>3. Len(versions[id]) \in DOMAIN versions[id]
    BY <2>2 DEF Has
  <2>4. Current(id) \in Bodies
    BY <2>2, <2>3 DEF Current, Last
  <2>. QED BY <2>1, <2>4 DEF Entry, Hashes, SkillRow
<1>. QED BY <1>1 DEF Catalog

LEMMA SyncKeeps ==
  ASSUME SkillsInv, SyncFetch \/ (\E answered, force \in BOOLEAN : SyncInstall(answered, force)) \/ \E s \in DOMAIN local.files : EditFile(s)
  PROVE  SkillsInv' /\ VersionsStand /\ OriginsStay
<1>1. WorkspaceOK
  BY DEF SkillsInv, TypeOK, WorkspaceOK
<1>2. CASE SyncFetch
  <2>1. PICK catalog : catalog = Catalog
    OBVIOUS
  <2>2. local' = [local EXCEPT !.fetching = TRUE, !.catalog = catalog]
        /\ UNCHANGED <<skills, versions, reviews, proposals, assignments, links>>
    BY <1>2, <2>1 DEF SyncFetch
  <2>3. /\ DOMAIN local' = DOMAIN local /\ local'.catalog = catalog
        /\ local'.manifest = local.manifest /\ local'.files = local.files
    BY <1>1, <2>2 DEF WorkspaceOK, WorkspaceTyped
  <2>4. WorkspaceOK'
    BY <1>1, <2>1, <2>3, CatalogTyped DEF WorkspaceOK, WorkspaceTyped
  <2>. QED BY <2>2, <2>4, WorkspaceChanges
<1>3. ASSUME NEW answered \in BOOLEAN, NEW force \in BOOLEAN, SyncInstall(answered, force)
      PROVE  SkillsInv' /\ VersionsStand /\ OriginsStay
  <2>. DEFINE new == {e \in local.catalog : e.slug \in Desired(local.catalog, answered)}
              slugs == {e.slug : e \in new}
              of(s) == CHOOSE e \in new : e.slug = s
              manifest == [s \in slugs |-> [version |-> of(s).version, hash |-> of(s).hash]]
              written == IF force THEN slugs ELSE slugs \ DOMAIN local.files
              files == [s \in slugs \cup DOMAIN local.files |-> IF s \in written THEN of(s).rendered ELSE local.files[s]]
  <2>1. local' = [manifest |-> manifest, files |-> files, fetching |-> FALSE, catalog |-> {}]
        /\ UNCHANGED <<skills, versions, reviews, proposals, assignments, links>>
    BY <1>3 DEF SyncInstall
  <2>2. \A s \in slugs : of(s) \in new /\ of(s).slug = s
    OBVIOUS
  <2>3. \A s \in slugs : s \in Slugs /\ of(s).hash \in Hashes /\ of(s).rendered \in Hashes
    BY <1>1, <2>2 DEF WorkspaceOK, WorkspaceTyped
  <2>4. /\ DOMAIN manifest = slugs /\ \A s \in slugs : manifest[s].hash = of(s).hash
        /\ DOMAIN files = slugs \cup DOMAIN local.files
        /\ \A s \in DOMAIN files : files[s] = IF s \in written THEN of(s).rendered ELSE local.files[s]
        /\ written \subseteq slugs /\ slugs \ DOMAIN local.files \subseteq written
    OBVIOUS
  <2>5. /\ DOMAIN manifest \subseteq Slugs /\ DOMAIN files \subseteq Slugs
        /\ \A s \in DOMAIN manifest : manifest[s].hash \in Hashes
        /\ \A s \in DOMAIN files : files[s] \in Hashes \cup {Edited}
    BY <1>1, <2>3, <2>4 DEF WorkspaceOK
  <2>. HIDE DEF manifest, files, written
  <2>6. /\ DOMAIN local' = {"manifest", "files", "fetching", "catalog"}
        /\ local'.manifest = manifest /\ local'.files = files /\ local'.catalog = {}
    BY <2>1
  <2>7. WorkspaceOK'
    BY <2>5, <2>6 DEF WorkspaceOK, WorkspaceTyped
  <2>. QED BY <2>1, <2>7, WorkspaceChanges
<1>4. ASSUME NEW s \in DOMAIN local.files, EditFile(s)
      PROVE  SkillsInv' /\ VersionsStand /\ OriginsStay
  <2>1. local' = [local EXCEPT !.files = [local.files EXCEPT ![s] = Edited]]
        /\ UNCHANGED <<skills, versions, reviews, proposals, assignments, links>>
    BY <1>1, <1>4 DEF EditFile, WorkspaceOK, WorkspaceTyped
  <2>2. /\ DOMAIN local' = DOMAIN local /\ local'.catalog = local.catalog
        /\ local'.manifest = local.manifest /\ local'.files = [local.files EXCEPT ![s] = Edited]
    BY <1>1, <2>1 DEF WorkspaceOK, WorkspaceTyped
  <2>3. DOMAIN local'.files = DOMAIN local.files
        /\ \A t \in DOMAIN local.files : local'.files[t] = Edited \/ local'.files[t] = local.files[t]
    BY <2>2
  <2>4. WorkspaceOK'
    BY <1>1, <2>2, <2>3 DEF WorkspaceOK, WorkspaceTyped
  <2>. QED BY <2>1, <2>4, WorkspaceChanges
<1>. QED BY <1>2, <1>3, <1>4

LEMMA SkillStep ==
  ASSUME AgentSkillsAssumption, SkillsInv, SkillNext
  PROVE  SkillsInv' /\ VersionsStand /\ OriginsStay
<1>. USE AgentSkillsAssumption
<1>1. ASSUME NEW id \in Skills, NEW scope \in Scopes, Assign(id, scope)
      PROVE  SkillsInv' /\ VersionsStand /\ OriginsStay
  BY <1>1, LinksChange DEF Assign, SkillsInv, TypeOK
<1>2. ASSUME NEW id \in Skills, NEW f \in Specs, LinkSpec(id, f)
      PROVE  SkillsInv' /\ VersionsStand /\ OriginsStay
  BY <1>2, LinksChange DEF LinkSpec, SkillsInv, TypeOK
<1>3. ASSUME NEW a \in assignments, Unassign(a)
      PROVE  SkillsInv' /\ VersionsStand /\ OriginsStay
  BY <1>3, LinksChange DEF Unassign, SkillsInv, TypeOK
<1>4. ASSUME NEW l \in links, UnlinkSpec(l)
      PROVE  SkillsInv' /\ VersionsStand /\ OriginsStay
  BY <1>4, LinksChange DEF UnlinkSpec, SkillsInv, TypeOK
<1>5. CASE Restart
  <2>1. Seeded \subseteq Skills \X Scopes
    BY DEF Seeded, AgentSkillsAssumption
  <2>. QED BY <1>5, <2>1, LinksChange DEF Restart, SkillsInv, TypeOK
<1>6. ASSUME NEW id \in Skills, NEW state \in {"active", "disabled"}, NEW body \in Bodies,
             (\E slug \in Slugs : Create(id, slug, state, body)) \/ Update(id, state, body)
      PROVE  SkillsInv' /\ VersionsStand /\ OriginsStay
  BY <1>6, CreateKeeps, UpdateKeeps
<1>7. ASSUME NEW r \in Reviews,
             \/ \E id \in Skills, action \in {"update", "enable", "disable", "delete"},
                   status \in {"active", "disabled"}, body \in Bodies, by \in Admins :
                  SubmitReview(r, id, action, status, body, by)
             \/ \E by \in People : ApproveReview(r, by)
             \/ RejectReview(r)
      PROVE  SkillsInv' /\ VersionsStand /\ OriginsStay
  BY <1>7, SubmitReviewKeeps, ApproveReviewKeeps, RejectReviewKeeps
<1>8. ASSUME NEW p \in Proposals,
             \/ \E pattern \in Patterns, by \in People : Propose(p, pattern, by)
             \/ \E by \in Admins, selfApprove, validation \in BOOLEAN : ApproveProposal(p, by, selfApprove, validation)
             \/ RejectProposal(p)
      PROVE  SkillsInv' /\ VersionsStand /\ OriginsStay
  BY <1>8, ProposeKeeps, ApproveProposalKeeps, RejectProposalKeeps
<1>. QED BY <1>1, <1>2, <1>3, <1>4, <1>5, <1>6, <1>7, <1>8, DeleteKeeps, SyncKeeps DEF SkillNext

LEMMA SkillsInit ==
  ASSUME AgentSkillsAssumption, Init
  PROVE  SkillsInv
<1>. USE AgentSkillsAssumption
<1>1. \A id \in Skills : /\ id \in BuiltIn => skills[id] \in SkillRow /\ versions[id] = <<Seed>>
                         /\ id \notin BuiltIn => skills[id] = NoSkill /\ versions[id] = <<>>
  BY DEF Init, SkillRow, Seed, Bodies, Instructions
<1>2. Seed \in Bodies
  BY DEF Seed, Bodies, Instructions
<1>3. skills \in [Skills -> SkillRow \cup {NoSkill, Deleted}] /\ versions \in [Skills -> Seq(Bodies)]
  <2>1. \A id \in Skills : skills[id] \in SkillRow \cup {NoSkill, Deleted} /\ versions[id] \in Seq(Bodies)
    <3>1. \A b \in Bodies : <<b>> \in Seq(Bodies)
      OBVIOUS
    <3>2. <<>> \in Seq(Bodies)
      OBVIOUS
    <3>3. <<Seed>> \in Seq(Bodies)
      BY <1>2, <3>1
    <3>. QED BY <1>1, <3>2, <3>3
  <2>2. skills = [id \in Skills |-> skills[id]] /\ versions = [id \in Skills |-> versions[id]]
    BY DEF Init
  <2>. QED BY <2>1, <2>2
<1>4. /\ local = [manifest |-> <<>>, files |-> <<>>, fetching |-> FALSE, catalog |-> {}]
      /\ DOMAIN local.manifest = {} /\ DOMAIN local.files = {}
  BY DEF Init
<1>5. TypeOK /\ WorkspaceTyped
  BY <1>3, <1>4 DEF Init, TypeOK, WorkspaceTyped
<1>6. RecordsAreLive
  BY DEF Init, RecordsAreLive
<1>7. \A id \in Skills : Live(id) => Has(versions[id], skills[id].body)
  <2>1. ASSUME NEW id \in Skills, Live(id)
        PROVE  Has(versions[id], skills[id].body)
    <3>1. id \in BuiltIn
      BY <1>1, <2>1 DEF Live, NoSkill
    <3>2. skills[id].body = Seed /\ versions[id] = <<Seed>>
      BY <1>1, <3>1 DEF Init
    <3>. QED BY <3>2 DEF Has
  <2>. QED BY <2>1
<1>8. \A id \in Skills : IsInjective(versions[id])
  BY <1>1 DEF IsInjective
<1>9. /\ \A r \in Reviews : reviews[r].state # "approved"
      /\ \A p \in Proposals : proposals[p].state # "approved"
  BY DEF Init, NoReview, NoProposal
<1>. QED BY <1>5, <1>6, <1>7, <1>8, <1>9 DEF SkillsInv, TextsAreRecorded, Has, Taught

LEMMA AssignmentsDecide ==
  ASSUME Assigned # {}, NEW catalog
  PROVE  Desired(catalog, TRUE) = Assigned
BY DEF Desired

\* The slug of a skill is its own: new ones are checked for it, and it never changes.
SlugsDiffer == \A id, other \in Skills :
  Live(id) /\ Live(other) /\ skills[id].slug = skills[other].slug => id = other

LEMMA SlugsStayWithTheirSkills ==
  ASSUME SlugsDiffer, \A id \in Skills : Live(id)' => Live(id) /\ skills'[id].slug = skills[id].slug
  PROVE  SlugsDiffer'
BY DEF SlugsDiffer

LEMMA WritesKeepSlugs ==
  ASSUME SkillsInv, SlugsDiffer, NEW id \in Skills, Live(id), NEW state \in {"active", "disabled"},
         NEW body \in Bodies, Write(id, state, body)
  PROVE  SlugsDiffer'
<1>1. PICK row : row = [skills[id] EXCEPT !.state = state, !.body = body]
  OBVIOUS
<1>2. skills[id] \in SkillRow
  BY RowKinds DEF SkillsInv
<1>3. row.slug = skills[id].slug
  BY <1>1, <1>2 DEF SkillRow
<1>4. skills' = [skills EXCEPT ![id] = row]
  BY <1>1 DEF Write, SkillsInv, TypeOK
<1>5. skills'[id] = row /\ \A i \in Skills : i # id => skills'[i] = skills[i]
  BY <1>4 DEF SkillsInv, TypeOK
<1>. QED BY <1>3, <1>5, SlugsStayWithTheirSkills DEF Live

LEMMA InsertsKeepSlugs ==
  ASSUME SkillsInv, SlugsDiffer, NEW id \in Skills, NEW slug, NEW state, NEW body, NEW from,
         Insert(id, slug, state, body, from)
  PROVE  SlugsDiffer'
<1>1. PICK row : row = [state |-> state, slug |-> slug, body |-> body, from |-> from]
  OBVIOUS
<1>2. skills' = [skills EXCEPT ![id] = row] /\ row.slug = slug /\ SlugFree(slug)
  BY <1>1 DEF Insert
<1>3. skills'[id] = row /\ \A i \in Skills : i # id => skills'[i] = skills[i]
  BY <1>2 DEF SkillsInv, TypeOK
<1>. QED BY <1>2, <1>3 DEF SlugsDiffer, SlugFree, Live

LEMMA SlugsStayApart ==
  ASSUME SkillsInv, SlugsDiffer, SkillNext
  PROVE  SlugsDiffer'
<1>1. CASE UNCHANGED skills
  BY <1>1 DEF SlugsDiffer, Live
<1>2. ASSUME NEW id \in Skills, NEW state \in {"active", "disabled"}, NEW body \in Bodies,
             (\E slug \in Slugs : Create(id, slug, state, body)) \/ Update(id, state, body)
      PROVE  SlugsDiffer'
  BY <1>2, WritesKeepSlugs, InsertsKeepSlugs DEF Create, Update
<1>3. ASSUME NEW id \in Skills, Delete(id)
      PROVE  SlugsDiffer'
  <2>1. skills'[id] = Deleted /\ \A i \in Skills : i # id => skills'[i] = skills[i]
    BY <1>3 DEF Delete, SkillsInv, TypeOK
  <2>. QED BY <2>1, SlugsStayWithTheirSkills DEF Live, Deleted
<1>4. ASSUME NEW r \in Reviews, NEW by \in People, ApproveReview(r, by)
      PROVE  SlugsDiffer'
  <2>1. reviews[r] \in ReviewRow /\ reviews[r] # NoReview
    BY <1>4, RowKinds DEF SkillsInv, ApproveReview, NoReview
  <2>2. PICK id : id = reviews[r].skill
    OBVIOUS
  <2>3. id \in Skills /\ Live(id)
    BY <2>1, <2>2, RecordsStand DEF ReviewStands
  <2>4. /\ reviews[r].body \in Bodies /\ reviews[r].status \in {"active", "disabled"}
        /\ skills[id].body \in Bodies
    BY <2>1, <2>3, RowKinds DEF SkillsInv, ReviewRow, SkillRow
  <2>5. \/ Write(id, "disabled", skills[id].body)
        \/ Write(id, reviews[r].status, reviews[r].body)
    BY <1>4, <2>2 DEF ApproveReview
  <2>. QED BY <2>3, <2>4, <2>5, WritesKeepSlugs
<1>5. ASSUME NEW p \in Proposals, NEW by \in Admins, NEW selfApprove, NEW validation,
             ApproveProposal(p, by, selfApprove, validation)
      PROVE  SlugsDiffer'
  <2>1. proposals[p] \in ProposalRow /\ proposals[p] # NoProposal
    BY <1>5, RowKinds DEF SkillsInv, ApproveProposal, NoProposal
  <2>2. PICK id : id = proposals[p].skill
    OBVIOUS
  <2>3. id \in Skills /\ Live(id)
    BY <2>1, <2>2, RecordsStand DEF ProposalStands
  <2>4. PICK body : body = [skills[id].body EXCEPT !.says = proposals[p].proposed]
    OBVIOUS
  <2>5. body \in Bodies /\ skills[id].state \in {"active", "disabled"}
    BY <2>1, <2>3, <2>4, RowKinds DEF SkillsInv, ProposalRow, SkillRow, Bodies, Live
  <2>6. Write(id, skills[id].state, body)
    BY <1>5, <2>2, <2>4 DEF ApproveProposal
  <2>. QED BY <2>3, <2>5, <2>6, WritesKeepSlugs
<1>6. ASSUME NEW r \in Reviews,
             \/ \E id \in Skills, action \in {"update", "enable", "disable", "delete"},
                   status \in {"active", "disabled"}, body \in Bodies, by \in Admins :
                  SubmitReview(r, id, action, status, body, by)
             \/ RejectReview(r)
      PROVE  UNCHANGED skills
  BY <1>6 DEF SubmitReview, RejectReview
<1>7. ASSUME NEW p \in Proposals,
             (\E pattern \in Patterns, by \in People : Propose(p, pattern, by)) \/ RejectProposal(p)
      PROVE  UNCHANGED skills
  BY <1>7 DEF Propose, RejectProposal
<1>8. CASE \/ \E id \in Skills : \/ \E scope \in Scopes : Assign(id, scope)
                                 \/ \E f \in Specs : LinkSpec(id, f)
           \/ \E a \in assignments : Unassign(a)
           \/ \E l \in links : UnlinkSpec(l)
           \/ Restart
  BY <1>1, <1>8 DEF Assign, LinkSpec, Unassign, UnlinkSpec, Restart
<1>9. CASE SyncFetch \/ (\E answered, force \in BOOLEAN : SyncInstall(answered, force))
           \/ \E s \in DOMAIN local.files : EditFile(s)
  BY <1>1, <1>9 DEF SyncFetch, SyncInstall, EditFile
<1>. QED BY <1>1, <1>2, <1>3, <1>4, <1>5, <1>6, <1>7, <1>8, <1>9 DEF SkillNext

\* What a sync installs is what the registry lists, and all that it assigns.
LEMMA SyncEnds ==
  ASSUME SkillsInv, SlugsDiffer, NEW force \in BOOLEAN, SyncInstall(TRUE, force), local.catalog = Catalog
  PROVE  /\ Assigned' \subseteq DOMAIN local'.manifest
         /\ Drift' <=> \E e \in Installed' : local'.files[e.slug] # e.hash
         /\ force => \A e \in Installed' : local'.files[e.slug] = e.rendered
         /\ ~force => \A s \in DOMAIN local.files : local'.files[s] = local.files[s]
<1>. DEFINE new == {e \in local.catalog : e.slug \in Desired(local.catalog, TRUE)}
            slugs == {e.slug : e \in new}
            of(s) == CHOOSE e \in new : e.slug = s
            written == IF force THEN slugs ELSE slugs \ DOMAIN local.files
            manifest == [s \in slugs |-> [version |-> of(s).version, hash |-> of(s).hash]]
            files == [s \in slugs \cup DOMAIN local.files |-> IF s \in written THEN of(s).rendered ELSE local.files[s]]
<1>1. local' = [manifest |-> manifest, files |-> files, fetching |-> FALSE, catalog |-> {}]
      /\ UNCHANGED <<skills, versions, reviews, proposals, assignments, links>>
  BY DEF SyncInstall
<1>2. Catalog' = Catalog /\ Assigned' = Assigned
  BY <1>1 DEF Catalog, Entry, Active, Current, Assigned
<1>3. \A s \in slugs : of(s) \in Catalog /\ of(s).slug = s
  OBVIOUS
<1>4. /\ DOMAIN manifest = slugs /\ DOMAIN files = slugs \cup DOMAIN local.files
      /\ \A s \in slugs : manifest[s] = [version |-> of(s).version, hash |-> of(s).hash]
      /\ force => \A s \in slugs : files[s] = of(s).rendered
      /\ ~force => \A s \in DOMAIN local.files : files[s] = local.files[s]
  OBVIOUS
<1>5. \A s \in Assigned : s \in slugs
  <2>1. ASSUME NEW s \in Assigned
        PROVE  s \in slugs
    <3>1. Desired(local.catalog, TRUE) = Assigned
      BY AssignmentsDecide
    <3>2. PICK a \in assignments : Active(a[1]) /\ skills[a[1]].slug = s
      BY DEF Assigned
    <3>3. a[1] \in Skills
      BY <3>2 DEF SkillsInv, TypeOK
    <3>4. Entry(a[1]) \in Catalog /\ Entry(a[1]).slug = s
      BY <3>2, <3>3 DEF Catalog, Entry
    <3>5. PICK e : e = Entry(a[1])
      OBVIOUS
    <3>6. e \in new /\ e.slug = s
      BY <3>1, <3>4, <3>5
    <3>. QED BY <3>6
  <2>. QED BY <2>1
\* A slug names one entry of the catalog.
<1>6. \A e, f \in Catalog : e.slug = f.slug => e = f
  <2>1. ASSUME NEW e \in Catalog, NEW f \in Catalog, e.slug = f.slug
        PROVE  e = f
    <3>1. PICK i \in Skills : Active(i) /\ e = Entry(i)
      BY DEF Catalog
    <3>2. PICK j \in Skills : Active(j) /\ f = Entry(j)
      BY DEF Catalog
    <3>3. Live(i) /\ Live(j) /\ skills[i].slug = skills[j].slug
      BY <2>1, <3>1, <3>2 DEF Entry, Active, Live
    <3>. QED BY <3>1, <3>2, <3>3 DEF SlugsDiffer
  <2>. QED BY <2>1
<1>. HIDE DEF manifest, files, slugs, of
<1>7. local'.manifest = manifest /\ local'.files = files
  BY <1>1
<1>8. \A e \in Installed' : e \in Catalog /\ e.slug \in slugs /\ of(e.slug) = e
  BY <1>2, <1>3, <1>4, <1>6, <1>7 DEF Installed
<1>9. \A s \in slugs : of(s) \in Installed'
  BY <1>2, <1>3, <1>4, <1>7 DEF Installed
<1>10. \A s \in slugs : \A remote \in Catalog : remote.slug = s =>
         remote = of(s) /\ manifest[s] = [version |-> remote.version, hash |-> remote.hash]
  <2>1. ASSUME NEW s \in slugs, NEW remote \in Catalog, remote.slug = s
        PROVE  remote = of(s) /\ manifest[s] = [version |-> remote.version, hash |-> remote.hash]
    <3>1. remote = of(s)
      BY <1>3, <1>6, <2>1
    <3>. QED BY <1>4, <3>1
  <2>. QED BY <2>1
<1>11. \A s \in slugs : manifest[s].hash = of(s).hash
  BY <1>4
<1>12. Drift' <=> \E s \in slugs : files[s] # of(s).hash
  <2>1. Drift' <=> \E s \in slugs : \A remote \in Catalog : remote.slug = s =>
                     \/ manifest[s] # [version |-> remote.version, hash |-> remote.hash]
                     \/ s \in DOMAIN files /\ files[s] # manifest[s].hash
    BY <1>2, <1>4, <1>5, <1>7 DEF Drift, Outdated
  <2>2. ASSUME NEW s \in slugs
        PROVE  (\A remote \in Catalog : remote.slug = s =>
                  \/ manifest[s] # [version |-> remote.version, hash |-> remote.hash]
                  \/ s \in DOMAIN files /\ files[s] # manifest[s].hash) <=> files[s] # of(s).hash
    BY <1>3, <1>4, <1>10, <1>11, <2>2
  <2>. QED BY <2>1, <2>2
<1>13. Drift' <=> \E e \in Installed' : local'.files[e.slug] # e.hash
  BY <1>3, <1>7, <1>8, <1>9, <1>12
<1>14. force => \A e \in Installed' : local'.files[e.slug] = e.rendered
  BY <1>4, <1>7, <1>8
<1>15. Assigned' \subseteq DOMAIN local'.manifest
  BY <1>2, <1>4, <1>5, <1>7
<1>16. ~force => \A s \in DOMAIN local.files : local'.files[s] = local.files[s]
  BY <1>4, <1>7
<1>. QED BY <1>13, <1>14, <1>15, <1>16

-----------------------------------------------------------------------------
(* Tables of candidates.                                                   *)

Distinct(cs) ==
  \A c, d \in Rows(cs) :
    cs[c].content = cs[d].content /\ cs[c].source = cs[d].source /\ cs[c].path = cs[d].path => c = d

Reviewed(cs) ==
  \A c, d \in Rows(cs) :
    cs[c].content = cs[d].content /\ cs[c].gate = "pass" /\ cs[d].gate = "pass" => c = d

TableOK(cs) == cs \in [Candidates -> CandidateRow \cup {NoCandidate}] /\ Distinct(cs) /\ Reviewed(cs)

\* Rows are only added.
Keeps(cs, new) == \A c \in Rows(cs) : new[c] = cs[c]

LEMMA Gated ==
  ASSUME NEW content, NEW type, NEW licensed, NEW duplicates \in Nat
  PROVE  /\ GateStatus(content, type, licensed, duplicates) \in {"pass", "review", "block"}
         /\ duplicates > 0 => GateStatus(content, type, licensed, duplicates) # "pass"
BY DEF GateStatus

\* Of a set of candidates that has a member.
LEMMA Counted ==
  ASSUME IsFiniteSet(Candidates), NEW S \in SUBSET Candidates
  PROVE  /\ IsFiniteSet(S) /\ Cardinality(S) \in Nat
         /\ \A c \in S : Cardinality(S) > 0
<1>1. IsFiniteSet(S)
  BY FS_Subset
<1>2. Cardinality(S) \in Nat
  BY <1>1, FS_CardinalityType
<1>3. S # {} => Cardinality(S) # 0
  BY <1>1, FS_EmptySet
<1>. QED BY <1>1, <1>2, <1>3

LEMMA WithCandidateKeeps ==
  ASSUME IsFiniteSet(Candidates), NEW cs, TableOK(cs), Rows(cs) # Candidates,
         NEW source \in Sources \cup {None}, NEW path \in Paths \cup {None}, NEW content \in Contents,
         NEW licensed \in BOOLEAN, NEW type \in Types, NEW state \in CandidateStates,
         NEW new, new = WithCandidate(cs, source, path, content, licensed, type, state)
  PROVE  /\ TableOK(new) /\ Keeps(cs, new)
         /\ \E free \in Candidates : Rows(new) \subseteq Rows(cs) \cup {free}
<1>1. PICK any \in Candidates : cs[any] = NoCandidate
  BY DEF Rows
<1>2. CASE Existing(cs, source, path, content) # {}
  <2>1. new = cs
    BY <1>2 DEF WithCandidate
  <2>2. Keeps(cs, cs)
    BY DEF Keeps
  <2>. QED BY <1>1, <2>1, <2>2
<1>3. CASE Existing(cs, source, path, content) = {}
  <2>1. PICK free : free = CHOOSE c \in Candidates : cs[c] = NoCandidate
    OBVIOUS
  <2>2. free \in Candidates /\ cs[free] = NoCandidate
    BY <1>1, <2>1
  <2>3. PICK gate : gate = GateStatus(content, type, licensed, Cardinality(Copies(cs, content)))
    OBVIOUS
  <2>. DEFINE row == [state |-> state, source |-> source, path |-> path, content |-> content,
                      licensed |-> licensed, type |-> type, gate |-> gate]
  <2>4. new = [cs EXCEPT ![free] = row]
    BY <1>3, <2>1, <2>3 DEF WithCandidate
  <2>5. Copies(cs, content) \in SUBSET Candidates
    BY DEF Copies, Rows
  <2>6. gate \in {"pass", "review", "block"} /\ \A d \in Copies(cs, content) : gate # "pass"
    BY <2>3, <2>5, Counted, Gated
  <2>7. /\ row \in CandidateRow /\ row # NoCandidate
        /\ row.content = content /\ row.source = source /\ row.path = path /\ row.gate = gate
    BY <2>6 DEF CandidateRow, NoCandidate
  <2>. HIDE DEF row
  <2>8. new[free] = row /\ \A c \in Candidates : c # free => new[c] = cs[c]
    BY <2>2, <2>4 DEF TableOK
  <2>9. new \in [Candidates -> CandidateRow \cup {NoCandidate}]
    BY <2>2, <2>4, <2>7 DEF TableOK
  <2>10. Rows(new) = Rows(cs) \cup {free} /\ free \notin Rows(cs) /\ \A c \in Rows(cs) : new[c] = cs[c]
    BY <2>2, <2>7, <2>8 DEF Rows
  <2>11. Distinct(new)
    <3>1. \A d \in Rows(cs) : ~ (cs[d].content = content /\ cs[d].source = source /\ cs[d].path = path)
      BY <1>3 DEF Existing, Copies
    <3>. QED BY <2>7, <2>8, <2>10, <3>1 DEF Distinct, TableOK
  <2>12. Reviewed(new)
    <3>1. \A d \in Rows(cs) : cs[d].content = content => gate # "pass"
      BY <2>6 DEF Copies
    <3>. QED BY <2>7, <2>8, <2>10, <3>1 DEF Reviewed, TableOK
  <2>13. Keeps(cs, new)
    BY <2>10 DEF Keeps
  <2>. QED BY <2>2, <2>9, <2>10, <2>11, <2>12, <2>13 DEF TableOK
<1>. QED BY <1>2, <1>3

\* A set of numbers that is not empty has a least one.
LEMMA Minimum ==
  ASSUME NEW T \in SUBSET Nat, T # {}
  PROVE  \E m \in T : \A n \in T : m <= n
<1>. DEFINE R == OpToRel(<, Nat)
<1>1. IsWellFoundedOn(R, Nat)
  BY NatLessThanWellFounded
<1>2. \A x, y \in Nat : x < y => <<x, y>> \in R
  BY DEF OpToRel
<1>. HIDE DEF R
<1>3. PICK m \in T : \A n \in T : ~ (<<n, m>> \in R)
  BY <1>1, WFMin
<1>4. \A n \in T : ~ (n < m)
  BY <1>2, <1>3
<1>5. \A n \in T : n \in Int /\ m \in Int
  OBVIOUS
<1>. QED BY <1>4, <1>5

LEMMA ClassifiedTyped ==
  ASSUME NEW content
  PROVE  Classified(content) \in Types
<1>. DEFINE lists == <<"unsafe", "project_type_template", "spec_seed", "agent_skill", "reference_only">>
            hits == {i \in 1..5 : lists[i] \in Words[content]}
<1>1. \A i \in 1..5 : lists[i] \in Types
  BY DEF Types
<1>2. CASE hits = {}
  BY <1>2 DEF Classified, Types
<1>3. CASE hits # {}
  <2>1. PICK m \in hits : \A n \in hits : m <= n
    <3>1. hits \in SUBSET Nat
      OBVIOUS
    <3>. QED BY <1>3, <3>1, Minimum
  <2>2. Min(hits) \in hits
    <3>. HIDE DEF hits
    <3>. QED BY <2>1 DEF Min
  <2>3. Classified(content) = lists[Min(hits)]
    BY <1>3 DEF Classified
  <2>4. Min(hits) \in 1..5
    BY <2>2
  <2>. HIDE DEF lists, hits
  <2>. QED BY <1>1, <2>3, <2>4
<1>. QED BY <1>2, <1>3

-----------------------------------------------------------------------------
(* What a scan imports.                                                    *)

Files == Seq([path : Paths, content : Contents])

\* The table after the n-th file, from the one before it.
WithFile(cs, source, licensed, files, n) ==
  WithCandidate(cs, source, files[n].path, files[n].content, licensed, Classified(files[n].content), "candidate")

Tables(source, licensed, files, m, f) ==
  f = [n \in 0..m |-> IF n = 0 THEN candidates ELSE WithFile(f[n - 1], source, licensed, files, n)]

\* The recursion of Imported defines a function.
LEMMA TablesExist ==
  ASSUME NEW source, NEW licensed, NEW files, NEW m \in Nat
  PROVE  \E f : Tables(source, licensed, files, m, f)
<1>. DEFINE Missing == {k \in Nat : ~ \E f : Tables(source, licensed, files, k, f)}
<1>1. SUFFICES Missing = {}
  OBVIOUS
<1>2. SUFFICES ASSUME Missing # {}
               PROVE  FALSE
  OBVIOUS
<1>3. PICK k \in Missing : \A n \in Missing : k <= n
  <2>1. Missing \in SUBSET Nat
    OBVIOUS
  <2>. HIDE DEF Missing
  <2>. QED BY <1>2, <2>1, Minimum
<1>4. CASE k = 0
  <2>. DEFINE f == [n \in 0..0 |-> candidates]
  <2>1. f = [n \in 0..0 |-> IF n = 0 THEN candidates ELSE WithFile(f[n - 1], source, licensed, files, n)]
    OBVIOUS
  <2>2. Tables(source, licensed, files, k, f)
    BY <1>4, <2>1 DEF Tables
  <2>. QED BY <1>3, <2>2
<1>5. CASE k # 0
  <2>1. k \in Nat /\ k - 1 \in Nat /\ k - 1 \notin Missing
    BY <1>3, <1>5
  <2>2. PICK f : Tables(source, licensed, files, k - 1, f)
    BY <2>1
  <2>3. \A n \in 0..(k - 1) :
          f[n] = IF n = 0 THEN candidates ELSE WithFile(f[n - 1], source, licensed, files, n)
    BY <2>2 DEF Tables
  <2>. DEFINE g == [n \in 0..k |-> IF n = k THEN WithFile(f[k - 1], source, licensed, files, k) ELSE f[n]]
  <2>4. \A n \in 0..k : g[n] = IF n = 0 THEN candidates ELSE WithFile(g[n - 1], source, licensed, files, n)
    <3>1. ASSUME NEW n \in 0..k, n = k
          PROVE  g[n] = IF n = 0 THEN candidates ELSE WithFile(g[n - 1], source, licensed, files, n)
      <4>1. g[n - 1] = f[k - 1]
        BY <2>1, <3>1
      <4>. QED BY <1>5, <3>1, <4>1
    <3>2. ASSUME NEW n \in 0..k, n # k, n # 0
          PROVE  g[n] = IF n = 0 THEN candidates ELSE WithFile(g[n - 1], source, licensed, files, n)
      <4>1. n \in 0..(k - 1) /\ n - 1 \in 0..k /\ n - 1 # k
        BY <2>1, <3>2
      <4>2. g[n] = f[n] /\ g[n - 1] = f[n - 1]
        BY <3>2, <4>1
      <4>. QED BY <2>3, <3>2, <4>1, <4>2
    <3>3. ASSUME NEW n \in 0..k, n # k, n = 0
          PROVE  g[n] = candidates
      BY <2>1, <2>3, <3>3
    <3>. HIDE DEF g
    <3>. QED BY <3>1, <3>2, <3>3
  <2>5. g = [n \in 0..k |-> g[n]]
    OBVIOUS
  <2>. HIDE DEF g
  <2>6. Tables(source, licensed, files, k, g)
    BY <2>4, <2>5 DEF Tables
  <2>. QED BY <1>3, <2>6
<1>. QED BY <1>4, <1>5

LEMMA ImportedIsLast ==
  ASSUME NEW source, NEW licensed, NEW files, Len(files) \in Nat
  PROVE  \E f : Tables(source, licensed, files, Len(files), f) /\ Imported(source, licensed, files) = f[Len(files)]
<1>. DEFINE table == CHOOSE f : Tables(source, licensed, files, Len(files), f)
<1>1. \E f : Tables(source, licensed, files, Len(files), f)
  BY TablesExist
<1>2. Tables(source, licensed, files, Len(files), table)
  BY <1>1
<1>3. Imported(source, licensed, files) = table[Len(files)]
  BY DEF Imported, WithFile, Tables
<1>. HIDE DEF table
<1>. QED BY <1>2, <1>3

\* What a scan imports is a table in order, with the rows there were.
LEMMA ImportKeeps ==
  ASSUME IsFiniteSet(Candidates), TableOK(candidates), NEW source \in Sources \cup {None}, NEW licensed \in BOOLEAN,
         NEW files \in Files, Cardinality(Candidates \ Rows(candidates)) >= Len(files)
  PROVE  TableOK(Imported(source, licensed, files)) /\ Keeps(candidates, Imported(source, licensed, files))
<1>1. Len(files) \in Nat /\ \A n \in 1..Len(files) : files[n] \in [path : Paths, content : Contents]
  <2>1. \A S : \A q \in Seq(S) : Len(q) \in Nat /\ \A n \in 1..Len(q) : q[n] \in S
    OBVIOUS
  <2>. QED BY <2>1 DEF Files
<1>. DEFINE free(cs) == Candidates \ Rows(cs)
<1>2. PICK f : Tables(source, licensed, files, Len(files), f) /\ Imported(source, licensed, files) = f[Len(files)]
  BY <1>1, ImportedIsLast
<1>3. /\ f[0] = candidates
      /\ \A n \in 1..Len(files) : f[n] = WithFile(f[n - 1], source, licensed, files, n)
  BY <1>1, <1>2 DEF Tables
<1>. DEFINE Good(n) == /\ TableOK(f[n]) /\ Keeps(candidates, f[n])
                       /\ Cardinality(free(f[n])) >= Len(files) - n
            Bad == {n \in 0..Len(files) : ~Good(n)}
<1>4. SUFFICES Bad = {}
  <2>1. ASSUME Bad = {}
        PROVE  Good(Len(files))
    <3>1. Len(files) \in 0..Len(files)
      BY <1>1
    <3>. HIDE DEF Good
    <3>. QED BY <2>1, <3>1
  <2>. QED BY <1>2, <2>1
<1>5. SUFFICES ASSUME Bad # {}
               PROVE  FALSE
  OBVIOUS
<1>6. PICK k \in Bad : \A n \in Bad : k <= n
  <2>1. Bad \in SUBSET Nat
    BY <1>1
  <2>. HIDE DEF Bad
  <2>. QED BY <1>5, <2>1, Minimum
<1>7. k \in 0..Len(files) /\ ~Good(k) /\ \A n \in 0..Len(files) : n < k => Good(n)
  BY <1>1, <1>6
<1>. HIDE DEF Bad
<1>8. CASE k = 0
  <2>1. Keeps(candidates, candidates)
    BY DEF Keeps
  <2>2. f[k] = candidates /\ Len(files) - k = Len(files)
    BY <1>1, <1>3, <1>8
  <2>. QED BY <1>7, <2>1, <2>2
<1>9. CASE k # 0
  <2>1. k - 1 \in 0..Len(files) /\ k \in 1..Len(files) /\ k \in Nat
    BY <1>1, <1>7, <1>9
  <2>2. PICK cs, new : cs = f[k - 1] /\ new = f[k]
    OBVIOUS
  <2>3. TableOK(cs) /\ Keeps(candidates, cs) /\ Cardinality(free(cs)) >= Len(files) - (k - 1)
    BY <1>7, <2>1, <2>2
  <2>4. free(cs) \in SUBSET Candidates /\ free(new) \in SUBSET Candidates
    OBVIOUS
  <2>5. /\ IsFiniteSet(free(cs)) /\ IsFiniteSet(free(new))
        /\ Cardinality(free(cs)) \in Nat /\ Cardinality(free(new)) \in Nat
    <3>. HIDE DEF free
    <3>. QED BY <2>4, Counted
  <2>6. Rows(cs) # Candidates
    <3>1. Cardinality(free(cs)) # 0
      <4>. HIDE DEF free
      <4>. QED BY <1>1, <2>1, <2>3, <2>5
    <3>. QED BY <3>1, FS_EmptySet
  <2>7. files[k].path \in Paths /\ files[k].content \in Contents /\ Classified(files[k].content) \in Types
    <3>1. files[k] \in [path : Paths, content : Contents]
      BY <1>1, <2>1
    <3>. QED BY <3>1, ClassifiedTyped
  <2>8. new = WithCandidate(cs, source, files[k].path, files[k].content, licensed,
                            Classified(files[k].content), "candidate")
    BY <1>3, <2>1, <2>2 DEF WithFile
  <2>9. /\ TableOK(new) /\ Keeps(cs, new)
        /\ \E c \in Candidates : Rows(new) \subseteq Rows(cs) \cup {c}
    <3>1. "candidate" \in CandidateStates
      BY DEF CandidateStates
    <3>. QED BY <2>3, <2>6, <2>7, <2>8, <3>1, WithCandidateKeeps
  <2>10. PICK c \in Candidates : Rows(new) \subseteq Rows(cs) \cup {c}
    BY <2>9
  <2>11. Keeps(candidates, new)
    BY <2>3, <2>9 DEF Keeps, Rows
  <2>12. Cardinality(free(cs) \ {c}) >= Cardinality(free(cs)) - 1
    <3>1. PICK F : F = free(cs)
      OBVIOUS
    <3>2. IsFiniteSet(F) /\ Cardinality(F) \in Nat
      BY <2>5, <3>1
    <3>3. Cardinality(F \ {c}) = IF c \in F THEN Cardinality(F) - 1 ELSE Cardinality(F)
      BY <3>2, FS_RemoveElement
    <3>4. Cardinality(F \ {c}) >= Cardinality(F) - 1
      BY <3>2, <3>3
    <3>. QED BY <3>1, <3>4
  <2>13. Cardinality(free(new)) >= Cardinality(free(cs) \ {c})
    <3>1. free(cs) \ {c} \subseteq free(new)
      BY <2>10
    <3>2. Cardinality(free(cs) \ {c}) <= Cardinality(free(new))
      <4>. HIDE DEF free
      <4>. QED BY <2>5, <3>1, FS_Subset
    <3>3. Cardinality(free(cs) \ {c}) \in Nat
      <4>1. free(cs) \ {c} \in SUBSET Candidates
        OBVIOUS
      <4>. HIDE DEF free
      <4>. QED BY <4>1, Counted
    <3>. HIDE DEF free
    <3>. QED BY <2>5, <3>2, <3>3
  <2>14. Cardinality(free(new)) >= Len(files) - k
    <3>1. Cardinality(free(cs) \ {c}) \in Nat
      <4>1. free(cs) \ {c} \in SUBSET Candidates
        OBVIOUS
      <4>. HIDE DEF free
      <4>. QED BY <4>1, Counted
    <3>. HIDE DEF free
    <3>. QED BY <1>1, <2>1, <2>3, <2>5, <2>12, <2>13, <3>1
  <2>. QED BY <1>7, <2>2, <2>9, <2>11, <2>14
<1>. QED BY <1>8, <1>9

-----------------------------------------------------------------------------
(* The marketplace.                                                        *)

ScanRow == [source : Sources, row : SourceRow]

MarketInv == SkillsInv /\ CandidatesAreSound

LEMMA MarketParts ==
  ASSUME TypeOK
  PROVE  CandidatesAreSound <=> /\ sources \in [Sources -> SourceRow \cup {NoSource}]
                                /\ scans \in [Scans -> {NoScan} \cup ScanRow]
                                /\ TableOK(candidates) /\ CandidatesConvertOnce
BY DEF CandidatesAreSound, MarketTypeOK, TableOK, CandidatesAreDistinct, Distinct,
       DuplicatesAreReviewed, Reviewed, ScanRow

\* A step of the marketplace that makes no skill and takes no mark away.
LEMMA MarketChanges ==
  ASSUME MarketInv, UNCHANGED skillVars, TableOK(candidates)',
         \A c \in Candidates : candidates[c].state = "converted" => candidates'[c].state = "converted",
         sources' \in [Sources -> SourceRow \cup {NoSource}], scans' \in [Scans -> {NoScan} \cup ScanRow]
  PROVE  MarketInv' /\ VersionsStand
<1>1. SkillsInv' /\ VersionsStand
  <2>1. UNCHANGED <<skills, versions, reviews, proposals, assignments, links>> /\ WorkspaceOK'
    BY DEF skillVars, MarketInv, SkillsInv, TypeOK, WorkspaceOK, WorkspaceTyped
  <2>. QED BY <2>1, WorkspaceChanges DEF MarketInv
<1>2. skills \in [Skills -> SkillRow \cup {NoSkill, Deleted}]
  BY DEF MarketInv, SkillsInv, TypeOK
<1>3. \A id \in Skills : Live(id) => skills[id].from \in Candidates \cup {None}
  BY RowKinds DEF MarketInv, SkillsInv, SkillRow
<1>4. skills' = skills /\ \A id \in Skills : Live(id)' <=> Live(id)
  BY DEF skillVars, Live
<1>5. CandidatesConvertOnce'
  BY <1>3, <1>4 DEF MarketInv, CandidatesAreSound, CandidatesConvertOnce
<1>6. TypeOK'
  BY <1>1 DEF SkillsInv
<1>7. CandidatesAreSound'
  BY <1>5, <1>6, MarketParts DEF MarketTypeOK, CandidatesAreSound, TableOK, CandidatesAreDistinct, Distinct,
     DuplicatesAreReviewed, Reviewed, ScanRow, Rows
<1>. QED BY <1>1, <1>7 DEF MarketInv

\* A table to which rows are only added keeps its marks.
LEMMA KeptMarks ==
  ASSUME NEW new, Keeps(candidates, new)
  PROVE  \A c \in Candidates : candidates[c].state = "converted" => new[c].state = "converted"
BY DEF Keeps, Rows, NoCandidate

LEMMA RegateKeeps ==
  ASSUME IsFiniteSet(Candidates), MarketInv, NEW c \in Candidates, candidates[c] # NoCandidate, NEW type \in Types,
         candidates' = [candidates EXCEPT ![c] = Regated(c, type)], UNCHANGED <<skillVars, sources, scans>>
  PROVE  MarketInv' /\ VersionsStand
<1>1. /\ TableOK(candidates) /\ candidates[c] \in CandidateRow
      /\ sources \in [Sources -> SourceRow \cup {NoSource}] /\ scans \in [Scans -> {NoScan} \cup ScanRow]
  BY MarketParts DEF MarketInv, SkillsInv, TableOK
<1>2. PICK others : others = Copies(candidates, candidates[c].content) \ {c}
  OBVIOUS
<1>3. PICK gate : gate = GateStatus(candidates[c].content, type, candidates[c].licensed, Cardinality(others))
  OBVIOUS
<1>4. gate \in {"pass", "review", "block"} /\ \A d \in others : gate # "pass"
  <2>1. others \in SUBSET Candidates
    BY <1>2 DEF Copies, Rows
  <2>. QED BY <1>3, <2>1, Counted, Gated
<1>. DEFINE row == [candidates[c] EXCEPT !.type = type, !.gate = gate]
<1>5. candidates' = [candidates EXCEPT ![c] = row]
  BY <1>2, <1>3 DEF Regated
<1>6. /\ row \in CandidateRow /\ row.gate = gate /\ row.content = candidates[c].content
      /\ row.source = candidates[c].source /\ row.path = candidates[c].path /\ row.state = candidates[c].state
  BY <1>1, <1>4 DEF CandidateRow
<1>. HIDE DEF row
<1>7. candidates'[c] = row /\ \A d \in Candidates : d # c => candidates'[d] = candidates[d]
  BY <1>1, <1>5 DEF TableOK
<1>8. candidates' \in [Candidates -> CandidateRow \cup {NoCandidate}]
  BY <1>1, <1>5, <1>6 DEF TableOK
<1>9. Rows(candidates') = Rows(candidates)
  <2>1. row # NoCandidate
    BY <1>6 DEF CandidateRow, NoCandidate
  <2>. QED BY <1>7, <2>1 DEF Rows
<1>10. Distinct(candidates')
  BY <1>1, <1>6, <1>7, <1>9 DEF Distinct, TableOK, Rows
<1>11. Reviewed(candidates')
  <2>1. \A d \in Rows(candidates) : d # c /\ candidates[d].content = candidates[c].content => gate # "pass"
    BY <1>2, <1>4 DEF Copies
  <2>. QED BY <1>1, <1>6, <1>7, <1>9, <2>1 DEF Reviewed, TableOK, Rows
<1>12. TableOK(candidates)'
  BY <1>8, <1>10, <1>11 DEF TableOK, Distinct, Reviewed, Rows
<1>13. \A d \in Candidates : candidates[d].state = "converted" => candidates'[d].state = "converted"
  BY <1>6, <1>7
<1>. QED BY <1>1, <1>12, <1>13, MarketChanges

LEMMA ConvertKeeps ==
  ASSUME SkillMarketplaceAssumption, AgentSkillsAssumption, MarketInv, NEW c \in Candidates, NEW id \in Skills,
         NEW slug \in Slugs, NEW body \in Bodies, Convert(c, id, slug, body)
  PROVE  MarketInv' /\ VersionsStand
<1>. USE AgentSkillsAssumption
<1>1. PICK row \in SkillRow :
        /\ row.from = c /\ skills' = [skills EXCEPT ![id] = row]
        /\ versions' = [versions EXCEPT ![id] = Recorded(versions[id], row.body)]
  BY InsertIsAWriting DEF Convert, MarketInv
<1>2. /\ skills[id] = NoSkill /\ UNCHANGED <<reviews, proposals, assignments, links, local, sources, scans>>
      /\ candidates' = [candidates EXCEPT ![c].state = "converted"]
      /\ candidates[c] # NoCandidate /\ candidates[c].state # "converted"
  BY DEF Convert, Insert, Convertible
<1>3. SkillsInv' /\ VersionsStand
  BY <1>1, <1>2, WritingKeepsSkills DEF MarketInv
<1>4. /\ TableOK(candidates) /\ candidates[c] \in CandidateRow /\ CandidatesConvertOnce
      /\ sources \in [Sources -> SourceRow \cup {NoSource}] /\ scans \in [Scans -> {NoScan} \cup ScanRow]
  BY <1>2, MarketParts DEF MarketInv, SkillsInv, TableOK
<1>. DEFINE marked == [candidates[c] EXCEPT !.state = "converted"]
<1>5. candidates' = [candidates EXCEPT ![c] = marked]
  BY <1>2
<1>6. /\ marked \in CandidateRow /\ marked.state = "converted" /\ marked.content = candidates[c].content
      /\ marked.source = candidates[c].source /\ marked.path = candidates[c].path /\ marked.gate = candidates[c].gate
  BY <1>4 DEF CandidateRow, CandidateStates
<1>. HIDE DEF marked
<1>7. candidates'[c] = marked /\ \A d \in Candidates : d # c => candidates'[d] = candidates[d]
  BY <1>4, <1>5 DEF TableOK
<1>8. candidates' \in [Candidates -> CandidateRow \cup {NoCandidate}]
  BY <1>4, <1>5, <1>6 DEF TableOK
<1>9. Rows(candidates') = Rows(candidates)
  <2>1. marked # NoCandidate
    BY <1>6 DEF CandidateRow, NoCandidate
  <2>. QED BY <1>2, <1>7, <2>1 DEF Rows
<1>10. Distinct(candidates') /\ Reviewed(candidates')
  BY <1>4, <1>6, <1>7, <1>9 DEF Distinct, Reviewed, TableOK, Rows
<1>11. TableOK(candidates)'
  BY <1>8, <1>10 DEF TableOK, Distinct, Reviewed, Rows
<1>12. /\ skills'[id] = row /\ \A i \in Skills : i # id => skills'[i] = skills[i] /\ (Live(i)' <=> Live(i))
  BY <1>1 DEF MarketInv, SkillsInv, TypeOK, Live
<1>13. \A i \in Skills : Live(i) /\ skills[i].from # None =>
         /\ skills[i].from \in Candidates /\ skills[i].from # c /\ candidates'[skills[i].from].state = "converted"
  <2>1. ASSUME NEW i \in Skills, Live(i), skills[i].from # None
        PROVE  /\ skills[i].from \in Candidates /\ skills[i].from # c
               /\ candidates'[skills[i].from].state = "converted"
    <3>1. candidates[skills[i].from].state = "converted"
      BY <1>4, <2>1 DEF CandidatesConvertOnce
    <3>2. skills[i].from \in Candidates
      BY <2>1, RowKinds DEF MarketInv, SkillsInv, SkillRow
    <3>. QED BY <1>2, <1>7, <3>1, <3>2
  <2>. QED BY <2>1
<1>14. CandidatesConvertOnce'
  <2>1. ASSUME NEW i \in Skills, Live(i)', skills'[i].from # None
        PROVE  /\ candidates'[skills'[i].from].state = "converted"
               /\ \A other \in Skills : Live(other)' /\ skills'[other].from = skills'[i].from => other = i
    <3>1. CASE i = id
      BY <1>1, <1>6, <1>7, <1>12, <1>13, <2>1, <3>1
    <3>2. CASE i # id
      <4>1. Live(i) /\ skills'[i] = skills[i] /\ skills[i].from # c
        BY <1>12, <1>13, <2>1, <3>2
      <4>2. \A other \in Skills : Live(other)' /\ skills'[other].from = skills'[i].from => other = i
        BY <1>1, <1>4, <1>12, <2>1, <4>1 DEF CandidatesConvertOnce
      <4>. QED BY <1>13, <2>1, <4>1, <4>2
    <3>. QED BY <3>1, <3>2
  <2>. QED BY <2>1 DEF CandidatesConvertOnce
<1>15. CandidatesAreSound'
  <2>1. TypeOK' /\ sources' = sources /\ scans' = scans
    BY <1>2, <1>3 DEF SkillsInv
  <2>. QED BY <1>4, <1>11, <1>14, <2>1, MarketParts DEF MarketTypeOK, CandidatesAreSound, TableOK,
     CandidatesAreDistinct, Distinct, DuplicatesAreReviewed, Reviewed, ScanRow, Rows
<1>. QED BY <1>3, <1>15 DEF MarketInv

\* Whatever happens to skills, their origins stay marked.
LEMMA SkillStepKeepsMarket ==
  ASSUME MarketInv, SkillsInv', OriginsStay, UNCHANGED marketVars
  PROVE  MarketInv'
<1>1. /\ TableOK(candidates) /\ CandidatesConvertOnce
      /\ sources \in [Sources -> SourceRow \cup {NoSource}] /\ scans \in [Scans -> {NoScan} \cup ScanRow]
  BY MarketParts DEF MarketInv, SkillsInv
<1>2. CandidatesConvertOnce'
  BY <1>1 DEF CandidatesConvertOnce, OriginsStay, marketVars
<1>3. TypeOK'
  BY DEF SkillsInv
<1>4. CandidatesAreSound'
  BY <1>1, <1>2, <1>3 DEF MarketTypeOK, CandidatesAreSound, TableOK, CandidatesAreDistinct, Distinct,
     DuplicatesAreReviewed, Reviewed, ScanRow, Rows, marketVars
<1>. QED BY <1>4 DEF MarketInv

LEMMA ScanKeeps ==
  ASSUME SkillMarketplaceAssumption, MarketInv, NEW n \in Scans,
         \/ \E s \in Sources : StartScan(n, s)
         \/ FailScan(n)
         \/ \E files \in SeqOf([path : Paths, content : Contents], MaxFiles) : FinishScan(n, files)
  PROVE  MarketInv' /\ VersionsStand
<1>. USE SkillMarketplaceAssumption
<1>1. /\ TableOK(candidates)
      /\ sources \in [Sources -> SourceRow \cup {NoSource}] /\ scans \in [Scans -> {NoScan} \cup ScanRow]
  BY MarketParts DEF MarketInv, SkillsInv
<1>2. ASSUME NEW s \in Sources, StartScan(n, s)
      PROVE  MarketInv' /\ VersionsStand
  <2>1. sources[s] \in SourceRow
    BY <1>1, <1>2 DEF StartScan
  <2>2. scans' \in [Scans -> {NoScan} \cup ScanRow]
    BY <1>1, <1>2, <2>1 DEF StartScan, ScanRow
  <2>3. UNCHANGED <<skillVars, sources, candidates>>
    BY <1>2 DEF StartScan
  <2>4. TableOK(candidates)'
    BY <1>1, <2>3 DEF TableOK, Distinct, Reviewed, Rows
  <2>. QED BY <1>1, <2>2, <2>3, <2>4, MarketChanges
<1>3. CASE FailScan(n)
  <2>1. scans' \in [Scans -> {NoScan} \cup ScanRow] /\ UNCHANGED <<skillVars, sources, candidates>>
    BY <1>1, <1>3 DEF FailScan
  <2>2. TableOK(candidates)'
    BY <1>1, <2>1 DEF TableOK, Distinct, Reviewed, Rows
  <2>. QED BY <1>1, <2>1, <2>2, MarketChanges
<1>4. ASSUME NEW files \in SeqOf([path : Paths, content : Contents], MaxFiles), FinishScan(n, files)
      PROVE  MarketInv' /\ VersionsStand
  <2>1. files \in Files
    <3>1. PICK m \in 0..MaxFiles : files \in [1..m -> [path : Paths, content : Contents]]
      BY DEF SeqOf
    <3>2. \A S : \A k \in Nat : \A q \in [1..k -> S] : q \in Seq(S)
      OBVIOUS
    <3>3. m \in Nat
      OBVIOUS
    <3>. HIDE SkillMarketplaceAssumption
    <3>. QED BY <3>1, <3>2, <3>3 DEF Files
  <2>2. scans[n] \in ScanRow
    BY <1>1, <1>4 DEF FinishScan
  <2>3. PICK source, licensed : source = scans[n].source /\ licensed = scans[n].row.licensed
    OBVIOUS
  <2>4. source \in Sources /\ licensed \in BOOLEAN
    BY <2>2, <2>3 DEF ScanRow, SourceRow
  <2>5. /\ candidates' = Imported(source, licensed, files) /\ UNCHANGED <<skillVars, sources>>
        /\ Cardinality(Candidates \ Rows(candidates)) >= Len(files)
        /\ scans' = [scans EXCEPT ![n] = NoScan]
    BY <1>4, <2>3 DEF FinishScan
  <2>6. TableOK(candidates') /\ Keeps(candidates, candidates')
    BY <1>1, <2>1, <2>4, <2>5, ImportKeeps
  <2>7. TableOK(candidates)'
    BY <2>6 DEF TableOK, Distinct, Reviewed, Rows
  <2>8. scans' \in [Scans -> {NoScan} \cup ScanRow]
    BY <1>1, <2>5
  <2>. QED BY <1>1, <2>5, <2>6, <2>7, <2>8, KeptMarks, MarketChanges
<1>. QED BY <1>2, <1>3, <1>4

LEMMA SubmitKeeps ==
  ASSUME SkillMarketplaceAssumption, MarketInv, NEW source \in Sources \cup {None}, NEW path \in Paths \cup {None},
         NEW content \in Contents, NEW form \in Submissions, Submit(source, path, content, form)
  PROVE  MarketInv' /\ VersionsStand
<1>. USE SkillMarketplaceAssumption
<1>1. /\ TableOK(candidates)
      /\ sources \in [Sources -> SourceRow \cup {NoSource}] /\ scans \in [Scans -> {NoScan} \cup ScanRow]
  BY MarketParts DEF MarketInv, SkillsInv
<1>2. PICK license \in BOOLEAN : license = (form.licensed \/ (source # None /\ sources[source].licensed))
  OBVIOUS
<1>3. /\ candidates' = WithCandidate(candidates, source, path, content, license, form.type, form.state)
      /\ Rows(candidates) # Candidates /\ UNCHANGED <<skillVars, sources, scans>>
  BY <1>2 DEF Submit
<1>4. form.type \in Types /\ form.state \in CandidateStates
  OBVIOUS
<1>5. TableOK(candidates') /\ Keeps(candidates, candidates')
  BY <1>1, <1>3, <1>4, WithCandidateKeeps
<1>6. TableOK(candidates)'
  BY <1>5 DEF TableOK, Distinct, Reviewed, Rows
<1>. QED BY <1>1, <1>3, <1>5, <1>6, KeptMarks, MarketChanges

LEMMA MarketStep ==
  ASSUME AgentSkillsAssumption, SkillMarketplaceAssumption, MarketInv, MarketNext
  PROVE  MarketInv' /\ VersionsStand
<1>. USE SkillMarketplaceAssumption
<1>1. /\ TableOK(candidates)
      /\ sources \in [Sources -> SourceRow \cup {NoSource}] /\ scans \in [Scans -> {NoScan} \cup ScanRow]
  BY MarketParts DEF MarketInv, SkillsInv
<1>2. ASSUME NEW s \in Sources, NEW row \in SourceRows, AddSource(s, row) \/ EditSource(s, row)
      PROVE  MarketInv' /\ VersionsStand
  <2>1. /\ sources' \in [Sources -> SourceRow \cup {NoSource}]
        /\ UNCHANGED <<skillVars, candidates, scans>>
    BY <1>1, <1>2 DEF AddSource, EditSource
  <2>2. TableOK(candidates)'
    BY <1>1, <2>1 DEF TableOK, Distinct, Reviewed, Rows
  <2>. QED BY <1>1, <2>1, <2>2, MarketChanges
<1>3. ASSUME NEW c \in Candidates, Classify(c) \/ EvaluateGates(c)
      PROVE  MarketInv' /\ VersionsStand
  <2>1. CASE Classify(c)
    BY <2>1, ClassifiedTyped, RegateKeeps DEF Classify
  <2>2. CASE EvaluateGates(c)
    <3>1. candidates[c].type \in Types
      BY <1>1, <2>2 DEF EvaluateGates, TableOK, CandidateRow
    <3>. QED BY <2>2, <3>1, RegateKeeps DEF EvaluateGates
  <2>. QED BY <1>3, <2>1, <2>2
<1>. QED BY <1>2, <1>3, ScanKeeps, SubmitKeeps, ConvertKeeps DEF MarketNext

LEMMA MarketStutters ==
  ASSUME MarketInv, UNCHANGED vars
  PROVE  MarketInv' /\ VersionsStand
<1>1. /\ TableOK(candidates)
      /\ sources \in [Sources -> SourceRow \cup {NoSource}] /\ scans \in [Scans -> {NoScan} \cup ScanRow]
  BY MarketParts DEF MarketInv, SkillsInv
<1>2. UNCHANGED <<skillVars, sources, candidates, scans>>
  BY DEF vars, marketVars
<1>3. TableOK(candidates)'
  BY <1>1, <1>2 DEF TableOK, Distinct, Reviewed, Rows
<1>. QED BY <1>1, <1>2, <1>3, MarketChanges

LEMMA MarketStarts ==
  ASSUME AgentSkillsAssumption, MarketInit
  PROVE  MarketInv
<1>1. SkillsInv
  BY SkillsInit DEF MarketInit
<1>2. Rows(candidates) = {}
  BY DEF MarketInit, Rows
<1>3. /\ TableOK(candidates)
      /\ sources \in [Sources -> SourceRow \cup {NoSource}] /\ scans \in [Scans -> {NoScan} \cup ScanRow]
  BY <1>2 DEF MarketInit, TableOK, Distinct, Reviewed
<1>4. \A id \in Skills : Live(id) => skills[id].from = None
  BY DEF MarketInit, Init, Live, NoSkill
<1>5. CandidatesConvertOnce
  BY <1>4 DEF CandidatesConvertOnce
<1>. QED BY <1>1, <1>3, <1>5, MarketParts DEF MarketInv, SkillsInv

LEMMA MarketNextKeeps ==
  ASSUME AgentSkillsAssumption, SkillMarketplaceAssumption, MarketInv, [Next]_vars
  PROVE  MarketInv' /\ VersionsStand
<1>1. ASSUME SkillNext, UNCHANGED marketVars
      PROVE  MarketInv' /\ VersionsStand
  BY <1>1, SkillStep, SkillStepKeepsMarket DEF MarketInv
<1>. QED BY <1>1, MarketStep, MarketStutters DEF Next

LEMMA MarketStays == Spec => []MarketInv
<1>1. MarketInit => MarketInv
  BY MarketStarts, AgentSkillsAssumption
<1>2. MarketInv /\ [Next]_vars => MarketInv'
  BY MarketNextKeeps, AgentSkillsAssumption, SkillMarketplaceAssumption
<1>. QED BY <1>1, <1>2, PTL DEF Spec

\* However scans, submissions, classifications and conversions interleave, the same text of
\* the same place is one candidate, of its copies at most one passes the gates unseen, and
\* a candidate becomes one skill (createSkillCandidateRecord, evaluateCandidateGates and
\* the conversion route of routes/skills.ts).
THEOREM CandidatesStaySound == Spec => []CandidatesAreSound
BY MarketStays, PTL DEF MarketInv

\* Whoever changes a skill, by an edit, a review, a harness proposal or a conversion, the
\* text it gets is recorded, once, and no version that is recorded changes as long as the
\* skill is there (createSkillVersion and its callers).
THEOREM HistoriesAreKept == Spec => HistoryIsKept
<1>1. MarketInv => TextsAreRecorded
  BY DEF MarketInv, SkillsInv
<1>2. MarketInv /\ [Next]_vars => [\A id \in Skills : Live(id)' => IsPrefix(versions[id], versions'[id])]_skillVars
  BY MarketNextKeeps, AgentSkillsAssumption, SkillMarketplaceAssumption DEF VersionsStand
<1>. QED BY <1>1, <1>2, MarketStays, PTL DEF Spec, HistoryIsKept, VersionsAreImmutable

\* Slugs stay apart in the whole marketplace, where conversions insert skills too.
LEMMA SlugsStay == Spec => []SlugsDiffer
<1>1. MarketInit => SlugsDiffer
  BY AgentSkillsAssumption DEF AgentSkillsAssumption, MarketInit, Init, SlugsDiffer, Live, NoSkill, IsInjective
<1>2. MarketInv /\ SlugsDiffer /\ [Next]_vars => SlugsDiffer'
  <2>. SUFFICES ASSUME MarketInv, SlugsDiffer, [Next]_vars
                PROVE  SlugsDiffer'
    OBVIOUS
  <2>1. SkillsInv
    BY DEF MarketInv
  <2>2. CASE UNCHANGED skills
    BY <2>2 DEF SlugsDiffer, Live
  <2>3. ASSUME NEW c \in Candidates, NEW id \in Skills, NEW slug \in Slugs, NEW body \in Bodies,
               Convert(c, id, slug, body)
        PROVE  SlugsDiffer'
    BY <2>1, <2>3, InsertsKeepSlugs DEF Convert
  <2>4. CASE SkillNext
    BY <2>1, <2>4, SlugsStayApart
  <2>5. CASE MarketNext
    <3>1. ASSUME ~(\E c \in Candidates, id \in Skills, slug \in Slugs, body \in Bodies : Convert(c, id, slug, body))
          PROVE  UNCHANGED skills
      BY <2>5, <3>1 DEF MarketNext, AddSource, EditSource, StartScan, FailScan, FinishScan, Submit,
                        Classify, EvaluateGates, skillVars
    <3>. QED BY <2>2, <2>3, <3>1
  <2>6. CASE UNCHANGED vars
    BY <2>2, <2>6 DEF vars, skillVars
  <2>. QED BY <2>4, <2>5, <2>6 DEF Next
<1>. QED BY <1>1, <1>2, MarketStays, PTL DEF Spec

\* Whatever manifest, files and edits it finds, a sync that installs what the registry lists
\* at that moment installs all that is assigned; under --force every SKILL.md becomes the
\* registry's text, otherwise none that exists is lost; and the check reports drift exactly
\* when some SKILL.md is not the newest version (installAgentSkills of cli/src/skills.ts).
THEOREM SyncsEndDrift == Spec => SyncEndsDrift
<1>1. MarketInv /\ SlugsDiffer /\ [Next]_vars =>
        [\A force \in BOOLEAN : SyncInstall(TRUE, force) /\ local.catalog = Catalog =>
           /\ Assigned' \subseteq DOMAIN local'.manifest
           /\ Drift' <=> \E e \in Installed' : local'.files[e.slug] # e.hash
           /\ force => \A e \in Installed' : local'.files[e.slug] = e.rendered
           /\ ~force => \A s \in DOMAIN local.files : local'.files[s] = local.files[s]]_skillVars
  BY SyncEnds DEF MarketInv
<1>. QED BY <1>1, MarketStays, SlugsStay, PTL DEF Spec, SyncEndsDrift
=============================================================================
