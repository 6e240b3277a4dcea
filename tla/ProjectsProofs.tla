--------------------------- MODULE ProjectsProofs ---------------------------
(***************************************************************************)
(* Machine-checked proofs about Projects and Evidence, for any             *)
(* repositories, types, workspaces, policies, sessions, specs and          *)
(* sections, and any number of attestations, events and reports.           *)
(*                                                                         *)
(* Nothing in agent_sessions refers to the project of a session.  What     *)
(* keeps it is that a ready session is named by a context event, that a    *)
(* report which would replace a named row fails, and that a row never      *)
(* changes its type.                                                       *)
(*                                                                         *)
(* The reports are proved about in three parts: what is stored of runs     *)
(* (EvidenceIInv), what the token reports sum (Recording) and what the     *)
(* audits compare (Library).                                               *)
(***************************************************************************)
EXTENDS Evidence, FiniteSetTheorems, WellFoundedInduction, TLAPS

\* An id in use has been given out.
RowsAreIssued == \A i \in Ids : Live(i) => i \in issued

\* A row that context events, specs or usage reports name is there.
ReferencesStand == \A i \in referenced : Live(i)

\* The project of a session that passed preflight is named by a context event.
SessionsAreReferenced ==
  \A x \in Sessions :
    sessions[x] # NoSession /\ sessions[x].preflight = "ready" /\ sessions[x].consumer # NoId =>
      /\ sessions[x].consumer \in referenced
      /\ consumers[sessions[x].consumer].type = sessions[x].type

\* A session is linked to an attestation that was recorded.
LinksAreRows ==
  \A x \in Sessions : sessions[x] # NoSession => sessions[x].attestation <= Len(attestations)

\* The attestation of a session is of its type and says what the session's status
\* says, and no other session is linked to it.
LinksAreOwn ==
  \A x \in Sessions : sessions[x] # NoSession =>
    /\ sessions[x].attestation # NoAttestation =>
         /\ attestations[sessions[x].attestation].type = sessions[x].type
         /\ attestations[sessions[x].attestation].compliant <=> sessions[x].status = "completed"
         /\ \A y \in Sessions \ {x} :
              sessions[y] = NoSession \/ sessions[y].attestation # sessions[x].attestation
    /\ sessions[x].status = "completed" /\ sessions[x].repo # NoRepo =>
         sessions[x].attestation # NoAttestation

\* The attestations of the n-th one's repository, up to it.
UpTo(rows, n) == {k \in 1..n : rows[k].repo = rows[n].repo}

\* An attestation carries its number among those of its repository.
Numbered ==
  \A n \in DOMAIN attestations :
    attestations[n].iteration = IF attestations[n].repo = NoRepo THEN 1 ELSE Cardinality(UpTo(attestations, n))

IInv ==
  /\ TypeOK /\ OneProjectPerRepo /\ RowsAreIssued /\ ReferencesStand
  /\ SessionsAreReferenced /\ LinksAreRows /\ LinksAreOwn /\ Numbered

-----------------------------------------------------------------------------
(* What a step does with the rows of projects.                             *)

ProjectRow == [row : {"consumer"}, repo : Repos, type : Types]

Telemetry ==
  /\ consumers \in [Ids -> ProjectRow \cup {NoConsumer}]
  /\ issued \subseteq Ids
  /\ manifests \in [Ids -> Manifests \cup {NoManifest}]
  /\ states \in [Ids -> [Workspaces -> Edits \cup {NoEdits}]]
  /\ traces \in [Ids -> Traces \cup {NoTrace}]

\* Rows stay one per repository and type, and those that are named stay, of their type.
Kept ==
  /\ Telemetry' /\ issued \subseteq issued'
  /\ OneProjectPerRepo' /\ RowsAreIssued'
  /\ \A i \in referenced : Live(i)' /\ consumers'[i].type = consumers[i].type

LEMMA ConsumerRows ==
  /\ \A repo \in Repos, type \in Types :
       /\ Consumer(repo, type) \in ProjectRow
       /\ Consumer(repo, type).repo = repo /\ Consumer(repo, type).type = type
  /\ \A row \in ProjectRow : row # NoConsumer
BY DEF ProjectRow, Consumer, NoConsumer

LEMMA UnchangedKept ==
  ASSUME IInv, UNCHANGED telemetry
  PROVE  Kept
BY DEF IInv, Kept, Telemetry, telemetry, TypeOK, ProjectRow, OneProjectPerRepo, RowsAreIssued,
       ReferencesStand, Live

LEMMA ReplaceKept ==
  ASSUME IInv, NEW i \in Ids, NEW repo \in Repos, NEW type \in Types,
         NEW manifest \in Manifests \cup {NoManifest}, NEW trace \in Traces \cup {NoTrace},
         ReplaceConsumer(i, Consumer(repo, type), manifest, trace),
         Live(i) => consumers[i].type = type
  PROVE  Kept /\ consumers'[i] = Consumer(repo, type)
<1>. USE DEF IInv
<1>. DEFINE row == Consumer(repo, type)
            gone == Replaced(i, row)
<1>1. /\ consumers \in [Ids -> ProjectRow \cup {NoConsumer}] /\ issued \subseteq Ids
      /\ manifests \in [Ids -> Manifests \cup {NoManifest}]
      /\ states \in [Ids -> [Workspaces -> Edits \cup {NoEdits}]]
      /\ traces \in [Ids -> Traces \cup {NoTrace}]
      /\ row \in ProjectRow /\ row # NoConsumer /\ row.type = type
  BY ConsumerRows DEF TypeOK, ProjectRow
<1>2. \A j \in Ids : j \in gone <=> consumers[j] # NoConsumer /\ (j = i \/ consumers[j] = row)
  BY DEF Replaced, Live
<1>3. /\ consumers' = [[j \in Ids |-> IF j \in gone THEN NoConsumer ELSE consumers[j]] EXCEPT ![i] = row]
      /\ issued' = issued \cup {i}
      /\ manifests' = [[j \in Ids |-> IF j \in gone THEN NoManifest ELSE manifests[j]] EXCEPT ![i] = manifest]
      /\ states' = [j \in Ids |-> IF j \in gone THEN NoStates ELSE states[j]]
      /\ traces' = [[j \in Ids |-> IF j \in gone THEN NoTrace ELSE traces[j]] EXCEPT ![i] = trace]
      /\ (gone \ {i}) \cap referenced = {}
  BY DEF ReplaceConsumer, ReferencesHold
<1>. HIDE DEF row, gone
<1>4. /\ consumers'[i] = row
      /\ \A j \in Ids : j # i => consumers'[j] = IF j \in gone THEN NoConsumer ELSE consumers[j]
      /\ consumers' \in [Ids -> ProjectRow \cup {NoConsumer}]
  BY <1>1, <1>3
<1>5. Telemetry'
  <2>1. manifests' \in [Ids -> Manifests \cup {NoManifest}] /\ traces' \in [Ids -> Traces \cup {NoTrace}]
    BY <1>1, <1>3
  <2>2. NoStates \in [Workspaces -> Edits \cup {NoEdits}]
    BY DEF NoStates
  <2>3. states' \in [Ids -> [Workspaces -> Edits \cup {NoEdits}]]
    BY <1>1, <1>3, <2>2
  <2>. QED BY <1>1, <1>3, <1>4, <2>1, <2>3 DEF Telemetry
<1>6. OneProjectPerRepo'
  <2>. SUFFICES ASSUME NEW j \in Ids, NEW k \in Ids, consumers'[j] # NoConsumer, consumers'[j] = consumers'[k]
                PROVE  j = k
    BY DEF OneProjectPerRepo, Live
  <2>1. ASSUME NEW l \in Ids, l # i, consumers'[l] # NoConsumer
        PROVE  consumers'[l] = consumers[l] /\ consumers[l] # row
    BY <1>2, <1>4, <2>1
  <2>. QED BY <1>4, <2>1 DEF OneProjectPerRepo, Live
<1>7. RowsAreIssued'
  BY <1>3, <1>4 DEF RowsAreIssued, Live
<1>8. \A j \in referenced : Live(j)' /\ consumers'[j].type = consumers[j].type
  <2>. SUFFICES ASSUME NEW j \in referenced
                PROVE  consumers'[j] # NoConsumer /\ consumers'[j].type = consumers[j].type
    BY DEF Live, ReferencesStand
  <2>1. Live(j) /\ j \in Ids
    BY DEF ReferencesStand, Live
  <2>2. CASE j = i
    BY <1>1, <1>4, <2>1, <2>2
  <2>3. CASE j # i
    BY <1>3, <1>4, <2>1, <2>3 DEF Live
  <2>. QED BY <2>2, <2>3
<1>. QED BY <1>3, <1>4, <1>5, <1>6, <1>7, <1>8 DEF Kept, row

LEMMA EnsureKept ==
  ASSUME ProjectsAssumption, IInv, NEW i \in Ids, NEW project_id \in Ids \cup {NoId},
         NEW repo \in Repos, NEW type \in Types, NEW trace \in Traces \cup {NoTrace},
         EnsureConsumer(i, project_id, repo, type, trace)
  PROVE  Kept /\ consumers'[i] = Consumer(repo, type)
<1>1. ReplaceConsumer(i, Consumer(repo, type), NoManifest, trace)
  BY DEF EnsureConsumer
<1>2. Live(i) => consumers[i].type = type
  <2>1. ById(project_id, type) = NoId \/ consumers[ById(project_id, type)].type = type
    BY DEF ById
  <2>2. ByRepo(repo, type) = NoId \/ consumers[ByRepo(repo, type)] = Consumer(repo, type)
    BY DEF ByRepo, Matching
  <2>3. Fresh(i) => ~ Live(i)
    BY DEF Fresh, IInv, RowsAreIssued
  <2>. QED BY <2>1, <2>2, <2>3, ConsumerRows DEF EnsureConsumer
<1>. QED BY <1>1, <1>2, ReplaceKept

LEMMA ReceiveKept ==
  ASSUME ProjectsAssumption, IInv, NEW known \in Ids \cup {NoId}, NEW project_id \in Ids \cup {NoId},
         NEW repo \in Repos \cup {NoRepo}, NEW type \in Types, NEW trace \in Traces \cup {NoTrace},
         ReceiveTrace(known, project_id, repo, type, trace)
  PROVE  Kept /\ Judged(known, repo, type, trace) \in Ids \cup {NoId}
<1>1. CASE trace = NoTrace \/ (known = NoId /\ repo = NoRepo)
  <2>1. UNCHANGED telemetry
    BY <1>1 DEF ReceiveTrace
  <2>. QED BY <1>1, <2>1, UnchangedKept DEF Judged
<1>2. CASE trace # NoTrace /\ known # NoId
  <2>1. StoreTrace(known, trace) /\ known \in Ids
    BY <1>2 DEF ReceiveTrace
  <2>2. Telemetry'
    BY <2>1 DEF StoreTrace, Telemetry, IInv, TypeOK, ProjectRow
  <2>3. Kept
    BY <2>1, <2>2 DEF StoreTrace, Kept, IInv, OneProjectPerRepo, RowsAreIssued, ReferencesStand, Live
  <2>. QED BY <1>2, <2>3 DEF Judged
<1>3. CASE trace # NoTrace /\ known = NoId /\ repo # NoRepo
  <2>1. PICK i \in Ids : EnsureConsumer(i, project_id, repo, type, trace)
    BY <1>3 DEF ReceiveTrace
  <2>2. Kept /\ consumers'[i] = Consumer(repo, type)
    BY <1>3, <2>1, EnsureKept
  <2>3. (CHOOSE j \in Ids : consumers'[j] = Consumer(repo, type)) \in Ids
    BY <2>2
  <2>. QED BY <1>3, <2>2, <2>3 DEF Judged
<1>. QED BY <1>1, <1>2, <1>3

-----------------------------------------------------------------------------
(* What an evaluation does with the attestations.                          *)

\* An evaluation adds one row behind those that are there.
Attested ==
  /\ attestations' \in Seq(AttestationRow) /\ Len(attestations') <= MaxAttestations
  /\ Len(attestations') = Len(attestations) + 1
  /\ \A n \in 1..Len(attestations) : attestations'[n] = attestations[n]
  /\ Numbered'

LEMMA IntervalSize ==
  ASSUME NEW n \in Nat
  PROVE  IsFiniteSet(1..n) /\ Cardinality(1..n) = n
BY FS_Interval

LEMMA UpToFinite ==
  ASSUME NEW rows, NEW n \in Nat
  PROVE  /\ IsFiniteSet(UpTo(rows, n)) /\ Cardinality(UpTo(rows, n)) \in Nat
         /\ Cardinality(UpTo(rows, n)) <= n
<1>1. UpTo(rows, n) \subseteq 1..n
  BY DEF UpTo
<1>2. IsFiniteSet(1..n) /\ Cardinality(1..n) = n
  BY IntervalSize
<1>. QED BY <1>1, <1>2, FS_Subset, FS_CardinalityType

LEMMA AttestAdds ==
  ASSUME ProjectsAssumption, IInv, NEW consumer \in Ids \cup {NoId}, NEW repo \in Repos \cup {NoRepo},
         NEW type \in Types, NEW signals, Attest(consumer, repo, type, signals)
  PROVE  /\ Attested
         /\ attestations'[Len(attestations')].type = type
         /\ attestations'[Len(attestations')].repo = repo
<1>. USE DEF IInv
<1>. DEFINE L == Len(attestations)
            mine == {n \in DOMAIN attestations : repo # NoRepo /\ attestations[n].repo = repo}
            new == Attestation(consumer, repo, type, signals)
<1>1. /\ attestations \in Seq(AttestationRow) /\ L \in Nat /\ L < MaxAttestations
      /\ DOMAIN attestations = 1..L /\ MaxAttestations \in Nat
  BY DEF Attest, TypeOK, ProjectsAssumption
<1>2. IsFiniteSet(mine) /\ Cardinality(mine) \in Nat /\ Cardinality(mine) <= L
  <2>1. mine \subseteq 1..L
    BY <1>1
  <2>2. IsFiniteSet(1..L) /\ Cardinality(1..L) = L
    BY <1>1, IntervalSize
  <2>. HIDE DEF mine, L
  <2>. QED BY <2>1, <2>2, FS_Subset, FS_CardinalityType
<1>3. new \in AttestationRow /\ new.iteration = 1 + Cardinality(mine) /\ new.type = type /\ new.repo = repo
  <2>1. new = [type |-> type, consumer |-> consumer, repo |-> repo,
               compliant |-> signals \in GetCompliancePolicy(type), iteration |-> Iteration(repo)]
    BY DEF Attestation
  <2>2. Iteration(repo) = 1 + Cardinality(mine)
    BY DEF Iteration
  <2>3. Iteration(repo) \in 1..MaxAttestations
    <3>. HIDE DEF mine, L
    <3>. QED BY <1>1, <1>2, <2>2
  <2>4. (signals \in GetCompliancePolicy(type)) \in BOOLEAN
    OBVIOUS
  <2>. HIDE DEF mine, L, new
  <2>. QED BY <2>1, <2>2, <2>3, <2>4 DEF AttestationRow
<1>4. attestations' = Append(attestations, new)
  BY DEF Attest
<1>5. /\ attestations' \in Seq(AttestationRow) /\ Len(attestations') = L + 1 /\ L + 1 <= MaxAttestations
      /\ \A n \in 1..L : attestations'[n] = attestations[n]
      /\ attestations'[L + 1] = new
      /\ DOMAIN attestations' = 1..(L + 1)
  <2>. HIDE DEF new
  <2>. QED BY <1>1, <1>3, <1>4
<1>6. \A n \in 1..L : UpTo(attestations', n) = UpTo(attestations, n)
  <2>. SUFFICES ASSUME NEW n \in 1..L, NEW k \in 1..n
                PROVE  attestations'[k] = attestations[k] /\ attestations'[n] = attestations[n]
    BY DEF UpTo
  <2>. QED BY <1>1, <1>5
<1>7. repo # NoRepo => Cardinality(UpTo(attestations', L + 1)) = 1 + Cardinality(mine)
  <2>. SUFFICES ASSUME repo # NoRepo
                PROVE  Cardinality(UpTo(attestations', L + 1)) = 1 + Cardinality(mine)
    OBVIOUS
  <2>1. UpTo(attestations', L + 1) = mine \cup {L + 1}
    <3>1. \A k \in 1..L : attestations'[k].repo = attestations'[L + 1].repo <=> k \in mine
      BY <1>1, <1>3, <1>5
    <3>2. \A k \in mine : k \in 1..L
      BY <1>1
    <3>. HIDE DEF mine, L
    <3>. QED BY <1>1, <3>1, <3>2 DEF UpTo
  <2>2. L + 1 \notin mine
    BY <1>1
  <2>. HIDE DEF mine, L
  <2>3. Cardinality(mine \cup {L + 1}) = Cardinality(mine) + 1
    BY <1>2, <2>2, FS_AddElement
  <2>4. Cardinality(UpTo(attestations', L + 1)) = Cardinality(mine) + 1
    BY <2>1, <2>3, Zenon
  <2>. QED BY <1>2, <2>4
<1>8. Numbered'
  <2>. SUFFICES ASSUME NEW n \in 1..(L + 1)
                PROVE  attestations'[n].iteration =
                         IF attestations'[n].repo = NoRepo THEN 1 ELSE Cardinality(UpTo(attestations', n))
    BY <1>5 DEF Numbered
  <2>1. CASE n \in 1..L
    BY <1>1, <1>5, <1>6, <2>1 DEF Numbered
  <2>2. CASE n = L + 1 /\ repo # NoRepo
    BY <1>3, <1>5, <1>7, <2>2
  <2>3. CASE n = L + 1 /\ repo = NoRepo
    <3>1. mine = {}
      BY <2>3
    <3>. HIDE DEF mine, new
    <3>. QED BY <1>3, <1>5, <2>3, <3>1, FS_EmptySet
  <2>. HIDE DEF L
  <2>. QED BY <1>1, <2>1, <2>2, <2>3
<1>. QED BY <1>3, <1>5, <1>8 DEF Attested

\* The link that finish stores is the attestation it has just recorded, if the
\* evaluated repository is known.
LEMMA LatestIsLast ==
  ASSUME Attested, NEW repo, attestations'[Len(attestations')].repo = repo,
         attestations \in Seq(AttestationRow)
  PROVE  Latest(repo, attestations') = IF repo = NoRepo THEN NoAttestation ELSE Len(attestations')
<1>. DEFINE own == {n \in DOMAIN attestations' : repo # NoRepo /\ attestations'[n].repo = repo}
            last == Len(attestations')
<1>1. DOMAIN attestations' = 1..last /\ last \in Nat \ {0}
  BY DEF Attested
<1>2. CASE repo = NoRepo
  BY <1>2 DEF Latest
<1>3. CASE repo # NoRepo
  <2>1. last \in own /\ own \subseteq 1..last
    BY <1>1, <1>3
  <2>2. Latest(repo, attestations') = CHOOSE n \in own : \A k \in own : k <= n
    BY <2>1 DEF Latest
  <2>. HIDE DEF own, last
  <2>3. \A n \in own : n \in Int /\ n <= last
    BY <1>1, <2>1
  <2>4. \A n \in own : (\A k \in own : k <= n) => n = last
    BY <1>1, <2>1, <2>3
  <2>5. (CHOOSE n \in own : \A k \in own : k <= n) = last
    BY <2>1, <2>3, <2>4
  <2>. QED BY <1>3, <2>2, <2>5 DEF last
<1>. QED BY <1>2, <1>3

-----------------------------------------------------------------------------
(* The steps.                                                              *)

LEMMA InitIInv ==
  ASSUME ProjectsAssumption, Init
  PROVE  IInv
<1>1. \A i \in Ids : ~ Live(i)
  BY DEF Init, Live
<1>2. \A x \in Sessions : sessions[x] = NoSession
  BY DEF Init
<1>3. attestations \in Seq(AttestationRow) /\ Len(attestations) = 0 /\ DOMAIN attestations = {}
  BY DEF Init
<1>4. TypeOK
  <2>1. DOMAIN policy = {}
    BY DEF Init
  <2>. QED BY <1>3, <2>1 DEF Init, TypeOK, NoStates, ProjectsAssumption
<1>. QED BY <1>1, <1>2, <1>3, <1>4
         DEF IInv, OneProjectPerRepo, RowsAreIssued, ReferencesStand, SessionsAreReferenced,
             LinksAreRows, LinksAreOwn, Numbered, Init

\* Steps that neither evaluate nor touch a session.
LEMMA ReportStep ==
  ASSUME ProjectsAssumption, IInv, Kept, UNCHANGED <<referenced, sessions, attestations>>,
         DOMAIN policy' \subseteq Types \cup {AllTypes},
         \A type \in DOMAIN policy' : policy'[type] \in Policies
  PROVE  IInv'
<1>. USE DEF IInv
<1>1. TypeOK'
  BY DEF TypeOK, Kept, Telemetry, ProjectRow
<1>2. ReferencesStand' /\ SessionsAreReferenced'
  BY DEF Kept, ReferencesStand, SessionsAreReferenced
<1>. QED BY <1>1, <1>2 DEF Kept, LinksAreRows, LinksAreOwn, Numbered, UpTo

LEMMA ReferenceStep ==
  ASSUME ProjectsAssumption, IInv, NEW i \in Ids, Reference(i)
  PROVE  IInv'
<1>. USE DEF IInv
<1>1. TypeOK'
  <2>1. referenced' \subseteq issued
    BY DEF Reference, TypeOK, RowsAreIssued
  <2>. QED BY <2>1 DEF Reference, telemetry, TypeOK
<1>2. OneProjectPerRepo' /\ RowsAreIssued' /\ ReferencesStand'
  BY DEF Reference, telemetry, OneProjectPerRepo, RowsAreIssued, ReferencesStand, Live
<1>3. SessionsAreReferenced'
  BY DEF Reference, telemetry, SessionsAreReferenced
<1>. QED BY <1>1, <1>2, <1>3 DEF Reference, telemetry, LinksAreRows, LinksAreOwn, Numbered, UpTo

\* The project a request or a session means is a row of its type, or none.
LEMMA NamedRow ==
  ASSUME IInv, NEW project_id \in Ids \cup {NoId}, NEW repo, NEW type
  PROVE  /\ ById(project_id, type) \in Ids \cup {NoId} /\ Named(project_id, repo, type) \in Ids \cup {NoId}
         /\ \A i \in {ById(project_id, type), Named(project_id, repo, type)} : i # NoId =>
              Live(i) /\ consumers[i].type = type
<1>1. /\ ById(project_id, type) \in Ids \cup {NoId}
      /\ ById(project_id, type) # NoId =>
           Live(ById(project_id, type)) /\ consumers[ById(project_id, type)].type = type
  BY DEF ById, Live
<1>2. /\ ByRepo(repo, type) \in Ids \cup {NoId}
      /\ ByRepo(repo, type) # NoId =>
           Live(ByRepo(repo, type)) /\ consumers[ByRepo(repo, type)].type = type
  <2>1. CASE Matching(repo, type) = {}
    BY <2>1 DEF ByRepo
  <2>2. CASE Matching(repo, type) # {}
    <3>1. ByRepo(repo, type) \in Ids /\ consumers[ByRepo(repo, type)] = Consumer(repo, type)
      BY <2>2 DEF ByRepo, Matching
    <3>. QED BY <3>1 DEF Live, Consumer, NoConsumer
  <2>. QED BY <2>1, <2>2
<1>. QED BY <1>1, <1>2 DEF Named

LEMMA SubjectIsRepo ==
  ASSUME IInv, NEW i \in Ids \cup {NoId}, i # NoId => Live(i), NEW otherwise \in Repos \cup {NoRepo}
  PROVE  /\ RepoOf(i, otherwise) \in Repos \cup {NoRepo}
         /\ i # NoId => RepoOf(i, otherwise) \in Repos
         /\ i = NoId => RepoOf(i, otherwise) = otherwise
BY DEF RepoOf, Live, IInv, TypeOK

LEMMA BeginStep ==
  ASSUME ProjectsAssumption, IInv, NEW x \in Sessions, NEW project_id \in Ids \cup {NoId},
         NEW repo \in Repos \cup {NoRepo}, NEW type \in Types, NEW preflight \in {"ready", "blocked"},
         BeginSession(x, project_id, repo, type, preflight)
  PROVE  IInv'
<1>. USE DEF IInv
<1>. DEFINE project == Named(project_id, repo, type)
            row == [status |-> IF preflight = "ready" THEN "active" ELSE "blocked",
                    preflight |-> preflight, type |-> type, repo |-> RepoOf(project, repo),
                    consumer |-> project, finished |-> FALSE, attestation |-> NoAttestation]
<1>1. project \in Ids \cup {NoId} /\ (project # NoId => Live(project) /\ consumers[project].type = type)
  BY NamedRow
<1>2. RepoOf(project, repo) \in Repos \cup {NoRepo}
  BY <1>1, SubjectIsRepo
<1>3. /\ UNCHANGED <<consumers, issued, manifests, states, traces, policy, attestations>>
      /\ sessions' = [sessions EXCEPT ![x] = row]
      /\ referenced' = IF preflight = "ready" /\ project # NoId
                         THEN referenced \cup {project} ELSE referenced
  BY DEF BeginSession, telemetry
<1>. HIDE DEF project
<1>4. row \in SessionRow /\ row # NoSession
  BY <1>1, <1>2 DEF SessionRow, NoAttestation, NoSession, ProjectsAssumption
<1>5. /\ row.type = type /\ row.preflight = preflight /\ row.consumer = project
      /\ row.attestation = NoAttestation /\ row.status # "completed"
  OBVIOUS
<1>. HIDE DEF row
<1>6. sessions'[x] = row /\ \A y \in Sessions : y # x => sessions'[y] = sessions[y]
  BY <1>3 DEF TypeOK
<1>7. referenced \subseteq referenced' /\ referenced' \subseteq issued /\ \A i \in referenced' : Live(i)
  BY <1>1, <1>3 DEF ReferencesStand, RowsAreIssued, TypeOK, Live
<1>8. TypeOK'
  <2>1. sessions' \in [Sessions -> SessionRow \cup {NoSession}]
    BY <1>3, <1>4 DEF TypeOK
  <2>. QED BY <1>3, <1>7, <2>1 DEF TypeOK
<1>9. OneProjectPerRepo' /\ RowsAreIssued' /\ ReferencesStand'
  BY <1>3, <1>7 DEF OneProjectPerRepo, RowsAreIssued, ReferencesStand, Live
<1>10. SessionsAreReferenced'
  <2>. SUFFICES ASSUME NEW y \in Sessions, sessions'[y] # NoSession, sessions'[y].preflight = "ready",
                       sessions'[y].consumer # NoId
                PROVE  /\ sessions'[y].consumer \in referenced'
                       /\ consumers[sessions'[y].consumer].type = sessions'[y].type
    BY <1>3 DEF SessionsAreReferenced
  <2>1. CASE y = x
    BY <1>1, <1>3, <1>5, <1>6, <2>1
  <2>2. CASE y # x
    BY <1>6, <1>7, <2>2 DEF SessionsAreReferenced
  <2>. QED BY <2>1, <2>2
<1>11. LinksAreRows'
  BY <1>3, <1>5, <1>6 DEF LinksAreRows, NoAttestation, TypeOK
<1>12. LinksAreOwn'
  BY <1>3, <1>5, <1>6 DEF LinksAreOwn
<1>. QED BY <1>3, <1>8, <1>9, <1>10, <1>11, <1>12 DEF Numbered, UpTo

LEMMA CheckStep ==
  ASSUME ProjectsAssumption, IInv, NEW project_id \in Ids \cup {NoId}, NEW repo \in Repos \cup {NoRepo},
         NEW type \in Types, NEW trace \in Traces \cup {NoTrace},
         ComplianceCheck(project_id, repo, type, trace)
  PROVE  IInv'
<1>. USE DEF IInv
<1>. DEFINE project == Named(project_id, repo, type)
<1>1. project \in Ids \cup {NoId} /\ (project # NoId => Live(project))
  BY NamedRow
<1>2. RepoOf(project, repo) \in Repos \cup {NoRepo}
  BY <1>1, SubjectIsRepo
<1>3. /\ ReceiveTrace(project, project_id, repo, type, trace)
      /\ Attest(Judged(project, repo, type, trace), RepoOf(project, repo), type, Signals(project, trace))
      /\ UNCHANGED <<referenced, policy, sessions>>
  BY DEF ComplianceCheck
<1>. HIDE DEF project
<1>4. Kept /\ Judged(project, repo, type, trace) \in Ids \cup {NoId}
  BY <1>1, <1>3, ReceiveKept
<1>5. Attested
  BY <1>2, <1>3, <1>4, AttestAdds
<1>6. TypeOK'
  BY <1>3, <1>4, <1>5 DEF TypeOK, Kept, Telemetry, ProjectRow, Attested
<1>7. OneProjectPerRepo' /\ RowsAreIssued' /\ ReferencesStand' /\ SessionsAreReferenced'
  BY <1>3, <1>4 DEF Kept, ReferencesStand, SessionsAreReferenced
<1>8. LinksAreRows' /\ LinksAreOwn'
  <2>1. \A y \in Sessions : sessions[y] # NoSession =>
          sessions[y].attestation \in Nat /\ sessions[y].attestation <= Len(attestations)
    BY DEF TypeOK, SessionRow, LinksAreRows
  <2>2. Len(attestations) \in Nat
    BY DEF TypeOK
  <2>3. \A y \in Sessions : sessions[y] # NoSession /\ sessions[y].attestation # NoAttestation =>
          attestations'[sessions[y].attestation] = attestations[sessions[y].attestation]
    BY <1>5, <2>1, <2>2 DEF Attested, NoAttestation
  <2>4. LinksAreRows'
    BY <1>3, <1>5, <2>1, <2>2 DEF LinksAreRows, Attested
  <2>5. LinksAreOwn'
    BY <1>3, <2>3 DEF LinksAreOwn
  <2>. QED BY <2>4, <2>5
<1>. QED BY <1>5, <1>6, <1>7, <1>8 DEF Attested

LEMMA FinishStep ==
  ASSUME ProjectsAssumption, IInv, NEW x \in Sessions, NEW project_id \in Ids \cup {NoId},
         NEW repo \in Repos \cup {NoRepo}, NEW trace \in Traces \cup {NoTrace},
         FinishSession(x, project_id, repo, trace)
  PROVE  IInv'
<1>. USE DEF IInv
<1>. DEFINE own == sessions[x].consumer
            type == sessions[x].type
            project == IF own # NoId THEN ById(own, type) ELSE Named(project_id, repo, type)
            known == IF project # NoId THEN project ELSE own
            claimed == IF sessions[x].repo # NoRepo THEN sessions[x].repo ELSE repo
            subject == RepoOf(project, claimed)
            last == Len(attestations')
<1>1. /\ sessions[x] # NoSession
      /\ ReceiveTrace(known, project_id, repo, type, trace)
      /\ Attest(Judged(known, repo, type, trace), subject, type, Signals(known, trace))
      /\ sessions' = [sessions EXCEPT
           ![x].status = IF attestations'[last].compliant THEN "completed" ELSE "blocked",
           ![x].finished = TRUE,
           ![x].attestation = Latest(subject, attestations')]
      /\ UNCHANGED <<referenced, policy>>
  BY DEF FinishSession
<1>2. sessions[x] \in SessionRow /\ own \in Ids \cup {NoId} /\ type \in Types /\ sessions[x].repo \in Repos \cup {NoRepo}
  BY <1>1 DEF TypeOK, SessionRow
<1>3. project \in Ids \cup {NoId} /\ (project # NoId => Live(project)) /\ known \in Ids \cup {NoId}
  BY <1>2, NamedRow
<1>4. subject \in Repos \cup {NoRepo} /\ (subject = NoRepo => sessions[x].repo = NoRepo)
  <2>1. claimed \in Repos \cup {NoRepo} /\ (claimed = NoRepo => sessions[x].repo = NoRepo)
    BY <1>2
  <2>. HIDE DEF claimed, project
  <2>. QED BY <1>3, <2>1, SubjectIsRepo DEF ProjectsAssumption
<1>. HIDE DEF own, type, project, known, claimed, subject, last
<1>5. Kept /\ Judged(known, repo, type, trace) \in Ids \cup {NoId}
  BY <1>1, <1>2, <1>3, ReceiveKept
<1>6. Attested /\ attestations'[last].type = type /\ attestations'[last].repo = subject
  BY <1>1, <1>2, <1>4, <1>5, AttestAdds DEF last
<1>7. /\ last \in 1..MaxAttestations /\ last = Len(attestations) + 1 /\ Len(attestations) \in Nat
      /\ attestations'[last] \in AttestationRow
  <2>1. attestations' \in Seq(AttestationRow) /\ last = Len(attestations) + 1 /\ last <= MaxAttestations
    BY <1>6 DEF Attested, last
  <2>2. Len(attestations) \in Nat
    BY DEF TypeOK
  <2>. QED BY <2>1, <2>2 DEF last, ProjectsAssumption
<1>8. Latest(subject, attestations') = IF subject = NoRepo THEN NoAttestation ELSE last
  BY <1>6, LatestIsLast DEF last, TypeOK
<1>9. /\ sessions'[x] \in SessionRow /\ sessions'[x] # NoSession
      /\ sessions'[x].type = type /\ sessions'[x].preflight = sessions[x].preflight
      /\ sessions'[x].consumer = sessions[x].consumer /\ sessions'[x].repo = sessions[x].repo
      /\ sessions'[x].status = IF attestations'[last].compliant THEN "completed" ELSE "blocked"
      /\ sessions'[x].attestation = IF subject = NoRepo THEN NoAttestation ELSE last
      /\ \A y \in Sessions : y # x => sessions'[y] = sessions[y]
      /\ sessions' \in [Sessions -> SessionRow \cup {NoSession}]
  <2>. DEFINE status == IF attestations'[last].compliant THEN "completed" ELSE "blocked"
              link == Latest(subject, attestations')
              row == [sessions[x] EXCEPT !.status = status, !.finished = TRUE, !.attestation = link]
  <2>1. status \in {"completed", "blocked"} /\ link \in 0..MaxAttestations
    BY <1>7, <1>8 DEF NoAttestation, ProjectsAssumption
  <2>2. sessions' = [sessions EXCEPT ![x] = row]
    BY <1>1
  <2>3. /\ row \in SessionRow /\ row.type = type /\ row.preflight = sessions[x].preflight
        /\ row.consumer = sessions[x].consumer /\ row.repo = sessions[x].repo
        /\ row.status = status /\ row.attestation = link
    <3>. HIDE DEF status, link
    <3>. QED BY <1>2, <2>1 DEF SessionRow, type
  <2>4. row # NoSession
    BY <2>1, <2>3 DEF NoSession
  <2>. HIDE DEF row
  <2>. QED BY <1>8, <2>2, <2>3, <2>4 DEF TypeOK
<1>10. TypeOK'
  BY <1>1, <1>5, <1>6, <1>9 DEF TypeOK, Kept, Telemetry, ProjectRow, Attested
<1>11. OneProjectPerRepo' /\ RowsAreIssued' /\ ReferencesStand'
  BY <1>1, <1>5 DEF Kept, ReferencesStand
<1>12. SessionsAreReferenced'
  BY <1>1, <1>5, <1>9 DEF Kept, SessionsAreReferenced, type
<1>13. \A y \in Sessions : sessions[y] # NoSession =>
         /\ sessions[y].attestation \in Nat /\ sessions[y].attestation < last
         /\ sessions[y].attestation # NoAttestation =>
              attestations'[sessions[y].attestation] = attestations[sessions[y].attestation]
  <2>. SUFFICES ASSUME NEW y \in Sessions, sessions[y] # NoSession
                PROVE  /\ sessions[y].attestation \in Nat /\ sessions[y].attestation < last
                       /\ sessions[y].attestation # NoAttestation =>
                            attestations'[sessions[y].attestation] = attestations[sessions[y].attestation]
    OBVIOUS
  <2>1. sessions[y].attestation \in Nat /\ sessions[y].attestation <= Len(attestations)
    BY DEF TypeOK, SessionRow, LinksAreRows
  <2>. QED BY <1>6, <1>7, <2>1 DEF Attested, NoAttestation
<1>14. LinksAreRows'
  BY <1>7, <1>9, <1>13 DEF LinksAreRows, NoAttestation, last
<1>15. LinksAreOwn'
  <2>. SUFFICES ASSUME NEW y \in Sessions, sessions'[y] # NoSession
                PROVE  /\ sessions'[y].attestation # NoAttestation =>
                            /\ attestations'[sessions'[y].attestation].type = sessions'[y].type
                            /\ attestations'[sessions'[y].attestation].compliant <=> sessions'[y].status = "completed"
                            /\ \A z \in Sessions \ {y} :
                                 sessions'[z] = NoSession \/ sessions'[z].attestation # sessions'[y].attestation
                       /\ sessions'[y].status = "completed" /\ sessions'[y].repo # NoRepo =>
                            sessions'[y].attestation # NoAttestation
    BY DEF LinksAreOwn
  <2>1. CASE y = x
    <3>1. sessions'[x].attestation # NoAttestation =>
            /\ sessions'[x].attestation = last
            /\ attestations'[last].compliant <=> sessions'[x].status = "completed"
      BY <1>7, <1>9 DEF AttestationRow
    <3>2. sessions'[x].repo # NoRepo => sessions'[x].attestation # NoAttestation
      BY <1>4, <1>7, <1>9 DEF NoAttestation
    <3>3. \A z \in Sessions \ {x} : sessions'[z] = NoSession \/ sessions'[z].attestation # last
      BY <1>7, <1>9, <1>13
    <3>. QED BY <1>6, <1>9, <2>1, <3>1, <3>2, <3>3
  <2>2. CASE y # x
    <3>1. sessions'[y] = sessions[y] /\ sessions[y] # NoSession
      BY <1>9, <2>2
    <3>2. sessions[y].attestation # NoAttestation =>
            \A z \in Sessions \ {y} :
               sessions'[z] = NoSession \/ sessions'[z].attestation # sessions[y].attestation
      <4>. SUFFICES ASSUME sessions[y].attestation # NoAttestation, NEW z \in Sessions \ {y}
                    PROVE  sessions'[z] = NoSession \/ sessions'[z].attestation # sessions[y].attestation
        OBVIOUS
      <4>1. CASE z = x
        BY <1>7, <1>9, <1>13, <3>1, <4>1
      <4>2. CASE z # x
        BY <1>9, <3>1, <4>2 DEF LinksAreOwn
      <4>. QED BY <4>1, <4>2
    <3>. QED BY <1>13, <3>1, <3>2 DEF LinksAreOwn
  <2>. QED BY <2>1, <2>2
<1>. QED BY <1>6, <1>10, <1>11, <1>12, <1>14, <1>15 DEF Attested

\* Whatever is done, rows stay one per repository and type, and named ones stay.
LEMMA StepKept ==
  ASSUME ProjectsAssumption, IInv, [Next]_vars
  PROVE  Kept /\ referenced \subseteq referenced'
<1>. USE DEF IInv
<1>1. ASSUME NEW i \in Ids, NEW repo \in Repos, NEW type \in Types, CreateProject(i, repo, type)
      PROVE  Kept /\ UNCHANGED referenced
  <2>1. /\ Matching(repo, type) = {} /\ i \notin issued
        /\ consumers' = [consumers EXCEPT ![i] = Consumer(repo, type)]
        /\ issued' = issued \cup {i}
        /\ UNCHANGED <<manifests, states, traces>>
        /\ UNCHANGED <<referenced, policy, sessions, attestations>>
    BY <1>1 DEF CreateProject, ByRepo, Matching, Fresh, ProjectsAssumption
  <2>2. /\ \A j \in Ids : consumers[j] # Consumer(repo, type)
        /\ ~ Live(i) /\ Consumer(repo, type) \in ProjectRow /\ Consumer(repo, type) # NoConsumer
        /\ consumers'[i] = Consumer(repo, type) /\ \A j \in Ids : j # i => consumers'[j] = consumers[j]
    BY <2>1, ConsumerRows DEF Matching, RowsAreIssued, TypeOK
  <2>3. Telemetry'
    BY <2>1, <2>2 DEF Telemetry, TypeOK, ProjectRow
  <2>. QED BY <2>1, <2>2, <2>3 DEF Kept, OneProjectPerRepo, RowsAreIssued, ReferencesStand, Live
<1>2. ASSUME NEW i \in Ids, NEW repo \in Repos, NEW type \in Types, NEW m \in Manifests,
             ManifestReport(i, repo, type, m)
      PROVE  Kept /\ UNCHANGED referenced
  <2>1. ReplaceConsumer(i, Consumer(repo, type), m, NoTrace)
    BY <1>2 DEF ManifestReport
  <2>2. Live(i) => consumers[i].type = type
    <3>1. ByRepo(repo, type) # NoId => consumers[ByRepo(repo, type)] = Consumer(repo, type)
      BY DEF ByRepo, Matching
    <3>. QED BY <1>2, <3>1, ConsumerRows DEF ManifestReport, Fresh, RowsAreIssued
  <2>. QED BY <1>2, <2>1, <2>2, ReplaceKept DEF ManifestReport
<1>3. ASSUME NEW i \in Ids, NEW project_id \in Ids \cup {NoId}, NEW repo \in Repos, NEW type \in Types,
             NEW trace \in Traces, CodeTraceReport(i, project_id, repo, type, trace)
      PROVE  Kept /\ UNCHANGED referenced
  BY <1>3, EnsureKept DEF CodeTraceReport
<1>4. ASSUME NEW w \in Workspaces, NEW repo \in Repos, NEW type \in Types, NEW edits \in Edits,
             StatePush(w, repo, type, edits)
      PROVE  Kept /\ UNCHANGED referenced
  <2>1. /\ states' \in [Ids -> [Workspaces -> Edits \cup {NoEdits}]]
        /\ UNCHANGED <<consumers, issued, manifests, traces, referenced, policy, sessions, attestations>>
    BY <1>4 DEF StatePush, TypeOK
  <2>. QED BY <2>1 DEF Kept, Telemetry, TypeOK, ProjectRow, OneProjectPerRepo, RowsAreIssued, ReferencesStand, Live
<1>5. ASSUME NEW project_id \in Ids \cup {NoId}, NEW repo \in Repos \cup {NoRepo}, NEW type \in Types,
             NEW trace \in Traces \cup {NoTrace}, ComplianceCheck(project_id, repo, type, trace)
      PROVE  Kept /\ UNCHANGED referenced
  <2>1. /\ ReceiveTrace(Named(project_id, repo, type), project_id, repo, type, trace)
        /\ UNCHANGED referenced
    BY <1>5 DEF ComplianceCheck
  <2>. QED BY <2>1, NamedRow, ReceiveKept
<1>6. ASSUME NEW x \in Sessions, NEW project_id \in Ids \cup {NoId}, NEW repo \in Repos \cup {NoRepo},
             NEW trace \in Traces \cup {NoTrace}, FinishSession(x, project_id, repo, trace)
      PROVE  Kept /\ UNCHANGED referenced
  <2>. DEFINE own == sessions[x].consumer
              type == sessions[x].type
              project == IF own # NoId THEN ById(own, type) ELSE Named(project_id, repo, type)
              known == IF project # NoId THEN project ELSE own
  <2>1. /\ sessions[x] # NoSession /\ ReceiveTrace(known, project_id, repo, type, trace)
        /\ UNCHANGED referenced
    BY <1>6 DEF FinishSession
  <2>2. own \in Ids \cup {NoId} /\ type \in Types
    BY <2>1 DEF TypeOK, SessionRow
  <2>3. known \in Ids \cup {NoId}
    BY <2>2, NamedRow
  <2>. HIDE DEF known, type
  <2>. QED BY <2>1, <2>2, <2>3, ReceiveKept
<1>7. CASE UNCHANGED telemetry /\ referenced \subseteq referenced'
  BY <1>7, UnchangedKept
<1>8. ASSUME \/ UNCHANGED vars
             \/ \E i \in Ids : Reference(i)
             \/ \E type \in Types \cup {AllTypes}, accepted \in Policies : SetPolicy(type, accepted)
             \/ \E x \in Sessions, project_id \in Ids \cup {NoId}, repo \in Repos \cup {NoRepo}, type \in Types,
                   preflight \in {"ready", "blocked"} : BeginSession(x, project_id, repo, type, preflight)
      PROVE  UNCHANGED telemetry /\ referenced \subseteq referenced'
  BY <1>8 DEF vars, Reference, SetPolicy, BeginSession
<1>. QED BY <1>1, <1>2, <1>3, <1>4, <1>5, <1>6, <1>7, <1>8 DEF Next

LEMMA IInvStep ==
  ASSUME ProjectsAssumption, IInv, [Next]_vars
  PROVE  IInv'
<1>0. DOMAIN policy \subseteq Types \cup {AllTypes} /\ \A type \in DOMAIN policy : policy[type] \in Policies
  BY DEF IInv, TypeOK
<1>1. Kept
  BY StepKept
<1>2. CASE UNCHANGED <<referenced, policy, sessions, attestations>>
  BY <1>0, <1>1, <1>2, ReportStep
<1>3. ASSUME NEW type \in Types \cup {AllTypes}, NEW accepted \in Policies, SetPolicy(type, accepted)
      PROVE  IInv'
  <2>1. /\ policy' = [t \in DOMAIN policy \cup {type} |-> IF t = type THEN accepted ELSE policy[t]]
        /\ UNCHANGED <<referenced, sessions, attestations>>
    BY <1>3 DEF SetPolicy
  <2>2. DOMAIN policy' \subseteq Types \cup {AllTypes} /\ \A t \in DOMAIN policy' : policy'[t] \in Policies
    BY <1>0, <2>1
  <2>. QED BY <1>1, <2>1, <2>2, ReportStep
<1>4. ASSUME \/ UNCHANGED vars
             \/ \E i \in Ids, repo \in Repos, type \in Types :
                   \/ CreateProject(i, repo, type)
                   \/ \E m \in Manifests : ManifestReport(i, repo, type, m)
                   \/ \E project_id \in Ids \cup {NoId}, trace \in Traces :
                         CodeTraceReport(i, project_id, repo, type, trace)
             \/ \E w \in Workspaces, repo \in Repos, type \in Types, edits \in Edits :
                   StatePush(w, repo, type, edits)
      PROVE  UNCHANGED <<referenced, policy, sessions, attestations>>
  BY <1>4 DEF vars, CreateProject, ManifestReport, CodeTraceReport, StatePush
<1>. QED BY <1>2, <1>3, <1>4, ReferenceStep, BeginStep, CheckStep, FinishStep DEF Next

THEOREM IInvHolds == Spec => []IInv
<1>. USE ProjectsAssumption
<1>1. Init => IInv
  BY InitIInv
<1>2. IInv /\ [Next]_vars => IInv'
  BY IInvStep
<1>. QED BY <1>1, <1>2, PTL DEF Spec

-----------------------------------------------------------------------------
(* What the runs check, for every instance.                                *)

\* Rows of repo_consumers stay well-formed, and one per repository and project
\* type, through every order of reports, renames by id and creations.
THEOREM ProjectsStayUnique == Spec => []ProjectsAreUnique
<1>1. IInv => ProjectsAreUnique
  BY DEF IInv, ProjectsAreUnique
<1>. QED BY <1>1, IInvHolds, PTL

\* INSERT OR REPLACE never deletes the project of a session that passed
\* preflight: finishing judges the project the session began on.
THEOREM SessionsKeepTheirProjects == Spec => []SessionsKeepTheirProject
<1>1. IInv => SessionsKeepTheirProject
  BY DEF IInv, SessionsKeepTheirProject, SessionsAreReferenced, ReferencesStand
<1>. QED BY <1>1, IInvHolds, PTL

\* A later attestation of the same repository has a number at least as great.
LEMMA NumbersGrow ==
  ASSUME ProjectsAssumption, IInv, NEW n \in DOMAIN attestations, NEW k \in DOMAIN attestations,
         attestations[k].repo = attestations[n].repo, k > n
  PROVE  attestations[n].iteration <= attestations[k].iteration
<1>. USE DEF IInv
<1>1. n \in Nat /\ k \in Nat /\ attestations[n] \in AttestationRow /\ attestations[k] \in AttestationRow
  BY DEF TypeOK
<1>2. CASE attestations[n].repo = NoRepo
  BY <1>1, <1>2 DEF Numbered
<1>3. CASE attestations[n].repo # NoRepo
  <2>1. UpTo(attestations, n) \subseteq UpTo(attestations, k)
    BY <1>1 DEF UpTo
  <2>2. IsFiniteSet(UpTo(attestations, k))
    BY <1>1, UpToFinite
  <2>3. Cardinality(UpTo(attestations, n)) <= Cardinality(UpTo(attestations, k))
    BY <2>1, <2>2, FS_Subset
  <2>. QED BY <1>3, <2>3 DEF Numbered
<1>. QED BY <1>2, <1>3

\* A session is linked to the attestation of its own finish and to no other's;
\* an agent that was told to halt was evaluated MaxAttempts times, and is never
\* told to continue on that repository again.
THEOREM EvidenceStaysOwn == Spec => []EvidenceIsOwn
<1>1. ASSUME ProjectsAssumption, IInv PROVE EvidenceIsOwn
  <2>. USE DEF IInv
  <2>1. ASSUME NEW x \in Sessions, sessions[x] # NoSession
        PROVE  /\ sessions[x].attestation # NoAttestation =>
                    /\ attestations[sessions[x].attestation].type = sessions[x].type
                    /\ attestations[sessions[x].attestation].compliant <=> sessions[x].status = "completed"
                    /\ \A y \in Sessions \ {x} :
                         sessions[y] = NoSession \/ sessions[y].attestation # sessions[x].attestation
               /\ sessions[x].status = "completed" /\ sessions[x].repo # NoRepo =>
                    sessions[x].attestation # NoAttestation /\ Directive(sessions[x].attestation) = "complete"
    BY <1>1, <2>1 DEF LinksAreOwn, Directive
  <2>2. ASSUME NEW n \in DOMAIN attestations, Directive(n) = "halt"
        PROVE  LET same == {k \in DOMAIN attestations : attestations[k].repo = attestations[n].repo}
               IN /\ attestations[n].repo # NoRepo => Cardinality({k \in same : k <= n}) >= MaxAttempts
                  /\ \A k \in same : k > n => Directive(k) # "continue"
    <3>. DEFINE same == {k \in DOMAIN attestations : attestations[k].repo = attestations[n].repo}
    <3>1. /\ attestations[n].iteration >= MaxAttempts /\ attestations[n].iteration \in Nat
          /\ MaxAttempts \in Nat /\ DOMAIN attestations = 1..Len(attestations)
      <4>1. attestations[n] \in AttestationRow /\ DOMAIN attestations = 1..Len(attestations)
        BY <1>1 DEF TypeOK
      <4>2. attestations[n].iteration >= MaxAttempts
        BY <2>2 DEF Directive
      <4>. QED BY <1>1, <4>1, <4>2 DEF AttestationRow, ProjectsAssumption
    <3>2. {k \in same : k <= n} = UpTo(attestations, n)
      BY <1>1, <3>1 DEF UpTo, TypeOK
    <3>3. attestations[n].repo # NoRepo => Cardinality({k \in same : k <= n}) >= MaxAttempts
      <4>1. attestations[n].repo # NoRepo => attestations[n].iteration = Cardinality(UpTo(attestations, n))
        BY <1>1 DEF Numbered
      <4>2. Cardinality({k \in same : k <= n}) = Cardinality(UpTo(attestations, n))
        BY <3>2, Zenon
      <4>. HIDE DEF same
      <4>. QED BY <3>1, <4>1, <4>2
    <3>4. ASSUME NEW k \in same, k > n PROVE Directive(k) # "continue"
      <4>1. attestations[n].iteration <= attestations[k].iteration
        BY <1>1, <3>4, NumbersGrow
      <4>2. attestations[k].iteration \in Nat
        <5>1. attestations[k] \in AttestationRow
          BY <1>1, <3>1 DEF TypeOK
        <5>. QED BY <5>1 DEF AttestationRow
      <4>. QED BY <3>1, <4>1, <4>2 DEF Directive
    <3>. QED BY <3>3, <3>4
  <2>. QED BY <2>1, <2>2 DEF EvidenceIsOwn
<1>. QED BY <1>1, IInvHolds, ProjectsAssumption, PTL

-----------------------------------------------------------------------------
(* Sums over finite sets.                                                  *)

\* What holds of a subset as soon as it holds of all smaller ones holds of every subset.
LEMMA SubsetInduction ==
  ASSUME NEW S, IsFiniteSet(S), NEW Good,
         \A T \in SUBSET S : (\A U \in SUBSET T : U # T => U \in Good) => T \in Good
  PROVE  \A T \in SUBSET S : T \in Good
<1>. DEFINE Sets == FiniteSubsetsOf(S)
            R == StrictSubsetOrdering(S)
            Bad == {T \in SUBSET S : T \notin Good}
<1>1. \A T \in SUBSET S : IsFiniteSet(T)
  BY FS_Subset
<1>2. Bad \subseteq Sets
  BY <1>1 DEF FiniteSubsetsOf
<1>3. IsWellFoundedOn(R, Sets)
  BY FS_StrictSubsetOrderingWellFounded
<1>4. \A T \in SUBSET S : \A U \in SUBSET T : U # T => <<U, T>> \in R
  BY DEF StrictSubsetOrdering
<1>. SUFFICES ASSUME Bad # {} PROVE FALSE
  OBVIOUS
<1>. HIDE DEF Sets, R, Bad
<1>5. PICK T \in Bad : \A U \in Bad : ~ (<<U, T>> \in R)
  BY <1>2, <1>3, WFMin
<1>6. T \in SUBSET S /\ T \notin Good
  BY <1>5 DEF Bad
<1>7. ASSUME NEW U \in SUBSET T, U # T, U \notin Good
      PROVE  FALSE
  <2>1. U \in Bad
    BY <1>6, <1>7 DEF Bad
  <2>. QED BY <1>4, <1>5, <1>6, <1>7, <2>1
<1>. QED BY <1>6, <1>7

\* The sums of f over the subsets of S, one element after the other.
Sums(f, S, sums) ==
  sums = [T \in SUBSET S |-> IF T = {} THEN 0
                             ELSE f[CHOOSE x \in T : TRUE] + sums[T \ {CHOOSE x \in T : TRUE}]]

LEMMA SumsSame ==
  ASSUME NEW S, IsFiniteSet(S), NEW U, S \subseteq U,
         NEW f, NEW a, Sums(f, S, a), NEW g, NEW b, Sums(g, U, b), \A x \in S : g[x] = f[x]
  PROVE  \A T \in SUBSET S : a[T] = b[T]
<1>. DEFINE Good == {T \in SUBSET S : a[T] = b[T]}
<1>1. ASSUME NEW T \in SUBSET S, \A V \in SUBSET T : V # T => V \in Good
      PROVE  T \in Good
  <2>1. T \in SUBSET U
    OBVIOUS
  <2>2. /\ a[T] = IF T = {} THEN 0 ELSE f[CHOOSE x \in T : TRUE] + a[T \ {CHOOSE x \in T : TRUE}]
        /\ b[T] = IF T = {} THEN 0 ELSE g[CHOOSE x \in T : TRUE] + b[T \ {CHOOSE x \in T : TRUE}]
    BY <2>1, Zenon DEF Sums
  <2>. DEFINE c == CHOOSE x \in T : TRUE
  <2>3. T # {} => c \in T
    OBVIOUS
  <2>4. /\ a[T] = IF T = {} THEN 0 ELSE f[c] + a[T \ {c}]
        /\ b[T] = IF T = {} THEN 0 ELSE g[c] + b[T \ {c}]
    BY <2>2
  <2>. HIDE DEF c
  <2>5. T # {} => a[T \ {c}] = b[T \ {c}] /\ f[c] = g[c]
    BY <1>1, <2>3
  <2>. QED BY <2>4, <2>5
<1>. HIDE DEF Good
<1>2. \A T \in SUBSET S : T \in Good
  BY <1>1, SubsetInduction
<1>. QED BY <1>2 DEF Good

LEMMA SumsExist ==
  ASSUME NEW S, IsFiniteSet(S), NEW f
  PROVE  \E a : Sums(f, S, a)
<1>. DEFINE Good == {T \in SUBSET S : \E a : Sums(f, T, a)}
<1>1. ASSUME NEW T \in SUBSET S, \A V \in SUBSET T : V # T => V \in Good
      PROVE  T \in Good
  <2>. DEFINE A(W) == (CHOOSE a : Sums(f, W, a))[W]
              c(V) == CHOOSE x \in V : TRUE
              g == [V \in SUBSET T |-> IF V = {} THEN 0 ELSE f[c(V)] + A(V \ {c(V)})]
  <2>1. ASSUME NEW W \in SUBSET T, W # T
        PROVE  A(W) = IF W = {} THEN 0 ELSE f[c(W)] + A(W \ {c(W)})
    <3>. DEFINE a == CHOOSE u : Sums(f, W, u)
                V == W \ {c(W)}
                b == CHOOSE u : Sums(f, V, u)
    <3>1. Sums(f, W, a)
      BY <1>1, <2>1
    <3>2. a[W] = IF W = {} THEN 0 ELSE f[c(W)] + a[W \ {c(W)}]
      <4>. HIDE DEF a
      <4>. QED BY <3>1, Zenon DEF Sums
    <3>3. V \in SUBSET W /\ V \in SUBSET T /\ V # T
      BY <2>1
    <3>4. Sums(f, V, b)
      BY <1>1, <3>3
    <3>5. IsFiniteSet(V)
      BY <3>3, FS_Subset
    <3>. HIDE DEF a, b, V
    <3>6. a[V] = b[V]
      BY <3>1, <3>3, <3>4, <3>5, SumsSame
    <3>. QED BY <3>2, <3>6 DEF a, b, V
  <2>2. \A V \in SUBSET T : V # {} => c(V) \in V /\ V \ {c(V)} \in SUBSET T /\ V \ {c(V)} # T
    OBVIOUS
  <2>3. \A V \in SUBSET T : g[V] = IF V = {} THEN 0 ELSE f[c(V)] + A(V \ {c(V)})
    OBVIOUS
  <2>. HIDE DEF A, c
  <2>4. \A V \in SUBSET T : V # {} => g[V \ {c(V)}] = A(V \ {c(V)})
    BY <2>1, <2>2, <2>3, Zenon
  <2>5. g = [V \in SUBSET T |-> IF V = {} THEN 0 ELSE f[c(V)] + g[V \ {c(V)}]]
    <3>. DEFINE h == [V \in SUBSET T |-> IF V = {} THEN 0 ELSE f[c(V)] + g[V \ {c(V)}]]
    <3>1. \A V \in SUBSET T : g[V] = h[V]
      BY <2>3, <2>4
    <3>. QED BY <3>1
  <2>6. Sums(f, T, g)
    BY <2>5 DEF Sums, c
  <2>. QED BY <2>6
<1>. HIDE DEF Good
<1>2. \A T \in SUBSET S : T \in Good
  BY <1>1, SubsetInduction
<1>. QED BY <1>2 DEF Good

\* The sum of the community modules is one of these.
LEMMA SumOfSet ==
  ASSUME NEW S, IsFiniteSet(S), NEW f, NEW T \in SUBSET S, NEW a, Sums(f, S, a)
  PROVE  SumFunctionOnSet(f, T) = a[T]
<1>. DEFINE b == CHOOSE u : Sums(f, T, u)
<1>1. IsFiniteSet(T)
  BY FS_Subset
<1>2. Sums(f, T, b)
  BY <1>1, SumsExist
<1>3. SumFunctionOnSet(f, T) = b[T]
  BY DEF SumFunctionOnSet, FoldFunctionOnSet, MapThenFoldSet, Sums
<1>. HIDE DEF b
<1>4. b[T] = a[T]
  BY <1>1, <1>2, SumsSame
<1>. QED BY <1>3, <1>4

LEMMA SumFacts ==
  ASSUME NEW S, IsFiniteSet(S), NEW f, \A x \in S : f[x] \in Nat
  PROVE  /\ SumFunctionOnSet(f, {}) = 0
         /\ \A T \in SUBSET S : /\ SumFunctionOnSet(f, T) \in Nat
                                /\ \A x \in T : SumFunctionOnSet(f, T) = f[x] + SumFunctionOnSet(f, T \ {x})
<1>1. PICK a : Sums(f, S, a)
  BY SumsExist
<1>2. \A T \in SUBSET S : SumFunctionOnSet(f, T) = a[T]
  BY <1>1, SumOfSet
<1>. DEFINE Good == {T \in SUBSET S : a[T] \in Nat /\ \A x \in T : a[T] = f[x] + a[T \ {x}]}
<1>3. a[{}] = 0
  BY <1>1, Zenon DEF Sums
<1>4. ASSUME NEW T \in SUBSET S, \A V \in SUBSET T : V # T => V \in Good
      PROVE  T \in Good
  <2>1. CASE T = {}
    BY <1>3, <2>1
  <2>2. CASE T # {}
    <3>. DEFINE c == CHOOSE x \in T : TRUE
    <3>1. a[T] = f[c] + a[T \ {c}]
      <4>1. a[T] = IF T = {} THEN 0 ELSE f[CHOOSE x \in T : TRUE] + a[T \ {CHOOSE x \in T : TRUE}]
        BY <1>1, Zenon DEF Sums
      <4>. QED BY <2>2, <4>1
    <3>2. c \in T
      BY <2>2
    <3>. HIDE DEF c
    <3>3. \A V \in SUBSET T : V # T => a[V] \in Nat /\ \A x \in V : a[V] = f[x] + a[V \ {x}]
      BY <1>4
    <3>4. \A x \in T : T \ {x} \in SUBSET T /\ T \ {x} # T
      OBVIOUS
    <3>5. a[T \ {c}] \in Nat /\ f[c] \in Nat
      BY <3>2, <3>3, <3>4
    <3>6. ASSUME NEW x \in T
          PROVE  a[T] = f[x] + a[T \ {x}]
      <4>1. CASE x = c
        BY <3>1, <4>1
      <4>2. CASE x # c
        <5>1. (T \ {c}) \ {x} = (T \ {x}) \ {c}
          OBVIOUS
        <5>2. a[T \ {c}] = f[x] + a[(T \ {c}) \ {x}] /\ a[T \ {x}] = f[c] + a[(T \ {x}) \ {c}]
          BY <3>2, <3>3, <3>4, <4>2
        <5>3. f[x] \in Nat /\ a[(T \ {x}) \ {c}] \in Nat
          <6>1. (T \ {x}) \ {c} \in SUBSET T /\ (T \ {x}) \ {c} # T
            OBVIOUS
          <6>. QED BY <3>3, <6>1
        <5>. QED BY <3>1, <3>5, <5>1, <5>2, <5>3
      <4>. QED BY <4>1, <4>2
    <3>7. a[T] \in Nat
      BY <3>1, <3>5
    <3>. QED BY <3>6, <3>7
  <2>. QED BY <2>1, <2>2
<1>. HIDE DEF Good
<1>5. \A T \in SUBSET S : T \in Good
  BY <1>4, SubsetInduction
<1>6. \A T \in SUBSET S : T # {} => \A x \in T : T \ {x} \in SUBSET S
  OBVIOUS
<1>7. {} \in SUBSET S
  OBVIOUS
<1>8. \A T \in SUBSET S : a[T] \in Nat /\ \A x \in T : a[T] = f[x] + a[T \ {x}]
  BY <1>5 DEF Good
<1>9. ASSUME NEW T \in SUBSET S
      PROVE  /\ SumFunctionOnSet(f, T) \in Nat
             /\ \A x \in T : SumFunctionOnSet(f, T) = f[x] + SumFunctionOnSet(f, T \ {x})
  <2>1. SumFunctionOnSet(f, T) = a[T] /\ \A x \in T : SumFunctionOnSet(f, T \ {x}) = a[T \ {x}]
    BY <1>2
  <2>. QED BY <1>8, <2>1
<1>. QED BY <1>2, <1>3, <1>7, <1>9

LEMMA SumEqual ==
  ASSUME NEW S, IsFiniteSet(S), NEW f, NEW g, \A x \in S : f[x] = g[x]
  PROVE  SumFunctionOnSet(f, S) = SumFunctionOnSet(g, S)
<1>1. PICK a : Sums(f, S, a)
  BY SumsExist
<1>2. PICK b : Sums(g, S, b)
  BY SumsExist
<1>3. a[S] = b[S]
  BY <1>1, <1>2, SumsSame
<1>. QED BY <1>1, <1>2, <1>3, SumOfSet

LEMMA SumOfZeros ==
  ASSUME NEW S, IsFiniteSet(S), NEW f, \A x \in S : f[x] = 0
  PROVE  SumFunctionOnSet(f, S) = 0
<1>. DEFINE Good == {T \in SUBSET S : SumFunctionOnSet(f, T) = 0}
<1>1. /\ SumFunctionOnSet(f, {}) = 0
      /\ \A T \in SUBSET S : \A x \in T : SumFunctionOnSet(f, T) = f[x] + SumFunctionOnSet(f, T \ {x})
  BY SumFacts
<1>2. ASSUME NEW T \in SUBSET S, \A V \in SUBSET T : V # T => V \in Good
      PROVE  T \in Good
  <2>1. CASE T = {}
    BY <1>1, <2>1
  <2>2. CASE T # {}
    <3>1. PICK x : x \in T
      BY <2>2
    <3>2. SumFunctionOnSet(f, T) = f[x] + SumFunctionOnSet(f, T \ {x}) /\ f[x] = 0
      BY <1>1, <3>1
    <3>3. SumFunctionOnSet(f, T \ {x}) = 0
      BY <1>2, <3>1
    <3>. QED BY <3>2, <3>3
  <2>. QED BY <2>1, <2>2
<1>. HIDE DEF Good
<1>3. \A T \in SUBSET S : T \in Good
  BY <1>2, SubsetInduction
<1>. QED BY <1>3 DEF Good

Group(S, key, k) == {x \in S : key[x] = k}

\* A sum is the sum of the sums of its groups.
LEMMA SumOfGroups ==
  ASSUME NEW S, IsFiniteSet(S), NEW f, \A x \in S : f[x] \in Nat,
         NEW K, IsFiniteSet(K), NEW key, \A x \in S : key[x] \in K,
         NEW g, \A k \in K : g[k] = SumFunctionOnSet(f, Group(S, key, k))
  PROVE  SumFunctionOnSet(g, K) = SumFunctionOnSet(f, S)
<1>. DEFINE In(T, k) == {x \in T : key[x] = k}
            G(T) == [k \in K |-> SumFunctionOnSet(f, In(T, k))]
            Good == {T \in SUBSET S : SumFunctionOnSet(G(T), K) = SumFunctionOnSet(f, T)}
<1>1. /\ SumFunctionOnSet(f, {}) = 0
      /\ \A T \in SUBSET S : /\ SumFunctionOnSet(f, T) \in Nat
                             /\ \A x \in T : SumFunctionOnSet(f, T) = f[x] + SumFunctionOnSet(f, T \ {x})
  BY SumFacts
<1>2. ASSUME NEW T \in SUBSET S
      PROVE  \A k \in K : G(T)[k] = SumFunctionOnSet(f, In(T, k)) /\ G(T)[k] \in Nat
  <2>1. \A k \in K : In(T, k) \in SUBSET S
    OBVIOUS
  <2>. HIDE DEF In
  <2>. QED BY <1>1, <2>1
<1>3. ASSUME NEW T \in SUBSET S, \A V \in SUBSET T : V # T => V \in Good
      PROVE  T \in Good
  <2>1. CASE T = {}
    <3>1. \A k \in K : In(T, k) = {}
      BY <2>1
    <3>2. \A k \in K : G(T)[k] = 0
      BY <1>1, <1>2, <3>1, Zenon
    <3>. HIDE DEF G
    <3>3. SumFunctionOnSet(G(T), K) = 0
      BY <3>2, SumOfZeros
    <3>. QED BY <1>1, <2>1, <3>3
  <2>2. CASE T # {}
    <3>1. PICK x : x \in T
      BY <2>2
    <3>. DEFINE V == T \ {x}
                k == key[x]
    <3>2. V \in SUBSET T /\ V # T /\ V \in SUBSET S /\ k \in K
      BY <3>1
    <3>3. SumFunctionOnSet(G(V), K) = SumFunctionOnSet(f, V)
      BY <1>3, <3>2
    <3>4. x \in In(T, k) /\ In(T, k) \in SUBSET S /\ In(T, k) \ {x} = In(V, k)
      BY <3>1
    <3>5. \A l \in K \ {k} : In(T, l) = In(V, l)
      OBVIOUS
    <3>. HIDE DEF V, k, In
    <3>6. \A l \in K : /\ G(T)[l] = SumFunctionOnSet(f, In(T, l)) /\ G(T)[l] \in Nat
                       /\ G(V)[l] = SumFunctionOnSet(f, In(V, l)) /\ G(V)[l] \in Nat
      BY <1>2, <3>2
    <3>. HIDE DEF G
    <3>7. G(T)[k] = f[x] + G(V)[k] /\ \A l \in K \ {k} : G(T)[l] = G(V)[l]
      <4>1. SumFunctionOnSet(f, In(T, k)) = f[x] + SumFunctionOnSet(f, In(T, k) \ {x})
        BY <1>1, <3>4
      <4>. QED BY <3>2, <3>4, <3>5, <3>6, <4>1
    <3>8. /\ SumFunctionOnSet(G(T), K) = G(T)[k] + SumFunctionOnSet(G(T), K \ {k})
          /\ SumFunctionOnSet(G(T), K \ {k}) \in Nat
      <4>1. K \ {k} \in SUBSET K /\ K \in SUBSET K /\ k \in K /\ \A l \in K : G(T)[l] \in Nat
        BY <3>2, <3>6
      <4>2. \A W \in SUBSET K : /\ SumFunctionOnSet(G(T), W) \in Nat
                                /\ \A l \in W : SumFunctionOnSet(G(T), W) = G(T)[l] + SumFunctionOnSet(G(T), W \ {l})
        BY <4>1, SumFacts
      <4>. QED BY <4>1, <4>2
    <3>9. SumFunctionOnSet(G(V), K) = G(V)[k] + SumFunctionOnSet(G(V), K \ {k})
      BY <3>2, <3>6, SumFacts
    <3>10. SumFunctionOnSet(G(T), K \ {k}) = SumFunctionOnSet(G(V), K \ {k})
      <4>1. IsFiniteSet(K \ {k})
        BY FS_Subset
      <4>. QED BY <3>7, <4>1, SumEqual
    <3>11. SumFunctionOnSet(f, T) = f[x] + SumFunctionOnSet(f, V)
      BY <1>1, <3>1 DEF V
    <3>12. f[x] \in Nat /\ G(V)[k] \in Nat
      BY <3>1, <3>2, <3>6
    <3>13. SumFunctionOnSet(G(T), K) = f[x] + (G(V)[k] + SumFunctionOnSet(G(T), K \ {k}))
      BY <3>7, <3>8, <3>12
    <3>14. SumFunctionOnSet(f, V) = G(V)[k] + SumFunctionOnSet(G(T), K \ {k})
      BY <3>3, <3>9, <3>10
    <3>. QED BY <3>11, <3>13, <3>14
  <2>. QED BY <2>1, <2>2
<1>4. \A k \in K : g[k] = G(S)[k]
  BY DEF Group
<1>. HIDE DEF Good
<1>5. S \in Good
  BY <1>3, SubsetInduction
<1>6. SumFunctionOnSet(G(S), K) = SumFunctionOnSet(f, S)
  BY <1>5 DEF Good
<1>. HIDE DEF G
<1>. QED BY <1>4, <1>6, SumEqual

\* A sum over the values of an injection is one over its arguments.
LEMMA SumRenamed ==
  ASSUME NEW S, IsFiniteSet(S), NEW h, \A x, y \in S : h[x] = h[y] => x = y,
         NEW T, (\A x \in S : h[x] \in T), (\A y \in T : \E x \in S : y = h[x]), NEW f, NEW g, \A x \in S : f[x] \in Nat /\ g[h[x]] = f[x]
  PROVE  IsFiniteSet(T) /\ SumFunctionOnSet(g, T) = SumFunctionOnSet(f, S)
<1>1. IsFiniteSet(T)
  <2>. DEFINE r == [x \in S |-> h[x]]
  <2>1. r \in Surjection(S, T)
    BY DEF Surjection
  <2>. HIDE DEF r
  <2>. QED BY <2>1, FS_Surjection
<1>2. ASSUME NEW t \in T
      PROVE  g[t] = SumFunctionOnSet(f, Group(S, h, t))
  <2>1. PICK x \in S : t = h[x]
    OBVIOUS
  <2>2. Group(S, h, t) = {x}
    BY <2>1 DEF Group
  <2>3. /\ SumFunctionOnSet(f, {}) = 0 /\ f[x] \in Nat
        /\ SumFunctionOnSet(f, {x}) = f[x] + SumFunctionOnSet(f, {x} \ {x})
    BY SumFacts
  <2>4. {x} \ {x} = {}
    OBVIOUS
  <2>5. SumFunctionOnSet(f, {x}) = f[x]
    BY <2>3, <2>4
  <2>. QED BY <2>1, <2>2, <2>5
<1>3. \A x \in S : h[x] \in T /\ f[x] \in Nat
  OBVIOUS
<1>4. \A t \in T : g[t] = SumFunctionOnSet(f, Group(S, h, t))
  BY <1>2
<1>. QED BY <1>1, <1>3, <1>4, SumOfGroups

-----------------------------------------------------------------------------
(* The reports on the work of agents.                                      *)

\* A step of the reports is a step of the projects, or none of theirs.
LEMMA EvidenceIsProjects ==
  ASSUME EvidenceNext
  PROVE  Next \/ UNCHANGED vars
<1>1. ASSUME NEW event, NEW i \in Ids \cup {NoId}, NEW sections, i # NoId => Live(i), Deliver(event, i, sections)
      PROVE  Next \/ UNCHANGED vars
  <2>1. CASE sections = {} \/ i = NoId
    BY <1>1, <2>1 DEF Deliver, vars
  <2>2. CASE sections # {} /\ i # NoId
    <3>1. i \in Ids /\ Reference(i)
      BY <1>1, <2>2 DEF Deliver, Reference, Live
    <3>. QED BY <3>1 DEF Next
  <2>. QED BY <2>1, <2>2
<1>2. ASSUME NEW i \in Ids, NEW project_id \in Ids \cup {NoId}, NEW repo \in Repos, NEW type \in Types,
             Registering(i, project_id, repo, type)
      PROVE  Next
  BY <1>2 DEF Registering, Next
<1>3. ASSUME NEW project_id \in Ids \cup {NoId}, NEW repo \in Repos \cup {NoRepo}, Judging(project_id, repo)
      PROVE  Next
  BY <1>3 DEF Judging, Next
<1>4. ASSUME NEW project_id \in Ids \cup {NoId}, NEW repo \in Repos \cup {NoRepo}, Beginning(project_id, repo)
      PROVE  Next
  <2>1. PICK x \in Sessions, type \in Types : Begin(x, project_id, repo, type)
    BY <1>4 DEF Beginning
  <2>2. \E preflight \in {"ready", "blocked"} : BeginSession(x, project_id, repo, type, preflight)
    BY <2>1 DEF Begin
  <2>. QED BY <2>2 DEF Next
<1>5. ASSUME NEW type \in Types \cup {AllTypes}, NEW accepted \in Policies, SetPolicy(type, accepted)
      PROVE  Next
  BY <1>5 DEF Next
<1>6. ASSUME NEW w \in Workspaces, NEW repo \in Repos, NEW type \in Types, NEW edits \in Edits,
             StatePush(w, repo, type, edits)
      PROVE  Next
  BY <1>6 DEF Next
<1>7. ASSUME NEW i \in Ids \cup {NoId}, NEW type \in Types, Delivering(i, type)
      PROVE  Next \/ UNCHANGED vars
  <2>1. CASE \E event \in {"search", "resolve_guidance"}, found \in SUBSET SectionsOf(Bundle(type, i)) :
                Search(event, i, type, found)
    BY <2>1 DEF Search
  <2>2. CASE GetSpecs(i, type)
    BY <1>1, <2>2 DEF GetSpecs, Requested
  <2>3. CASE CompileSpecs(i, type)
    BY <1>1, <2>3 DEF CompileSpecs, Requested
  <2>4. CASE AgentPack(i, type)
    BY <1>1, <2>4 DEF AgentPack, Requested
  <2>. QED BY <1>7, <2>1, <2>2, <2>3, <2>4 DEF Delivering
<1>8. ASSUME NEW q \in searches, Answer(q)
      PROVE  Next \/ UNCHANGED vars
  <2>1. CASE q.consumer = NoId \/ Live(q.consumer)
    <3>1. q.consumer \in Ids \cup {NoId} /\ (q.consumer # NoId => Live(q.consumer))
      BY <2>1 DEF Live
    <3>2. Deliver(q.event, q.consumer, q.found)
      BY <1>8, <2>1 DEF Answer
    <3>. QED BY <1>1, <3>1, <3>2
  <2>2. CASE ~ (q.consumer = NoId \/ Live(q.consumer))
    BY <1>8, <2>2 DEF Answer
  <2>. QED BY <2>1, <2>2
<1>9. CASE Reporting(Nat, Nat)
  <2>1. PICK x \in Sessions \cup {NoSessionId}, i \in Ids \cup {NoId}, prompt \in Nat, completion \in Nat,
             claimed \in Nat : ReportUsage(x, i, prompt, completion, claimed)
    BY <1>9 DEF Reporting
  <2>2. PICK project : /\ project # NoId => Live(project)
                       /\ referenced' = referenced \cup ({project} \ {NoId})
                       /\ UNCHANGED <<telemetry, policy, sessions, attestations>>
    BY <2>1 DEF ReportUsage
  <2>3. CASE project = NoId
    BY <2>2, <2>3 DEF vars
  <2>4. CASE project # NoId
    <3>1. project \in Ids /\ Reference(project)
      BY <2>2, <2>4 DEF Reference, Live
    <3>. QED BY <3>1 DEF Next
  <2>. QED BY <2>3, <2>4
<1>10. CASE Publishing
  <2>1. PICK s \in Specs, sections \in SUBSET Anchors : Publish(s, sections)
    BY <1>10 DEF Publishing
  <2>2. PICK project : /\ project # NoId => Live(project)
                       /\ referenced' = referenced \cup ({project} \ {NoId})
                       /\ UNCHANGED <<telemetry, policy, sessions, attestations>>
    BY <2>1 DEF Publish
  <2>3. CASE project = NoId
    BY <2>2, <2>3 DEF vars
  <2>4. CASE project # NoId
    <3>1. project \in Ids /\ Reference(project)
      BY <2>2, <2>4 DEF Reference, Live
    <3>. QED BY <3>1 DEF Next
  <2>. QED BY <2>3, <2>4
<1>11. CASE NextDay
  BY <1>11 DEF NextDay
<1>12. CASE ReportingGaps \/ \E s \in Specs : Discussing(s)
  BY <1>12 DEF ReportingGaps, Discussing, ReportGap, ReportFeedback, StoreFeedback, TriageFeedback,
              OpenReview, RejectReview, MeasureEfficacy, Discuss
<1>13. CASE Auditing
  BY <1>13 DEF Auditing, AuditProject, AuditSpec, AuditRun, AuditRelease, StoreReport
<1>. QED BY <1>2, <1>3, <1>4, <1>5, <1>6, <1>7, <1>8, <1>9, <1>10, <1>11, <1>12, <1>13 DEF EvidenceNext

\* The reports add nothing to what the projects do: whatever holds of every behaviour of
\* the projects and of their gate holds while contexts are delivered, usage is reported and
\* audits are stored.
THEOREM EvidenceImplementsProjects == EvidenceSpec => Spec
<1>1. EvidenceInit => Init
  BY DEF EvidenceInit
<1>2. [EvidenceNext]_evidenceVars => [Next]_vars
  BY EvidenceIsProjects DEF evidenceVars
<1>. QED BY <1>1, <1>2, PTL DEF EvidenceSpec, Spec

\* A session is ended by its finish, or blocked from the beginning.
SessionsEnd ==
  \A x \in Sessions : sessions[x] # NoSession =>
    IF sessions[x].finished THEN sessions[x].status # "active"
    ELSE sessions[x].status # "completed" /\ (sessions[x].status = "blocked" => sessions[x].preflight = "blocked")

\* Events and usage are only ever added.
Recorded == (\E S : events \in Seq(S)) /\ (\E S : usage \in Seq(S))

\* What the audit of a run found good of it.
Accounted(x) ==
  /\ sessions[x] # NoSession /\ sessions[x].finished /\ sessions[x].preflight # "blocked"
  /\ RunContexts(x) # {} /\ RunUsage(x) # {}

StoredAudits ==
  \A x \in Sessions : \A r \in ReportsOf("agent_run", x) :
    /\ sessions[x] # NoSession
    /\ r.status = "pass" => Accounted(x)
    /\ r.status = "fail" => sessions[x].finished \/ sessions[x].preflight = "blocked"

EvidenceIInv == IInv /\ SessionsEnd /\ Recorded /\ StoredAudits

\* What a step may do with a session: begin it, or finish it, again perhaps.
Begun(x) ==
  /\ sessions[x] = NoSession /\ sessions'[x] # NoSession /\ ~ sessions'[x].finished
  /\ sessions'[x].status # "completed" /\ (sessions'[x].status = "blocked" => sessions'[x].preflight = "blocked")

Ended(x) ==
  /\ sessions[x] # NoSession /\ sessions'[x] # NoSession /\ sessions'[x].finished
  /\ sessions'[x].status # "active" /\ sessions'[x].preflight = sessions[x].preflight

LEMMA SessionSteps ==
  ASSUME IInv, [Next]_vars, NEW x \in Sessions
  PROVE  sessions'[x] = sessions[x] \/ Begun(x) \/ Ended(x)
<1>1. sessions \in [Sessions -> SessionRow \cup {NoSession}]
  BY DEF IInv, TypeOK
<1>2. \A row \in SessionRow : row # NoSession
  BY DEF SessionRow, NoSession
<1>3. ASSUME NEW y \in Sessions, NEW project_id, NEW repo, NEW type, NEW preflight \in {"ready", "blocked"},
             BeginSession(y, project_id, repo, type, preflight)
      PROVE  sessions'[x] = sessions[x] \/ Begun(x)
  <2>1. PICK row : /\ row = [status |-> IF preflight = "ready" THEN "active" ELSE "blocked",
                             preflight |-> preflight, type |-> type, repo |-> RepoOf(Named(project_id, repo, type), repo),
                             consumer |-> Named(project_id, repo, type), finished |-> FALSE,
                             attestation |-> NoAttestation]
                   /\ sessions[y] = NoSession /\ sessions' = [sessions EXCEPT ![y] = row]
    BY <1>3 DEF BeginSession
  <2>2. /\ row # NoSession /\ ~ row.finished /\ row.status # "completed"
        /\ row.status = "blocked" => row.preflight = "blocked"
    BY <2>1 DEF NoSession
  <2>3. sessions'[y] = row /\ \A z \in Sessions : z # y => sessions'[z] = sessions[z]
    BY <1>1, <2>1
  <2>. QED BY <2>1, <2>2, <2>3 DEF Begun
<1>4. ASSUME NEW y \in Sessions, NEW project_id, NEW repo, NEW trace, FinishSession(y, project_id, repo, trace)
      PROVE  sessions'[x] = sessions[x] \/ Ended(x)
  <2>. DEFINE status == IF attestations'[Len(attestations')].compliant THEN "completed" ELSE "blocked"
  <2>0. \E l : sessions' = [sessions EXCEPT ![y].status = status, ![y].finished = TRUE, ![y].attestation = l]
    BY <1>4, Zenon DEF FinishSession
  <2>. HIDE DEF status
  <2>1. PICK link : sessions' = [sessions EXCEPT ![y].status = status, ![y].finished = TRUE, ![y].attestation = link]
    BY <2>0
  <2>6. status \in {"completed", "blocked"}
    BY DEF status
  <2>2. sessions[y] # NoSession /\ sessions[y] \in SessionRow
    BY <1>1, <1>4 DEF FinishSession
  <2>3. /\ sessions'[y] = [sessions[y] EXCEPT !.status = status, !.finished = TRUE, !.attestation = link]
        /\ \A z \in Sessions : z # y => sessions'[z] = sessions[z]
    BY <1>1, <2>1
  <2>4. /\ sessions'[y].status = status /\ sessions'[y].finished
        /\ sessions'[y].preflight = sessions[y].preflight
    BY <2>2, <2>3 DEF SessionRow
  <2>5. sessions'[y] # NoSession
    <3>1. NoSession.status = "none" /\ sessions'[y].status \in {"completed", "blocked"}
      BY <2>4, <2>6, Zenon DEF NoSession
    <3>. QED BY <3>1
  <2>. QED BY <2>2, <2>3, <2>4, <2>5, <2>6 DEF Ended
<1>5. CASE UNCHANGED sessions
  BY <1>5
<1>6. CASE UNCHANGED vars
  BY <1>6 DEF vars
<1>7. ASSUME Next
      PROVE  \/ UNCHANGED sessions
             \/ \E project_id \in Ids \cup {NoId}, repo \in Repos \cup {NoRepo} :
                  \/ \E y \in Sessions, type \in Types, preflight \in {"ready", "blocked"} :
                        BeginSession(y, project_id, repo, type, preflight)
                  \/ \E y \in Sessions, trace \in Traces \cup {NoTrace} :
                        FinishSession(y, project_id, repo, trace)
  BY <1>7 DEF Next, CreateProject, ManifestReport, CodeTraceReport, StatePush, Reference, SetPolicy, ComplianceCheck
<1>. QED BY <1>3, <1>4, <1>5, <1>6, <1>7

\* Rows are at most added at the end.
Longer(rows, new) ==
  /\ \E S : new \in Seq(S)
  /\ \A n \in DOMAIN rows : n \in DOMAIN new /\ new[n] = rows[n]

LEMMA AppendIsLonger ==
  ASSUME NEW rows, \E S : rows \in Seq(S), NEW new, new = rows \/ \E e : new = Append(rows, e)
  PROVE  Longer(rows, new)
<1>1. PICK S : rows \in Seq(S)
  OBVIOUS
<1>2. CASE new = rows
  BY <1>1, <1>2 DEF Longer
<1>3. ASSUME NEW e, new = Append(rows, e)
      PROVE  Longer(rows, new)
  <2>. DEFINE T == S \cup {e}
  <2>1. rows \in Seq(T)
    <3>1. \A V : S \subseteq V => Seq(S) \subseteq Seq(V)
      OBVIOUS
    <3>. QED BY <1>1, <3>1
  <2>2. e \in T
    OBVIOUS
  <2>. HIDE DEF T
  <2>3. /\ new \in Seq(T) /\ DOMAIN rows = 1..Len(rows) /\ DOMAIN new = 1..(Len(rows) + 1)
        /\ \A n \in 1..Len(rows) : new[n] = rows[n]
    BY <1>3, <2>1, <2>2
  <2>4. Len(rows) \in Nat
    BY <1>1
  <2>. QED BY <2>3, <2>4 DEF Longer
<1>. QED BY <1>2, <1>3

LEMMA RecordsGrow ==
  ASSUME Recorded, [EvidenceNext]_evidenceVars
  PROVE  Longer(events, events') /\ Longer(usage, usage')
<1>1. ASSUME NEW type, NEW consumer, NEW session, NEW sections, RecordContext(type, consumer, session, sections)
      PROVE  events' = events \/ \E e : events' = Append(events, e)
  BY <1>1 DEF RecordContext
<1>2. ASSUME NEW event, NEW i, NEW sections, Deliver(event, i, sections)
      PROVE  UNCHANGED usage /\ (events' = events \/ \E e : events' = Append(events, e))
  BY <1>1, <1>2 DEF Deliver
<1>3. CASE \E i \in Ids, project_id \in Ids \cup {NoId}, repo \in Repos, type \in Types :
             Registering(i, project_id, repo, type)
  BY <1>3, AppendIsLonger DEF Registering, evidence, Recorded
<1>4. ASSUME NEW project_id \in Ids \cup {NoId}, NEW repo \in Repos \cup {NoRepo}, Judging(project_id, repo)
      PROVE  UNCHANGED <<events, usage>>
  BY <1>4 DEF Judging, evidence
<1>5. ASSUME NEW project_id \in Ids \cup {NoId}, NEW repo \in Repos \cup {NoRepo}, Beginning(project_id, repo)
      PROVE  UNCHANGED usage /\ (events' = events \/ \E e : events' = Append(events, e))
  BY <1>1, <1>5 DEF Beginning, Begin
<1>6. ASSUME NEW i \in Ids \cup {NoId}, NEW type \in Types, Delivering(i, type)
      PROVE  UNCHANGED usage /\ (events' = events \/ \E e : events' = Append(events, e))
  BY <1>2, <1>6 DEF Delivering, GetSpecs, CompileSpecs, AgentPack, Search
<1>7. ASSUME NEW q \in searches, Answer(q)
      PROVE  UNCHANGED usage /\ (events' = events \/ \E e : events' = Append(events, e))
  BY <1>2, <1>7 DEF Answer
<1>8. CASE Reporting(Nat, Nat)
  <2>1. UNCHANGED events /\ \E e : usage' = Append(usage, e)
    BY <1>8 DEF Reporting, ReportUsage
  <2>. QED BY <2>1, AppendIsLonger DEF Recorded
<1>9. CASE Publishing \/ NextDay \/ UNCHANGED evidenceVars
  <2>1. UNCHANGED <<events, usage>>
    BY <1>9 DEF Publishing, Publish, NextDay, evidenceVars, evidence
  <2>. QED BY <2>1, AppendIsLonger DEF Recorded
<1>10. CASE ReportingGaps \/ \E s \in Specs : Discussing(s)
  <2>1. UNCHANGED <<events, usage>>
    BY <1>10 DEF ReportingGaps, Discussing, ReportGap, ReportFeedback, StoreFeedback, TriageFeedback,
                OpenReview, RejectReview, MeasureEfficacy, Discuss
  <2>. QED BY <2>1, AppendIsLonger DEF Recorded
<1>11. CASE Auditing
  <2>1. UNCHANGED <<events, usage>>
    BY <1>11 DEF Auditing, AuditProject, AuditSpec, AuditRun, AuditRelease, StoreReport
  <2>. QED BY <2>1, AppendIsLonger DEF Recorded
<1>12. ASSUME UNCHANGED evidence
       PROVE  UNCHANGED <<events, usage>>
  BY <1>12 DEF evidence
<1>. QED BY <1>3, <1>4, <1>5, <1>6, <1>7, <1>8, <1>9, <1>10, <1>11, <1>12, AppendIsLonger DEF EvidenceNext, Recorded

\* What the audit of a run says of it, in terms of what is kept.
LEMMA RunAudited ==
  ASSUME IInv, SessionsEnd, NEW x \in Sessions, sessions[x] # NoSession
  PROVE  /\ RunStatus(x) = "pass" => Accounted(x)
         /\ RunStatus(x) = "fail" => sessions[x].finished \/ sessions[x].preflight = "blocked"
         /\ Accounted(x) /\ sessions[x].status # "blocked" => RunStatus(x) = "pass" \/ Linked(x) = NoAttestation
         /\ sessions[x].status = "completed" /\ Linked(x) # NoAttestation => Halt(x) = "pass" /\ RunStatus(x) # "fail"
<1>1. /\ sessions[x].status \in {"active", "completed", "blocked"}
      /\ sessions[x].finished \in BOOLEAN
  BY DEF IInv, TypeOK, SessionRow
<1>2. sessions[x].status = "completed" /\ Linked(x) # NoAttestation => ~ Failing(Linked(x))
  BY DEF IInv, LinksAreOwn, Linked, Failing
<1>3. /\ IF sessions[x].finished THEN sessions[x].status # "active"
         ELSE sessions[x].status # "completed" /\ (sessions[x].status = "blocked" => sessions[x].preflight = "blocked")
  BY DEF SessionsEnd
<1>5. RunWarnings(x) = {} <=>
        /\ sessions[x].status # "active" /\ sessions[x].finished /\ Linked(x) # NoAttestation /\ ~ Failing(Linked(x))
        /\ RunContexts(x) # {} /\ RunUsage(x) # {} /\ sessions[x].preflight # "blocked"
  BY DEF RunWarnings, If
<1>7. /\ RunStatus(x) = "fail" <=> Halt(x) = "fail"
      /\ RunStatus(x) = "pass" <=> Halt(x) # "fail" /\ RunWarnings(x) = {}
  BY DEF RunStatus, AuditStatus
<1>8. /\ Halt(x) = "fail" => sessions[x].finished \/ sessions[x].preflight = "blocked"
      /\ sessions[x].status = "completed" /\ Linked(x) # NoAttestation => Halt(x) = "pass"
  BY <1>1, <1>2, <1>3 DEF Halt
<1>9. RunStatus(x) = "pass" => Accounted(x)
  BY <1>5, <1>7 DEF Accounted
<1>10. Accounted(x) /\ sessions[x].status # "blocked" => RunStatus(x) = "pass" \/ Linked(x) = NoAttestation
  <2>. SUFFICES ASSUME Accounted(x), sessions[x].status # "blocked", Linked(x) # NoAttestation
                PROVE  RunStatus(x) = "pass"
    OBVIOUS
  <2>1. sessions[x].status = "completed"
    BY <1>1, <1>3 DEF Accounted
  <2>2. RunWarnings(x) = {}
    BY <1>2, <1>5, <2>1 DEF Accounted
  <2>. QED BY <1>7, <1>8, <2>1, <2>2
<1>. QED BY <1>7, <1>8, <1>9, <1>10

LEMMA MaxExists ==
  ASSUME NEW L \in Nat, NEW T \in SUBSET (1..L), T # {}
  PROVE  Max(T) \in T /\ \A t \in T : Max(T) >= t
<1>. DEFINE R == OpToRel(<, Nat)
            Bounds == {u \in Nat : \A t \in T : t <= u}
<1>1. IsWellFoundedOn(R, Nat)
  BY NatLessThanWellFounded
<1>2. \A u, v \in Nat : u < v => <<u, v>> \in R
  BY DEF OpToRel
<1>3. L \in Bounds /\ Bounds \subseteq Nat
  OBVIOUS
<1>. HIDE DEF R, Bounds
<1>4. PICK m \in Bounds : \A u \in Bounds : ~ (<<u, m>> \in R)
  BY <1>1, <1>3, WFMin
<1>5. m \in Nat /\ (\A t \in T : t <= m) /\ \A u \in Bounds : ~ (u < m)
  BY <1>2, <1>3, <1>4 DEF Bounds
<1>6. m \in T
  <2>. SUFFICES ASSUME m \notin T PROVE FALSE
    OBVIOUS
  <2>1. m - 1 \in Nat /\ \A t \in T : t <= m - 1
    <3>1. ASSUME NEW t \in T PROVE t \in Nat /\ t >= 1 /\ t <= m - 1
      <4>1. t \in 1..L /\ t <= m /\ t # m
        BY <1>5
      <4>. QED BY <1>5, <4>1
    <3>2. m - 1 \in Nat
      <4>1. PICK t : t \in T
        OBVIOUS
      <4>. QED BY <1>5, <3>1, <4>1
    <3>. QED BY <3>1, <3>2
  <2>2. m - 1 \in Bounds
    BY <2>1 DEF Bounds
  <2>. QED BY <1>5, <2>1, <2>2
<1>7. \E t \in T : \A u \in T : t >= u
  BY <1>5, <1>6
<1>. QED BY <1>7 DEF Max

LEMMA AcceptedPass ==
  ASSUME IInv, SessionsEnd
  PROVE  AcceptedRunsPass
<1>. SUFFICES ASSUME NEW x \in Sessions, sessions[x] # NoSession, sessions[x].status = "completed",
                     sessions[x].repo # NoRepo
              PROVE  /\ Halt(x) = "pass" /\ RunStatus(x) # "fail"
                     /\ \A i \in Ids : Live(i) /\ Failing(Newest(Evaluations(i))) /\ x \in RunsOf(i)
                          => Newest(Evaluations(i)) > Linked(x) \/ attestations[Linked(x)].repo # consumers[i].repo
  BY DEF AcceptedRunsPass
<1>1. /\ Linked(x) # NoAttestation /\ Linked(x) \in Nat /\ Linked(x) <= Len(attestations)
      /\ attestations[Linked(x)].compliant /\ Len(attestations) \in Nat
      /\ DOMAIN attestations = 1..Len(attestations)
  <2>1. sessions[x].attestation # NoAttestation /\ attestations[sessions[x].attestation].compliant
    BY DEF IInv, LinksAreOwn
  <2>2. sessions[x] \in SessionRow /\ sessions[x].attestation <= Len(attestations)
    BY DEF IInv, TypeOK, LinksAreRows
  <2>3. sessions[x].attestation \in 0..MaxAttestations
    BY <2>2 DEF SessionRow
  <2>4. Len(attestations) \in Nat /\ DOMAIN attestations = 1..Len(attestations)
    BY DEF IInv, TypeOK
  <2>. QED BY <2>1, <2>2, <2>3, <2>4 DEF Linked
<1>2. ASSUME NEW i \in Ids, Failing(Newest(Evaluations(i))), attestations[Linked(x)].repo = consumers[i].repo
      PROVE  Newest(Evaluations(i)) > Linked(x)
  <2>1. Evaluations(i) \in SUBSET (1..Len(attestations)) /\ Linked(x) \in Evaluations(i)
    BY <1>1, <1>2 DEF Evaluations, NoAttestation
  <2>2. /\ Max(Evaluations(i)) \in Evaluations(i) /\ Max(Evaluations(i)) >= Linked(x)
        /\ Newest(Evaluations(i)) = Max(Evaluations(i))
    BY <1>1, <2>1, MaxExists DEF Newest
  <2>3. Max(Evaluations(i)) # Linked(x)
    BY <1>1, <1>2, <2>2 DEF Failing
  <2>. QED BY <1>1, <2>1, <2>2, <2>3
<1>. QED BY <1>1, <1>2, RunAudited

LEMMA AuditsStand ==
  ASSUME IInv, SessionsEnd, StoredAudits
  PROVE  RunAuditsStand
<1>. SUFFICES ASSUME NEW x \in Sessions, NEW r \in ReportsOf("agent_run", x)
              PROVE  /\ r.status = "pass" =>
                          \/ RunStatus(x) = "pass" \/ sessions[x].status = "blocked"
                          \/ sessions[x].repo = NoRepo /\ Linked(x) = NoAttestation
                     /\ r.status = "fail" => sessions[x].finished \/ sessions[x].preflight = "blocked"
  BY DEF RunAuditsStand
<1>1. /\ sessions[x] # NoSession
      /\ r.status = "pass" => Accounted(x)
      /\ r.status = "fail" => sessions[x].finished \/ sessions[x].preflight = "blocked"
  BY DEF StoredAudits
<1>2. ASSUME Accounted(x), sessions[x].status # "blocked", Linked(x) = NoAttestation
      PROVE  sessions[x].repo = NoRepo
  <2>1. sessions[x].status = "completed"
    <3>1. sessions[x] \in SessionRow
      BY <1>1 DEF IInv, TypeOK
    <3>. QED BY <1>1, <1>2, <3>1 DEF SessionRow, SessionsEnd, Accounted
  <2>. QED BY <1>1, <1>2, <2>1 DEF IInv, LinksAreOwn, Linked
<1>. QED BY <1>1, <1>2, RunAudited

LEMMA EvidenceInitIInv ==
  ASSUME ProjectsAssumption, EvidenceInit
  PROVE  EvidenceIInv
<1>1. IInv
  BY InitIInv DEF EvidenceInit
<1>2. SessionsEnd
  BY DEF EvidenceInit, Init, SessionsEnd
<1>3. Recorded
  <2>1. events = << >> /\ usage = << >>
    BY DEF EvidenceInit
  <2>2. << >> \in Seq({})
    OBVIOUS
  <2>. QED BY <2>1, <2>2 DEF Recorded
<1>4. StoredAudits
  BY DEF EvidenceInit, StoredAudits, ReportsOf
<1>. QED BY <1>1, <1>2, <1>3, <1>4 DEF EvidenceIInv

\* The reports a step stores: an audit of a run says what the audit finds now.
LEMMA StoredReports ==
  ASSUME [EvidenceNext]_evidenceVars, NEW x \in Sessions, NEW r \in ReportsOf("agent_run", x)'
  PROVE  \/ r \in ReportsOf("agent_run", x)
         \/ UNCHANGED <<vars, events, usage>> /\ sessions[x] # NoSession /\ r.status = RunStatus(x)
<1>. SUFFICES ASSUME r \notin reports
              PROVE  UNCHANGED <<vars, events, usage>> /\ sessions[x] # NoSession /\ r.status = RunStatus(x)
  BY DEF ReportsOf
<1>1. r \in reports' /\ r.kind = "agent_run" /\ r.subject = x
  BY DEF ReportsOf
<1>2. ASSUME NEW kind, NEW subject, NEW status, StoreReport(kind, subject, status)
      PROVE  UNCHANGED <<vars, events, usage>> /\ kind = "agent_run" /\ subject = x /\ status = r.status
  <2>1. r = [kind |-> kind, subject |-> subject, status |-> status] /\ UNCHANGED <<vars, events, usage>>
    BY <1>1, <1>2 DEF StoreReport
  <2>. QED BY <1>1, <2>1
<1>3. UNCHANGED reports \/ Auditing
  <2>1. UNCHANGED library => UNCHANGED reports
    BY DEF library
  <2>2. UNCHANGED evidence => UNCHANGED reports
    BY DEF evidence, library
  <2>3. \A event, i, sections : Deliver(event, i, sections) => UNCHANGED reports
    BY <2>1 DEF Deliver
  <2>4. ASSUME NEW i \in Ids \cup {NoId}, NEW type \in Types, Delivering(i, type)
        PROVE  UNCHANGED reports
    BY <2>1, <2>3, <2>4 DEF Delivering, GetSpecs, CompileSpecs, AgentPack, Search
  <2>5. ASSUME NEW q \in searches, Answer(q)
        PROVE  UNCHANGED reports
    BY <2>1, <2>3, <2>5 DEF Answer
  <2>6. CASE Reporting(Nat, Nat) \/ Publishing \/ NextDay
    BY <2>1, <2>6 DEF Reporting, ReportUsage, Publishing, Publish, NextDay
  <2>7. CASE ReportingGaps \/ \E s \in Specs : Discussing(s)
    BY <2>7 DEF ReportingGaps, Discussing, ReportGap, ReportFeedback, StoreFeedback, TriageFeedback,
                OpenReview, RejectReview, MeasureEfficacy, Discuss
  <2>8. ASSUME NEW project_id \in Ids \cup {NoId}, NEW repo \in Repos \cup {NoRepo},
               Judging(project_id, repo) \/ Beginning(project_id, repo)
        PROVE  UNCHANGED reports
    BY <2>1, <2>2, <2>8 DEF Judging, Beginning, Begin
  <2>9. ASSUME NEW i \in Ids, NEW project_id \in Ids \cup {NoId}, NEW repo \in Repos, NEW type \in Types,
               Registering(i, project_id, repo, type)
        PROVE  UNCHANGED reports
    BY <2>2, <2>9 DEF Registering
  <2>10. CASE UNCHANGED evidenceVars
    BY <2>2, <2>10 DEF evidenceVars
  <2>. QED BY <2>2, <2>4, <2>5, <2>6, <2>7, <2>8, <2>9, <2>10 DEF EvidenceNext
<1>4. CASE Auditing
  <2>1. CASE \E y \in Sessions : AuditRun(y)
    BY <1>2, <2>1 DEF AuditRun
  <2>2. CASE \E s \in Specs : AuditSpec(s)
    BY <1>2, <2>2 DEF AuditSpec
  <2>3. CASE \E i \in Ids : AuditProject(i) \/ \E release \in Releases : AuditRelease(i, release)
    BY <1>2, <2>3 DEF AuditProject, AuditRelease
  <2>. QED BY <1>4, <2>1, <2>2, <2>3 DEF Auditing
<1>. QED BY <1>1, <1>3, <1>4

LEMMA EvidenceIInvStep ==
  ASSUME ProjectsAssumption, EvidenceIInv, [EvidenceNext]_evidenceVars
  PROVE  EvidenceIInv'
<1>. USE DEF EvidenceIInv
<1>1. [Next]_vars
  BY EvidenceIsProjects DEF evidenceVars
<1>2. IInv'
  BY <1>1, IInvStep
<1>3. Longer(events, events') /\ Longer(usage, usage')
  BY RecordsGrow
<1>4. Recorded'
  BY <1>3 DEF Recorded, Longer
<1>5. \A x \in Sessions : sessions'[x] = sessions[x] \/ Begun(x) \/ Ended(x)
  BY <1>1, SessionSteps
<1>6. SessionsEnd'
  <2>. SUFFICES ASSUME NEW x \in Sessions, sessions'[x] # NoSession
                PROVE  IF sessions'[x].finished THEN sessions'[x].status # "active"
                       ELSE /\ sessions'[x].status # "completed"
                            /\ sessions'[x].status = "blocked" => sessions'[x].preflight = "blocked"
    BY DEF SessionsEnd
  <2>1. CASE sessions'[x] = sessions[x]
    BY <2>1 DEF SessionsEnd
  <2>2. CASE Begun(x)
    BY <2>2 DEF Begun
  <2>3. CASE Ended(x)
    BY <2>3 DEF Ended
  <2>. QED BY <1>5, <2>1, <2>2, <2>3
<1>7. ASSUME NEW x \in Sessions
      PROVE  /\ Accounted(x) => Accounted(x)'
             /\ sessions[x] # NoSession => sessions'[x] # NoSession
             /\ sessions[x] # NoSession /\ (sessions[x].finished \/ sessions[x].preflight = "blocked")
                  => sessions'[x].finished \/ sessions'[x].preflight = "blocked"
  <2>1. RunContexts(x) # {} => RunContexts(x)' # {}
    BY <1>3 DEF RunContexts, Longer
  <2>2. RunUsage(x) # {} => RunUsage(x)' # {}
    BY <1>3 DEF RunUsage, Longer
  <2>3. CASE sessions'[x] = sessions[x]
    BY <2>1, <2>2, <2>3 DEF Accounted
  <2>4. CASE Begun(x)
    BY <2>4 DEF Begun, Accounted
  <2>5. CASE Ended(x)
    BY <2>1, <2>2, <2>5 DEF Ended, Accounted
  <2>. QED BY <1>5, <2>3, <2>4, <2>5
<1>8. StoredAudits'
  <2>. SUFFICES ASSUME NEW x \in Sessions, NEW r \in ReportsOf("agent_run", x)'
                PROVE  /\ sessions'[x] # NoSession
                       /\ r.status = "pass" => Accounted(x)'
                       /\ r.status = "fail" => sessions'[x].finished \/ sessions'[x].preflight = "blocked"
    BY DEF StoredAudits
  <2>1. CASE r \in ReportsOf("agent_run", x)
    <3>1. /\ sessions[x] # NoSession
          /\ r.status = "pass" => Accounted(x)
          /\ r.status = "fail" => sessions[x].finished \/ sessions[x].preflight = "blocked"
      BY <2>1 DEF StoredAudits
    <3>. QED BY <1>7, <3>1
  <2>2. CASE sessions[x] # NoSession /\ r.status = RunStatus(x)
    <3>1. /\ r.status = "pass" => Accounted(x)
          /\ r.status = "fail" => sessions[x].finished \/ sessions[x].preflight = "blocked"
      BY <2>2, RunAudited
    <3>. QED BY <1>7, <2>2, <3>1
  <2>. QED BY <2>1, <2>2, StoredReports
<1>. QED BY <1>2, <1>4, <1>6, <1>8

\* Every completion the gate accepted passes the audit of its run and fails none of its
\* project's unless something was evaluated later, and what the audit of a run stored stands:
\* whatever is delivered, attested, published and reported since.
THEOREM RunsStayJudgedAlike == EvidenceSpec => []RunsAreJudgedAlike
<1>. USE ProjectsAssumption
<1>1. EvidenceInit => EvidenceIInv
  BY EvidenceInitIInv
<1>2. EvidenceIInv /\ [EvidenceNext]_evidenceVars => EvidenceIInv'
  BY EvidenceIInvStep
<1>3. EvidenceIInv => RunsAreJudgedAlike
  BY AcceptedPass, AuditsStand DEF EvidenceIInv, RunsAreJudgedAlike
<1>. QED BY <1>1, <1>2, <1>3, PTL DEF EvidenceSpec

-----------------------------------------------------------------------------
(* The token reports.                                                      *)

\* Sections with an estimate, finitely many.
Estimated(sections) == IsFiniteSet(sections) /\ \A e \in sections : e.tokens \in Nat

Texts == \A s \in Specs : specs[s].sections \subseteq Anchors

\* An event sums what it delivered, of the day it did.
EventRecorded(event) ==
  /\ event.consumer \in Ids \cup {NoId} /\ event.day \in Nat
  /\ Estimated(event.sections) /\ event.tokens = TokensOf(event.sections)

UsageRecorded(row) == row.consumer \in Ids \cup {NoId} /\ row.total \in Nat

SearchKnown(q) == q.consumer \in Ids \cup {NoId} /\ Estimated(q.found)

Recording ==
  /\ Texts /\ today \in 0..LastDay
  /\ \A q \in searches : SearchKnown(q)
  /\ \A n \in DOMAIN events : EventRecorded(events[n])
  /\ \A n \in DOMAIN usage : UsageRecorded(usage[n])

LEMMA ImageIsFinite ==
  ASSUME NEW S, IsFiniteSet(S), NEW T, NEW f, T = {f[x] : x \in S}
  PROVE  IsFiniteSet(T)
<1>. DEFINE r == [x \in S |-> f[x]]
<1>1. r \in Surjection(S, T)
  BY DEF Surjection
<1>. HIDE DEF r
<1>. QED BY <1>1, FS_Surjection

LEMMA BundlesAreEstimated ==
  ASSUME EvidenceAssumption, Texts, NEW bundle \in SUBSET Specs
  PROVE  Estimated(SectionsOf(bundle))
<1>1. \A s \in Specs : \A e \in Sections(s) : e.tokens \in Nat
  BY DEF Texts, Sections, EvidenceAssumption
<1>2. ASSUME NEW s \in Specs
      PROVE  IsFiniteSet(Sections(s))
  <2>. DEFINE f == [a \in Anchors |-> [spec |-> s, version |-> specs[s].version, anchor |-> a, tokens |-> Tokens[a]]]
              A == specs[s].sections
  <2>1. IsFiniteSet(A) /\ A \subseteq Anchors
    BY FS_Subset DEF Texts, EvidenceAssumption
  <2>2. Sections(s) = {f[a] : a \in A}
    BY <2>1 DEF Sections
  <2>. HIDE DEF f, A
  <2>. QED BY <2>1, <2>2, ImageIsFinite
<1>3. IsFiniteSet({Sections(s) : s \in bundle})
  <2>. DEFINE f == [s \in bundle |-> Sections(s)]
              T == {f[s] : s \in bundle}
  <2>1. IsFiniteSet(bundle)
    BY FS_Subset DEF EvidenceAssumption
  <2>2. IsFiniteSet(T)
    BY <2>1, ImageIsFinite
  <2>3. T = {Sections(s) : s \in bundle}
    OBVIOUS
  <2>. QED BY <2>2, <2>3
<1>4. IsFiniteSet(UNION {Sections(s) : s \in bundle})
  BY <1>2, <1>3, FS_UNION
<1>. QED BY <1>1, <1>4 DEF Estimated, SectionsOf

LEMMA AppendedRows ==
  ASSUME NEW rows, \E S : rows \in Seq(S), NEW e, NEW new, new = Append(rows, e)
  PROVE  \A n \in DOMAIN new : (n \in DOMAIN rows /\ new[n] = rows[n]) \/ new[n] = e
<1>1. PICK S : rows \in Seq(S)
  OBVIOUS
<1>. DEFINE T == S \cup {e}
<1>2. rows \in Seq(T) /\ e \in T
  <2>1. \A V : S \subseteq V => Seq(S) \subseteq Seq(V)
    OBVIOUS
  <2>. QED BY <1>1, <2>1
<1>. HIDE DEF T
<1>3. /\ Len(rows) \in Nat /\ DOMAIN rows = 1..Len(rows) /\ DOMAIN new = 1..(Len(rows) + 1)
      /\ (\A n \in 1..Len(rows) : new[n] = rows[n]) /\ new[Len(rows) + 1] = e
  BY <1>2
<1>. QED BY <1>3

\* What is recorded of a delivery.
LEMMA ContextsRecorded ==
  ASSUME EvidenceAssumption, Recorded, Recording, NEW type, NEW consumer \in Ids \cup {NoId}, NEW session,
         NEW sections, Estimated(sections), RecordContext(type, consumer, session, sections)
  PROVE  \A n \in DOMAIN events' : EventRecorded(events'[n])
<1>1. CASE UNCHANGED events
  BY <1>1 DEF Recording
<1>2. CASE ~ UNCHANGED events
  <2>1. PICK e : /\ e = [type |-> type, consumer |-> consumer, session |-> session, day |-> today, sections |-> sections,
                         tokens |-> EventTokens(sections), count |-> Cardinality(sections)]
                 /\ events' = Append(events, e)
    BY <1>2 DEF RecordContext
  <2>2. EventRecorded(e)
    <3>1. /\ e.consumer = consumer /\ e.day = today /\ e.sections = sections /\ e.tokens = EventTokens(sections)
      BY <2>1
    <3>2. today \in Nat
      BY DEF Recording
    <3>. QED BY <3>1, <3>2 DEF EventRecorded, EventTokens
  <2>3. \A n \in DOMAIN events' : (n \in DOMAIN events /\ events'[n] = events[n]) \/ events'[n] = e
    BY <2>1, AppendedRows DEF Recorded
  <2>. QED BY <2>2, <2>3 DEF Recording
<1>. QED BY <1>1, <1>2

LEMMA RecordingStep ==
  ASSUME EvidenceAssumption, ProjectsAssumption, IInv, Recorded, Recording, [EvidenceNext]_evidenceVars
  PROVE  Recording'
<1>. DEFINE Known == \A q \in searches' : SearchKnown(q)
            Told == \A n \in DOMAIN events' : EventRecorded(events'[n])
            Spoken == \A n \in DOMAIN usage' : UsageRecorded(usage'[n])
<1>1. ASSUME UNCHANGED <<specs, today>>, Known, Told, Spoken
      PROVE  Recording'
  BY <1>1 DEF Recording, Texts
<1>2. /\ UNCHANGED searches => Known
      /\ UNCHANGED events => Told
      /\ UNCHANGED usage => Spoken
  BY DEF Recording
<1>3. ASSUME UNCHANGED <<specs, today, searches, events, usage>>
      PROVE  Recording'
  BY <1>1, <1>2, <1>3
<1>4. ASSUME UNCHANGED evidence PROVE Recording'
  BY <1>3, <1>4 DEF evidence, library
<1>5. \A type, i : Estimated(SectionsOf(Bundle(type, i)))
  <2>1. \A type, i : Bundle(type, i) \in SUBSET Specs
    BY DEF Bundle
  <2>. QED BY <2>1, BundlesAreEstimated DEF Recording
<1>6. ASSUME NEW event, NEW i \in Ids \cup {NoId}, NEW sections, Estimated(sections), Deliver(event, i, sections), Known
      PROVE  Recording'
  <2>1. Told
    BY <1>6, ContextsRecorded DEF Deliver
  <2>2. UNCHANGED <<specs, today, usage>>
    BY <1>6 DEF Deliver, library
  <2>. QED BY <1>1, <1>2, <1>6, <2>1, <2>2
<1>7. ASSUME NEW i \in Ids \cup {NoId}, NEW type \in Types, Delivering(i, type)
      PROVE  Recording'
  <2>1. CASE GetSpecs(i, type)
    BY <1>2, <1>5, <1>6, <2>1 DEF GetSpecs
  <2>2. CASE CompileSpecs(i, type)
    BY <1>2, <1>5, <1>6, <2>2 DEF CompileSpecs
  <2>3. CASE AgentPack(i, type)
    BY <1>2, <1>5, <1>6, <2>3 DEF AgentPack
  <2>4. ASSUME NEW event, NEW found, Search(event, i, type, found)
        PROVE  Recording'
    <3>1. PICK q : q = [event |-> event, consumer |-> i, found |-> found] /\ searches' = {q}
      BY <2>4 DEF Search
    <3>2. found \subseteq SectionsOf(Bundle(type, i)) /\ UNCHANGED <<specs, today, events, usage>>
      BY <2>4 DEF Search, library
    <3>3. Estimated(found)
      BY <1>5, <3>2, FS_Subset DEF Estimated
    <3>4. SearchKnown(q)
      BY <3>1, <3>3 DEF SearchKnown
    <3>. QED BY <1>1, <1>2, <3>1, <3>2, <3>4
  <2>. QED BY <1>7, <2>1, <2>2, <2>3, <2>4 DEF Delivering
<1>8. ASSUME NEW q \in searches, Answer(q)
      PROVE  Recording'
  <2>1. SearchKnown(q) /\ Known
    BY <1>8 DEF Answer, Recording
  <2>2. CASE Deliver(q.event, q.consumer, q.found)
    BY <1>6, <2>1, <2>2 DEF SearchKnown
  <2>3. CASE UNCHANGED <<vars, library, events, usage, today>>
    <3>1. UNCHANGED <<specs, today, events, usage>>
      BY <2>3 DEF library
    <3>. QED BY <1>1, <1>2, <2>1, <3>1
  <2>. QED BY <1>8, <2>2, <2>3 DEF Answer
<1>9. ASSUME NEW project_id \in Ids \cup {NoId}, NEW repo \in Repos \cup {NoRepo}, Beginning(project_id, repo)
      PROVE  Recording'
  <2>1. PICK x \in Sessions, type \in Types : Begin(x, project_id, repo, type)
    BY <1>9 DEF Beginning
  <2>2. PICK project : project = Named(project_id, repo, type)
    OBVIOUS
  <2>3. /\ RecordContext("begin_task", project, x, SectionsOf(Bundle(type, project)))
        /\ UNCHANGED <<library, usage, searches, today>>
    BY <2>1, <2>2 DEF Begin
  <2>4. project \in Ids \cup {NoId}
    BY <2>2, NamedRow DEF IInv
  <2>5. Told
    BY <1>5, <2>3, <2>4, ContextsRecorded
  <2>. QED BY <1>1, <1>2, <2>3, <2>5 DEF library
<1>10. CASE Reporting(Nat, Nat)
  <2>1. PICK x \in Sessions \cup {NoSessionId}, i \in Ids \cup {NoId}, prompt \in Nat, completion \in Nat,
             claimed \in Nat : ReportUsage(x, i, prompt, completion, claimed)
    BY <1>10 DEF Reporting
  <2>2. PICK project : project = IF x # NoSessionId /\ sessions[x].consumer # NoId THEN sessions[x].consumer ELSE i
    OBVIOUS
  <2>3. project \in Ids \cup {NoId}
    <3>1. CASE x # NoSessionId
      <4>1. sessions[x] \in SessionRow
        BY <2>1, <3>1 DEF ReportUsage, IInv, TypeOK
      <4>. QED BY <2>2, <4>1 DEF SessionRow
    <3>2. CASE x = NoSessionId
      BY <2>2, <3>2
    <3>. QED BY <3>1, <3>2
  <2>4. UsageTotal(prompt, completion, claimed) \in Nat
    BY DEF UsageTotal
  <2>5. PICK e : /\ e = [consumer |-> project, session |-> x, day |-> today, prompt |-> prompt,
                         completion |-> completion, total |-> UsageTotal(prompt, completion, claimed)]
                 /\ usage' = Append(usage, e) /\ UNCHANGED <<library, events, searches, today>>
    BY <2>1, <2>2 DEF ReportUsage
  <2>6. UsageRecorded(e)
    <3>1. e.consumer = project /\ e.total = UsageTotal(prompt, completion, claimed)
      BY <2>5
    <3>. QED BY <2>3, <2>4, <3>1 DEF UsageRecorded
  <2>7. \A n \in DOMAIN usage' : (n \in DOMAIN usage /\ usage'[n] = usage[n]) \/ usage'[n] = e
    BY <2>5, AppendedRows DEF Recorded
  <2>8. Spoken
    BY <2>6, <2>7 DEF Recording
  <2>. QED BY <1>1, <1>2, <2>5, <2>8 DEF library
<1>11. CASE Publishing
  <2>1. PICK s \in Specs, sections \in SUBSET Anchors : Publish(s, sections)
    BY <1>11 DEF Publishing
  <2>2. /\ specs' = [specs EXCEPT ![s] = [version |-> specs[s].version + 1, sections |-> sections]]
        /\ UNCHANGED <<events, usage, searches, today>>
    BY <2>1 DEF Publish
  <2>3. Texts'
    <3>1. PICK row : row = [version |-> specs[s].version + 1, sections |-> sections]
      OBVIOUS
    <3>2. row.sections = sections /\ specs' = [specs EXCEPT ![s] = row]
      BY <2>2, <3>1
    <3>3. \A t \in Specs : specs'[t].sections = sections \/ specs'[t] = specs[t]
      BY <3>2
    <3>. QED BY <3>3 DEF Texts, Recording
  <2>. QED BY <1>2, <2>2, <2>3 DEF Recording
<1>12. CASE NextDay
  <2>1. today' \in 0..LastDay /\ UNCHANGED <<specs, events, usage, searches>>
    BY <1>12 DEF NextDay, library, Recording, EvidenceAssumption
  <2>. QED BY <1>2, <2>1 DEF Recording, Texts
<1>13. CASE ReportingGaps \/ \E s \in Specs : Discussing(s)
  <2>1. UNCHANGED <<specs, today, searches, events, usage>>
    BY <1>13 DEF ReportingGaps, Discussing, ReportGap, ReportFeedback, StoreFeedback, TriageFeedback,
                OpenReview, RejectReview, MeasureEfficacy, Discuss
  <2>. QED BY <1>3, <2>1
<1>14. CASE Auditing
  <2>1. UNCHANGED <<specs, today, searches, events, usage>>
    BY <1>14 DEF Auditing, AuditProject, AuditSpec, AuditRun, AuditRelease, StoreReport
  <2>. QED BY <1>3, <2>1
<1>15. CASE UNCHANGED evidenceVars
  BY <1>4, <1>15 DEF evidenceVars
<1>16. ASSUME NEW i \in Ids, NEW project_id \in Ids \cup {NoId}, NEW repo \in Repos, NEW type \in Types,
              Registering(i, project_id, repo, type)
       PROVE  Recording'
  BY <1>4, <1>16 DEF Registering
<1>17. ASSUME NEW project_id \in Ids \cup {NoId}, NEW repo \in Repos \cup {NoRepo}, Judging(project_id, repo)
       PROVE  Recording'
  BY <1>4, <1>17 DEF Judging
<1>. QED BY <1>4, <1>7, <1>8, <1>9, <1>10, <1>11, <1>12, <1>13, <1>14, <1>15, <1>16, <1>17 DEF EvidenceNext

\* The sum of a report's groups is what is grouped.
LEMMA SumOfReport ==
  ASSUME NEW S, IsFiniteSet(S), NEW f, \A x \in S : f[x] \in Nat, NEW K, NEW key,
         (\A x \in S : key[x] \in K), (\A k \in K : \E x \in S : k = key[x]), NEW report, DOMAIN report = K, \A k \in K : report[k] = SumFunctionOnSet(f, Group(S, key, k))
  PROVE  SumFunction(report) = SumFunctionOnSet(f, S)
<1>. DEFINE T == {key[x] : x \in S}
<1>1. T = K
  OBVIOUS
<1>2. IsFiniteSet(T)
  BY ImageIsFinite
<1>. HIDE DEF T
<1>3. IsFiniteSet(K)
  BY <1>1, <1>2
<1>4. SumFunctionOnSet(report, K) = SumFunctionOnSet(f, S)
  BY <1>3, SumOfGroups
<1>. QED BY <1>4 DEF SumFunction

Rows(contexts) == [d \in Delivered(contexts) |-> d[2].tokens]

LEMMA DeliveredRows ==
  ASSUME Recorded, Recording, NEW contexts \in SUBSET DOMAIN events
  PROVE  /\ IsFiniteSet(contexts) /\ IsFiniteSet(Delivered(contexts))
         /\ \A d \in Delivered(contexts) : /\ d[1] \in contexts /\ d[2] \in events[d[1]].sections
                                           /\ d = <<d[1], d[2]>> /\ d[2].tokens \in Nat
         /\ \A n \in contexts : \A e \in events[n].sections : <<n, e>> \in Delivered(contexts)
<1>1. IsFiniteSet(DOMAIN events)
  <2>1. DOMAIN events = 1..Len(events) /\ Len(events) \in Nat
    BY DEF Recorded
  <2>. QED BY <2>1, FS_Interval
<1>2. IsFiniteSet(contexts)
  BY <1>1, FS_Subset
<1>3. \A n \in contexts : Estimated(events[n].sections)
  BY DEF Recording, EventRecorded
<1>. DEFINE Of(n) == {<<n, e>> : e \in events[n].sections}
<1>4. ASSUME NEW n \in contexts
      PROVE  IsFiniteSet(Of(n))
  <2>. DEFINE sections == events[n].sections
              f == [e \in sections |-> <<n, e>>]
  <2>1. IsFiniteSet(sections)
    BY <1>3 DEF Estimated
  <2>2. Of(n) = {f[e] : e \in sections}
    OBVIOUS
  <2>. HIDE DEF sections, f, Of
  <2>. QED BY <2>1, <2>2, ImageIsFinite
<1>5. IsFiniteSet({Of(n) : n \in contexts})
  <2>. DEFINE f == [n \in contexts |-> Of(n)]
              T == {f[n] : n \in contexts}
  <2>1. IsFiniteSet(T)
    BY <1>2, ImageIsFinite
  <2>2. T = {Of(n) : n \in contexts}
    OBVIOUS
  <2>. QED BY <2>1, <2>2
<1>6. IsFiniteSet(UNION {Of(n) : n \in contexts})
  <2>. HIDE DEF Of
  <2>. QED BY <1>4, <1>5, FS_UNION
<1>7. Delivered(contexts) = UNION {Of(n) : n \in contexts}
  BY DEF Delivered
<1>8. \A d \in Delivered(contexts) : \E n \in contexts : \E e \in events[n].sections : d = <<n, e>>
  BY DEF Delivered
<1>9. \A n \in contexts : \A e \in events[n].sections : <<n, e>> \in Delivered(contexts)
  BY DEF Delivered
<1>10. ASSUME NEW d \in Delivered(contexts)
       PROVE  d[1] \in contexts /\ d[2] \in events[d[1]].sections /\ d = <<d[1], d[2]>> /\ d[2].tokens \in Nat
  <2>1. PICK n \in contexts : \E e \in events[n].sections : d = <<n, e>>
    BY <1>8
  <2>2. PICK e \in events[n].sections : d = <<n, e>>
    BY <2>1
  <2>3. d[1] = n /\ d[2] = e
    BY <2>2
  <2>4. e.tokens \in Nat
    BY <1>3 DEF Estimated
  <2>. QED BY <2>2, <2>3, <2>4
<1>. QED BY <1>2, <1>6, <1>7, <1>9, <1>10

\* What rows are delivered, by whichever key of the row.
LEMMA RowsByKey ==
  ASSUME Recorded, Recording, NEW contexts \in SUBSET DOMAIN events, NEW K, NEW key,
         (\A d \in Delivered(contexts) : key[d] \in K), (\A k \in K : \E d \in Delivered(contexts) : k = key[d]),
         NEW report, DOMAIN report = K,
         \A k \in K : report[k] = TokensOfRows(Group(Delivered(contexts), key, k))
  PROVE  SumFunction(report) = SumFunctionOnSet(Rows(contexts), Delivered(contexts))
<1>. DEFINE S == Delivered(contexts)
            f == Rows(contexts)
<1>1. IsFiniteSet(S) /\ \A d \in S : f[d] = d[2].tokens /\ f[d] \in Nat
  BY DeliveredRows DEF Rows
<1>2. ASSUME NEW k \in K
      PROVE  report[k] = SumFunctionOnSet(f, Group(S, key, k))
  <2>1. PICK T : T = Group(S, key, k)
    OBVIOUS
  <2>2. T \subseteq S /\ IsFiniteSet(T)
    <3>1. T \in SUBSET S
      BY <2>1 DEF Group
    <3>. HIDE DEF S
    <3>. QED BY <1>1, <3>1, FS_Subset
  <2>. DEFINE g == [d \in T |-> d[2].tokens]
  <2>3. \A d \in T : g[d] = f[d]
    BY <1>1, <2>2
  <2>4. TokensOfRows(T) = SumFunctionOnSet(g, T)
    BY DEF TokensOfRows, SumFunction
  <2>. HIDE DEF g, f, S
  <2>5. SumFunctionOnSet(g, T) = SumFunctionOnSet(f, T)
    BY <2>2, <2>3, SumEqual
  <2>. QED BY <2>1, <2>4, <2>5 DEF S
<1>3. (\A d \in S : key[d] \in K) /\ (\A k \in K : \E d \in S : k = key[d]) /\ \A d \in S : f[d] \in Nat
  BY <1>1
<1>. HIDE DEF S, f
<1>4. IsFiniteSet(S) /\ (\A d \in S : f[d] \in Nat) /\ DOMAIN report = K
  BY <1>1
<1>5. \A k \in K : report[k] = SumFunctionOnSet(f, Group(S, key, k))
  BY <1>2
<1>6. SumFunction(report) = SumFunctionOnSet(f, S)
  BY <1>3, <1>4, <1>5, SumOfReport
<1>. QED BY <1>6 DEF S, f

\* Events sum the rows they delivered.
LEMMA EventsSumRows ==
  ASSUME Recorded, Recording, NEW contexts \in SUBSET DOMAIN events
  PROVE  TokensOfEvents(contexts) = SumFunctionOnSet(Rows(contexts), Delivered(contexts))
<1>. DEFINE S == Delivered(contexts)
            f == Rows(contexts)
            key == [d \in S |-> d[1]]
            g == [n \in contexts |-> events[n].tokens]
<1>1. /\ IsFiniteSet(contexts) /\ IsFiniteSet(S)
      /\ \A d \in S : /\ f[d] = d[2].tokens /\ f[d] \in Nat
                      /\ key[d] \in contexts /\ d[2] \in events[d[1]].sections /\ d = <<d[1], d[2]>> /\ key[d] = d[1]
      /\ \A n \in contexts : \A e \in events[n].sections : <<n, e>> \in S
  BY DeliveredRows DEF Rows
<1>2. ASSUME NEW n \in contexts
      PROVE  g[n] = SumFunctionOnSet(f, Group(S, key, n))
  <2>. DEFINE sections == events[n].sections
              h == [e \in sections |-> <<n, e>>]
              t == [e \in sections |-> e.tokens]
  <2>1. Estimated(sections) /\ events[n].tokens = TokensOf(sections)
    BY DEF Recording, EventRecorded
  <2>2. PICK T : T = Group(S, key, n)
    OBVIOUS
  <2>3. (\A e \in sections : h[e] \in T) /\ \A d \in T : \E e \in sections : d = h[e]
    <3>1. \A e \in sections : h[e] \in S /\ key[h[e]] = n
      BY <1>1
    <3>2. \A d \in S : key[d] = n => d[2] \in sections /\ d = h[d[2]]
      BY <1>1
    <3>. HIDE DEF S, key, h, sections
    <3>. QED BY <2>2, <3>1, <3>2 DEF Group
  <2>4. \A e \in sections : t[e] \in Nat /\ f[h[e]] = t[e]
    BY <1>1, <2>1 DEF Estimated
  <2>5. \A d, e \in sections : h[d] = h[e] => d = e
    OBVIOUS
  <2>6. TokensOf(sections) = SumFunctionOnSet(t, sections)
    BY DEF TokensOf, SumFunction
  <2>7. g[n] = events[n].tokens
    OBVIOUS
  <2>8. IsFiniteSet(sections)
    BY <2>1 DEF Estimated
  <2>. HIDE DEF sections, h, t, f, S, key, g
  <2>9. SumFunctionOnSet(f, T) = SumFunctionOnSet(t, sections)
    BY <2>3, <2>4, <2>5, <2>8, SumRenamed
  <2>. QED BY <2>1, <2>2, <2>6, <2>7, <2>9
<1>3. TokensOfEvents(contexts) = SumFunctionOnSet(g, contexts)
  BY DEF TokensOfEvents, SumFunction
<1>. HIDE DEF S, f, key, g
<1>4. SumFunctionOnSet(g, contexts) = SumFunctionOnSet(f, S)
  BY <1>1, <1>2, SumOfGroups
<1>. QED BY <1>3, <1>4 DEF S, f

\* What events deliver, by whichever key of the event.
LEMMA EventsByKey ==
  ASSUME Recorded, Recording, NEW contexts \in SUBSET DOMAIN events, NEW K, IsFiniteSet(K), NEW key,
         \A n \in contexts : key[n] \in K, NEW report, \A k \in K : report[k] = TokensOfEvents(Group(contexts, key, k))
  PROVE  SumFunctionOnSet(report, K) = TokensOfEvents(contexts)
<1>. DEFINE f == [n \in contexts |-> events[n].tokens]
<1>1. IsFiniteSet(contexts)
  BY DeliveredRows
<1>2. ASSUME NEW n \in contexts
      PROVE  f[n] \in Nat
  <2>. DEFINE sections == events[n].sections
              t == [e \in sections |-> e.tokens]
  <2>1. Estimated(sections) /\ events[n].tokens = TokensOf(sections)
    BY DEF Recording, EventRecorded
  <2>2. IsFiniteSet(sections) /\ \A e \in sections : t[e] \in Nat
    BY <2>1 DEF Estimated
  <2>3. TokensOf(sections) = SumFunctionOnSet(t, sections)
    BY DEF TokensOf, SumFunction
  <2>4. f[n] = events[n].tokens
    OBVIOUS
  <2>. HIDE DEF t, sections, f
  <2>5. SumFunctionOnSet(t, sections) \in Nat
    BY <2>2, SumFacts
  <2>. QED BY <2>1, <2>3, <2>4, <2>5
<1>3. ASSUME NEW k \in K
      PROVE  report[k] = SumFunctionOnSet(f, Group(contexts, key, k))
  <2>1. PICK T : T = Group(contexts, key, k)
    OBVIOUS
  <2>2. T \in SUBSET contexts
    BY <2>1 DEF Group
  <2>. DEFINE g == [n \in T |-> events[n].tokens]
  <2>3. \A n \in T : g[n] = f[n]
    BY <2>2
  <2>4. TokensOfEvents(T) = SumFunctionOnSet(g, T)
    BY DEF TokensOfEvents, SumFunction
  <2>5. IsFiniteSet(T)
    BY <1>1, <2>2, FS_Subset
  <2>. HIDE DEF g, f
  <2>6. SumFunctionOnSet(g, T) = SumFunctionOnSet(f, T)
    BY <2>3, <2>5, SumEqual
  <2>. QED BY <2>1, <2>4, <2>6
<1>4. TokensOfEvents(contexts) = SumFunctionOnSet(f, contexts)
  BY DEF TokensOfEvents, SumFunction
<1>. HIDE DEF f
<1>. QED BY <1>1, <1>2, <1>3, <1>4, SumOfGroups

LEMMA EventTokensAreNat ==
  ASSUME Recorded, Recording, NEW contexts \in SUBSET DOMAIN events
  PROVE  TokensOfEvents(contexts) \in Nat
<1>1. PICK S, f : S = Delivered(contexts) /\ f = Rows(contexts)
  OBVIOUS
<1>2. IsFiniteSet(S) /\ \A d \in S : f[d] \in Nat
  BY <1>1, DeliveredRows DEF Rows
<1>3. SumFunctionOnSet(f, S) \in Nat
  BY <1>2, SumFacts
<1>. QED BY <1>1, <1>3, EventsSumRows

\* The groups of a set of events.
LEMMA GroupsAgree ==
  ASSUME Recorded, Recording, NEW contexts \in SUBSET DOMAIN events
  PROVE  /\ SumFunction(SpecGroups(contexts)) = TokensOfEvents(contexts)
         /\ SumFunction(SectionGroups(contexts)) = TokensOfEvents(contexts)
         /\ SumFunction(ByEventType(contexts)) = TokensOfEvents(contexts)
         /\ SumFunction(Trend(contexts)) = TokensOfEvents(contexts)
         /\ (\A n \in contexts : events[n].session # NoSessionId)
              => SumFunction(SessionGroups(contexts)) = TokensOfEvents(contexts)
<1>1. PICK D : D = Delivered(contexts)
  OBVIOUS
<1>2. SumFunction(SpecGroups(contexts)) = TokensOfEvents(contexts)
  <2>. DEFINE key == [d \in D |-> d[2].spec]
              K == {d[2].spec : d \in D}
              report == SpecGroups(contexts)
  <2>1. /\ \A d \in D : key[d] \in K
        /\ \A k \in K : \E d \in D : k = key[d]
        /\ DOMAIN report = K
    BY <1>1 DEF SpecGroups
  <2>2. ASSUME NEW k \in K
        PROVE  report[k] = TokensOfRows(Group(D, key, k))
    <3>1. Group(D, key, k) = {d \in D : d[2].spec = k}
      BY DEF Group
    <3>. QED BY <1>1, <3>1 DEF SpecGroups
  <2>. HIDE DEF key, K, report
  <2>3. \A k \in K : report[k] = TokensOfRows(Group(D, key, k))
    BY <2>2
  <2>4. SumFunction(report) = SumFunctionOnSet(Rows(contexts), D)
    BY <1>1, <2>1, <2>3, RowsByKey
  <2>. QED BY <1>1, <2>4, EventsSumRows DEF report
<1>3. SumFunction(SectionGroups(contexts)) = TokensOfEvents(contexts)
  <2>. DEFINE key == [d \in D |-> <<d[2].spec, d[2].anchor>>]
              K == {<<d[2].spec, d[2].anchor>> : d \in D}
              report == SectionGroups(contexts)
  <2>1. /\ \A d \in D : key[d] \in K
        /\ \A k \in K : \E d \in D : k = key[d]
        /\ DOMAIN report = K
    BY <1>1 DEF SectionGroups
  <2>2. ASSUME NEW k \in K
        PROVE  report[k] = TokensOfRows(Group(D, key, k))
    <3>1. Group(D, key, k) = {d \in D : <<d[2].spec, d[2].anchor>> = k}
      BY DEF Group
    <3>. QED BY <1>1, <3>1 DEF SectionGroups
  <2>. HIDE DEF key, K, report
  <2>3. \A k \in K : report[k] = TokensOfRows(Group(D, key, k))
    BY <2>2
  <2>4. SumFunction(report) = SumFunctionOnSet(Rows(contexts), D)
    BY <1>1, <2>1, <2>3, RowsByKey
  <2>. QED BY <1>1, <2>4, EventsSumRows DEF report
<1>4. IsFiniteSet(contexts)
  BY DeliveredRows
<1>5. ASSUME NEW key, NEW K, K = {key[n] : n \in contexts}, NEW report, DOMAIN report = K,
             \A k \in K : report[k] = TokensOfEvents(Group(contexts, key, k))
      PROVE  SumFunction(report) = TokensOfEvents(contexts)
  <2>1. IsFiniteSet(K) /\ \A n \in contexts : key[n] \in K
    BY <1>4, <1>5, ImageIsFinite
  <2>2. SumFunctionOnSet(report, K) = TokensOfEvents(contexts)
    BY <1>5, <2>1, EventsByKey
  <2>. QED BY <1>5, <2>2 DEF SumFunction
<1>6. SumFunction(ByEventType(contexts)) = TokensOfEvents(contexts)
  <2>. DEFINE key == [n \in contexts |-> events[n].type]
              K == {key[n] : n \in contexts}
              report == ByEventType(contexts)
  <2>1. DOMAIN report = K
    BY DEF ByEventType
  <2>2. ASSUME NEW k \in K
        PROVE  report[k] = TokensOfEvents(Group(contexts, key, k))
    <3>1. Group(contexts, key, k) = {n \in contexts : events[n].type = k}
      BY DEF Group
    <3>. QED BY <3>1 DEF ByEventType
  <2>3. K = {key[n] : n \in contexts} /\ \A k \in K : report[k] = TokensOfEvents(Group(contexts, key, k))
    BY <2>2
  <2>. HIDE DEF key, K, report
  <2>. QED BY <1>5, <2>1, <2>3 DEF report
<1>7. SumFunction(Trend(contexts)) = TokensOfEvents(contexts)
  <2>. DEFINE key == [n \in contexts |-> events[n].day]
              K == {key[n] : n \in contexts}
              report == Trend(contexts)
  <2>1. DOMAIN report = K
    BY DEF Trend
  <2>2. ASSUME NEW k \in K
        PROVE  report[k] = TokensOfEvents(Group(contexts, key, k))
    <3>1. Group(contexts, key, k) = {n \in contexts : events[n].day = k}
      BY DEF Group
    <3>. QED BY <3>1 DEF Trend
  <2>3. K = {key[n] : n \in contexts} /\ \A k \in K : report[k] = TokensOfEvents(Group(contexts, key, k))
    BY <2>2
  <2>. HIDE DEF key, K, report
  <2>. QED BY <1>5, <2>1, <2>3 DEF report
<1>8. ASSUME \A n \in contexts : events[n].session # NoSessionId
      PROVE  SumFunction(SessionGroups(contexts)) = TokensOfEvents(contexts)
  <2>. DEFINE key == [n \in contexts |-> events[n].session]
              K == {key[n] : n \in contexts}
              report == SessionGroups(contexts)
  <2>1. DOMAIN report = K
    BY <1>8 DEF SessionGroups
  <2>2. ASSUME NEW k \in K
        PROVE  report[k] = TokensOfEvents(Group(contexts, key, k))
    <3>1. Group(contexts, key, k) = {n \in contexts : events[n].session = k}
      BY DEF Group
    <3>. QED BY <1>8, <3>1 DEF SessionGroups
  <2>3. K = {key[n] : n \in contexts} /\ \A k \in K : report[k] = TokensOfEvents(Group(contexts, key, k))
    BY <2>2
  <2>. HIDE DEF key, K, report
  <2>. QED BY <1>5, <2>1, <2>3 DEF report
<1>. QED BY <1>2, <1>3, <1>6, <1>7, <1>8

\* What the projects sum, and nobody, is what all sum.
LEMMA ProjectsSum ==
  ASSUME EvidenceAssumption, ProjectsAssumption, NEW report, \A k \in Ids \cup {NoId} : report[k] \in Nat,
         NEW row, \A i \in Ids : row[i] = report[i], DOMAIN row = Ids
  PROVE  SumFunctionOnSet(report, Ids \cup {NoId}) = SumFunction(row) + report[NoId]
<1>1. PICK K : K = Ids \cup {NoId}
  OBVIOUS
<1>2. IsFiniteSet(Ids) /\ IsFiniteSet(K) /\ K \ {NoId} = Ids /\ NoId \in K
  BY <1>1, FS_AddElement DEF EvidenceAssumption, ProjectsAssumption
<1>3. /\ SumFunctionOnSet(report, K) = report[NoId] + SumFunctionOnSet(report, K \ {NoId})
      /\ SumFunctionOnSet(report, Ids) \in Nat
  <2>1. \A T \in SUBSET K : /\ SumFunctionOnSet(report, T) \in Nat
                            /\ \A k \in T : SumFunctionOnSet(report, T) = report[k] + SumFunctionOnSet(report, T \ {k})
    BY <1>1, <1>2, SumFacts
  <2>2. K \in SUBSET K /\ Ids \in SUBSET K
    BY <1>1
  <2>. QED BY <1>2, <2>1, <2>2
<1>4. SumFunction(row) = SumFunctionOnSet(report, Ids)
  <2>1. SumFunctionOnSet(row, Ids) = SumFunctionOnSet(report, Ids)
    BY <1>2, SumEqual
  <2>. QED BY <2>1 DEF SumFunction
<1>5. report[NoId] \in Nat
  OBVIOUS
<1>6. SumFunctionOnSet(report, K) = report[NoId] + SumFunction(row) /\ SumFunction(row) \in Nat
  BY <1>2, <1>3, <1>4
<1>7. SumFunctionOnSet(report, K) = SumFunction(row) + report[NoId]
  BY <1>5, <1>6
<1>. QED BY <1>1, <1>7

LEMMA UsageSums ==
  ASSUME EvidenceAssumption, ProjectsAssumption, Recorded, Recording
  PROVE  LET all == UsageRows(Window, NoId, NoSessionId)
         IN Spent(all) = SumFunction([i \in Ids |-> ByProject(Window, i).real])
                           + Spent({n \in all : usage[n].consumer = NoId})
<1>. DEFINE all == UsageRows(Window, NoId, NoSessionId)
            f == [n \in DOMAIN usage |-> usage[n].total]
            key == [n \in all |-> usage[n].consumer]
            K == Ids \cup {NoId}
            report == [k \in K |-> SumFunctionOnSet(f, Group(all, key, k))]
            row == [i \in Ids |-> ByProject(Window, i).real]
<1>1. IsFiniteSet(DOMAIN usage) /\ all \in SUBSET DOMAIN usage
  <2>1. DOMAIN usage = 1..Len(usage) /\ Len(usage) \in Nat
    BY DEF Recorded
  <2>. QED BY <2>1, FS_Interval DEF UsageRows
<1>2. \A n \in DOMAIN usage : f[n] \in Nat /\ usage[n].consumer \in K
  BY DEF Recording, UsageRecorded
<1>3. ASSUME NEW T \in SUBSET DOMAIN usage
      PROVE  Spent(T) = SumFunctionOnSet(f, T) /\ Spent(T) \in Nat
  <2>. DEFINE g == [n \in T |-> usage[n].total]
  <2>1. Spent(T) = SumFunctionOnSet(g, T)
    BY DEF Spent, SumFunction
  <2>2. IsFiniteSet(T) /\ \A n \in T : g[n] = f[n]
    BY <1>1, FS_Subset
  <2>3. \A n \in T : f[n] \in Nat
    BY <1>2
  <2>. HIDE DEF g, f
  <2>4. SumFunctionOnSet(g, T) = SumFunctionOnSet(f, T)
    BY <2>2, SumEqual
  <2>5. SumFunctionOnSet(f, T) \in Nat
    BY <2>2, <2>3, SumFacts
  <2>. QED BY <2>1, <2>4, <2>5
<1>4. /\ Group(all, key, NoId) = {n \in all : usage[n].consumer = NoId}
      /\ \A k \in K : Group(all, key, k) \in SUBSET DOMAIN usage
  BY <1>1 DEF Group
<1>5. ASSUME NEW i \in Ids
      PROVE  Group(all, key, i) = UsageRows(Window, i, NoSessionId)
  BY DEF Group, UsageRows, ProjectsAssumption
<1>6. \A i \in Ids : row[i] = Spent(UsageRows(Window, i, NoSessionId))
  BY DEF ByProject
<1>7. IsFiniteSet(K) /\ IsFiniteSet(all)
  BY <1>1, FS_AddElement, FS_Subset DEF EvidenceAssumption
<1>8. \A k \in K : report[k] = SumFunctionOnSet(f, Group(all, key, k))
  OBVIOUS
<1>9. \A n \in all : key[n] \in K /\ f[n] \in Nat
  BY <1>1, <1>2
<1>10. DOMAIN row = Ids
  OBVIOUS
<1>. HIDE DEF all, f, key, K, report, row
<1>11. \A k \in K : report[k] = Spent(Group(all, key, k)) /\ report[k] \in Nat
  BY <1>3, <1>4, <1>8
<1>12. SumFunctionOnSet(report, K) = SumFunctionOnSet(f, all)
  BY <1>7, <1>8, <1>9, SumOfGroups
<1>13. SumFunctionOnSet(report, K) = SumFunction(row) + report[NoId]
  <2>1. \A i \in Ids : row[i] = report[i]
    BY <1>5, <1>6, <1>11 DEF K
  <2>. QED BY <1>10, <1>11, <2>1, ProjectsSum DEF K
<1>14. report[NoId] = Spent({n \in all : usage[n].consumer = NoId})
  BY <1>4, <1>11 DEF K
<1>15. Spent(all) = SumFunctionOnSet(f, all)
  BY <1>1, <1>3
<1>. QED BY <1>12, <1>13, <1>14, <1>15 DEF all, row

\* Of numbers there is a least.
LEMMA LeastExists ==
  ASSUME NEW T, T # {}, NEW f, \A x \in T : f[x] \in Nat
  PROVE  \E m \in T : \A x \in T : f[m] <= f[x]
<1>. DEFINE R == OpToRel(<, Nat)
            Values == {f[x] : x \in T}
<1>1. IsWellFoundedOn(R, Nat)
  BY NatLessThanWellFounded
<1>2. \A u, v \in Nat : u < v => <<u, v>> \in R
  BY DEF OpToRel
<1>3. Values \subseteq Nat /\ Values # {} /\ (\A x \in T : f[x] \in Values) /\ \A v \in Values : \E x \in T : v = f[x]
  OBVIOUS
<1>. HIDE DEF R, Values
<1>4. PICK v \in Values : \A u \in Values : ~ (<<u, v>> \in R)
  BY <1>1, <1>3, WFMin
<1>5. PICK m \in T : v = f[m]
  BY <1>3
<1>6. \A x \in T : ~ (f[x] < f[m])
  BY <1>2, <1>3, <1>4, <1>5
<1>. QED BY <1>6

\* When not all fit, some groups are the largest.
LEMMA LargestExists ==
  ASSUME NEW groups, IsFiniteSet(DOMAIN groups), \A g \in DOMAIN groups : groups[g] \in Nat,
         NEW limit \in Nat, ~ (Cardinality(DOMAIN groups) <= limit)
  PROVE  \E top \in SUBSET DOMAIN groups : Fitting(groups, limit, top)
<1>. DEFINE D == DOMAIN groups
            Fits(T, top) == Cardinality(top) = limit /\ \A g \in top, h \in T \ top : groups[g] >= groups[h]
            Good == {T \in SUBSET D : Cardinality(T) >= limit => \E top \in SUBSET T : Fits(T, top)}
<1>1. ASSUME NEW T \in SUBSET D, \A V \in SUBSET T : V # T => V \in Good, Cardinality(T) >= limit
      PROVE  \E top \in SUBSET T : Fits(T, top)
  <2>1. IsFiniteSet(T) /\ Cardinality(T) \in Nat
    BY FS_Subset, FS_CardinalityType
  <2>2. CASE Cardinality(T) = limit
    <3>1. Fits(T, T)
      BY <2>2
    <3>. QED BY <3>1
  <2>3. CASE Cardinality(T) # limit
    <3>1. T # {}
      BY <1>1, <2>1, <2>3, FS_EmptySet
    <3>2. PICK m \in T : \A x \in T : groups[m] <= groups[x]
      BY <3>1, LeastExists
    <3>3. Cardinality(T \ {m}) = Cardinality(T) - 1
      BY <2>1, FS_RemoveElement
    <3>4. Cardinality(T \ {m}) >= limit
      BY <1>1, <2>1, <2>3, <3>3
    <3>5. T \ {m} \in Good
      BY <1>1
    <3>6. PICK top \in SUBSET (T \ {m}) : Fits(T \ {m}, top)
      BY <3>4, <3>5
    <3>7. ASSUME NEW g \in top, NEW h \in T \ top
          PROVE  groups[g] >= groups[h]
      <4>1. groups[g] \in Nat /\ groups[h] \in Nat /\ groups[m] \in Nat /\ groups[m] <= groups[g]
        BY <3>2
      <4>. QED BY <3>6, <4>1
    <3>8. Fits(T, top)
      BY <3>6, <3>7
    <3>. QED BY <3>8
  <2>. QED BY <2>2, <2>3
<1>2. \A T \in SUBSET D : (\A V \in SUBSET T : V # T => V \in Good) => T \in Good
  BY <1>1
<1>3. D \in SUBSET D /\ IsFiniteSet(D) /\ Cardinality(D) \in Nat
  BY FS_CardinalityType
<1>4. D \in Good
  <2>. HIDE DEF Good, D
  <2>. QED BY <1>2, <1>3, SubsetInduction
<1>5. \E top \in SUBSET D : Fits(D, top)
  BY <1>3, <1>4
<1>. QED BY <1>5 DEF Fitting

\* A part sums to no more than the whole.
LEMMA PartOfSum ==
  ASSUME NEW S, IsFiniteSet(S), NEW f, \A x \in S : f[x] \in Nat, NEW T \in SUBSET S
  PROVE  SumFunctionOnSet(f, T) <= SumFunctionOnSet(f, S)
<1>. DEFINE Good == {V \in SUBSET S : T \subseteq V => SumFunctionOnSet(f, T) <= SumFunctionOnSet(f, V)}
<1>1. \A V \in SUBSET S : /\ SumFunctionOnSet(f, V) \in Nat
                         /\ \A x \in V : SumFunctionOnSet(f, V) = f[x] + SumFunctionOnSet(f, V \ {x})
  BY SumFacts
<1>2. ASSUME NEW V \in SUBSET S, \A W \in SUBSET V : W # V => W \in Good, T \subseteq V
      PROVE  SumFunctionOnSet(f, T) <= SumFunctionOnSet(f, V)
  <2>1. CASE T = V
    BY <1>1, <2>1
  <2>2. CASE T # V
    <3>1. PICK x \in V : x \notin T
      BY <1>2, <2>2
    <3>2. V \ {x} \in Good /\ T \subseteq V \ {x} /\ V \ {x} \in SUBSET S
      BY <1>2, <3>1
    <3>3. SumFunctionOnSet(f, T) <= SumFunctionOnSet(f, V \ {x})
      BY <3>2
    <3>4. SumFunctionOnSet(f, V) = f[x] + SumFunctionOnSet(f, V \ {x}) /\ f[x] \in Nat
      BY <1>1
    <3>. QED BY <1>1, <3>2, <3>3, <3>4
  <2>. QED BY <2>1, <2>2
<1>3. \A V \in SUBSET S : (\A W \in SUBSET V : W # V => W \in Good) => V \in Good
  BY <1>2
<1>4. S \in Good
  <2>. HIDE DEF Good
  <2>. QED BY <1>3, SubsetInduction
<1>. QED BY <1>4

\* What a report lists of its groups adds up, and all fit when they are few.
LEMMA ListedRows ==
  ASSUME NEW groups, IsFiniteSet(DOMAIN groups), \A g \in DOMAIN groups : groups[g] \in Nat,
         NEW limit \in Nat, NEW total, total = SumFunction(groups)
  PROVE  /\ AddsUp(Listed(groups, limit), limit, total)
         /\ SumFunction(Listed(groups, limit)) <= total
         /\ Cardinality(DOMAIN groups) <= limit => SumFunction(Listed(groups, limit)) = total
         /\ DOMAIN Listed(groups, limit) \subseteq DOMAIN groups
<1>. DEFINE D == DOMAIN groups
            top == Largest(groups, limit)
            report == Listed(groups, limit)
<1>1. top \in SUBSET D /\ (top # D => Cardinality(top) = limit)
  <2>1. CASE Cardinality(D) <= limit
    BY <2>1 DEF Largest
  <2>2. CASE ~ (Cardinality(D) <= limit)
    <3>1. \E t \in SUBSET D : Fitting(groups, limit, t)
      BY <2>2, LargestExists
    <3>2. top = CHOOSE t \in SUBSET D : Fitting(groups, limit, t)
      BY <2>2 DEF Largest
    <3>3. top \in SUBSET D /\ Fitting(groups, limit, top)
      BY <3>1, <3>2
    <3>. QED BY <3>3 DEF Fitting
  <2>. QED BY <2>1, <2>2
<1>2. Cardinality(D) <= limit => top = D
  BY DEF Largest
<1>3. DOMAIN report = top /\ \A g \in top : report[g] = groups[g]
  BY DEF Listed
<1>4. SumFunction(report) = SumFunctionOnSet(groups, top)
  <2>1. IsFiniteSet(top)
    BY <1>1, FS_Subset
  <2>. HIDE DEF report, top, D
  <2>2. SumFunctionOnSet(report, top) = SumFunctionOnSet(groups, top)
    BY <1>3, <2>1, SumEqual
  <2>. QED BY <1>3, <2>2 DEF SumFunction
<1>5. total = SumFunctionOnSet(groups, D)
  BY DEF SumFunction
<1>. HIDE DEF D, top, report
<1>6. SumFunctionOnSet(groups, top) <= SumFunctionOnSet(groups, D)
  BY <1>1, PartOfSum DEF D
<1>7. Cardinality(top) < limit => top = D
  BY <1>1
<1>8. SumFunction(report) <= total
  BY <1>4, <1>5, <1>6
<1>9. AddsUp(report, limit, total)
  BY <1>3, <1>4, <1>5, <1>7, <1>8 DEF AddsUp
<1>. QED BY <1>1, <1>2, <1>3, <1>4, <1>5, <1>8, <1>9 DEF report, D

\* The groups of a report are finitely many, of some tokens each.
LEMMA GroupsAreCounted ==
  ASSUME Recorded, Recording, NEW contexts \in SUBSET DOMAIN events
  PROVE  /\ IsFiniteSet(DOMAIN SpecGroups(contexts)) /\ \A g \in DOMAIN SpecGroups(contexts) : SpecGroups(contexts)[g] \in Nat
         /\ IsFiniteSet(DOMAIN SectionGroups(contexts)) /\ \A g \in DOMAIN SectionGroups(contexts) : SectionGroups(contexts)[g] \in Nat
         /\ IsFiniteSet(DOMAIN SessionGroups(contexts)) /\ \A g \in DOMAIN SessionGroups(contexts) : SessionGroups(contexts)[g] \in Nat
<1>1. PICK D : D = Delivered(contexts)
  OBVIOUS
<1>2. IsFiniteSet(contexts) /\ IsFiniteSet(D) /\ \A d \in D : d[2].tokens \in Nat
  BY <1>1, DeliveredRows
<1>3. ASSUME NEW rows \in SUBSET D
      PROVE  TokensOfRows(rows) \in Nat
  <2>. DEFINE f == [d \in rows |-> d[2].tokens]
  <2>1. TokensOfRows(rows) = SumFunctionOnSet(f, rows)
    BY DEF TokensOfRows, SumFunction
  <2>2. IsFiniteSet(rows) /\ \A d \in rows : f[d] \in Nat
    BY <1>2, FS_Subset
  <2>. HIDE DEF f
  <2>3. SumFunctionOnSet(f, rows) \in Nat
    BY <2>2, SumFacts
  <2>. QED BY <2>1, <2>3
<1>4. IsFiniteSet(DOMAIN SpecGroups(contexts))
  <2>. DEFINE key == [d \in D |-> d[2].spec]
              K == {key[d] : d \in D}
  <2>1. DOMAIN SpecGroups(contexts) = K
    BY <1>1 DEF SpecGroups
  <2>2. IsFiniteSet(K)
    BY <1>2, ImageIsFinite
  <2>. QED BY <2>1, <2>2
<1>5. IsFiniteSet(DOMAIN SectionGroups(contexts))
  <2>. DEFINE key == [d \in D |-> <<d[2].spec, d[2].anchor>>]
              K == {key[d] : d \in D}
  <2>1. DOMAIN SectionGroups(contexts) = K
    BY <1>1 DEF SectionGroups
  <2>2. IsFiniteSet(K)
    BY <1>2, ImageIsFinite
  <2>. QED BY <2>1, <2>2
<1>6. IsFiniteSet(DOMAIN SessionGroups(contexts))
  <2>. DEFINE key == [n \in contexts |-> events[n].session]
  <2>4. IsFiniteSet({key[n] : n \in contexts})
    <3>1. IsFiniteSet(contexts)
      BY <1>2
    <3>. HIDE DEF key
    <3>. QED BY ONLY <3>1, ImageIsFinite
  <2>. HIDE DEF key
  <2>1. PICK K : K = {key[n] : n \in contexts}
    OBVIOUS
  <2>2. PICK J : J = DOMAIN SessionGroups(contexts)
    OBVIOUS
  <2>3. J \in SUBSET K
    BY <2>1, <2>2 DEF SessionGroups, key
  <2>5. IsFiniteSet(J)
    <3>1. IsFiniteSet(K)
      BY <2>1, <2>4
    <3>. QED BY <2>3, <3>1, FS_Subset
  <2>. QED BY <2>2, <2>5
<1>7. ASSUME NEW g \in DOMAIN SpecGroups(contexts)
      PROVE  SpecGroups(contexts)[g] \in Nat
  <2>1. SpecGroups(contexts)[g] = TokensOfRows({d \in D : d[2].spec = g})
    BY <1>1 DEF SpecGroups
  <2>2. {d \in D : d[2].spec = g} \in SUBSET D
    OBVIOUS
  <2>. QED BY <1>3, <2>1, <2>2
<1>8. ASSUME NEW g \in DOMAIN SectionGroups(contexts)
      PROVE  SectionGroups(contexts)[g] \in Nat
  <2>1. SectionGroups(contexts)[g] = TokensOfRows({d \in D : <<d[2].spec, d[2].anchor>> = g})
    BY <1>1 DEF SectionGroups
  <2>2. {d \in D : <<d[2].spec, d[2].anchor>> = g} \in SUBSET D
    OBVIOUS
  <2>. QED BY <1>3, <2>1, <2>2
<1>9. ASSUME NEW g \in DOMAIN SessionGroups(contexts)
      PROVE  SessionGroups(contexts)[g] \in Nat
  <2>1. SessionGroups(contexts)[g] = TokensOfEvents({n \in contexts : events[n].session = g})
    BY DEF SessionGroups
  <2>2. {n \in contexts : events[n].session = g} \in SUBSET DOMAIN events
    OBVIOUS
  <2>. QED BY <2>1, <2>2, EventTokensAreNat
<1>. QED BY <1>4, <1>5, <1>6, <1>7, <1>8, <1>9

\* The sessions of a set of events deliver no more than all of them.
LEMMA SessionsAddUp ==
  ASSUME Recorded, Recording, NEW contexts \in SUBSET DOMAIN events
  PROVE  SumFunction(SessionGroups(contexts)) \in Nat /\ SumFunction(SessionGroups(contexts)) <= TokensOfEvents(contexts)
<1>. DEFINE f == [n \in DOMAIN events |-> events[n].tokens]
            in == {n \in contexts : events[n].session # NoSessionId}
<1>1. in \in SUBSET DOMAIN events /\ in \in SUBSET contexts
  OBVIOUS
<1>2. SessionGroups(in) = SessionGroups(contexts)
  <2>1. {events[n].session : n \in in} \ {NoSessionId} = {events[n].session : n \in contexts} \ {NoSessionId}
    OBVIOUS
  <2>2. \A x : x # NoSessionId => {n \in in : events[n].session = x} = {n \in contexts : events[n].session = x}
    OBVIOUS
  <2>. HIDE DEF in
  <2>. QED BY <2>1, <2>2 DEF SessionGroups
<1>3. \A n \in in : events[n].session # NoSessionId
  OBVIOUS
<1>4. ASSUME NEW T \in SUBSET contexts
      PROVE  TokensOfEvents(T) = SumFunctionOnSet(f, T)
  <2>. DEFINE g == [n \in T |-> events[n].tokens]
  <2>1. TokensOfEvents(T) = SumFunctionOnSet(g, T)
    BY DEF TokensOfEvents, SumFunction
  <2>2. IsFiniteSet(T) /\ \A n \in T : g[n] = f[n]
    <3>1. IsFiniteSet(contexts)
      BY DeliveredRows
    <3>2. IsFiniteSet(T)
      BY <3>1, FS_Subset
    <3>. QED BY <3>2
  <2>. HIDE DEF f, g
  <2>. QED BY <2>1, <2>2, SumEqual
<1>5. ASSUME NEW n \in contexts
      PROVE  f[n] \in Nat
  <2>. DEFINE sections == events[n].sections
              t == [e \in sections |-> e.tokens]
  <2>1. Estimated(sections) /\ events[n].tokens = TokensOf(sections)
    BY DEF Recording, EventRecorded
  <2>2. IsFiniteSet(sections) /\ \A e \in sections : t[e] \in Nat
    BY <2>1 DEF Estimated
  <2>3. TokensOf(sections) = SumFunctionOnSet(t, sections)
    BY DEF TokensOf, SumFunction
  <2>4. f[n] = events[n].tokens
    OBVIOUS
  <2>. HIDE DEF t, sections, f
  <2>5. SumFunctionOnSet(t, sections) \in Nat
    BY <2>2, SumFacts
  <2>. QED BY <2>1, <2>3, <2>4, <2>5
<1>6. IsFiniteSet(contexts) /\ contexts \in SUBSET contexts
  BY DeliveredRows
<1>. HIDE DEF in, f
<1>7. SumFunction(SessionGroups(in)) = TokensOfEvents(in)
  BY <1>1, <1>3, GroupsAgree
<1>8. SumFunctionOnSet(f, in) <= SumFunctionOnSet(f, contexts)
  BY <1>1, <1>5, <1>6, PartOfSum
<1>9. TokensOfEvents(in) \in Nat
  BY <1>1, EventTokensAreNat
<1>. QED BY <1>1, <1>2, <1>4, <1>6, <1>7, <1>8, <1>9

LEMMA ReportsAgree ==
  ASSUME EvidenceAssumption, ProjectsAssumption, Recorded, Recording
  PROVE  TokenReportsAgree
<1>1. \A days, i, x : Contexts(days, i, x) \in SUBSET DOMAIN events
  BY DEF Contexts
<1>2. ASSUME NEW i \in Ids \cup {NoId}, NEW x \in Sessions \cup {NoSessionId}
      PROVE  LET contexts == Contexts(Window, i, x)
                 total == SumFunction(ByEventType(contexts))
             IN /\ AddsUp(BySpec(contexts), SpecRows, total)
                /\ AddsUp(BySection(contexts), SectionRows, total)
                /\ SumFunction(Trend(contexts)) = total
                /\ SumFunction(BySession(contexts)) <= total
                /\ x # NoSessionId => SumFunction(BySession(contexts)) = total
  <2>1. PICK contexts : contexts = Contexts(Window, i, x)
    OBVIOUS
  <2>2. contexts \in SUBSET DOMAIN events
    BY <1>1, <2>1
  <2>3. PICK total : total = SumFunction(ByEventType(contexts))
    OBVIOUS
  <2>4. /\ total = SumFunction(SpecGroups(contexts)) /\ total = SumFunction(SectionGroups(contexts))
        /\ total = TokensOfEvents(contexts) /\ SumFunction(Trend(contexts)) = total
        /\ (\A n \in contexts : events[n].session # NoSessionId) => SumFunction(SessionGroups(contexts)) = total
    BY <2>2, <2>3, GroupsAgree
  <2>5. SpecRows \in Nat /\ SectionRows \in Nat /\ SessionRows \in Nat /\ SessionRows >= 1
    BY DEF EvidenceAssumption
  <2>6. AddsUp(BySpec(contexts), SpecRows, total)
    <3>1. PICK groups : groups = SpecGroups(contexts)
      OBVIOUS
    <3>2. IsFiniteSet(DOMAIN groups) /\ \A g \in DOMAIN groups : groups[g] \in Nat
      BY <2>2, <3>1, GroupsAreCounted
    <3>3. total = SumFunction(groups)
      BY <2>4, <3>1
    <3>. QED BY <2>5, <3>1, <3>2, <3>3, ListedRows DEF BySpec
  <2>7. AddsUp(BySection(contexts), SectionRows, total)
    <3>1. PICK groups : groups = SectionGroups(contexts)
      OBVIOUS
    <3>2. IsFiniteSet(DOMAIN groups) /\ \A g \in DOMAIN groups : groups[g] \in Nat
      BY <2>2, <3>1, GroupsAreCounted
    <3>3. total = SumFunction(groups)
      BY <2>4, <3>1
    <3>. QED BY <2>5, <3>1, <3>2, <3>3, ListedRows DEF BySection
  <2>8. PICK groups : groups = SessionGroups(contexts)
    OBVIOUS
  <2>9. PICK part : part = SumFunction(groups)
    OBVIOUS
  <2>10. IsFiniteSet(DOMAIN groups) /\ \A g \in DOMAIN groups : groups[g] \in Nat
    BY <2>2, <2>8, GroupsAreCounted
  <2>11. /\ SumFunction(BySession(contexts)) <= part
         /\ Cardinality(DOMAIN groups) <= SessionRows => SumFunction(BySession(contexts)) = part
    BY <2>5, <2>8, <2>9, <2>10, ListedRows DEF BySession
  <2>12. part \in Nat /\ part <= total
    BY <2>2, <2>4, <2>8, <2>9, SessionsAddUp
  <2>13. SumFunction(BySession(contexts)) <= total
    <3>1. SumFunction(BySession(contexts)) \in Nat
      <4>1. PICK report : report = BySession(contexts)
        OBVIOUS
      <4>2. DOMAIN report \subseteq DOMAIN groups /\ \A g \in DOMAIN report : report[g] = groups[g]
        <5>1. DOMAIN Listed(groups, SessionRows) \subseteq DOMAIN groups
          BY <2>5, <2>9, <2>10, ListedRows
        <5>. QED BY <2>8, <4>1, <5>1 DEF BySession, Listed
      <4>3. IsFiniteSet(DOMAIN report) /\ \A g \in DOMAIN report : report[g] \in Nat
        BY <2>10, <4>2, FS_Subset
      <4>4. SumFunctionOnSet(report, DOMAIN report) \in Nat
        BY <4>3, SumFacts
      <4>. QED BY <4>1, <4>4 DEF SumFunction
    <3>2. total \in Nat
      BY <2>2, <2>4, EventTokensAreNat
    <3>. QED BY <2>11, <2>12, <3>1, <3>2
  <2>14. ASSUME x # NoSessionId
         PROVE  SumFunction(BySession(contexts)) = total
    <3>1. \A n \in contexts : events[n].session = x
      BY <2>1, <2>14 DEF Contexts
    <3>2. part = total
      BY <2>4, <2>8, <2>9, <2>14, <3>1
    <3>3. DOMAIN groups \subseteq {x}
      BY <2>8, <3>1 DEF SessionGroups
    <3>4. Cardinality(DOMAIN groups) <= 1
      <4>1. Cardinality({x}) = 1 /\ IsFiniteSet({x})
        BY FS_Singleton
      <4>. QED BY <3>3, <4>1, FS_Subset
    <3>5. Cardinality(DOMAIN groups) \in Nat
      BY <2>10, FS_CardinalityType
    <3>. QED BY <2>5, <2>11, <3>2, <3>4, <3>5
  <2>. QED BY <2>1, <2>3, <2>4, <2>6, <2>7, <2>13, <2>14
<1>3. LET all == Contexts(Window, NoId, NoSessionId)
      IN SumFunction(ByEventType(all))
           = SumFunction([i \in Ids |-> ByProject(Window, i).projected])
             + TokensOfEvents({n \in all : events[n].consumer = NoId})
  <2>. DEFINE all == Contexts(Window, NoId, NoSessionId)
              key == [n \in all |-> events[n].consumer]
              K == Ids \cup {NoId}
              report == [k \in K |-> TokensOfEvents(Group(all, key, k))]
              row == [i \in Ids |-> ByProject(Window, i).projected]
  <2>1. all \in SUBSET DOMAIN events
    BY <1>1
  <2>2. \A n \in all : key[n] \in K
    BY <2>1 DEF Recording, EventRecorded
  <2>3. /\ Group(all, key, NoId) = {n \in all : events[n].consumer = NoId}
        /\ \A k \in K : Group(all, key, k) \in SUBSET DOMAIN events
    BY <2>1 DEF Group
  <2>4. ASSUME NEW i \in Ids
        PROVE  Group(all, key, i) = Contexts(Window, i, NoSessionId)
    BY DEF Group, Contexts, ProjectsAssumption
  <2>5. \A i \in Ids : row[i] = TokensOfEvents(Contexts(Window, i, NoSessionId))
    BY DEF ByProject
  <2>6. IsFiniteSet(K)
    BY FS_AddElement DEF EvidenceAssumption
  <2>7. DOMAIN row = Ids /\ \A k \in K : report[k] = TokensOfEvents(Group(all, key, k))
    OBVIOUS
  <2>. HIDE DEF all, key, K, report, row
  <2>8. \A k \in K : report[k] \in Nat
    BY <2>3, <2>7, EventTokensAreNat
  <2>9. SumFunctionOnSet(report, K) = TokensOfEvents(all)
    BY <2>1, <2>2, <2>6, <2>7, EventsByKey
  <2>10. SumFunctionOnSet(report, K) = SumFunction(row) + report[NoId]
    <3>1. \A i \in Ids : row[i] = report[i]
      BY <2>4, <2>5, <2>7 DEF K
    <3>. QED BY <2>7, <2>8, <3>1, ProjectsSum DEF K
  <2>11. report[NoId] = TokensOfEvents({n \in all : events[n].consumer = NoId})
    BY <2>3, <2>7 DEF K
  <2>12. SumFunction(ByEventType(all)) = TokensOfEvents(all)
    BY <2>1, GroupsAgree
  <2>. QED BY <2>9, <2>10, <2>11, <2>12 DEF all, row
<1>4. ASSUME NEW i \in Ids, NEW row \in SectionEvidence(i), row.deliveries = 0
      PROVE  <<row.section.spec, row.section.anchor>> \notin DOMAIN BySection(Contexts(Window, i, NoSessionId))
  <2>1. PICK s, a : row.section.spec = s /\ row.section.anchor = a
    OBVIOUS
  <2>2. row.deliveries = Deliveries(i, s, a)
    BY <2>1 DEF SectionEvidence
  <2>. DEFINE ever == Contexts(LastDay, i, NoSessionId)
              late == Contexts(Window, i, NoSessionId)
              T == {d \in Delivered(ever) : d[2].spec = s /\ d[2].anchor = a}
  <2>3. IsFiniteSet(T)
    <3>1. T \in SUBSET Delivered(ever)
      OBVIOUS
    <3>2. IsFiniteSet(Delivered(ever))
      BY <1>1, DeliveredRows
    <3>. HIDE DEF T, ever
    <3>. QED BY <3>1, <3>2, FS_Subset
  <2>4. T = {}
    <3>1. Cardinality(T) = 0
      BY <1>4, <2>2 DEF Deliveries
    <3>. HIDE DEF T
    <3>. QED BY <2>3, <3>1, FS_EmptySet
  <2>5. late \subseteq ever
    <3>1. ASSUME NEW n \in late
          PROVE  n \in ever
      <4>1. n \in DOMAIN events /\ events[n].consumer = i /\ events[n].day \in Nat
        BY DEF Contexts, Recording, EventRecorded, ProjectsAssumption
      <4>2. today \in Nat /\ today <= LastDay /\ LastDay \in Nat
        BY DEF Recording, EvidenceAssumption
      <4>3. Covered(events[n], LastDay)
        BY <4>1, <4>2 DEF Covered, Recent
      <4>. QED BY <4>1, <4>3 DEF Contexts
    <3>. QED BY <3>1
  <2>6. Delivered(late) \subseteq Delivered(ever)
    BY <2>5 DEF Delivered
  <2>7. \A d \in Delivered(late) : ~ (d[2].spec = s /\ d[2].anchor = a)
    BY <2>4, <2>6
  <2>8. DOMAIN BySection(late) \subseteq {<<d[2].spec, d[2].anchor>> : d \in Delivered(late)}
    <3>1. PICK groups : groups = SectionGroups(late)
      OBVIOUS
    <3>2. IsFiniteSet(DOMAIN groups) /\ \A g \in DOMAIN groups : groups[g] \in Nat
      BY <1>1, <3>1, GroupsAreCounted
    <3>3. SectionRows \in Nat
      BY DEF EvidenceAssumption
    <3>4. DOMAIN Listed(groups, SectionRows) \subseteq DOMAIN groups
      BY <3>2, <3>3, ListedRows
    <3>5. DOMAIN groups = {<<d[2].spec, d[2].anchor>> : d \in Delivered(late)}
      BY <3>1 DEF SectionGroups
    <3>. QED BY <3>1, <3>4, <3>5 DEF BySection
  <2>9. \A d \in Delivered(late) : <<d[2].spec, d[2].anchor>> # <<s, a>>
    BY <2>7
  <2>. QED BY <2>1, <2>8, <2>9
<1>. QED BY <1>2, <1>3, <1>4, UsageSums DEF TokenReportsAgree

\* The groupings of a token report that are never cut sum to the same tokens, for the
\* registry, for each project and for each session, in any window; those that list only so
\* many groups never sum to more, and to the same unless they are full; what the projects and
\* nobody used sums to what was used; and a section with no delivery is in no report of its
\* project.
THEOREM TokenReportsStayInAgreement == EvidenceSpec => []TokenReportsAgree
<1>. USE ProjectsAssumption, EvidenceAssumption
<1>. DEFINE RInv == EvidenceIInv /\ Recording
<1>1. EvidenceInit => RInv
  <2>1. EvidenceInit => Recording
    BY DEF EvidenceInit, Recording, Texts
  <2>. QED BY <2>1, EvidenceInitIInv
<1>2. RInv /\ [EvidenceNext]_evidenceVars => RInv'
  BY EvidenceIInvStep, RecordingStep DEF EvidenceIInv
<1>3. RInv => TokenReportsAgree
  BY ReportsAgree DEF EvidenceIInv
<1>. HIDE DEF RInv
<1>. QED BY <1>1, <1>2, <1>3, PTL DEF EvidenceSpec

-----------------------------------------------------------------------------
(* The audits and the insights.                                            *)

\* A report is about a published spec, or about the guidance a type lacks.
FeedbackRow ==
  [kind : Kinds \cup {"missing_guidance"}, spec : Specs \cup {NoSpecId},
   type : {TypeOf[s] : s \in Specs} \cup Types, words : Wordings, topic : Topics \cup {NoTopic}, open : BOOLEAN]
FeedbackKnown(row) ==
  /\ row.spec = NoSpecId <=> row.kind = "missing_guidance"
  /\ row.spec # NoSpecId => Published(row.spec)

\* What is published stays published, and its project has its type.
Library ==
  /\ specs \in [Specs -> [version : Nat, sections : SUBSET Anchors]]
  /\ pending \subseteq {s \in Specs : Published(s)}
  /\ feedback \in Seq(FeedbackRow) /\ \A n \in DOMAIN feedback : FeedbackKnown(feedback[n])
  /\ \A s \in Specs : Published(s) /\ Owner[s] # NoId =>
       Owner[s] \in referenced /\ consumers[Owner[s]].type = TypeOf[s]

LEMMA LibraryInit ==
  ASSUME EvidenceInit
  PROVE  Library
<1>1. specs = [s \in Specs |-> [version |-> 0, sections |-> {}]] /\ pending = {} /\ feedback = << >>
  BY DEF EvidenceInit
<1>2. \A s \in Specs : ~ Published(s)
  BY <1>1 DEF Published
<1>3. << >> \in Seq(FeedbackRow) /\ DOMAIN << >> = {}
  OBVIOUS
<1>. QED BY <1>1, <1>2, <1>3 DEF Library

\* What is discussed of the specs leaves what is published.
LEMMA DiscussedLibrary ==
  ASSUME Library, Kept, referenced \subseteq referenced', UNCHANGED specs,
         pending' \subseteq {s \in Specs : Published(s)},
         feedback' \in Seq(FeedbackRow), \A n \in DOMAIN feedback' : FeedbackKnown(feedback'[n])
  PROVE  Library'
<1>1. \A s \in Specs : Published(s) /\ Owner[s] # NoId =>
        Owner[s] \in referenced' /\ consumers'[Owner[s]].type = TypeOf[s]
  BY DEF Library, Kept
<1>. QED BY <1>1 DEF Library, FeedbackKnown, Published

\* A row that is reported, or triaged, is one that is known.
LEMMA ReportedFeedback ==
  ASSUME Library, NEW row \in FeedbackRow, FeedbackKnown(row), NEW new, new = Append(feedback, row)
  PROVE  new \in Seq(FeedbackRow) /\ \A n \in DOMAIN new : FeedbackKnown(new[n])
<1>1. feedback \in Seq(FeedbackRow) /\ \A n \in DOMAIN feedback : FeedbackKnown(feedback[n])
  BY DEF Library
<1>2. \A n \in DOMAIN new : (n \in DOMAIN feedback /\ new[n] = feedback[n]) \/ new[n] = row
  BY <1>1, AppendedRows
<1>3. new \in Seq(FeedbackRow)
  BY <1>1
<1>. QED BY <1>1, <1>2, <1>3

LEMMA TriagedFeedback ==
  ASSUME Library, NEW m \in DOMAIN feedback, NEW new, new = [feedback EXCEPT ![m].open = FALSE]
  PROVE  new \in Seq(FeedbackRow) /\ \A n \in DOMAIN new : FeedbackKnown(new[n])
<1>1. feedback \in Seq(FeedbackRow) /\ \A n \in DOMAIN feedback : FeedbackKnown(feedback[n])
  BY DEF Library
<1>2. PICK row : row = [feedback[m] EXCEPT !.open = FALSE]
  OBVIOUS
<1>3. new = [feedback EXCEPT ![m] = row]
  BY <1>2, Zenon
<1>4. feedback[m] \in FeedbackRow
  BY <1>1
<1>5. row \in FeedbackRow /\ row.kind = feedback[m].kind /\ row.spec = feedback[m].spec
  BY <1>2, <1>4 DEF FeedbackRow
<1>6. FeedbackKnown(row)
  BY <1>1, <1>5 DEF FeedbackKnown
<1>7. DOMAIN new = DOMAIN feedback /\ \A n \in DOMAIN feedback : new[n] = IF n = m THEN row ELSE feedback[n]
  BY <1>3
<1>8. new \in Seq(FeedbackRow)
  <2>1. feedback \in [1..Len(feedback) -> FeedbackRow] /\ Len(feedback) \in Nat
    BY <1>1
  <2>2. new \in [1..Len(feedback) -> FeedbackRow]
    BY <1>3, <1>5, <2>1
  <2>. QED BY <2>1, <2>2
<1>. QED BY <1>1, <1>6, <1>7, <1>8

LEMMA LibraryStep ==
  ASSUME ProjectsAssumption, EvidenceAssumption, IInv, Library, [EvidenceNext]_evidenceVars
  PROVE  Library'
<1>1. Kept /\ referenced \subseteq referenced'
  BY EvidenceIsProjects, StepKept DEF evidenceVars
<1>2. /\ specs \in [Specs -> [version : Nat, sections : SUBSET Anchors]]
      /\ pending \subseteq {s \in Specs : Published(s)}
      /\ feedback \in Seq(FeedbackRow) /\ \A n \in DOMAIN feedback : FeedbackKnown(feedback[n])
  BY DEF Library
<1>3. ASSUME UNCHANGED <<specs, pending, feedback>>
      PROVE  Library'
  BY <1>1, <1>2, <1>3, DiscussedLibrary
<1>4. UNCHANGED library => Library'
  BY <1>3 DEF library
<1>5. UNCHANGED evidence => Library'
  BY <1>4 DEF evidence
<1>6. ASSUME NEW s \in Specs, NEW sections \in SUBSET Anchors, Publish(s, sections)
      PROVE  Library'
  <2>1. PICK spec : spec = [version |-> specs[s].version + 1, sections |-> sections] /\ specs' = [specs EXCEPT ![s] = spec]
    BY <1>6 DEF Publish
  <2>2. /\ Owner[s] # NoId => Live(Owner[s]) /\ consumers[Owner[s]].type = TypeOf[s]
        /\ pending' = pending \ {s} /\ feedback' = feedback /\ consumers' = consumers
        /\ referenced' = referenced \cup ({Owner[s]} \ {NoId})
    BY <1>6 DEF Publish, telemetry
  <2>3. specs[s].version \in Nat
    BY <1>2
  <2>4. specs' \in [Specs -> [version : Nat, sections : SUBSET Anchors]]
    BY <1>2, <2>1, <2>3
  <2>5. specs'[s].version > 0 /\ \A t : t # s => specs'[t] = specs[t]
    BY <1>2, <2>1, <2>3
  <2>6. \A t \in Specs : Published(t) => specs'[t].version > 0
    BY <2>5 DEF Published
  <2>7. \A t \in Specs : specs'[t].version > 0 /\ Owner[t] # NoId =>
          Owner[t] \in referenced' /\ consumers'[Owner[t]].type = TypeOf[t]
    <3>1. ASSUME NEW t \in Specs, specs'[t].version > 0, Owner[t] # NoId, t # s
          PROVE  Owner[t] \in referenced' /\ consumers'[Owner[t]].type = TypeOf[t]
      BY <2>2, <2>5, <3>1 DEF Library, Published
    <3>. QED BY <2>2, <3>1
  <2>8. \A n \in DOMAIN feedback : feedback[n].spec \in Specs \cup {NoSpecId}
    <3>1. \A n \in DOMAIN feedback : feedback[n] \in FeedbackRow
      BY <1>2
    <3>2. \A row \in FeedbackRow : row.spec \in Specs \cup {NoSpecId}
      BY DEF FeedbackRow
    <3>. QED BY <3>1, <3>2
  <2>9. \A n \in DOMAIN feedback : /\ feedback[n].spec = NoSpecId <=> feedback[n].kind = "missing_guidance"
                                   /\ feedback[n].spec # NoSpecId => specs'[feedback[n].spec].version > 0
    BY <1>2, <2>6, <2>8 DEF FeedbackKnown
  <2>10. pending' \subseteq {t \in Specs : specs'[t].version > 0}
    BY <1>2, <2>2, <2>6
  <2>. QED BY <1>2, <2>2, <2>4, <2>7, <2>9, <2>10 DEF Library, Published, FeedbackKnown
<1>7. ASSUME NEW reviews, NEW rows, NEW runs, Discuss(reviews, rows, runs),
             reviews \subseteq {s \in Specs : Published(s)},
             rows \in Seq(FeedbackRow), \A n \in DOMAIN rows : FeedbackKnown(rows[n])
      PROVE  Library'
  <2>1. pending' = reviews /\ feedback' = rows /\ UNCHANGED specs
    BY <1>7 DEF Discuss
  <2>. QED BY <1>1, <1>7, <2>1, DiscussedLibrary
<1>8. ASSUME NEW kind \in Kinds \cup {"missing_guidance"}, NEW s \in Specs \cup {NoSpecId},
             NEW type \in {TypeOf[t] : t \in Specs} \cup Types, NEW words \in Wordings, NEW topic \in Topics \cup {NoTopic},
             StoreFeedback(kind, s, type, words, topic),
             s = NoSpecId <=> kind = "missing_guidance", s # NoSpecId => Published(s)
      PROVE  Library'
  <2>1. PICK row : row = [kind |-> kind, spec |-> s, type |-> type, words |-> words, topic |-> topic, open |-> TRUE]
    OBVIOUS
  <2>2. row \in FeedbackRow /\ row.kind = kind /\ row.spec = s
    BY <2>1, Zenon DEF FeedbackRow
  <2>3. FeedbackKnown(row)
    BY <1>8, <2>2 DEF FeedbackKnown
  <2>4. PICK rows : rows = Append(feedback, row) /\ Discuss(pending, rows, measured)
    BY <1>8, <2>1 DEF StoreFeedback
  <2>. QED BY <1>2, <1>7, <2>2, <2>3, <2>4, ReportedFeedback
<1>9. ASSUME NEW m \in DOMAIN feedback, TriageFeedback(m)
      PROVE  Library'
  <2>1. PICK rows : rows = [feedback EXCEPT ![m].open = FALSE] /\ Discuss(pending, rows, measured)
    BY <1>9 DEF TriageFeedback
  <2>. QED BY <1>2, <1>7, <2>1, TriagedFeedback
<1>10. ASSUME NEW s \in Specs, Discussing(s)
       PROVE  Library'
  <2>1. CASE OpenReview(s)
    BY <1>2, <1>7, <2>1 DEF OpenReview
  <2>2. CASE RejectReview(s)
    BY <1>2, <1>7, <2>2 DEF RejectReview
  <2>3. CASE MeasureEfficacy(s)
    BY <1>2, <1>7, <2>3 DEF MeasureEfficacy
  <2>4. ASSUME NEW kind \in Kinds, NEW words \in Wordings, ReportFeedback(s, kind, words)
        PROVE  Library'
    <3>1. s # NoSpecId /\ kind # "missing_guidance"
      BY DEF EvidenceAssumption, Kinds
    <3>2. Published(s) /\ StoreFeedback(kind, s, TypeOf[s], words, NoTopic)
      BY <2>4 DEF ReportFeedback
    <3>. QED BY <1>8, <3>1, <3>2
  <2>. QED BY <1>9, <1>10, <2>1, <2>2, <2>3, <2>4 DEF Discussing
<1>11. CASE ReportingGaps
  <2>1. ASSUME NEW type \in Types, NEW words \in Wordings, NEW topic \in Topics, ReportGap(type, words, topic)
        PROVE  Library'
    BY <1>8, <2>1 DEF ReportGap
  <2>. QED BY <1>9, <1>11, <2>1 DEF ReportingGaps
<1>12. CASE Auditing
  <2>1. \A kind, subject, status : StoreReport(kind, subject, status) => UNCHANGED <<specs, pending, feedback>>
    BY DEF StoreReport
  <2>. QED BY <1>3, <1>12, <2>1 DEF Auditing, AuditProject, AuditSpec, AuditRun, AuditRelease
<1>13. \A event, i, sections : Deliver(event, i, sections) => UNCHANGED library
  BY DEF Deliver
<1>14. ASSUME NEW i \in Ids \cup {NoId}, NEW type \in Types, Delivering(i, type)
       PROVE  Library'
  BY <1>4, <1>13, <1>14 DEF Delivering, GetSpecs, CompileSpecs, AgentPack, Search
<1>15. ASSUME NEW q \in searches, Answer(q)
       PROVE  Library'
  BY <1>4, <1>13, <1>15 DEF Answer
<1>16. CASE Reporting(Nat, Nat) \/ NextDay
  BY <1>4, <1>16 DEF Reporting, ReportUsage, NextDay
<1>17. ASSUME NEW project_id \in Ids \cup {NoId}, NEW repo \in Repos \cup {NoRepo},
              Judging(project_id, repo) \/ Beginning(project_id, repo)
       PROVE  Library'
  BY <1>4, <1>5, <1>17 DEF Judging, Beginning, Begin
<1>18. ASSUME NEW i \in Ids, NEW project_id \in Ids \cup {NoId}, NEW repo \in Repos, NEW type \in Types,
              Registering(i, project_id, repo, type)
       PROVE  Library'
  BY <1>5, <1>18 DEF Registering
<1>19. CASE UNCHANGED evidenceVars
  BY <1>5, <1>19 DEF evidenceVars
<1>. QED BY <1>5, <1>6, <1>10, <1>11, <1>12, <1>14, <1>15, <1>16, <1>17, <1>18, <1>19 DEF EvidenceNext, Publishing

\* The groups of a count add up to what is counted.
LEMMA CountOfAll ==
  ASSUME NEW groups, IsFiniteSet(DOMAIN groups)
  PROVE  SumFunction(Counted(groups)) = Cardinality(DOMAIN groups)
<1>. DEFINE ones == [n \in DOMAIN groups |-> 1]
            K == {groups[n] : n \in DOMAIN groups}
            report == Counted(groups)
            S == DOMAIN groups
<1>1. \A T \in SUBSET S : SumFunctionOnSet(ones, T) = Cardinality(T)
  <2>. DEFINE Good == {T \in SUBSET S : SumFunctionOnSet(ones, T) = Cardinality(T)}
  <2>1. /\ SumFunctionOnSet(ones, {}) = 0
        /\ \A T \in SUBSET S : \A x \in T : SumFunctionOnSet(ones, T) = ones[x] + SumFunctionOnSet(ones, T \ {x})
    <3>1. \A x \in S : ones[x] \in Nat
      OBVIOUS
    <3>. HIDE DEF ones
    <3>. QED BY <3>1, SumFacts
  <2>2. \A x \in S : ones[x] = 1
    OBVIOUS
  <2>3. ASSUME NEW T \in SUBSET S, \A V \in SUBSET T : V # T => V \in Good
        PROVE  T \in Good
    <3>1. CASE T = {}
      BY <2>1, <3>1, FS_EmptySet
    <3>2. CASE T # {}
      <4>1. PICK x : x \in T
        BY <3>2
      <4>2. SumFunctionOnSet(ones, T \ {x}) = Cardinality(T \ {x})
        BY <2>3, <4>1
      <4>3. IsFiniteSet(T)
        BY FS_Subset
      <4>4. Cardinality(T) \in Nat /\ Cardinality(T \ {x}) = Cardinality(T) - 1
        BY <4>1, <4>3, FS_CardinalityType, FS_RemoveElement
      <4>5. SumFunctionOnSet(ones, T) = 1 + SumFunctionOnSet(ones, T \ {x})
        <5>. HIDE DEF ones
        <5>. QED BY <2>1, <2>2, <4>1
      <4>. HIDE DEF ones
      <4>6. SumFunctionOnSet(ones, T) = Cardinality(T)
        BY <4>2, <4>4, <4>5
      <4>. QED BY <4>6
    <3>. QED BY <3>1, <3>2
  <2>. HIDE DEF Good
  <2>4. \A T \in SUBSET S : T \in Good
    BY <2>3, SubsetInduction
  <2>. QED BY <2>4 DEF Good
<1>2. \A k \in K : report[k] = Cardinality(Group(S, groups, k)) /\ Group(S, groups, k) \in SUBSET S
  BY DEF Counted, Group
<1>3. DOMAIN report = K
  BY DEF Counted
<1>4. \A n \in S : groups[n] \in K /\ ones[n] \in Nat
  OBVIOUS
<1>5. \A k \in K : \E n \in S : k = groups[n]
  OBVIOUS
<1>. HIDE DEF ones, K, report
<1>6. \A k \in K : report[k] = SumFunctionOnSet(ones, Group(S, groups, k))
  BY <1>1, <1>2
<1>7. SumFunction(report) = SumFunctionOnSet(ones, S)
  BY <1>3, <1>4, <1>5, <1>6, SumOfReport
<1>. QED BY <1>1, <1>7 DEF report

\* Open and closed reports, and what is known of each.
LEMMA FeedbackFacts ==
  ASSUME EvidenceAssumption, Library
  PROVE  /\ IsFiniteSet(OpenReports) /\ IsFiniteSet(DOMAIN feedback \ OpenReports)
         /\ \A n \in OpenReports : n \in DOMAIN feedback /\ feedback[n].open
         /\ \A n \in DOMAIN feedback :
              /\ feedback[n].spec = NoSpecId <=> feedback[n].kind = "missing_guidance"
              /\ feedback[n].kind \in Kinds <=> feedback[n].spec \in Specs
              /\ feedback[n].spec \in Specs => Published(feedback[n].spec)
<1>1. feedback \in Seq(FeedbackRow) /\ \A n \in DOMAIN feedback : FeedbackKnown(feedback[n])
  BY DEF Library
<1>2. IsFiniteSet(DOMAIN feedback)
  <2>1. DOMAIN feedback = 1..Len(feedback) /\ Len(feedback) \in Nat
    BY <1>1
  <2>. QED BY <2>1, FS_Interval
<1>3. OpenReports \in SUBSET DOMAIN feedback /\ \A n \in OpenReports : feedback[n].open
  BY DEF OpenReports
<1>4. IsFiniteSet(OpenReports) /\ IsFiniteSet(DOMAIN feedback \ OpenReports)
  BY <1>2, <1>3, FS_Subset
<1>5. \A n \in DOMAIN feedback : /\ feedback[n].spec \in Specs \cup {NoSpecId}
                                 /\ feedback[n].kind \in Kinds \cup {"missing_guidance"}
  <2>1. \A n \in DOMAIN feedback : feedback[n] \in FeedbackRow
    BY <1>1
  <2>2. \A row \in FeedbackRow : row.spec \in Specs \cup {NoSpecId} /\ row.kind \in Kinds \cup {"missing_guidance"}
    BY DEF FeedbackRow
  <2>. QED BY <2>1, <2>2
<1>6. NoSpecId \notin Specs /\ "missing_guidance" \notin Kinds
  BY DEF EvidenceAssumption, Kinds
<1>. QED BY <1>1, <1>3, <1>4, <1>5, <1>6 DEF FeedbackKnown

LEMMA QualityWarned ==
  ASSUME NEW s
  PROVE  /\ (\E n \in OpenReports : feedback[n].spec = s) => "open feedback" \in QualityWarnings(s)
         /\ s \in pending => "pending reviews" \in QualityWarnings(s)
         /\ QualityStatus(s) = "pass" => QualityWarnings(s) = {}
BY DEF QualityWarnings, QualityStatus, If, AuditStatus

\* Some of the groups of a count add up to what falls into them.
LEMMA CountOfSome ==
  ASSUME NEW groups, IsFiniteSet(DOMAIN groups), NEW K \in SUBSET DOMAIN Counted(groups)
  PROVE  SumFunctionOnSet(Counted(groups), K) = Cardinality({n \in DOMAIN groups : groups[n] \in K})
<1>. DEFINE S == {n \in DOMAIN groups : groups[n] \in K}
            part == [n \in S |-> groups[n]]
<1>1. IsFiniteSet(S) /\ DOMAIN part = S
  BY FS_Subset
<1>2. \A k \in K : \E n \in S : k = part[n]
  BY DEF Counted
<1>3. \A n \in S : part[n] \in K /\ part[n] = groups[n]
  OBVIOUS
<1>4. \A k \in K : {n \in S : part[n] = k} = {n \in DOMAIN groups : groups[n] = k}
  OBVIOUS
<1>5. \A k \in K : Counted(groups)[k] = Cardinality({n \in DOMAIN groups : groups[n] = k})
  BY DEF Counted
<1>. HIDE DEF S, part
<1>6. DOMAIN Counted(part) = K
  BY <1>1, <1>2, <1>3 DEF Counted
<1>7. \A k \in K : Counted(part)[k] = Counted(groups)[k]
  <2>1. \A k \in K : Counted(part)[k] = Cardinality({n \in S : part[n] = k})
    BY <1>1, <1>2 DEF Counted
  <2>. QED BY <1>4, <1>5, <2>1
<1>8. SumFunction(Counted(part)) = Cardinality(S)
  BY <1>1, CountOfAll
<1>9. IsFiniteSet(K)
  <2>1. K = {part[n] : n \in S}
    BY <1>2, <1>3
  <2>. QED BY <1>1, <2>1, ImageIsFinite
<1>10. SumFunctionOnSet(Counted(part), K) = SumFunctionOnSet(Counted(groups), K)
  BY <1>7, <1>9, SumEqual
<1>. QED BY <1>6, <1>8, <1>10 DEF SumFunction, S

\* The insights count what the list of clusters counts.
LEMMA ClustersAgree ==
  ASSUME EvidenceAssumption, Library
  PROVE  /\ \A g \in DOMAIN FeedbackClusters :
              /\ FeedbackClusters[g] =
                   SumFunctionOnSet(Clusters("open"), {k \in DOMAIN Clusters("open") : k[2] = g[1] /\ NameOf[k[1]] = g[2]})
              /\ \E s \in Specs : NameOf[s] = g[2] /\ Published(s) /\ \E n \in OpenReports : feedback[n].spec = s
         /\ \A type \in Types :
              SumFunctionOnSet(MissingGuidance, {g \in DOMAIN MissingGuidance : g[1] = type}) =
                SumFunctionOnSet(Clusters("open"), {k \in DOMAIN Clusters("open") : k[2] = "missing_guidance" /\ k[1] = type})
         /\ \A g \in DOMAIN MissingGuidance : \E n \in OpenReports : feedback[n].type = g[1]
         /\ \A status \in {"open", "closed"} : SumFunction(Clusters(status)) = SumFunction(FeedbackByType(status))
<1>1. IsFiniteSet(OpenReports) /\ \A n \in OpenReports : n \in DOMAIN feedback
  BY FeedbackFacts
<1>2. \A n \in OpenReports :
        /\ feedback[n].spec = NoSpecId <=> feedback[n].kind = "missing_guidance"
        /\ feedback[n].kind \in Kinds <=> feedback[n].spec \in Specs
        /\ feedback[n].spec \in Specs => Published(feedback[n].spec)
  BY <1>1, FeedbackFacts
<1>3. NoSpecId \notin Specs /\ "missing_guidance" \notin Kinds
  BY DEF EvidenceAssumption, Kinds
<1>. DEFINE key == [n \in OpenReports |-> FeedbackClusterKey(n)]
<1>4. /\ Clusters("open") = Counted(key) /\ DOMAIN key = OpenReports
      /\ \A n \in OpenReports :
           /\ key[n][1] = IF feedback[n].spec = NoSpecId THEN feedback[n].type ELSE feedback[n].spec
           /\ key[n][2] = feedback[n].kind
  BY DEF Clusters, FeedbackClusterKey
<1>5. \A n \in OpenReports : key[n] \in DOMAIN Counted(key)
  BY <1>4 DEF Counted
<1>. HIDE DEF key
<1>6. ASSUME NEW g \in DOMAIN FeedbackClusters
      PROVE  /\ FeedbackClusters[g] =
                  SumFunctionOnSet(Clusters("open"), {k \in DOMAIN Clusters("open") : k[2] = g[1] /\ NameOf[k[1]] = g[2]})
             /\ \E s \in Specs : NameOf[s] = g[2] /\ Published(s) /\ \E n \in OpenReports : feedback[n].spec = s
  <2>. DEFINE S == {n \in OpenReports : feedback[n].kind \in Kinds}
              subject == [n \in S |-> Subject(n)]
  <2>1. /\ \E n \in S : g = Subject(n)
        /\ FeedbackClusters[g] = Cardinality({n \in S : subject[n] = g})
    BY DEF FeedbackClusters, Counted
  <2>2. PICK m \in S : g = <<feedback[m].kind, NameOf[feedback[m].spec]>>
    BY <2>1 DEF Subject
  <2>3. g[1] = feedback[m].kind /\ g[2] = NameOf[feedback[m].spec] /\ g = <<g[1], g[2]>>
    BY <2>2
  <2>4. feedback[m].kind \in Kinds /\ feedback[m].spec \in Specs /\ Published(feedback[m].spec) /\ m \in OpenReports
    BY <1>2, <2>3
  <2>5. PICK K : K = {k \in DOMAIN Counted(key) : k[2] = g[1] /\ NameOf[k[1]] = g[2]}
    OBVIOUS
  <2>6. ASSUME NEW n \in OpenReports
        PROVE  key[n] \in K <=> n \in S /\ subject[n] = g
    <3>1. n \in S => subject[n] = <<feedback[n].kind, NameOf[feedback[n].spec]>>
      BY DEF Subject
    <3>2. n \in S => (subject[n] = g <=> feedback[n].kind = g[1] /\ NameOf[feedback[n].spec] = g[2])
      BY <2>3, <3>1
    <3>3. key[n] \in K <=> key[n][2] = g[1] /\ NameOf[key[n][1]] = g[2]
      BY <1>5, <2>5
    <3>4. key[n] \in K => n \in S
      BY <1>4, <2>3, <2>4, <3>3
    <3>5. n \in S => key[n][1] = feedback[n].spec /\ key[n][2] = feedback[n].kind
      BY <1>2, <1>3, <1>4
    <3>. QED BY <3>2, <3>3, <3>4, <3>5
  <2>7. {n \in OpenReports : key[n] \in K} = {n \in S : subject[n] = g}
    BY <2>6
  <2>8. SumFunctionOnSet(Counted(key), K) = Cardinality({n \in OpenReports : key[n] \in K})
    <3>1. K \in SUBSET DOMAIN Counted(key) /\ IsFiniteSet(DOMAIN key)
      BY <1>1, <1>4, <2>5
    <3>. QED BY <1>4, <3>1, CountOfSome
  <2>. QED BY <1>4, <2>1, <2>3, <2>4, <2>5, <2>7, <2>8
<1>. DEFINE M == {n \in OpenReports : feedback[n].kind = "missing_guidance"}
            gap == [n \in M |-> Gap(n)]
<1>7. /\ MissingGuidance = Counted(gap) /\ DOMAIN gap = M /\ M \in SUBSET OpenReports
      /\ \A n \in M : gap[n][1] = feedback[n].type /\ feedback[n].kind = "missing_guidance"
  BY DEF MissingGuidance, Gap
<1>8. (\A n \in M : gap[n] \in DOMAIN Counted(gap)) /\ \A g \in DOMAIN Counted(gap) : \E n \in M : g = gap[n]
  BY <1>7 DEF Counted
<1>9. \A n \in OpenReports : n \in M <=> feedback[n].kind = "missing_guidance"
  OBVIOUS
<1>. HIDE DEF M, gap
<1>10. ASSUME NEW type \in Types
       PROVE  SumFunctionOnSet(MissingGuidance, {g \in DOMAIN MissingGuidance : g[1] = type}) =
                SumFunctionOnSet(Clusters("open"), {k \in DOMAIN Clusters("open") : k[2] = "missing_guidance" /\ k[1] = type})
  <2>1. PICK J : J = {g \in DOMAIN Counted(gap) : g[1] = type}
    OBVIOUS
  <2>2. PICK K : K = {k \in DOMAIN Counted(key) : k[2] = "missing_guidance" /\ k[1] = type}
    OBVIOUS
  <2>3. SumFunctionOnSet(Counted(gap), J) = Cardinality({n \in M : gap[n] \in J})
    <3>1. J \in SUBSET DOMAIN Counted(gap) /\ IsFiniteSet(DOMAIN gap)
      BY <1>1, <1>7, <2>1, FS_Subset
    <3>. QED BY <1>7, <3>1, CountOfSome
  <2>4. SumFunctionOnSet(Counted(key), K) = Cardinality({n \in OpenReports : key[n] \in K})
    <3>1. K \in SUBSET DOMAIN Counted(key) /\ IsFiniteSet(DOMAIN key)
      BY <1>1, <1>4, <2>2
    <3>. QED BY <1>4, <3>1, CountOfSome
  <2>5. \A n \in M : gap[n] \in J <=> feedback[n].type = type
    BY <1>7, <1>8, <2>1
  <2>6. \A n \in OpenReports : key[n] \in K <=> n \in M /\ feedback[n].type = type
    BY <1>2, <1>4, <1>5, <1>9, <2>2
  <2>7. {n \in M : gap[n] \in J} = {n \in OpenReports : key[n] \in K}
    BY <1>7, <2>5, <2>6
  <2>. QED BY <1>4, <1>7, <2>1, <2>2, <2>3, <2>4, <2>7
<1>11. \A g \in DOMAIN MissingGuidance : \E n \in OpenReports : feedback[n].type = g[1]
  BY <1>7, <1>8
<1>12. ASSUME NEW status \in {"open", "closed"}
      PROVE  SumFunction(Clusters(status)) = SumFunction(FeedbackByType(status))
  <2>. DEFINE S == IF status = "open" THEN OpenReports ELSE DOMAIN feedback \ OpenReports
              clusterOf == [n \in S |-> FeedbackClusterKey(n)]
              kindOf == [n \in S |-> feedback[n].kind]
  <2>1. IsFiniteSet(S)
    BY FeedbackFacts
  <2>2. Clusters(status) = Counted(clusterOf) /\ FeedbackByType(status) = Counted(kindOf)
    BY DEF Clusters, FeedbackByType
  <2>3. DOMAIN clusterOf = S /\ DOMAIN kindOf = S
    OBVIOUS
  <2>. HIDE DEF S, clusterOf, kindOf
  <2>. QED BY <2>1, <2>2, <2>3, CountOfAll
<1>. QED BY <1>6, <1>10, <1>11, <1>12

\* What nothing supports has no support.
LEMMA NoSupport ==
  ASSUME NEW groups, DOMAIN groups = {}
  PROVE  SupportOf(groups) = 0
<1>1. Largest(groups, PerPattern) = {}
  BY FS_EmptySet DEF Largest, PerPattern
<1>2. SumFunctionOnSet(groups, {}) = 0
  BY FS_EmptySet, SumOfZeros
<1>. QED BY <1>1, <1>2 DEF SupportOf

LEMMA InsightsHold ==
  ASSUME EvidenceAssumption, Library
  PROVE  InsightsAgree
<1>1. ASSUME NEW i \in Ids, NEW x \in Sessions, sessions[x] # NoSession,
             sessions[x].status = "blocked", RepoOfRun(x) = consumers[i].repo,
             ~ ("blocked sessions" \in GovernanceWarnings(i))
      PROVE  Cardinality(After(x, i)) >= RunRows
  <2>1. x \in RunsOf(i)
    BY <1>1 DEF RunsOf, RepoOfRun
  <2>2. x \notin RecentRuns(i)
    BY <1>1 DEF GovernanceWarnings, If
  <2>3. ~ (Cardinality(After(x, i)) < RunRows)
    BY <2>1, <2>2 DEF RecentRuns
  <2>4. After(x, i) \in SUBSET Sessions
    BY DEF After, RunsOf
  <2>5. Cardinality(After(x, i)) \in Nat /\ RunRows \in Nat
    BY <2>4, FS_Subset, FS_CardinalityType DEF EvidenceAssumption
  <2>. QED BY <2>3, <2>5
<1>2. ASSUME NEW i \in Ids, NEW g \in DOMAIN MissingGuidance, g[1] = consumers[i].type
      PROVE  "open feedback" \in GovernanceWarnings(i)
  <2>1. PICK n \in OpenReports : feedback[n].type = consumers[i].type
    BY <1>2, ClustersAgree
  <2>2. OpenFeedback(i) # {}
    BY <2>1 DEF OpenFeedback
  <2>. QED BY <2>2 DEF GovernanceWarnings, If
<1>3. ASSUME NEW g \in DOMAIN FeedbackClusters
      PROVE  \E s \in Specs : NameOf[s] = g[2] /\ Published(s) /\ "open feedback" \in QualityWarnings(s)
  <2>1. PICK s \in Specs : NameOf[s] = g[2] /\ Published(s) /\ \E n \in OpenReports : feedback[n].spec = s
    BY ClustersAgree
  <2>. QED BY <2>1, QualityWarned
<1>4. ASSUME \A s \in Specs : Published(s) => QualityStatus(s) = "pass"
      PROVE  Insights.clusters = 0
  <2>1. DOMAIN FeedbackClusters = {}
    BY <1>3, <1>4, QualityWarned
  <2>. QED BY <2>1, NoSupport DEF Insights
<1>5. ASSUME Insights.stale > 0
      PROVE  \E x \in Sessions : sessions[x] # NoSession /\ "still active" \in RunWarnings(x)
  <2>1. DOMAIN StaleSessions # {}
    <3>1. Insights.stale = SupportOf(StaleSessions)
      BY DEF Insights
    <3>2. DOMAIN StaleSessions = {} => SupportOf(StaleSessions) = 0
      BY NoSupport
    <3>3. ~ (0 > 0)
      OBVIOUS
    <3>. QED BY <1>5, <3>1, <3>2, <3>3
  <2>2. PICK x \in Sessions : sessions[x] # NoSession /\ sessions[x].status = "active"
    BY <2>1 DEF StaleSessions, Counted
  <2>. QED BY <2>2 DEF RunWarnings, If
<1>. QED BY <1>1, <1>2, <1>3, <1>4, <1>5, ClustersAgree DEF InsightsAgree

LEMMA AuditsHold ==
  ASSUME EvidenceAssumption, ProjectsAssumption, Library
  PROVE  AuditsAgree
<1>. SUFFICES ASSUME NEW i \in Ids
              PROVE
       /\ \A r \in Releases :
            /\ ReleaseStatus(i, r) = "fail" <=> GovernanceStatus(i) = "fail"
            /\ ReleaseStatus(i, r) = "fail" <=> RolloutLevel(i, r) = "high"
            /\ ReleaseStatus(i, r) = "pass" =>
                 RolloutLevel(i, r) = "low" /\ GovernanceWarnings(i) \subseteq {"blocked sessions"}
       /\ OverviewOfProject(i).open # {} => "open feedback" \in GovernanceWarnings(i)
       /\ OverviewOfProject(i).pending \subseteq OverviewOfType(consumers[i].type).pending
       /\ OverviewOfType(consumers[i].type).pending # {} => "pending reviews" \in GovernanceWarnings(i)
       /\ \A s \in {t \in Governing(i) : TypeOf[t] = Global} :
            QualityStatus(s) = "pass" => OverviewOfSpec(s).open = {} /\ OverviewOfSpec(s).pending = {}
       /\ \A s \in PendingReviews(i) \cup ({feedback[n].spec : n \in OpenFeedback(i)} \ {NoSpecId}) :
            QualityStatus(s) # "pass"
  BY InsightsHold DEF AuditsAgree
<1>1. ASSUME NEW r \in Releases
      PROVE  /\ ReleaseStatus(i, r) = "fail" <=> GovernanceStatus(i) = "fail"
             /\ ReleaseStatus(i, r) = "fail" <=> RolloutLevel(i, r) = "high"
             /\ ReleaseStatus(i, r) = "pass" =>
                  RolloutLevel(i, r) = "low" /\ GovernanceWarnings(i) \subseteq {"blocked sessions"}
  <2>1. /\ ReleaseStatus(i, r) = "fail" <=> Failing(Newest(Evaluations(i)))
        /\ GovernanceStatus(i) = "fail" <=> Failing(Newest(Evaluations(i)))
    BY DEF ReleaseStatus, GovernanceStatus, AuditStatus
  <2>2. RolloutLevel(i, r) = "high" <=> Failing(Newest(Evaluations(i)))
    BY DEF RolloutLevel
  <2>3. ReleaseStatus(i, r) = "pass" => RiskReasons(i, r) = {}
    BY DEF ReleaseStatus, AuditStatus, ReleaseWarnings
  <2>4. RiskReasons(i, r) = {} =>
          /\ ~ Failing(Newest(Evaluations(i))) /\ Evaluations(i) # {} /\ traces[i] # NoTrace
          /\ traces[i] \notin HighDrift /\ Outdated(i) = {} /\ PendingReviews(i) = {} /\ OpenFeedback(i) = {}
          /\ Unmapped(i, r) = {}
    BY DEF RiskReasons, If
  <2>5. RiskReasons(i, r) = {} => GovernanceWarnings(i) \subseteq {"blocked sessions"}
    BY <2>4 DEF GovernanceWarnings, If
  <2>6. RiskReasons(i, r) = {} => RolloutLevel(i, r) = "low"
    <3>1. Cardinality({}) = 0 /\ ~ (0 >= 4)
      BY FS_EmptySet
    <3>. QED BY <2>4, <3>1 DEF RolloutLevel
  <2>. QED BY <2>1, <2>2, <2>3, <2>5, <2>6
<1>2. OverviewOfProject(i).open # {} => "open feedback" \in GovernanceWarnings(i)
  <2>1. OverviewOfProject(i).open \subseteq OpenFeedback(i)
    BY DEF OverviewOfProject, OpenFeedback
  <2>. QED BY <2>1 DEF GovernanceWarnings, If
<1>3. OverviewOfProject(i).pending \subseteq OverviewOfType(consumers[i].type).pending
  <2>1. \A s \in pending : s \in Specs /\ Published(s)
    BY DEF Library
  <2>2. i # NoId
    BY DEF ProjectsAssumption
  <2>3. \A s \in pending : Owner[s] = i => TypeOf[s] = consumers[i].type
    BY <2>1, <2>2 DEF Library
  <2>. QED BY <2>3 DEF OverviewOfProject, OverviewOfType
<1>4. OverviewOfType(consumers[i].type).pending # {} => "pending reviews" \in GovernanceWarnings(i)
  <2>1. OverviewOfType(consumers[i].type).pending \subseteq PendingReviews(i)
    BY DEF OverviewOfType, PendingReviews, OfProject
  <2>. QED BY <2>1 DEF GovernanceWarnings, If
<1>5. ASSUME NEW s, QualityStatus(s) = "pass"
      PROVE  OverviewOfSpec(s).open = {} /\ OverviewOfSpec(s).pending = {}
  BY <1>5, QualityWarned DEF OverviewOfSpec
<1>6. ASSUME NEW s \in PendingReviews(i) \cup ({feedback[n].spec : n \in OpenFeedback(i)} \ {NoSpecId})
      PROVE  QualityStatus(s) # "pass"
  <2>1. s \in pending \/ \E n \in OpenReports : feedback[n].spec = s
    BY <1>6 DEF PendingReviews, OpenFeedback
  <2>. QED BY <2>1, QualityWarned
<1>. QED BY <1>1, <1>2, <1>3, <1>4, <1>5, <1>6

\* The release audit, the governance audit, the quality audits of specs, the overviews and
\* the harness insights never contradict each other, of any project, spec and release and
\* after any reports, reviews, triage, publications and evaluations.
THEOREM AuditsStayInAgreement == EvidenceSpec => []AuditsAgree
<1>. USE ProjectsAssumption, EvidenceAssumption
<1>. DEFINE AInv == IInv /\ Library
<1>1. EvidenceInit => AInv
  <2>1. EvidenceInit => Init
    BY DEF EvidenceInit
  <2>. QED BY <2>1, InitIInv, LibraryInit
<1>2. AInv /\ [EvidenceNext]_evidenceVars => AInv'
  <2>1. [EvidenceNext]_evidenceVars => [Next]_vars
    BY EvidenceIsProjects DEF evidenceVars
  <2>. QED BY <2>1, IInvStep, LibraryStep
<1>3. AInv => AuditsAgree
  BY AuditsHold
<1>. HIDE DEF AInv
<1>. QED BY <1>1, <1>2, <1>3, PTL DEF EvidenceSpec

=============================================================================
