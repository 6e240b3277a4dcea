-------------------------- MODULE OperationsProofs --------------------------
(***************************************************************************)
(* What is proved of the operator's side, for every value of the constants:*)
(* that search by terms serves the governed texts, that overlapping logins *)
(* are contained, that a backup that has ended can be restored, and that   *)
(* upgrades lose no reports, webhooks and customized skills.               *)
(***************************************************************************)
EXTENDS Accounts, Backups, SearchIndex, Migrations, FiniteSetTheorems, WellFoundedInduction, TLAPS

-----------------------------------------------------------------------------
(* Search by terms.                                                        *)

\* The FTS rows follow the text, also while a handler still awaits embeddings.
RowsFollowTheText ==
  \A s \in SpecIds : Governed(specs[s]) => chunks[s] = ToSet(SectionsOf[specs[s].content])

SearchInv ==
  /\ specs \in [SpecIds -> SpecRow \cup {NoSpec}]
  /\ chunks \in [SpecIds -> SUBSET Section]
  /\ RowsFollowTheText

LEMMA SectionsAreSections ==
  ASSUME NEW c \in Contents
  PROVE  ToSet(SectionsOf[c]) \in SUBSET Section
BY DEF Section

LEMMA ReleasedRow ==
  ASSUME SearchInv, NEW s \in SpecIds, NEW content \in Contents, Released(s, content)
  PROVE  \E row \in SpecRow : row.content = content /\ specs' = [specs EXCEPT ![s] = row]
<1>. DEFINE was == specs[s]
            now == [was EXCEPT !.status = "published"]
            row == [now EXCEPT !.content = content]
<1>1. was \in SpecRow
  BY DEF SearchInv, Released, Live
<1>2. specs' = [specs EXCEPT ![s] = row]
  BY DEF Released, SearchInv
<1>. HIDE DEF was
<1>3. now \in SpecRow
  BY <1>1 DEF SpecRow
<1>. HIDE DEF now
<1>4. row \in SpecRow /\ row.content = content
  BY <1>3 DEF SpecRow
<1>. HIDE DEF row
<1>. QED BY <1>2, <1>4

LEMMA ReindexStep ==
  ASSUME SearchInv, NEW s \in SpecIds, NEW row \in SpecRow,
         specs' = [specs EXCEPT ![s] = row], chunks' = Reindexed(s, row.content)
  PROVE  SearchInv'
<1>1. row.content \in Contents
  BY DEF SpecRow
<1>2. /\ specs' \in [SpecIds -> SpecRow \cup {NoSpec}]
      /\ chunks' \in [SpecIds -> SUBSET Section]
  BY <1>1, SectionsAreSections DEF SearchInv, Reindexed
<1>3. RowsFollowTheText'
  BY DEF SearchInv, RowsFollowTheText, Reindexed
<1>. QED BY <1>2, <1>3 DEF SearchInv

LEMMA SearchStep ==
  ASSUME SearchInv, [SearchNext]_searchVars
  PROVE  SearchInv'
<1>1. ASSUME NEW s \in SpecIds, NEW content \in Contents, WriteDraft(s, content)
      PROVE  SearchInv'
  <2>. DEFINE row == [status |-> "draft", deleted |-> FALSE, content |-> content]
  <2>1. row \in SpecRow /\ ~Governed(row)
    BY DEF SpecRow, Governed
  <2>. HIDE DEF row
  <2>2. specs' = [specs EXCEPT ![s] = row] /\ chunks' = chunks
    BY <1>1 DEF WriteDraft, row
  <2>3. RowsFollowTheText'
    BY <2>1, <2>2 DEF SearchInv, RowsFollowTheText
  <2>. QED BY <2>1, <2>2, <2>3 DEF SearchInv
<1>2. ASSUME NEW h \in Handlers, NEW s \in SpecIds, NEW content \in Contents,
             Release(h, s, content)
      PROVE  SearchInv'
  <2>1. PICK row \in SpecRow : row.content = content /\ specs' = [specs EXCEPT ![s] = row]
    BY <1>2, ReleasedRow DEF Release
  <2>2. chunks' = Reindexed(s, row.content)
    BY <1>2, <2>1 DEF Release, Reindex
  <2>. QED BY <2>1, <2>2, ReindexStep
<1>3. ASSUME NEW h \in Handlers, NEW s \in SpecIds, Reinstate(h, s)
      PROVE  SearchInv'
  <2>. DEFINE row == [specs[s] EXCEPT !.deleted = FALSE]
  <2>1. specs[s] \in SpecRow
    BY <1>3 DEF Reinstate, SearchInv
  <2>2. row \in SpecRow /\ row.content = specs[s].content
    BY <2>1 DEF SpecRow
  <2>3. specs' = [specs EXCEPT ![s] = row] /\ chunks' = Reindexed(s, specs[s].content)
    BY <1>3 DEF Reinstate, Reindex, SearchInv
  <2>. HIDE DEF row
  <2>. QED BY <2>2, <2>3, ReindexStep
<1>4. ASSUME NEW s \in SpecIds, Delete(s)
      PROVE  SearchInv'
  <2>. DEFINE row == [specs[s] EXCEPT !.deleted = TRUE]
  <2>1. specs[s] \in SpecRow
    BY <1>4 DEF Delete, Live, SearchInv
  <2>2. row \in SpecRow /\ ~Governed(row)
    BY <2>1 DEF SpecRow, Governed
  <2>3. specs' = [specs EXCEPT ![s] = row] /\ chunks' = [chunks EXCEPT ![s] = {}]
    BY <1>4 DEF Delete, SearchInv
  <2>. HIDE DEF row
  <2>4. RowsFollowTheText'
    BY <2>2, <2>3 DEF SearchInv, RowsFollowTheText
  <2>. QED BY <2>2, <2>3, <2>4 DEF SearchInv
<1>5. ASSUME NEW s \in SpecIds, Purge(s)
      PROVE  SearchInv'
  <2>1. specs' = [specs EXCEPT ![s] = NoSpec] /\ chunks' = [chunks EXCEPT ![s] = {}]
    BY <1>5 DEF Purge
  <2>2. ~Governed(NoSpec)
    BY DEF Governed
  <2>. HIDE DEF NoSpec
  <2>3. RowsFollowTheText'
    BY <2>1, <2>2 DEF SearchInv, RowsFollowTheText
  <2>. QED BY <2>1, <2>3 DEF SearchInv
<1>6. ASSUME Restart
      PROVE  SearchInv'
  <2>1. specs' \in [SpecIds -> SpecRow \cup {NoSpec}]
    BY <1>6, ReleasedRow DEF Restart, SearchInv
  <2>2. \A s \in SpecIds : Governed(specs'[s]) => specs'[s].content \in Contents
    BY <2>1 DEF Governed, SpecRow
  <2>3. chunks' \in [SpecIds -> SUBSET Section]
    BY <1>6, <2>2, SectionsAreSections DEF Restart, ReindexedAll
  <2>4. RowsFollowTheText'
    BY <1>6 DEF Restart, ReindexedAll, RowsFollowTheText
  <2>. QED BY <2>1, <2>3, <2>4 DEF SearchInv
<1>7. CASE UNCHANGED <<specs, chunks>>
  BY <1>7 DEF SearchInv, RowsFollowTheText
<1>8. (\/ \E h \in Handlers : Answer(h) \/ Fail(h) \/ ReindexSemanticAll(h)
       \/ \E m \in Models : ChangeModel(m)
       \/ UNCHANGED searchVars) => UNCHANGED <<specs, chunks>>
  BY DEF Answer, Fail, ReindexSemanticAll, ChangeModel, searchVars
<1>. QED BY <1>1, <1>2, <1>3, <1>4, <1>5, <1>6, <1>7, <1>8 DEF SearchNext

(***************************************************************************)
(* Search by terms finds the sections of the governed text of every spec   *)
(* and nothing of a deleted one, after any number of releases, deletions,  *)
(* restorations, purges and deaths between commit and indexing             *)
(* (reindexSpec, reindexAll, searchSpecs in lib/search.ts).                *)
(***************************************************************************)
THEOREM SearchStaysCurrent == SearchSpec => []SearchServesTheHead
<1>1. SearchInit => SearchInv
  BY DEF SearchInit, SearchInv, RowsFollowTheText, Governed
<1>2. SearchInv /\ [SearchNext]_searchVars => SearchInv'
  BY SearchStep
<1>3. SearchInv => SearchServesTheHead
  BY DEF SearchInv, RowsFollowTheText, SearchServesTheHead, Found, Governed, Live
<1>. QED BY <1>1, <1>2, <1>3, PTL DEF SearchSpec
-----------------------------------------------------------------------------
(* The limiter of failed attempts.                                         *)

Entry == [count : Nat, open : BOOLEAN, locked : BOOLEAN]

\* Directory logins that passed the check and may still fail.
Awaited(r, n) ==
  {l \in Logins : r = "auth/login" /\ logins[l] # NoLogin /\ logins[l].name = n}

Limiter ==
  /\ rateState \in [Routes -> [Names -> Entry]]
  /\ \A r \in Routes, n \in Names :
       /\ ~rateState[r][n].locked => rateState[r][n].count < MaxFailed
       /\ rateState[r][n].count + Cardinality(Awaited(r, n)) <= MaxFailed + Cardinality(Logins)

LEMMA AwaitedAreLogins ==
  ASSUME AccountsAssumption, NEW S \in SUBSET Logins
  PROVE  /\ IsFiniteSet(S) /\ Cardinality(S) \in Nat
         /\ Cardinality(Logins) \in Nat /\ Cardinality(S) <= Cardinality(Logins)
BY FS_Subset, FS_CardinalityType DEF AccountsAssumption

LEMMA NoEntryIsAnEntry == NoEntry \in Entry /\ NoEntry.count = 0 /\ ~NoEntry.locked
BY DEF NoEntry, Entry

\* One entry changes and no login starts.
LEMMA EntryBecomes ==
  ASSUME AccountsAssumption, Limiter, NEW r \in Routes, NEW n \in Names, NEW e \in Entry,
         rateState' = [rateState EXCEPT ![r][n] = e],
         ~e.locked => e.count < MaxFailed,
         \A q \in Routes, m \in Names : Awaited(q, m)' \subseteq Awaited(q, m),
         e.count + Cardinality(Awaited(r, n)') <= MaxFailed + Cardinality(Logins)
  PROVE  Limiter'
<1>1. rateState' \in [Routes -> [Names -> Entry]]
  BY DEF Limiter
<1>2. ASSUME NEW q \in Routes, NEW m \in Names
      PROVE  /\ ~rateState'[q][m].locked => rateState'[q][m].count < MaxFailed
             /\ rateState'[q][m].count + Cardinality(Awaited(q, m)')
                  <= MaxFailed + Cardinality(Logins)
  <2>1. CASE q = r /\ m = n
    <3>1. rateState'[q][m] = e
      BY <2>1 DEF Limiter
    <3>2. Cardinality(Awaited(q, m)') = Cardinality(Awaited(r, n)')
      BY <2>1
    <3>. QED BY <3>1, <3>2
  <2>2. CASE ~(q = r /\ m = n)
    <3>1. rateState'[q][m] = rateState[q][m] /\ rateState[q][m].count \in Nat
      BY <2>2 DEF Limiter, Entry
    <3>2. Awaited(q, m) \in SUBSET Logins /\ Awaited(q, m)' \in SUBSET Awaited(q, m)
      BY DEF Awaited
    <3>3. /\ Cardinality(Awaited(q, m)') <= Cardinality(Awaited(q, m))
          /\ Cardinality(Awaited(q, m)') \in Nat /\ Cardinality(Awaited(q, m)) \in Nat
          /\ Cardinality(Logins) \in Nat
      <4>1. IsFiniteSet(Awaited(q, m)) /\ Cardinality(Awaited(q, m)) \in Nat
            /\ Cardinality(Logins) \in Nat
        BY <3>2, AwaitedAreLogins
      <4>2. IsFiniteSet(Awaited(q, m)') /\ Cardinality(Awaited(q, m)') <= Cardinality(Awaited(q, m))
        BY <3>2, <4>1, FS_Subset
      <4>. QED BY <4>1, <4>2, FS_CardinalityType
    <3>4. /\ ~rateState[q][m].locked => rateState[q][m].count < MaxFailed
          /\ rateState[q][m].count + Cardinality(Awaited(q, m)) <= MaxFailed + Cardinality(Logins)
      BY DEF Limiter
    <3>. QED BY <3>1, <3>3, <3>4 DEF AccountsAssumption
  <2>. QED BY <2>1, <2>2
<1>. QED BY <1>1, <1>2 DEF Limiter

LEMMA EntryCleared ==
  ASSUME AccountsAssumption, Limiter, NEW r \in Routes, NEW n \in Names, Cleared(r, n),
         \A q \in Routes, m \in Names : Awaited(q, m)' \subseteq Awaited(q, m)
  PROVE  Limiter'
<1>1. Awaited(r, n)' \in SUBSET Logins
  BY DEF Awaited
<1>2. NoEntry.count + Cardinality(Awaited(r, n)') <= MaxFailed + Cardinality(Logins)
  BY <1>1, AwaitedAreLogins, NoEntryIsAnEntry DEF AccountsAssumption
<1>3. 0 < MaxFailed
  BY DEF AccountsAssumption
<1>. QED BY <1>2, <1>3, EntryBecomes, NoEntryIsAnEntry DEF Cleared

\* What recordFailedAttempt makes of an entry.
LEMMA FailedEntry ==
  ASSUME AccountsAssumption, Limiter, NEW r \in Routes, NEW n \in Names, Failed(r, n)
  PROVE  \E e \in Entry : /\ rateState' = [rateState EXCEPT ![r][n] = e]
                          /\ ~e.locked => e.count < MaxFailed
                          /\ e.count \in Nat /\ rateState[r][n].count \in Nat
                          /\ e.count <= rateState[r][n].count + 1
                          /\ ~rateState[r][n].locked => e.count <= MaxFailed
<1>. DEFINE was == rateState[r][n]
            now == Current(r, n)
            over == now.count + 1 >= MaxFailed
            e == [count |-> now.count + 1, open |-> TRUE, locked |-> over]
<1>1. was \in Entry /\ (~was.locked => was.count < MaxFailed)
  BY DEF Limiter
<1>2. now.count \in Nat /\ now.count <= was.count /\ was.count \in Nat
  BY <1>1, NoEntryIsAnEntry DEF Current, Entry
<1>3. rateState' = [rateState EXCEPT ![r][n] = e]
  BY DEF Failed
<1>. HIDE DEF was, now
<1>4. e \in Entry /\ e.count = now.count + 1 /\ (~e.locked => ~(now.count + 1 >= MaxFailed))
  <2>1. over \in BOOLEAN
    OBVIOUS
  <2>. HIDE DEF over
  <2>2. e \in Entry /\ e.count = now.count + 1
    BY <1>2, <2>1 DEF Entry
  <2>3. e.locked = over
    BY Zenon
  <2>. HIDE DEF e
  <2>. QED BY <2>2, <2>3, Zenon DEF over
<1>5. /\ ~e.locked => e.count < MaxFailed
      /\ e.count <= was.count + 1
      /\ ~was.locked => e.count <= MaxFailed
  BY <1>1, <1>2, <1>4 DEF AccountsAssumption
<1>. HIDE DEF e
<1>6. e.count \in Nat
  BY <1>2, <1>4
<1>. QED BY <1>2, <1>3, <1>4, <1>5, <1>6 DEF was

\* An attempt fails that was checked in the same turn.
LEMMA FailedAtOnce ==
  ASSUME AccountsAssumption, Limiter, NEW r \in Routes, NEW n \in Names,
         NotLimited(r, n), Failed(r, n), logins' = logins
  PROVE  Limiter'
<1>1. PICK e \in Entry : /\ rateState' = [rateState EXCEPT ![r][n] = e]
                         /\ ~e.locked => e.count < MaxFailed
                         /\ e.count \in Nat /\ rateState[r][n].count \in Nat
                         /\ e.count <= rateState[r][n].count + 1
                         /\ ~rateState[r][n].locked => e.count <= MaxFailed
  BY FailedEntry
<1>2. \A q \in Routes, m \in Names : Awaited(q, m)' = Awaited(q, m)
  BY DEF Awaited
<1>3. Awaited(r, n)' \in SUBSET Logins
  BY DEF Awaited
<1>4. e.count + Cardinality(Awaited(r, n)') <= MaxFailed + Cardinality(Logins)
  BY <1>1, <1>3, AwaitedAreLogins DEF NotLimited, AccountsAssumption
<1>. QED BY <1>1, <1>2, <1>4, EntryBecomes

LEMMA LimiterIsKept ==
  ASSUME AccountsAssumption, Limiter, rateState' = rateState,
         \A q \in Routes, m \in Names : Awaited(q, m)' \subseteq Awaited(q, m)
  PROVE  Limiter'
<1>1. ASSUME NEW q \in Routes, NEW m \in Names
      PROVE  rateState[q][m].count + Cardinality(Awaited(q, m)') <= MaxFailed + Cardinality(Logins)
  <2>1. Awaited(q, m) \in SUBSET Logins /\ Awaited(q, m)' \in SUBSET Awaited(q, m)
    BY DEF Awaited
  <2>2. /\ IsFiniteSet(Awaited(q, m)) /\ Cardinality(Awaited(q, m)) \in Nat
        /\ Cardinality(Logins) \in Nat
    BY <2>1, AwaitedAreLogins
  <2>3. /\ IsFiniteSet(Awaited(q, m)')
        /\ Cardinality(Awaited(q, m)') <= Cardinality(Awaited(q, m))
    BY <2>1, <2>2, FS_Subset
  <2>4. Cardinality(Awaited(q, m)') \in Nat
    BY <2>3, FS_CardinalityType
  <2>5. /\ rateState[q][m].count \in Nat
        /\ rateState[q][m].count + Cardinality(Awaited(q, m)) <= MaxFailed + Cardinality(Logins)
    BY DEF Limiter, Entry
  <2>. QED BY <2>2, <2>3, <2>4, <2>5 DEF AccountsAssumption
<1>. QED BY <1>1 DEF Limiter

\* A directory login was checked: one more may fail, and no more than there are logins.
LEMMA StartKeepsLimiter ==
  ASSUME AccountsAssumption, Limiter, NEW l \in Logins, NEW n \in Names, StartLogin(l, n)
  PROVE  Limiter'
<1>1. rateState' = rateState /\ rateState["auth/login"][n].count < MaxFailed
  BY DEF StartLogin, NotLimited, Limiter, Routes
<1>2. ASSUME NEW q \in Routes, NEW m \in Names
      PROVE  rateState[q][m].count + Cardinality(Awaited(q, m)') <= MaxFailed + Cardinality(Logins)
  <2>1. rateState[q][m].count \in Nat
    BY DEF Limiter, Entry
  <2>2. CASE q = "auth/login" /\ m = n
    <3>1. Awaited(q, m)' \in SUBSET Logins
      BY DEF Awaited
    <3>. QED BY <1>1, <2>1, <2>2, <3>1, AwaitedAreLogins DEF AccountsAssumption
  <2>3. CASE ~(q = "auth/login" /\ m = n)
    <3>1. Awaited(q, m)' \in SUBSET Awaited(q, m) /\ Awaited(q, m) \in SUBSET Logins
      BY <2>3 DEF Awaited, StartLogin
    <3>2. /\ IsFiniteSet(Awaited(q, m)) /\ Cardinality(Awaited(q, m)) \in Nat
          /\ Cardinality(Logins) \in Nat
      BY <3>1, AwaitedAreLogins
    <3>3. /\ IsFiniteSet(Awaited(q, m)')
          /\ Cardinality(Awaited(q, m)') <= Cardinality(Awaited(q, m))
      BY <3>1, <3>2, FS_Subset
    <3>4. Cardinality(Awaited(q, m)') \in Nat
      BY <3>3, FS_CardinalityType
    <3>5. rateState[q][m].count + Cardinality(Awaited(q, m)) <= MaxFailed + Cardinality(Logins)
      BY DEF Limiter
    <3>. QED BY <2>1, <3>2, <3>3, <3>4, <3>5 DEF AccountsAssumption
  <2>. QED BY <2>2, <2>3
<1>. QED BY <1>1, <1>2 DEF Limiter

\* What an awaited login counts, it is no longer awaited for.
LEMMA RefusalKeepsLimiter ==
  ASSUME AccountsAssumption, Limiter, logins \in [Logins -> LoginRow \cup {NoLogin}],
         NEW l \in Logins, RefuseLogin(l)
  PROVE  Limiter'
<1>. DEFINE r == "auth/login"
<1>0. PICK n : n = logins[l].name
  OBVIOUS
<1>1. n \in Names /\ r \in Routes /\ Failed(r, n)
  BY <1>0 DEF RefuseLogin, LoginRow, Routes
<1>2. /\ Awaited(r, n)' = Awaited(r, n) \ {l} /\ l \in Awaited(r, n)
      /\ Awaited(r, n) \in SUBSET Logins
  <2>1. logins[l] # NoLogin /\ logins' = [logins EXCEPT ![l] = NoLogin]
    BY DEF RefuseLogin
  <2>2. \A k \in Logins : k # l => logins'[k] = logins[k]
    BY <2>1
  <2>3. logins'[l] = NoLogin
    BY <2>1
  <2>. HIDE DEF NoLogin
  <2>. QED BY <1>0, <2>1, <2>2, <2>3 DEF Awaited
<1>3. \A q \in Routes, m \in Names : Awaited(q, m)' \subseteq Awaited(q, m)
  BY DEF Awaited, RefuseLogin
<1>. HIDE DEF r
<1>4. PICK e \in Entry : /\ rateState' = [rateState EXCEPT ![r][n] = e]
                         /\ ~e.locked => e.count < MaxFailed
                         /\ e.count \in Nat /\ rateState[r][n].count \in Nat
                         /\ e.count <= rateState[r][n].count + 1
                         /\ ~rateState[r][n].locked => e.count <= MaxFailed
  BY <1>1, FailedEntry
<1>5. /\ IsFiniteSet(Awaited(r, n)) /\ Cardinality(Awaited(r, n)) \in Nat
      /\ Cardinality(Logins) \in Nat
  BY <1>2, AwaitedAreLogins
<1>6. Cardinality(Awaited(r, n) \ {l}) = Cardinality(Awaited(r, n)) - 1
  BY <1>2, <1>5, FS_RemoveElement
<1>7. Cardinality(Awaited(r, n)') = Cardinality(Awaited(r, n)) - 1
  BY <1>2, <1>6, Zenon
<1>8. rateState[r][n].count + Cardinality(Awaited(r, n)) <= MaxFailed + Cardinality(Logins)
  BY <1>1 DEF Limiter
<1>9. e.count + Cardinality(Awaited(r, n)') <= MaxFailed + Cardinality(Logins)
  BY <1>4, <1>5, <1>7, <1>8 DEF AccountsAssumption
<1>. QED BY <1>1, <1>3, <1>4, <1>9, EntryBecomes

LEMMA WindowKeepsLimiter ==
  ASSUME AccountsAssumption, Limiter, NEW r \in Routes, NEW n \in Names, WindowEnds(r, n)
  PROVE  Limiter'
<1>1. \A q \in Routes, m \in Names : Awaited(q, m)' = Awaited(q, m)
  BY DEF Awaited, WindowEnds
<1>2. CASE rateState[r][n].locked
  <2>. DEFINE was == rateState[r][n]
              e == [was EXCEPT !.open = FALSE]
  <2>1. was \in Entry /\ was.locked
    BY <1>2 DEF Limiter
  <2>2. rateState' = [rateState EXCEPT ![r][n] = e]
    BY <1>2 DEF WindowEnds
  <2>3. was.count + Cardinality(Awaited(r, n)) <= MaxFailed + Cardinality(Logins)
    BY DEF Limiter
  <2>. HIDE DEF was
  <2>4. e \in Entry /\ e.count = was.count /\ e.locked = was.locked
    BY <2>1 DEF Entry
  <2>. HIDE DEF e
  <2>5. e.count + Cardinality(Awaited(r, n)') <= MaxFailed + Cardinality(Logins)
    BY <1>1, <2>3, <2>4
  <2>6. ~e.locked => e.count < MaxFailed
    BY <2>1, <2>4, Zenon
  <2>. QED BY <1>1, <2>2, <2>4, <2>5, <2>6, EntryBecomes
<1>3. CASE ~rateState[r][n].locked
  <2>1. Cleared(r, n)
    <3>1. rateState' = [rateState EXCEPT ![r] = [rateState[r] EXCEPT ![n] =
            IF rateState[r][n].locked THEN [rateState[r][n] EXCEPT !.open = FALSE] ELSE NoEntry]]
      BY DEF WindowEnds
    <3>2. (IF rateState[r][n].locked THEN [rateState[r][n] EXCEPT !.open = FALSE]
           ELSE NoEntry) = NoEntry
      BY <1>3
    <3>. HIDE DEF NoEntry
    <3>. QED BY <3>1, <3>2, Zenon DEF Cleared
  <2>. QED BY <1>1, <2>1, EntryCleared
<1>. QED BY <1>2, <1>3

-----------------------------------------------------------------------------
(* Accounts that a login may touch.                                        *)

\* What a suspended login has read of its user stays true: local accounts do not come
\* from the directory, and users are never deleted.
UsersInv ==
  /\ users \in [Names -> UserRow \cup {NoUser}]
  /\ directory \in [Names -> Roles]
  /\ logins \in [Logins -> LoginRow \cup {NoLogin}]
  /\ \A l \in Logins : logins[l] # NoLogin /\ logins[l].known =>
       users[logins[l].name].source = "ldap"

AccountsInv == Limiter /\ UsersInv

LocalKept ==
  \A n \in Names : users[n].source = "local" =>
    users'[n].source = "local" /\ users'[n].role = users[n].role

LEMMA KnownUsers ==
  ASSUME UsersInv, NEW n \in Names
  PROVE  /\ Known(n) <=> users[n] \in UserRow
         /\ Known(n) <=> users[n].source \in {"local", "ldap"}
BY DEF UsersInv, Known, UserRow, NoUser

\* A user keeps its source, and a local one its role.
LEMMA UserBecomes ==
  ASSUME UsersInv, NEW n \in Names, NEW row \in UserRow,
         users' = [users EXCEPT ![n] = row],
         Known(n) => row.source = users[n].source,
         users[n].source = "local" => row.role = users[n].role,
         UNCHANGED directory,
         \A l \in Logins : logins'[l] \in {logins[l], NoLogin},
         logins' \in [Logins -> LoginRow \cup {NoLogin}]
  PROVE  UsersInv' /\ LocalKept
<1>1. users' \in [Names -> UserRow \cup {NoUser}]
  BY DEF UsersInv
<1>2. LocalKept
  BY KnownUsers DEF UsersInv, LocalKept
<1>3. ASSUME NEW l \in Logins, logins'[l] # NoLogin, logins'[l].known
      PROVE  users'[logins'[l].name].source = "ldap"
  <2>1. logins'[l] = logins[l]
    BY <1>3
  <2>2. logins[l] \in LoginRow /\ users[logins[l].name].source = "ldap" /\ logins[l].name \in Names
    BY <1>3, <2>1 DEF UsersInv, LoginRow
  <2>3. CASE logins[l].name = n
    BY <2>1, <2>2, <2>3, KnownUsers DEF UsersInv
  <2>4. CASE logins[l].name # n
    BY <2>1, <2>2, <2>4 DEF UsersInv
  <2>. QED BY <2>3, <2>4
<1>. QED BY <1>1, <1>2, <1>3 DEF UsersInv

LEMMA LoginBecomes ==
  ASSUME UsersInv, NEW l \in Logins, NEW login \in LoginRow,
         logins' = [logins EXCEPT ![l] = login], UNCHANGED <<users, directory>>,
         login.known => users[login.name].source = "ldap"
  PROVE  UsersInv' /\ LocalKept
<1>1. ASSUME NEW k \in Logins, logins'[k] # NoLogin, logins'[k].known
      PROVE  users[logins'[k].name].source = "ldap"
  BY <1>1 DEF UsersInv
<1>2. logins' \in [Logins -> LoginRow \cup {NoLogin}]
  BY DEF UsersInv
<1>. QED BY <1>1, <1>2 DEF UsersInv, LocalKept

LEMMA UsersAreKept ==
  ASSUME UsersInv, UNCHANGED users, directory' \in [Names -> Roles],
         \A l \in Logins : logins'[l] \in {logins[l], NoLogin},
         logins' \in [Logins -> LoginRow \cup {NoLogin}]
  PROVE  UsersInv' /\ LocalKept
<1>1. ASSUME NEW l \in Logins, logins'[l] # NoLogin, logins'[l].known
      PROVE  users[logins'[l].name].source = "ldap"
  BY <1>1 DEF UsersInv
<1>. QED BY <1>1 DEF UsersInv, LocalKept

\* A login that is over.
LEMMA LoginEnds ==
  ASSUME UsersInv, NEW l \in Logins, logins' = [logins EXCEPT ![l] = NoLogin]
  PROVE  /\ \A k \in Logins : logins'[k] \in {logins[k], NoLogin}
         /\ logins' \in [Logins -> LoginRow \cup {NoLogin}]
         /\ \A q \in Routes, m \in Names : Awaited(q, m)' \subseteq Awaited(q, m)
BY DEF UsersInv, Awaited

LEMMA LoginsStay ==
  ASSUME UsersInv, logins' = logins
  PROVE  /\ \A k \in Logins : logins'[k] \in {logins[k], NoLogin}
         /\ logins' \in [Logins -> LoginRow \cup {NoLogin}]
         /\ \A q \in Routes, m \in Names : Awaited(q, m)' \subseteq Awaited(q, m)
BY DEF UsersInv, Awaited

LEMMA AccountsStep ==
  ASSUME AccountsAssumption, AccountsInv, [AccountsNext]_accountVars
  PROVE  AccountsInv' /\ LocalKept
<1>. USE AccountsAssumption DEF AccountsInv
<1>0. /\ "auth/login" \in Routes /\ "agents/enroll" \in Routes
      /\ directory \in [Names -> Roles]
  BY DEF Routes, UsersInv
<1>1. ASSUME NEW n \in Names, NEW role \in Roles, NEW password \in BOOLEAN,
             CreateLocalUser(n, role, password)
      PROVE  AccountsInv' /\ LocalKept
  <2>. DEFINE row == [source |-> "local", role |-> role, password |-> password, repo |-> FALSE]
  <2>1. row \in UserRow /\ row.source = "local"
    BY DEF UserRow
  <2>2. /\ users' = [users EXCEPT ![n] = row] /\ ~Known(n) /\ rateState' = rateState
        /\ UNCHANGED <<directory, logins>>
    BY <1>1 DEF CreateLocalUser
  <2>. HIDE DEF row
  <2>3. users[n].source # "local"
    BY <2>2, KnownUsers
  <2>. QED BY <2>1, <2>2, <2>3, LoginsStay, UserBecomes, LimiterIsKept
<1>2. ASSUME NEW n \in Names, EnrollAgent(n)
      PROVE  AccountsInv' /\ LocalKept
  <2>. DEFINE found == [users[n] EXCEPT !.repo = TRUE]
              made == [source |-> "local", role |-> "agent", password |-> FALSE, repo |-> TRUE]
  <2>1. /\ UNCHANGED <<directory, logins>> /\ Cleared("agents/enroll", n)
        /\ Known(n) => users' = [users EXCEPT ![n] = found]
        /\ ~Known(n) => users' = [users EXCEPT ![n] = made]
    BY <1>2 DEF EnrollAgent
  <2>2. Limiter'
    BY <1>0, <2>1, LoginsStay, EntryCleared
  <2>3. Known(n) => found \in UserRow /\ found.source = users[n].source /\ found.role = users[n].role
    BY KnownUsers DEF UserRow
  <2>4. made \in UserRow
    BY DEF UserRow, AccountsAssumption
  <2>5. ~Known(n) => users[n].source # "local"
    BY KnownUsers
  <2>. HIDE DEF found, made
  <2>6. CASE Known(n)
    BY <2>1, <2>2, <2>3, <2>6, LoginsStay, UserBecomes
  <2>7. CASE ~Known(n)
    BY <2>1, <2>2, <2>4, <2>5, <2>7, LoginsStay, UserBecomes
  <2>. QED BY <2>6, <2>7
<1>3. ASSUME NEW n \in Names, SetPassword(n)
      PROVE  AccountsInv' /\ LocalKept
  <2>. DEFINE row == [users[n] EXCEPT !.password = TRUE]
  <2>1. row \in UserRow /\ row.source = users[n].source /\ row.role = users[n].role
    BY <1>3, KnownUsers DEF SetPassword, UserRow
  <2>2. /\ users' = [users EXCEPT ![n] = row] /\ rateState' = rateState
        /\ UNCHANGED <<directory, logins>>
    BY <1>3 DEF SetPassword, UsersInv
  <2>. HIDE DEF row
  <2>. QED BY <2>1, <2>2, LoginsStay, UserBecomes, LimiterIsKept
<1>4. ASSUME NEW n \in Names, NEW role \in Roles, Regroup(n, role)
      PROVE  AccountsInv' /\ LocalKept
  <2>1. /\ directory' \in [Names -> Roles] /\ rateState' = rateState
        /\ UNCHANGED <<users, logins>>
    BY <1>0, <1>4 DEF Regroup
  <2>. QED BY <2>1, LoginsStay, UsersAreKept, LimiterIsKept
<1>5. ASSUME NEW n \in Names, \/ WrongSecret(n) /\ UNCHANGED logins
                              \/ WrongPassword(n) /\ UNCHANGED logins
      PROVE  AccountsInv' /\ LocalKept
  <2>1. /\ \E r \in Routes : NotLimited(r, n) /\ Failed(r, n)
        /\ UNCHANGED <<users, directory, logins>>
    BY <1>0, <1>5 DEF WrongSecret, WrongPassword
  <2>. QED BY <1>0, <2>1, FailedAtOnce, LoginsStay, UsersAreKept
<1>6. ASSUME NEW n \in Names, LocalLogin(n)
      PROVE  AccountsInv' /\ LocalKept
  <2>1. Cleared("auth/login", n) /\ UNCHANGED <<users, directory, logins>>
    BY <1>6 DEF LocalLogin
  <2>. QED BY <1>0, <2>1, EntryCleared, LoginsStay, UsersAreKept
<1>7. ASSUME NEW n \in Names, NEW r \in Routes, WindowEnds(r, n) \/ LockEnds(r, n)
      PROVE  AccountsInv' /\ LocalKept
  <2>1. UNCHANGED <<users, directory, logins>>
    BY <1>7 DEF WindowEnds, LockEnds
  <2>2. Limiter'
    BY <1>7, <2>1, LoginsStay, WindowKeepsLimiter, EntryCleared DEF LockEnds
  <2>. QED BY <1>0, <2>1, <2>2, LoginsStay, UsersAreKept
<1>8. ASSUME NEW n \in Names, NEW l \in Logins, StartLogin(l, n)
      PROVE  AccountsInv' /\ LocalKept
  <2>. DEFINE login == [name |-> n, known |-> Known(n), asked |-> FALSE, role |-> DefaultRole]
  <2>1. Known(n) \in BOOLEAN
    BY DEF Known
  <2>2. login \in LoginRow
    BY <1>0, <2>1 DEF LoginRow, AccountsAssumption
  <2>3. logins' = [logins EXCEPT ![l] = login] /\ UNCHANGED <<users, directory>>
    BY <1>8 DEF StartLogin
  <2>4. Known(n) => users[n].source = "ldap"
    BY <1>8, KnownUsers DEF StartLogin, ByDirectory
  <2>5. login.known => users[login.name].source = "ldap"
    BY <2>4
  <2>. HIDE DEF login
  <2>. QED BY <1>8, <2>2, <2>3, <2>5, LoginBecomes, StartKeepsLimiter
<1>9. ASSUME NEW l \in Logins, ReadGroups(l) \/ GroupsFail(l)
      PROVE  AccountsInv' /\ LocalKept
  <2>0. PICK was : was = logins[l]
    OBVIOUS
  <2>1. was \in LoginRow /\ was # NoLogin /\ (was.known => users[was.name].source = "ldap")
    BY <1>9, <2>0 DEF ReadGroups, GroupsFail, UsersInv
  <2>2. /\ UNCHANGED <<users, directory, rateState>>
        /\ \E role \in Roles : logins' = [logins EXCEPT ![l].asked = TRUE, ![l].role = role]
    <3>1. CASE ReadGroups(l)
      <4>1. directory[was.name] \in Roles
        BY <1>0, <2>1 DEF LoginRow
      <4>. QED BY <2>0, <3>1, <4>1 DEF ReadGroups
    <3>2. CASE GroupsFail(l)
      <4>1. was.role \in Roles
        BY <2>1 DEF LoginRow
      <4>2. logins' = [logins EXCEPT ![l].asked = TRUE, ![l].role = logins[l].role]
        BY <2>0, <2>1, <3>2 DEF GroupsFail, UsersInv, LoginRow
      <4>. QED BY <2>0, <3>2, <4>1, <4>2 DEF GroupsFail
    <3>. QED BY <1>9, <3>1, <3>2
  <2>3. PICK role \in Roles : logins' = [logins EXCEPT ![l].asked = TRUE, ![l].role = role]
    BY <2>2
  <2>4. PICK login : login = [was EXCEPT !.asked = TRUE, !.role = role]
    OBVIOUS
  <2>5. login \in LoginRow /\ login.known = was.known /\ login.name = was.name
    BY <2>1, <2>3, <2>4 DEF LoginRow
  <2>6. logins' = [logins EXCEPT ![l] = login]
    BY <2>0, <2>3, <2>4 DEF UsersInv
  <2>7. \A q \in Routes, m \in Names : Awaited(q, m)' \subseteq Awaited(q, m)
    BY <2>0, <2>1, <2>5, <2>6 DEF Awaited, UsersInv
  <2>8. Limiter'
    BY <2>2, <2>7, LimiterIsKept
  <2>. QED BY <2>1, <2>2, <2>5, <2>6, <2>8, LoginBecomes
<1>10. ASSUME NEW l \in Logins, FinishLogin(l)
      PROVE  AccountsInv' /\ LocalKept
  <2>0. PICK login, n : login = logins[l] /\ n = login.name
    OBVIOUS
  <2>1. /\ login \in LoginRow /\ n \in Names /\ login.role \in Roles /\ login.known \in BOOLEAN
        /\ login.known => users[n].source = "ldap"
        /\ logins' = [logins EXCEPT ![l] = NoLogin] /\ directory' = directory
    BY <1>10, <2>0 DEF FinishLogin, UsersInv, LoginRow
  <2>2. /\ \A k \in Logins : logins'[k] \in {logins[k], NoLogin}
        /\ logins' \in [Logins -> LoginRow \cup {NoLogin}]
        /\ \A q \in Routes, m \in Names : Awaited(q, m)' \subseteq Awaited(q, m)
    BY <2>1, LoginEnds
  <2>3. CASE ~login.known /\ Known(n)
    <3>1. UNCHANGED <<users, rateState>>
      BY <1>10, <2>0, <2>3 DEF FinishLogin
    <3>. QED BY <1>0, <2>1, <2>2, <3>1, LimiterIsKept, UsersAreKept
  <2>4. CASE login.known
    <3>. DEFINE row == [users[n] EXCEPT !.role = login.role]
    <3>1. users' = [users EXCEPT ![n] = row] /\ Cleared("auth/login", n)
      BY <1>10, <2>0, <2>4 DEF FinishLogin, Refreshed
    <3>2. users[n] \in UserRow
      BY <2>1, <2>4, KnownUsers
    <3>3. row \in UserRow /\ row.source = users[n].source
      BY <2>1, <3>2 DEF UserRow
    <3>. HIDE DEF row
    <3>4. Limiter'
      BY <1>0, <2>1, <2>2, <3>1, EntryCleared
    <3>. QED BY <2>1, <2>2, <2>4, <3>1, <3>3, <3>4, UserBecomes
  <2>5. CASE ~login.known /\ ~Known(n)
    <3>. DEFINE row == [source |-> "ldap", role |-> login.role, password |-> FALSE, repo |-> FALSE]
    <3>1. users' = [users EXCEPT ![n] = row] /\ Cleared("auth/login", n)
      BY <1>10, <2>0, <2>5 DEF FinishLogin
    <3>2. row \in UserRow
      BY <2>1 DEF UserRow
    <3>. HIDE DEF row
    <3>3. users[n].source # "local"
      BY <2>1, <2>5, KnownUsers
    <3>4. Limiter'
      BY <1>0, <2>1, <2>2, <3>1, EntryCleared
    <3>. QED BY <2>1, <2>2, <2>5, <3>1, <3>2, <3>3, <3>4, UserBecomes
  <2>. QED BY <2>3, <2>4, <2>5
<1>11. ASSUME NEW l \in Logins, RefuseLogin(l)
      PROVE  AccountsInv' /\ LocalKept
  <2>1. logins' = [logins EXCEPT ![l] = NoLogin] /\ UNCHANGED <<users, directory>>
    BY <1>11 DEF RefuseLogin
  <2>2. Limiter'
    BY <1>11, RefusalKeepsLimiter DEF UsersInv
  <2>. QED BY <1>0, <2>1, <2>2, LoginEnds, UsersAreKept
<1>12. ASSUME ServerRestart
      PROVE  AccountsInv' /\ LocalKept
  <2>1. /\ \A k \in Logins : logins'[k] \in {logins[k], NoLogin}
        /\ logins' \in [Logins -> LoginRow \cup {NoLogin}]
        /\ UNCHANGED <<users, directory>>
        /\ rateState' = [r \in Routes |-> [n \in Names |-> NoEntry]]
    BY <1>12 DEF ServerRestart
  <2>2. Limiter'
    <3>1. \A q \in Routes, m \in Names : Awaited(q, m)' = {}
      BY <1>12 DEF ServerRestart, Awaited
    <3>2. Cardinality({}) = 0 /\ Cardinality(Logins) \in Nat /\ 0 < MaxFailed
      BY FS_EmptySet, FS_CardinalityType DEF AccountsAssumption
    <3>3. \A q \in Routes, m \in Names : Cardinality(Awaited(q, m)') = 0
      BY <3>1, <3>2, Zenon
    <3>. QED BY <2>1, <3>2, <3>3, NoEntryIsAnEntry DEF Limiter, AccountsAssumption
  <2>. QED BY <1>0, <2>1, <2>2, UsersAreKept
<1>13. CASE UNCHANGED <<users, directory, rateState, logins>>
  BY <1>0, <1>13, LoginsStay, UsersAreKept, LimiterIsKept
<1>14. (\/ \E n \in Names : \/ CreateApiKey(n) \/ RevokeTokens(n) \/ Expire(n) \/ PresentExpired(n)
                            \/ \E kind \in {"valid", "expired"} : RevokeApiKey(n, kind)
        \/ ToggleLdap
        \/ UNCHANGED accountVars) => UNCHANGED <<users, directory, rateState, logins>>
  BY DEF CreateApiKey, RevokeTokens, Expire, PresentExpired, RevokeApiKey, ToggleLdap, accountVars
<1>15. \A n \in Names : WrongSecret(n) \/ WrongPassword(n) => UNCHANGED logins
  BY DEF WrongSecret, WrongPassword
<1>. QED BY <1>1, <1>2, <1>3, <1>4, <1>5, <1>6, <1>7, <1>8, <1>9, <1>10, <1>11, <1>12, <1>13,
            <1>14, <1>15 DEF AccountsNext

(***************************************************************************)
(* Overlapping directory logins are contained: the attempts that pass the  *)
(* limiter before it locks exceed its limit by the suspended logins at     *)
(* most, and no login or enrollment takes over a local account or changes  *)
(* its role (POST /auth/login and POST /agents/enroll in routes/auth.ts).  *)
(***************************************************************************)
THEOREM LoginsStayContained == AccountsSpec => LoginsAreContained
<1>. USE AccountsAssumption
<1>1. AccountsInit => AccountsInv
  <2>. SUFFICES ASSUME AccountsInit PROVE AccountsInv
    OBVIOUS
  <2>1. UsersInv
    BY DEF AccountsInit, UsersInv, AccountsAssumption
  <2>2. \A q \in Routes, m \in Names : Awaited(q, m) = {}
    BY DEF AccountsInit, Awaited
  <2>3. Cardinality({}) = 0 /\ Cardinality(Logins) \in Nat /\ 0 < MaxFailed
    BY FS_EmptySet, FS_CardinalityType DEF AccountsAssumption
  <2>4. \A q \in Routes, m \in Names : Cardinality(Awaited(q, m)) = 0
    BY <2>2, <2>3, Zenon
  <2>5. Limiter
    BY <2>3, <2>4, NoEntryIsAnEntry DEF AccountsInit, Limiter, AccountsAssumption
  <2>. QED BY <2>1, <2>5 DEF AccountsInv
<1>2. AccountsInv /\ [AccountsNext]_accountVars => AccountsInv'
  BY AccountsStep
<1>3. AccountsInv /\ [AccountsNext]_accountVars =>
        [\A n \in Names : users[n].source = "local" =>
           users'[n].source = "local" /\ users'[n].role = users[n].role]_accountVars
  BY AccountsStep DEF LocalKept
<1>4. AccountsInv => FailuresAreBounded
  <2>. SUFFICES ASSUME AccountsInv, NEW r \in Routes, NEW n \in Names
                PROVE  rateState[r][n].count <= MaxFailed + Cardinality(Logins)
    BY DEF FailuresAreBounded
  <2>1. Awaited(r, n) \in SUBSET Logins
    BY DEF Awaited
  <2>. QED BY <2>1, AwaitedAreLogins DEF AccountsInv, Limiter, Entry, AccountsAssumption
<1>. QED BY <1>1, <1>2, <1>3, <1>4, PTL DEF AccountsSpec, LoginsAreContained, LocalRolesAreKept

-----------------------------------------------------------------------------
(* Backups and restores.                                                   *)

Snapshots == {Snapshot(n) : n \in 0..MaxWrites}
Running == [phase : {"copying", "copied"}, stamp : Stamps]

FilesTyped ==
  /\ up \in BOOLEAN /\ restoring \in BOOLEAN /\ stale \in BOOLEAN /\ halfway \in BOOLEAN
  /\ database \in Snapshots \cup {Empty, Mixed}
  /\ journal \in Snapshots \cup {None}
  /\ files \in [Stamps -> Snapshots \cup {None, Empty, Torn}]
  /\ sums \in [Stamps -> Snapshots \cup {None, Empty, Torn}]
  /\ jobs \in [Jobs -> Running \cup {NoJob}]
  /\ completed \subseteq Stamps
  /\ clock \in 0..MaxClock /\ kills \in 0..MaxKills

\* A journal without its database is around only while a restore is at work or after one
\* that was killed, and then no backup is taken.
JournalsMatch ==
  /\ stale => journal # None
  /\ restoring => ~up /\ AllIdle
  /\ ~halfway => (stale => restoring) /\ database # Mixed
  /\ ~AllIdle => State \in Snapshots

\* Files are named after seconds that have begun, and checksums are of files.
FilesArePast ==
  /\ \A s \in Stamps : (s > clock => files[s] = None) /\ (files[s] = None => sums[s] = None)
  /\ \A j \in Jobs : jobs[j] # NoJob =>
       jobs[j].stamp <= clock /\ (jobs[j].stamp = clock => files[clock] # None)

\* Backups of different seconds do not meet: each has its file to itself, unless it was pruned.
FilesAreOwn ==
  \A j \in Jobs : jobs[j] # NoJob =>
    /\ sums[jobs[j].stamp] = None
    /\ jobs[j].phase = "copying" => files[jobs[j].stamp] \in {Empty, None}
    /\ jobs[j].phase = "copied" => files[jobs[j].stamp] \in Snapshots \cup {None}
    /\ \A i \in Jobs : jobs[i] # NoJob /\ jobs[i].stamp = jobs[j].stamp => i = j

BackupsInv ==
  /\ FilesTyped /\ JournalsMatch /\ FilesArePast
  /\ shared = {} => FilesAreOwn /\ (completed # {} => \E s \in Stamps : Restorable(s))

Unfinished == {s \in Stamps : files[s] # None /\ ~Restorable(s)}

\* As long as no two backups started in the same second, one that is about to prune
\* finds fewer than Keep unfinished files.
FewAreUnfinished ==
  shared = {} /\ (\E j \in Jobs : jobs[j].phase = "copied") => Cardinality(Unfinished) < Keep

\* As many files as one kill can leave unfinished.
Widest ==
  IF Cardinality(ServerJobs) >= Cardinality(CliJobs) THEN Cardinality(ServerJobs)
  ELSE Cardinality(CliJobs)

\* Enough files are kept for what can be running and what kills can leave behind.
KeepIsEnough == Cardinality(Jobs) + MaxKills * Widest <= Keep

Copying(js) == {jobs[j].stamp : j \in {i \in js : jobs[i].phase = "copying"}}

\* Unfinished files are being written or were left by a kill.
UnfinishedAreCounted ==
  shared = {} =>
    \E left \in SUBSET Stamps :
      Cardinality(left) <= kills * Widest /\ Unfinished \subseteq left \cup Copying(Jobs)

LEMMA Kinds ==
  /\ None.is = "none" /\ Empty.is = "empty" /\ Torn.is = "torn" /\ Mixed.is = "mixed"
  /\ \A x \in Snapshots : x.is = "snapshot"
BY DEF None, Empty, Torn, Mixed, Snapshots, Snapshot

LEMMA JobKinds ==
  ASSUME FilesTyped, NEW j \in Jobs
  PROVE  /\ jobs[j] # NoJob <=> jobs[j] \in Running
         /\ jobs[j] # NoJob <=> jobs[j].phase \in {"copying", "copied"}
         /\ jobs[j] # NoJob => jobs[j].stamp \in Stamps
BY DEF FilesTyped, Running, NoJob

LEMMA StampsAreNumbers ==
  ASSUME BackupsAssumption
  PROVE  /\ Stamps \subseteq Nat /\ IsFiniteSet(Stamps)
         /\ \A S \in SUBSET Stamps : IsFiniteSet(S) /\ Cardinality(S) \in Nat
         /\ \A S \in SUBSET Stamps : \A T \in SUBSET S : Cardinality(T) <= Cardinality(S)
<1>1. IsFiniteSet(Stamps) /\ Stamps \subseteq Nat
  BY FS_Interval DEF Stamps, BackupsAssumption
<1>2. \A S \in SUBSET Stamps : IsFiniteSet(S)
  BY <1>1, FS_Subset
<1>. QED BY <1>1, <1>2, FS_Subset, FS_CardinalityType

LEMMA NewestFirst ==
  ASSUME BackupsAssumption, NEW S \in SUBSET Stamps, S # {}
  PROVE  \E r \in S : \A t \in S : ~(t > r)
<1>. DEFINE R == OpToRel(<, Nat)
            ages == {MaxClock - s : s \in S}
<1>1. \A s \in S : s \in Nat /\ MaxClock - s \in Nat
  BY DEF Stamps, BackupsAssumption
<1>2. ages \subseteq Nat /\ ages # {}
  BY <1>1
<1>3. IsWellFoundedOn(R, Nat)
  BY NatLessThanWellFounded
<1>4. \A x, y \in Nat : x < y => <<x, y>> \in R
  BY DEF OpToRel
<1>. HIDE DEF R
<1>5. PICK age \in ages : \A a \in ages : ~(<<a, age>> \in R)
  BY <1>2, <1>3, WFMin
<1>6. PICK r \in S : age = MaxClock - r
  BY <1>5
<1>7. ASSUME NEW t \in S
      PROVE  ~(t > r)
  <2>1. ~(MaxClock - t < MaxClock - r)
    BY <1>1, <1>4, <1>5, <1>6
  <2>. QED BY <1>1, <2>1 DEF BackupsAssumption
<1>. QED BY <1>7

\* A file that does not change stays restorable.
LEMMA StaysRestorable ==
  ASSUME NEW s \in Stamps, files'[s] = files[s], sums'[s] = sums[s]
  PROVE  Restorable(s)' <=> Restorable(s)
BY DEF Restorable, Verified

LEMMA AFreshCopy ==
  ASSUME NEW s \in Stamps, files[s] \in Snapshots, sums[s] = None
  PROVE  Restorable(s)
BY Kinds DEF Restorable, Verified

LEMMA UnfinishedFiles ==
  \A s \in Stamps : files[s] \in {None, Empty, Torn} => ~Restorable(s)
BY Kinds DEF Restorable

-----------------------------------------------------------------------------
(* What holds whichever backups meet.                                      *)

LEMMA CheckpointKeeps ==
  ASSUME FilesTyped, JournalsMatch, Checkpointed, up \/ ~AllIdle \/ ~restoring,
         ~halfway => ~stale
  PROVE  /\ database' \in Snapshots \cup {Empty, Mixed} /\ journal' = None /\ stale' = FALSE
         /\ State' = State
         /\ ~halfway => database' # Mixed
<1>1. journal' = None /\ stale' = FALSE /\ database' = State
  BY DEF Checkpointed
<1>2. State' = database'
  BY <1>1 DEF State
<1>3. State \in {database, journal, Mixed} /\ State # None
  BY Kinds DEF State, FilesTyped
<1>4. ~halfway => State # Mixed
  BY Kinds DEF State, FilesTyped, JournalsMatch
<1>. QED BY <1>1, <1>2, <1>3, <1>4 DEF FilesTyped

LEMMA AtRestWhenRestoring ==
  ASSUME JournalsMatch, FilesTyped
  PROVE  /\ up \/ ~AllIdle => ~restoring
         /\ (up \/ ~AllIdle) /\ ~halfway => ~stale
         /\ ~AllIdle => State \in Snapshots
BY DEF JournalsMatch

LEMMA DisconnectKeeps ==
  ASSUME FilesTyped, JournalsMatch, ~AllIdle, NEW j \in Jobs, Disconnect(j),
         UNCHANGED <<up, restoring, halfway>>
  PROVE  /\ database' \in Snapshots \cup {Empty, Mixed} /\ journal' \in Snapshots \cup {None}
         /\ stale' \in BOOLEAN
         /\ stale' => journal' # None
         /\ ~halfway => ~stale' /\ database' # Mixed
         /\ State' = State
<1>1. CASE Checkpointed
  BY <1>1, CheckpointKeeps, AtRestWhenRestoring
<1>2. CASE UNCHANGED <<database, journal, stale>>
  BY <1>2, AtRestWhenRestoring DEF FilesTyped, JournalsMatch, State
<1>. QED BY <1>1, <1>2 DEF Disconnect

\* Steps that touch no backup.
FilesStay == UNCHANGED <<files, sums, jobs, completed, shared, clock>>

LEMMA OtherSteps ==
  /\ Write \/ Checkpoint \/ StopServer \/ StartServer \/ RemoveJournal =>
       FilesStay /\ UNCHANGED kills
  /\ \A s \in Stamps : Restore(s) => FilesStay /\ UNCHANGED kills
  /\ UNCHANGED backupVars => FilesStay /\ UNCHANGED kills
  /\ KillRestore => FilesStay /\ kills' = kills + 1
BY DEF Restore, Write, Checkpoint, StopServer, StartServer, RemoveJournal, KillRestore, FilesStay,
   backupVars, history

\* What a kill does to files and jobs: files that were being written may be torn.
KillEffect(js) ==
  /\ kills < MaxKills /\ kills' = kills + 1
  /\ \E torn \in SUBSET Stamps :
       /\ files' = [s \in Stamps |-> IF s \in torn THEN Torn ELSE files[s]]
       /\ \A s \in torn :
            files[s] # None /\ \E j \in js : jobs[j].phase = "copying" /\ jobs[j].stamp = s
  /\ jobs' = [j \in Jobs |-> IF j \in js THEN NoJob ELSE jobs[j]]
  /\ UNCHANGED <<sums, restoring, completed, shared, halfway, clock, database, journal, stale>>

LEMMA Kills ==
  ASSUME FilesTyped, KillServer \/ KillCli
  PROVE  /\ \E js \in {ServerJobs, CliJobs} : KillEffect(js)
         /\ up' \in BOOLEAN /\ (up' => up)
<1>1. ASSUME NEW js \in {ServerJobs, CliJobs}, Killed(js)
      PROVE  /\ kills < MaxKills /\ kills' = kills + 1
             /\ \E torn \in SUBSET Stamps :
                  /\ files' = [s \in Stamps |-> IF s \in torn THEN Torn ELSE files[s]]
                  /\ \A s \in torn :
                       files[s] # None /\ \E j \in js : jobs[j].phase = "copying" /\ jobs[j].stamp = s
             /\ jobs' = [j \in Jobs |-> IF j \in js THEN NoJob ELSE jobs[j]]
  <2>. DEFINE copying == {j \in js : jobs[j].phase = "copying" /\ files[jobs[j].stamp] # None}
              writing == {jobs[j].stamp : j \in copying}
  <2>1. \A s \in writing :
          files[s] # None /\ \E j \in js : jobs[j].phase = "copying" /\ jobs[j].stamp = s
    OBVIOUS
  <2>2. writing \subseteq Stamps
    BY JobKinds DEF Jobs
  <2>3. PICK torn \in SUBSET writing :
          files' = [s \in Stamps |-> IF s \in torn THEN Torn ELSE files[s]]
    BY <1>1 DEF Killed
  <2>4. torn \in SUBSET Stamps
    BY <2>2
  <2>5. \A s \in torn :
          files[s] # None /\ \E j \in js : jobs[j].phase = "copying" /\ jobs[j].stamp = s
    BY <2>1
  <2>6. /\ kills < MaxKills /\ kills' = kills + 1
        /\ jobs' = [j \in Jobs |-> IF j \in js THEN NoJob ELSE jobs[j]]
    BY <1>1 DEF Killed
  <2>. HIDE DEF writing, copying
  <2>. QED BY <2>3, <2>4, <2>5, <2>6
<1>2. CASE KillServer
  <2>1. Killed(ServerJobs) /\ up' = FALSE
        /\ UNCHANGED <<sums, restoring, completed, shared, halfway, clock, database, journal, stale>>
    BY <1>2 DEF KillServer, history
  <2>. QED BY <1>1, <2>1 DEF KillEffect
<1>3. CASE KillCli
  <2>1. Killed(CliJobs) /\ up' = up
        /\ UNCHANGED <<sums, restoring, completed, shared, halfway, clock, database, journal, stale>>
    BY <1>3 DEF KillCli, history
  <2>. QED BY <1>1, <2>1 DEF KillEffect, FilesTyped
<1>. QED BY <1>2, <1>3

\* What the end of a backup does to its files: some are pruned.
FinishEffect(j, stamp, pruned) ==
  /\ stamp = jobs[j].stamp /\ stamp \in Stamps
  /\ jobs[j].phase = "copied" /\ files[stamp] # None
  /\ pruned = Pruned({s \in Stamps : files[s] # None})
  /\ files' = [s \in Stamps |-> IF s \in pruned THEN None ELSE files[s]]
  /\ sums' = [s \in Stamps |-> CASE s \in pruned -> None
                                 [] s \notin pruned /\ s = stamp -> files[stamp]
                                 [] OTHER -> sums[s]]
  /\ jobs' = [jobs EXCEPT ![j] = NoJob]
  /\ completed' = completed \cup {stamp}
  /\ Disconnect(j)
  /\ UNCHANGED <<up, restoring, shared, halfway, clock, kills>>

LEMMA Finishes ==
  ASSUME FilesTyped, NEW j \in Jobs, FinishBackup(j)
  PROVE  \E stamp, pruned : FinishEffect(j, stamp, pruned)
<1>. DEFINE stamp == jobs[j].stamp
            pruned == Pruned({s \in Stamps : files[s] # None})
<1>1. /\ jobs[j].phase = "copied" /\ files[stamp] # None
      /\ files' = [s \in Stamps |-> IF s \in pruned THEN None ELSE files[s]]
      /\ sums' = [s \in Stamps |-> IF s \in pruned THEN None
                                   ELSE [sums EXCEPT ![stamp] = files[stamp]][s]]
      /\ jobs' = [jobs EXCEPT ![j] = NoJob]
      /\ completed' = completed \cup {stamp}
      /\ Disconnect(j)
      /\ UNCHANGED <<up, restoring, shared, halfway, clock, kills>>
  BY DEF FinishBackup
<1>2. stamp \in Stamps
  BY <1>1, JobKinds
<1>. HIDE DEF pruned, stamp
<1>3. sums' = [s \in Stamps |-> CASE s \in pruned -> None
                                  [] s \notin pruned /\ s = stamp -> files[stamp]
                                  [] OTHER -> sums[s]]
  BY <1>1, <1>2 DEF FilesTyped
<1>4. stamp = jobs[j].stamp /\ pruned = Pruned({s \in Stamps : files[s] # None})
  BY DEF stamp, pruned
<1>. QED BY <1>1, <1>2, <1>3, <1>4 DEF FinishEffect

LEMMA TypedStep ==
  ASSUME BackupsAssumption, FilesTyped, JournalsMatch, [BackupsNext]_backupVars
  PROVE  FilesTyped'
<1>. USE BackupsAssumption
<1>0. 0..MaxClock \subseteq Nat /\ 0..MaxKills \subseteq Nat /\ 0..MaxWrites \subseteq Nat
  BY DEF BackupsAssumption
<1>1. ASSUME NEW j \in Jobs, StartBackup(j)
      PROVE  FilesTyped'
  <2>1. clock \in Stamps
    BY <1>1 DEF StartBackup, FilesTyped, Stamps, BackupsAssumption
  <2>2. [phase |-> "copying", stamp |-> clock] \in Running
    BY <2>1 DEF Running
  <2>. QED BY <1>1, <2>1, <2>2 DEF StartBackup, FilesTyped
<1>2. ASSUME NEW j \in Jobs, CopyDone(j)
      PROVE  FilesTyped'
  <2>1. jobs[j] \in Running /\ State \in Snapshots
    BY <1>2, JobKinds DEF CopyDone, JournalsMatch, AllIdle
  <2>2. [jobs[j] EXCEPT !.phase = "copied"] \in Running
    BY <2>1 DEF Running
  <2>3. jobs' = [jobs EXCEPT ![j] = [jobs[j] EXCEPT !.phase = "copied"]]
    BY <1>2 DEF CopyDone
  <2>4. files' \in [Stamps -> Snapshots \cup {None, Empty, Torn}]
    BY <1>2, <2>1 DEF CopyDone, FilesTyped
  <2>. QED BY <1>2, <2>2, <2>3, <2>4 DEF CopyDone, FilesTyped, history
<1>3. ASSUME NEW j \in Jobs, FinishBackup(j)
      PROVE  FilesTyped'
  <2>1. PICK stamp, pruned : FinishEffect(j, stamp, pruned)
    BY <1>3, Finishes
  <2>2. ~AllIdle
    BY <2>1, JobKinds DEF FinishEffect, AllIdle
  <2>3. /\ files' \in [Stamps -> Snapshots \cup {None, Empty, Torn}]
        /\ sums' \in [Stamps -> Snapshots \cup {None, Empty, Torn}]
    BY <2>1 DEF FinishEffect, FilesTyped
  <2>4. /\ database' \in Snapshots \cup {Empty, Mixed} /\ journal' \in Snapshots \cup {None}
        /\ stale' \in BOOLEAN
    BY <2>1, <2>2, DisconnectKeeps DEF FinishEffect
  <2>. QED BY <2>1, <2>3, <2>4 DEF FinishEffect, FilesTyped
<1>4. ASSUME NEW j \in Jobs, LoseBackup(j)
      PROVE  FilesTyped'
  <2>1. ~AllIdle
    BY <1>4, JobKinds DEF LoseBackup, AllIdle
  <2>2. /\ database' \in Snapshots \cup {Empty, Mixed} /\ journal' \in Snapshots \cup {None}
        /\ stale' \in BOOLEAN
    BY <1>4, <2>1, DisconnectKeeps DEF LoseBackup, history
  <2>. QED BY <1>4, <2>2 DEF LoseBackup, FilesTyped, history
<1>5. ASSUME NEW s \in Stamps, Restore(s)
      PROVE  FilesTyped'
  <2>1. files[s] \in Snapshots \cup {Empty}
    BY <1>5, Kinds DEF Restore, Verified, FilesTyped
  <2>. QED BY <1>5, <2>1 DEF Restore, FilesTyped, history
<1>6. ASSUME Write
      PROVE  FilesTyped'
  <2>1. State \in Snapshots
    BY <1>6, Kinds DEF Write, State, FilesTyped
  <2>2. State.writes + 1 \in 0..MaxWrites
    BY <1>6, <2>1 DEF Write, Snapshots, Snapshot, BackupsAssumption
  <2>3. journal' \in Snapshots
    BY <1>6, <2>2 DEF Write, Snapshots
  <2>. QED BY <1>6, <2>3 DEF Write, FilesTyped, history
<1>7. ASSUME Checkpoint \/ StopServer
      PROVE  FilesTyped'
  <2>1. /\ Checkpointed /\ up /\ UNCHANGED <<files, sums, jobs, restoring, history, clock, kills>>
        /\ up' \in BOOLEAN
    BY <1>7 DEF Checkpoint, StopServer, FilesTyped
  <2>2. database' \in Snapshots \cup {Empty, Mixed} /\ journal' = None /\ stale' = FALSE
    BY <2>1, CheckpointKeeps, AtRestWhenRestoring
  <2>. QED BY <2>1, <2>2 DEF FilesTyped, history
<1>8. ASSUME Tick
      PROVE  FilesTyped'
  BY <1>0, <1>8 DEF Tick, FilesTyped, history, BackupsAssumption
<1>9. ASSUME KillServer \/ KillCli
      PROVE  FilesTyped'
  <2>1. PICK js \in {ServerJobs, CliJobs} : KillEffect(js)
    BY <1>9, Kills
  <2>2. up' \in BOOLEAN
    BY <1>9, Kills
  <2>3. kills' \in 0..MaxKills
    BY <2>1 DEF KillEffect, FilesTyped, BackupsAssumption
  <2>. QED BY <2>1, <2>2, <2>3 DEF KillEffect, FilesTyped
<1>10. ASSUME RemoveJournal \/ KillRestore \/ StartServer
       PROVE  FilesTyped'
  <2>1. /\ UNCHANGED <<database, files, sums, jobs, completed, clock>>
        /\ up' \in BOOLEAN /\ restoring' \in BOOLEAN /\ halfway' \in BOOLEAN
        /\ stale' \in {stale, FALSE} /\ journal' \in {journal, None}
        /\ \/ kills' = kills
           \/ kills < MaxKills /\ kills' = kills + 1
    BY <1>10 DEF RemoveJournal, JournalRemoved, KillRestore, StartServer, FilesTyped, history
  <2>2. kills' \in 0..MaxKills
    BY <2>1 DEF FilesTyped, BackupsAssumption
  <2>. QED BY <2>1, <2>2 DEF FilesTyped
<1>11. CASE UNCHANGED backupVars
  BY <1>11 DEF FilesTyped, backupVars, history
<1>. QED BY <1>1, <1>2, <1>3, <1>4, <1>5, <1>6, <1>7, <1>8, <1>9, <1>10, <1>11 DEF BackupsNext

LEMMA JournalStep ==
  ASSUME BackupsAssumption, FilesTyped, FilesTyped', JournalsMatch, [BackupsNext]_backupVars
  PROVE  JournalsMatch'
<1>. USE BackupsAssumption
<1>s. UNCHANGED <<database, journal, stale>> => State' = State
  BY DEF State
<1>1. ASSUME NEW j \in Jobs, StartBackup(j)
      PROVE  JournalsMatch'
  <2>1. State \in Snapshots
    BY <1>1, Kinds DEF StartBackup, State, FilesTyped
  <2>. QED BY <1>1, <1>s, <2>1 DEF StartBackup, JournalsMatch
<1>2. ASSUME NEW j \in Jobs, CopyDone(j)
      PROVE  JournalsMatch'
  <2>1. ~AllIdle
    BY <1>2, JobKinds DEF CopyDone, AllIdle
  <2>. QED BY <1>2, <1>s, <2>1 DEF CopyDone, JournalsMatch, history
<1>3. ASSUME NEW j \in Jobs, Disconnect(j), jobs[j] # NoJob, UNCHANGED <<up, restoring, halfway>>
      PROVE  JournalsMatch'
  <2>1. ~AllIdle
    BY <1>3 DEF AllIdle
  <2>2. /\ stale' => journal' # None
        /\ ~halfway => ~stale' /\ database' # Mixed
        /\ State' = State
    BY <1>3, <2>1, DisconnectKeeps
  <2>. QED BY <1>3, <2>1, <2>2 DEF JournalsMatch
<1>4. ASSUME NEW j \in Jobs, FinishBackup(j) \/ LoseBackup(j)
      PROVE  JournalsMatch'
  BY <1>3, <1>4, JobKinds DEF FinishBackup, LoseBackup, history
<1>5. ASSUME NEW s \in Stamps, Restore(s)
      PROVE  JournalsMatch'
  <2>1. files[s] # Mixed
    BY <1>5, Kinds DEF Restore, Verified
  <2>2. AllIdle' /\ ~up /\ ~up'
    BY <1>5 DEF Restore, AllIdle
  <2>. QED BY <1>5, <2>1, <2>2 DEF Restore, JournalsMatch, history
<1>6. ASSUME Write
      PROVE  JournalsMatch'
  <2>1. /\ up /\ journal' \in Snapshots /\ State.is = "snapshot"
        /\ UNCHANGED <<database, stale, jobs, restoring, halfway, up>>
    BY <1>6, Kinds DEF Write, FilesTyped, history, Snapshot, None
  <2>2. ~stale
    BY <2>1, Kinds DEF State, JournalsMatch
  <2>3. State' = journal'
    BY <2>1, <2>2, Kinds DEF State
  <2>. QED BY <2>1, <2>2, <2>3 DEF JournalsMatch, AllIdle
<1>7. ASSUME Checkpoint \/ StopServer
      PROVE  JournalsMatch'
  <2>1. /\ Checkpointed /\ up /\ UNCHANGED <<jobs, restoring, halfway>> /\ (up' = up \/ AllIdle)
    BY <1>7 DEF Checkpoint, StopServer, history
  <2>2. /\ journal' = None /\ stale' = FALSE /\ State' = State
        /\ ~halfway => database' # Mixed
        /\ ~restoring
    BY <2>1, CheckpointKeeps, AtRestWhenRestoring
  <2>. QED BY <2>1, <2>2 DEF JournalsMatch, AllIdle
<1>8. ASSUME Tick
      PROVE  JournalsMatch'
  BY <1>8, <1>s DEF Tick, JournalsMatch, AllIdle, history
<1>9. ASSUME KillServer \/ KillCli
      PROVE  JournalsMatch'
  <2>1. PICK js \in {ServerJobs, CliJobs} : KillEffect(js)
    BY <1>9, Kills
  <2>2. up' => up
    BY <1>9, Kills
  <2>3. AllIdle => AllIdle'
    BY <2>1 DEF KillEffect, AllIdle
  <2>. QED BY <1>s, <2>1, <2>2, <2>3 DEF KillEffect, JournalsMatch
<1>10. ASSUME RemoveJournal
       PROVE  JournalsMatch'
  <2>1. AllIdle' /\ restoring' = FALSE /\ stale' = FALSE /\ UNCHANGED <<database, halfway>>
    BY <1>10 DEF RemoveJournal, JournalRemoved, JournalsMatch, AllIdle, history
  <2>. QED BY <2>1 DEF JournalsMatch
<1>11. ASSUME KillRestore
       PROVE  JournalsMatch'
  <2>1. AllIdle' /\ restoring' = FALSE /\ halfway' = TRUE /\ UNCHANGED <<stale, journal>>
    BY <1>11 DEF KillRestore, JournalsMatch, AllIdle
  <2>. QED BY <2>1 DEF JournalsMatch
<1>12. ASSUME StartServer
       PROVE  JournalsMatch'
  BY <1>12, <1>s DEF StartServer, JournalsMatch, AllIdle, history
<1>13. CASE UNCHANGED backupVars
  BY <1>13, <1>s DEF JournalsMatch, AllIdle, backupVars, history
<1>. QED BY <1>1, <1>2, <1>4, <1>5, <1>6, <1>7, <1>8, <1>9, <1>10, <1>11, <1>12, <1>13
     DEF BackupsNext

-----------------------------------------------------------------------------
(* What holds of backups that do not meet.                                 *)

\* The file of the current second is never pruned.
LEMMA TheCurrentStays ==
  ASSUME BackupsAssumption, FilesTyped, FilesArePast, NEW s \in Stamps, s = clock
  PROVE  s \notin Pruned({t \in Stamps : files[t] # None})
<1>. DEFINE newer == {t \in {u \in Stamps : files[u] # None} : t > s}
<1>1. newer = {}
  BY DEF FilesArePast
<1>2. Cardinality(newer) = 0
  BY <1>1, FS_EmptySet, Zenon
<1>3. ~(0 >= Keep)
  BY DEF BackupsAssumption
<1>. HIDE DEF newer
<1>4. ~(Cardinality(newer) >= Keep)
  BY <1>2, <1>3
<1>. QED BY <1>4 DEF newer, Pruned

LEMMA PastStep ==
  ASSUME BackupsAssumption, FilesTyped, FilesArePast, [BackupsNext]_backupVars
  PROVE  FilesArePast'
<1>. USE BackupsAssumption
<1>0. /\ Stamps \subseteq Nat /\ clock \in Nat
      /\ \A j \in Jobs : jobs[j] # NoJob => jobs[j].stamp \in Stamps
  BY StampsAreNumbers, JobKinds DEF FilesTyped, BackupsAssumption
<1>1. ASSUME NEW j \in Jobs, StartBackup(j)
      PROVE  FilesArePast'
  <2>1. /\ clock \in Stamps /\ clock' = clock /\ sums' = sums
        /\ jobs' = [jobs EXCEPT ![j] = [phase |-> "copying", stamp |-> clock]]
    BY <1>1 DEF StartBackup, FilesTyped, Stamps, BackupsAssumption
  <2>2. /\ \A s \in Stamps : files'[s] = None => files[s] = None
        /\ \A s \in Stamps : s # clock => files'[s] = files[s]
        /\ files'[clock] # None
    BY <1>1, <2>1, Kinds DEF StartBackup, FilesTyped
  <2>3. \A s \in Stamps : (s > clock => files'[s] = None) /\ (files'[s] = None => sums[s] = None)
    BY <1>0, <2>1, <2>2 DEF FilesArePast
  <2>4. ASSUME NEW i \in Jobs, jobs'[i] # NoJob
        PROVE  jobs'[i].stamp <= clock
    BY <1>0, <2>1, <2>4 DEF FilesArePast, FilesTyped
  <2>. QED BY <2>1, <2>2, <2>3, <2>4 DEF FilesArePast
<1>2. ASSUME NEW j \in Jobs, CopyDone(j)
      PROVE  FilesArePast'
  <2>1. jobs[j] \in Running /\ jobs[j] # NoJob
    BY <1>2, JobKinds DEF CopyDone
  <2>2. /\ clock' = clock /\ sums' = sums
        /\ jobs' = [jobs EXCEPT ![j] = [jobs[j] EXCEPT !.phase = "copied"]]
    BY <1>2 DEF CopyDone, history
  <2>3. \A i \in Jobs : jobs'[i] # NoJob => jobs[i] # NoJob /\ jobs'[i].stamp = jobs[i].stamp
    BY <2>1, <2>2 DEF FilesTyped, Running
  <2>4. \A s \in Stamps : files'[s] = None <=> files[s] = None
    <3>1. State # None
      BY Kinds DEF State, FilesTyped
    <3>. QED BY <1>2, <3>1 DEF CopyDone, FilesTyped
  <2>5. jobs[j].stamp \in Stamps
    BY <1>0, <2>1
  <2>. QED BY <1>0, <2>2, <2>3, <2>4 DEF FilesArePast
<1>3. ASSUME NEW j \in Jobs, FinishBackup(j)
      PROVE  FilesArePast'
  <2>1. PICK stamp, pruned : FinishEffect(j, stamp, pruned)
    BY <1>3, Finishes
  <2>2. /\ \A s \in Stamps : files'[s] = IF s \in pruned THEN None ELSE files[s]
        /\ \A s \in Stamps : s \in pruned => sums'[s] = None
        /\ \A s \in Stamps : s \notin pruned /\ s # stamp => sums'[s] = sums[s]
        /\ stamp \in Stamps /\ files[stamp] # None /\ clock' = clock
    BY <2>1 DEF FinishEffect
  <2>3. \A s \in Stamps : (s > clock => files'[s] = None) /\ (files'[s] = None => sums'[s] = None)
    BY <2>2 DEF FilesArePast
  <2>4. \A i \in Jobs : jobs'[i] # NoJob => jobs'[i] = jobs[i]
    BY <2>1 DEF FinishEffect, FilesTyped
  <2>5. clock \in Stamps => clock \notin pruned
    BY <2>1, TheCurrentStays DEF FinishEffect
  <2>6. ASSUME NEW i \in Jobs, jobs'[i] # NoJob
        PROVE  jobs'[i].stamp <= clock /\ (jobs'[i].stamp = clock => files'[clock] # None)
    BY <1>0, <2>2, <2>4, <2>5, <2>6 DEF FilesArePast
  <2>. QED BY <2>2, <2>3, <2>6 DEF FilesArePast
<1>4. ASSUME NEW j \in Jobs, LoseBackup(j)
      PROVE  FilesArePast'
  <2>1. UNCHANGED <<clock, files, sums>> /\ jobs' = [jobs EXCEPT ![j] = NoJob]
    BY <1>4 DEF LoseBackup, history
  <2>2. \A i \in Jobs : jobs'[i] # NoJob => jobs'[i] = jobs[i]
    BY <2>1 DEF FilesTyped
  <2>. QED BY <2>1, <2>2 DEF FilesArePast
<1>5. ASSUME Tick
      PROVE  FilesArePast'
  <2>1. clock' = clock + 1 /\ UNCHANGED <<files, sums, jobs>>
    BY <1>5 DEF Tick
  <2>2. ASSUME NEW s \in Stamps, s > clock + 1
        PROVE  s > clock
    <3>1. s \in Nat
      BY <1>0
    <3>. QED BY <1>0, <2>2, <3>1
  <2>3. ASSUME NEW j \in Jobs, jobs[j] # NoJob
        PROVE  jobs[j].stamp <= clock + 1 /\ jobs[j].stamp # clock + 1
    <3>1. jobs[j].stamp \in Nat /\ jobs[j].stamp <= clock
      BY <1>0, <2>3 DEF FilesArePast
    <3>. QED BY <1>0, <3>1
  <2>. QED BY <2>1, <2>2, <2>3 DEF FilesArePast
<1>6. ASSUME KillServer \/ KillCli
      PROVE  FilesArePast'
  <2>1. PICK js \in {ServerJobs, CliJobs} : KillEffect(js)
    BY <1>6, Kills
  <2>2. PICK torn \in SUBSET Stamps :
          /\ files' = [s \in Stamps |-> IF s \in torn THEN Torn ELSE files[s]]
          /\ \A s \in torn : files[s] # None
    BY <2>1 DEF KillEffect
  <2>3. /\ UNCHANGED <<clock, sums>>
        /\ \A i \in Jobs : jobs'[i] # NoJob => jobs'[i] = jobs[i]
    BY <2>1 DEF KillEffect
  <2>4. \A s \in Stamps : files'[s] = None <=> files[s] = None
    BY <2>2, Kinds
  <2>. QED BY <1>0, <2>3, <2>4 DEF FilesArePast
<1>7. CASE FilesStay
  BY <1>7 DEF FilesStay, FilesArePast
<1>. QED BY <1>1, <1>2, <1>3, <1>4, <1>5, <1>6, <1>7, OtherSteps DEF BackupsNext

LEMMA OwnStep ==
  ASSUME BackupsAssumption, FilesTyped, JournalsMatch, FilesArePast, FilesAreOwn,
         shared' = {}, [BackupsNext]_backupVars
  PROVE  FilesAreOwn'
<1>. USE BackupsAssumption
<1>0. \A j \in Jobs : jobs[j] # NoJob => jobs[j].stamp \in Stamps
  BY JobKinds
<1>k. ASSUME \A i \in Jobs : jobs'[i] # NoJob => jobs'[i] = jobs[i],
             \A i \in Jobs : jobs'[i] # NoJob =>
               /\ files'[jobs[i].stamp] \in {files[jobs[i].stamp], None}
               /\ sums'[jobs[i].stamp] \in {sums[jobs[i].stamp], None}
      PROVE  FilesAreOwn'
  BY <1>k DEF FilesAreOwn
<1>1. ASSUME NEW j \in Jobs, StartBackup(j)
      PROVE  FilesAreOwn'
  <2>1. clock \in Stamps /\ files[clock] = None /\ sums' = sums
    <3>1. clock \in Stamps /\ sums' = sums
      BY <1>1 DEF StartBackup, FilesTyped, Stamps, BackupsAssumption
    <3>2. files[clock] # None => shared' = shared \cup {clock}
      BY <1>1 DEF StartBackup
    <3>. QED BY <3>1, <3>2
  <2>2. sums[clock] = None
    BY <2>1 DEF FilesArePast
  <2>3. \A i \in Jobs : jobs[i] # NoJob => jobs[i].stamp # clock
    BY <2>1 DEF FilesArePast
  <2>. DEFINE new == [phase |-> "copying", stamp |-> clock]
  <2>4. jobs' = [jobs EXCEPT ![j] = new] /\ files' = [files EXCEPT ![clock] = Empty]
    BY <1>1, <2>1 DEF StartBackup
  <2>5. new.phase = "copying" /\ new.stamp = clock
    OBVIOUS
  <2>. HIDE DEF new
  <2>6. \A i \in Jobs : jobs'[i] = IF i = j THEN new ELSE jobs[i]
    BY <2>4 DEF FilesTyped
  <2>7. \A s \in Stamps : files'[s] = IF s = clock THEN Empty ELSE files[s]
    BY <2>4 DEF FilesTyped
  <2>8. ASSUME NEW i \in Jobs, jobs'[i] # NoJob
        PROVE  /\ sums[jobs'[i].stamp] = None
               /\ jobs'[i].phase = "copying" => files'[jobs'[i].stamp] \in {Empty, None}
               /\ jobs'[i].phase = "copied" => files'[jobs'[i].stamp] \in Snapshots \cup {None}
               /\ \A k \in Jobs : jobs'[k] # NoJob /\ jobs'[k].stamp = jobs'[i].stamp => k = i
    <3>1. CASE i = j
      BY <2>1, <2>2, <2>3, <2>5, <2>6, <2>7, <3>1
    <3>2. CASE i # j
      <4>1. jobs'[i] = jobs[i] /\ jobs[i] # NoJob /\ jobs[i].stamp \in Stamps
        BY <1>0, <2>6, <2>8, <3>2
      <4>2. files'[jobs[i].stamp] = files[jobs[i].stamp]
        BY <2>3, <2>7, <4>1
      <4>3. \A k \in Jobs : jobs'[k] # NoJob /\ jobs'[k].stamp = jobs[i].stamp => k = i
        BY <2>3, <2>5, <2>6, <4>1 DEF FilesAreOwn
      <4>. QED BY <4>1, <4>2, <4>3 DEF FilesAreOwn
    <3>. QED BY <3>1, <3>2
  <2>. QED BY <2>1, <2>8 DEF FilesAreOwn
<1>2. ASSUME NEW j \in Jobs, CopyDone(j)
      PROVE  FilesAreOwn'
  <2>1. jobs[j] \in Running /\ jobs[j] # NoJob /\ State \in Snapshots /\ jobs[j].stamp \in Stamps
    BY <1>2, JobKinds DEF CopyDone, JournalsMatch, AllIdle
  <2>. DEFINE new == [jobs[j] EXCEPT !.phase = "copied"]
  <2>2. new.stamp = jobs[j].stamp /\ new.phase = "copied"
    BY <2>1 DEF Running
  <2>3. jobs' = [jobs EXCEPT ![j] = new] /\ sums' = sums
    BY <1>2 DEF CopyDone, history
  <2>. HIDE DEF new
  <2>4. \A i \in Jobs : jobs'[i] = IF i = j THEN new ELSE jobs[i]
    BY <2>3 DEF FilesTyped
  <2>5. /\ \A s \in Stamps : s # jobs[j].stamp => files'[s] = files[s]
        /\ files'[jobs[j].stamp] \in Snapshots \cup {None}
    BY <1>2, <2>1 DEF CopyDone, FilesTyped
  <2>6. ASSUME NEW i \in Jobs, jobs'[i] # NoJob
        PROVE  /\ sums[jobs'[i].stamp] = None
               /\ jobs'[i].phase = "copying" => files'[jobs'[i].stamp] \in {Empty, None}
               /\ jobs'[i].phase = "copied" => files'[jobs'[i].stamp] \in Snapshots \cup {None}
               /\ \A k \in Jobs : jobs'[k] # NoJob /\ jobs'[k].stamp = jobs'[i].stamp => k = i
    <3>1. /\ jobs[i] # NoJob /\ jobs'[i].stamp = jobs[i].stamp
          /\ \A k \in Jobs : jobs'[k] # NoJob => jobs[k] # NoJob /\ jobs'[k].stamp = jobs[k].stamp
      BY <2>1, <2>2, <2>4, <2>6
    <3>2. CASE i = j
      BY <2>1, <2>2, <2>4, <2>5, <3>1, <3>2 DEF FilesAreOwn
    <3>3. CASE i # j
      <4>1. jobs[i].stamp # jobs[j].stamp /\ jobs[i].stamp \in Stamps
        BY <1>0, <2>1, <3>1, <3>3 DEF FilesAreOwn
      <4>2. files'[jobs[i].stamp] = files[jobs[i].stamp] /\ jobs'[i] = jobs[i]
        BY <2>4, <2>5, <3>3, <4>1
      <4>. QED BY <3>1, <4>2 DEF FilesAreOwn
    <3>. QED BY <3>2, <3>3
  <2>. QED BY <2>3, <2>6 DEF FilesAreOwn
<1>3. ASSUME NEW j \in Jobs, FinishBackup(j)
      PROVE  FilesAreOwn'
  <2>1. PICK stamp, pruned : FinishEffect(j, stamp, pruned)
    BY <1>3, Finishes
  <2>2. /\ \A s \in Stamps : files'[s] \in {files[s], None}
        /\ \A s \in Stamps : s # stamp => sums'[s] \in {sums[s], None}
        /\ stamp = jobs[j].stamp
    BY <2>1 DEF FinishEffect
  <2>3. \A i \in Jobs : jobs'[i] = IF i = j THEN NoJob ELSE jobs[i]
    BY <2>1 DEF FinishEffect, FilesTyped
  <2>4. jobs[j] # NoJob
    BY <2>1, JobKinds DEF FinishEffect
  <2>5. ASSUME NEW i \in Jobs, jobs'[i] # NoJob
        PROVE  jobs[i].stamp # stamp /\ jobs[i].stamp \in Stamps /\ jobs'[i] = jobs[i]
    BY <1>0, <2>2, <2>3, <2>4, <2>5 DEF FilesAreOwn
  <2>. QED BY <1>k, <2>2, <2>5
<1>4. ASSUME NEW j \in Jobs, LoseBackup(j)
      PROVE  FilesAreOwn'
  <2>1. UNCHANGED <<files, sums>> /\ \A i \in Jobs : jobs'[i] = IF i = j THEN NoJob ELSE jobs[i]
    BY <1>4 DEF LoseBackup, history, FilesTyped
  <2>. QED BY <1>k, <2>1
<1>5. ASSUME Tick
      PROVE  FilesAreOwn'
  BY <1>5, <1>k DEF Tick
<1>6. ASSUME KillServer \/ KillCli
      PROVE  FilesAreOwn'
  <2>1. PICK js \in {ServerJobs, CliJobs} : KillEffect(js)
    BY <1>6, Kills
  <2>2. PICK torn \in SUBSET Stamps :
          /\ files' = [s \in Stamps |-> IF s \in torn THEN Torn ELSE files[s]]
          /\ \A s \in torn :
               files[s] # None /\ \E j \in js : jobs[j].phase = "copying" /\ jobs[j].stamp = s
    BY <2>1 DEF KillEffect
  <2>3. sums' = sums /\ \A i \in Jobs : jobs'[i] = IF i \in js THEN NoJob ELSE jobs[i]
    BY <2>1 DEF KillEffect
  <2>4. ASSUME NEW i \in Jobs, jobs'[i] # NoJob
        PROVE  files'[jobs[i].stamp] = files[jobs[i].stamp] /\ jobs'[i] = jobs[i]
    <3>1. i \notin js /\ jobs[i] # NoJob /\ jobs[i].stamp \in Stamps
      BY <1>0, <2>3, <2>4
    <3>2. jobs[i].stamp \notin torn
      BY <2>2, <3>1, JobKinds DEF FilesAreOwn, Jobs
    <3>. QED BY <2>2, <2>3, <2>4, <3>1, <3>2
  <2>. QED BY <1>k, <2>3, <2>4
<1>7. CASE FilesStay
  BY <1>7, <1>k DEF FilesStay
<1>. QED BY <1>1, <1>2, <1>3, <1>4, <1>5, <1>6, <1>7, OtherSteps DEF BackupsNext

\* The newest backup that can be restored is not pruned while fewer than Keep files are
\* unfinished: it is one of the newest Keep.
LEMMA PruningSpares ==
  ASSUME BackupsAssumption, FilesTyped, FilesAreOwn, NEW j \in Jobs, FinishBackup(j),
         Cardinality(Unfinished) < Keep
  PROVE  \E r \in Stamps : Restorable(r)'
<1>1. PICK stamp, pruned : FinishEffect(j, stamp, pruned)
  BY Finishes
<1>. DEFINE good == {s \in Stamps : Restorable(s)}
            names == {s \in Stamps : files[s] # None}
<1>2. Restorable(stamp) /\ stamp \in Stamps /\ files[stamp] \in Snapshots /\ sums[stamp] = None
  <2>1. jobs[j] # NoJob /\ jobs[j].stamp = stamp /\ jobs[j].phase = "copied" /\ files[stamp] # None
        /\ stamp \in Stamps
    BY <1>1, JobKinds DEF FinishEffect
  <2>2. files[stamp] \in Snapshots /\ sums[stamp] = None
    BY <2>1 DEF FilesAreOwn
  <2>. QED BY <2>1, <2>2, AFreshCopy
<1>3. PICK r \in good : \A t \in good : ~(t > r)
  BY <1>2, BackupsAssumption, NewestFirst
<1>. DEFINE newer == {t \in names : t > r}
<1>4. newer \in SUBSET Unfinished /\ Unfinished \in SUBSET Stamps
  BY <1>3 DEF Unfinished
<1>5. Cardinality(newer) <= Cardinality(Unfinished)
      /\ Cardinality(newer) \in Nat /\ Cardinality(Unfinished) \in Nat
  BY <1>4, BackupsAssumption, StampsAreNumbers
<1>. HIDE DEF newer
<1>6. ~(Cardinality(newer) >= Keep)
  BY <1>5, BackupsAssumption DEF BackupsAssumption
<1>7. r \notin pruned
  BY <1>1, <1>6 DEF FinishEffect, Pruned, newer
<1>8. r \in Stamps /\ Restorable(r)
  BY <1>3
<1>. HIDE DEF good, names
<1>9. files'[r] = files[r] /\ (r # stamp => sums'[r] = sums[r]) /\ (r = stamp => sums'[r] = files[r])
  BY <1>1, <1>7, <1>8 DEF FinishEffect
<1>10. CASE r # stamp
  BY <1>8, <1>9, <1>10, StaysRestorable
<1>11. CASE r = stamp
  <2>1. files'[r].is = "snapshot" /\ sums'[r] = files'[r]
    BY <1>2, <1>9, <1>11, Kinds
  <2>. QED BY <1>8, <2>1 DEF Restorable, Verified
<1>. QED BY <1>10, <1>11

\* No other step takes a restorable backup away.
LEMMA OthersSpare ==
  ASSUME BackupsAssumption, FilesTyped, JournalsMatch, FilesArePast, FilesAreOwn,
         shared' = {}, [BackupsNext]_backupVars,
         \A j \in Jobs : ~FinishBackup(j)
  PROVE  /\ \A s \in Stamps : Restorable(s) => Restorable(s)'
         /\ completed' = completed
<1>. USE BackupsAssumption
<1>k. ASSUME \A s \in Stamps : Restorable(s) => files'[s] = files[s], sums' = sums
      PROVE  \A s \in Stamps : Restorable(s) => Restorable(s)'
  BY <1>k, StaysRestorable
<1>1. ASSUME NEW j \in Jobs, StartBackup(j)
      PROVE  /\ \A s \in Stamps : Restorable(s) => Restorable(s)'
             /\ completed' = completed
  <2>1. sums' = sums /\ completed' = completed /\ files[clock] = None /\ clock \in Stamps
    <3>1. clock \in Stamps /\ sums' = sums /\ completed' = completed
      BY <1>1 DEF StartBackup, FilesTyped, Stamps, BackupsAssumption
    <3>2. files[clock] # None => shared' = shared \cup {clock}
      BY <1>1 DEF StartBackup
    <3>. QED BY <3>1, <3>2
  <2>2. \A s \in Stamps : s # clock => files'[s] = files[s]
    BY <1>1, <2>1 DEF StartBackup, FilesTyped
  <2>3. ~Restorable(clock)
    BY <2>1, UnfinishedFiles
  <2>. QED BY <1>k, <2>1, <2>2, <2>3
<1>2. ASSUME NEW j \in Jobs, CopyDone(j)
      PROVE  /\ \A s \in Stamps : Restorable(s) => Restorable(s)'
             /\ completed' = completed
  <2>1. sums' = sums /\ completed' = completed /\ jobs[j] # NoJob /\ jobs[j].phase = "copying"
        /\ jobs[j].stamp \in Stamps
    BY <1>2, JobKinds DEF CopyDone, history
  <2>2. \A s \in Stamps : s # jobs[j].stamp => files'[s] = files[s]
    BY <1>2, <2>1 DEF CopyDone, FilesTyped
  <2>3. files[jobs[j].stamp] \in {Empty, None}
    BY <2>1 DEF FilesAreOwn
  <2>4. ~Restorable(jobs[j].stamp)
    BY <2>1, <2>3, UnfinishedFiles
  <2>. QED BY <1>k, <2>1, <2>2, <2>4
<1>3. ASSUME NEW j \in Jobs, LoseBackup(j)
      PROVE  /\ \A s \in Stamps : Restorable(s) => Restorable(s)'
             /\ completed' = completed
  BY <1>k, <1>3 DEF LoseBackup, history
<1>4. ASSUME Tick
      PROVE  /\ \A s \in Stamps : Restorable(s) => Restorable(s)'
             /\ completed' = completed
  BY <1>k, <1>4 DEF Tick, history
<1>5. ASSUME KillServer \/ KillCli
      PROVE  /\ \A s \in Stamps : Restorable(s) => Restorable(s)'
             /\ completed' = completed
  <2>1. PICK js \in {ServerJobs, CliJobs} : KillEffect(js)
    BY <1>5, Kills
  <2>2. PICK torn \in SUBSET Stamps :
          /\ files' = [s \in Stamps |-> IF s \in torn THEN Torn ELSE files[s]]
          /\ \A s \in torn :
               files[s] # None /\ \E j \in js : jobs[j].phase = "copying" /\ jobs[j].stamp = s
    BY <2>1 DEF KillEffect
  <2>3. \A s \in torn : files[s] \in {Empty, None}
    BY <2>2, JobKinds DEF FilesAreOwn, Jobs
  <2>4. \A s \in torn : ~Restorable(s)
    BY <2>3, UnfinishedFiles
  <2>5. \A s \in Stamps : Restorable(s) => files'[s] = files[s]
    BY <2>2, <2>4
  <2>. QED BY <1>k, <2>1, <2>5 DEF KillEffect
<1>6. CASE FilesStay
  BY <1>6, <1>k DEF FilesStay
<1>. QED BY <1>1, <1>2, <1>3, <1>4, <1>5, <1>6, OtherSteps DEF BackupsNext

LEMMA SharedGrows ==
  ASSUME FilesTyped, [BackupsNext]_backupVars, shared' = {}
  PROVE  shared = {}
<1>1. ASSUME NEW j \in Jobs, StartBackup(j)
      PROVE  shared = {}
  <2>1. shared' = shared \/ shared' = shared \cup {clock}
    BY <1>1 DEF StartBackup
  <2>. QED BY <2>1
<1>2. ASSUME NEW j \in Jobs, CopyDone(j) \/ FinishBackup(j) \/ LoseBackup(j)
      PROVE  shared' = shared
  BY <1>2 DEF CopyDone, FinishBackup, LoseBackup, history
<1>3. KillServer \/ KillCli => shared' = shared
  BY Kills DEF KillEffect
<1>4. Tick \/ FilesStay => shared' = shared
  BY DEF Tick, FilesStay, history
<1>. QED BY <1>1, <1>2, <1>3, <1>4, OtherSteps DEF BackupsNext

LEMMA BackupsStep ==
  ASSUME BackupsAssumption, BackupsInv, FewAreUnfinished, [BackupsNext]_backupVars
  PROVE  BackupsInv'
<1>. USE BackupsAssumption
<1>1. FilesTyped' /\ JournalsMatch' /\ FilesArePast'
  BY TypedStep, JournalStep, PastStep DEF BackupsInv
<1>2. ASSUME shared' = {}
      PROVE  FilesAreOwn' /\ (completed' # {} => \E s \in Stamps : Restorable(s)')
  <2>1. shared = {} /\ FilesAreOwn
    BY <1>2, SharedGrows DEF BackupsInv
  <2>2. FilesAreOwn'
    BY <1>2, <2>1, OwnStep DEF BackupsInv
  <2>3. CASE \E j \in Jobs : FinishBackup(j)
    <3>1. PICK j \in Jobs : FinishBackup(j)
      BY <2>3
    <3>2. jobs[j].phase = "copied"
      BY <3>1 DEF FinishBackup
    <3>3. Cardinality(Unfinished) < Keep
      BY <2>1, <3>2 DEF FewAreUnfinished
    <3>. QED BY <2>1, <2>2, <3>1, <3>3, PruningSpares DEF BackupsInv
  <2>4. CASE ~\E j \in Jobs : FinishBackup(j)
    <3>1. /\ \A s \in Stamps : Restorable(s) => Restorable(s)'
          /\ completed' = completed
      BY <1>2, <2>1, <2>4, OthersSpare DEF BackupsInv
    <3>. QED BY <2>1, <2>2, <3>1 DEF BackupsInv
  <2>. QED BY <2>3, <2>4
<1>. QED BY <1>1, <1>2 DEF BackupsInv

LEMMA BackupsStart ==
  ASSUME BackupsAssumption, BackupsInit
  PROVE  BackupsInv
<1>1. 0 \in 0..MaxWrites /\ 0 \in 0..MaxClock /\ 0 \in 0..MaxKills
  BY DEF BackupsAssumption
<1>2. FilesTyped
  BY <1>1 DEF BackupsInit, FilesTyped, Snapshots
<1>3. AllIdle /\ database # Mixed
  BY <1>1, Kinds DEF BackupsInit, AllIdle, Snapshots
<1>4. JournalsMatch
  BY <1>3 DEF BackupsInit, JournalsMatch
<1>5. FilesArePast /\ FilesAreOwn /\ completed = {}
  BY DEF BackupsInit, FilesArePast, FilesAreOwn
<1>. QED BY <1>2, <1>4, <1>5 DEF BackupsInv

LEMMA BackupsImply ==
  ASSUME BackupsInv
  PROVE  BackupsCanBeRestored
<1>1. OneCanBeRestored
  BY DEF BackupsInv, OneCanBeRestored
<1>2. RestoresAreWhole
  <2>. SUFFICES ASSUME up, ~halfway PROVE State.is # "mixed"
    BY DEF RestoresAreWhole
  <2>1. ~stale /\ database # Mixed
    BY DEF BackupsInv, JournalsMatch, FilesTyped
  <2>. QED BY <2>1, Kinds DEF BackupsInv, FilesTyped, State
<1>. QED BY <1>1, <1>2 DEF BackupsCanBeRestored

(***************************************************************************)
(* A backup that has ended can be restored, whoever prunes and whoever is  *)
(* killed, as long as every pruning finds fewer than Keep unfinished files *)
(* and no two backups start in the same second; and a restore that is not  *)
(* killed halfway is served whole (runBackup, pruneBackups, verifyBackup   *)
(* and restoreBackup in lib/backup.ts).                                    *)
(***************************************************************************)
THEOREM BackupsStayRestorable ==
  BackupsSpec /\ []FewAreUnfinished => []BackupsCanBeRestored
<1>1. BackupsInit => BackupsInv
  BY BackupsStart, BackupsAssumption
<1>2. BackupsInv /\ FewAreUnfinished /\ [BackupsNext]_backupVars => BackupsInv'
  BY BackupsStep, BackupsAssumption
<1>3. BackupsInv => BackupsCanBeRestored
  BY BackupsImply
<1>. QED BY <1>1, <1>2, <1>3, PTL DEF BackupsSpec

-----------------------------------------------------------------------------
(* Unfinished files are as many as are being written or were left by kills.*)

LEMMA CopyingIsBounded ==
  ASSUME BackupsAssumption, FilesTyped, NEW js \in SUBSET Jobs
  PROVE  /\ Copying(js) \in SUBSET Stamps
         /\ Cardinality(Copying(js)) <= Cardinality(js)
         /\ Cardinality(Copying(js)) \in Nat /\ Cardinality(js) \in Nat /\ IsFiniteSet(js)
<1>. DEFINE is == {i \in js : jobs[i].phase = "copying"}
            stampOf == [i \in is |-> jobs[i].stamp]
<1>1. IsFiniteSet(js) /\ Cardinality(js) \in Nat
  BY FS_Subset, FS_CardinalityType DEF BackupsAssumption
<1>2. IsFiniteSet(is) /\ Cardinality(is) <= Cardinality(js) /\ Cardinality(is) \in Nat
  BY <1>1, FS_Subset, FS_CardinalityType
<1>3. Copying(js) \in SUBSET Stamps
  BY JobKinds DEF Copying
<1>4. stampOf \in Surjection(is, Copying(js))
  BY DEF Surjection, Copying
<1>. HIDE DEF is, stampOf
<1>5. IsFiniteSet(Copying(js)) /\ Cardinality(Copying(js)) <= Cardinality(is)
  BY <1>2, <1>4, FS_Surjection
<1>6. Cardinality(Copying(js)) \in Nat
  BY <1>5, FS_CardinalityType
<1>. QED BY <1>1, <1>2, <1>3, <1>5, <1>6

LEMMA UnionIsBounded ==
  ASSUME BackupsAssumption, NEW S \in SUBSET Stamps, NEW T \in SUBSET Stamps
  PROVE  /\ Cardinality(S \cup T) <= Cardinality(S) + Cardinality(T)
         /\ Cardinality(S \cup T) \in Nat /\ Cardinality(S) \in Nat /\ Cardinality(T) \in Nat
<1>1. /\ IsFiniteSet(S) /\ IsFiniteSet(T)
      /\ Cardinality(S) \in Nat /\ Cardinality(T) \in Nat
  BY StampsAreNumbers
<1>2. S \cup T \in SUBSET Stamps /\ S \cap T \in SUBSET Stamps
  OBVIOUS
<1>3. Cardinality(S \cup T) \in Nat /\ Cardinality(S \cap T) \in Nat
  BY <1>2, StampsAreNumbers
<1>4. Cardinality(S \cup T) = Cardinality(S) + Cardinality(T) - Cardinality(S \cap T)
  BY <1>1, FS_Union
<1>. QED BY <1>1, <1>3, <1>4

LEMMA WidestIsWidest ==
  ASSUME BackupsAssumption
  PROVE  /\ Widest \in Nat /\ Cardinality(Jobs) \in Nat
         /\ \A js \in {ServerJobs, CliJobs} :
              js \in SUBSET Jobs /\ Cardinality(js) \in Nat /\ Cardinality(js) <= Widest
<1>1. \A js \in SUBSET Jobs : Cardinality(js) \in Nat
  BY FS_Subset, FS_CardinalityType DEF BackupsAssumption
<1>2. ServerJobs \in SUBSET Jobs /\ CliJobs \in SUBSET Jobs /\ Jobs \in SUBSET Jobs
  BY DEF Jobs
<1>3. Cardinality(ServerJobs) \in Nat /\ Cardinality(CliJobs) \in Nat /\ Cardinality(Jobs) \in Nat
  BY <1>1, <1>2
<1>. QED BY <1>2, <1>3 DEF Widest

LEMMA Times ==
  ASSUME NEW a \in Nat, NEW b \in Nat, NEW w \in Nat, a <= b
  PROVE  /\ a * w \in Nat /\ b * w \in Nat
         /\ a * w <= b * w
         /\ (a + 1) * w = a * w + w
<1>1. PICK d \in Nat : b = a + d
  <2>1. b - a \in Nat /\ b = a + (b - a)
    OBVIOUS
  <2>. QED BY <2>1
<1>2. b * w = a * w + d * w /\ d * w \in Nat /\ a * w \in Nat
  BY <1>1
<1>3. (a + 1) * w = a * w + w
  OBVIOUS
<1>. QED BY <1>2, <1>3

\* The same kills, and no file becomes unfinished that is not being written.
LEMMA CountIsKept ==
  ASSUME UnfinishedAreCounted, shared = {}, kills' = kills,
         \A s \in Unfinished' : s \in Unfinished \/ s \in Copying(Jobs)',
         \A s \in Copying(Jobs) : s \in Copying(Jobs)' \/ s \notin Unfinished'
  PROVE  UnfinishedAreCounted'
<1>1. PICK left \in SUBSET Stamps :
        Cardinality(left) <= kills * Widest /\ Unfinished \subseteq left \cup Copying(Jobs)
  BY DEF UnfinishedAreCounted
<1>2. Unfinished' \subseteq left \cup Copying(Jobs)'
  BY <1>1
<1>3. Widest' = Widest
  BY DEF Widest
<1>. QED BY <1>1, <1>2, <1>3 DEF UnfinishedAreCounted

LEMMA KillCounts ==
  ASSUME BackupsAssumption, FilesTyped, UnfinishedAreCounted, shared = {},
         NEW js \in {ServerJobs, CliJobs}, KillEffect(js)
  PROVE  UnfinishedAreCounted'
<1>1. PICK left \in SUBSET Stamps :
        Cardinality(left) <= kills * Widest /\ Unfinished \subseteq left \cup Copying(Jobs)
  BY DEF UnfinishedAreCounted
<1>2. js \in SUBSET Jobs /\ Cardinality(js) <= Widest /\ Widest \in Nat
  BY WidestIsWidest
<1>3. Copying(js) \in SUBSET Stamps /\ Cardinality(Copying(js)) <= Cardinality(js)
      /\ Cardinality(Copying(js)) \in Nat /\ Cardinality(js) \in Nat
  BY <1>2, CopyingIsBounded
<1>. DEFINE all == left \cup Copying(js)
<1>4. Cardinality(all) <= Cardinality(left) + Cardinality(Copying(js))
      /\ Cardinality(all) \in Nat /\ Cardinality(left) \in Nat
  BY <1>3, UnionIsBounded
<1>5. kills \in Nat /\ kills' = kills + 1
  BY DEF FilesTyped, KillEffect, BackupsAssumption
<1>6. kills * Widest \in Nat /\ (kills + 1) * Widest = kills * Widest + Widest
  BY <1>2, <1>5, Times
<1>7. Cardinality(all) <= (kills + 1) * Widest
  <2>. HIDE DEF all
  <2>. QED BY <1>1, <1>2, <1>3, <1>4, <1>6
<1>8. ASSUME NEW s \in Unfinished'
      PROVE  s \in all \/ s \in Copying(Jobs)'
  <2>1. PICK torn \in SUBSET Stamps :
          /\ files' = [u \in Stamps |-> IF u \in torn THEN Torn ELSE files[u]]
          /\ \A u \in torn :
               files[u] # None /\ \E j \in js : jobs[j].phase = "copying" /\ jobs[j].stamp = u
    BY DEF KillEffect
  <2>2. s \in Stamps /\ files'[s] # None /\ ~Restorable(s)' /\ sums' = sums
    BY DEF Unfinished, KillEffect
  <2>3. CASE s \in torn
    BY <2>1, <2>3 DEF Copying
  <2>4. CASE s \notin torn
    <3>1. files'[s] = files[s]
      BY <2>1, <2>2, <2>4
    <3>2. s \in Unfinished
      BY <2>2, <3>1, StaysRestorable DEF Unfinished
    <3>3. CASE s \in left
      BY <3>3
    <3>4. CASE s \in Copying(Jobs)
      <4>1. PICK j \in Jobs : jobs[j].phase = "copying" /\ jobs[j].stamp = s
        BY <3>4 DEF Copying
      <4>2. CASE j \in js
        BY <4>1, <4>2 DEF Copying
      <4>3. CASE j \notin js
        <5>1. jobs'[j] = jobs[j]
          BY <4>3 DEF KillEffect
        <5>. QED BY <4>1, <5>1 DEF Copying
      <4>. QED BY <4>2, <4>3
    <3>. QED BY <1>1, <3>2, <3>3, <3>4
  <2>. QED BY <2>3, <2>4
<1>9. all \in SUBSET Stamps
  BY <1>3
<1>10. Widest' = Widest
  BY DEF Widest
<1>. HIDE DEF all
<1>11. Cardinality(all) <= kills' * Widest' /\ Unfinished' \subseteq all \cup Copying(Jobs)'
  BY <1>5, <1>7, <1>8, <1>10
<1>. QED BY <1>9, <1>11 DEF UnfinishedAreCounted

LEMMA CountStep ==
  ASSUME BackupsAssumption, BackupsInv, UnfinishedAreCounted, [BackupsNext]_backupVars
  PROVE  UnfinishedAreCounted'
<1>. USE BackupsAssumption
<1>0. SUFFICES ASSUME shared' = {} PROVE UnfinishedAreCounted'
  BY DEF UnfinishedAreCounted
<1>g. FilesTyped /\ JournalsMatch /\ FilesArePast /\ FilesAreOwn /\ shared = {}
  BY <1>0, SharedGrows DEF BackupsInv
<1>1. ASSUME NEW j \in Jobs, StartBackup(j)
      PROVE  UnfinishedAreCounted'
  <2>1. clock \in Stamps /\ sums' = sums /\ kills' = kills /\ jobs[j] = NoJob
        /\ jobs' = [jobs EXCEPT ![j] = [phase |-> "copying", stamp |-> clock]]
    BY <1>g, <1>1 DEF StartBackup, FilesTyped, Stamps, BackupsAssumption
  <2>2. \A s \in Stamps : s # clock => files'[s] = files[s]
    BY <1>g, <1>1, <2>1 DEF StartBackup, FilesTyped
  <2>3. jobs'[j].phase = "copying" /\ jobs'[j].stamp = clock
        /\ \A i \in Jobs : i # j => jobs'[i] = jobs[i]
    BY <1>g, <2>1 DEF FilesTyped
  <2>4. \A s \in Copying(Jobs) : s \in Copying(Jobs)'
    BY <2>1, <2>3 DEF Copying, NoJob
  <2>5. \A s \in Unfinished' : s \in Unfinished \/ s = clock
    BY <2>1, <2>2, StaysRestorable DEF Unfinished
  <2>6. clock \in Copying(Jobs)'
    BY <2>3 DEF Copying
  <2>. QED BY <1>g, <2>1, <2>4, <2>5, <2>6, CountIsKept
<1>2. ASSUME NEW j \in Jobs, CopyDone(j)
      PROVE  UnfinishedAreCounted'
  <2>0. PICK stamp : stamp = jobs[j].stamp
    OBVIOUS
  <2>1. /\ sums' = sums /\ kills' = kills /\ jobs[j] # NoJob /\ jobs[j].phase = "copying"
        /\ jobs[j] \in Running /\ State \in Snapshots /\ stamp \in Stamps
    BY <1>g, <1>2, <2>0, JobKinds DEF CopyDone, history, JournalsMatch, AllIdle
  <2>2. /\ \A s \in Stamps : s # stamp => files'[s] = files[s]
        /\ files'[stamp] \in Snapshots \cup {None}
    BY <1>g, <1>2, <2>0, <2>1 DEF CopyDone, FilesTyped
  <2>3. stamp \notin Unfinished'
    <3>1. sums'[stamp] = None
      BY <1>g, <2>0, <2>1 DEF FilesAreOwn
    <3>2. files'[stamp] \in Snapshots => Restorable(stamp)'
      BY <2>1, <3>1, Kinds DEF Restorable, Verified
    <3>. QED BY <2>2, <3>2 DEF Unfinished
  <2>4. \A i \in Jobs : i # j => jobs'[i] = jobs[i]
    BY <1>g, <1>2 DEF CopyDone, FilesTyped
  <2>5. \A s \in Copying(Jobs) : s \in Copying(Jobs)' \/ s \notin Unfinished'
    BY <2>0, <2>3, <2>4 DEF Copying
  <2>6. \A s \in Unfinished' : s \in Unfinished
    BY <2>1, <2>2, <2>3, StaysRestorable DEF Unfinished
  <2>. QED BY <1>g, <2>1, <2>5, <2>6, CountIsKept
<1>3. ASSUME NEW j \in Jobs, FinishBackup(j)
      PROVE  UnfinishedAreCounted'
  <2>1. PICK stamp, pruned : FinishEffect(j, stamp, pruned)
    BY <1>g, <1>3, Finishes
  <2>2. /\ \A s \in Stamps : files'[s] = IF s \in pruned THEN None ELSE files[s]
        /\ \A s \in Stamps : s \notin pruned /\ s # stamp => sums'[s] = sums[s]
        /\ stamp \notin pruned => sums'[stamp] = files[stamp]
        /\ stamp \in Stamps /\ kills' = kills /\ stamp = jobs[j].stamp
        /\ jobs[j].phase = "copied" /\ files[stamp] # None
        /\ \A i \in Jobs : i # j => jobs'[i] = jobs[i]
    BY <1>g, <2>1 DEF FinishEffect, FilesTyped
  <2>3. stamp \notin Unfinished'
    <3>1. files[stamp] \in Snapshots
      BY <1>g, <2>2, JobKinds DEF FilesAreOwn
    <3>2. stamp \notin pruned => Restorable(stamp)'
      BY <2>2, <3>1, Kinds DEF Restorable, Verified
    <3>. QED BY <2>2, <3>2 DEF Unfinished
  <2>4. \A s \in Unfinished' : s \in Unfinished
    BY <2>2, <2>3, StaysRestorable DEF Unfinished
  <2>5. \A s \in Copying(Jobs) : s \in Copying(Jobs)'
    BY <2>2 DEF Copying
  <2>. QED BY <1>g, <2>2, <2>4, <2>5, CountIsKept
<1>4. ASSUME NEW j \in Jobs, LoseBackup(j)
      PROVE  UnfinishedAreCounted'
  <2>1. UNCHANGED <<files, sums, kills>> /\ jobs[j].phase = "copied"
        /\ \A i \in Jobs : i # j => jobs'[i] = jobs[i]
    BY <1>g, <1>4 DEF LoseBackup, FilesTyped, history
  <2>2. \A s \in Unfinished' : s \in Unfinished
    BY <2>1, StaysRestorable DEF Unfinished
  <2>3. \A s \in Copying(Jobs) : s \in Copying(Jobs)'
    BY <2>1 DEF Copying
  <2>. QED BY <1>g, <2>1, <2>2, <2>3, CountIsKept
<1>5. ASSUME KillServer \/ KillCli
      PROVE  UnfinishedAreCounted'
  BY <1>g, <1>5, Kills, KillCounts
<1>6. ASSUME UNCHANGED <<files, sums, jobs>>
      PROVE  Unfinished' = Unfinished /\ Copying(Jobs)' = Copying(Jobs)
  BY <1>6 DEF Unfinished, Copying, Restorable, Verified
<1>7. CASE UNCHANGED <<files, sums, jobs, kills>>
  BY <1>g, <1>6, <1>7, CountIsKept
<1>8. ASSUME KillRestore
      PROVE  UnfinishedAreCounted'
  <2>1. FilesStay /\ kills' = kills + 1 /\ kills \in Nat
    BY <1>g, <1>8, OtherSteps DEF FilesTyped, BackupsAssumption
  <2>2. PICK left \in SUBSET Stamps :
          Cardinality(left) <= kills * Widest /\ Unfinished \subseteq left \cup Copying(Jobs)
    BY <1>g DEF UnfinishedAreCounted
  <2>3. Widest \in Nat /\ Widest' = Widest
    BY WidestIsWidest DEF Widest
  <2>4. kills * Widest \in Nat /\ (kills + 1) * Widest = kills * Widest + Widest
        /\ Cardinality(left) \in Nat
    BY <2>1, <2>3, Times, StampsAreNumbers
  <2>5. Cardinality(left) <= kills' * Widest'
    BY <2>1, <2>2, <2>3, <2>4
  <2>6. Unfinished' \subseteq left \cup Copying(Jobs)'
    BY <1>6, <2>1, <2>2 DEF FilesStay
  <2>. QED BY <2>5, <2>6 DEF UnfinishedAreCounted
<1>9. Tick => UNCHANGED <<files, sums, jobs, kills>>
  BY DEF Tick
<1>10. FilesStay /\ UNCHANGED kills => UNCHANGED <<files, sums, jobs, kills>>
  BY DEF FilesStay
<1>. QED BY <1>1, <1>2, <1>3, <1>4, <1>5, <1>7, <1>8, <1>9, <1>10, OtherSteps DEF BackupsNext

\* A backup that is about to prune is not among those that are copying.
LEMMA CountImplies ==
  ASSUME BackupsAssumption, KeepIsEnough, FilesTyped, UnfinishedAreCounted
  PROVE  FewAreUnfinished
<1>. SUFFICES ASSUME shared = {}, NEW j \in Jobs, jobs[j].phase = "copied"
              PROVE  Cardinality(Unfinished) < Keep
  BY DEF FewAreUnfinished
<1>1. PICK left \in SUBSET Stamps :
        Cardinality(left) <= kills * Widest /\ Unfinished \subseteq left \cup Copying(Jobs)
  BY DEF UnfinishedAreCounted
<1>2. Copying(Jobs) = Copying(Jobs \ {j})
  BY DEF Copying
<1>3. Copying(Jobs \ {j}) \in SUBSET Stamps
      /\ Cardinality(Copying(Jobs \ {j})) <= Cardinality(Jobs \ {j})
      /\ Cardinality(Copying(Jobs \ {j})) \in Nat /\ Cardinality(Jobs \ {j}) \in Nat
  BY CopyingIsBounded
<1>4. Cardinality(Jobs \ {j}) = Cardinality(Jobs) - 1 /\ Cardinality(Jobs) \in Nat
  BY FS_RemoveElement, WidestIsWidest DEF BackupsAssumption
<1>. DEFINE all == left \cup Copying(Jobs \ {j})
<1>5. Cardinality(all) <= Cardinality(left) + Cardinality(Copying(Jobs \ {j}))
      /\ Cardinality(all) \in Nat /\ Cardinality(left) \in Nat
  BY <1>3, UnionIsBounded
<1>6. all \in SUBSET Stamps /\ Unfinished \in SUBSET all
  BY <1>1, <1>2, <1>3
<1>. HIDE DEF all
<1>7. Cardinality(Unfinished) <= Cardinality(all) /\ Cardinality(Unfinished) \in Nat
  <2>1. Unfinished \in SUBSET Stamps
    BY <1>6
  <2>. QED BY <1>6, <2>1, StampsAreNumbers
<1>8. kills * Widest <= MaxKills * Widest /\ kills * Widest \in Nat /\ MaxKills * Widest \in Nat
  BY Times, WidestIsWidest DEF FilesTyped, BackupsAssumption
<1>. QED BY <1>1, <1>3, <1>4, <1>5, <1>7, <1>8 DEF KeepIsEnough, BackupsAssumption

(***************************************************************************)
(* With enough files kept for the backups that can run at a time and for   *)
(* those that kills can leave unfinished, pruning never takes the last     *)
(* backup that can be restored.                                            *)
(***************************************************************************)
THEOREM EnoughBackupsAreKept ==
  ASSUME KeepIsEnough
  PROVE  BackupsSpec => []BackupsCanBeRestored
<1>1. BackupsInit => BackupsInv /\ UnfinishedAreCounted
  <2>1. BackupsInit => Unfinished = {} /\ kills = 0
    BY DEF BackupsInit, Unfinished
  <2>2. 0 * Widest = 0 /\ Cardinality({}) = 0
    BY BackupsAssumption, WidestIsWidest, FS_EmptySet
  <2>3. BackupsInit => Cardinality({}) <= kills * Widest
    BY <2>1, <2>2
  <2>4. BackupsInit => UnfinishedAreCounted
    BY <2>1, <2>3 DEF UnfinishedAreCounted
  <2>. QED BY <2>4, BackupsStart, BackupsAssumption
<1>2. BackupsInv /\ UnfinishedAreCounted /\ [BackupsNext]_backupVars =>
        BackupsInv' /\ UnfinishedAreCounted'
  <2>1. BackupsInv /\ UnfinishedAreCounted => FewAreUnfinished
    BY CountImplies, BackupsAssumption DEF BackupsInv
  <2>. QED BY <2>1, BackupsStep, CountStep, BackupsAssumption
<1>3. BackupsInv => BackupsCanBeRestored
  BY BackupsImply
<1>. QED BY <1>1, <1>2, <1>3, PTL DEF BackupsSpec

-----------------------------------------------------------------------------
(* Upgrades.                                                               *)

\* Of the migrations, three rebuild a table of reports or webhooks: they rename it, create it
\* again, copy the rows back and drop the copy.  The renaming fails while a copy is there,
\* so that the copy has one opener that goes on to drop it, however many open at once; and
\* it only comes to the drop when the copying did not fail.
CopyTables == {"webhooks_old", "agent_feedback_old", "agent_feedback_v32_old"}

RebuildOf(c) ==
  CASE c = "webhooks_old" -> WebhooksRebuild
    [] c = "agent_feedback_old" -> FeedbackRebuild
    [] c = "agent_feedback_v32_old" -> FeedbackRepair
OriginOf(c) == IF c = "webhooks_old" THEN "webhooks" ELSE "agent_feedback"

\* How many statements come before the renaming.
Lead(c) == IF c = "agent_feedback_v32_old" THEN 1 ELSE 0

Origins == {"webhooks", "agent_feedback"}

\* Columns that migrations add one by one.
AddedColumns ==
  {"compatibility", "lint", "channel", "required_reviewers", "contradictions", "risk",
   "audit_prompt", "deleted_at", "repo", "project_type_id", "languages", "topic", "expires_at",
   "gate_status", "gate_results", "source_candidate_id", "source_url", "source_path",
   "source_commit", "imported_at", "transformed_by", "transformation_note",
   "upstream_content_hash", "entity_path", "spec_section"}

SchemaTables ==
  {"change_requests", "spec_versions", "project_types", "specs", "agent_feedback", "webhooks",
   "users", "tokens", "review_approvals", "approval_policies", "audit_log", "repo_consumers",
   "spec_embeddings", "code_trace_reports", "agent_skills", "code_trace_links",
   "compliance_attestations", "agent_sessions", "harness_proposals", "context_events",
   "skill_candidates", "skill_change_requests", "skill_assignments", "skill_spec_links",
   "agent_skill_versions", "audit_reports", "agent_states"}

TextNames ==
  {"load", "loop", "evidence", "rules", "rules_recorded", "baseline", "baseline_recorded"}

\* Statements that leave webhooks and reports where they are.
Ensures == {Ensure(t) : t \in SchemaTables}
Adds == {Add(t, c) : t \in SchemaTables, c \in AddedColumns}
Rewrites == {Rewrite(k, old, new) : k \in TextNames, old \in Nat, new \in Nat}
Switches == {ForeignKeys(TRUE), ForeignKeys(FALSE)}
SpecsMoves ==
  {DropIf("specs_new"), Create("specs_new", {"project_id"}), Copy("specs", "specs_new"),
   Drop("specs"), Rename("specs_new", "specs")}
Elsewhere == Ensures \cup Adds \cup Rewrites \cup Switches \cup SpecsMoves

\* What a migration may be.
Plain == Seq(Elsewhere) \ {<<>>}
Forms == Plain \cup {WebhooksRebuild, FeedbackRebuild, FeedbackRepair}

LEMMA Joined ==
  ASSUME NEW S, NEW a \in Seq(S), NEW b \in Seq(S)
  PROVE  a \o b \in Seq(S)
OBVIOUS

LEMMA Sevens ==
  ASSUME NEW S, NEW a \in S, NEW b \in S, NEW c \in S, NEW d \in S, NEW e \in S, NEW f \in S, NEW g \in S
  PROVE  <<a, b, c, d, e, f, g>> \in Seq(S)
OBVIOUS

LEMMA StatementsOf ==
  /\ \A t \in SchemaTables : Ensure(t) \in Elsewhere
  /\ \A t \in SchemaTables, c \in AddedColumns : Add(t, c) \in Elsewhere
  /\ \A k \in TextNames, old \in Nat, new \in Nat : Rewrite(k, old, new) \in Elsewhere
  /\ ForeignKeys(FALSE) \in Elsewhere /\ ForeignKeys(TRUE) \in Elsewhere
<1>1. \A t \in SchemaTables : Ensure(t) \in Elsewhere
  BY DEF Elsewhere, Ensures
<1>2. \A t \in SchemaTables, c \in AddedColumns : Add(t, c) \in Elsewhere
  BY DEF Elsewhere, Adds
<1>3. \A k \in TextNames, old \in Nat, new \in Nat : Rewrite(k, old, new) \in Elsewhere
  BY DEF Elsewhere, Rewrites
<1>4. ForeignKeys(FALSE) \in Elsewhere /\ ForeignKeys(TRUE) \in Elsewhere
  BY DEF Elsewhere, Switches
<1>. QED BY <1>1, <1>2, <1>3, <1>4

LEMMA ShortMigrations ==
  ASSUME NEW a \in Elsewhere, NEW b \in Elsewhere, NEW c \in Elsewhere
  PROVE  <<a>> \in Plain /\ <<a, b>> \in Plain /\ <<a, b, c>> \in Plain
<1>1. <<a>> \in Seq(Elsewhere) /\ <<a, b>> \in Seq(Elsewhere) /\ <<a, b, c>> \in Seq(Elsewhere)
  OBVIOUS
<1>2. <<a>> # <<>> /\ <<a, b>> # <<>> /\ <<a, b, c>> # <<>>
  OBVIOUS
<1>. QED BY <1>1, <1>2 DEF Plain

LEMMA SingleStatements ==
  /\ \A t \in SchemaTables : <<Ensure(t)>> \in Forms
  /\ \A t \in SchemaTables, c \in AddedColumns : <<Add(t, c)>> \in Forms
  /\ \A k \in TextNames, old \in Nat, new \in Nat : <<Rewrite(k, old, new)>> \in Forms
BY StatementsOf, ShortMigrations DEF Forms


\* The migrations that rebuild specs move only those.
LEMMA SpecsMove == SpecsRebuild \in Plain
<1>1. DropIf("specs_new") \in Elsewhere /\ Create("specs_new", {"project_id"}) \in Elsewhere
  BY DEF Elsewhere, SpecsMoves
<1>2. Copy("specs", "specs_new") \in Elsewhere /\ Drop("specs") \in Elsewhere
  BY DEF Elsewhere, SpecsMoves
<1>3. Rename("specs_new", "specs") \in Elsewhere
  BY DEF Elsewhere, SpecsMoves
<1>4. ForeignKeys(FALSE) \in Elsewhere /\ ForeignKeys(TRUE) \in Elsewhere
  BY StatementsOf
<1>5. SpecsRebuild \in Seq(Elsewhere)
  BY <1>1, <1>2, <1>3, <1>4, Sevens DEF SpecsRebuild
<1>6. SpecsRebuild # <<>>
  BY DEF SpecsRebuild
<1>. QED BY <1>5, <1>6 DEF Plain

LEMMA NamedMigrations ==
  /\ ReviewTables \in Seq(Forms) /\ LoopTexts \in Seq(Forms) /\ SkillReviewTables \in Seq(Forms)
  /\ TraceTables \in Forms /\ UserColumns \in Forms /\ OperatingRules \in Forms
  /\ BaselineTexts \in Forms /\ UsageTables \in Forms /\ MarketplaceTables \in Forms
  /\ GateColumns \in Forms /\ ProvenanceColumns \in Forms
<1>1. ReviewTables \in Seq(Forms)
  <2>1. /\ <<Ensure("review_approvals")>> \in Forms /\ <<Ensure("approval_policies")>> \in Forms
        /\ <<Ensure("audit_log")>> \in Forms
    BY SingleStatements DEF SchemaTables
  <2>. QED BY <2>1 DEF ReviewTables
<1>2. LoopTexts \in Seq(Forms)
  <2>1. <<Rewrite("loop", 0, 28)>> \in Forms /\ <<Rewrite("loop", 28, 29)>> \in Forms
    BY SingleStatements DEF TextNames
  <2>2. Rewrite("evidence", 0, 30) \in Elsewhere /\ Rewrite("loop", 29, 30) \in Elsewhere
    BY StatementsOf DEF TextNames
  <2>3. <<Rewrite("evidence", 0, 30), Rewrite("loop", 29, 30)>> \in Forms
    BY <2>2, ShortMigrations DEF Forms
  <2>. QED BY <2>1, <2>3 DEF LoopTexts
<1>3. SkillReviewTables \in Seq(Forms)
  <2>1. /\ <<Ensure("skill_change_requests")>> \in Forms /\ <<Ensure("skill_assignments")>> \in Forms
        /\ <<Ensure("skill_spec_links")>> \in Forms /\ <<Ensure("agent_skill_versions")>> \in Forms
    BY SingleStatements DEF SchemaTables
  <2>. QED BY <2>1 DEF SkillReviewTables
<1>4. TraceTables \in Forms
  <2>1. Ensure("code_trace_reports") \in Elsewhere /\ Ensure("code_trace_links") \in Elsewhere
    BY StatementsOf DEF SchemaTables
  <2>. QED BY <2>1, ShortMigrations DEF TraceTables, Forms
<1>5. UserColumns \in Forms
  <2>1. Add("users", "repo") \in Elsewhere /\ Add("users", "project_type_id") \in Elsewhere
    BY StatementsOf DEF SchemaTables, AddedColumns
  <2>. QED BY <2>1, ShortMigrations DEF UserColumns, Forms
<1>6. OperatingRules \in Forms
  <2>1. /\ Rewrite("rules", 29, 31) \in Elsewhere /\ Rewrite("rules", 0, 31) \in Elsewhere
        /\ Rewrite("rules_recorded", 0, 31) \in Elsewhere
    BY StatementsOf DEF TextNames
  <2>. QED BY <2>1, ShortMigrations DEF OperatingRules, Forms
<1>7. BaselineTexts \in Forms
  <2>1. Rewrite("baseline", 0, 33) \in Elsewhere /\ Rewrite("baseline_recorded", 0, 33) \in Elsewhere
    BY StatementsOf DEF TextNames
  <2>. QED BY <2>1, ShortMigrations DEF BaselineTexts, Forms
<1>8. UsageTables \in Forms /\ MarketplaceTables \in Forms
  BY SingleStatements DEF SchemaTables, UsageTables, MarketplaceTables
<1>9. GateColumns \in Forms
  <2>1. Add("skill_candidates", "gate_status") \in Elsewhere /\ Add("skill_candidates", "gate_results") \in Elsewhere
    BY StatementsOf DEF SchemaTables, AddedColumns
  <2>. QED BY <2>1, ShortMigrations DEF GateColumns, Forms
<1>10. ProvenanceColumns \in Forms
  <2>1. \A c \in AddedColumns : Add("agent_skills", c) \in Elsewhere
    BY StatementsOf DEF SchemaTables
  <2>2. /\ Add("agent_skills", "source_candidate_id") \in Elsewhere /\ Add("agent_skills", "source_url") \in Elsewhere
        /\ Add("agent_skills", "source_path") \in Elsewhere /\ Add("agent_skills", "source_commit") \in Elsewhere
        /\ Add("agent_skills", "imported_at") \in Elsewhere /\ Add("agent_skills", "transformed_by") \in Elsewhere
        /\ Add("agent_skills", "transformation_note") \in Elsewhere
        /\ Add("agent_skills", "upstream_content_hash") \in Elsewhere
    BY <2>1 DEF AddedColumns
  <2>3. ProvenanceColumns \in Seq(Elsewhere)
    BY <2>2 DEF ProvenanceColumns
  <2>4. ProvenanceColumns # <<>>
    BY DEF ProvenanceColumns
  <2>. QED BY <2>3, <2>4 DEF Plain, Forms
<1>. QED BY <1>1, <1>2, <1>3, <1>4, <1>5, <1>6, <1>7, <1>8, <1>9, <1>10

\* Every migration is of plain statements or one of the three that rebuild webhooks and reports.
LEMMA MigrationsAreKnown == MIGRATIONS \in Seq(Forms)
<1>1. /\ \A t \in SchemaTables : <<Ensure(t)>> \in Forms
      /\ \A c \in AddedColumns :
           /\ <<Add("change_requests", c)>> \in Forms /\ <<Add("spec_versions", c)>> \in Forms
           /\ <<Add("project_types", c)>> \in Forms /\ <<Add("specs", c)>> \in Forms
           /\ <<Add("agent_feedback", c)>> \in Forms /\ <<Add("tokens", c)>> \in Forms
           /\ <<Add("code_trace_links", c)>> \in Forms
  BY SingleStatements DEF SchemaTables
<1>2. SpecsRebuild \in Forms /\ WebhooksRebuild \in Forms /\ FeedbackRebuild \in Forms /\ FeedbackRepair \in Forms
  BY SpecsMove DEF Forms
<1>. DEFINE first == <<<<Add("change_requests", "compatibility")>>, <<Add("change_requests", "lint")>>,
              <<Add("spec_versions", "channel")>>, <<Add("project_types", "required_reviewers")>>,
              WebhooksRebuild>>
<1>3. first \in Seq(Forms)
  <2>1. <<Add("change_requests", "compatibility")>> \in Forms /\ <<Add("change_requests", "lint")>> \in Forms
    BY <1>1 DEF AddedColumns
  <2>2. <<Add("spec_versions", "channel")>> \in Forms /\ <<Add("project_types", "required_reviewers")>> \in Forms
    BY <1>1 DEF AddedColumns
  <2>. QED BY <1>2, <2>1, <2>2
<1>. DEFINE second == <<<<Add("change_requests", "contradictions")>>, <<Ensure("repo_consumers")>>,
              SpecsRebuild, <<Add("change_requests", "risk")>>, <<Ensure("spec_embeddings")>>,
              <<Ensure("agent_skills")>>, <<Add("specs", "audit_prompt")>>,
              <<Add("specs", "deleted_at")>>, TraceTables, UserColumns,
              <<Ensure("compliance_attestations")>>, <<Ensure("agent_sessions")>>,
              FeedbackRebuild, <<Rewrite("load", 0, 22)>>,
              <<Add("agent_feedback", "project_type_id")>>, <<Add("agent_feedback", "languages")>>,
              <<Add("agent_feedback", "topic")>>, <<Ensure("harness_proposals")>>,
              <<Add("tokens", "expires_at")>>>>
<1>4. second \in Seq(Forms)
  <2>1. <<Add("change_requests", "contradictions")>> \in Forms /\ <<Add("change_requests", "risk")>> \in Forms
    BY <1>1 DEF AddedColumns
  <2>2. <<Add("specs", "audit_prompt")>> \in Forms /\ <<Add("specs", "deleted_at")>> \in Forms
    BY <1>1 DEF AddedColumns
  <2>3. <<Add("agent_feedback", "project_type_id")>> \in Forms /\ <<Add("agent_feedback", "languages")>> \in Forms
    BY <1>1 DEF AddedColumns
  <2>4. <<Add("agent_feedback", "topic")>> \in Forms /\ <<Add("tokens", "expires_at")>> \in Forms
    BY <1>1 DEF AddedColumns
  <2>5. <<Ensure("repo_consumers")>> \in Forms /\ <<Ensure("spec_embeddings")>> \in Forms /\ <<Ensure("agent_skills")>> \in Forms
    BY <1>1 DEF SchemaTables
  <2>6. /\ <<Ensure("compliance_attestations")>> \in Forms /\ <<Ensure("agent_sessions")>> \in Forms
        /\ <<Ensure("harness_proposals")>> \in Forms
    BY <1>1 DEF SchemaTables
  <2>7. <<Rewrite("load", 0, 22)>> \in Forms
    BY SingleStatements DEF TextNames
  <2>8. TraceTables \in Forms /\ UserColumns \in Forms
    BY NamedMigrations
  <2>. QED BY <1>2, <2>1, <2>2, <2>3, <2>4, <2>5, <2>6, <2>7, <2>8, SMTT(60)
<1>. DEFINE third == <<OperatingRules, FeedbackRepair, BaselineTexts, UsageTables, MarketplaceTables,
              GateColumns, ProvenanceColumns>>
<1>5. third \in Seq(Forms)
  BY <1>2, NamedMigrations
<1>. DEFINE last == <<<<Ensure("audit_reports")>>, <<Add("code_trace_links", "entity_path")>>,
              <<Add("code_trace_links", "spec_section")>>, <<Ensure("agent_states")>>>>
<1>6. last \in Seq(Forms)
  <2>1. <<Ensure("audit_reports")>> \in Forms /\ <<Ensure("agent_states")>> \in Forms
    BY <1>1 DEF SchemaTables
  <2>2. <<Add("code_trace_links", "entity_path")>> \in Forms /\ <<Add("code_trace_links", "spec_section")>> \in Forms
    BY <1>1 DEF AddedColumns
  <2>. QED BY <2>1, <2>2
<1>7. MIGRATIONS = first \o ReviewTables \o second \o LoopTexts \o third \o SkillReviewTables \o last
  BY DEF MIGRATIONS
<1>. HIDE DEF first, second, third, last
<1>8. first \o ReviewTables \o second \in Seq(Forms)
  BY <1>3, <1>4, NamedMigrations, Joined
<1>9. first \o ReviewTables \o second \o LoopTexts \o third \in Seq(Forms)
  BY <1>5, <1>8, NamedMigrations, Joined
<1>10. first \o ReviewTables \o second \o LoopTexts \o third \o SkillReviewTables \o last \in Seq(Forms)
  BY <1>6, <1>9, NamedMigrations, Joined
<1>. QED BY <1>7, <1>10

(***************************************************************************)
(* What is in the tables.                                                  *)
(***************************************************************************)
LEMMA TableNamesOf ==
  /\ \A c \in CopyTables : c \in TableNames
  /\ \A t \in SchemaTables : t \in TableNames
  /\ \A o \in Origins : o \in TableNames
  /\ "specs" \in TableNames /\ "specs_new" \in TableNames
<1>1. "specs_new" \in TableNames /\ \A c \in CopyTables : c \in TableNames
  BY DEF CopyTables, TableNames, Copies
<1>2. \A t \in SchemaTables : t \in DOMAIN BaseTables \/ t \in DOMAIN LaterTables
  BY DEF SchemaTables, BaseTables, LaterTables
<1>3. DOMAIN Schema = DOMAIN BaseTables \cup DOMAIN LaterTables
  BY DEF Schema
<1>4. \A t \in SchemaTables : t \in TableNames
  BY <1>2, <1>3 DEF TableNames
<1>5. "specs" \in SchemaTables /\ \A o \in Origins : o \in SchemaTables
  BY DEF Origins, SchemaTables
<1>. QED BY <1>1, <1>4, <1>5

LEMMA TablesDiffer ==
  /\ \A c \in CopyTables : c \notin SchemaTables /\ c # "specs_new" /\ c \notin Origins
  /\ "specs_new" \notin Origins /\ "specs" \notin Origins /\ "specs" \in SchemaTables
BY DEF CopyTables, SchemaTables, Origins

IsRow(r) == r = [columns |-> r.columns, rows |-> r.rows] /\ r.rows \in BOOLEAN
IsTables(ts) == ts = [t \in TableNames |-> ts[t]] /\ \A t \in TableNames : IsRow(ts[t])

IsOpener(o) ==
  /\ o = [version |-> o.version, statement |-> o.statement, fk |-> o.fk]
  /\ o.version \in 1..Newest => o.statement \in 1..Len(MIGRATIONS[o.version])

UpgradesTyped ==
  /\ IsTables(tables) /\ DOMAIN texts = DOMAIN LatestText
  /\ openers = [p \in Openers |-> openers[p]] /\ \A p \in Openers : IsOpener(openers[p])

LEMMA RowsOf ==
  /\ IsRow(NoTable) /\ ~NoTable.rows
  /\ \A cs : IsRow([columns |-> cs, rows |-> FALSE]) /\ ~[columns |-> cs, rows |-> FALSE].rows
BY DEF IsRow, NoTable

\* One table is changed, or renamed.
Put(t, r) == [tables EXCEPT ![t] = r]
Moved(t, to) == [tables EXCEPT ![to] = tables[t], ![t] = NoTable]
EmptyRow(cs) == [columns |-> cs, rows |-> FALSE]
Wider(t, c) == [tables[t] EXCEPT !.columns = @ \cup {c}]
Fuller(to, t) == [tables[to] EXCEPT !.rows = @ \/ tables[t].rows]

LEMMA RowChanges ==
  ASSUME IsTables(tables), NEW t \in TableNames, NEW r, IsRow(r), NEW ts, ts = Put(t, r)
  PROVE  IsTables(ts) /\ ts[t] = r /\ \A u \in TableNames \ {t} : ts[u] = tables[u]
<1>1. tables = [u \in TableNames |-> tables[u]] /\ \A u \in TableNames : IsRow(tables[u])
  BY DEF IsTables
<1>2. ts = [u \in TableNames |-> IF u = t THEN r ELSE tables[u]]
  BY <1>1 DEF Put
<1>3. ts[t] = r /\ \A u \in TableNames \ {t} : ts[u] = tables[u]
  BY <1>2
<1>4. ts = [u \in TableNames |-> ts[u]]
  BY <1>2
<1>5. \A u \in TableNames : IsRow(ts[u])
  BY <1>1, <1>3
<1>. QED BY <1>3, <1>4, <1>5 DEF IsTables

LEMMA Renamed ==
  ASSUME IsTables(tables), NEW t \in TableNames, NEW to \in TableNames, t # to,
         NEW ts, ts = Moved(t, to)
  PROVE  /\ IsTables(ts) /\ ts[to] = tables[t] /\ ts[t] = NoTable
         /\ \A u \in TableNames \ {t, to} : ts[u] = tables[u]
<1>1. tables = [u \in TableNames |-> tables[u]] /\ \A u \in TableNames : IsRow(tables[u])
  BY DEF IsTables
<1>2. ts = [u \in TableNames |-> IF u = t THEN NoTable ELSE IF u = to THEN tables[t] ELSE tables[u]]
  BY <1>1 DEF Moved
<1>3. /\ ts[to] = tables[t] /\ ts[t] = NoTable
      /\ \A u \in TableNames \ {t, to} : ts[u] = tables[u]
  BY <1>2
<1>4. ts = [u \in TableNames |-> ts[u]]
  BY <1>2
<1>5. \A u \in TableNames : IsRow(ts[u])
  BY <1>1, <1>3, RowsOf
<1>. QED BY <1>3, <1>4, <1>5 DEF IsTables

\* What the statements do, one by one.
LEMMA ChangesMade ==
  /\ \A t : Changed(Ensure(t)) = IF Present(t) THEN tables
                               ELSE Put(t, EmptyRow(Schema[t]))
  /\ \A t, c : Changed(Add(t, c)) = Put(t, Wider(t, c))
  /\ \A t, to : Changed(Rename(t, to)) = Moved(t, to)
  /\ \A t, cs : Changed(Create(t, cs)) = Put(t, EmptyRow(cs))
  /\ \A t, to : Changed(Copy(t, to)) = Put(to, Fuller(to, t))
  /\ \A t : Changed(Drop(t)) = Put(t, NoTable)
  /\ \A t : Changed(DropIf(t)) = Put(t, NoTable)
  /\ Changed(ForeignKeys(TRUE)) = tables /\ Changed(ForeignKeys(FALSE)) = tables
  /\ \A k, old, new : Changed(Rewrite(k, old, new)) = tables
<1>1. \A t : Changed(Ensure(t)) = IF Present(t) THEN tables
                               ELSE Put(t, EmptyRow(Schema[t]))
  BY DEF Changed, Ensure, Put, EmptyRow
<1>2. \A t, c : Changed(Add(t, c)) = Put(t, Wider(t, c))
  BY DEF Changed, Add, Put, Wider
<1>3. \A t, to : Changed(Rename(t, to)) = Moved(t, to)
  BY DEF Changed, Rename, Moved
<1>4. \A t, cs : Changed(Create(t, cs)) = Put(t, EmptyRow(cs))
  BY DEF Changed, Create, Put, EmptyRow
<1>5. \A t, to : Changed(Copy(t, to)) = Put(to, Fuller(to, t))
  BY DEF Changed, Copy, Put, Fuller
<1>6. \A t : Changed(Drop(t)) = Put(t, NoTable)
  BY DEF Changed, Drop, Put
<1>7. \A t : Changed(DropIf(t)) = Put(t, NoTable)
  BY DEF Changed, DropIf, Put
<1>8. Changed(ForeignKeys(TRUE)) = tables /\ Changed(ForeignKeys(FALSE)) = tables
  BY DEF Changed, ForeignKeys
<1>9. \A k, old, new : Changed(Rewrite(k, old, new)) = tables
  BY DEF Changed, Rewrite
<1>. QED BY <1>1, <1>2, <1>3, <1>4, <1>5, <1>6, <1>7, <1>8, <1>9

\* When they fail.
LEMMA FailuresMade ==
  /\ \A t, to : Fails(Rename(t, to)) <=> ~Present(t) \/ Present(to)
  /\ \A t, cs : Fails(Create(t, cs)) <=> Present(t)
  /\ \A t : Fails(Drop(t)) <=> ~Present(t)
<1>1. \A t, to : Fails(Rename(t, to)) <=> ~Present(t) \/ Present(to)
  BY DEF Fails, Rename
<1>2. \A t, cs : Fails(Create(t, cs)) <=> Present(t)
  BY DEF Fails, Create
<1>3. \A t : Fails(Drop(t)) <=> ~Present(t)
  BY DEF Fails, Drop
<1>. QED BY <1>1, <1>2, <1>3

\* Plain statements leave webhooks, reports and their copies as they are.
LEMMA ElsewhereKeeps ==
  ASSUME IsTables(tables), NEW s \in Elsewhere, ~Fails(s), NEW ts, ts = Changed(s)
  PROVE  /\ IsTables(ts)
         /\ \A c \in CopyTables : ts[c] = tables[c]
         /\ \A o \in Origins : ts[o].rows = tables[o].rows
<1>1. \A t \in TableNames : IsRow(tables[t])
  BY DEF IsTables
<1>2. CASE \E t \in SchemaTables : s = Ensure(t)
  <2>1. PICK t \in SchemaTables : s = Ensure(t)
    BY <1>2
  <2>2. t \in TableNames
    BY TableNamesOf
  <2>3. CASE Present(t)
    BY <2>1, <2>3, ChangesMade
  <2>4. CASE ~Present(t)
    <3>1. PICK r : r = EmptyRow(Schema[t])
      OBVIOUS
    <3>2. IsRow(r) /\ ~r.rows /\ ~tables[t].rows
      BY <2>4, <3>1, RowsOf DEF Present, EmptyRow
    <3>3. ts = Put(t, r)
      BY <2>1, <2>4, <3>1, ChangesMade
    <3>4. IsTables(ts) /\ ts[t] = r /\ \A u \in TableNames \ {t} : ts[u] = tables[u]
      BY <2>2, <3>2, <3>3, RowChanges
    <3>5. \A c \in CopyTables : ts[c] = tables[c]
      BY <3>4, TablesDiffer, TableNamesOf
    <3>6. r.rows = tables[t].rows
      BY <1>1, <2>2, <3>2 DEF IsRow
    <3>7. \A o \in Origins : ts[o].rows = tables[o].rows
      BY <3>4, <3>6, TableNamesOf
    <3>. QED BY <3>4, <3>5, <3>7
  <2>. QED BY <2>3, <2>4
<1>3. CASE \E t \in SchemaTables, c \in AddedColumns : s = Add(t, c)
  <2>1. PICK t \in SchemaTables, column \in AddedColumns : s = Add(t, column)
    BY <1>3
  <2>2. t \in TableNames
    BY TableNamesOf
  <2>3. PICK r : r = Wider(t, column)
    OBVIOUS
  <2>4. tables[t] = [columns |-> tables[t].columns, rows |-> tables[t].rows] /\ tables[t].rows \in BOOLEAN
    BY <1>1, <2>2 DEF IsRow
  <2>5. r = [columns |-> tables[t].columns \cup {column}, rows |-> tables[t].rows]
    BY <2>3, <2>4 DEF Wider
  <2>6. IsRow(r) /\ r.rows = tables[t].rows
    BY <2>4, <2>5 DEF IsRow
  <2>7. ts = Put(t, r)
    BY <2>1, <2>3, ChangesMade
  <2>8. IsTables(ts) /\ ts[t] = r /\ \A u \in TableNames \ {t} : ts[u] = tables[u]
    BY <2>2, <2>6, <2>7, RowChanges
  <2>9. \A c \in CopyTables : ts[c] = tables[c]
    BY <2>8, TablesDiffer, TableNamesOf
  <2>10. \A o \in Origins : ts[o].rows = tables[o].rows
    BY <2>6, <2>8, TableNamesOf
  <2>. QED BY <2>8, <2>9, <2>10
<1>4. CASE s \in Rewrites \cup Switches
  <2>1. s \in Rewrites => ts = tables
    BY ChangesMade DEF Rewrites
  <2>2. s \in Switches => ts = tables
    BY ChangesMade DEF Switches
  <2>. QED BY <1>4, <2>1, <2>2
<1>5. CASE s = Create("specs_new", {"project_id"})
  <2>1. PICK r : r = EmptyRow({"project_id"})
    OBVIOUS
  <2>2. IsRow(r)
    BY <2>1, RowsOf DEF EmptyRow
  <2>3. ts = Put("specs_new", r)
    BY <1>5, <2>1, ChangesMade
  <2>4. IsTables(ts) /\ \A u \in TableNames \ {"specs_new"} : ts[u] = tables[u]
    BY <2>2, <2>3, RowChanges, TableNamesOf
  <2>. QED BY <2>4, TablesDiffer, TableNamesOf
<1>6. CASE s = Copy("specs", "specs_new")
  <2>1. PICK r : r = Fuller("specs_new", "specs")
    OBVIOUS
  <2>2. IsRow(tables["specs_new"]) /\ IsRow(tables["specs"])
    BY <1>1, TableNamesOf, TablesDiffer
  <2>3. r = [columns |-> tables["specs_new"].columns, rows |-> tables["specs_new"].rows \/ tables["specs"].rows]
    BY <2>1, <2>2 DEF IsRow, Fuller
  <2>4. IsRow(r)
    BY <2>3 DEF IsRow
  <2>5. ts = Put("specs_new", r)
    BY <1>6, <2>1, ChangesMade
  <2>6. IsTables(ts) /\ \A u \in TableNames \ {"specs_new"} : ts[u] = tables[u]
    BY <2>4, <2>5, RowChanges, TableNamesOf
  <2>. QED BY <2>6, TablesDiffer, TableNamesOf
<1>7. CASE s \in {DropIf("specs_new"), Drop("specs")}
  <2>1. PICK t \in {"specs_new", "specs"} : ts = Put(t, NoTable)
    BY <1>7, ChangesMade
  <2>2. t \in TableNames
    BY TableNamesOf, TablesDiffer
  <2>3. IsTables(ts) /\ \A u \in TableNames \ {t} : ts[u] = tables[u]
    BY <2>1, <2>2, RowsOf, RowChanges
  <2>. QED BY <2>3, TablesDiffer, TableNamesOf
<1>8. CASE s = Rename("specs_new", "specs")
  <2>1. ts = Moved("specs_new", "specs")
    BY <1>8, ChangesMade
  <2>2. IsTables(ts) /\ \A u \in TableNames \ {"specs", "specs_new"} : ts[u] = tables[u]
    BY <2>1, TableNamesOf, TablesDiffer, Renamed
  <2>. QED BY <2>2, TablesDiffer, TableNamesOf
<1>9. \/ \E t \in SchemaTables : s = Ensure(t)
      \/ \E t \in SchemaTables, c \in AddedColumns : s = Add(t, c)
      \/ s \in Rewrites \cup Switches
      \/ s \in SpecsMoves
  BY DEF Elsewhere, Ensures, Adds
<1>10. s \in SpecsMoves => \/ s = Create("specs_new", {"project_id"}) \/ s = Copy("specs", "specs_new")
                          \/ s \in {DropIf("specs_new"), Drop("specs")} \/ s = Rename("specs_new", "specs")
  BY DEF SpecsMoves
<1>. QED BY <1>2, <1>3, <1>4, <1>5, <1>6, <1>7, <1>8, <1>9, <1>10

(***************************************************************************)
(* Where an opener is.                                                     *)
(***************************************************************************)
Runs(p, m) == openers[p].version \in 1..Newest /\ MIGRATIONS[openers[p].version] = m

\* It has renamed the table, so that the copy is its own, and has not yet dropped it; it is
\* about to drop it.
Holds(p, c) == Runs(p, RebuildOf(c)) /\ openers[p].statement \in (Lead(c) + 2)..(Lead(c) + 4)
Drops(p, c) == Runs(p, RebuildOf(c)) /\ openers[p].statement = Lead(c) + 4

Family(c) == IF c = "webhooks_old" THEN Webhooks ELSE Reports

\* A copy has one opener that holds it, if any.
CopiesAreHeld ==
  \A p \in Openers, c \in CopyTables : Holds(p, c) =>
    Present(c) /\ \A q \in Openers : Holds(q, c) => q = p

\* The rows of what is about to be dropped are elsewhere, and where two are, in the table
\* they both come from.
RowsAreCopied ==
  \A p \in Openers, c \in CopyTables : Drops(p, c) =>
    /\ tables[c].rows => HasRows(Family(c) \ {c})
    /\ \A q \in Openers, d \in CopyTables \cap (Family(c) \ {c}) :
         Drops(q, d) /\ HasRows({c, d}) => tables[OriginOf(c)].rows

UpgradeInv == UpgradesTyped /\ CopiesAreHeld /\ RowsAreCopied

Rebuilds(c, i) ==
  CASE i = Lead(c) + 1 -> {Rename(OriginOf(c), c)}
    [] i = Lead(c) + 2 -> {Create(OriginOf(c), {"gchat"}), Create(OriginOf(c), Schema["agent_feedback"])}
    [] i = Lead(c) + 3 -> {Copy(c, OriginOf(c))}
    [] i = Lead(c) + 4 -> {Drop(c)}
    [] OTHER -> Switches

LEMMA RebuildsOf ==
  ASSUME NEW c \in CopyTables
  PROVE  /\ Len(RebuildOf(c)) \in Nat
         /\ \A i \in 1..Len(RebuildOf(c)) : RebuildOf(c)[i] \in Rebuilds(c, i)
         /\ RebuildOf(c) \notin Plain
         /\ \A d \in CopyTables : RebuildOf(d) = RebuildOf(c) => d = c
<1>1. /\ Len(WebhooksRebuild) = 4 /\ WebhooksRebuild[1] = Rename("webhooks", "webhooks_old")
      /\ WebhooksRebuild[2] = Create("webhooks", {"gchat"})
      /\ WebhooksRebuild[3] = Copy("webhooks_old", "webhooks") /\ WebhooksRebuild[4] = Drop("webhooks_old")
  BY DEF WebhooksRebuild
<1>2. /\ Len(FeedbackRebuild) = 4 /\ FeedbackRebuild[1] = Rename("agent_feedback", "agent_feedback_old")
      /\ FeedbackRebuild[2] = Create("agent_feedback", Schema["agent_feedback"])
      /\ FeedbackRebuild[3] = Copy("agent_feedback_old", "agent_feedback")
      /\ FeedbackRebuild[4] = Drop("agent_feedback_old")
  BY DEF FeedbackRebuild
<1>3. /\ Len(FeedbackRepair) = 6 /\ FeedbackRepair[1] = ForeignKeys(FALSE)
      /\ FeedbackRepair[2] = Rename("agent_feedback", "agent_feedback_v32_old")
      /\ FeedbackRepair[3] = Create("agent_feedback", Schema["agent_feedback"])
      /\ FeedbackRepair[4] = Copy("agent_feedback_v32_old", "agent_feedback")
      /\ FeedbackRepair[5] = Drop("agent_feedback_v32_old") /\ FeedbackRepair[6] = ForeignKeys(TRUE)
  BY DEF FeedbackRepair
<1>4. c = "webhooks_old" \/ c = "agent_feedback_old" \/ c = "agent_feedback_v32_old"
  BY DEF CopyTables
<1>5. /\ RebuildOf("webhooks_old") = WebhooksRebuild /\ OriginOf("webhooks_old") = "webhooks"
      /\ Lead("webhooks_old") = 0
      /\ RebuildOf("agent_feedback_old") = FeedbackRebuild /\ OriginOf("agent_feedback_old") = "agent_feedback"
      /\ Lead("agent_feedback_old") = 0
      /\ RebuildOf("agent_feedback_v32_old") = FeedbackRepair
      /\ OriginOf("agent_feedback_v32_old") = "agent_feedback" /\ Lead("agent_feedback_v32_old") = 1
  BY DEF RebuildOf, OriginOf, Lead
<1>6. /\ Len(RebuildOf(c)) \in Nat
      /\ \A i \in 1..Len(RebuildOf(c)) : RebuildOf(c)[i] \in Rebuilds(c, i)
  <2>1. CASE c = "webhooks_old"
    <3>. SUFFICES ASSUME NEW i \in 1..4 PROVE WebhooksRebuild[i] \in Rebuilds("webhooks_old", i)
      BY <1>1, <1>5, <2>1
    <3>1. i = 1 \/ i = 2 \/ i = 3 \/ i = 4
      OBVIOUS
    <3>. QED BY <1>1, <1>5, <3>1 DEF Rebuilds
  <2>2. CASE c = "agent_feedback_old"
    <3>. SUFFICES ASSUME NEW i \in 1..4 PROVE FeedbackRebuild[i] \in Rebuilds("agent_feedback_old", i)
      BY <1>2, <1>5, <2>2
    <3>1. i = 1 \/ i = 2 \/ i = 3 \/ i = 4
      OBVIOUS
    <3>. QED BY <1>2, <1>5, <3>1 DEF Rebuilds
  <2>3. CASE c = "agent_feedback_v32_old"
    <3>. SUFFICES ASSUME NEW i \in 1..6 PROVE FeedbackRepair[i] \in Rebuilds("agent_feedback_v32_old", i)
      BY <1>3, <1>5, <2>3
    <3>1. i = 1 \/ i = 2 \/ i = 3 \/ i = 4 \/ i = 5 \/ i = 6
      OBVIOUS
    <3>2. FeedbackRepair[1] \in Switches /\ FeedbackRepair[6] \in Switches
      BY <1>3 DEF Switches
    <3>3. CASE i = 1 \/ i = 6
      BY <1>5, <3>2, <3>3 DEF Rebuilds
    <3>4. CASE i = 2 \/ i = 3 \/ i = 4 \/ i = 5
      BY <1>3, <1>5, <3>4 DEF Rebuilds
    <3>. QED BY <3>1, <3>3, <3>4
  <2>. QED BY <1>4, <2>1, <2>2, <2>3
<1>7. RebuildOf(c) \notin Plain
  <2>1. /\ Lead(c) + 1 \in 1..Len(RebuildOf(c)) /\ RebuildOf(c)[Lead(c) + 1] = Rename(OriginOf(c), c)
        /\ OriginOf(c) # "specs_new"
    BY <1>1, <1>2, <1>3, <1>4, <1>5
  <2>2. Rename(OriginOf(c), c) \notin Elsewhere
    <3>1. \A s \in Elsewhere : s.op = "rename" => s.table = "specs_new"
      <4>1. \A s \in Ensures : s.op = "ensure"
        BY DEF Ensures, Ensure
      <4>2. \A s \in Adds : s.op = "add"
        BY DEF Adds, Add
      <4>3. \A s \in Rewrites : s.op = "rewrite"
        BY DEF Rewrites, Rewrite
      <4>4. \A s \in Switches : s.op = "fk"
        BY DEF Switches, ForeignKeys
      <4>5. \A s \in SpecsMoves : s.op = "rename" => s.table = "specs_new"
        BY DEF SpecsMoves, DropIf, Create, Copy, Drop, Rename
      <4>. QED BY <4>1, <4>2, <4>3, <4>4, <4>5 DEF Elsewhere
    <3>2. Rename(OriginOf(c), c).op = "rename" /\ Rename(OriginOf(c), c).table = OriginOf(c)
      BY DEF Rename
    <3>. QED BY <2>1, <3>1, <3>2
  <2>3. RebuildOf(c) \in Seq(Elsewhere) => RebuildOf(c)[Lead(c) + 1] \in Elsewhere
    BY <2>1
  <2>. QED BY <2>1, <2>2, <2>3 DEF Plain
<1>8. \A d \in CopyTables : RebuildOf(d) = RebuildOf(c) => d = c
  <2>1. /\ WebhooksRebuild[1] # FeedbackRebuild[1] /\ WebhooksRebuild[1] # FeedbackRepair[1]
        /\ FeedbackRebuild[1] # FeedbackRepair[1]
    BY <1>1, <1>2, <1>3 DEF Rename, ForeignKeys
  <2>. QED BY <1>5, <2>1 DEF CopyTables
<1>. QED BY <1>6, <1>7, <1>8

LEMMA NewestOf ==
  /\ Newest \in Nat
  /\ \A v \in 1..Newest : MIGRATIONS[v] \in Plain \/ \E c \in CopyTables : MIGRATIONS[v] = RebuildOf(c)
  /\ \A v \in 1..Newest : Len(MIGRATIONS[v]) \in Nat /\ 1 \in 1..Len(MIGRATIONS[v])
<1>1. Newest \in Nat /\ \A v \in 1..Newest : MIGRATIONS[v] \in Forms
  BY MigrationsAreKnown DEF Newest
<1>2. \A m \in Forms : m \in Plain \/ \E c \in CopyTables : m = RebuildOf(c)
  <2>1. /\ RebuildOf("webhooks_old") = WebhooksRebuild /\ RebuildOf("agent_feedback_old") = FeedbackRebuild
        /\ RebuildOf("agent_feedback_v32_old") = FeedbackRepair
    BY DEF RebuildOf
  <2>. QED BY <2>1 DEF Forms, CopyTables
<1>3. \A m \in Plain : Len(m) \in Nat /\ 1 \in 1..Len(m)
  BY DEF Plain
<1>4. \A c \in CopyTables : Len(RebuildOf(c)) \in Nat /\ 1 \in 1..Len(RebuildOf(c))
  BY DEF CopyTables, RebuildOf, WebhooksRebuild, FeedbackRebuild, FeedbackRepair
<1>. QED BY <1>1, <1>2, <1>3, <1>4

LEMMA InitUpgradeInv == MigrationsInit => UpgradeInv
<1>. SUFFICES ASSUME MigrationsInit PROVE UpgradeInv
  OBVIOUS
<1>1. IsTables(tables)
  <2>1. \A v : IsTables(TablesAt(v))
    <3>. SUFFICES ASSUME NEW v PROVE IsTables(TablesAt(v))
      OBVIOUS
    <3>1. \A t \in TableNames : \/ TablesAt(v)[t] = NoTable
                              \/ TablesAt(v)[t] = [columns |-> ColumnsAt(v, t), rows |-> t \in Rebuilt]
      BY DEF TablesAt
    <3>2. \A t \in TableNames : IsRow(TablesAt(v)[t])
      <4>. SUFFICES ASSUME NEW t \in TableNames PROVE IsRow(TablesAt(v)[t])
        OBVIOUS
      <4>1. PICK r : r = [columns |-> ColumnsAt(v, t), rows |-> t \in Rebuilt]
        OBVIOUS
      <4>2. r.columns = ColumnsAt(v, t) /\ r.rows = (t \in Rebuilt) /\ r = [columns |-> r.columns, rows |-> r.rows]
        BY <4>1
      <4>3. r.rows \in BOOLEAN
        BY <4>2
      <4>. QED BY <3>1, <4>1, <4>2, <4>3, RowsOf DEF IsRow
    <3>3. TablesAt(v) = [t \in TableNames |-> TablesAt(v)[t]]
      BY DEF TablesAt
    <3>. QED BY <3>2, <3>3 DEF IsTables
  <2>2. CASE tables = [t \in TableNames |-> NoTable]
    BY <2>2, RowsOf DEF IsTables
  <2>3. CASE tables = [TablesAt(stored) EXCEPT !["agent_feedback"].columns = @ \ {"nullable"}]
    <3>1. PICK old : old = TablesAt(stored) /\ IsTables(old)
      BY <2>1
    <3>2. tables = [t \in TableNames |->
            IF t = "agent_feedback" THEN [old[t] EXCEPT !.columns = @ \ {"nullable"}] ELSE old[t]]
      BY <2>3, <3>1 DEF IsTables
    <3>3. \A t \in TableNames : IsRow(tables[t])
      <4>. SUFFICES ASSUME NEW t \in TableNames PROVE IsRow(tables[t])
        OBVIOUS
      <4>1. IsRow(old[t])
        BY <3>1 DEF IsTables
      <4>2. IsRow([old[t] EXCEPT !.columns = @ \ {"nullable"}])
        BY <4>1 DEF IsRow
      <4>. QED BY <3>2, <4>1, <4>2
    <3>4. tables = [t \in TableNames |-> tables[t]]
      BY <3>2
    <3>. QED BY <3>3, <3>4 DEF IsTables
  <2>. QED BY <2>1, <2>2, <2>3 DEF MigrationsInit
<1>2. DOMAIN texts = DOMAIN LatestText
  BY DEF MigrationsInit, TextsAt
<1>3. \A p \in Openers : openers[p] = Closed
  BY DEF MigrationsInit
<1>4. Closed.version \notin 1..Newest /\ IsOpener(Closed)
  BY NewestOf DEF Closed, IsOpener
<1>5. openers = [p \in Openers |-> openers[p]]
  BY DEF MigrationsInit
<1>6. UpgradesTyped
  BY <1>1, <1>2, <1>3, <1>4, <1>5 DEF UpgradesTyped
<1>7. \A p \in Openers, c \in CopyTables : ~Holds(p, c) /\ ~Drops(p, c)
  BY <1>3, <1>4 DEF Holds, Drops, Runs
<1>. QED BY <1>6, <1>7 DEF UpgradeInv, CopiesAreHeld, RowsAreCopied

LEMMA FamiliesOf ==
  /\ \A c \in CopyTables : OriginOf(c) \in Origins /\ OriginOf(c) \in Family(c) /\ c \in Family(c)
  /\ \A c, d \in CopyTables : d \in Family(c) => Family(d) = Family(c) /\ OriginOf(d) = OriginOf(c)
  /\ \A c, d \in CopyTables : d \notin Family(c) => Family(d) \cap Family(c) = {}
  /\ \A c, d, e \in CopyTables : d \in Family(c) /\ e \in Family(c) => d = e \/ d = c \/ e = c
  /\ \A c \in CopyTables : \A t \in Family(c) : t \in CopyTables \/ t = OriginOf(c)
<1>1. /\ Family("webhooks_old") = Webhooks /\ OriginOf("webhooks_old") = "webhooks"
      /\ Family("agent_feedback_old") = Reports /\ OriginOf("agent_feedback_old") = "agent_feedback"
      /\ Family("agent_feedback_v32_old") = Reports /\ OriginOf("agent_feedback_v32_old") = "agent_feedback"
  BY DEF Family, OriginOf
<1>2. \A c \in CopyTables : c = "webhooks_old" \/ c = "agent_feedback_old" \/ c = "agent_feedback_v32_old"
  BY DEF CopyTables
<1>3. \A c \in CopyTables : OriginOf(c) \in Origins /\ OriginOf(c) \in Family(c) /\ c \in Family(c)
  BY <1>1, <1>2 DEF Origins, Webhooks, Reports
<1>4. \A c, d \in CopyTables : d \in Family(c) => Family(d) = Family(c) /\ OriginOf(d) = OriginOf(c)
  BY <1>1, <1>2 DEF Webhooks, Reports
<1>5. \A c, d \in CopyTables : d \notin Family(c) => Family(d) \cap Family(c) = {}
  BY <1>1, <1>2 DEF Webhooks, Reports
<1>6. \A c, d, e \in CopyTables : d \in Family(c) /\ e \in Family(c) => d = e \/ d = c \/ e = c
  BY <1>1, <1>2 DEF Webhooks, Reports
<1>7. \A c \in CopyTables : \A t \in Family(c) : t \in CopyTables \/ t = OriginOf(c)
  BY <1>1, <1>2 DEF Webhooks, Reports, CopyTables
<1>. QED BY <1>3, <1>4, <1>5, <1>6, <1>7

\* What the rows are kept in.
RowsStay == \A c \in CopyTables : HasRows(Family(c)) => HasRows(Family(c))'

\* Where nobody renames, copies or drops, everything stays as it is.
LEMMA QuietStep ==
  ASSUME UpgradeInv, UpgradesTyped',
         \A c \in CopyTables : tables'[c] = tables[c],
         \A o \in Origins : tables'[o].rows = tables[o].rows,
         \A q \in Openers, c \in CopyTables : (Holds(q, c)' => Holds(q, c)) /\ (Drops(q, c)' => Drops(q, c))
  PROVE  UpgradeInv' /\ RowsStay
<1>1. \A c \in CopyTables : \A t \in Family(c) : tables'[t].rows = tables[t].rows
  BY FamiliesOf
<1>2. \A c \in CopyTables : \A f \in SUBSET Family(c) : HasRows(f)' <=> HasRows(f)
  BY <1>1 DEF HasRows
<1>3. \A c \in CopyTables : Present(c)' <=> Present(c)
  BY DEF Present
<1>4. CopiesAreHeld'
  BY <1>3 DEF UpgradeInv, CopiesAreHeld
<1>5. RowsAreCopied'
  <2>. SUFFICES ASSUME NEW p \in Openers, NEW c \in CopyTables, Drops(p, c)'
                PROVE  /\ tables'[c].rows => HasRows(Family(c) \ {c})'
                       /\ \A q \in Openers, d \in CopyTables \cap (Family(c) \ {c}) :
                            Drops(q, d)' /\ HasRows({c, d})' => tables'[OriginOf(c)].rows
    BY DEF RowsAreCopied
  <2>1. /\ tables[c].rows => HasRows(Family(c) \ {c})
        /\ \A q \in Openers, d \in CopyTables \cap (Family(c) \ {c}) :
             Drops(q, d) /\ HasRows({c, d}) => tables[OriginOf(c)].rows
    BY DEF UpgradeInv, RowsAreCopied
  <2>2. HasRows(Family(c) \ {c})' <=> HasRows(Family(c) \ {c})
    BY <1>2
  <2>3. \A d \in CopyTables \cap (Family(c) \ {c}) : HasRows({c, d})' <=> HasRows({c, d})
    BY <1>2, FamiliesOf
  <2>4. tables'[OriginOf(c)].rows = tables[OriginOf(c)].rows
    BY <1>1, FamiliesOf
  <2>. QED BY <2>1, <2>2, <2>3, <2>4
<1>6. RowsStay
  BY <1>2 DEF RowsStay
<1>. QED BY <1>4, <1>5, <1>6 DEF UpgradeInv

\* The opener p is in the migration that makes copy c.
GoesOn(p, c) ==
  /\ \A q \in Openers \ {p}, d \in CopyTables : (Holds(q, d)' => Holds(q, d)) /\ (Drops(q, d)' => Drops(q, d))
  /\ \A d \in CopyTables : Holds(p, d)' => d = c /\ openers[p].statement \in (Lead(c) + 1)..(Lead(c) + 3)
  /\ \A d \in CopyTables : Drops(p, d)' => d = c /\ openers[p].statement = Lead(c) + 3

LEMMA LeadOf == \A c : Lead(c) \in Nat
BY DEF Lead

LEMMA DropsHold == \A p, c : Drops(p, c) => Holds(p, c)
BY LeadOf DEF Drops, Holds

LEMMA RenameStep ==
  ASSUME UpgradeInv, UpgradesTyped', NEW p \in Openers, NEW c \in CopyTables, GoesOn(p, c),
         openers[p].statement = Lead(c) + 1, Present(OriginOf(c)), ~Present(c),
         tables'[c] = tables[OriginOf(c)], ~tables'[OriginOf(c)].rows,
         \A t \in (CopyTables \cup Origins) \ {c, OriginOf(c)} : tables'[t] = tables[t]
  PROVE  UpgradeInv' /\ RowsStay
<1>1. \A q \in Openers : ~Holds(q, c) /\ ~Drops(q, c)
  BY DropsHold DEF UpgradeInv, CopiesAreHeld
<1>2. ~tables[c].rows
  BY RowsOf DEF Present
<1>3. \A d \in CopyTables \ {c} : tables'[d] = tables[d]
  BY FamiliesOf, TablesDiffer
<1>4. \A d \in CopyTables : Holds(p, d)' => d = c
  BY DEF GoesOn
<1>5. \A d \in CopyTables : ~Drops(p, d)'
  BY LeadOf DEF GoesOn
<1>6. \A q \in Openers, d \in CopyTables : Drops(q, d)' => q # p /\ d # c /\ Drops(q, d)
  BY <1>1, <1>5 DEF GoesOn
<1>7. \A q \in Openers, d \in CopyTables : Holds(q, d)' => (q = p /\ d = c) \/ (q # p /\ d # c /\ Holds(q, d))
  BY <1>1, <1>4 DEF GoesOn
<1>8. Present(c)' /\ \A d \in CopyTables \ {c} : Present(d)' <=> Present(d)
  BY <1>3 DEF Present
<1>9. CopiesAreHeld'
  BY <1>7, <1>8 DEF UpgradeInv, CopiesAreHeld
<1>10. \A f : c \in f /\ HasRows(f) /\ f \subseteq Family(c) => HasRows(f)'
  <2>. SUFFICES ASSUME NEW f \in SUBSET Family(c), c \in f, NEW t \in f, tables[t].rows
                PROVE  \E u \in f : tables'[u].rows
    BY DEF HasRows
  <2>1. CASE t = OriginOf(c)
    BY <2>1
  <2>2. CASE t # OriginOf(c)
    <3>1. t \in CopyTables \ {c}
      BY <1>2, <2>2, FamiliesOf
    <3>. QED BY <1>3, <3>1
  <2>. QED BY <2>1, <2>2
<1>11. \A d \in CopyTables : d \notin Family(c) => \A f \in SUBSET Family(d) : HasRows(f)' <=> HasRows(f)
  <2>. SUFFICES ASSUME NEW d \in CopyTables, d \notin Family(c), NEW t \in Family(d)
                PROVE  tables'[t].rows = tables[t].rows
    BY DEF HasRows
  <2>1. t # c /\ t # OriginOf(c) /\ (t \in CopyTables \/ t \in Origins)
    BY FamiliesOf
  <2>. QED BY <2>1
<1>12. RowsAreCopied'
  <2>. SUFFICES ASSUME NEW q \in Openers, NEW d \in CopyTables, Drops(q, d)'
                PROVE  /\ tables'[d].rows => HasRows(Family(d) \ {d})'
                       /\ \A r \in Openers, e \in CopyTables \cap (Family(d) \ {d}) :
                            Drops(r, e)' /\ HasRows({d, e})' => tables'[OriginOf(d)].rows
    BY DEF RowsAreCopied
  <2>1. d # c /\ Drops(q, d)
    BY <1>6
  <2>2. /\ tables[d].rows => HasRows(Family(d) \ {d})
        /\ \A r \in Openers, e \in CopyTables \cap (Family(d) \ {d}) :
             Drops(r, e) /\ HasRows({d, e}) => tables[OriginOf(d)].rows
    BY <2>1 DEF UpgradeInv, RowsAreCopied
  <2>3. tables'[d] = tables[d]
    BY <1>3, <2>1
  <2>4. CASE d \in Family(c)
    <3>1. Family(d) = Family(c) /\ c \in Family(d) \ {d}
      BY <2>1, <2>4, FamiliesOf
    <3>2. tables'[d].rows => HasRows(Family(d) \ {d})'
      BY <1>10, <2>2, <2>3, <3>1
    <3>3. \A r \in Openers, e \in CopyTables \cap (Family(d) \ {d}) : ~Drops(r, e)'
      <4>1. \A e \in CopyTables \cap (Family(d) \ {d}) : e = c
        BY <2>1, <2>4, <3>1, FamiliesOf
      <4>. QED BY <1>6, <4>1
    <3>. QED BY <3>2, <3>3
  <2>5. CASE d \notin Family(c)
    <3>1. HasRows(Family(d) \ {d})' <=> HasRows(Family(d) \ {d})
      BY <1>11, <2>5
    <3>2. \A e \in CopyTables \cap (Family(d) \ {d}) : HasRows({d, e})' <=> HasRows({d, e})
      BY <1>11, <2>5, FamiliesOf
    <3>3. tables'[OriginOf(d)] = tables[OriginOf(d)]
      BY <2>5, FamiliesOf, TablesDiffer
    <3>4. \A r \in Openers, e \in CopyTables : Drops(r, e)' => Drops(r, e)
      BY <1>6
    <3>. QED BY <2>2, <2>3, <3>1, <3>2, <3>3, <3>4
  <2>. QED BY <2>4, <2>5
<1>13. RowsStay
  <2>. SUFFICES ASSUME NEW d \in CopyTables, HasRows(Family(d)) PROVE HasRows(Family(d))'
    BY DEF RowsStay
  <2>1. CASE d \in Family(c)
    BY <1>10, <2>1, FamiliesOf
  <2>2. CASE d \notin Family(c)
    BY <1>11, <2>2
  <2>. QED BY <2>1, <2>2
<1>. QED BY <1>9, <1>12, <1>13 DEF UpgradeInv

LEMMA CopyStep ==
  ASSUME UpgradeInv, UpgradesTyped', NEW p \in Openers, NEW c \in CopyTables, GoesOn(p, c),
         Runs(p, RebuildOf(c)), openers[p].statement = Lead(c) + 3,
         tables'[OriginOf(c)].rows <=> (tables[OriginOf(c)].rows \/ tables[c].rows),
         \A t \in (CopyTables \cup Origins) \ {OriginOf(c)} : tables'[t] = tables[t]
  PROVE  UpgradeInv' /\ RowsStay
<1>1. \A d \in CopyTables : tables'[d] = tables[d] /\ (Present(d)' <=> Present(d))
  BY FamiliesOf, TablesDiffer DEF Present
<1>2. Holds(p, c)
  BY LeadOf DEF Holds
<1>3. \A q \in Openers, d \in CopyTables : Holds(q, d)' => Holds(q, d)
  BY <1>2 DEF GoesOn
<1>4. CopiesAreHeld'
  BY <1>1, <1>3 DEF UpgradeInv, CopiesAreHeld
<1>5. \A q \in Openers, d \in CopyTables : Drops(q, d)' => (q = p /\ d = c) \/ (q # p /\ d # c /\ Drops(q, d))
  <2>. SUFFICES ASSUME NEW q \in Openers, NEW d \in CopyTables, Drops(q, d)', ~ (q = p /\ d = c)
                PROVE  q # p /\ d # c /\ Drops(q, d)
    OBVIOUS
  <2>1. q # p /\ Drops(q, d)
    BY DEF GoesOn
  <2>. QED BY <1>2, <2>1, DropsHold DEF UpgradeInv, CopiesAreHeld
<1>6. \A d \in CopyTables : \A t \in Family(d) : tables[t].rows => tables'[t].rows
  <2>. SUFFICES ASSUME NEW d \in CopyTables, NEW t \in Family(d), tables[t].rows PROVE tables'[t].rows
    OBVIOUS
  <2>1. t \in CopyTables \/ t \in Origins
    BY FamiliesOf
  <2>. QED BY <2>1
<1>7. \A d \in CopyTables : \A f \in SUBSET Family(d) : HasRows(f) => HasRows(f)'
  BY <1>6 DEF HasRows
<1>8. \A d \in CopyTables : \A e \in CopyTables : HasRows({d, e})' => HasRows({d, e})
  BY <1>1 DEF HasRows
<1>9. RowsAreCopied'
  <2>. SUFFICES ASSUME NEW q \in Openers, NEW d \in CopyTables, Drops(q, d)'
                PROVE  /\ tables'[d].rows => HasRows(Family(d) \ {d})'
                       /\ \A r \in Openers, e \in CopyTables \cap (Family(d) \ {d}) :
                            Drops(r, e)' /\ HasRows({d, e})' => tables'[OriginOf(d)].rows
    BY DEF RowsAreCopied
  <2>1. CASE q = p /\ d = c
    <3>1. OriginOf(c) \in Family(c) \ {c}
      BY FamiliesOf, TablesDiffer
    <3>2. tables'[c].rows => tables'[OriginOf(c)].rows
      BY <1>1
    <3>3. ASSUME NEW r \in Openers, NEW e \in CopyTables \cap (Family(c) \ {c}), Drops(r, e)', HasRows({c, e})'
          PROVE  tables'[OriginOf(c)].rows
      <4>1. Drops(r, e)
        BY <1>5, <3>3
      <4>2. tables[e].rows => HasRows(Family(e) \ {e})
        BY <4>1 DEF UpgradeInv, RowsAreCopied
      <4>3. Family(e) = Family(c)
        BY FamiliesOf
      <4>4. \A t \in Family(e) \ {e} : t = c \/ t = OriginOf(c)
        BY <4>3, FamiliesOf
      <4>5. tables[c].rows \/ tables[e].rows
        BY <1>8, <3>3 DEF HasRows
      <4>6. tables[e].rows => tables[c].rows \/ tables[OriginOf(c)].rows
        BY <4>2, <4>4 DEF HasRows
      <4>. QED BY <4>5, <4>6
    <3>4. tables'[c].rows => HasRows(Family(c) \ {c})'
      BY <3>1, <3>2 DEF HasRows
    <3>. QED BY <2>1, <3>3, <3>4
  <2>2. CASE q # p /\ d # c /\ Drops(q, d)
    <3>1. /\ tables[d].rows => HasRows(Family(d) \ {d})
          /\ \A r \in Openers, e \in CopyTables \cap (Family(d) \ {d}) :
               Drops(r, e) /\ HasRows({d, e}) => tables[OriginOf(d)].rows
      BY <2>2 DEF UpgradeInv, RowsAreCopied
    <3>2. tables'[d].rows => HasRows(Family(d) \ {d})'
      BY <1>1, <1>7, <3>1
    <3>3. ASSUME NEW r \in Openers, NEW e \in CopyTables \cap (Family(d) \ {d}), Drops(r, e)', HasRows({d, e})'
          PROVE  tables'[OriginOf(d)].rows
      <4>1. CASE r = p /\ e = c
        <5>1. OriginOf(d) = OriginOf(c) /\ Family(d) = Family(c) /\ d \in Family(c)
          BY <4>1, FamiliesOf
        <5>2. \A t \in Family(d) \ {d} : t = c \/ t = OriginOf(c)
          BY <2>2, <5>1, FamiliesOf
        <5>3. tables[d].rows \/ tables[c].rows
          BY <1>8, <3>3, <4>1 DEF HasRows
        <5>4. tables[d].rows => tables[c].rows \/ tables[OriginOf(c)].rows
          BY <3>1, <5>2 DEF HasRows
        <5>. QED BY <5>1, <5>3, <5>4
      <4>2. CASE Drops(r, e)
        <5>1. tables[OriginOf(d)].rows
          BY <1>8, <3>1, <3>3, <4>2
        <5>. QED BY <1>6, <5>1, FamiliesOf
      <4>. QED BY <1>5, <3>3, <4>1, <4>2
    <3>. QED BY <3>2, <3>3
  <2>. QED BY <1>5, <2>1, <2>2
<1>10. RowsStay
  BY <1>7 DEF RowsStay
<1>. QED BY <1>4, <1>9, <1>10 DEF UpgradeInv

LEMMA DropStep ==
  ASSUME UpgradeInv, UpgradesTyped', NEW p \in Openers, NEW c \in CopyTables, GoesOn(p, c),
         Drops(p, c), tables'[c] = NoTable,
         \A t \in (CopyTables \cup Origins) \ {c} : tables'[t] = tables[t]
  PROVE  UpgradeInv' /\ RowsStay
<1>1. \A d \in CopyTables : ~Holds(p, d)' /\ ~Drops(p, d)'
  BY LeadOf DEF GoesOn, Drops
<1>2. \A q \in Openers, d \in CopyTables : Holds(q, d)' => q # p /\ d # c /\ Holds(q, d)
  <2>. SUFFICES ASSUME NEW q \in Openers, NEW d \in CopyTables, Holds(q, d)'
                PROVE  q # p /\ d # c /\ Holds(q, d)
    OBVIOUS
  <2>1. q # p /\ Holds(q, d)
    BY <1>1 DEF GoesOn
  <2>. QED BY <2>1, DropsHold DEF UpgradeInv, CopiesAreHeld
<1>3. \A q \in Openers, d \in CopyTables : Drops(q, d)' => q # p /\ d # c /\ Drops(q, d)
  <2>. SUFFICES ASSUME NEW q \in Openers, NEW d \in CopyTables, Drops(q, d)'
                PROVE  q # p /\ d # c /\ Drops(q, d)
    OBVIOUS
  <2>1. q # p /\ Drops(q, d)
    BY <1>1 DEF GoesOn
  <2>. QED BY <2>1, DropsHold DEF UpgradeInv, CopiesAreHeld
<1>4. \A d \in CopyTables \ {c} : tables'[d] = tables[d] /\ (Present(d)' <=> Present(d))
  BY DEF Present
<1>5. CopiesAreHeld'
  BY <1>2, <1>4 DEF UpgradeInv, CopiesAreHeld
<1>6. /\ tables[c].rows => HasRows(Family(c) \ {c})
      /\ \A q \in Openers, d \in CopyTables \cap (Family(c) \ {c}) :
           Drops(q, d) /\ HasRows({c, d}) => tables[OriginOf(c)].rows
  BY DEF UpgradeInv, RowsAreCopied
<1>7. \A d \in CopyTables : \A t \in Family(d) \ {c} : tables'[t] = tables[t]
  BY FamiliesOf
<1>8. \A d \in CopyTables : \A f \in SUBSET Family(d) : c \notin f => (HasRows(f)' <=> HasRows(f))
  BY <1>7 DEF HasRows
<1>9. RowsAreCopied'
  <2>. SUFFICES ASSUME NEW q \in Openers, NEW d \in CopyTables, Drops(q, d)'
                PROVE  /\ tables'[d].rows => HasRows(Family(d) \ {d})'
                       /\ \A r \in Openers, e \in CopyTables \cap (Family(d) \ {d}) :
                            Drops(r, e)' /\ HasRows({d, e})' => tables'[OriginOf(d)].rows
    BY DEF RowsAreCopied
  <2>1. q # p /\ d # c /\ Drops(q, d)
    BY <1>3
  <2>2. /\ tables[d].rows => HasRows(Family(d) \ {d})
        /\ \A r \in Openers, e \in CopyTables \cap (Family(d) \ {d}) :
             Drops(r, e) /\ HasRows({d, e}) => tables[OriginOf(d)].rows
    BY <2>1 DEF UpgradeInv, RowsAreCopied
  <2>3. tables'[d] = tables[d]
    BY <1>4, <2>1
  <2>4. CASE d \in Family(c)
    <3>1. Family(d) = Family(c) /\ OriginOf(d) = OriginOf(c) /\ OriginOf(c) \in Family(d) \ {d}
      BY <2>4, FamiliesOf, TablesDiffer
    <3>2. tables'[OriginOf(c)] = tables[OriginOf(c)]
      BY FamiliesOf, TablesDiffer
    <3>3. tables[d].rows => tables[OriginOf(c)].rows
      BY <1>6, <2>1, <2>4 DEF HasRows
    <3>4. tables'[d].rows => HasRows(Family(d) \ {d})'
      BY <2>3, <3>1, <3>2, <3>3 DEF HasRows
    <3>5. \A e \in CopyTables \cap (Family(d) \ {d}) : e = c
      BY <2>1, <2>4, <3>1, FamiliesOf
    <3>. QED BY <1>3, <3>4, <3>5
  <2>5. CASE d \notin Family(c)
    <3>1. c \notin Family(d)
      BY <2>5, FamiliesOf
    <3>2. HasRows(Family(d) \ {d})' <=> HasRows(Family(d) \ {d})
      BY <1>8, <3>1
    <3>3. \A e \in CopyTables \cap (Family(d) \ {d}) : HasRows({d, e})' <=> HasRows({d, e})
      BY <1>8, <2>1, <3>1, FamiliesOf
    <3>4. tables'[OriginOf(d)] = tables[OriginOf(d)]
      BY FamiliesOf, TablesDiffer
    <3>5. \A r \in Openers, e \in CopyTables : Drops(r, e)' => Drops(r, e)
      BY <1>3
    <3>. QED BY <2>2, <2>3, <3>2, <3>3, <3>4, <3>5
  <2>. QED BY <2>4, <2>5
<1>10. RowsStay
  <2>. SUFFICES ASSUME NEW d \in CopyTables, HasRows(Family(d)) PROVE HasRows(Family(d))'
    BY DEF RowsStay
  <2>1. PICK t \in Family(d) : tables[t].rows
    BY DEF HasRows
  <2>2. CASE t = c
    <3>1. PICK u \in Family(c) \ {c} : tables[u].rows
      BY <1>6, <2>1, <2>2 DEF HasRows
    <3>2. u \in Family(d) /\ tables'[u].rows
      BY <1>7, <2>2, <3>1, FamiliesOf
    <3>. QED BY <3>2 DEF HasRows
  <2>3. CASE t # c
    <3>1. tables'[t].rows
      BY <1>7, <2>1, <2>3
    <3>. QED BY <3>1 DEF HasRows
  <2>. QED BY <2>2, <2>3
<1>. QED BY <1>5, <1>9, <1>10 DEF UpgradeInv

\* The fields of an opener, one by one.
LEMMA OpenerFields ==
  ASSUME NEW v \in Int, NEW i \in Int, NEW f, NEW b, NEW at, at = [version |-> v, statement |-> i, fk |-> f],
         NEW next, next = [at EXCEPT !.version = @ + 1, !.statement = 1],
         NEW on, on = [at EXCEPT !.statement = @ + 1],
         NEW switched, switched = [at EXCEPT !.fk = b]
  PROVE  /\ next = [version |-> v + 1, statement |-> 1, fk |-> f]
         /\ on = [version |-> v, statement |-> i + 1, fk |-> f]
         /\ switched = [version |-> v, statement |-> i, fk |-> b]
<1>1. next = [version |-> v + 1, statement |-> 1, fk |-> f]
  OBVIOUS
<1>2. on = [version |-> v, statement |-> i + 1, fk |-> f]
  OBVIOUS
<1>3. switched = [version |-> v, statement |-> i, fk |-> b]
  OBVIOUS
<1>. QED BY <1>1, <1>2, <1>3

LEMMA IsOpenerOf ==
  ASSUME NEW v, NEW i, NEW f, NEW o, o = [version |-> v, statement |-> i, fk |-> f],
         v \in 1..Newest => i \in 1..Len(MIGRATIONS[v])
  PROVE  IsOpener(o) /\ o.version = v /\ o.statement = i /\ o.fk = f
<1>1. o.version = v /\ o.statement = i /\ o.fk = f
  OBVIOUS
<1>. QED BY <1>1 DEF IsOpener

\* Where a statement leads its opener: on to the next one, or to the next migration.
LEMMA OpenerGoesOn ==
  ASSUME UpgradesTyped, NEW p \in Openers, Migrate(p),
         NEW m, m = MIGRATIONS[openers[p].version], NEW i, i = openers[p].statement
  PROVE  /\ i \in 1..Len(m) /\ Len(m) \in Nat /\ openers[p].version \in 1..Newest
         /\ openers' = [q \in Openers |-> openers'[q]] /\ \A q \in Openers : IsOpener(openers'[q])
         /\ \A q \in Openers \ {p} : openers'[q] = openers[q]
         /\ \/ openers'[p].statement = 1
            \/ ~Fails(m[i]) /\ openers'[p].version = openers[p].version /\ openers'[p].statement = i + 1
<1>. DEFINE at == openers[p]
            next == [at EXCEPT !.version = @ + 1, !.statement = 1]
            on == IF i < Len(m) THEN [at EXCEPT !.statement = @ + 1] ELSE next
            after == [on EXCEPT !.fk = IF m[i].op = "fk" THEN m[i].on ELSE @]
<1>1. at.version \in 1..Newest
  BY DEF Migrate
<1>2. i \in 1..Len(m) /\ Len(m) \in Nat /\ IsOpener(at) /\ openers = [q \in Openers |-> openers[q]]
  BY <1>1, NewestOf DEF UpgradesTyped, IsOpener
<1>3. at = [version |-> at.version, statement |-> i, fk |-> at.fk]
  BY <1>2 DEF IsOpener
<1>. PICK v, f : v = at.version /\ f = at.fk
  OBVIOUS
<1>. v \in Int /\ i \in Int
  BY <1>1, <1>2, NewestOf
<1>4. next = [version |-> v + 1, statement |-> 1, fk |-> f]
  <2>1. PICK old, new : old = at /\ new = next
    OBVIOUS
  <2>2. old = [version |-> v, statement |-> i, fk |-> f] /\ new = [old EXCEPT !.version = @ + 1, !.statement = 1]
    BY <1>3, <2>1
  <2>3. new = [version |-> v + 1, statement |-> 1, fk |-> f]
    BY <2>2
  <2>. QED BY <2>1, <2>3
<1>5. IsOpener(next)
  BY <1>1, <1>4, NewestOf DEF IsOpener
<1>6. openers' = [openers EXCEPT ![p] = IF Fails(m[i]) THEN next ELSE after]
  BY DEF Migrate
<1>s. PICK stepped : stepped = on
  OBVIOUS
<1>a. \/ stepped = [version |-> v, statement |-> i + 1, fk |-> f] /\ i < Len(m)
      \/ stepped = [version |-> v + 1, statement |-> 1, fk |-> f]
  <2>1. CASE i < Len(m)
    <3>1. PICK old : old = at
      OBVIOUS
    <3>2. old = [version |-> v, statement |-> i, fk |-> f] /\ stepped = [old EXCEPT !.statement = @ + 1]
      BY <1>3, <1>s, <2>1, <3>1
    <3>3. stepped = [version |-> v, statement |-> i + 1, fk |-> f]
      BY <3>2
    <3>. QED BY <2>1, <3>3
  <2>2. CASE ~ (i < Len(m))
    BY <1>4, <1>s, <2>2
  <2>. QED BY <2>1, <2>2
<1>k. PICK kept : kept = after
  OBVIOUS
<1>. HIDE DEF next, on
<1>b. PICK b : kept = [stepped EXCEPT !.fk = b]
  BY <1>k, <1>s
<1>7. ~Fails(m[i]) => /\ IsOpener(after)
                      /\ after.statement = 1 \/ (after.version = at.version /\ after.statement = i + 1)
  <2>1. CASE stepped = [version |-> v, statement |-> i + 1, fk |-> f] /\ i < Len(m)
    <3>1. kept = [version |-> v, statement |-> i + 1, fk |-> b]
      BY <1>b, <2>1
    <3>2. i + 1 \in 1..Len(m)
      BY <1>2, <2>1
    <3>3. IsOpener(kept) /\ kept.version = v /\ kept.statement = i + 1
      BY <3>1, <3>2, IsOpenerOf
    <3>. QED BY <1>k, <3>3
  <2>2. CASE stepped = [version |-> v + 1, statement |-> 1, fk |-> f]
    <3>1. kept = [version |-> v + 1, statement |-> 1, fk |-> b]
      BY <1>b, <2>2
    <3>2. v + 1 \in 1..Newest => 1 \in 1..Len(MIGRATIONS[v + 1])
      BY NewestOf
    <3>3. IsOpener(kept) /\ kept.statement = 1
      BY <3>1, <3>2, IsOpenerOf
    <3>. QED BY <1>k, <3>3
  <2>. QED BY <1>a, <2>1, <2>2
<1>. HIDE DEF after
<1>8. PICK o : /\ openers' = [openers EXCEPT ![p] = o] /\ IsOpener(o)
               /\ o.statement = 1 \/ (~Fails(m[i]) /\ o.version = at.version /\ o.statement = i + 1)
  <2>1. next.statement = 1
    BY <1>4
  <2>2. CASE Fails(m[i])
    BY <1>5, <1>6, <2>1, <2>2
  <2>3. CASE ~Fails(m[i])
    BY <1>6, <1>7, <2>3
  <2>. QED BY <2>2, <2>3
<1>9. openers' = [q \in Openers |-> IF q = p THEN o ELSE openers[q]]
  BY <1>2, <1>8
<1>10. openers'[p] = o /\ \A q \in Openers \ {p} : openers'[q] = openers[q]
  BY <1>9
<1>11. openers' = [q \in Openers |-> openers'[q]]
  BY <1>9
<1>12. \A q \in Openers : IsOpener(openers'[q])
  BY <1>8, <1>10 DEF UpgradesTyped
<1>. QED BY <1>1, <1>2, <1>8, <1>10, <1>11, <1>12

LEMMA MigrateStep ==
  ASSUME UpgradeInv, NEW p \in Openers, Migrate(p)
  PROVE  UpgradeInv' /\ RowsStay
<1>. DEFINE m == MIGRATIONS[openers[p].version]
            i == openers[p].statement
<1>0. UpgradesTyped /\ IsTables(tables)
  BY DEF UpgradeInv, UpgradesTyped
<1>1. /\ i \in 1..Len(m) /\ Len(m) \in Nat /\ openers[p].version \in 1..Newest
      /\ openers' = [q \in Openers |-> openers'[q]] /\ \A q \in Openers : IsOpener(openers'[q])
      /\ \A q \in Openers \ {p} : openers'[q] = openers[q]
      /\ \/ openers'[p].statement = 1
         \/ ~Fails(m[i]) /\ openers'[p].version = openers[p].version /\ openers'[p].statement = i + 1
  BY <1>0, OpenerGoesOn
<1>2. DOMAIN texts' = DOMAIN LatestText
  BY <1>0 DEF Migrate, Rewritten, UpgradesTyped
<1>3. tables' = IF Fails(m[i]) THEN tables ELSE Changed(m[i])
  BY DEF Migrate
<1>4. \A q \in Openers \ {p}, d \in CopyTables : (Holds(q, d)' <=> Holds(q, d)) /\ (Drops(q, d)' <=> Drops(q, d))
  BY <1>1 DEF Holds, Drops, Runs
<1>5. \A d \in CopyTables : Holds(p, d)' =>
        ~Fails(m[i]) /\ m = RebuildOf(d) /\ i \in (Lead(d) + 1)..(Lead(d) + 3)
  <2>. SUFFICES ASSUME NEW d \in CopyTables, Holds(p, d)'
                PROVE  ~Fails(m[i]) /\ m = RebuildOf(d) /\ i \in (Lead(d) + 1)..(Lead(d) + 3)
    OBVIOUS
  <2>1. MIGRATIONS[openers'[p].version] = RebuildOf(d) /\ openers'[p].statement \in (Lead(d) + 2)..(Lead(d) + 4)
    BY DEF Holds, Runs
  <2>2. Lead(d) \in Nat /\ i \in Nat
    BY <1>1, LeadOf
  <2>3. openers'[p].statement # 1
    BY <2>1, <2>2
  <2>. QED BY <1>1, <2>1, <2>2, <2>3
<1>6. \A d \in CopyTables : Drops(p, d)' => ~Fails(m[i]) /\ m = RebuildOf(d) /\ i = Lead(d) + 3
  <2>. SUFFICES ASSUME NEW d \in CopyTables, Drops(p, d)'
                PROVE  ~Fails(m[i]) /\ m = RebuildOf(d) /\ i = Lead(d) + 3
    OBVIOUS
  <2>1. MIGRATIONS[openers'[p].version] = RebuildOf(d) /\ openers'[p].statement = Lead(d) + 4
    BY DEF Drops, Runs
  <2>2. Lead(d) \in Nat /\ i \in Nat
    BY <1>1, LeadOf
  <2>3. openers'[p].statement # 1
    BY <2>1, <2>2
  <2>. QED BY <1>1, <2>1, <2>2, <2>3
<1>7. IsTables(tables') => UpgradesTyped'
  BY <1>1, <1>2 DEF UpgradesTyped
<1>8. /\ \A d \in CopyTables : (m = RebuildOf(d) /\ i \in (Lead(d) + 2)..(Lead(d) + 4)) => Holds(p, d)
      /\ \A d \in CopyTables : (m = RebuildOf(d) /\ i = Lead(d) + 4) => Drops(p, d)
  BY <1>1 DEF Holds, Drops, Runs
<1>. HIDE DEF m, i
<1>9. CASE Fails(m[i])
  <2>1. tables' = tables
    BY <1>3, <1>9
  <2>2. \A d \in CopyTables : ~Holds(p, d)' /\ ~Drops(p, d)'
    BY <1>5, <1>6, <1>9
  <2>3. \A q \in Openers, c \in CopyTables : (Holds(q, c)' => Holds(q, c)) /\ (Drops(q, c)' => Drops(q, c))
    BY <1>4, <2>2
  <2>. QED BY <1>0, <1>7, <2>1, <2>3, QuietStep
<1>10. CASE /\ ~Fails(m[i]) /\ m[i] \in Elsewhere
            /\ \A d \in CopyTables : m = RebuildOf(d) => i \notin (Lead(d) + 1)..(Lead(d) + 4)
  <2>1. PICK ts : ts = tables'
    OBVIOUS
  <2>2. ts = Changed(m[i])
    BY <1>3, <1>10, <2>1
  <2>3. /\ IsTables(ts)
        /\ \A c \in CopyTables : ts[c] = tables[c]
        /\ \A o \in Origins : ts[o].rows = tables[o].rows
    BY <1>0, <1>10, <2>2, ElsewhereKeeps
  <2>4. \A d \in CopyTables : ~Holds(p, d)' /\ ~Drops(p, d)'
    <3>. SUFFICES ASSUME NEW d \in CopyTables, m = RebuildOf(d)
                  PROVE  i \notin (Lead(d) + 1)..(Lead(d) + 3) /\ i # Lead(d) + 3
      BY <1>5, <1>6
    <3>. QED BY <1>10, LeadOf
  <2>5. \A q \in Openers, c \in CopyTables : (Holds(q, c)' => Holds(q, c)) /\ (Drops(q, c)' => Drops(q, c))
    BY <1>4, <2>4
  <2>. QED BY <1>7, <2>1, <2>3, <2>5, QuietStep
<1>11. ASSUME NEW c \in CopyTables, m = RebuildOf(c), i \in (Lead(c) + 1)..(Lead(c) + 4), ~Fails(m[i])
       PROVE  UpgradeInv' /\ RowsStay
  <2>. DEFINE o == OriginOf(c)
  <2>1. /\ m[i] \in Rebuilds(c, i) /\ Runs(p, RebuildOf(c)) /\ o \in TableNames /\ c \in TableNames /\ o # c
        /\ Lead(c) \in Nat
    BY <1>1, <1>11, RebuildsOf, FamiliesOf, TableNamesOf, TablesDiffer, LeadOf DEF Runs, m
  <2>2. GoesOn(p, c)
    <3>1. \A d \in CopyTables : m = RebuildOf(d) => d = c
      BY <1>11, RebuildsOf
    <3>. QED BY <1>4, <1>5, <1>6, <3>1 DEF GoesOn, i
  <2>3. PICK ts : ts = tables' /\ ts = Changed(m[i])
    BY <1>3, <1>11
  <2>4. \A t \in CopyTables \cup Origins : t \in TableNames
    BY TableNamesOf
  <2>. HIDE DEF o
  <2>5. CASE i = Lead(c) + 1
    <3>1. m[i] = Rename(o, c)
      BY <2>1, <2>5 DEF Rebuilds, o
    <3>2. Present(o) /\ ~Present(c)
      BY <1>11, <3>1, FailuresMade
    <3>3. ts = Moved(o, c)
      BY <2>3, <3>1, ChangesMade
    <3>4. /\ IsTables(ts) /\ ts[c] = tables[o] /\ ts[o] = NoTable
          /\ \A u \in TableNames \ {o, c} : ts[u] = tables[u]
      BY <1>0, <2>1, <3>3, Renamed
    <3>5. ~tables'[o].rows /\ tables'[c] = tables[o] /\ UpgradesTyped'
      BY <1>7, <2>3, <3>4, RowsOf
    <3>6. \A t \in (CopyTables \cup Origins) \ {c, o} : tables'[t] = tables[t]
      BY <2>3, <2>4, <3>4
    <3>. QED BY <2>2, <2>5, <3>2, <3>5, <3>6, RenameStep DEF o, i
  <2>6. CASE i = Lead(c) + 2
    <3>1. PICK cs : m[i] = Create(o, cs)
      BY <2>1, <2>6 DEF Rebuilds, o
    <3>2. ~Present(o)
      BY <1>11, <3>1, FailuresMade
    <3>3. PICK r : r = EmptyRow(cs)
      OBVIOUS
    <3>4. IsRow(r) /\ ~r.rows /\ ~tables[o].rows
      BY <3>2, <3>3, RowsOf DEF EmptyRow, Present
    <3>5. ts = Put(o, r)
      BY <2>3, <3>1, <3>3, ChangesMade
    <3>6. IsTables(ts) /\ ts[o] = r /\ \A u \in TableNames \ {o} : ts[u] = tables[u]
      BY <1>0, <2>1, <3>4, <3>5, RowChanges
    <3>7. \A d \in CopyTables : tables'[d] = tables[d]
      BY <2>3, <2>4, <3>6, TablesDiffer, FamiliesOf DEF o
    <3>8. r.rows = tables[o].rows
      BY <1>0, <2>1, <3>4 DEF IsTables, IsRow
    <3>9. \A t \in Origins : tables'[t].rows = tables[t].rows
      BY <2>3, <2>4, <3>6, <3>8
    <3>10. \A q \in Openers, d \in CopyTables : (Holds(q, d)' => Holds(q, d)) /\ (Drops(q, d)' => Drops(q, d))
      <4>1. i \in (Lead(c) + 2)..(Lead(c) + 4)
        BY <2>1, <2>6
      <4>2. Holds(p, c)
        BY <1>8, <1>11, <4>1
      <4>3. \A d \in CopyTables : (Holds(p, d)' => d = c) /\ ~Drops(p, d)'
        BY <2>1, <2>2, <2>6 DEF GoesOn, i
      <4>. QED BY <1>4, <4>2, <4>3
    <3>. QED BY <1>7, <2>3, <3>6, <3>7, <3>9, <3>10, QuietStep
  <2>7. CASE i = Lead(c) + 3
    <3>1. m[i] = Copy(c, o)
      BY <2>1, <2>7 DEF Rebuilds, o
    <3>2. PICK r : r = Fuller(o, c)
      OBVIOUS
    <3>3. IsRow(tables[o]) /\ IsRow(tables[c])
      BY <1>0, <2>1 DEF IsTables
    <3>4. r = [columns |-> tables[o].columns, rows |-> tables[o].rows \/ tables[c].rows]
      BY <3>2, <3>3 DEF IsRow, Fuller
    <3>5. IsRow(r) /\ (r.rows <=> (tables[o].rows \/ tables[c].rows))
      BY <3>4 DEF IsRow
    <3>6. ts = Put(o, r)
      BY <2>3, <3>1, <3>2, ChangesMade
    <3>7. IsTables(ts) /\ ts[o] = r /\ \A u \in TableNames \ {o} : ts[u] = tables[u]
      BY <1>0, <2>1, <3>5, <3>6, RowChanges
    <3>8. tables'[o].rows <=> (tables[o].rows \/ tables[c].rows)
      BY <2>3, <3>5, <3>7
    <3>9. \A t \in (CopyTables \cup Origins) \ {o} : tables'[t] = tables[t]
      BY <2>3, <2>4, <3>7
    <3>10. UpgradesTyped'
      BY <1>7, <2>3, <3>7
    <3>. QED BY <2>1, <2>2, <2>7, <3>8, <3>9, <3>10, CopyStep DEF o, i
  <2>8. CASE i = Lead(c) + 4
    <3>1. m[i] = Drop(c)
      BY <2>1, <2>8 DEF Rebuilds
    <3>2. ts = Put(c, NoTable)
      BY <2>3, <3>1, ChangesMade
    <3>3. IsTables(ts) /\ ts[c] = NoTable /\ \A u \in TableNames \ {c} : ts[u] = tables[u]
      BY <1>0, <2>1, <3>2, RowsOf, RowChanges
    <3>4. \A t \in (CopyTables \cup Origins) \ {c} : tables'[t] = tables[t]
      BY <2>3, <2>4, <3>3
    <3>5. UpgradesTyped' /\ tables'[c] = NoTable
      BY <1>7, <2>3, <3>3
    <3>6. Drops(p, c)
      BY <1>8, <1>11, <2>8
    <3>. QED BY <2>2, <3>4, <3>5, <3>6, DropStep
  <2>9. i = Lead(c) + 1 \/ i = Lead(c) + 2 \/ i = Lead(c) + 3 \/ i = Lead(c) + 4
    BY <1>11, <2>1
  <2>. QED BY <2>5, <2>6, <2>7, <2>8, <2>9
<1>12. CASE \A d \in CopyTables : m = RebuildOf(d) => i \notin (Lead(d) + 1)..(Lead(d) + 4)
  <2>1. m[i] \in Elsewhere
    <3>1. CASE m \in Plain
      BY <1>1, <3>1 DEF Plain, m, i
    <3>2. ASSUME NEW d \in CopyTables, m = RebuildOf(d)
          PROVE  m[i] \in Elsewhere
      <4>1. m[i] \in Rebuilds(d, i) /\ Lead(d) \in Nat /\ i \in Nat
        BY <1>1, <3>2, RebuildsOf, LeadOf DEF m, i
      <4>2. m[i] \in Switches
        BY <1>12, <3>2, <4>1 DEF Rebuilds
      <4>. QED BY <4>2 DEF Elsewhere
    <3>. QED BY <1>1, <3>1, <3>2, NewestOf DEF m
  <2>. QED BY <1>9, <1>10, <1>12, <2>1
<1>. QED BY <1>9, <1>11, <1>12

\* An opener that is not in the middle of a migration afterwards.
LEMMA QuietOpener ==
  ASSUME UpgradeInv, NEW p \in Openers, NEW o, IsOpener(o), openers' = [openers EXCEPT ![p] = o],
         o.statement = 1 \/ o.version \notin 1..Newest,
         IsTables(tables)', DOMAIN texts' = DOMAIN LatestText,
         \A c \in CopyTables : tables'[c] = tables[c],
         \A t \in Origins : tables'[t].rows = tables[t].rows
  PROVE  UpgradeInv' /\ RowsStay
<1>1. openers = [q \in Openers |-> openers[q]] /\ \A q \in Openers : IsOpener(openers[q])
  BY DEF UpgradeInv, UpgradesTyped
<1>2. openers' = [q \in Openers |-> IF q = p THEN o ELSE openers[q]]
  BY <1>1
<1>3. openers'[p] = o /\ \A q \in Openers \ {p} : openers'[q] = openers[q]
  BY <1>2
<1>4. openers' = [q \in Openers |-> openers'[q]] /\ \A q \in Openers : IsOpener(openers'[q])
  BY <1>1, <1>2, <1>3
<1>5. UpgradesTyped'
  BY <1>4 DEF UpgradesTyped
<1>6. \A c \in CopyTables : ~Holds(p, c)' /\ ~Drops(p, c)'
  BY <1>3, LeadOf DEF Holds, Drops, Runs
<1>7. \A q \in Openers, c \in CopyTables : (Holds(q, c)' => Holds(q, c)) /\ (Drops(q, c)' => Drops(q, c))
  BY <1>3, <1>6 DEF Holds, Drops, Runs
<1>. QED BY <1>5, <1>7, QuietStep

\* Where only the opener moves.
LEMMA IdleTables ==
  ASSUME UpgradeInv, NEW p \in Openers, NEW o, IsOpener(o), openers' = [openers EXCEPT ![p] = o],
         o.statement = 1 \/ o.version \notin 1..Newest,
         tables' = tables, DOMAIN texts' = DOMAIN LatestText
  PROVE  UpgradeInv' /\ RowsStay
<1>1. IsTables(tables)'
  BY DEF UpgradeInv, UpgradesTyped
<1>. QED BY <1>1, QuietOpener

LEMMA OpenStep ==
  ASSUME UpgradeInv, NEW p \in Openers, Open(p)
  PROVE  UpgradeInv' /\ RowsStay
<1>. DEFINE with == [t \in TableNames |->
              CASE t = "specs" /\ Present(t) -> [tables[t] EXCEPT !.columns = @ \cup {"project_id"}]
                [] t = "change_requests" /\ Present(t) -> [tables[t] EXCEPT !.columns = @ \cup {"risk"}]
                [] OTHER -> tables[t]]
<1>1. tables' = [t \in TableNames |->
        IF with[t] = NoTable /\ t \in DOMAIN Schema
        THEN [columns |-> Schema[t], rows |-> FALSE] ELSE with[t]]
  BY DEF Open
<1>2. \A t \in TableNames : IsRow(tables[t])
  BY DEF UpgradeInv, UpgradesTyped, IsTables
<1>3. \A t \in TableNames : IsRow(with[t])
  <2>1. \A r, c : IsRow(r) => IsRow([r EXCEPT !.columns = @ \cup {c}])
    BY DEF IsRow
  <2>. QED BY <1>2, <2>1
<1>4. \A t \in TableNames \ {"specs", "change_requests"} : with[t] = tables[t]
  OBVIOUS
<1>. HIDE DEF with
<1>5. \A t \in TableNames : tables'[t] = IF with[t] = NoTable /\ t \in DOMAIN Schema
                                       THEN [columns |-> Schema[t], rows |-> FALSE] ELSE with[t]
  BY <1>1
<1>6. \A t \in TableNames : IsRow(tables'[t])
  BY <1>3, <1>5, RowsOf
<1>7. tables' = [t \in TableNames |-> tables'[t]]
  BY <1>1
<1>8. \A c \in CopyTables : tables'[c] = tables[c]
  <2>1. \A t \in DOMAIN Schema : t \in SchemaTables
    BY DEF Schema, BaseTables, LaterTables, SchemaTables
  <2>2. \A c \in CopyTables : c \notin DOMAIN Schema /\ c \in TableNames \ {"specs", "change_requests"}
    BY <2>1, TablesDiffer, TableNamesOf DEF SchemaTables
  <2>. QED BY <1>4, <1>5, <2>2
<1>9. \A t \in Origins : tables'[t].rows = tables[t].rows
  <2>. SUFFICES ASSUME NEW t \in Origins PROVE tables'[t].rows = tables[t].rows
    OBVIOUS
  <2>1. t \in TableNames \ {"specs", "change_requests"}
    BY TableNamesOf, TablesDiffer DEF Origins
  <2>2. CASE with[t] = NoTable /\ t \in DOMAIN Schema
    <3>1. PICK r : r = tables'[t] /\ r = [columns |-> Schema[t], rows |-> FALSE]
      BY <1>5, <2>1, <2>2
    <3>2. r.rows = FALSE
      BY <3>1
    <3>3. tables[t].rows = FALSE
      BY <1>4, <2>1, <2>2 DEF NoTable
    <3>. QED BY <3>1, <3>2, <3>3
  <2>3. CASE ~ (with[t] = NoTable /\ t \in DOMAIN Schema)
    BY <1>4, <1>5, <2>1, <2>3
  <2>. QED BY <2>2, <2>3
<1>10. PICK v : openers' = [openers EXCEPT ![p] = [version |-> v, statement |-> 1, fk |-> TRUE]]
  BY DEF Open
<1>11. PICK o : o = [version |-> v, statement |-> 1, fk |-> TRUE] /\ openers' = [openers EXCEPT ![p] = o]
  BY <1>10
<1>12. v \in 1..Newest => 1 \in 1..Len(MIGRATIONS[v])
  BY NewestOf
<1>13. IsOpener(o) /\ o.statement = 1
  BY <1>11, <1>12, IsOpenerOf
<1>14. DOMAIN texts' = DOMAIN LatestText
  BY DEF UpgradeInv, UpgradesTyped, Open
<1>15. IsTables(tables)'
  BY <1>6, <1>7 DEF IsTables
<1>. QED BY <1>8, <1>9, <1>11, <1>13, <1>14, <1>15, QuietOpener

\* The end of an opening, and its death.
LEMMA EndStep ==
  ASSUME UpgradeInv, NEW p \in Openers,
         SaveVersion(p) \/ SeedSkills(p) \/ SeedVersions(p) \/ Close(p) \/ Die(p)
  PROVE  UpgradeInv' /\ RowsStay
<1>1. IsOpener(openers[p]) /\ DOMAIN texts = DOMAIN LatestText
  BY DEF UpgradeInv, UpgradesTyped
<1>2. PICK v, i, f : v = openers[p].version /\ i = openers[p].statement /\ f = openers[p].fk
  OBVIOUS
<1>3. PICK at : at = openers[p] /\ at = [version |-> v, statement |-> i, fk |-> f]
  BY <1>1, <1>2 DEF IsOpener
<1>4. Newest + 1 \notin 1..Newest /\ Newest + 2 \notin 1..Newest /\ 0 \notin 1..Newest
  BY NewestOf
<1>5. CASE SaveVersion(p) \/ SeedSkills(p)
  <2>1. PICK n, o : o = [at EXCEPT !.statement = n] /\ openers' = [openers EXCEPT ![p] = o]
    BY <1>3, <1>5 DEF SaveVersion, SeedSkills
  <2>2. o = [version |-> v, statement |-> n, fk |-> f]
    BY <1>3, <2>1
  <2>3. v \notin 1..Newest
    BY <1>2, <1>4, <1>5 DEF SaveVersion, SeedSkills
  <2>4. IsOpener(o) /\ o.version \notin 1..Newest
    BY <2>2, <2>3, IsOpenerOf
  <2>5. tables' = tables /\ DOMAIN texts' = DOMAIN LatestText
    BY <1>1, <1>5 DEF SaveVersion, SeedSkills
  <2>. QED BY <2>1, <2>4, <2>5, IdleTables
<1>6. CASE SeedVersions(p)
  <2>1. PICK n, o : n = Newest + 2 /\ o = [at EXCEPT !.version = n] /\ openers' = [openers EXCEPT ![p] = o]
    BY <1>3, <1>6 DEF SeedVersions
  <2>2. o = [version |-> n, statement |-> i, fk |-> f]
    BY <1>3, <2>1
  <2>3. n \notin 1..Newest
    BY <1>4, <2>1
  <2>4. IsOpener(o) /\ o.version \notin 1..Newest
    BY <2>2, <2>3, IsOpenerOf
  <2>5. tables' = tables /\ DOMAIN texts' = DOMAIN LatestText
    BY <1>1, <1>6 DEF SeedVersions
  <2>. QED BY <2>1, <2>4, <2>5, IdleTables
<1>7. CASE Close(p) \/ Die(p)
  <2>1. PICK o : o = Closed /\ openers' = [openers EXCEPT ![p] = o]
    BY <1>7 DEF Close, Die
  <2>2. IsOpener(o) /\ o.version \notin 1..Newest
    BY <1>4, <2>1, IsOpenerOf DEF Closed
  <2>3. tables' = tables /\ DOMAIN texts' = DOMAIN LatestText
    BY <1>1, <1>7 DEF Close, Die
  <2>. QED BY <2>1, <2>2, <2>3, IdleTables
<1>. QED BY <1>5, <1>6, <1>7

\* A rewriting statement expects a text that was shipped.
LEMMA RewritesOf ==
  ASSUME NEW v \in 1..Newest, NEW i \in 1..Len(MIGRATIONS[v]), MIGRATIONS[v][i].op = "rewrite"
  PROVE  MIGRATIONS[v][i].old # Customized
<1>. DEFINE s == MIGRATIONS[v][i]
<1>1. \A x : x \in Rewrites => x.old \in Nat
  BY DEF Rewrites, Rewrite
<1>2. \A x : x \in Ensures => x.op # "rewrite"
  BY DEF Ensures, Ensure
<1>3. \A x : x \in Adds => x.op # "rewrite"
  BY DEF Adds, Add
<1>4. \A x : x \in Switches => x.op # "rewrite"
  BY DEF Switches, ForeignKeys
<1>5. \A x : x \in SpecsMoves => x.op # "rewrite"
  BY DEF SpecsMoves, DropIf, Create, Copy, Drop, Rename
<1>6. CASE MIGRATIONS[v] \in Plain
  <2>1. s \in Elsewhere
    BY <1>6 DEF Plain
  <2>2. s \in Rewrites
    BY <1>2, <1>3, <1>4, <1>5, <2>1 DEF Elsewhere
  <2>3. s.old \in Nat
    BY <1>1, <2>2
  <2>. QED BY <2>3 DEF Customized
<1>7. ASSUME NEW c \in CopyTables, MIGRATIONS[v] = RebuildOf(c)
      PROVE  FALSE
  <2>1. s \in Rebuilds(c, i)
    BY <1>7, RebuildsOf
  <2>2. \A x \in Rebuilds(c, i) : x.op # "rewrite"
    <3>1. \A t, u : Rename(t, u).op # "rewrite" /\ Copy(t, u).op # "rewrite" /\ Drop(t).op # "rewrite"
                  /\ Create(t, u).op # "rewrite"
      BY DEF Rename, Copy, Drop, Create
    <3>. QED BY <1>4, <3>1 DEF Rebuilds
  <2>. QED BY <2>1, <2>2
<1>. QED BY <1>6, <1>7, NewestOf

\* A customized text stays.
TextsStay == \A k \in DOMAIN texts : texts[k] = Customized => texts'[k] = Customized

LEMMA TextsKept ==
  ASSUME UpgradeInv, NEW p \in Openers,
         Open(p) \/ Migrate(p) \/ SaveVersion(p) \/ SeedSkills(p) \/ SeedVersions(p) \/ Close(p) \/ Die(p)
  PROVE  TextsStay
<1>1. CASE Migrate(p)
  <2>1. PICK v, i : /\ v = openers[p].version /\ i = openers[p].statement
                    /\ v \in 1..Newest /\ i \in 1..Len(MIGRATIONS[v])
    BY <1>1 DEF Migrate, UpgradeInv, UpgradesTyped, IsOpener
  <2>2. PICK s : s = MIGRATIONS[v][i]
    OBVIOUS
  <2>3. \/ texts' = texts
        \/ /\ s.op = "rewrite"
           /\ texts' = IF texts[s.text] = s.old THEN [texts EXCEPT ![s.text] = s.new] ELSE texts
    BY <1>1, <2>1, <2>2 DEF Migrate, Rewritten
  <2>4. s.op = "rewrite" => s.old # Customized
    BY <2>1, <2>2, RewritesOf
  <2>. QED BY <2>3, <2>4 DEF TextsStay
<1>2. CASE SeedSkills(p)
  <2>1. DOMAIN texts = DOMAIN LatestText
    BY DEF UpgradeInv, UpgradesTyped
  <2>2. \A k \in DOMAIN LatestText : texts[k] # Absent => texts'[k] = texts[k]
    BY <1>2 DEF SeedSkills
  <2>3. Customized # Absent
    BY DEF Customized, Absent
  <2>. QED BY <2>1, <2>2, <2>3 DEF TextsStay
<1>3. CASE Open(p) \/ SaveVersion(p) \/ SeedVersions(p) \/ Close(p) \/ Die(p)
  BY <1>3 DEF Open, SaveVersion, SeedVersions, Close, Die, TextsStay
<1>. QED BY <1>1, <1>2, <1>3

\* Any number of processes may open the database at once, die between two statements and
\* start again: the reports of agents and the webhooks stay in one of the tables that an
\* upgrade keeps them in, and a customized skill is never overwritten.
THEOREM UpgradesLoseNothing == MigrationsSpec => UpgradesKeepData
<1>1. ASSUME UpgradeInv, [MigrationsNext]_migrationVars
      PROVE  UpgradeInv' /\ (UNCHANGED migrationVars \/ (RowsStay /\ TextsStay))
  <2>1. CASE UNCHANGED migrationVars
    BY <1>1, <2>1 DEF migrationVars, UpgradeInv, UpgradesTyped, CopiesAreHeld, RowsAreCopied,
                      HasRows, Holds, Drops, Runs, Present
  <2>2. ASSUME NEW p \in Openers,
               Open(p) \/ Migrate(p) \/ SaveVersion(p) \/ SeedSkills(p) \/ SeedVersions(p) \/ Close(p) \/ Die(p)
        PROVE  UpgradeInv' /\ RowsStay /\ TextsStay
    BY <1>1, <2>2, OpenStep, MigrateStep, EndStep, TextsKept
  <2>. QED BY <1>1, <2>1, <2>2 DEF MigrationsNext
<1>2. RowsStay => /\ HasRows(Reports) => HasRows(Reports)'
                  /\ HasRows(Webhooks) => HasRows(Webhooks)'
  <2>1. /\ "agent_feedback_old" \in CopyTables /\ Family("agent_feedback_old") = Reports
        /\ "webhooks_old" \in CopyTables /\ Family("webhooks_old") = Webhooks
    BY DEF CopyTables, Family
  <2>2. RowsStay => /\ HasRows(Family("agent_feedback_old")) => HasRows(Family("agent_feedback_old"))'
                    /\ HasRows(Family("webhooks_old")) => HasRows(Family("webhooks_old"))'
    BY <2>1 DEF RowsStay
  <2>3. HasRows(Reports)' <=> HasRows(Family("agent_feedback_old"))'
    BY <2>1
  <2>4. HasRows(Webhooks)' <=> HasRows(Family("webhooks_old"))'
    BY <2>1
  <2>. QED BY <2>1, <2>2, <2>3, <2>4
<1>. QED BY <1>1, <1>2, InitUpgradeInv, PTL DEF MigrationsSpec, UpgradesKeepData, TextsStay
=============================================================================
