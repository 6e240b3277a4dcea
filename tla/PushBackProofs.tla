--------------------------- MODULE PushBackProofs ---------------------------
(***************************************************************************)
(* Machine-checked proofs about PushBack, for any specs, subscriptions,    *)
(* repositories and runs, any number of jobs, outages and deaths.          *)
(*                                                                         *)
(* A run decides on rows it read long ago.  What makes it right is that    *)
(* ids of jobs are never used again, that a head never goes back, and that *)
(* a branch is named for the one text that is ever written to it.          *)
(***************************************************************************)
EXTENDS PushBack, FiniteSetTheorems, WellFoundedInduction, TLAPS

JobRow == [status : {"pending", "done", "error"}, sub : Subs, spec : Specs, version : Releases]

\* A job as a run read it when it started.
Item == [id : 1..MaxJobs, sub : Subs, spec : Specs]

RunRow ==
  [stage : {"next"}, todo : SUBSET Item]
    \cup [stage : {"branch"}, todo : SUBSET Item, job : Item, release : 0..MaxRelease]
    \cup [stage : {"file", "pull", "answer"}, todo : SUBSET Item, job : Item,
          release : 0..MaxRelease, sha : Texts \cup {BaseText}]

Busy(r) == runs[r].stage \in {"branch", "file", "pull", "answer"}

Typed ==
  /\ TypeOK
  /\ jobs \in [1..MaxJobs -> JobRow \cup {NoJob}]
  /\ runs \in [Runs -> RunRow \cup {NoRun}]

\* A handler awaits the index with a version that the spec has reached.
TailsAreReleased ==
  \A t \in tails : t.version <= specs[t.spec].head /\ specs[t.spec].row # "absent"

\* So do jobs.
JobsAreReleased ==
  \A j \in 1..MaxJobs : jobs[j] # NoJob => jobs[j].version <= specs[jobs[j].spec].head

\* An id that a run keeps is that of the same job or of none.
ItemsAreJobs ==
  \A r \in Runs : runs[r] # NoRun =>
    /\ \A item \in runs[r].todo :
         /\ item.id <= queued /\ specs[item.spec].head >= 1
         /\ jobs[item.id] # NoJob => jobs[item.id].sub = item.sub /\ jobs[item.id].spec = item.spec
    /\ Busy(r) => runs[r].job \in runs[r].todo

\* A run pushes a release that is not older than its job's.
PushesAreReleases ==
  \A r \in Runs : Busy(r) =>
    /\ runs[r].release \in 1..specs[runs[r].job.spec].head
    /\ jobs[runs[r].job.id] # NoJob => jobs[runs[r].job.id].version <= runs[r].release

\* What a run has been told by GitHub stays so.
AnswersStand ==
  \A r \in Runs :
    /\ runs[r].stage \in {"pull", "answer"} => files[FileOf(r)] # BaseText
    /\ runs[r].stage = "answer" => BranchOf(r) \in prs

IInv ==
  /\ Typed /\ TailsAreReleased /\ JobsAreListed /\ JobsAreReleased
  /\ ItemsAreJobs /\ PushesAreReleases
  /\ AnswersStand /\ BranchHoldsItsRelease /\ DoneIsProposed

-----------------------------------------------------------------------------
(* Rows, runs and branches.                                                *)

LEMMA Distinct ==
  /\ \A row \in JobRow : row # NoJob
  /\ \A run \in RunRow : run # NoRun
  /\ NoRun.stage = "none" /\ NoJob.status = "none"
BY DEF JobRow, RunRow, NoJob, NoRun

LEMMA BusyFields ==
  ASSUME PushBackAssumption, Typed, NEW r \in Runs, Busy(r)
  PROVE  /\ runs[r] # NoRun
         /\ runs[r].todo \in SUBSET Item
         /\ runs[r].job \in Item /\ runs[r].job.id \in 1..MaxJobs
         /\ runs[r].job.sub \in Subs /\ runs[r].job.spec \in Specs
         /\ runs[r].release \in 0..MaxRelease
         /\ runs[r].stage \in {"file", "pull", "answer"} => runs[r].sha \in Texts \cup {BaseText}
<1>1. runs[r] \in RunRow
  BY DEF Typed, Busy, NoRun
<1>2. runs[r].todo \in SUBSET Item /\ runs[r].job \in Item /\ runs[r].release \in 0..MaxRelease
  BY <1>1 DEF RunRow, Busy
<1>3. runs[r].stage \in {"file", "pull", "answer"} => runs[r].sha \in Texts \cup {BaseText}
  BY <1>1 DEF RunRow
<1>. QED BY <1>1, <1>2, <1>3, Distinct DEF Item

\* Two texts differ if only one is of a release.
LEMMA TextFields ==
  ASSUME PushBackAssumption
  PROVE  /\ \A text \in Texts : text # BaseText /\ text.spec \in Specs /\ text.release \in Releases
         /\ \A f \in Files : f[1] \in Branches
         /\ \A s \in Specs, v \in Releases : [spec |-> s, release |-> v] \in Texts
BY DEF Texts, BaseText, Files, Releases, PushBackAssumption

LEMMA BranchType ==
  ASSUME PushBackAssumption, IInv, NEW r \in Runs, Busy(r)
  PROVE  /\ BranchOf(r) \in Branches /\ BranchOf(r)[3] = runs[r].release
         /\ FileOf(r) \in Files /\ FileOf(r)[1] = BranchOf(r)
         /\ FileOf(r)[3] = NameOf[runs[r].job.spec]
         /\ runs[r].release \in Releases /\ runs[r].job.spec \in Specs
<1>1. /\ runs[r].job.sub \in Subs /\ runs[r].job.spec \in Specs
      /\ RepoOf[runs[r].job.sub] \in Repos
  BY BusyFields DEF IInv, PushBackAssumption
<1>2. specs[runs[r].job.spec].head \in 0..MaxRelease
  BY <1>1 DEF IInv, Typed, TypeOK
<1>3. runs[r].release \in Releases
  BY <1>1, <1>2 DEF IInv, PushesAreReleases, Releases, PushBackAssumption
<1>4. BranchOf(r) \in Branches /\ BranchOf(r)[3] = runs[r].release
  BY <1>1, <1>3 DEF BranchOf, BranchAt, Branches
<1>5. FileOf(r) = <<BranchOf(r), PathOf[runs[r].job.sub], NameOf[runs[r].job.spec]>>
  BY DEF FileOf, FileAt, BranchOf
<1>. QED BY <1>1, <1>3, <1>4, <1>5 DEF Files

-----------------------------------------------------------------------------
(* The initial states, and the steps one by one.                           *)

LEMMA InitIInv ==
  ASSUME PushBackAssumption, Init
  PROVE  IInv
<1>. USE DEF PushBackAssumption
<1>1. \A r \in Runs : runs[r] = NoRun /\ ~Busy(r)
  BY DEF Init, Busy, NoRun
<1>2. \A j \in 1..MaxJobs : jobs[j] = NoJob /\ jobs[j].status # "done"
  BY DEF Init, NoJob
<1>3. \A f \in Files : files[f] = BaseText
  BY DEF Init
<1>4. Typed
  <2>1. jobs \in [1..MaxJobs -> JobRow \cup {NoJob}] /\ runs \in [Runs -> RunRow \cup {NoRun}]
    BY DEF Init
  <2>2. TypeOK
    BY <1>1, <1>2 DEF Init, TypeOK
  <2>. QED BY <2>1, <2>2 DEF Typed
<1>5. BranchHoldsItsRelease
  BY <1>3 DEF BranchHoldsItsRelease, Init
<1>6. TailsAreReleased /\ JobsAreListed /\ JobsAreReleased /\ DoneIsProposed
  BY <1>2 DEF Init, TailsAreReleased, JobsAreListed, JobsAreReleased, DoneIsProposed, Proposed
<1>7. ItemsAreJobs /\ PushesAreReleases /\ AnswersStand
  BY <1>1 DEF ItemsAreJobs, PushesAreReleases, AnswersStand, NoRun
<1>. QED BY <1>4, <1>5, <1>6, <1>7 DEF IInv

LEMMA ReleaseStep ==
  ASSUME PushBackAssumption, IInv, NEW s \in Specs, NEW approved \in BOOLEAN, Release(s, approved)
  PROVE  IInv'
<1>. USE DEF IInv
<1>1. /\ specs' \in [Specs -> [row : {"absent", "live", "deleted"}, head : 0..MaxRelease]]
      /\ specs'[s].head = specs[s].head + 1 /\ specs'[s].head \in Releases
      /\ \A x \in Specs : specs'[x].row = specs[x].row /\ specs[x].head <= specs'[x].head
      /\ \A x \in Specs : specs[x].head \in 0..MaxRelease /\ specs'[x].head \in 0..MaxRelease
  BY DEF Release, Typed, TypeOK, Releases, PushBackAssumption
<1>2. Typed'
  BY <1>1 DEF Release, Typed, TypeOK
<1>3. TailsAreReleased'
  BY <1>1 DEF Release, TailsAreReleased, Typed, TypeOK, Releases, PushBackAssumption
<1>4. JobsAreListed' /\ JobsAreReleased'
  <2>. SUFFICES ASSUME NEW j \in 1..MaxJobs, jobs[j] # NoJob
                PROVE  /\ Active(jobs[j].sub)' /\ specs'[jobs[j].spec].row # "absent"
                       /\ jobs[j].version <= specs'[jobs[j].spec].head
    BY DEF Release, JobsAreListed, JobsAreReleased
  <2>1. jobs[j].spec \in Specs /\ jobs[j].version \in Releases
    BY DEF Typed, JobRow
  <2>. QED BY <1>1, <2>1 DEF Release, JobsAreListed, JobsAreReleased, Active, Releases,
                             PushBackAssumption
<1>5. ItemsAreJobs'
  <2>. SUFFICES ASSUME NEW r \in Runs, runs[r] # NoRun, NEW item \in runs[r].todo
                PROVE  specs'[item.spec].head >= 1
    BY DEF Release, ItemsAreJobs, Busy
  <2>1. item.spec \in Specs
    BY DEF Typed, RunRow, Item
  <2>. QED BY <1>1, <2>1 DEF ItemsAreJobs
<1>6. PushesAreReleases'
  <2>. SUFFICES ASSUME NEW r \in Runs, Busy(r)
                PROVE  runs[r].release \in 1..specs'[runs[r].job.spec].head
    BY DEF Release, PushesAreReleases, Busy
  <2>. QED BY <1>1, BusyFields DEF PushesAreReleases
<1>7. AnswersStand' /\ BranchHoldsItsRelease' /\ DoneIsProposed'
  BY DEF Release, AnswersStand, BranchHoldsItsRelease, DoneIsProposed, Proposed, BranchOf, FileOf
<1>. QED BY <1>2, <1>3, <1>4, <1>5, <1>6, <1>7

\* A run starts with jobs that are rows.
LEMMA StartedItems ==
  ASSUME PushBackAssumption, NEW rows \in [1..MaxJobs -> JobRow \cup {NoJob}]
  PROVE  /\ Started(rows) \in RunRow /\ Started(rows).stage = "next"
         /\ \A item \in Started(rows).todo :
              /\ item.id \in 1..MaxJobs /\ rows[item.id] # NoJob
              /\ rows[item.id].sub = item.sub /\ rows[item.id].spec = item.spec
<1>1. \A j \in 1..MaxJobs : rows[j].status = "pending" => rows[j] # NoJob /\ rows[j] \in JobRow
  BY DEF NoJob
<1>2. Snapshot(rows) \in SUBSET Item
  BY <1>1 DEF Snapshot, Item, JobRow
<1>3. \A item \in Snapshot(rows) :
        /\ item.id \in 1..MaxJobs /\ rows[item.id] # NoJob
        /\ rows[item.id].sub = item.sub /\ rows[item.id].spec = item.spec
  BY <1>1 DEF Snapshot
<1>. QED BY <1>2, <1>3 DEF Started, RunRow

LEMMA EnqueueStep ==
  ASSUME PushBackAssumption, IInv, NEW t \in tails, NEW r \in Runs, Enqueue(t, r)
  PROVE  IInv'
<1>. USE DEF IInv
<1>. DEFINE S == SubscribersOf(t.spec)
<1>1. Cardinality(S) \in Nat
  <2>1. S \subseteq Subs
    BY DEF SubscribersOf
  <2>2. IsFiniteSet(S)
    BY <2>1, FS_Subset DEF PushBackAssumption
  <2>. QED BY <2>2, FS_CardinalityType
<1>2. t.spec \in Specs /\ t.version \in Releases /\ queued \in 0..MaxJobs /\ MaxJobs \in Nat
  BY DEF Typed, TypeOK, PushBackAssumption
<1>3. PICK n \in Numberings(S) : jobs' = Inserted(t, n)
  BY DEF Enqueue
<1>4. DOMAIN n = queued + 1 .. queued + Cardinality(S) /\ \A j \in DOMAIN n : n[j] \in S
  BY DEF Numberings
<1>5. queued' = queued + Cardinality(S) /\ queued' \in 0..MaxJobs /\ queued <= queued'
  BY <1>1, <1>2 DEF Enqueue
<1>6. /\ \A j \in 1..MaxJobs : j <= queued \/ j > queued' => jobs'[j] = jobs[j]
      /\ \A j \in 1..MaxJobs : j > queued /\ j <= queued' =>
           /\ jobs'[j] = [status |-> "pending", sub |-> n[j], spec |-> t.spec, version |-> t.version]
           /\ n[j] \in Subs /\ Active(n[j])
  <2>1. \A sub \in S : sub \in Subs /\ Active(sub)
    BY DEF SubscribersOf
  <2>. HIDE DEF S
  <2>2. \A j \in 1..MaxJobs : j \in DOMAIN n <=> j > queued /\ j <= queued'
    BY <1>1, <1>2, <1>4, <1>5
  <2>3. \A j \in 1..MaxJobs :
          jobs'[j] = IF j \in DOMAIN n
            THEN [status |-> "pending", sub |-> n[j], spec |-> t.spec, version |-> t.version]
            ELSE jobs[j]
    BY <1>3 DEF Inserted
  <2>4. \A j \in 1..MaxJobs : j <= queued \/ j > queued' => j \notin DOMAIN n
    BY <1>2, <1>5, <2>2
  <2>. QED BY <1>4, <2>1, <2>2, <2>3, <2>4
<1>. HIDE DEF S
<1>7. /\ \A j \in 1..MaxJobs : j > queued => jobs[j] = NoJob
      /\ jobs \in [1..MaxJobs -> JobRow \cup {NoJob}]
  BY DEF Typed, TypeOK
<1>8. jobs' \in [1..MaxJobs -> JobRow \cup {NoJob}] /\ \A j \in 1..MaxJobs : j > queued' => jobs'[j] = NoJob
  <2>1. \A j \in 1..MaxJobs : jobs'[j] \in JobRow \cup {NoJob}
    <3>. SUFFICES ASSUME NEW j \in 1..MaxJobs PROVE jobs'[j] \in JobRow \cup {NoJob}
      OBVIOUS
    <3>1. CASE j <= queued \/ j > queued'
      BY <1>6, <1>7, <3>1
    <3>2. CASE j > queued /\ j <= queued'
      <4>1. jobs'[j] = [status |-> "pending", sub |-> n[j], spec |-> t.spec, version |-> t.version]
        BY <1>6, <3>2
      <4>2. n[j] \in Subs
        BY <1>6, <3>2
      <4>3. [status |-> "pending", sub |-> n[j], spec |-> t.spec, version |-> t.version] \in JobRow
        BY <1>2, <4>2 DEF JobRow
      <4>. QED BY <4>1, <4>3
    <3>. QED BY <1>2, <1>5, <3>1, <3>2
  <2>2. jobs' = [j \in 1..MaxJobs |-> jobs'[j]]
    BY <1>3 DEF Inserted
  <2>. QED BY <1>2, <1>5, <1>6, <1>7, <2>1, <2>2
<1>9. \A x \in Runs : runs'[x] = runs[x] \/ runs'[x] = Started(jobs')
  BY DEF Enqueue, Typed
<1>10. Typed'
  <2>1. runs' \in [Runs -> RunRow \cup {NoRun}]
    BY <1>8, StartedItems DEF Enqueue, Typed
  <2>2. \A x \in Runs : runs'[x] = NoRun \/ runs'[x].stage \in {"next", "branch", "file", "pull", "answer"}
    BY <2>1 DEF RunRow
  <2>3. \A j \in 1..MaxJobs :
          jobs'[j] = NoJob \/ jobs'[j] \in [status : {"pending", "done", "error"}, sub : Subs,
                                            spec : Specs, version : Releases]
    BY <1>8 DEF JobRow
  <2>. QED BY <1>5, <1>8, <2>1, <2>2, <2>3 DEF Enqueue, Typed, TypeOK
<1>11. TailsAreReleased'
  BY DEF Enqueue, TailsAreReleased
<1>12. JobsAreListed' /\ JobsAreReleased' /\ DoneIsProposed'
  <2>. SUFFICES ASSUME NEW j \in 1..MaxJobs, jobs'[j] # NoJob
                PROVE  /\ subs'[jobs'[j].sub] = "active" /\ specs[jobs'[j].spec].row # "absent"
                       /\ jobs'[j].version <= specs[jobs'[j].spec].head
                       /\ jobs'[j].status = "done" =>
                            \E v \in jobs'[j].version .. MaxRelease :
                              Proposed(jobs'[j].sub, jobs'[j].spec, v)
    <3>1. \A j \in 1..MaxJobs : jobs'[j].status = "done" => jobs'[j] # NoJob
      BY Distinct
    <3>. QED BY <3>1 DEF Enqueue, JobsAreListed, JobsAreReleased, DoneIsProposed, Proposed, Active
  <2>1. CASE jobs'[j] = jobs[j]
    <3>1. UNCHANGED <<specs, subs, prs>>
      BY DEF Enqueue
    <3>2. /\ Active(jobs[j].sub)
          /\ specs[jobs[j].spec].row # "absent" /\ jobs[j].version <= specs[jobs[j].spec].head
      BY <2>1 DEF JobsAreListed, JobsAreReleased
    <3>3. jobs[j].status = "done" =>
            \E v \in jobs[j].version .. MaxRelease : Proposed(jobs[j].sub, jobs[j].spec, v)
      BY DEF DoneIsProposed, Proposed
    <3>. QED BY <2>1, <3>1, <3>2, <3>3 DEF Active
  <2>2. CASE jobs'[j] # jobs[j]
    <3>1. UNCHANGED <<specs, subs>> /\ j > queued /\ j <= queued'
      BY <1>2, <1>5, <1>6, <2>2 DEF Enqueue
    <3>2. /\ jobs'[j] = [status |-> "pending", sub |-> n[j], spec |-> t.spec, version |-> t.version]
          /\ Active(n[j])
      BY <1>6, <3>1
    <3>3. /\ jobs'[j].sub = n[j] /\ jobs'[j].spec = t.spec /\ jobs'[j].version = t.version
          /\ jobs'[j].status = "pending"
      BY <3>2
    <3>. QED BY <3>1, <3>2, <3>3 DEF TailsAreReleased, Active
  <2>. QED BY <2>1, <2>2
<1>13. ItemsAreJobs'
  <2>. SUFFICES ASSUME NEW x \in Runs, runs'[x] # NoRun
                PROVE  /\ \A item \in runs'[x].todo :
                            /\ item.id <= queued' /\ specs[item.spec].head >= 1
                            /\ jobs'[item.id] # NoJob =>
                                 jobs'[item.id].sub = item.sub /\ jobs'[item.id].spec = item.spec
                       /\ Busy(x)' => runs'[x].job \in runs'[x].todo
    BY DEF Enqueue, ItemsAreJobs
  <2>1. CASE runs'[x] = runs[x]
    <3>1. runs[x].todo \in SUBSET Item
      BY <2>1 DEF Typed, RunRow
    <3>2. Busy(x)' => runs'[x].job \in runs'[x].todo
      BY <2>1 DEF ItemsAreJobs, Busy
    <3>3. \A item \in runs[x].todo : item.id \in 1..MaxJobs /\ item.id <= queued
      BY <2>1, <3>1 DEF ItemsAreJobs, Item
    <3>. QED BY <1>2, <1>5, <1>6, <2>1, <3>2, <3>3 DEF ItemsAreJobs
  <2>2. CASE runs'[x] = Started(jobs')
    <3>1. \A item \in runs'[x].todo :
              /\ item.id \in 1..MaxJobs /\ jobs'[item.id] # NoJob
              /\ jobs'[item.id].sub = item.sub /\ jobs'[item.id].spec = item.spec
      BY <1>8, <2>2, StartedItems
    <3>2. ~ Busy(x)'
      BY <1>8, <2>2, StartedItems DEF Busy
    <3>3. \A j \in 1..MaxJobs : jobs'[j] # NoJob => specs[jobs'[j].spec].head >= 1 /\ j <= queued'
      <4>. SUFFICES ASSUME NEW j \in 1..MaxJobs, jobs'[j] # NoJob
                    PROVE  specs[jobs'[j].spec].head >= 1 /\ j <= queued'
        OBVIOUS
      <4>1. jobs'[j].version <= specs[jobs'[j].spec].head
        BY <1>12 DEF JobsAreReleased, Enqueue
      <4>2. jobs'[j].version \in Releases /\ jobs'[j].spec \in Specs
        BY <1>8 DEF JobRow
      <4>. QED BY <1>5, <1>8, <4>1, <4>2 DEF Typed, TypeOK, Releases, PushBackAssumption
    <3>. QED BY <3>1, <3>2, <3>3
  <2>. QED BY <1>9, <2>1, <2>2
<1>14. \A x \in Runs : Busy(x)' => /\ runs'[x] = runs[x] /\ Busy(x)
                                   /\ jobs'[runs[x].job.id] = jobs[runs[x].job.id]
  <2>. SUFFICES ASSUME NEW x \in Runs, Busy(x)'
                PROVE  /\ runs'[x] = runs[x] /\ Busy(x)
                       /\ jobs'[runs[x].job.id] = jobs[runs[x].job.id]
    OBVIOUS
  <2>1. runs'[x] = runs[x] /\ Busy(x)
    BY <1>8, <1>9, StartedItems DEF Busy
  <2>2. runs[x].job.id \in 1..MaxJobs /\ runs[x].job.id <= queued
    BY <2>1, BusyFields DEF ItemsAreJobs
  <2>. QED BY <1>6, <2>1, <2>2
<1>15. PushesAreReleases' /\ AnswersStand' /\ BranchHoldsItsRelease'
  <2>1. PushesAreReleases'
    BY <1>14 DEF Enqueue, PushesAreReleases
  <2>2. AnswersStand'
    BY <1>14 DEF Enqueue, AnswersStand, BranchOf, FileOf, Busy
  <2>. QED BY <2>1, <2>2 DEF Enqueue, BranchHoldsItsRelease
<1>. QED BY <1>10, <1>11, <1>12, <1>13, <1>15

LEMMA RunJobsStep ==
  ASSUME PushBackAssumption, IInv, NEW r \in Runs, RunJobs(r)
  PROVE  IInv'
<1>. USE DEF IInv
<1>1. /\ jobs \in [1..MaxJobs -> JobRow \cup {NoJob}] /\ runs \in [Runs -> RunRow \cup {NoRun}]
      /\ \A j \in 1..MaxJobs : j > queued => jobs[j] = NoJob
      /\ queued \in 0..MaxJobs /\ MaxJobs \in Nat
  BY DEF Typed, TypeOK, PushBackAssumption
<1>2. /\ runs'[r] = Started(jobs) /\ runs'[r] \in RunRow /\ ~ Busy(r)'
      /\ runs'[r].stage = "next"
      /\ \A x \in Runs : x # r => runs'[x] = runs[x]
  BY <1>1, StartedItems DEF RunJobs, Busy
<1>3. Typed'
  <2>1. runs' \in [Runs -> RunRow \cup {NoRun}]
    BY <1>1, <1>2 DEF RunJobs
  <2>2. \A x \in Runs : runs'[x] = NoRun \/ runs'[x].stage \in {"next", "branch", "file", "pull", "answer"}
    BY <2>1 DEF RunRow
  <2>. QED BY <2>1, <2>2 DEF RunJobs, Typed, TypeOK
<1>4. ItemsAreJobs'
  <2>1. \A item \in runs'[r].todo :
          /\ item.id \in 1..MaxJobs /\ jobs[item.id] # NoJob
          /\ jobs[item.id].sub = item.sub /\ jobs[item.id].spec = item.spec
    BY <1>1, <1>2, StartedItems
  <2>2. \A j \in 1..MaxJobs : jobs[j] # NoJob => specs[jobs[j].spec].head >= 1 /\ j <= queued
    <3>. SUFFICES ASSUME NEW j \in 1..MaxJobs, jobs[j] # NoJob
                  PROVE  specs[jobs[j].spec].head >= 1 /\ j <= queued
      OBVIOUS
    <3>1. jobs[j].version \in Releases /\ jobs[j].spec \in Specs
      BY <1>1 DEF JobRow
    <3>. QED BY <1>1, <3>1 DEF JobsAreReleased, Typed, TypeOK, Releases, PushBackAssumption
  <2>3. \A item \in runs'[r].todo : item.id <= queued /\ specs[item.spec].head >= 1
    BY <2>1, <2>2
  <2>. QED BY <1>2, <2>1, <2>3 DEF RunJobs, ItemsAreJobs, Busy
<1>5. \A x \in Runs : Busy(x)' => runs'[x] = runs[x] /\ Busy(x)
  BY <1>2 DEF Busy
<1>6. PushesAreReleases'
  BY <1>5 DEF RunJobs, PushesAreReleases
<1>7. AnswersStand'
  BY <1>5 DEF RunJobs, AnswersStand, BranchOf, FileOf, Busy
<1>. QED BY <1>3, <1>4, <1>6, <1>7
         DEF RunJobs, TailsAreReleased, JobsAreListed, JobsAreReleased, Active,
             BranchHoldsItsRelease, DoneIsProposed, Proposed

\* A run that ends, or that dies with the process, leaves no trace in the others.
LEMMA EndRunStep ==
  ASSUME PushBackAssumption, IInv, NEW r \in Runs, EndRun(r)
  PROVE  IInv'
<1>. USE DEF IInv
<1>1. \A x \in Runs : runs'[x] = runs[x] \/ runs'[x] = NoRun
  BY DEF EndRun, Typed
<1>2. Typed'
  <2>1. runs' \in [Runs -> RunRow \cup {NoRun}]
    BY DEF EndRun, Typed
  <2>. QED BY <1>1, <2>1 DEF EndRun, Typed, TypeOK
<1>3. \A x \in Runs : Busy(x)' => runs'[x] = runs[x] /\ Busy(x)
  BY <1>1 DEF Busy, NoRun
<1>4. ItemsAreJobs'
  BY <1>1, <1>3 DEF EndRun, ItemsAreJobs
<1>5. PushesAreReleases'
  BY <1>3 DEF EndRun, PushesAreReleases
<1>6. AnswersStand'
  BY <1>3 DEF EndRun, AnswersStand, BranchOf, FileOf, Busy
<1>. QED BY <1>2, <1>4, <1>5, <1>6
         DEF EndRun, TailsAreReleased, JobsAreListed, JobsAreReleased, Active,
             BranchHoldsItsRelease, DoneIsProposed, Proposed

LEMMA CrashStep ==
  ASSUME PushBackAssumption, IInv, Crash
  PROVE  IInv'
<1>. USE DEF IInv
<1>1. \A x \in Runs : runs'[x] = NoRun /\ ~ Busy(x)'
  BY DEF Crash, Busy, NoRun
<1>2. Typed'
  <2>1. runs' \in [Runs -> RunRow \cup {NoRun}]
    BY DEF Crash
  <2>2. crashes' \in 0..MaxCrashes
    BY DEF Crash, Typed, TypeOK, PushBackAssumption
  <2>. QED BY <1>1, <2>1, <2>2 DEF Crash, Typed, TypeOK
<1>3. ItemsAreJobs' /\ PushesAreReleases' /\ AnswersStand'
  BY <1>1 DEF ItemsAreJobs, PushesAreReleases, AnswersStand, NoRun
<1>. QED BY <1>2, <1>3
         DEF Crash, TailsAreReleased, JobsAreListed, JobsAreReleased, Active,
             BranchHoldsItsRelease, DoneIsProposed, Proposed

\* The steps of an admin on rows that the runs only read.
LEMMA RowStep ==
  ASSUME PushBackAssumption, IInv,
         \/ \E sub \in Subs : Subscribe(sub)
         \/ \E s \in Specs : DeleteSpec(s) \/ RestoreSpec(s)
  PROVE  IInv'
<1>. USE DEF IInv
<1>1. /\ UNCHANGED <<jobs, queued, tails, runs, files, prs, crashes, outages>>
      /\ specs' \in [Specs -> [row : {"absent", "live", "deleted"}, head : 0..MaxRelease]]
      /\ subs' \in [Subs -> {"new", "active", "gone"}]
      /\ \A s \in Specs : /\ specs'[s].head = specs[s].head
                          /\ specs[s].row # "absent" => specs'[s].row # "absent"
      /\ \A sub \in Subs : subs[sub] = "active" => subs'[sub] = "active"
  <2>1. CASE \E sub \in Subs : Subscribe(sub)
    BY <2>1 DEF Subscribe, Typed, TypeOK
  <2>2. CASE \E s \in Specs : DeleteSpec(s) \/ RestoreSpec(s)
    <3>1. PICK s \in Specs, row \in {"live", "deleted"} :
            /\ specs' = [specs EXCEPT ![s].row = row]
            /\ UNCHANGED <<subs, jobs, queued, tails, runs, files, prs, crashes, outages>>
      <4>1. PICK s \in Specs : DeleteSpec(s) \/ RestoreSpec(s)
        BY <2>2
      <4>2. CASE DeleteSpec(s)
        BY <4>2 DEF DeleteSpec
      <4>3. CASE RestoreSpec(s)
        BY <4>3 DEF RestoreSpec
      <4>. QED BY <4>1, <4>2, <4>3
    <3>2. specs \in [Specs -> [row : {"absent", "live", "deleted"}, head : 0..MaxRelease]]
      BY DEF Typed, TypeOK
    <3>3. /\ specs' \in [Specs -> [row : {"absent", "live", "deleted"}, head : 0..MaxRelease]]
          /\ \A x \in Specs : /\ specs'[x].head = specs[x].head
                              /\ specs[x].row # "absent" => specs'[x].row # "absent"
      BY <3>1, <3>2
    <3>. QED BY <3>1, <3>3 DEF Typed, TypeOK
  <2>. QED BY <2>1, <2>2
<1>2. Typed'
  BY <1>1 DEF Typed, TypeOK
<1>3. TailsAreReleased'
  <2>1. \A t \in tails : t.spec \in Specs
    BY DEF Typed, TypeOK
  <2>. QED BY <1>1, <2>1 DEF TailsAreReleased
<1>4. JobsAreListed' /\ JobsAreReleased'
  <2>1. \A j \in 1..MaxJobs : jobs[j] # NoJob => jobs[j].spec \in Specs /\ jobs[j].sub \in Subs
    BY DEF Typed, JobRow
  <2>. QED BY <1>1, <2>1 DEF JobsAreListed, JobsAreReleased, Active
<1>5. ItemsAreJobs'
  <2>1. \A r \in Runs : runs[r] # NoRun => \A item \in runs[r].todo : item.spec \in Specs
    BY DEF Typed, RunRow, Item
  <2>. QED BY <1>1, <2>1 DEF ItemsAreJobs, Busy
<1>6. PushesAreReleases'
  BY <1>1, BusyFields DEF PushesAreReleases, Busy
<1>. QED BY <1>1, <1>2, <1>3, <1>4, <1>5, <1>6
         DEF AnswersStand, BranchOf, FileOf, BranchHoldsItsRelease, DoneIsProposed, Proposed

\* The steps of an admin that remove a subscription or a spec with its jobs.
LEMMA RemovalStep ==
  ASSUME PushBackAssumption, IInv,
         (\E sub \in Subs : Unsubscribe(sub)) \/ (\E s \in Specs : PurgeSpec(s))
  PROVE  IInv'
<1>. USE DEF IInv
<1>1. /\ UNCHANGED <<queued, tails, runs, files, prs, crashes, outages>>
      /\ specs' \in [Specs -> [row : {"absent", "live", "deleted"}, head : 0..MaxRelease]]
      /\ subs' \in [Subs -> {"new", "active", "gone"}]
      /\ \A s \in Specs : specs'[s].head = specs[s].head
      /\ \A t \in tails : specs'[t.spec].row = specs[t.spec].row
      /\ jobs' = [j \in 1..MaxJobs |-> jobs'[j]]
      /\ \A j \in 1..MaxJobs :
           \/ jobs'[j] = NoJob
           \/ /\ jobs'[j] = jobs[j] /\ subs'[jobs[j].sub] = subs[jobs[j].sub]
              /\ specs'[jobs[j].spec].row = specs[jobs[j].spec].row
  <2>0. /\ \A j \in 1..MaxJobs : jobs[j] # NoJob => jobs[j].spec \in Specs /\ jobs[j].sub \in Subs
        /\ \A t \in tails : t.spec \in Specs
    BY DEF Typed, TypeOK, JobRow
  <2>1. CASE \E sub \in Subs : Unsubscribe(sub)
    BY <2>0, <2>1 DEF Unsubscribe, WithoutJobs, Rows, Typed, TypeOK
  <2>2. CASE \E s \in Specs : PurgeSpec(s)
    BY <2>0, <2>2 DEF PurgeSpec, WithoutJobs, Rows, Typed, TypeOK
  <2>. QED BY <2>1, <2>2
<1>2. Typed'
  BY <1>1 DEF Typed, TypeOK
<1>3. TailsAreReleased'
  <2>1. \A t \in tails : t.spec \in Specs
    BY DEF Typed, TypeOK
  <2>. QED BY <1>1, <2>1 DEF TailsAreReleased
<1>4. JobsAreListed' /\ JobsAreReleased'
  <2>1. \A j \in 1..MaxJobs : jobs[j] # NoJob => jobs[j].spec \in Specs /\ jobs[j].sub \in Subs
    BY DEF Typed, JobRow
  <2>. QED BY <1>1, <2>1 DEF JobsAreListed, JobsAreReleased, Active
<1>5. ItemsAreJobs'
  <2>1. \A r \in Runs : runs[r] # NoRun =>
          \A item \in runs[r].todo : item.spec \in Specs /\ item.id \in 1..MaxJobs
    BY DEF Typed, RunRow, Item
  <2>. QED BY <1>1, <2>1 DEF ItemsAreJobs, Busy
<1>6. PushesAreReleases'
  BY <1>1, BusyFields DEF PushesAreReleases, Busy
<1>7. DoneIsProposed'
  BY <1>1, Distinct DEF DoneIsProposed, Proposed
<1>. QED BY <1>1, <1>2, <1>3, <1>4, <1>5, <1>6, <1>7
         DEF AnswersStand, BranchOf, FileOf, BranchHoldsItsRelease

-----------------------------------------------------------------------------
(* The steps of a run.                                                     *)

LEMMA ConcludeStep ==
  ASSUME PushBackAssumption, IInv, NEW r \in Runs, NEW job \in runs[r].todo, runs[r] # NoRun,
         NEW status \in {"done", "error"}, Conclude(r, job, status),
         status = "done" => runs[r].stage = "answer" /\ runs[r].job = job,
         UNCHANGED <<specs, subs, queued, tails, files, prs, crashes, outages>>
  PROVE  IInv'
<1>. USE DEF IInv
<1>1. /\ jobs \in [1..MaxJobs -> JobRow \cup {NoJob}] /\ runs \in [Runs -> RunRow \cup {NoRun}]
      /\ runs[r] \in RunRow /\ runs[r].todo \in SUBSET Item
      /\ job.id \in 1..MaxJobs /\ job.sub \in Subs /\ job.spec \in Specs
  BY DEF Typed, RunRow, Item
<1>2. /\ runs'[r] \in RunRow /\ runs'[r].stage = "next" /\ runs'[r].todo = runs[r].todo \ {job}
      /\ \A x \in Runs : x # r => runs'[x] = runs[x]
      /\ runs' \in [Runs -> RunRow \cup {NoRun}]
  BY <1>1 DEF Conclude, RunRow
<1>3. /\ \A j \in 1..MaxJobs : j # job.id => jobs'[j] = jobs[j]
      /\ jobs[job.id] = NoJob => jobs'[job.id] = NoJob
      /\ jobs[job.id] # NoJob =>
           /\ jobs'[job.id] # NoJob /\ jobs'[job.id] \in JobRow /\ jobs'[job.id].status = status
           /\ jobs'[job.id].sub = jobs[job.id].sub /\ jobs'[job.id].spec = jobs[job.id].spec
           /\ jobs'[job.id].version = jobs[job.id].version
      /\ jobs' \in [1..MaxJobs -> JobRow \cup {NoJob}]
  <2>1. CASE jobs[job.id] = NoJob
    BY <1>1, <2>1 DEF Conclude
  <2>2. CASE jobs[job.id] # NoJob
    <3>1. jobs[job.id] \in JobRow /\ jobs' = [jobs EXCEPT ![job.id].status = status]
      BY <1>1, <2>2 DEF Conclude
    <3>2. /\ jobs'[job.id] \in JobRow /\ jobs'[job.id].status = status
          /\ jobs'[job.id].sub = jobs[job.id].sub /\ jobs'[job.id].spec = jobs[job.id].spec
          /\ jobs'[job.id].version = jobs[job.id].version
      BY <1>1, <3>1 DEF JobRow
    <3>. QED BY <1>1, <2>2, <3>1, <3>2, Distinct
  <2>. QED BY <2>1, <2>2
<1>4. /\ \A j \in 1..MaxJobs :
           /\ jobs'[j] = NoJob <=> jobs[j] = NoJob
           /\ jobs[j] # NoJob => /\ jobs'[j].sub = jobs[j].sub /\ jobs'[j].spec = jobs[j].spec
                                 /\ jobs'[j].version = jobs[j].version
      /\ \A x \in Runs : Busy(x)' => runs'[x] = runs[x] /\ Busy(x)
  BY <1>2, <1>3 DEF Busy
<1>5. Typed'
  <2>1. \A x \in Runs : runs'[x] = NoRun \/ runs'[x].stage \in {"next", "branch", "file", "pull", "answer"}
    BY <1>2 DEF RunRow
  <2>2. \A j \in 1..MaxJobs :
          /\ jobs'[j] = NoJob \/ jobs'[j] \in [status : {"pending", "done", "error"}, sub : Subs,
                                               spec : Specs, version : Releases]
          /\ j > queued => jobs'[j] = NoJob
    BY <1>3, <1>4 DEF JobRow, Typed, TypeOK
  <2>. QED BY <1>2, <1>3, <2>1, <2>2 DEF Typed, TypeOK
<1>6. JobsAreListed' /\ JobsAreReleased'
  BY <1>4 DEF JobsAreListed, JobsAreReleased, Active
<1>7. ItemsAreJobs'
  <2>. SUFFICES ASSUME NEW x \in Runs, runs'[x] # NoRun
                PROVE  /\ \A item \in runs'[x].todo :
                            /\ item.id <= queued /\ specs[item.spec].head >= 1
                            /\ jobs'[item.id] # NoJob =>
                                 jobs'[item.id].sub = item.sub /\ jobs'[item.id].spec = item.spec
                       /\ Busy(x)' => runs'[x].job \in runs'[x].todo
    BY DEF ItemsAreJobs
  <2>1. runs[x] # NoRun /\ runs'[x].todo \subseteq runs[x].todo /\ runs[x].todo \in SUBSET Item
    BY <1>2, Distinct DEF Typed, RunRow
  <2>2. \A item \in runs[x].todo : item.id \in 1..MaxJobs
    BY <2>1 DEF Item
  <2>. QED BY <1>4, <2>1, <2>2 DEF ItemsAreJobs
<1>8. PushesAreReleases'
  <2>. SUFFICES ASSUME NEW x \in Runs, Busy(x)'
                PROVE  /\ runs'[x].release \in 1..specs[runs'[x].job.spec].head
                       /\ jobs'[runs'[x].job.id] # NoJob =>
                            jobs'[runs'[x].job.id].version <= runs'[x].release
    BY DEF PushesAreReleases
  <2>. QED BY <1>4, BusyFields DEF PushesAreReleases
<1>9. AnswersStand'
  BY <1>4 DEF AnswersStand, BranchOf, FileOf, Busy
<1>10. DoneIsProposed'
  <2>. SUFFICES ASSUME NEW j \in 1..MaxJobs, jobs'[j].status = "done"
                PROVE  \E v \in jobs'[j].version .. MaxRelease :
                         Proposed(jobs'[j].sub, jobs'[j].spec, v)
    BY DEF DoneIsProposed, Proposed
  <2>1. CASE jobs'[j] = jobs[j]
    BY <2>1 DEF DoneIsProposed, Proposed
  <2>2. CASE jobs'[j] # jobs[j]
    <3>1. j = job.id /\ status = "done" /\ jobs[j] # NoJob
      BY <1>3, <2>2
    <3>2. Busy(r) /\ runs[r].stage = "answer" /\ runs[r].job = job
      BY <3>1 DEF Busy
    <3>3. Proposed(job.sub, job.spec, runs[r].release)
      BY <3>2 DEF AnswersStand, BranchOf, FileOf, Proposed
    <3>4. jobs'[j].sub = job.sub /\ jobs'[j].spec = job.spec /\ jobs'[j].version <= runs[r].release
      BY <1>4, <3>1, <3>2 DEF ItemsAreJobs, PushesAreReleases
    <3>5. runs[r].release \in jobs'[j].version .. MaxRelease
      <4>1. jobs'[j].version \in Releases
        BY <1>3, <3>1 DEF JobRow
      <4>. QED BY <3>2, <3>4, <4>1, BusyFields DEF Releases, PushBackAssumption
    <3>. QED BY <3>3, <3>4, <3>5
  <2>. QED BY <2>1, <2>2
<1>. QED BY <1>5, <1>6, <1>7, <1>8, <1>9, <1>10 DEF TailsAreReleased, BranchHoldsItsRelease

\* A set of numbers that is not empty has a least one.
LEMMA Minimum ==
  ASSUME NEW T \in SUBSET Nat, T # {}
  PROVE  \E m \in T : \A n \in T : m <= n
<1>. DEFINE R == OpToRel(<, Nat)
<1>1. IsWellFoundedOn(R, Nat)
  BY NatLessThanWellFounded
<1>2. \A x, y \in Nat : x < y => <<x, y>> \in R
  BY DEF OpToRel
<1>. HIDE DEF R
<1>3. PICK m \in T : \A n \in T : ~ (<<n, m>> \in R)
  BY <1>1, WFMin
<1>4. \A n \in T : ~ (n < m)
  BY <1>2, <1>3
<1>5. \A n \in T : n \in Int /\ m \in Int
  OBVIOUS
<1>. QED BY <1>4, <1>5

LEMMA OldestIsAnItem ==
  ASSUME PushBackAssumption, NEW r \in Runs, runs[r].todo \in SUBSET Item, runs[r].todo # {}
  PROVE  Oldest(r) \in runs[r].todo
<1>. DEFINE T == {item.id : item \in runs[r].todo}
<1>1. T \in SUBSET Nat /\ T # {}
  BY DEF Item, PushBackAssumption
<1>2. PICK m \in T : \A n \in T : m <= n
  BY <1>1, Minimum
<1>3. \E item \in runs[r].todo : \A other \in runs[r].todo : item.id <= other.id
  BY <1>2
<1>. QED BY <1>3 DEF Oldest

LEMMA BeginJobStep ==
  ASSUME PushBackAssumption, IInv, NEW r \in Runs, BeginJob(r)
  PROVE  IInv'
<1>. USE DEF IInv
<1>. DEFINE job == Oldest(r)
<1>1. runs[r] \in RunRow /\ runs[r] # NoRun /\ runs[r].todo \in SUBSET Item
  BY DEF BeginJob, Typed, NoRun, RunRow
<1>2. job \in runs[r].todo /\ job \in Item
  BY <1>1, OldestIsAnItem DEF BeginJob
<1>3. job.id \in 1..MaxJobs /\ job.sub \in Subs /\ job.spec \in Specs
  BY <1>2 DEF Item
<1>. HIDE DEF job
<1>4. CASE Conclude(r, job, "error")
  BY <1>1, <1>2, <1>4, ConcludeStep DEF BeginJob
<1>5. CASE /\ runs' = [runs EXCEPT ![r] = [stage |-> "branch", todo |-> runs[r].todo, job |-> job,
                                           release |-> specs[job.spec].head]]
           /\ UNCHANGED jobs
  <2>1. UNCHANGED <<specs, subs, jobs, queued, tails, files, prs, crashes, outages>>
    BY <1>5 DEF BeginJob
  <2>2. /\ runs'[r] = [stage |-> "branch", todo |-> runs[r].todo, job |-> job,
                       release |-> specs[job.spec].head]
        /\ runs'[r] \in RunRow /\ runs' \in [Runs -> RunRow \cup {NoRun}]
        /\ \A x \in Runs : x # r => runs'[x] = runs[x]
    BY <1>1, <1>2, <1>3, <1>5 DEF RunRow, Typed, TypeOK
  <2>3. Typed'
    <3>1. \A x \in Runs : runs'[x] = NoRun \/ runs'[x].stage \in {"next", "branch", "file", "pull", "answer"}
      BY <2>2 DEF RunRow
    <3>. QED BY <2>1, <2>2, <3>1 DEF Typed, TypeOK
  <2>4. ItemsAreJobs'
    BY <1>1, <1>2, <2>1, <2>2 DEF ItemsAreJobs, Busy
  <2>5. PushesAreReleases'
    <3>1. specs[job.spec].head \in Nat /\ specs[job.spec].head >= 1
      BY <1>1, <1>2, <1>3 DEF ItemsAreJobs, Typed, TypeOK, PushBackAssumption
    <3>2. jobs[job.id] # NoJob => jobs[job.id].version <= specs[job.spec].head
      BY <1>1, <1>2, <1>3 DEF ItemsAreJobs, JobsAreReleased
    <3>3. \A x \in Runs : x # r => (Busy(x)' <=> Busy(x))
      BY <2>2 DEF Busy
    <3>4. runs'[r].job = job /\ runs'[r].release = specs[job.spec].head
      BY <2>2
    <3>. SUFFICES ASSUME NEW x \in Runs, Busy(x)'
                  PROVE  /\ runs'[x].release \in 1..specs[runs'[x].job.spec].head
                         /\ jobs[runs'[x].job.id] # NoJob =>
                              jobs[runs'[x].job.id].version <= runs'[x].release
      BY <2>1 DEF PushesAreReleases
    <3>5. CASE x = r
      BY <3>1, <3>2, <3>4, <3>5
    <3>6. CASE x # r
      BY <2>2, <3>3, <3>6 DEF PushesAreReleases
    <3>. QED BY <3>5, <3>6
  <2>6. AnswersStand'
    BY <2>1, <2>2 DEF AnswersStand, BranchOf, FileOf
  <2>. QED BY <2>1, <2>3, <2>4, <2>5, <2>6
           DEF TailsAreReleased, JobsAreListed, JobsAreReleased, Active,
               BranchHoldsItsRelease, DoneIsProposed, Proposed
<1>. QED BY <1>4, <1>5 DEF BeginJob, job

LEMMA CreateBranchStep ==
  ASSUME PushBackAssumption, IInv, NEW r \in Runs, CreateBranch(r)
  PROVE  IInv'
<1>. USE DEF IInv
<1>1. Busy(r) /\ files[FileOf(r)] \in Texts \cup {BaseText}
  BY BranchType DEF CreateBranch, Busy, Typed, TypeOK
<1>3. UNCHANGED <<specs, subs, jobs, queued, tails, files, prs, crashes, outages>>
  BY DEF CreateBranch
<1>4. /\ runs' \in [Runs -> RunRow \cup {NoRun}]
      /\ runs'[r].stage = "file" /\ runs'[r].todo = runs[r].todo /\ runs'[r].job = runs[r].job
      /\ runs'[r].release = runs[r].release /\ runs'[r] # NoRun
      /\ \A x \in Runs : x # r => runs'[x] = runs[x]
  <2>1. runs' = [runs EXCEPT ![r] = [stage |-> "file", todo |-> runs[r].todo, job |-> runs[r].job,
                                     release |-> runs[r].release, sha |-> files[FileOf(r)]]]
    BY DEF CreateBranch
  <2>2. [stage |-> "file", todo |-> runs[r].todo, job |-> runs[r].job,
         release |-> runs[r].release, sha |-> files[FileOf(r)]] \in RunRow
    BY <1>1, BusyFields DEF RunRow
  <2>. QED BY <2>1, <2>2, Distinct DEF Typed
<1>5. Typed'
  <2>1. \A x \in Runs : runs'[x] = NoRun \/ runs'[x].stage \in {"next", "branch", "file", "pull", "answer"}
    BY <1>4 DEF RunRow
  <2>. QED BY <1>3, <1>4, <2>1 DEF Typed, TypeOK
<1>6. \A x \in Runs : /\ Busy(x)' => Busy(x) /\ runs'[x].job = runs[x].job /\ runs'[x].release = runs[x].release
                      /\ runs'[x].stage \in {"pull", "answer"} => runs'[x] = runs[x]
  BY <1>1, <1>4 DEF Busy
<1>7. ItemsAreJobs'
  <2>1. runs[r] # NoRun
    BY <1>1, BusyFields
  <2>. QED BY <1>1, <1>3, <1>4, <1>6, <2>1 DEF ItemsAreJobs
<1>8. PushesAreReleases'
  BY <1>3, <1>6 DEF PushesAreReleases
<1>9. AnswersStand'
  BY <1>3, <1>6 DEF AnswersStand, BranchOf, FileOf
<1>. QED BY <1>3, <1>5, <1>7, <1>8, <1>9
         DEF TailsAreReleased, JobsAreListed, JobsAreReleased, Active,
             BranchHoldsItsRelease, DoneIsProposed, Proposed

LEMMA WriteFileStep ==
  ASSUME PushBackAssumption, IInv, NEW r \in Runs, WriteFile(r)
  PROVE  IInv'
<1>. USE DEF IInv
<1>. DEFINE f == FileOf(r)
            text == [spec |-> runs[r].job.spec, release |-> runs[r].release]
<1>1. /\ Busy(r) /\ f \in Files /\ f[1][3] = runs[r].release
      /\ f[3] = NameOf[runs[r].job.spec] /\ text \in Texts
  BY BranchType, TextFields DEF WriteFile, Busy
<1>2. /\ files' = [files EXCEPT ![f] = text]
      /\ text # BaseText /\ text.release = f[1][3] /\ NameOf[text.spec] = f[3]
  BY <1>1, TextFields DEF WriteFile, PushedText
<1>. HIDE DEF f, text
<1>11. /\ files'[f] = text /\ \A g \in Files : g # f => files'[g] = files[g]
       /\ \A g \in Files : files[g] # BaseText => files'[g] # BaseText
       /\ files' \in [Files -> Texts \cup {BaseText}]
  BY <1>1, <1>2 DEF Typed, TypeOK
<1>3. UNCHANGED <<specs, subs, jobs, queued, tails, prs, crashes, outages>>
  BY DEF WriteFile
<1>4. /\ runs' \in [Runs -> RunRow \cup {NoRun}]
      /\ runs'[r].stage = "pull" /\ runs'[r].todo = runs[r].todo /\ runs'[r].job = runs[r].job
      /\ runs'[r].release = runs[r].release /\ runs'[r] # NoRun /\ runs[r] # NoRun
      /\ \A x \in Runs : x # r => runs'[x] = runs[x]
  <2>1. /\ runs[r] \in [stage : {"file", "pull", "answer"}, todo : SUBSET Item, job : Item,
                        release : 0..MaxRelease, sha : Texts \cup {BaseText}]
        /\ runs' = [runs EXCEPT ![r].stage = "pull"]
    BY DEF WriteFile, Typed, RunRow, NoRun
  <2>2. /\ runs'[r] \in RunRow
        /\ runs'[r].stage = "pull" /\ runs'[r].todo = runs[r].todo /\ runs'[r].job = runs[r].job
        /\ runs'[r].release = runs[r].release
    BY <2>1 DEF RunRow, Typed
  <2>. QED BY <1>1, <2>1, <2>2, Distinct, BusyFields DEF Typed
<1>5. Typed'
  <2>1. \A x \in Runs : runs'[x] = NoRun \/ runs'[x].stage \in {"next", "branch", "file", "pull", "answer"}
    BY <1>4 DEF RunRow
  <2>. QED BY <1>3, <1>4, <1>11, <2>1 DEF Typed, TypeOK
<1>6. \A x \in Runs : /\ Busy(x)' => Busy(x) /\ runs'[x].job = runs[x].job /\ runs'[x].release = runs[x].release
                      /\ x # r /\ runs'[x].stage \in {"pull", "answer"} => runs'[x] = runs[x]
  BY <1>1, <1>4 DEF Busy
<1>7. ItemsAreJobs'
  BY <1>1, <1>3, <1>4, <1>6 DEF ItemsAreJobs
<1>8. PushesAreReleases'
  BY <1>3, <1>6 DEF PushesAreReleases
<1>9. AnswersStand'
  <2>. SUFFICES ASSUME NEW x \in Runs, runs'[x].stage \in {"pull", "answer"}
                PROVE  /\ files'[FileOf(x)] # BaseText
                       /\ runs'[x].stage = "answer" => BranchOf(x) \in prs
    BY <1>3, <1>6 DEF AnswersStand, BranchOf, FileOf, Busy
  <2>1. CASE x = r
    BY <1>2, <1>4, <1>11, <2>1 DEF f
  <2>2. CASE x # r
    <3>1. Busy(x) /\ runs[x].stage \in {"pull", "answer"} /\ runs'[x].stage = runs[x].stage
      BY <1>6, <2>2 DEF Busy
    <3>2. FileOf(x) \in Files
      BY <3>1, BranchType
    <3>. QED BY <1>11, <3>1, <3>2 DEF AnswersStand
  <2>. QED BY <2>1, <2>2
<1>10. BranchHoldsItsRelease'
  BY <1>2, <1>3, <1>11 DEF BranchHoldsItsRelease
<1>12. DoneIsProposed'
  <2>. SUFFICES ASSUME NEW j \in 1..MaxJobs, jobs[j].status = "done"
                PROVE  \E v \in jobs[j].version .. MaxRelease : Proposed(jobs[j].sub, jobs[j].spec, v)'
    BY <1>3 DEF DoneIsProposed, Proposed
  <2>1. PICK v \in jobs[j].version .. MaxRelease : Proposed(jobs[j].sub, jobs[j].spec, v)
    BY DEF DoneIsProposed
  <2>2. FileAt(jobs[j].sub, jobs[j].spec, v) \in Files
    <3>1. jobs[j] \in JobRow
      BY Distinct DEF Typed
    <3>2. jobs[j].sub \in Subs /\ jobs[j].spec \in Specs /\ jobs[j].version \in Releases
      BY <3>1 DEF JobRow
    <3>3. BranchAt(jobs[j].sub, jobs[j].spec, v) \in Branches
      BY <2>1 DEF Proposed, Typed, TypeOK
    <3>. QED BY <3>2, <3>3 DEF FileAt, Files
  <2>. QED BY <1>3, <1>11, <2>1, <2>2 DEF Proposed
<1>. QED BY <1>3, <1>5, <1>7, <1>8, <1>9, <1>10, <1>12
         DEF TailsAreReleased, JobsAreListed, JobsAreReleased, Active

LEMMA OpenPullStep ==
  ASSUME PushBackAssumption, IInv, NEW r \in Runs, OpenPull(r)
  PROVE  IInv'
<1>. USE DEF IInv
<1>. DEFINE b == BranchOf(r)
<1>1. /\ Busy(r) /\ b \in Branches /\ runs[r] # NoRun
      /\ FileOf(r) \in Files /\ FileOf(r)[1] = b /\ files[FileOf(r)] # BaseText
  BY BranchType, BusyFields DEF OpenPull, Busy, AnswersStand
<1>2. prs' = prs \cup {b}
  BY DEF OpenPull
<1>. HIDE DEF b
<1>3. UNCHANGED <<specs, subs, jobs, queued, tails, files, crashes, outages>>
  BY DEF OpenPull
<1>4. /\ runs' \in [Runs -> RunRow \cup {NoRun}]
      /\ runs'[r].stage = "answer" /\ runs'[r].todo = runs[r].todo /\ runs'[r].job = runs[r].job
      /\ runs'[r].release = runs[r].release
      /\ \A x \in Runs : x # r => runs'[x] = runs[x]
  <2>1. /\ runs[r] \in [stage : {"file", "pull", "answer"}, todo : SUBSET Item, job : Item,
                        release : 0..MaxRelease, sha : Texts \cup {BaseText}]
        /\ runs' = [runs EXCEPT ![r].stage = "answer"]
    BY DEF OpenPull, Typed, RunRow, NoRun
  <2>. QED BY <2>1 DEF RunRow, Typed
<1>5. Typed'
  <2>1. \A x \in Runs : runs'[x] = NoRun \/ runs'[x].stage \in {"next", "branch", "file", "pull", "answer"}
    BY <1>4 DEF RunRow
  <2>2. prs' \subseteq Branches
    BY <1>1, <1>2 DEF Typed, TypeOK
  <2>. QED BY <1>3, <1>4, <2>1, <2>2 DEF Typed, TypeOK
<1>6. \A x \in Runs : Busy(x)' => Busy(x) /\ runs'[x].job = runs[x].job /\ runs'[x].release = runs[x].release
  BY <1>1, <1>4 DEF Busy
<1>7. ItemsAreJobs'
  BY <1>1, <1>3, <1>4, <1>6 DEF ItemsAreJobs
<1>8. PushesAreReleases'
  BY <1>3, <1>6 DEF PushesAreReleases
<1>9. AnswersStand'
  <2>. SUFFICES ASSUME NEW x \in Runs, runs'[x].stage \in {"pull", "answer"}
                PROVE  /\ files[FileOf(x)] # BaseText
                       /\ runs'[x].stage = "answer" => BranchOf(x) \in prs'
    BY <1>3, <1>6 DEF AnswersStand, BranchOf, FileOf, Busy
  <2>1. CASE x = r
    BY <1>1, <1>2, <2>1 DEF b
  <2>2. CASE x # r
    BY <1>2, <1>4, <2>2 DEF AnswersStand
  <2>. QED BY <2>1, <2>2
<1>10. BranchHoldsItsRelease'
  BY <1>1, <1>2, <1>3 DEF BranchHoldsItsRelease
<1>11. DoneIsProposed'
  BY <1>2, <1>3 DEF DoneIsProposed, Proposed
<1>. QED BY <1>3, <1>5, <1>7, <1>8, <1>9, <1>10, <1>11
         DEF TailsAreReleased, JobsAreListed, JobsAreReleased, Active

LEMMA AnswerStep ==
  ASSUME PushBackAssumption, IInv, NEW r \in Runs, FinishJob(r) \/ FailJob(r)
  PROVE  IInv'
<1>1. Busy(r)
  BY DEF FinishJob, FailJob, Busy
<1>2. runs[r] # NoRun /\ runs[r].job \in runs[r].todo
  BY <1>1, BusyFields DEF IInv, ItemsAreJobs
<1>3. CASE FinishJob(r)
  BY <1>2, <1>3, ConcludeStep DEF FinishJob
<1>4. CASE FailJob(r)
  BY <1>2, <1>4, ConcludeStep DEF FailJob
<1>. QED BY <1>3, <1>4

LEMMA IdleStep ==
  ASSUME IInv, UNCHANGED vars
  PROVE  IInv'
BY DEF vars, IInv, Typed, TypeOK, TailsAreReleased, JobsAreListed, JobsAreReleased, Active,
       ItemsAreJobs, PushesAreReleases, AnswersStand, BranchOf, FileOf, Busy,
       BranchHoldsItsRelease, DoneIsProposed, Proposed

LEMMA IInvStep ==
  ASSUME PushBackAssumption, IInv, [Next]_vars
  PROVE  IInv'
<1>1. CASE \E s \in Specs, approved \in BOOLEAN : Release(s, approved)
  BY <1>1, ReleaseStep
<1>2. CASE \E t \in tails, r \in Runs : Enqueue(t, r)
  BY <1>2, EnqueueStep
<1>3. CASE \E r \in Runs : RunJobs(r)
  BY <1>3, RunJobsStep
<1>4. CASE \E r \in Runs : RunStep(r)
  <2>1. PICK r \in Runs : RunStep(r)
    BY <1>4
  <2>. QED BY <2>1, BeginJobStep, CreateBranchStep, WriteFileStep, OpenPullStep, AnswerStep, EndRunStep
           DEF RunStep
<1>5. CASE (\E sub \in Subs : Unsubscribe(sub)) \/ (\E s \in Specs : PurgeSpec(s))
  BY <1>5, RemovalStep
<1>6. CASE (\E sub \in Subs : Subscribe(sub)) \/ (\E s \in Specs : DeleteSpec(s) \/ RestoreSpec(s))
  BY <1>6, RowStep
<1>7. CASE Crash
  BY <1>7, CrashStep
<1>8. CASE UNCHANGED vars
  BY <1>8, IdleStep
<1>. QED BY <1>1, <1>2, <1>3, <1>4, <1>5, <1>6, <1>7, <1>8 DEF Next

THEOREM IInvHolds == Spec => []IInv
<1>. USE PushBackAssumption
<1>1. Init => IInv
  BY InitIInv
<1>2. IInv /\ [Next]_vars => IInv'
  BY IInvStep
<1>. QED BY <1>1, <1>2, PTL DEF Spec

-----------------------------------------------------------------------------
(* What the runs check, for every instance.                                *)

\* What GET /sync-jobs shows is true: every listed job belongs to an active
\* subscription and an existing spec, and a job that is done has a pull request
\* of its release or a later one, whatever runs, crashes and GitHub did.
THEOREM JobsStayTrue == Spec => []JobsAreTrue
<1>1. IInv => JobsAreTrue
  BY DEF IInv, Typed, JobsAreTrue
<1>. QED BY <1>1, IInvHolds, PTL

\* processSyncJobs writes the text of a release only to the branch named for it,
\* and opens a pull request only for a branch that shows that text, though
\* releases and other runs go on while it awaits GitHub.
THEOREM BranchesHoldTheirRelease == Spec => []BranchHoldsItsRelease
<1>1. IInv => BranchHoldsItsRelease
  BY DEF IInv
<1>. QED BY <1>1, IInvHolds, PTL

=============================================================================
