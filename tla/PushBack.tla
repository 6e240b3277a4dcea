------------------------------ MODULE PushBack ------------------------------
(***************************************************************************)
(* Git push-back: a stable release queues one job per subscribed           *)
(* repository and a background run turns pending jobs into branches and    *)
(* pull requests (lib/github.ts, the tails of approve and promote after    *)
(* their first await, the subscription and sync-job routes of              *)
(* routes/admin.ts).                                                       *)
(*                                                                         *)
(* A run is an async function: between two calls to GitHub every other     *)
(* handler, and every other run, may move.  Handlers after their first     *)
(* await and runs live in memory and die with the process; jobs,           *)
(* subscriptions and specs are rows.  Releases of a spec are numbered in   *)
(* the order in which they became its head.                                *)
(*                                                                         *)
(* GitHub knows nothing of specs: a branch is named by a spec's filename,  *)
(* in lower case and without .md, and its version, and a file by the base  *)
(* path of the subscription and the filename.  Specs of one filename, of a *)
(* project type and of a global one say, share both.                       *)
(***************************************************************************)
EXTENDS Integers, FiniteSets

CONSTANTS
  Specs, Subs,   \* specs and repository subscriptions
  TypeOf,        \* the project type of each spec and subscription
  Repos, RepoOf, \* repositories, and the one of each subscription
  PathOf,        \* the base path of each subscription
  GlobalTypes,   \* project types of global scope
  NameOf,        \* the filename of each spec
  StemOf,        \* filenames as they appear in the name of a branch
  Runs,          \* concurrent executions of processSyncJobs
  MaxRelease,    \* bound on the releases of a spec
  MaxReleases,   \* bound on the releases of all specs
  Removable,     \* bound on deletions: the specs that may be deleted
  MaxJobs,       \* bound on the rows ever inserted into sync_jobs
  Outages,       \* of TRUE and FALSE, whether calls to GitHub may fail
  MaxCrashes     \* bound on the deaths of the process

ASSUME PushBackAssumption ==
  /\ MaxRelease \in Nat /\ MaxReleases \in Nat /\ MaxJobs \in Nat /\ IsFiniteSet(Subs)
  /\ Outages \subseteq BOOLEAN /\ MaxCrashes \in Nat
  /\ Specs \cap Subs = {} /\ Specs \cup Subs \subseteq DOMAIN TypeOf
  /\ RepoOf \in [Subs -> Repos]
  /\ Subs \subseteq DOMAIN PathOf /\ Specs \subseteq DOMAIN NameOf
  /\ \A s \in Specs : NameOf[s] \in DOMAIN StemOf

VARIABLES
  specs,   \* table specs: whether the row is live, deleted or absent, and its head
  subs,    \* table repo_subscriptions: not yet there, active or deleted
  jobs,    \* table sync_jobs, by order of creation
  queued,  \* the number of rows ever inserted into sync_jobs
  tails,   \* handlers that released and still await the search index
  runs,    \* the executions of processSyncJobs
  files,   \* GitHub: what each file holds on each branch
  prs,     \* GitHub: branches with a pull request
  crashes, \* the number of times the process died
  outages  \* whether calls to GitHub fail in this behaviour

vars == <<specs, subs, jobs, queued, tails, runs, files, prs, crashes, outages>>

Releases == 1..MaxRelease

\* specreg/<filename without .md, in lower case>-<version>, in a repository.
Branches == Repos \X {StemOf[NameOf[s]] : s \in Specs} \X Releases

\* <base path>/<filename> on a branch.
Files == Branches \X {PathOf[sub] : sub \in Subs} \X {NameOf[s] : s \in Specs}

BranchAt(sub, s, v) == <<RepoOf[sub], StemOf[NameOf[s]], v>>
FileAt(sub, s, v) == <<BranchAt(sub, s, v), PathOf[sub], NameOf[s]>>

\* What a file holds: what it holds on the base branch, which is what a branch is
\* created with, or the text of a release.
BaseText == [release |-> 0]
Texts == [spec : Specs, release : Releases]

NoJob == [status |-> "none"]
NoRun == [stage |-> "none"]

TypeOK ==
  /\ specs \in [Specs -> [row : {"absent", "live", "deleted"}, head : 0..MaxRelease]]
  /\ subs \in [Subs -> {"new", "active", "gone"}]
  /\ queued \in 0..MaxJobs
  /\ \A j \in 1..MaxJobs :
       /\ jobs[j] = NoJob \/ jobs[j] \in [status : {"pending", "done", "error"}, sub : Subs,
                                          spec : Specs, version : Releases]
       /\ j > queued => jobs[j] = NoJob
  /\ tails \subseteq [spec : Specs, version : Releases, process : BOOLEAN]
  /\ \A r \in Runs :
       runs[r] = NoRun \/ runs[r].stage \in {"next", "branch", "file", "pull", "answer"}
  /\ files \in [Files -> Texts \cup {BaseText}]
  /\ prs \subseteq Branches
  /\ crashes \in 0..MaxCrashes /\ outages \in Outages

Init ==
  /\ specs = [s \in Specs |-> [row |-> "live", head |-> 0]]
  /\ subs = [sub \in Subs |-> "new"]
  /\ jobs = [j \in 1..MaxJobs |-> NoJob]
  /\ queued = 0
  /\ tails = {}
  /\ runs = [r \in Runs |-> NoRun]
  /\ files = [f \in Files |-> BaseText]
  /\ prs = {}
  /\ crashes = 0
  /\ outages \in Outages
-----------------------------------------------------------------------------
(* Releases and the jobs they queue.                                       *)

Released == {release \in Specs \X Releases : release[2] <= specs[release[1]].head}

\* The transaction of approve (on the stable channel) or promote, up to the
\* await of the search index; approve will also process the queue.
Release(s, approved) ==
  /\ specs[s].row = "live" /\ specs[s].head < MaxRelease
  /\ Cardinality(Released) < MaxReleases
  /\ specs' = [specs EXCEPT ![s].head = @ + 1]
  /\ tails' = tails \cup {[spec |-> s, version |-> specs[s].head + 1, process |-> approved]}
  /\ UNCHANGED <<subs, jobs, queued, runs, files, prs, crashes, outages>>

Active(sub) == subs[sub] = "active"

\* A spec of global scope ships in every bundle.
SubscribersOf(s) ==
  {sub \in Subs : Active(sub) /\ (TypeOf[s] \in GlobalTypes \/ TypeOf[sub] = TypeOf[s])}

\* enqueueSyncJobs: one pending row per subscription, numbered in some order.
\* The version is the one the handler read before it awaited the index.
Inserted(t, numbering) ==
  [j \in 1..MaxJobs |->
     IF j \in DOMAIN numbering
       THEN [status |-> "pending", sub |-> numbering[j], spec |-> t.spec, version |-> t.version]
       ELSE jobs[j]]

Numberings(S) ==
  {n \in [queued + 1 .. queued + Cardinality(S) -> S] : \A sub \in S : \E j \in DOMAIN n : n[j] = sub}

FailedRows == {j \in 1..MaxJobs : jobs[j].status = "error"}  \* mutant of Pending
Pending == {j \in 1..MaxJobs : jobs[j].status = "pending"}

\* processSyncJobs reads the pending rows once, when it starts.
Snapshot(rows) ==
  {[id |-> j, sub |-> rows[j].sub, spec |-> rows[j].spec] :
     j \in {i \in 1..MaxJobs : rows[i].status = "pending"}}

Started(rows) == [stage |-> "next", todo |-> Snapshot(rows)]

\* The rest of the handler: queue the jobs and, after an approval with anything
\* queued and a token configured, start a run in the background.
Enqueue(t, r) ==
  LET S == SubscribersOf(t.spec)
  IN  /\ t \in tails
      /\ queued + Cardinality(S) <= MaxJobs
      /\ tails' = tails \ {t}
      /\ queued' = queued + Cardinality(S)
      /\ \E n \in Numberings(S) : jobs' = Inserted(t, n)
      /\ IF t.process /\ S # {}
           THEN runs[r] = NoRun /\ runs' = [runs EXCEPT ![r] = Started(jobs')]
           ELSE UNCHANGED runs
      /\ UNCHANGED <<specs, subs, files, prs, crashes, outages>>

\* POST /sync-jobs/run
RunJobs(r) ==
  /\ Pending # {} /\ runs[r] = NoRun
  /\ runs' = [runs EXCEPT ![r] = Started(jobs)]
  /\ UNCHANGED <<specs, subs, jobs, queued, tails, files, prs, crashes, outages>>
-----------------------------------------------------------------------------
(* One run.                                                                *)

Oldest(r) == CHOOSE job \in runs[r].todo : \A other \in runs[r].todo : job.id <= other.id

ErrorSwallowed(r, job, status) ==  \* mutant of Conclude
  /\ jobs' = IF jobs[job.id] = NoJob THEN jobs ELSE [jobs EXCEPT ![job.id].status = "done"]
  /\ runs' = [runs EXCEPT ![r] = [stage |-> "next", todo |-> runs[r].todo \ {job}]]
\* UPDATE sync_jobs, without a look at the row's status; a row deleted in the
\* meantime is not updated.
Conclude(r, job, status) ==
  /\ jobs' = IF jobs[job.id] = NoJob THEN jobs ELSE [jobs EXCEPT ![job.id].status = status]
  /\ runs' = [runs EXCEPT ![r] = [stage |-> "next", todo |-> runs[r].todo \ {job}]]

\* The next job of the snapshot: its subscription and its spec, deleted or not,
\* are read again, and the push works on that copy of the spec.
BeginJob(r) ==
  /\ runs[r].stage = "next" /\ runs[r].todo # {}
  /\ LET job == Oldest(r)
     IN  IF Active(job.sub) /\ specs[job.spec].row # "absent"
           THEN /\ runs' = [runs EXCEPT ![r] =
                     [stage |-> "branch", todo |-> runs[r].todo, job |-> job,
                      release |-> specs[job.spec].head]]
                /\ UNCHANGED jobs
           ELSE Conclude(r, job, "error")
  /\ UNCHANGED <<specs, subs, queued, tails, files, prs, crashes, outages>>

BranchOf(r) == BranchAt(runs[r].job.sub, runs[r].job.spec, runs[r].release)
FileOf(r) == FileAt(runs[r].job.sub, runs[r].job.spec, runs[r].release)

\* The branch is created from the base branch unless it exists (422, whoever made
\* it), and the blob of the file there is read.
CreateBranch(r) ==
  /\ runs[r].stage = "branch"
  /\ runs' = [runs EXCEPT ![r] =
       [stage |-> "file", todo |-> runs[r].todo, job |-> runs[r].job,
        release |-> runs[r].release, sha |-> files[FileOf(r)]]]
  /\ UNCHANGED <<specs, subs, jobs, queued, tails, files, prs, crashes, outages>>

CurrentText(r) ==  \* mutant of PushedText
  [spec |-> runs[r].job.spec, release |-> specs[runs[r].job.spec].head]
PushedText(r) == [spec |-> runs[r].job.spec, release |-> runs[r].release]

\* PUT of the contents: GitHub refuses a blob sha that is not the file's.
WriteFile(r) ==
  /\ runs[r].stage = "file"
  /\ files[FileOf(r)] = runs[r].sha
  /\ files' = [files EXCEPT ![FileOf(r)] = PushedText(r)]
  /\ runs' = [runs EXCEPT ![r].stage = "pull"]
  /\ UNCHANGED <<specs, subs, jobs, queued, tails, prs, crashes, outages>>

\* POST pulls: opened, or already there (422); both count as done.
OpenPull(r) ==
  /\ runs[r].stage = "pull"
  /\ prs' = prs \cup {BranchOf(r)}
  /\ runs' = [runs EXCEPT ![r].stage = "answer"]
  /\ UNCHANGED <<specs, subs, jobs, queued, tails, files, crashes, outages>>

FinishJob(r) ==
  /\ runs[r].stage = "answer"
  /\ Conclude(r, runs[r].job, "done")
  /\ UNCHANGED <<specs, subs, queued, tails, files, prs, crashes, outages>>

\* A call fails or times out, or the PUT is refused as stale.
FailJob(r) ==
  /\ \/ outages /\ runs[r].stage \in {"branch", "file", "pull"}
     \/ runs[r].stage = "file" /\ files[FileOf(r)] # runs[r].sha
  /\ Conclude(r, runs[r].job, "error")
  /\ UNCHANGED <<specs, subs, queued, tails, files, prs, crashes, outages>>

EndRun(r) ==
  /\ runs[r].stage = "next" /\ runs[r].todo = {}
  /\ runs' = [runs EXCEPT ![r] = NoRun]
  /\ UNCHANGED <<specs, subs, jobs, queued, tails, files, prs, crashes, outages>>
-----------------------------------------------------------------------------
(* The world around the queue.                                             *)

\* POST /subscriptions; (project_type_id, repo) is unique.
Subscribe(sub) ==
  /\ subs[sub] = "new"
  /\ \A other \in Subs :
       Active(other) => <<TypeOf[other], RepoOf[other]>> # <<TypeOf[sub], RepoOf[sub]>>
  /\ subs' = [subs EXCEPT ![sub] = "active"]
  /\ UNCHANGED <<specs, jobs, queued, tails, runs, files, prs, crashes, outages>>

WithoutJobs(S) == [j \in 1..MaxJobs |-> IF j \in S THEN NoJob ELSE jobs[j]]

Rows == {j \in 1..MaxJobs : jobs[j] # NoJob}

\* DELETE /subscriptions/:id
Unsubscribe(sub) ==
  /\ Active(sub)
  /\ jobs' = WithoutJobs({j \in Rows : jobs[j].sub = sub})
  /\ subs' = [subs EXCEPT ![sub] = "gone"]
  /\ UNCHANGED <<specs, queued, tails, runs, files, prs, crashes, outages>>

\* DELETE /specs/:id and POST /specs/:id/restore
DeleteSpec(s) ==
  /\ specs[s].row = "live" /\ s \in Removable
  /\ specs' = [specs EXCEPT ![s].row = "deleted"]
  /\ UNCHANGED <<subs, jobs, queued, tails, runs, files, prs, crashes, outages>>

RestoreSpec(s) ==
  /\ specs[s].row = "deleted"
  /\ specs' = [specs EXCEPT ![s].row = "live"]
  /\ UNCHANGED <<subs, jobs, queued, tails, runs, files, prs, crashes, outages>>

\* POST /specs/purge, fourteen days after the deletion: no handler that released
\* the spec is still waiting by then.
PurgeSpec(s) ==
  /\ specs[s].row = "deleted"
  /\ \A t \in tails : t.spec # s
  /\ jobs' = WithoutJobs({j \in Rows : jobs[j].spec = s})
  /\ specs' = [specs EXCEPT ![s].row = "absent"]
  /\ UNCHANGED <<subs, queued, tails, runs, files, prs, crashes, outages>>

\* The process dies and restarts; nothing resumes.
Crash ==
  /\ crashes < MaxCrashes
  /\ crashes' = crashes + 1
  /\ tails' = {}
  /\ runs' = [r \in Runs |-> NoRun]
  /\ UNCHANGED <<specs, subs, jobs, queued, files, prs, outages>>
-----------------------------------------------------------------------------
RunStep(r) ==
  \/ BeginJob(r) \/ CreateBranch(r) \/ WriteFile(r) \/ OpenPull(r)
  \/ FinishJob(r) \/ FailJob(r) \/ EndRun(r)

Next ==
  \/ \E s \in Specs, approved \in BOOLEAN : Release(s, approved)
  \/ \E t \in tails, r \in Runs : Enqueue(t, r)
  \/ \E r \in Runs : RunJobs(r) \/ RunStep(r)
  \/ \E sub \in Subs : Subscribe(sub) \/ Unsubscribe(sub)
  \/ \E s \in Specs : DeleteSpec(s) \/ RestoreSpec(s) \/ PurgeSpec(s)
  \/ Crash

Spec == Init /\ [][Next]_vars

\* The event loop goes on with every run, and an admin keeps asking for one.
FairSpec == Spec /\ (\A r \in Runs : WF_vars(RunStep(r))) /\ WF_vars(\E r \in Runs : RunJobs(r))
-----------------------------------------------------------------------------
(* Properties.                                                             *)

Proposed(sub, s, v) == BranchAt(sub, s, v) \in prs /\ files[FileAt(sub, s, v)] # BaseText

\* A job that is done has a pull request in its repository that writes the file of its
\* spec, for its own release or a later one, however many runs handled the job and
\* whatever they overwrote.
DoneIsProposed ==
  \A j \in 1..MaxJobs : jobs[j].status = "done" =>
    \E v \in jobs[j].version .. MaxRelease : Proposed(jobs[j].sub, jobs[j].spec, v)

\* A file that was written shows the text of the release its branch is named for, of a
\* spec of its filename, though the head may have moved on while the run awaited
\* GitHub; and no branch is proposed before a file was written to it.  (Which spec, if
\* several have the filename and the version, is up to the last PUT.)
BranchHoldsItsRelease ==
  /\ \A f \in Files : files[f] # BaseText =>
       files[f].release = f[1][3] /\ NameOf[files[f].spec] = f[3]
  /\ \A b \in prs : \E f \in Files : f[1] = b /\ files[f] # BaseText

\* No job outlives its subscription or its spec: GET /sync-jobs joins both, so
\* such a job would be invisible.
JobsAreListed ==
  \A j \in 1..MaxJobs : jobs[j] # NoJob =>
    Active(jobs[j].sub) /\ specs[jobs[j].spec].row # "absent"

\* What the job list shows is true: jobs of subscriptions and specs that exist, and
\* a pull request that writes the file of every job that is done.
JobsAreTrue == TypeOK /\ JobsAreListed /\ DoneIsProposed

\* Every pending job is decided in the end, or goes with its subscription or
\* spec, although a crash forgets the runs.
JobsAreDecided ==
  \A j \in 1..MaxJobs : (jobs[j].status = "pending") ~> (jobs[j].status # "pending")

\* While GitHub answers and the process lives, every job of a release leads to a pull
\* request of that release or a later one.  (Of two overlapping runs one may fail the
\* job; if the process then dies before the other is done, the job stays an error.)
JobsAreProposed ==
  \A j \in 1..MaxJobs, sub \in Subs, s \in Specs, v \in Releases :
    (~outages /\ jobs[j] = [status |-> "pending", sub |-> sub, spec |-> s, version |-> v]) ~>
      \/ \E w \in v .. MaxRelease : Proposed(sub, s, w)
      \/ jobs[j] = NoJob
      \/ crashes > 0

\* Every job comes to its end, and to the right one while GitHub answers.
JobsEnd == JobsAreDecided /\ JobsAreProposed

\* docs/CONCEPTS.md: deleted specs are hidden from automation.  A push of a
\* deleted spec does not begin.
DeletedSpecsAreNotPushed ==
  [][\A r \in Runs :
       runs[r].stage = "next" /\ runs'[r].stage = "branch" =>
         specs[runs'[r].job.spec].row = "live"]_vars
=============================================================================
