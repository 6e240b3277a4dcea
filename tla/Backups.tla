------------------------------ MODULE Backups ------------------------------
(***************************************************************************)
(* Backups of the registry (lib/backup.ts, backup-cli.ts, the backup routes*)
(* of routes/admin.ts).  A backup is written to a file named after the     *)
(* second it started in, then gets its checksum in a second file, then the *)
(* oldest files are pruned.  The scheduler, administrators and the command *)
(* line back up at the same time; the server or the command may be killed  *)
(* in the middle.  A restore, with everything stopped, verifies a file,    *)
(* copies it over the database and removes the journal of the old one.     *)
(*                                                                         *)
(* Of the database the model keeps how many writes it has seen.  SQLite's  *)
(* online backup is external: it copies one state of the database, and a   *)
(* copy that was interrupted is an empty file, which SQLite takes for an   *)
(* empty database, or one that integrity_check refuses.                    *)
(***************************************************************************)
EXTENDS Naturals, FiniteSets

CONSTANTS
  ServerJobs,     \* the scheduler's backup and those of administrators
  CliJobs,        \* backups of the command line
  Keep,           \* SPECREG_BACKUP_KEEP
  MaxClock,       \* bound on the seconds in which backups start
  MaxWrites,      \* bound on writes to the database
  MaxKills        \* bound on processes killed

Jobs == ServerJobs \cup CliJobs
Stamps == 1..MaxClock

ASSUME BackupsAssumption ==
  /\ Keep \in Nat \ {0}
  /\ IsFiniteSet(Jobs) /\ ServerJobs \cap CliJobs = {}
  /\ {MaxClock, MaxWrites, MaxKills} \subseteq Nat

VARIABLES
  up,          \* the server runs
  database,    \* what the database file holds
  journal,     \* its WAL: the state it leads to, if it holds writes the file does not
  stale,       \* whether the WAL belongs to a database that has been replaced
  files,       \* backups by time stamp
  sums,        \* their checksum files: the text that was summed
  jobs,        \* running backups
  restoring,   \* the restore that the command line is at
  completed,   \* history: time stamps of backups that have ended
  shared,      \* history: time stamps that several backups started in
  halfway,     \* history: whether a restore was killed halfway
  clock, kills

backupVars == <<up, database, journal, stale, files, sums, jobs, restoring, completed, shared,
                halfway, clock, kills>>

None == [is |-> "none"]
Snapshot(n) == [is |-> "snapshot", writes |-> n]
Empty == [is |-> "empty"]
Torn == [is |-> "torn"]
Mixed == [is |-> "mixed"]
NoJob == [phase |-> "idle", stamp |-> 0]

BackupsTypeOK ==
  /\ up \in BOOLEAN
  /\ database \in {Snapshot(n) : n \in 0..MaxWrites} \cup {Empty, Mixed}
  /\ journal \in {None} \cup {Snapshot(n) : n \in 0..MaxWrites}
  /\ files \in [Stamps -> {Snapshot(n) : n \in 0..MaxWrites} \cup {None, Empty, Torn}]
  /\ sums \in [Stamps -> {Snapshot(n) : n \in 0..MaxWrites} \cup {None, Torn}]
  /\ \A j \in Jobs : jobs[j].phase \in {"idle", "copying", "copied"} /\ jobs[j].stamp \in 0..MaxClock
  /\ restoring \in BOOLEAN /\ stale \in BOOLEAN /\ halfway \in BOOLEAN
  /\ completed \subseteq Stamps /\ shared \subseteq Stamps
  /\ clock \in 0..MaxClock /\ kills \in 0..MaxKills

BackupsInit ==
  /\ up = TRUE
  /\ database = Snapshot(0) /\ journal = None
  /\ files = [s \in Stamps |-> None] /\ sums = [s \in Stamps |-> None]
  /\ jobs = [j \in Jobs |-> NoJob]
  /\ restoring = FALSE /\ stale = FALSE /\ halfway = FALSE
  /\ completed = {} /\ shared = {}
  /\ clock = 0 /\ kills = 0

\* What SQLite reads: it replays the journal it finds.
State ==
  CASE journal = None -> database
    [] journal # None /\ stale -> Mixed
    [] OTHER -> journal

history == <<completed, shared, halfway>>
AllIdle == \A j \in Jobs : jobs[j] = NoJob
-----------------------------------------------------------------------------
(* Taking backups.                                                         *)

\* Writes go to the journal first and reach the file with a checkpoint.
Write ==
  /\ up /\ State.is = "snapshot" /\ State.writes < MaxWrites
  /\ journal' = Snapshot(State.writes + 1)
  /\ UNCHANGED <<up, database, stale, files, sums, jobs, restoring, history, clock, kills>>

Checkpointed == database' = State /\ journal' = None /\ stale' = FALSE

Checkpoint ==
  /\ up /\ journal # None
  /\ Checkpointed
  /\ UNCHANGED <<up, files, sums, jobs, restoring, history, clock, kills>>

\* A second passes.
Tick ==
  /\ clock < MaxClock /\ clock' = clock + 1
  /\ UNCHANGED <<up, database, journal, stale, files, sums, jobs, restoring, history, kills>>

\* runBackup up to its await; a tick of the scheduler finds the last one still running.
\* Only registries that a restore has not spoilt are backed up any further.
StartBackup(j) ==
  /\ clock > 0 /\ jobs[j] = NoJob
  /\ j \in ServerJobs => up
  /\ ~restoring
  /\ State.is = "snapshot"
  /\ jobs' = [jobs EXCEPT ![j] = [phase |-> "copying", stamp |-> clock]]
  /\ files' = [files EXCEPT ![clock] = IF @ = None THEN Empty ELSE @]
  /\ shared' = IF files[clock] = None THEN shared ELSE shared \cup {clock}
  /\ UNCHANGED <<up, database, journal, stale, sums, restoring, completed, halfway, clock, kills>>

\* The online backup ends with the state of that moment.  A file that was pruned
\* under the copy does not come back.
CopyDone(j) ==
  /\ jobs[j].phase = "copying"
  /\ files' = [files EXCEPT ![jobs[j].stamp] = IF @ = None THEN None ELSE State]
  /\ jobs' = [jobs EXCEPT ![j].phase = "copied"]
  /\ UNCHANGED <<up, database, journal, stale, sums, restoring, history, clock, kills>>

NewestPruned(names) == {s \in names : Cardinality({t \in names : t > s}) < Keep}  \* mutant of Pruned
\* pruneBackups: what is beyond the newest Keep, finished or not.
Pruned(names) == {s \in names : Cardinality({t \in names : t > s}) >= Keep}

\* The command line closes the database, and with the server stopped that is a checkpoint.
Disconnect(j) ==
  IF j \in CliJobs /\ ~up THEN Checkpointed ELSE UNCHANGED <<database, journal, stale>>

\* The checksum is written and old files go.
FinishBackup(j) ==
  LET stamp == jobs[j].stamp
      pruned == Pruned({s \in Stamps : files[s] # None})
      Left(table) == [s \in Stamps |-> IF s \in pruned THEN None ELSE table[s]]
  IN  /\ jobs[j].phase = "copied" /\ files[stamp] # None
      /\ files' = Left(files)
      /\ sums' = Left([sums EXCEPT ![stamp] = files[stamp]])
      /\ jobs' = [jobs EXCEPT ![j] = NoJob]
      /\ completed' = completed \cup {stamp}
      /\ Disconnect(j)
      /\ UNCHANGED <<up, restoring, shared, halfway, clock, kills>>

\* The file was pruned before its checksum was taken: reading it fails, and nothing goes.
LoseBackup(j) ==
  /\ jobs[j].phase = "copied" /\ files[jobs[j].stamp] = None
  /\ jobs' = [jobs EXCEPT ![j] = NoJob]
  /\ Disconnect(j)
  /\ UNCHANGED <<up, files, sums, restoring, history, clock, kills>>

\* A process is killed; the copies it was writing stay as they are.
Killed(js) ==
  LET copying == {j \in js : jobs[j].phase = "copying" /\ files[jobs[j].stamp] # None}
      writing == {jobs[j].stamp : j \in copying}
  IN  /\ kills < MaxKills /\ kills' = kills + 1
      /\ \E torn \in SUBSET writing :
           files' = [s \in Stamps |-> IF s \in torn THEN Torn ELSE files[s]]
      /\ jobs' = [j \in Jobs |-> IF j \in js THEN NoJob ELSE jobs[j]]

KillServer ==
  /\ up /\ up' = FALSE
  /\ Killed(ServerJobs)
  /\ UNCHANGED <<database, journal, stale, sums, restoring, history, clock>>

KillCli ==
  /\ \E j \in CliJobs : jobs[j] # NoJob
  /\ Killed(CliJobs)
  /\ UNCHANGED <<up, database, journal, stale, sums, restoring, history, clock>>

\* A stop when nothing runs checkpoints the journal.
StopServer ==
  /\ up /\ up' = FALSE
  /\ AllIdle
  /\ Checkpointed
  /\ UNCHANGED <<files, sums, jobs, restoring, history, clock, kills>>
-----------------------------------------------------------------------------
(* Restoring.                                                              *)

\* verifyBackup: a checksum, if there is one, and integrity_check.
Verified(s) ==
  /\ files[s].is \in {"snapshot", "empty"}
  /\ sums[s] \in {None, files[s]}

\* restoreBackup copies the file, then removes the journal.
Restore(s) ==
  /\ ~up /\ ~restoring /\ AllIdle
  /\ Verified(s)
  /\ database' = files[s]
  /\ stale' = (journal # None)
  /\ restoring' = TRUE
  /\ UNCHANGED <<up, journal, files, sums, jobs, history, clock, kills>>

JournalRemoved == journal' = None /\ stale' = FALSE
RemoveJournal ==
  /\ restoring /\ restoring' = FALSE
  /\ JournalRemoved
  /\ UNCHANGED <<up, database, files, sums, jobs, history, clock, kills>>

\* The command is killed between the two.
KillRestore ==
  /\ restoring /\ restoring' = FALSE
  /\ kills < MaxKills /\ kills' = kills + 1
  /\ halfway' = TRUE
  /\ UNCHANGED <<up, database, journal, stale, files, sums, jobs, completed, shared, clock>>

StartServer ==
  /\ ~up /\ up' = TRUE
  /\ ~restoring
  /\ UNCHANGED <<database, journal, stale, files, sums, jobs, restoring, history, clock, kills>>

BackupsNext ==
  \/ \E j \in Jobs : StartBackup(j) \/ CopyDone(j) \/ FinishBackup(j) \/ LoseBackup(j)
  \/ \E s \in Stamps : Restore(s)
  \/ Write \/ Checkpoint \/ Tick
  \/ KillServer \/ KillCli \/ StopServer \/ StartServer
  \/ RemoveJournal \/ KillRestore

BackupsSpec == BackupsInit /\ [][BackupsNext]_backupVars
-----------------------------------------------------------------------------
(* Properties.                                                             *)

Restorable(s) == files[s].is = "snapshot" /\ Verified(s)

\* Once a backup has ended there is always one to restore from, whoever prunes and whoever
\* is killed, provided that no two backups start in the same second and that fewer
\* than Keep files are unfinished at a time: unfinished files count as the newest.
OneCanBeRestored ==
  completed # {} /\ shared = {} => \E s \in Stamps : Restorable(s)

\* The registry never runs on a mixture of a restored file and the journal of the
\* database before it, unless the restore was killed halfway.
RestoresAreWhole == up /\ ~halfway => State.is # "mixed"

\* A finished backup can always be restored, and a restored one is served whole.
BackupsCanBeRestored == OneCanBeRestored /\ RestoresAreWhole

\* What passes verification is a copy of a state of the registry.  A copy that was killed
\* early is an empty file without a checksum, and passes.
VerifiedBackupsAreSnapshots ==
  \A s \in Stamps : AllIdle /\ Verified(s) => files[s].is = "snapshot"
=============================================================================
