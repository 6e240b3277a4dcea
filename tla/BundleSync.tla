----------------------------- MODULE BundleSync -----------------------------
(***************************************************************************)
(* How a repository follows the registry: the bundle the server composes   *)
(* (lib/compile.ts), the comparison of a manifest with it                  *)
(* (lib/manifestDiagnostics.ts), and the commands init, check and sync     *)
(* over the files and the manifest of a working copy (cli sync.ts,         *)
(* init.ts, verify.ts).                                                    *)
(*                                                                         *)
(* A command awaits the registry several times; releases, deletions and    *)
(* the edits of the repository's owner happen in between.  Extraction      *)
(* itself does not wait, but may be killed between two files.  Every       *)
(* release of a spec bumps its version, so the number of a release stands  *)
(* for its version and, with the spec, for its text.                       *)
(***************************************************************************)
EXTENDS Integers

CONSTANTS
  Filenames,
  Specs,         \* <<layer, filename>>: the specs the registry may hold
  Overriding,    \* for each layer, the layers whose specs hide its own
  MaxRelease,    \* bound on the releases of each spec
  MaxKills       \* bound on the commands killed

ASSUME BundleSyncAssumption ==
  /\ Specs \subseteq (DOMAIN Overriding) \X Filenames
  /\ MaxRelease \in [Specs -> Nat] /\ MaxKills \in Nat
  \* Layers are stacked: of any specs, one is overridden by none of them.
  /\ \A S \in SUBSET Specs : S # {} => \E s \in S : \A t \in S : t[1] \notin Overriding[s[1]]

VARIABLES
  head,      \* the number of releases of each spec
  deleted,   \* soft-deleted specs
  files,     \* the working copy's specs directory
  manifest,  \* .specregistry.json
  cli,       \* the command that runs, if any
  outcome,   \* what the last command reported, none while one runs
  kills      \* commands killed so far

server == <<head, deleted>>
workspace == <<files, manifest>>
vars == <<server, workspace, cli, outcome, kills>>
-----------------------------------------------------------------------------
Absent == [kind |-> "absent"]
Edited == [kind |-> "edited"]
Text(s, n) == [kind |-> "text", spec |-> s, release |-> n]
Texts == UNION {{Text(s, n) : n \in 1..MaxRelease[s]} : s \in Specs}

NoManifest == [kind |-> "none"]
Idle == [stage |-> "idle"]

Entries == [Filenames -> Texts \cup {Absent}]

TypeOK ==
  /\ \A s \in Specs : head[s] \in 0..MaxRelease[s]
  /\ deleted \subseteq Specs
  /\ files \in [Filenames -> Texts \cup {Absent, Edited}]
  /\ manifest = NoManifest \/ (manifest.specs \in Entries /\ manifest.pinned \in BOOLEAN)
  /\ cli.stage \in {"idle", "check", "download", "validate", "write"}
  /\ cli.stage \in {"validate", "write"} => cli.bundle \in Entries
  /\ outcome \in {"none", "in sync", "drift", "tampered", "refused", "pulled", "killed"}
  /\ kills \in 0..MaxKills

Init ==
  /\ head = [s \in Specs |-> 0]
  /\ deleted = {}
  /\ files = [f \in Filenames |-> Absent]
  /\ manifest = NoManifest
  /\ cli = Idle /\ outcome = "none" /\ kills = 0
-----------------------------------------------------------------------------
(* The server.                                                             *)

Publish(s) ==
  /\ s \notin deleted /\ head[s] < MaxRelease[s]
  /\ head' = [head EXCEPT ![s] = @ + 1]
  /\ UNCHANGED <<deleted, workspace, cli, outcome, kills>>

Withdraw(s) ==
  /\ head[s] > 0 /\ s \notin deleted
  /\ deleted' = deleted \cup {s}
  /\ UNCHANGED <<head, workspace, cli, outcome, kills>>

Reinstate(s) ==
  /\ s \in deleted /\ deleted' = deleted \ {s}
  /\ UNCHANGED <<head, workspace, cli, outcome, kills>>

Governing(f) == {s \in Specs : s[2] = f /\ head[s] > 0 /\ s \notin deleted}

\* bundleSpecs: of the specs of one filename, the one no other overrides.
Bundle ==
  [f \in Filenames |->
     IF Governing(f) = {} THEN Absent
     ELSE LET s == CHOOSE t \in Governing(f) :
                     \A u \in Governing(f) : u[1] \notin Overriding[t[1]]
          IN  Text(s, head[s])]

SameVersion(local, latest) == local.release = latest.release  \* mutant of UpToDate
\* Same version, same hash, same scope.
UpToDate(local, latest) == local.release = latest.release /\ local.spec = latest.spec

Outdated(specs) ==
  {f \in Filenames : specs[f] # Absent /\ Bundle[f] # Absent /\ ~UpToDate(specs[f], Bundle[f])}

MissingLocally(specs) == {f \in Filenames : specs[f] = Absent /\ Bundle[f] # Absent}

\* A spec that only the manifest has is no drift.
Drift(specs) == Outdated(specs) # {} \/ MissingLocally(specs) # {}
-----------------------------------------------------------------------------
(* The working copy.                                                       *)

Managed(f) == manifest # NoManifest /\ manifest.specs[f] # Absent

\* verifyLocalSpecFiles and verifyManifestSignature: every file hashes to its
\* entry, and the entries are those the registry signed.
Verified ==
  /\ \A f \in Filenames : Managed(f) => files[f] = manifest.specs[f]
  /\ ~manifest.pinned

\* Only extraction does not wait for anything.
Waiting == cli.stage # "write"

Edit(f) ==
  /\ Waiting /\ files' = [files EXCEPT ![f] = Edited]
  /\ UNCHANGED <<server, manifest, cli, outcome, kills>>

Remove(f) ==
  /\ Waiting /\ files[f] # Absent /\ files' = [files EXCEPT ![f] = Absent]
  /\ UNCHANGED <<server, manifest, cli, outcome, kills>>

\* The owner gives an entry of the manifest a pin.
Pin ==
  /\ Waiting /\ manifest # NoManifest /\ manifest.specs # [f \in Filenames |-> Absent]
  /\ manifest' = [manifest EXCEPT !.pinned = TRUE]
  /\ UNCHANGED <<server, files, cli, outcome, kills>>
-----------------------------------------------------------------------------
(* Commands.                                                               *)

Report(result) == cli' = Idle /\ outcome' = result

Begin(command) == cli' = command /\ outcome' = "none"

PullGently(force) == Begin([stage |-> "download", force |-> FALSE])  \* mutant of Pull
Pull(force) == Begin([stage |-> "download", force |-> force])

\* specreg init
StartInit(force) ==
  /\ cli = Idle
  /\ Pull(force)
  /\ UNCHANGED <<server, workspace, kills>>

\* specreg check and sync: the local bundle is verified first; only a forced sync
\* goes on without it, to restore the bundle.
StartSync(mode, force) ==
  /\ cli = Idle /\ manifest # NoManifest
  /\ CASE Verified -> Begin([stage |-> "check", mode |-> mode, force |-> force])
       [] ~Verified /\ mode = "check" -> Report("tampered")
       [] ~Verified /\ mode = "sync" /\ ~force -> Report("refused")
       [] ~Verified /\ mode = "sync" /\ force -> Pull(TRUE)
  /\ UNCHANGED <<server, workspace, kills>>

\* The answer of POST /cli/sync-check to the manifest read at the start.
SyncCheck ==
  /\ cli.stage = "check"
  /\ CASE ~Drift(manifest.specs) -> Report("in sync")
       [] Drift(manifest.specs) /\ cli.mode = "check" -> Report("drift")
       [] Drift(manifest.specs) /\ cli.mode = "sync" -> Pull(cli.force)
  /\ UNCHANGED <<server, workspace, kills>>

Download ==
  /\ cli.stage = "download"
  /\ Bundle # [f \in Filenames |-> Absent]
  /\ cli' = [stage |-> "validate", force |-> cli.force, bundle |-> Bundle, todo |-> {}]
  /\ UNCHANGED <<server, workspace, outcome, kills>>

\* 404: no published specs.
DownloadNothing ==
  /\ cli.stage = "download"
  /\ Bundle = [f \in Filenames |-> Absent]
  /\ Report("refused")
  /\ UNCHANGED <<server, workspace, kills>>

NothingToProtect == {}  \* mutant of Conflicts
\* validateSafeExtraction: files to write or remove that are not as the previous
\* manifest says.
Conflicts ==
  {f \in Filenames :
     /\ files[f] # Absent
     /\ cli.bundle[f] # Absent \/ Managed(f)
     /\ ~Managed(f) \/ files[f] # manifest.specs[f]}

NothingSuperseded == {}  \* mutant of Superseded
\* removeSupersededGovernedFiles, for the files a conflict did not stop at.
Superseded == {f \in Filenames : Managed(f) /\ cli.bundle[f] = Absent}

Refuse ==
  /\ cli.stage = "validate" /\ ~cli.force /\ Conflicts # {}
  /\ Report("refused")
  /\ UNCHANGED <<server, workspace, kills>>

Extract ==
  /\ cli.stage = "validate"
  /\ cli.force \/ Conflicts = {}
  /\ cli' = [cli EXCEPT !.stage = "write",
                        !.todo = Superseded \cup {f \in Filenames : cli.bundle[f] # Absent}]
  /\ UNCHANGED <<server, workspace, outcome, kills>>

\* Superseded files are removed before the first file is written.
WriteFile(f) ==
  /\ cli.stage = "write" /\ f \in cli.todo
  /\ cli.bundle[f] # Absent => \A g \in cli.todo : cli.bundle[g] # Absent
  /\ files' = [files EXCEPT ![f] = cli.bundle[f]]
  /\ cli' = [cli EXCEPT !.todo = @ \ {f}]
  /\ UNCHANGED <<server, manifest, outcome, kills>>

\* The manifest is written last.
WriteManifest ==
  /\ cli.stage = "write" /\ cli.todo = {}
  /\ manifest' = [kind |-> "manifest", specs |-> cli.bundle, pinned |-> FALSE]
  /\ Report("pulled")
  /\ UNCHANGED <<server, files, kills>>

Kill ==
  /\ cli # Idle /\ kills < MaxKills
  /\ Report("killed") /\ kills' = kills + 1
  /\ UNCHANGED <<server, workspace>>

CommandStep ==
  \/ SyncCheck \/ Download \/ DownloadNothing \/ Refuse \/ Extract \/ WriteManifest
  \/ \E f \in Filenames : WriteFile(f)
-----------------------------------------------------------------------------
Next ==
  \/ \E s \in Specs : Publish(s) \/ Withdraw(s) \/ Reinstate(s)
  \/ \E f \in Filenames : Edit(f) \/ Remove(f)
  \/ Pin
  \/ \E force \in BOOLEAN : StartInit(force) \/ \E mode \in {"check", "sync"} : StartSync(mode, force)
  \/ CommandStep
  \/ Kill

Spec == Init /\ [][Next]_vars

\* Commands run to their end, and the owner asks for a forced sync again and again.
FairSpec == Spec /\ WF_vars(CommandStep) /\ SF_vars(StartSync("sync", TRUE))
-----------------------------------------------------------------------------
(* Properties.                                                             *)

\* A command without --force never overwrites or removes what the owner wrote,
\* in managed files and others (validateSafeExtraction).
EditsSurvive ==
  [][\A f \in Filenames :
       files[f] = Edited /\ files'[f] # Edited /\ cli' # cli => cli.force]_vars

\* As long as no command was killed, every registry text outside an extraction is the
\* one the manifest lists for its file: what a bundle drops is gone.
NoOrphans ==
  kills = 0 /\ cli.stage # "write" =>
    \A f \in Filenames : files[f] \in Texts => Managed(f) /\ files[f] = manifest.specs[f]

\* Working copies hold nothing but what their manifest accounts for and their owner wrote.
CopiesAreManaged == TypeOK /\ NoOrphans

\* "In sync" is only said of a manifest that has the current text of every spec that
\* governs the repository, also when an override of the same version took over.
InSyncIsCurrent ==
  [][cli.stage = "check" /\ cli' = Idle /\ outcome' = "in sync" =>
       \A f \in Filenames : Bundle[f] # Absent => manifest.specs[f] = Bundle[f]]_vars

\* Once the registry settles, a manifest that lacks the current text of a spec catches
\* up, whatever the owner edits, pins or removes (runSync).
StaleCopiesCatchUp ==
  LET Stale == manifest # NoManifest /\
                 \E f \in Filenames : Bundle[f] # Absent /\ manifest.specs[f] # Bundle[f]
  IN  <>[][FALSE]_server => (Stale ~> ~Stale)

\* docs/CONCEPTS.md: manifests can carry caret pins, and a check reports drift and the
\* pin.  So a check refuses a manifest only when a file is not as it lists it.
PinnedManifestsVerify ==
  [][outcome' = "tampered" /\ outcome # "tampered" =>
       \E f \in Filenames : Managed(f) /\ files[f] # manifest.specs[f]]_vars

\* docs/DEVELOPER_GUIDE.md: a sync removes files the manifest manages and the bundle no
\* longer has.  So a sync that changes nothing finds no such file.
RetiredGuidanceIsRemoved ==
  [][cli.stage = "check" /\ cli' = Idle /\ outcome' = "in sync" =>
       \A f \in Filenames : Managed(f) => Bundle[f] # Absent]_vars
=============================================================================
