-------------------------- MODULE BundleSyncProofs --------------------------
(***************************************************************************)
(* Machine-checked proofs about BundleSync, for any files, specs, layers   *)
(* and releases, and any number of kills.                                  *)
(*                                                                         *)
(* A command decides over a manifest and files it read before its last     *)
(* await.  What makes it right is that extraction itself does not wait:    *)
(* from the check of the files to the last write nobody else moves, and    *)
(* what is still to be written is known.                                   *)
(***************************************************************************)
EXTENDS BundleSync, TLAPS

ManifestRow == [kind : {"manifest"}, specs : Entries, pinned : BOOLEAN]

Command ==
  [stage : {"idle"}]
    \cup [stage : {"check"}, mode : {"check", "sync"}, force : BOOLEAN]
    \cup [stage : {"download"}, force : BOOLEAN]
    \cup [stage : {"validate", "write"}, force : BOOLEAN, bundle : Entries, todo : SUBSET Filenames]

Typed ==
  /\ TypeOK
  /\ head \in [Specs -> Nat]
  /\ manifest \in ManifestRow \cup {NoManifest}
  /\ cli \in Command

\* A check has a manifest to compare.
ChecksHaveAManifest == cli.stage = "check" => manifest # NoManifest

\* Extraction knows every file that does not yet hold what the bundle says.
WritesAreComplete ==
  kills = 0 /\ cli.stage = "write" =>
    \A f \in Filenames : files[f] \in Texts => f \in cli.todo \/ files[f] = cli.bundle[f]

\* Without --force, extraction has not been given a file of the owner's.
WritesAreSafe ==
  cli.stage = "write" /\ ~cli.force => \A f \in cli.todo : files[f] # Edited

IInv == Typed /\ NoOrphans /\ ChecksHaveAManifest /\ WritesAreComplete /\ WritesAreSafe

-----------------------------------------------------------------------------
(* Texts and bundles.                                                      *)

LEMMA TextsAreTexts ==
  /\ \A s \in Specs : \A n \in 1..MaxRelease[s] : Text(s, n) \in Texts
  /\ \A text \in Texts : \E s \in Specs : \E n \in 1..MaxRelease[s] : text = Text(s, n)
  /\ \A text \in Texts : text # Absent /\ text # Edited
  /\ Absent # Edited
BY DEF Texts, Text, Absent, Edited

\* Two texts of the same spec and release are the same.
LEMMA TextsAreDetermined ==
  ASSUME NEW a \in Texts, NEW b \in Texts, a.spec = b.spec, a.release = b.release
  PROVE  a = b
<1>1. PICK s \in Specs : \E n \in 1..MaxRelease[s] : a = Text(s, n)
  BY TextsAreTexts
<1>2. PICK t \in Specs : \E n \in 1..MaxRelease[t] : b = Text(t, n)
  BY TextsAreTexts
<1>. QED BY <1>1, <1>2 DEF Text

LEMMA HeadType ==
  ASSUME BundleSyncAssumption, Typed, NEW s \in Specs
  PROVE  head[s] \in 0..MaxRelease[s] /\ MaxRelease[s] \in Nat
<1>1. head[s] \in 0..MaxRelease[s]
  BY Zenon DEF Typed, TypeOK
<1>. QED BY <1>1 DEF BundleSyncAssumption

LEMMA BundleType ==
  ASSUME BundleSyncAssumption, Typed
  PROVE  Bundle \in Entries
<1>. SUFFICES ASSUME NEW f \in Filenames
              PROVE  Bundle[f] \in Texts \cup {Absent}
  BY DEF Bundle, Entries
<1>1. CASE Governing(f) = {}
  BY <1>1 DEF Bundle
<1>2. CASE Governing(f) # {}
  <2>. DEFINE s == CHOOSE t \in Governing(f) : \A u \in Governing(f) : u[1] \notin Overriding[t[1]]
  <2>1. Governing(f) \in SUBSET Specs
    BY DEF Governing
  <2>2. \E t \in Governing(f) : \A u \in Governing(f) : u[1] \notin Overriding[t[1]]
    BY <1>2, <2>1 DEF BundleSyncAssumption
  <2>3. s \in Governing(f)
    BY <2>2
  <2>4. Bundle[f] = Text(s, head[s])
    BY <1>2 DEF Bundle
  <2>. HIDE DEF s
  <2>5. s \in Specs /\ head[s] \in 1..MaxRelease[s]
    <3>1. s \in Specs /\ head[s] > 0
      BY <2>3 DEF Governing
    <3>2. head[s] \in 0..MaxRelease[s] /\ MaxRelease[s] \in Nat
      BY <3>1, HeadType
    <3>. QED BY <3>1, <3>2
  <2>. QED BY <2>4, <2>5, TextsAreTexts
<1>. QED BY <1>1, <1>2

LEMMA CommandFields ==
  ASSUME Typed
  PROVE  /\ cli # Idle => cli.stage # "idle"
         /\ cli.stage \in {"check", "download", "validate", "write"} => cli.force \in BOOLEAN /\ cli # Idle
         /\ cli.stage \in {"validate", "write"} =>
              /\ cli \in [stage : {"validate", "write"}, force : BOOLEAN, bundle : Entries,
                          todo : SUBSET Filenames]
              /\ cli.bundle \in Entries /\ cli.todo \in SUBSET Filenames
BY DEF Typed, Command, Idle

LEMMA ManifestFields ==
  ASSUME Typed, manifest # NoManifest
  PROVE  manifest \in ManifestRow /\ manifest.specs \in Entries
BY DEF Typed, ManifestRow

-----------------------------------------------------------------------------
(* The initial states, and the steps.                                      *)

LEMMA InitIInv ==
  ASSUME BundleSyncAssumption, Init
  PROVE  IInv
<1>1. cli = [stage |-> "idle"] /\ cli \in Command
  BY DEF Init, Idle, Command
<1>2. Typed
  <2>1. head \in [Specs -> Nat] /\ \A s \in Specs : head[s] \in 0..MaxRelease[s]
    BY DEF Init, BundleSyncAssumption
  <2>. QED BY <1>1, <2>1 DEF Init, Typed, TypeOK, BundleSyncAssumption
<1>3. \A f \in Filenames : files[f] \notin Texts
  BY TextsAreTexts DEF Init
<1>. QED BY <1>1, <1>2, <1>3
         DEF IInv, NoOrphans, ChecksHaveAManifest, WritesAreComplete, WritesAreSafe

\* Releases, deletions and their reversal.
LEMMA ServerStep ==
  ASSUME BundleSyncAssumption, IInv, NEW s \in Specs, Publish(s) \/ Withdraw(s) \/ Reinstate(s)
  PROVE  IInv'
<1>. USE DEF IInv
<1>1. /\ head' \in [Specs -> Nat] /\ (\A x \in Specs : head'[x] \in 0..MaxRelease[x])
      /\ deleted' \subseteq Specs
      /\ UNCHANGED <<files, manifest, cli, outcome, kills>>
  <2>1. CASE Publish(s)
    <3>1. head' = [head EXCEPT ![s] = @ + 1] /\ UNCHANGED <<deleted, workspace, cli, outcome, kills>>
      BY <2>1 DEF Publish
    <3>2. head'[s] \in 0..MaxRelease[s] /\ head' \in [Specs -> Nat]
      <4>1. head[s] < MaxRelease[s] /\ head \in [Specs -> Nat]
        BY <2>1 DEF Publish, Typed
      <4>. QED BY <3>1, <4>1, HeadType
    <3>3. \A x \in Specs : head'[x] \in 0..MaxRelease[x]
      <4>1. \A x \in Specs : x # s => head'[x] = head[x]
        BY <3>1 DEF Typed
      <4>. QED BY <3>2, <4>1, HeadType
    <3>. QED BY <3>1, <3>2, <3>3 DEF workspace, Typed, TypeOK
  <2>2. CASE Withdraw(s) \/ Reinstate(s)
    BY <2>2 DEF Withdraw, Reinstate, workspace, Typed, TypeOK
  <2>. QED BY <2>1, <2>2
<1>2. Typed'
  BY <1>1 DEF Typed, TypeOK
<1>. QED BY <1>1, <1>2 DEF NoOrphans, Managed, ChecksHaveAManifest, WritesAreComplete, WritesAreSafe

\* The owner writes or removes a file, or pins an entry.
LEMMA OwnerStep ==
  ASSUME BundleSyncAssumption, IInv, (\E f \in Filenames : Edit(f) \/ Remove(f)) \/ Pin
  PROVE  IInv'
<1>. USE DEF IInv
<1>1. UNCHANGED <<head, deleted, cli, outcome, kills>> /\ cli.stage # "write"
  BY DEF Edit, Remove, Pin, Waiting, server
<1>2. CASE \E f \in Filenames : Edit(f) \/ Remove(f)
  <2>1. PICK f \in Filenames, text \in {Edited, Absent} :
          files' = [files EXCEPT ![f] = text] /\ UNCHANGED manifest
    BY <1>2 DEF Edit, Remove
  <2>2. Typed'
    BY <1>1, <2>1 DEF Typed, TypeOK
  <2>3. \A g \in Filenames : files'[g] \in Texts => files'[g] = files[g]
    BY <2>1, TextsAreTexts DEF Typed, TypeOK
  <2>4. NoOrphans'
    BY <1>1, <2>1, <2>3 DEF NoOrphans, Managed
  <2>. QED BY <1>1, <2>1, <2>2, <2>4 DEF ChecksHaveAManifest, WritesAreComplete, WritesAreSafe
<1>3. CASE Pin
  <2>1. manifest \in ManifestRow /\ manifest' = [manifest EXCEPT !.pinned = TRUE] /\ UNCHANGED files
    BY <1>3, ManifestFields DEF Pin
  <2>2. manifest' \in ManifestRow /\ manifest'.specs = manifest.specs /\ manifest' # NoManifest
        /\ manifest'.specs \in Entries /\ manifest'.pinned \in BOOLEAN
    BY <2>1 DEF ManifestRow, NoManifest
  <2>3. Typed'
    BY <1>1, <2>1, <2>2 DEF Typed, TypeOK
  <2>4. NoOrphans'
    BY <1>1, <2>1, <2>2 DEF NoOrphans, Managed
  <2>. QED BY <1>1, <2>1, <2>2, <2>3, <2>4 DEF ChecksHaveAManifest, WritesAreComplete, WritesAreSafe
<1>. QED BY <1>2, <1>3

\* A command that does not write: it begins, asks the registry, ends or is killed.
LEMMA QuietStep ==
  ASSUME BundleSyncAssumption, IInv, UNCHANGED <<server, workspace>>,
         cli' \in Command, cli'.stage # "write", cli'.stage = "check" => manifest # NoManifest,
         cli'.stage = "validate" => cli'.bundle \in Entries,
         outcome' \in {"none", "in sync", "drift", "tampered", "refused", "pulled", "killed"},
         kills' \in 0..MaxKills, kills' = 0 => kills = 0 /\ cli.stage # "write"
  PROVE  IInv'
<1>. USE DEF IInv
<1>1. cli'.stage \in {"idle", "check", "download", "validate"}
  BY DEF Command
<1>2. Typed'
  BY <1>1 DEF server, workspace, Typed, TypeOK
<1>. QED BY <1>1, <1>2
         DEF server, workspace, NoOrphans, Managed, ChecksHaveAManifest, WritesAreComplete, WritesAreSafe

LEMMA ExtractStep ==
  ASSUME BundleSyncAssumption, IInv, Extract
  PROVE  IInv'
<1>. USE DEF IInv
<1>. DEFINE todo == Superseded \cup {f \in Filenames : cli.bundle[f] # Absent}
<1>1. /\ cli \in [stage : {"validate", "write"}, force : BOOLEAN, bundle : Entries, todo : SUBSET Filenames]
      /\ cli.stage = "validate" /\ cli.bundle \in Entries
      /\ UNCHANGED <<head, deleted, files, manifest, outcome, kills>>
      /\ cli' = [cli EXCEPT !.stage = "write", !.todo = todo]
      /\ cli.force \/ Conflicts = {}
  BY CommandFields DEF Extract, server, workspace
<1>2. /\ todo \in SUBSET Filenames
      /\ \A f \in Filenames : f \in todo <=> Managed(f) \/ cli.bundle[f] # Absent
  BY DEF Superseded
<1>. HIDE DEF todo
<1>3. /\ cli' \in Command /\ cli'.stage = "write" /\ cli'.todo = todo
      /\ cli'.bundle = cli.bundle /\ cli'.force = cli.force
  BY <1>1, <1>2 DEF Command
<1>4. Typed'
  BY <1>1, <1>3 DEF Typed, TypeOK
<1>5. WritesAreComplete'
  BY <1>1, <1>2, <1>3 DEF WritesAreComplete, NoOrphans
<1>6. WritesAreSafe'
  <2>. SUFFICES ASSUME ~cli.force, NEW f \in todo
                PROVE  files[f] # Edited
    BY <1>1, <1>3 DEF WritesAreSafe
  <2>1. f \in Filenames /\ (Managed(f) \/ cli.bundle[f] # Absent) /\ f \notin Conflicts
    BY <1>1, <1>2
  <2>2. files[f] = Absent \/ (Managed(f) /\ files[f] = manifest.specs[f])
    BY <2>1 DEF Conflicts
  <2>3. Managed(f) => manifest.specs[f] \in Texts
    BY <2>1, ManifestFields DEF Managed, Entries
  <2>. QED BY <2>2, <2>3, TextsAreTexts
<1>. QED BY <1>1, <1>3, <1>4, <1>5, <1>6 DEF NoOrphans, ChecksHaveAManifest

LEMMA WriteFileStep ==
  ASSUME BundleSyncAssumption, IInv, NEW f \in Filenames, WriteFile(f)
  PROVE  IInv'
<1>. USE DEF IInv
<1>1. /\ cli \in [stage : {"validate", "write"}, force : BOOLEAN, bundle : Entries, todo : SUBSET Filenames]
      /\ cli.stage = "write" /\ cli.bundle \in Entries /\ cli.todo \in SUBSET Filenames
      /\ UNCHANGED <<head, deleted, manifest, outcome, kills>>
      /\ cli' = [cli EXCEPT !.todo = @ \ {f}]
      /\ files' = [files EXCEPT ![f] = cli.bundle[f]]
  BY CommandFields DEF WriteFile, server
<1>2. /\ cli' \in Command /\ cli'.stage = "write" /\ cli'.todo = cli.todo \ {f}
      /\ cli'.bundle = cli.bundle /\ cli'.force = cli.force
  BY <1>1 DEF Command
<1>3. /\ files'[f] = cli.bundle[f] /\ \A g \in Filenames : g # f => files'[g] = files[g]
      /\ files' \in [Filenames -> Texts \cup {Absent, Edited}]
  BY <1>1 DEF Typed, TypeOK, Entries
<1>4. Typed'
  BY <1>1, <1>2, <1>3 DEF Typed, TypeOK
<1>5. WritesAreComplete'
  BY <1>1, <1>2, <1>3 DEF WritesAreComplete
<1>6. WritesAreSafe'
  BY <1>1, <1>2, <1>3 DEF WritesAreSafe
<1>. QED BY <1>1, <1>2, <1>4, <1>5, <1>6 DEF NoOrphans, ChecksHaveAManifest

LEMMA WriteManifestStep ==
  ASSUME BundleSyncAssumption, IInv, WriteManifest
  PROVE  IInv'
<1>. USE DEF IInv
<1>1. /\ cli.stage = "write" /\ cli.todo = {} /\ cli.bundle \in Entries
      /\ manifest' = [kind |-> "manifest", specs |-> cli.bundle, pinned |-> FALSE]
      /\ cli' = Idle /\ outcome' = "pulled"
      /\ UNCHANGED <<head, deleted, files, kills>>
  BY CommandFields DEF WriteManifest, Report, server
<1>2. /\ manifest' \in ManifestRow /\ manifest'.specs = cli.bundle /\ manifest'.pinned = FALSE
      /\ manifest' # NoManifest
  BY <1>1 DEF ManifestRow, NoManifest
<1>3. cli' \in Command /\ cli'.stage = "idle"
  BY <1>1 DEF Idle, Command
<1>4. Typed'
  BY <1>1, <1>2, <1>3 DEF Typed, TypeOK
<1>5. NoOrphans'
  BY <1>1, <1>2, <1>3, TextsAreTexts DEF NoOrphans, WritesAreComplete, Managed
<1>. QED BY <1>3, <1>4, <1>5 DEF ChecksHaveAManifest, WritesAreComplete, WritesAreSafe

\* What a command does with the answer of sync-check.
LEMMA CheckAnswers ==
  ASSUME SyncCheck, cli.mode \in {"check", "sync"}
  PROVE  \/ cli' = Idle /\ outcome' = "in sync" /\ ~ Drift(manifest.specs)
         \/ cli' = Idle /\ outcome' = "drift"
         \/ cli' = [stage |-> "download", force |-> cli.force] /\ outcome' = "none"
<1>1. CASE ~ Drift(manifest.specs)
  BY <1>1 DEF SyncCheck, Report
<1>2. CASE Drift(manifest.specs) /\ cli.mode = "check"
  BY <1>2 DEF SyncCheck, Report
<1>3. CASE Drift(manifest.specs) /\ cli.mode = "sync"
  BY <1>3 DEF SyncCheck, Pull, Begin
<1>. QED BY <1>1, <1>2, <1>3

\* A command that begins, or that learns what the registry has.
LEMMA CommandStepQuiet ==
  ASSUME BundleSyncAssumption, IInv,
         \/ \E force \in BOOLEAN : StartInit(force) \/ \E mode \in {"check", "sync"} : StartSync(mode, force)
         \/ SyncCheck \/ Download \/ DownloadNothing \/ Refuse \/ Kill
  PROVE  IInv'
<1>. USE DEF IInv
<1>0. kills \in 0..MaxKills /\ MaxKills \in Nat
  BY Zenon DEF Typed, TypeOK, BundleSyncAssumption
<1>1. /\ Idle \in Command /\ Idle.stage = "idle"
      /\ \A force \in BOOLEAN : [stage |-> "download", force |-> force] \in Command
      /\ \A force \in BOOLEAN, mode \in {"check", "sync"} :
           [stage |-> "check", mode |-> mode, force |-> force] \in Command
  BY DEF Idle, Command
<1>2. ASSUME NEW force \in BOOLEAN, StartInit(force) PROVE IInv'
  <2>1. /\ cli' = [stage |-> "download", force |-> force] /\ outcome' = "none" /\ cli = Idle
        /\ UNCHANGED <<server, workspace, kills>>
    BY <1>2 DEF StartInit, Pull, Begin
  <2>. QED BY <1>0, <1>1, <2>1, QuietStep DEF Idle
<1>3. ASSUME NEW force \in BOOLEAN, NEW mode \in {"check", "sync"}, StartSync(mode, force) PROVE IInv'
  <2>1. cli = Idle /\ manifest # NoManifest /\ UNCHANGED <<server, workspace, kills>>
    BY <1>3 DEF StartSync
  <2>2. \/ cli' = [stage |-> "check", mode |-> mode, force |-> force] /\ outcome' = "none"
        \/ cli' = Idle /\ outcome' \in {"tampered", "refused"}
        \/ cli' = [stage |-> "download", force |-> TRUE] /\ outcome' = "none"
    <3>1. CASE Verified
      BY <1>3, <3>1 DEF StartSync, Begin
    <3>2. CASE ~Verified /\ mode = "check"
      BY <1>3, <3>2 DEF StartSync, Report
    <3>3. CASE ~Verified /\ mode = "sync" /\ ~force
      BY <1>3, <3>3 DEF StartSync, Report
    <3>4. CASE ~Verified /\ mode = "sync" /\ force
      BY <1>3, <3>4 DEF StartSync, Pull, Begin
    <3>. QED BY <3>1, <3>2, <3>3, <3>4
  <2>3. cli' \in Command
    BY <1>1, <2>2, Zenon
  <2>4. cli'.stage \in {"check", "idle", "download"}
    BY <2>2 DEF Idle
  <2>5. outcome' \in {"none", "in sync", "drift", "tampered", "refused", "pulled", "killed"}
    BY <2>2
  <2>. QED BY <1>0, <2>1, <2>3, <2>4, <2>5, QuietStep DEF Idle
<1>4. CASE SyncCheck
  <2>1. cli.stage = "check" /\ UNCHANGED <<server, workspace, kills>> /\ cli.force \in BOOLEAN
    BY <1>4, CommandFields DEF SyncCheck
  <2>2. cli.mode \in {"check", "sync"}
    BY <2>1 DEF Typed, Command
  <2>3. \/ cli' = Idle /\ outcome' \in {"in sync", "drift"}
        \/ cli' = [stage |-> "download", force |-> cli.force] /\ outcome' = "none"
    BY <1>4, <2>2, CheckAnswers
  <2>4. cli' \in Command
    <3>1. [stage |-> "download", force |-> cli.force] \in Command
      BY <2>1 DEF Command
    <3>. QED BY <1>1, <2>3, <3>1, Zenon
  <2>5. cli'.stage \in {"idle", "download"}
    <3>1. CASE cli' = Idle
      BY <1>1, <3>1
    <3>2. CASE cli' = [stage |-> "download", force |-> cli.force]
      BY <3>2
    <3>. QED BY <2>3, <3>1, <3>2
  <2>6. outcome' \in {"none", "in sync", "drift", "tampered", "refused", "pulled", "killed"}
    BY <2>3
  <2>. QED BY <1>0, <2>1, <2>4, <2>5, <2>6, QuietStep
<1>5. CASE Download
  <2>1. /\ cli.stage = "download" /\ cli.force \in BOOLEAN
        /\ cli' = [stage |-> "validate", force |-> cli.force, bundle |-> Bundle, todo |-> {}]
        /\ UNCHANGED <<server, workspace, outcome, kills>>
    BY <1>5, CommandFields DEF Download
  <2>2. cli' \in Command /\ cli'.stage = "validate" /\ cli'.bundle \in Entries
    BY <2>1, BundleType DEF Command
  <2>3. outcome' \in {"none", "in sync", "drift", "tampered", "refused", "pulled", "killed"}
    BY <2>1 DEF Typed, TypeOK
  <2>. QED BY <1>0, <2>1, <2>2, <2>3, QuietStep
<1>6. CASE DownloadNothing \/ Refuse
  <2>1. /\ cli.stage \in {"download", "validate"} /\ cli' = Idle /\ outcome' = "refused"
        /\ UNCHANGED <<server, workspace, kills>>
    BY <1>6 DEF DownloadNothing, Refuse, Report
  <2>. QED BY <1>0, <1>1, <2>1, QuietStep
<1>7. CASE Kill
  <2>1. /\ cli' = Idle /\ outcome' = "killed" /\ kills' = kills + 1 /\ kills < MaxKills
        /\ UNCHANGED <<server, workspace>>
    BY <1>7 DEF Kill, Report
  <2>2. kills' \in 0..MaxKills /\ kills' # 0
    BY <1>0, <2>1
  <2>. QED BY <1>1, <2>1, <2>2, QuietStep
<1>. QED BY <1>2, <1>3, <1>4, <1>5, <1>6, <1>7

LEMMA IInvStep ==
  ASSUME BundleSyncAssumption, IInv, [Next]_vars
  PROVE  IInv'
<1>1. CASE UNCHANGED vars
  BY <1>1 DEF vars, server, workspace, IInv, Typed, TypeOK, NoOrphans, Managed, ChecksHaveAManifest,
              WritesAreComplete, WritesAreSafe
<1>2. CASE Next
  BY <1>2, ServerStep, OwnerStep, CommandStepQuiet, ExtractStep, WriteFileStep, WriteManifestStep
     DEF Next, CommandStep
<1>. QED BY <1>1, <1>2

THEOREM IInvHolds == Spec => []IInv
<1>. USE BundleSyncAssumption
<1>1. Init => IInv
  BY InitIInv
<1>2. IInv /\ [Next]_vars => IInv'
  BY IInvStep
<1>. QED BY <1>1, <1>2, PTL DEF Spec

-----------------------------------------------------------------------------
(* What the run checks, for every instance.                                *)

\* As long as no command was killed, what a bundle drops is gone from the working
\* copy, and what it lists is there unless the owner wrote or removed it.
THEOREM CopiesStayManaged == Spec => []CopiesAreManaged
<1>1. IInv => CopiesAreManaged
  BY DEF IInv, Typed, CopiesAreManaged
<1>. QED BY <1>1, IInvHolds, PTL

\* validateSafeExtraction protects what the owner wrote from every command that
\* was not forced, whatever the owner did while the command awaited the registry.
THEOREM EditsAlwaysSurvive == Spec => EditsSurvive
<1>1. ASSUME IInv, [Next]_vars
      PROVE  [\A f \in Filenames : files[f] = Edited /\ files'[f] # Edited /\ cli' # cli => cli.force]_vars
  <2>. SUFFICES ASSUME Next, NEW f \in Filenames, files[f] = Edited, files'[f] # Edited, cli' # cli
                PROVE  cli.force
    BY <1>1
  <2>1. PICK g \in Filenames : WriteFile(g)
    BY DEF Next, Publish, Withdraw, Reinstate, Edit, Remove, Pin, StartInit, StartSync, CommandStep,
           SyncCheck, Download, DownloadNothing, Refuse, Extract, WriteManifest, Kill, workspace
  <2>2. cli.stage = "write" /\ g \in cli.todo /\ files' = [files EXCEPT ![g] = cli.bundle[g]]
    BY <2>1 DEF WriteFile
  <2>3. f = g
    BY <2>2
  <2>. QED BY <1>1, <2>2, <2>3 DEF IInv, WritesAreSafe
<1>. QED BY <1>1, IInvHolds, PTL DEF Spec, EditsSurvive

\* "In sync" means that the manifest has the current text of every spec that governs
\* the repository: the same release number of another layer's spec is drift.
THEOREM InSyncStaysCurrent == Spec => InSyncIsCurrent
<1>1. ASSUME BundleSyncAssumption, IInv, [Next]_vars
      PROVE  [cli.stage = "check" /\ cli' = Idle /\ outcome' = "in sync" =>
                \A f \in Filenames : Bundle[f] # Absent => manifest.specs[f] = Bundle[f]]_vars
  <2>. SUFFICES ASSUME Next, cli.stage = "check", cli' = Idle, outcome' = "in sync",
                       NEW f \in Filenames, Bundle[f] # Absent
                PROVE  manifest.specs[f] = Bundle[f]
    BY <1>1
  <2>1. SyncCheck
    <3>1. cli.stage # "idle" /\ cli.stage \notin {"download", "validate", "write"} /\ cli # Idle /\ cli # cli'
      <4>1. Idle.stage = "idle"
        BY DEF Idle
      <4>. QED BY <4>1
    <3>2. ~ (\E s \in Specs : Publish(s) \/ Withdraw(s) \/ Reinstate(s))
      BY <3>1 DEF Publish, Withdraw, Reinstate
    <3>3. ~ ((\E g \in Filenames : Edit(g) \/ Remove(g)) \/ Pin)
      BY <3>1 DEF Edit, Remove, Pin
    <3>4. ~ (\E force \in BOOLEAN : StartInit(force) \/ \E mode \in {"check", "sync"} : StartSync(mode, force))
      BY <3>1, Zenon DEF StartInit, StartSync
    <3>5. ~ (Download \/ DownloadNothing \/ Refuse \/ Extract \/ WriteManifest \/ \E g \in Filenames : WriteFile(g))
      BY <3>1 DEF Download, DownloadNothing, Refuse, Extract, WriteManifest, WriteFile
    <3>6. ~ Kill
      BY DEF Kill, Report
    <3>. QED BY <3>2, <3>3, <3>4, <3>5, <3>6 DEF Next, CommandStep
  <2>2. ~ Drift(manifest.specs)
    <3>1. cli.mode \in {"check", "sync"}
      BY <1>1 DEF IInv, Typed, Command
    <3>. QED BY <2>1, <3>1, CheckAnswers
  <2>3. manifest.specs[f] # Absent /\ UpToDate(manifest.specs[f], Bundle[f])
    BY <2>2 DEF Drift, Outdated, MissingLocally
  <2>4. manifest.specs[f] \in Texts /\ Bundle[f] \in Texts
    <3>1. manifest.specs \in Entries
      BY <1>1, ManifestFields DEF IInv, ChecksHaveAManifest
    <3>. QED BY <1>1, <2>3, <3>1, BundleType DEF IInv, Entries
  <2>. QED BY <2>3, <2>4, TextsAreDetermined DEF UpToDate
<1>. QED BY <1>1, IInvHolds, BundleSyncAssumption, PTL DEF Spec, InSyncIsCurrent

=============================================================================
