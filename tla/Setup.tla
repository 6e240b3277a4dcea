------------------------------- MODULE Setup -------------------------------
(***************************************************************************)
(* specreg init, sync, compile and migrate --adopt-target as they set up   *)
(* a working copy: they enroll an agent, write the manifest, the           *)
(* configuration of the MCP server, the guide and the files compiled for   *)
(* agents (cli/src/init.ts, credentials.ts, compile.ts, sync.ts).          *)
(*                                                                         *)
(* One command runs at a time.  Every request is a step of its own, and    *)
(* so is every file written.  The governed files are BundleSync's; here    *)
(* the manifest stands for them, and a release of a registry is a number.  *)
(***************************************************************************)
EXTENDS Integers, FiniteSets, TLC

CONSTANTS
  Registries,   \* registries, each with a key of its own
  Outputs,      \* files compiled for agents
  AgentsFile,   \* AGENTS.md, which init writes too
  MaxTokens, MaxSetups, MaxEvents  \* bounds: tokens, commands, acts of owners and events at registries

CONSTANT Missing

Steps == {"verify", "check", "probe", "enroll", "download", "identify", "config", "guide", "agents",
          "reverify", "compile", "remember"}

AgentTokens == [of : Registries, id : Nat]
Records == [registry : Registries, release : Nat, targets : SUBSET Outputs]
Configs == [registry : Registries, token : AgentTokens \cup {Missing}, secure : BOOLEAN, typed : BOOLEAN]
Files == [kind : {"bootstrap", "hand", "compiled"}, of : Registries \cup {Missing}, release : Nat]
Commands ==
  [kind : {"init", "adopt", "sync", "compile"}, server : Registries, token : AgentTokens \cup {Missing},
   own : AgentTokens \cup {Missing}, secure : BOOLEAN, typed : BOOLEAN, force : BOOLEAN, old : Records \cup {Missing},
   left : SUBSET Outputs, bundle : Nat, wrote : Outputs \cup {Missing}, step : Steps]

ASSUME SetupAssumption ==
  /\ AgentsFile \in Outputs
  /\ Missing \notin Registries \cup AgentTokens \cup Records \cup Configs \cup Files \cup Commands

VARIABLES
  hosts,    \* of each registry [auth, enrolls, release]
  live,     \* tokens some registry accepts: [of, id]
  record,   \* specs/.specregistry.json: [registry, release, targets]
  kept,     \* the token of .spec/credentials.json
  config,   \* .mcp.json: [registry, token, secure, typed]; secure and typed are history
  guide,    \* the registry SPECREGISTRY.md names
  outputs,  \* of each file compiled for agents [kind, of, release]
  setup,    \* the running command
  moved,    \* history: the manifest was lost or gave way to another registry's
  issued, setups, events

setupVars == <<hosts, live, record, kept, config, guide, outputs, setup, moved, issued, setups, events>>

copyVars == <<record, kept, config, guide, outputs, moved>>
counters == <<setups, events>>

SetupTypeOK ==
  /\ hosts \in [Registries -> [auth : BOOLEAN, enrolls : BOOLEAN, release : Nat]]
  /\ live \subseteq AgentTokens /\ issued \in Nat
  /\ record \in Records \cup {Missing}
  /\ kept \in AgentTokens \cup {Missing}
  /\ config \in Configs \cup {Missing}
  /\ guide \in Registries \cup {Missing}
  /\ outputs \in [Outputs -> Files \cup {Missing}]
  /\ setup \in Commands \cup {Missing}

Bootstrap == [kind |-> "bootstrap", of |-> Missing, release |-> 0]
HandWritten == [kind |-> "hand", of |-> Missing, release |-> 0]
-----------------------------------------------------------------------------
AdmitsBad(r, token, public) == (token \in live /\ token.of = r) \/ public \/ ~hosts[r].auth  \* mutant of Admits

\* registerAuth: a token that is not known is refused, even where none is needed.
Admits(r, token, public) == IF token = Missing THEN public \/ ~hosts[r].auth ELSE token \in live /\ token.of = r

KeepTargets(targets) == targets  \* mutant of Downloaded

\* The manifest a registry sends lists no compile targets.
Downloaded(targets) == {}

AnyRegistry(old, r) == TRUE  \* mutant of SameRegistry

\* The registry of the manifest a command found, if it found one.
SameRegistry(old, r) == old = Missing \/ old.registry = r

\* compileBundle: the specs governed now.
CompiledBy(r) == [kind |-> "compiled", of |-> r, release |-> hosts[r].release]

\* A generated file carries the marker.
Generated(file) == file = Missing \/ file.kind # "hand"
-----------------------------------------------------------------------------
SetupInit ==
  /\ hosts \in [Registries -> [auth : BOOLEAN, enrolls : BOOLEAN, release : {1}]]
  /\ live = {} /\ record = Missing /\ kept = Missing /\ config = Missing /\ guide = Missing
  /\ outputs = [o \in Outputs |-> Missing]
  /\ setup = Missing /\ moved = FALSE
  /\ issued = 0 /\ setups = 0 /\ events = 0

AtStep(step) == setup # Missing /\ setup.step = step
GoTo(step) == setup' = [setup EXCEPT !.step = step]
End == setup' = Missing

\* A request that fails ends the command.
Ask(public, token, answered) ==
  IF Admits(setup.server, token, public) THEN answered ELSE End

\* The token of every command is the stored one, of whichever registry.
Start(kind, r, secure, typed, force, left, step) ==
  /\ setup = Missing
  /\ setups < MaxSetups /\ setups' = setups + 1
  /\ setup' = [kind |-> kind, server |-> r, token |-> kept, own |-> kept, secure |-> secure, typed |-> typed,
               force |-> force, old |-> record, left |-> left, bundle |-> 0,
               wrote |-> Missing, step |-> step]
  /\ UNCHANGED <<hosts, live, copyVars, issued, events>>

\* An agent is enrolled where there is no token, and only for the type a command names:
\* a setup that asks its owner for the type goes on as it is, whatever is required.
FirstStep(token, typed) == IF typed /\ token = Missing THEN "probe" ELSE "download"

\* secure: init --secure, or SPECREG_AUTH=required in the environment of init or sync.
StartSetup(r, secure, typed) == Start("init", r, secure, typed, FALSE, {}, FirstStep(kept, typed))
StartAdopt(r) == record # Missing /\ record.registry # r /\ Start("adopt", r, FALSE, TRUE, TRUE, {}, "download")
StartSync(r, secure, force) == record # Missing /\ Start("sync", r, secure, TRUE, force, {}, "verify")
StartCompile(r, o, force) == Start("compile", r, FALSE, FALSE, force, {o}, "compile")

\* runSync remembers the targets before init drops them.
Reinit == setup' = [setup EXCEPT !.left = record.targets, !.old = record, !.step = FirstStep(setup.token, setup.typed)]

\* runVerify: the manifest is signed by the registry asked, and the files are as it says.
VerifyCopy(intact) ==
  /\ AtStep("verify")
  /\ IF record = Missing THEN End
     ELSE Ask(TRUE, setup.token, IF intact /\ record.registry = setup.server THEN GoTo("check")
                                 ELSE IF setup.force THEN Reinit
                                 ELSE End)
  /\ UNCHANGED <<hosts, live, copyVars, issued, counters>>

CheckDrift ==
  /\ AtStep("check")
  /\ IF record = Missing THEN End
     ELSE Ask(FALSE, setup.token, IF hosts[setup.server].release > record.release THEN Reinit ELSE End)
  /\ UNCHANGED <<hosts, live, copyVars, issued, counters>>

\* probeAuthRequired; a registry that does not answer leaves it open.
Probe(answers) ==
  /\ AtStep("probe")
  /\ setup' = [setup EXCEPT !.secure = @ \/ (answers /\ hosts[setup.server].auth), !.step = "enroll"]
  /\ UNCHANGED <<hosts, live, copyVars, issued, counters>>

\* enrollAgent: the token is stored as soon as it is issued.
Enroll ==
  LET token == [of |-> setup.server, id |-> issued]
  IN /\ AtStep("enroll")
     /\ hosts[setup.server].enrolls
     /\ issued < MaxTokens /\ issued' = issued + 1
     /\ live' = live \cup {token} /\ kept' = token
     /\ setup' = [setup EXCEPT !.own = token, !.step = "download"]
     /\ UNCHANGED <<hosts, record, config, guide, outputs, moved, counters>>

FailsOpen == TRUE  \* mutant of GoesOnAnonymously

GoesOnAnonymously == ~setup.secure

\* Refused or unreachable: only a registry taken to be open is entered without a token.
EnrollmentFails ==
  /\ AtStep("enroll")
  /\ IF GoesOnAnonymously THEN GoTo("download") ELSE End
  /\ UNCHANGED <<hosts, live, copyVars, issued, counters>>

\* GET /specs/:key/download
DownloadBundle ==
  /\ AtStep("download")
  /\ Ask(FALSE, setup.own, setup' = [setup EXCEPT !.bundle = hosts[setup.server].release, !.step = "identify"])
  /\ UNCHANGED <<hosts, live, copyVars, issued, counters>>

\* The registry is compared by its key, and the manifest written.
Identify ==
  /\ AtStep("identify")
  /\ IF Admits(setup.server, setup.own, TRUE) /\ (setup.kind = "adopt" \/ SameRegistry(setup.old, setup.server))
     THEN /\ record' = [registry |-> setup.server, release |-> setup.bundle,
                        targets |-> Downloaded(IF record = Missing THEN {} ELSE record.targets)]
          /\ moved' = (moved \/ setup.kind = "adopt")
          /\ IF setup.kind = "adopt" THEN End ELSE GoTo("config")
     ELSE End /\ UNCHANGED <<record, moved>>
  /\ UNCHANGED <<hosts, live, kept, config, guide, outputs, issued, counters>>

\* writeMcpConfig
WriteConfig ==
  /\ AtStep("config")
  /\ config' = IF config = Missing THEN [registry |-> setup.server, token |-> setup.own,
                                              secure |-> setup.secure, typed |-> setup.typed] ELSE config
  /\ GoTo("guide")
  /\ UNCHANGED <<hosts, live, record, kept, guide, outputs, moved, issued, counters>>

\* writeRegistryGuide
WriteGuide ==
  /\ AtStep("guide")
  /\ guide' = IF guide = Missing THEN setup.server ELSE guide
  /\ GoTo("agents")
  /\ UNCHANGED <<hosts, live, record, kept, config, outputs, moved, issued, counters>>

\* writeAgentsBootstrap; sync then verifies what it wrote and ignores the verdict.
WriteAgents ==
  /\ AtStep("agents")
  /\ outputs' = IF Generated(outputs[AgentsFile]) THEN [outputs EXCEPT ![AgentsFile] = Bootstrap] ELSE outputs
  /\ IF setup.kind = "sync" THEN GoTo("reverify") ELSE End
  /\ UNCHANGED <<hosts, live, record, kept, config, guide, moved, issued, counters>>

\* runVerify and runCompile of a sync carry the command's token, not the enrolled one.
VerifyAgain ==
  /\ AtStep("reverify")
  /\ IF record = Missing THEN End ELSE Ask(TRUE, setup.token, GoTo("compile"))
  /\ UNCHANGED <<hosts, live, copyVars, issued, counters>>

\* runCompile: what a sync compiles overwrites any file.
Compile(o) ==
  /\ AtStep("compile") /\ o \in setup.left
  /\ IF /\ Admits(setup.server, setup.token, FALSE)
        /\ setup.force \/ setup.kind = "sync" \/ Generated(outputs[o])
     THEN /\ outputs' = [outputs EXCEPT ![o] = CompiledBy(setup.server)]
          /\ setup' = [setup EXCEPT !.wrote = o, !.step = "remember"]
     ELSE End /\ UNCHANGED outputs
  /\ UNCHANGED <<hosts, live, record, kept, config, guide, moved, issued, counters>>

\* rememberCompileTarget
Remember ==
  /\ AtStep("remember")
  /\ record' = IF record = Missing THEN Missing ELSE [record EXCEPT !.targets = @ \cup {setup.wrote}]
  /\ setup' = [setup EXCEPT !.left = @ \ {setup.wrote}, !.step = "compile"]
  /\ UNCHANGED <<hosts, live, kept, config, guide, outputs, moved, issued, counters>>

\* The last target is compiled, or the command is killed or meets a failure anywhere.
StopSetup ==
  /\ setup # Missing /\ End
  /\ UNCHANGED <<hosts, live, copyVars, issued, counters>>
-----------------------------------------------------------------------------
Occurs == events < MaxEvents /\ events' = events + 1 /\ UNCHANGED <<setup, issued, setups>>
Event == Occurs /\ UNCHANGED copyVars

\* A spec is published.
Release(r) == Event /\ hosts' = [hosts EXCEPT ![r].release = @ + 1] /\ UNCHANGED live
\* A registry restarts with authentication turned on or off.
TurnAuth(r) == Event /\ hosts' = [hosts EXCEPT ![r].auth = ~@] /\ UNCHANGED live
\* Tokens are revoked and expire.
Revoke(token) == Event /\ live' = live \ {token} /\ UNCHANGED hosts

Owner == Occurs /\ UNCHANGED <<hosts, live>>

LoseRecord == Owner /\ record # Missing /\ record' = Missing /\ moved' = TRUE /\ UNCHANGED <<kept, config, guide, outputs>>
LoseToken == Owner /\ kept # Missing /\ kept' = Missing /\ UNCHANGED <<record, config, guide, outputs, moved>>
LoseConfig == Owner /\ config # Missing /\ config' = Missing /\ UNCHANGED <<record, kept, guide, outputs, moved>>
WriteByHand(o) == Owner /\ outputs' = [outputs EXCEPT ![o] = HandWritten] /\ UNCHANGED <<record, kept, config, guide, moved>>

SetupNext ==
  \/ \E r \in Registries :
       \/ \E secure, typed \in BOOLEAN : StartSetup(r, secure, typed)
       \/ StartAdopt(r) \/ Release(r) \/ TurnAuth(r)
       \/ \E secure, force \in BOOLEAN : StartSync(r, secure, force)
       \/ \E o \in Outputs, force \in BOOLEAN : StartCompile(r, o, force)
  \/ \E yes \in BOOLEAN : VerifyCopy(yes) \/ Probe(yes)
  \/ CheckDrift \/ Enroll \/ EnrollmentFails \/ DownloadBundle \/ Identify
  \/ WriteConfig \/ WriteGuide \/ WriteAgents \/ VerifyAgain \/ Remember \/ StopSetup
  \/ \E o \in Outputs : Compile(o) \/ WriteByHand(o)
  \/ \E token \in live : Revoke(token)
  \/ LoseRecord \/ LoseToken \/ LoseConfig

SetupSpec == SetupInit /\ [][SetupNext]_setupVars
-----------------------------------------------------------------------------
\* Whatever is killed or refused on the way, what agents read of a working copy names one
\* registry, until the manifest is lost or moved to another: .mcp.json, SPECREGISTRY.md and the
\* manifest are written by one command after the manifest's identity was compared.
OneRegistry ==
  ~moved => \A x, y \in {IF record = Missing THEN Missing ELSE record.registry,
                         IF config = Missing THEN Missing ELSE config.registry, guide} \ {Missing} : x = y

\* A file the manifest lists as compiled is not older than the manifest, nor the bootstrap:
\* init drops the list with the manifest it replaces, since the files are compiled anew after it.
ListedFilesAreCurrent ==
  record # Missing =>
    \A o \in record.targets :
      /\ outputs[o] # Missing /\ outputs[o].kind # "bootstrap"
      /\ outputs[o].of = record.registry => outputs[o].release >= record.release

\* The token .mcp.json hands to every agent session was issued by the registry it names, although
\* commands send the stored token to whichever server they are given; and there is one where
\* a command that names its type took the registry for a secured one, or was told it is.
AgentsAreAdmitted ==
  config # Missing =>
    /\ config.token # Missing => config.token.of = config.registry
    /\ config.secure /\ config.typed => config.token # Missing

\* Not checked, since it fails: "require an enrolled agent token; fail if enrollment yields none"
\* (help of init --secure, cli/src/index.ts:67).  A setup that asks for the type enrolls nobody.
SecureSetupsEnroll == config # Missing /\ config.secure => config.token # Missing

SetupIsSound == SetupTypeOK /\ OneRegistry /\ ListedFilesAreCurrent /\ AgentsAreAdmitted
=============================================================================
