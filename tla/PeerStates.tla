------------------------------ MODULE PeerStates ------------------------------
(***************************************************************************)
(* specreg state: every working copy of a project uploads how its specs    *)
(* differ from its manifest, and fetches what the others uploaded          *)
(* (cli/src/agentState.ts, routes/agentState.ts).                          *)
(*                                                                         *)
(* A text stands for its digest, and the files of a copy are read in one   *)
(* step, since nothing is awaited between them.  A first upload reports    *)
(* the manifest, which replaces the project's row and drops every state    *)
(* of it.                                                                  *)
(***************************************************************************)
EXTENDS Integers, FiniteSets

CONSTANTS
  Copies,        \* working copies
  SpecFiles,     \* specs
  Contents,      \* their texts
  WorkspaceIds,  \* ids workspaces draw
  MaxChanges, MaxStates  \* bounds: edits of working copies, commands

CONSTANTS NoText, NoWorkspace, Resting

\* Ids are drawn at random: no command is left without a new one.
ASSUME PeersAssumption ==
  /\ Contents # {} /\ NoText \notin Contents /\ NoWorkspace \notin WorkspaceIds
  /\ IsFiniteSet(WorkspaceIds) /\ MaxStates \in Nat /\ MaxStates <= Cardinality(WorkspaceIds)

VARIABLES
  copies,    \* of each working copy the texts it holds
  bases,     \* of each the texts its manifest lists
  ids,       \* of each the id in .spec/agent-state.json
  states,    \* table agent_states: of each id [base, changes]
  reported,  \* the project has a row
  incoming,  \* .spec/incoming: of each copy and id the snapshots
  jobs,      \* the running command of each copy
  had,       \* history: of each id the texts its copy had when it uploaded
  clean,     \* history: answers "no differing spec changes": [mine, theirs]
  changed, started

peerVars == <<copies, bases, ids, states, reported, incoming, jobs, had, clean, changed, started>>

CopyTexts == Contents \cup {NoText}
-----------------------------------------------------------------------------
WithoutDeletions(base, held) == {[file |-> f, text |-> held[f], from |-> base[f]]
  : f \in {f \in SpecFiles : held[f] \notin {base[f], NoText}}}  \* mutant of Changes

\* localState: files added, modified or deleted since the manifest.
Changes(base, held) == {[file |-> f, text |-> held[f], from |-> base[f]] : f \in {f \in SpecFiles : held[f] # base[f]}}

\* A snapshot as its readers understand it.
Applied(state) ==
  [f \in SpecFiles |-> IF \E c \in state.changes : c.file = f THEN (CHOOSE c \in state.changes : c.file = f).text
                       ELSE state.base[f]]

\* localHashes holds the files of the manifest only.
LocalText(p, f) == IF bases[p][f] = NoText THEN NoText ELSE copies[p][f]

\* Changes of a peer that this copy does not have.
Relevant(p, state) == {c \in state.changes : c.text # LocalText(p, c.file)}

\* A peer is all the states but the own; what this copy holds is compared.
Peers(except) == [i \in DOMAIN states \ {except} |-> states[i]]

\* CONFLICT or INCOMING
Conflicts(p, changes) == {c \in changes : LocalText(p, c.file) # bases[p][c.file]}

\* writeIncoming: snapshots are added, none is removed.
WriteIncoming(p, peers) ==
  [i \in WorkspaceIds |->
    LET brought == IF i \in DOMAIN peers THEN {c \in Relevant(p, peers[i]) : c.text # NoText} ELSE {}
    IN [f \in SpecFiles |-> IF \E c \in brought : c.file = f THEN (CHOOSE c \in brought : c.file = f).text
                            ELSE incoming[p][i][f]]]
-----------------------------------------------------------------------------
PeersInit ==
  LET first == [f \in SpecFiles |-> CHOOSE c \in Contents : TRUE]
  IN /\ copies = [p \in Copies |-> first] /\ bases = copies
     /\ ids = [p \in Copies |-> NoWorkspace]
     /\ states = <<>>
     /\ reported = FALSE
     /\ incoming = [p \in Copies |-> [i \in WorkspaceIds |-> [f \in SpecFiles |-> NoText]]]
     /\ jobs = [p \in Copies |-> Resting]
     /\ had = [i \in WorkspaceIds |-> {}]
     /\ clean = {}
     /\ changed = 0 /\ started = 0

Changing == changed < MaxChanges /\ changed' = changed + 1 /\ UNCHANGED started

\* People and agents edit a working copy; specreg sync renews a spec and its manifest.
EditCopy(p, f, text) ==
  /\ Changing
  /\ copies' = [copies EXCEPT ![p][f] = text]
  /\ UNCHANGED <<bases, ids, states, reported, incoming, jobs, had, clean>>
Renew(p, f, text) ==
  /\ Changing
  /\ copies' = [copies EXCEPT ![p][f] = text] /\ bases' = [bases EXCEPT ![p][f] = text]
  /\ UNCHANGED <<ids, states, reported, incoming, jobs, had, clean>>

\* workspaceId: kept in a file, drawn until there is one.
Drawn(i) == \E p \in Copies : ids[p] = i \/ (jobs[p] # Resting /\ jobs[p].id = i)
WorkspaceId(p) ==
  IF ids[p] # NoWorkspace THEN ids[p] ELSE CHOOSE i \in WorkspaceIds \ DOMAIN states : had[i] = {} /\ ~Drawn(i)

StartState(p, action) ==
  /\ jobs[p] = Resting
  /\ started < MaxStates /\ started' = started + 1
  /\ LET i == WorkspaceId(p)
     IN /\ jobs' = [jobs EXCEPT ![p] = [action |-> action, id |-> i, base |-> bases[p], held |-> copies[p],
             step |-> IF action \in {"push", "sync"} THEN "report" ELSE "fetch", peers |-> <<>>]]
        /\ had' = [had EXCEPT ![i] = @ \cup {copies[p]}]
  /\ UNCHANGED <<copies, bases, ids, states, reported, incoming, clean, changed>>

At(p, step) == jobs[p] # Resting /\ jobs[p].step = step

\* reportManifest
ReportState(p) ==
  /\ At(p, "report")
  /\ reported' = TRUE
  /\ states' = <<>>
  /\ jobs' = [jobs EXCEPT ![p].step = "upload"]
  /\ UNCHANGED <<copies, bases, ids, incoming, had, clean, changed, started>>

\* POST /cli/agent-state, and the same for a sync and a push
Upload(p) ==
  /\ At(p, "upload") /\ reported
  /\ states' = [i \in DOMAIN states \cup {jobs[p].id} |->
       IF i = jobs[p].id THEN [base |-> jobs[p].base, changes |-> Changes(jobs[p].base, jobs[p].held)] ELSE states[i]]
  /\ jobs' = [jobs EXCEPT ![p].step = "keep"]
  /\ UNCHANGED <<copies, bases, ids, reported, incoming, had, clean, changed, started>>

KeepId(p) ==
  /\ At(p, "keep")
  /\ ids' = [ids EXCEPT ![p] = jobs[p].id]
  /\ jobs' = [jobs EXCEPT ![p] = IF @.action = "push" THEN Resting ELSE [@ EXCEPT !.step = "fetch"]]
  /\ UNCHANGED <<copies, bases, states, reported, incoming, had, clean, changed, started>>

\* GET /cli/agent-state
FetchPeers(p) ==
  /\ At(p, "fetch") /\ reported
  /\ jobs' = [jobs EXCEPT ![p].step = "compare", ![p].peers = Peers(jobs[p].id)]
  /\ UNCHANGED <<copies, bases, ids, states, reported, incoming, had, clean, changed, started>>

\* The copy is read once more after the answer has come.
Compare(p) ==
  LET peers == jobs[p].peers
  IN /\ At(p, "compare")
     /\ incoming' = IF jobs[p].action = "check" THEN incoming ELSE [incoming EXCEPT ![p] = WriteIncoming(p, peers)]
     /\ clean' = IF \E i \in DOMAIN peers : Relevant(p, peers[i]) # {} THEN clean
                 ELSE clean \cup {[mine |-> copies[p], theirs |-> peers[i]] : i \in DOMAIN peers}
     /\ jobs' = [jobs EXCEPT ![p] = Resting]
     /\ UNCHANGED <<copies, bases, ids, states, reported, had, changed, started>>

\* A call fails or the command is killed.
StopState(p) == jobs[p] # Resting /\ jobs' = [jobs EXCEPT ![p] = Resting]
  /\ UNCHANGED <<copies, bases, ids, states, reported, incoming, had, clean, changed, started>>

PeersNext ==
  \E p \in Copies :
    \/ \E f \in SpecFiles : (\E text \in CopyTexts : EditCopy(p, f, text)) \/ \E text \in Contents : Renew(p, f, text)
    \/ \E action \in {"push", "check", "pull", "sync"} : StartState(p, action)
    \/ ReportState(p) \/ Upload(p) \/ KeepId(p) \/ FetchPeers(p) \/ Compare(p) \/ StopState(p)

PeersSpec == PeersInit /\ [][PeersNext]_peerVars
-----------------------------------------------------------------------------
\* A state on the server is one its working copy was in as a whole, also when the copy
\* was edited or renewed while the command ran; a snapshot among the incoming ones is a
\* text its workspace really had; and a copy that is told of no difference holds what
\* every peer it was compared with had changed.
PeerStatesAreSnapshots ==
  /\ \A i \in DOMAIN states : Applied(states[i]) \in had[i]
  /\ \A p \in Copies, i \in WorkspaceIds, f \in SpecFiles :
       incoming[p][i][f] # NoText => \E held \in had[i] : held[f] = incoming[p][i][f]
  /\ \A c \in clean : \A f \in SpecFiles : Applied(c.theirs)[f] # c.theirs.base[f] => c.mine[f] = Applied(c.theirs)[f]
=============================================================================
