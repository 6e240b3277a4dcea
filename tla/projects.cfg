\* Two repositories and two sessions with two attestations, which begin before and after
\* their project is known and finish in any order, with or without a trace; and reports of
\* manifests, traces and states by name and by id, of two rows and two workspaces; and three
\* attestations of one repository under policies of its type and of all types,
\* the second of which tells the agent to halt where the code says the third.
SPECIFICATION MCSpec
CONSTANTS
  weak = weak
  strong = strong
  NoId = NoId
  NoRepo = NoRepo
  NoTrace = NoTrace
  Ids = {i1, i2}
  Repos = {app, lib}
  Types = {web}
  Workspaces = {w1, w2}
  Edits = {edits}
  Manifests = {manifest}
  Traces = {weak, strong}
  Policies <- BothPolicies
  DefaultPolicy <- Strict
  Sessions = {x1, x2}
  MaxAttestations = 3
  MaxAttempts = 2
SYMMETRY Interchangeable
INVARIANTS
  ProjectsAreUnique
  SessionsKeepTheirProject
  EvidenceIsOwn
CHECK_DEADLOCK FALSE
