SPECIFICATION MCSpec
CONSTANTS
  app = app
  i1 = i1
  i2 = i2
  shared = shared
  owned = owned
  high = high
  low = low
  a = a
  b = b
  f1 = f1
  listed = listed
  NoId = NoId
  NoRepo = NoRepo
  NoTrace = NoTrace
  Ids = {i1, i2}
  Repos = {app}
  Types <- TwoTypes
  Workspaces = {}
  Edits = {}
  Manifests = {listed}
  Reported <- ListedVersions
  Traces = {high, low}
  Policies <- NoPolicies
  DefaultPolicy <- AcceptLow
  MaxAttempts = 3
  Sessions = {1, 2}
  MaxAttestations = 2
  Specs = {shared, owned}
  Anchors = {a, b}
  Global = "base"
  TypeOf <- SpecTypes
  Owner <- SpecOwners
  Tokens <- SectionTokens
  Files = {f1}
  Links <- TraceLinks
  HighDrift = {high}
  NameOf <- Filenames
  Wordings = {"unclear", "wrong"}
  Topics = {"tests"}
  Validations = {"tests", "approvals"}
  Expensive = 2
  SpecRows = 1
  SectionRows = 2
  SessionRows = 1
  RunRows = 1
  MaxVersion = 2
  MaxEvents = 2
  MaxUsage = 2
  MaxFeedback = 2
  MaxReports = 1
  LastDay = 1
  Window = 0
INVARIANTS
  TokenReportsAgree
  AuditsAgree
  RunsAreJudgedAlike
CHECK_DEADLOCK FALSE
