\* A seeded skill and up to two custom ones; one review, one harness proposal, one
\* workspace; one source, two scans and two candidates.
SPECIFICATION MCSpec
CONSTANTS
  seeded = seeded
  custom = custom
  second = second
  sBase = sBase
  sOther = sOther
  sThird = sThird
  a1 = a1
  a2 = a2
  t1 = t1
  t2 = t2
  hub = hub
  file = file
  workflow = workflow
  mixed = mixed
  tool = tool
  Skills = {seeded, custom, second}
  BuiltIn = {seeded}
  Slugs = {sBase, sOther, sThird}
  SeedSlug <- SeedSlugs
  Abouts = {a1, a2}
  SeedAbout = a1
  Restricted = {a2}
  Texts = {t1, t2}
  SeedText = t1
  Terms = {t1}
  Patterns = {pattern}
  Target <- TargetBase
  Reviews = {1}
  Proposals = {1}
  People = {ann, bob}
  Admins = {ann}
  Specs = {spec}
  Scopes = {"global"}
  Here = {"global"}
  Candidates = {c1, c2}
  None = None
  Sources = {hub}
  Scans = {1, 2}
  Paths = {file}
  Contents = {workflow, mixed}
  Words <- MatchedWords
  Signals <- RaisedGates
  Injects = {}
  MaxFiles = 2
  SourceRows <- HubRows
  Submissions <- Forms
INVARIANTS
  CandidatesAreSound
PROPERTIES
  HistoryIsKept
  SyncEndsDrift
CHECK_DEADLOCK FALSE
