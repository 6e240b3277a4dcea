\* One spec, two requests, two texts, two items of feedback in one cluster and two
\* suspended handlers; the process may die.
SPECIFICATION MCSpec
CONSTANTS
  guide = guide
  machine = machine
  bob = bob
  SpecIds = {s1}
  CRs = {cr1, cr2}
  People = {machine, bob}
  Contents = {textA, textB}
  Filenames = {guide}
  FilenameOf <- OneFilename
  Reviewers = {bob}
  Admins = {}
  Policies <- PolicyOne
  Channels = {"stable"}
  VersionDeltas = {"minor"}
  AllowAdminSelfApprove = FALSE
  Crashes = TRUE
  Feedbacks = {f1, f2}
  Words = {same}
  Tasks = {t1, t2}
  Machine = machine
  NoSubject = NoSubject
SYMMETRY Interchangeable
INVARIANTS
  LateAnswersAreHarmless
PROPERTIES
  FixesKeepResolved
CHECK_DEADLOCK FALSE
