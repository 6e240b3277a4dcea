\* One spec, two requests, policies that change between two approvals and a
\* required reviewer, an author and two reviewers, one of them admin; the process
\* may die inside the approve handler.
SPECIFICATION Spec
CONSTANTS
  s1 = s1
  s2 = s2
  cr1 = cr1
  cr2 = cr2
  cr3 = cr3
  ann = ann
  bob = bob
  eve = eve
  textA = textA
  textB = textB
  guide = guide
  SpecIds = {s1}
  CRs = {cr1, cr2}
  People = {ann, bob, eve}
  Contents = {textA, textB}
  Filenames = {guide}
  FilenameOf <- OneFilename
  Reviewers = {bob, eve}
  Admins = {eve}
  Policies <- PolicyRouted
  Channels = {"stable", "beta"}
  VersionDeltas = {"minor"}
  AllowAdminSelfApprove = FALSE
  Crashes = TRUE
SYMMETRY Interchangeable
INVARIANTS
  RowsAreWellFormed
  HeadIsRecorded
  ReviewIsNotStranded
  ApprovalEvidence
PROPERTIES
  EvidenceIsImmutable
  ImplementsRegistry
CHECK_DEADLOCK FALSE
