\* Two betas and a stable release: promoting the older beta afterwards.
SPECIFICATION Spec
CONSTANTS
  s1 = s1
  s2 = s2
  cr1 = cr1
  cr2 = cr2
  cr3 = cr3
  ann = ann
  bob = bob
  eve = eve
  textA = textA
  textB = textB
  guide = guide
  SpecIds = {s1}
  CRs = {cr1, cr2}
  People = {ann, bob}
  Contents = {textA, textB}
  Filenames = {guide}
  FilenameOf <- OneFilename
  Reviewers = {bob}
  Admins = {}
  Policies <- PolicyOne
  Channels = {"stable", "beta"}
  VersionDeltas = {"minor", "patch"}
  AllowAdminSelfApprove = FALSE
  Crashes = FALSE
SYMMETRY Interchangeable
PROPERTIES
  VersionNeverRegresses
CHECK_DEADLOCK FALSE
