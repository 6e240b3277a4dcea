\* The stable channel alone, one fixed policy of one approval, no crash: three
\* requests of any delta, and two specs of one filename.
SPECIFICATION Spec
CONSTANTS
  s1 = s1
  s2 = s2
  cr1 = cr1
  cr2 = cr2
  cr3 = cr3
  ann = ann
  bob = bob
  eve = eve
  textA = textA
  textB = textB
  guide = guide
  SpecIds = {s1, s2}
  CRs = {cr1, cr2, cr3}
  People = {ann, bob}
  Contents = {textA, textB}
  Filenames = {guide}
  FilenameOf <- OneFilename
  Reviewers = {bob}
  Admins = {}
  Policies <- PolicyOne
  Channels = {"stable"}
  VersionDeltas = {"major", "minor", "patch"}
  AllowAdminSelfApprove = FALSE
  Crashes = FALSE
SYMMETRY Interchangeable
INVARIANTS
  HistoryIsLinear
  ApprovalPublishes
  FilenameIsReserved
CHECK_DEADLOCK FALSE
