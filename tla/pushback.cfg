\* One subscription, two specs of one filename, two releases and two runs at a time; calls may fail, and the process
\* may die.
SPECIFICATION FairSpec
CONSTANTS
  sGlobal = sGlobal
  sWeb = sWeb
  feWeb = feWeb
  fe = fe
  web = web
  global = global
  docs = docs
  STYLE = STYLE
  style = style
  Specs = {sGlobal, sWeb}
  Subs = {feWeb}
  TypeOf <- Types
  Repos <- OneRepo
  RepoOf <- Repository
  PathOf <- BasePath
  NameOf <- Filename
  StemOf <- LowerCase
  GlobalTypes <- GlobalOnly
  Runs = {1, 2}
  MaxRelease = 2
  MaxReleases = 2
  Removable = {sGlobal}
  MaxJobs = 2
  Outages = {TRUE, FALSE}
  MaxCrashes = 1
INVARIANTS
  JobsAreTrue
  BranchHoldsItsRelease
PROPERTIES
  JobsEnd
CHECK_DEADLOCK FALSE
