\* One account that is a person's or an agent's and two overlapping directory logins; the
\* scheduler and the command line over four seconds, keeping three files; an upgrade from
\* every version that differs, with one death; five changes of one indexed spec under two handlers.
SPECIFICATION FairSpec
CONSTANTS
  Names = {bot}
  AgentNames = {bot}
  Roles = {"agent", "author", "admin"}
  DefaultRole = "author"
  Logins = {l1, l2}
  MaxFailed = 1
  MaxMoves = 2
  MaxWrong = 4
  ServerJobs = {scheduled}
  CliJobs = {now}
  Keep = 3
  MaxClock = 4
  MaxWrites = 1
  MaxKills = 1
  StartVersions = {0, 4, 10, 13, 17, 20, 24, 28, 31, 35, 36, 40, 45}
  Openers = {server}
  MaxCrashes = 1
  long = long
  other = other
  short = short
  SpecIds = {s1}
  Contents = {long, other, short}
  SectionsOf <- Sections
  Models = {m1, m2}
  Handlers = {h1, h2}
  MaxChanges = 5
  MaxFailures = 1
INVARIANTS
  BackupsCanBeRestored
  SearchServesTheHead
PROPERTIES
  UpgradesAreSafe
  LoginsAreContained
  DirectoryRolesCatchUp
  SemanticIndexCatchesUp
CHECK_DEADLOCK FALSE
