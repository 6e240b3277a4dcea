\* An upgrade from before migration 11 with one death.
SPECIFICATION Spec
CONSTANTS
  Names = {bot}
  AgentNames = {bot}
  Roles = {"agent", "author", "admin"}
  DefaultRole = "author"
  Logins = {l1}
  MaxFailed = 1
  MaxMoves = 1
  MaxWrong = 1
  ServerJobs = {scheduled}
  CliJobs = {now}
  Keep = 1
  MaxClock = 1
  MaxWrites = 1
  MaxKills = 1
  StartVersions = {10}
  Openers = {server}
  MaxCrashes = 1
  long = long
  other = other
  short = short
  SpecIds = {s1}
  Contents = {long, other, short}
  SectionsOf <- Sections
  Models = {m1, m2}
  Handlers = {h1, h2}
  MaxChanges = 0
  MaxFailures = 0
PROPERTIES
  SpecsSurviveUpgrades
CHECK_DEADLOCK FALSE
