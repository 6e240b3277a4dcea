\* Two saves and one restart of the settings; two specs of two names under two texts; files of
\* four lines and scripts of three statements; two edits and two code maps of one file; two users,
\* two tasks and two outages; two files, two changes of others and two commands; two working
\* copies of two files and two edits; two updates, two later commits and one mishap; two registries, three commands
\* that set up a copy, two tokens and one event.
SPECIFICATION Spec
CONSTANTS
  Languages = {"TypeScript", "Python", "SQL", "JSON"}
  Depths = {0, 1, 2}
  MaxLines = 4
  SqlFiles <- Scripts
  ConfigFiles <- Configurations
  personal = personal
  payments = payments
  orders = orders
  t1 = t1
  d1 = d1
  d2 = d2
  d3 = d3
  AppKeys = {a1}
  Providers = {"p", "q"}
  EnvProvider = "p"
  LocalProvider = "q"
  EnvModels <- ModelNames
  LocalSecret = "c"
  LlmRoutes = {r}
  Typed = {"s1", "s2"}
  MasterKeys = {k}
  MaxSaves = 2
  MaxRestarts = 1
  Unset = Unset
  EnvSecret = "e"
  RowIds = {r1, r2}
  Purposes = {"SECURITY.md"}
  Filenames = {"SECURITY.md", "API.md"}
  Position <- NamePosition
  Texts <- SectionsOfTexts
  Signals <- SectionSignals
  Tokens <- SectionTokens
  Words <- SharedWords
  Listed = 2
  Budgets <- CallerBudgets
  Edited = {personal}
  EnvFlags <- Environment
  Turned = {"enabled"}
  MaxVersion = 1
  MaxCalls = 1
  MaxSteps = 5
  NoSpec = NoSpec
  NoPrompt = NoPrompt
  NotStored = NotStored
  Slots = {0, 1, 2, 3}
  Kind <- SlotKinds
  Within <- Enclosing
  Exported = {2, 3}
  Paths = {"src", "lib"}
  Names = {"pay", "order"}
  Signatures = {"one", "two"}
  Bodies = {"body"}
  Specs = {payments, orders}
  Anchors <- SpecAnchors
  Refs <- Annotations
  Confidence <- Matches
  OverrideFiles <- OverrideSets
  Formats = {"v1", "v2"}
  MaxEdits = 2
  MaxCommands = 2
  Absent = Absent
  NoRef = NoRef
  NoSlot = NoSlot
  Users = {u1, u2}
  Titles = {d1, d2, d3}
  Slugs = {1, 2}
  SlugOf <- CutTitles
  PageSize = 1
  FirstWords = {"add"}
  StartsOf <- Beginnings
  Statuses = {"open", "done"}
  SpecRefs = {s1}
  MaxTasks = 2
  MaxOutages = 2
  NoCommand = NoCommand
  NoTask = NoTask
  NoStatus = NoStatus
  Drafts = {1, 2}
  Wordings = {t1, t2}
  Templates = {2}
  Answers = {t2}
  Environments <- Keyrings
  MaxHands = 2
  MaxRuns = 2
  NoRow = NoRow
  NoFileText = NoFileText
  NoRun = NoRun
  Copies = {c1, c2}
  SpecFiles = {f1, f2}
  Contents = {x1, x2}
  WorkspaceIds = {w1, w2, w3}
  MaxChanges = 2
  MaxStates = 2
  NoText = NoText
  NoWorkspace = NoWorkspace
  Resting = Resting
  MaxCommits = 3
  Touching = {2}
  Updates = {u3, u4}
  Checks = {g1}
  Facts <- Findings
  AuthRequired = TRUE
  MaxMishaps = 1
  z1 = z1
  z2 = z2
  Registries = {z1, z2}
  Outputs = {o1, o2}
  AgentsFile = o1
  MaxTokens = 2
  MaxSetups = 3
  MaxEvents = 1
  Missing = Missing
INVARIANTS
  UpdatesAreSound
  AutomationIsSound
  CodeIsTraced
  TasksAreFound
  WorkingCopiesAreSound
PROPERTIES
  SettingsAreSound
  DraftsAreProposed
CHECK_DEADLOCK FALSE
