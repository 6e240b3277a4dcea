---------------------------- MODULE ServerUpdate -----------------------------
(***************************************************************************)
(* The version of a registry that runs from a git checkout: what it says   *)
(* of itself and of the branch on GitHub, the update an administrator      *)
(* triggers from the dashboard, and the audit of the registry that quotes  *)
(* both (lib/versionInfo.ts, GET /meta/version, POST /admin/update and     *)
(* POST /audit-reports/registry-operations).                               *)
(*                                                                         *)
(* A commit of the branch is its number; a local commit on top of it is    *)
(* one more.  Local git commands are taken to succeed; a pull, an          *)
(* installation and a build may fail, and the process may die.             *)
(***************************************************************************)
EXTENDS Integers, FiniteSets

CONSTANTS
  MaxCommits,  \* bound: commits of the branch
  Touching,    \* commits that change package.json or its lock
  Updates,     \* requests to update
  Checks,      \* requests that ask for the version
  Facts,       \* what the audit finds elsewhere: [warnings, tokens]
  AuthRequired,
  MaxMishaps   \* bound: failures, deaths and changes by hand

ASSUME ServerAssumption == Touching \subseteq Nat

VARIABLES
  branch,    \* commits on GitHub
  tree,      \* the checkout: [base, own, pushed, dirty]
  installed, \* dependency changes in node_modules
  built,     \* the commit dist/ is built from
  process,   \* the commit the process runs
  cache,     \* the cached comparison, or NoResult
  updates,   \* updates under way
  checks,    \* comparisons under way
  report,    \* the audit the last step stored, or NoReport
  whole,     \* history: every change of the tree came of an update that ended well, alone
  mishaps

serverVars == <<branch, tree, installed, built, process, cache, updates, checks, report, whole, mishaps>>

NoResult == [status |-> "none"]
NoReport == [status |-> "none"]
Quiet == [step |-> "none"]

\* git rev-parse HEAD
HeadOf(t) == <<t.base, t.own>>

\* getLocalVersionInfo
Local == [sha |-> HeadOf(tree), dirty |-> tree.dirty]
-----------------------------------------------------------------------------
\* The comparison with GitHub.

CacheKey(sha) == sha

Unknown == [status |-> "unknown", behind |-> 0]

Found(behind, ahead) ==
  [status |-> IF behind > 0 /\ ahead > 0 THEN "diverged" ELSE IF behind > 0 THEN "behind"
              ELSE IF ahead > 0 THEN "ahead" ELSE "up_to_date",
   behind |-> behind]

\* The compare API: a commit that was never pushed is not found.
Comparison(check) ==
  IF check.own > 0 /\ ~check.pushed THEN Unknown ELSE Found(branch - check.base, check.own)

Cached == cache # NoResult /\ cache.fresh /\ cache.key = CacheKey(HeadOf(tree))

\* buildRegistryOperationsAudit: what was read of the checkout before GitHub answered, and
\* of everything else after.
Outstanding(local, github, facts) ==
  (IF local.dirty THEN {"local changes"} ELSE {})
    \cup (IF github.status \in {"behind", "diverged"} THEN {github.status} ELSE {})
    \cup (IF AuthRequired THEN {} ELSE {"authentication is optional"})
    \cup facts.warnings
Failed(github, facts) == github.status = "diverged" \/ (AuthRequired /\ ~facts.tokens)
Report(local, github, facts) ==
  [status |-> IF Failed(github, facts) THEN "fail" ELSE IF Outstanding(local, github, facts) # {} THEN "warning" ELSE "pass",
   dirty |-> local.dirty, github |-> github.status, tokens |-> facts.tokens]

\* POST /audit-reports/registry-operations
StoreAudit(purpose, local, github) ==
  IF purpose = "audit" THEN \E facts \in Facts : report' = Report(local, github, facts) ELSE report' = NoReport

TheRest == <<branch, tree, installed, built, process, updates, whole>>

\* checkGithubVersion, from GET /meta/version or from the audit: a cached result answers.
StartCheck(c, purpose) ==
  /\ checks[c] = Quiet
  /\ IF Cached
     THEN StoreAudit(purpose, Local, cache.result) /\ UNCHANGED checks
     ELSE /\ checks' = [checks EXCEPT ![c] = [step |-> "asked", purpose |-> purpose, local |-> Local,
                          base |-> tree.base, own |-> tree.own, pushed |-> tree.pushed, fresh |-> TRUE]]
          /\ report' = NoReport
  /\ UNCHANGED <<TheRest, cache, mishaps>>

\* A result is as old as its question.
Settle(c, result) ==
  /\ checks[c] # Quiet
  /\ checks' = [checks EXCEPT ![c] = Quiet]
  /\ cache' = [status |-> "cached", key |-> CacheKey(checks[c].local.sha), result |-> result, fresh |-> checks[c].fresh]
  /\ StoreAudit(checks[c].purpose, checks[c].local, result)
  /\ UNCHANGED TheRest

GithubAnswers(c) == Settle(c, Comparison(checks[c])) /\ UNCHANGED mishaps

Mishap == mishaps < MaxMishaps /\ mishaps' = mishaps + 1
GithubFails(c) == Mishap /\ Settle(c, Unknown)

\* Five minutes pass.
CacheExpires ==
  /\ cache # NoResult /\ cache.fresh
  /\ cache' = [cache EXCEPT !.fresh = FALSE]
  /\ checks' = [c \in Checks |-> IF checks[c] = Quiet THEN Quiet ELSE [checks[c] EXCEPT !.fresh = FALSE]]
  /\ report' = NoReport
  /\ UNCHANGED <<TheRest, mishaps>>
-----------------------------------------------------------------------------
\* POST /admin/update

Busy == {u \in Updates : updates[u] # Quiet}

\* git diff --name-only: commits pulled that change dependencies.
Pulled(from, to) == {n \in Touching : from < n /\ n <= to}

Advance(u, next) == updates' = [updates EXCEPT ![u] = next]

\* A dirty tree is refused; a pull that would have to merge fails.
StartUpdate(u) ==
  /\ updates[u] = Quiet
  /\ ~tree.dirty
  /\ Advance(u, [step |-> "pull", from |-> HeadOf(tree)])
  /\ UNCHANGED <<branch, tree, installed, built, process, cache, checks, whole, mishaps>> /\ report' = NoReport

NeverInstall(from, to) == "build"  \* mutant of AfterPull
AfterPull(from, to) == IF Pulled(from, to) # {} THEN "install" ELSE "build"

Pull(u) ==
  LET from == updates[u].from
  IN /\ updates[u].step = "pull"
     /\ tree.own = 0 \/ branch = tree.base
     /\ tree' = [tree EXCEPT !.base = branch]
     /\ Advance(u, IF from = HeadOf(tree') THEN Quiet ELSE [step |-> AfterPull(from[1], branch)])
     /\ UNCHANGED <<branch, installed, built, process, cache, checks, whole, mishaps>> /\ report' = NoReport

\* npm install, of whatever the tree asks for by then
Install(u) ==
  /\ updates[u].step = "install"
  /\ installed' = installed \cup Pulled(0, tree.base)
  /\ Advance(u, [step |-> "build"])
  /\ UNCHANGED <<branch, tree, built, process, cache, checks, whole, mishaps>> /\ report' = NoReport

\* npm run build reads the sources and writes dist/ when it has compiled them.
StartBuild(u) ==
  /\ updates[u].step = "build"
  /\ Advance(u, [step |-> "write", source |-> HeadOf(tree)])
  /\ UNCHANGED <<branch, tree, installed, built, process, cache, checks, whole, mishaps>> /\ report' = NoReport

\* The end of the build drops the cached comparison.
FinishBuild(u) ==
  /\ updates[u].step = "write"
  /\ built' = updates[u].source
  /\ Advance(u, Quiet)
  /\ cache' = NoResult
  /\ whole' = (whole /\ Busy = {u})
  /\ UNCHANGED <<branch, tree, installed, process, checks, mishaps>> /\ report' = NoReport

\* A pull that fails changes nothing; what fails later leaves the tree as pulled.
UpdateFails(u) ==
  /\ updates[u] # Quiet
  /\ Mishap
  /\ Advance(u, Quiet)
  /\ whole' = (whole /\ updates[u].step = "pull")
  /\ UNCHANGED <<branch, tree, installed, built, process, cache, checks>> /\ report' = NoReport
-----------------------------------------------------------------------------
\* The surroundings.

ServerInit ==
  /\ branch = 1
  /\ tree = [base |-> 1, own |-> 0, pushed |-> FALSE, dirty |-> FALSE]
  /\ installed = Pulled(0, 1) /\ built = HeadOf(tree) /\ process = built
  /\ cache = NoResult
  /\ updates = [u \in Updates |-> Quiet] /\ checks = [c \in Checks |-> Quiet]
  /\ report = NoReport
  /\ whole = TRUE /\ mishaps = 0

Push == branch < MaxCommits /\ branch' = branch + 1
        /\ UNCHANGED <<tree, installed, built, process, cache, updates, checks, whole, mishaps>> /\ report' = NoReport

ByHand(t) ==
  /\ Mishap /\ tree' = t
  /\ UNCHANGED <<branch, installed, built, process, cache, updates, checks>> /\ report' = NoReport

\* Somebody edits the checkout, commits to it (and pushes that elsewhere), or pulls.
Edit == ~tree.dirty /\ ByHand([tree EXCEPT !.dirty = TRUE]) /\ UNCHANGED whole
Commit(pushed) == tree.own = 0 /\ ByHand([tree EXCEPT !.own = 1, !.pushed = pushed, !.dirty = FALSE]) /\ whole' = FALSE
PullByHand == tree.own = 0 /\ tree.base < branch /\ ByHand([tree EXCEPT !.base = branch]) /\ whole' = FALSE

\* The process is stopped or dies and starts again: it runs what was built.
Restart ==
  /\ Mishap
  /\ process' = built
  /\ cache' = NoResult
  /\ updates' = [u \in Updates |-> Quiet] /\ checks' = [c \in Checks |-> Quiet]
  /\ whole' = (whole /\ \A u \in Busy : updates[u].step = "pull")
  /\ UNCHANGED <<branch, tree, installed, built>> /\ report' = NoReport

ServerNext ==
  \/ \E c \in Checks :
       \/ \E purpose \in {"version", "audit"} : StartCheck(c, purpose)
       \/ GithubAnswers(c) \/ GithubFails(c)
  \/ CacheExpires
  \/ \E u \in Updates :
       StartUpdate(u) \/ Pull(u) \/ Install(u) \/ StartBuild(u) \/ FinishBuild(u) \/ UpdateFails(u)
  \/ Push \/ Edit \/ PullByHand \/ Restart
  \/ \E pushed \in BOOLEAN : Commit(pushed)

ServerSpec == ServerInit /\ [][ServerNext]_serverVars
-----------------------------------------------------------------------------
\* docs/CONCEPTS.md:137, "reports the running commit": the commit the version endpoint
\* reports is the one that runs.  It is that of the checkout, which runs after a restart.
RunningIsReported == process = Local.sha

\* While updates come one at a time and none fails after its pull, what was built and what
\* is installed is what the checkout says, however the branch moves meanwhile: an update
\* that ends has built the commit it pulled, with its dependencies.
UpdatesAreWhole ==
  whole /\ Busy = {} => built = HeadOf(tree) /\ Pulled(0, tree.base) \subseteq installed

\* The cached comparison that would answer now never holds more against the checkout than
\* is true, and says it is up to date only when it has no commit of its own: no result for
\* another commit is served, whichever updates, pulls by hand and late answers came between.
ComparisonsAreHonest ==
  Cached /\ cache.result.status # "unknown" =>
    /\ cache.result.behind <= branch - tree.base
    /\ cache.result.status = "up_to_date" => tree.own = 0

\* A stored audit that passes is of a clean checkout that had the whole branch or could
\* not be compared, and it fails only for a reason it quotes.
AuditsQuoteTheirEvidence ==
  /\ report.status = "pass" => ~report.dirty /\ report.github \in {"up_to_date", "ahead", "unknown"}
  /\ report.status = "fail" => report.github = "diverged" \/ ~report.tokens

UpdatesAreSound == UpdatesAreWhole /\ ComparisonsAreHonest /\ AuditsQuoteTheirEvidence
=============================================================================
