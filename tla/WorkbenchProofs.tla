--------------------------- MODULE WorkbenchProofs ---------------------------
(***************************************************************************)
(* Machine-checked proofs about ServerUpdate, Setup, PeerStates, Settings, *)
(* Drafting, Tasks, Automation, CodeExtract and CodeTrace, for any numbers *)
(* of requests, registries, files, copies, commands, secrets, specs, lines *)
(* of code and people.                                                     *)
(*                                                                         *)
(* Except for settings, which are saved at once but in any order, and for  *)
(* plans, each is about something that takes many steps and may stop       *)
(* anywhere: an update of the server, a command, or a prompt that a        *)
(* language model writes.  Their invariants say what is still owed, and    *)
(* what has been found out, by what is under way.                          *)
(***************************************************************************)
EXTENDS ServerUpdate, WorkingCopies, Settings, Drafting, Tasks, Automation, CodeMap, FiniteSetTheorems, WellFoundedInduction, TLAPS

(***************************************************************************)
(* Updates of the server.                                                  *)
(***************************************************************************)
Sha == Nat \X {0, 1}

Tree == [base : Nat, own : {0, 1}, pushed : BOOLEAN, dirty : BOOLEAN]

Update ==
  {Quiet} \cup [step : {"pull"}, from : Sha] \cup [step : {"install", "build"}]
    \cup [step : {"write"}, source : Sha]

Past == {"install", "build", "write"}

UpdatesTyped ==
  /\ branch \in Nat /\ tree \in Tree /\ tree.base <= branch
  /\ updates \in [Updates -> Update]

\* An update that is about to pull found the checkout at most as new as it is.
PullsFindNoMore ==
  \A u \in Updates : updates[u].step = "pull" => updates[u].from[1] <= tree.base

\* While updates come one at a time, the one that has pulled still owes what the checkout
\* has and the build has not; with none under way nothing is owed.
BuildIsOwed ==
  whole =>
    /\ tree.own = 0
    /\ (\A u \in Updates : updates[u].step \notin Past) =>
         built = HeadOf(tree) /\ Pulled(0, tree.base) \subseteq installed
    /\ \A u \in Updates :
         (/\ updates[u].step \in Past
          /\ \A v \in Updates \ {u} : updates[v].step \notin Past) =>
            /\ updates[u].step \in {"build", "write"} => Pulled(0, tree.base) \subseteq installed
            /\ updates[u].step = "write" => updates[u].source = HeadOf(tree)

UpdateInv == UpdatesTyped /\ PullsFindNoMore /\ BuildIsOwed

LEMMA UpdateKinds ==
  /\ Quiet \in Update /\ Quiet.step = "none"
  /\ \A x \in Update : x # Quiet => x.step \in Past \cup {"pull"}
  /\ \A x \in Update : x.step = "pull" => x.from \in Sha
  /\ \A x \in Update : x.step = "write" => x.source \in Sha
BY DEF Update, Quiet, Past

\* What one update does to the table of updates.
LEMMA UpdateBecomes ==
  ASSUME updates \in [Updates -> Update], NEW u \in Updates, NEW next \in Update, Advance(u, next)
  PROVE  /\ updates' \in [Updates -> Update] /\ updates'[u] = next
         /\ \A v \in Updates : v # u => updates'[v] = updates[v]
BY DEF Advance

LEMMA HeadTyped ==
  ASSUME tree \in Tree
  PROVE  HeadOf(tree) \in Sha /\ HeadOf(tree)[1] = tree.base /\ HeadOf(tree)[2] = tree.own
BY DEF Tree, Sha, HeadOf

LEMMA UpdateStep ==
  ASSUME ServerAssumption, UpdateInv, [ServerNext]_serverVars
  PROVE  UpdateInv'
<1>. USE DEF UpdateInv
<1>0. updates \in [Updates -> Update] /\ tree \in Tree /\ branch \in Nat /\ tree.base <= branch
  BY DEF UpdatesTyped
<1>a. tree.base \in Nat /\ tree.own \in {0, 1} /\ HeadOf(tree) = <<tree.base, tree.own>>
  BY <1>0 DEF Tree, HeadOf
<1>1. ASSUME UNCHANGED <<branch, tree, installed, built, updates, whole>>
      PROVE  UpdateInv'
  BY <1>1 DEF UpdatesTyped, PullsFindNoMore, BuildIsOwed, HeadOf, Pulled
<1>2. ASSUME NEW u \in Updates, StartUpdate(u)
      PROVE  UpdateInv'
  <2>1. [step |-> "pull", from |-> HeadOf(tree)] \in Update
    BY <1>0, HeadTyped DEF Update
  <2>2. /\ updates' \in [Updates -> Update] /\ updates'[u] = [step |-> "pull", from |-> HeadOf(tree)]
        /\ \A v \in Updates : v # u => updates'[v] = updates[v]
    BY <1>0, <1>2, <2>1, UpdateBecomes DEF StartUpdate
  <2>3. UNCHANGED <<branch, tree, installed, built, whole>> /\ updates[u] = Quiet
    BY <1>2 DEF StartUpdate
  <2>4. UpdatesTyped'
    BY <2>2, <2>3 DEF UpdatesTyped
  <2>5. PullsFindNoMore'
    BY <1>0, <1>a, <2>2, <2>3, HeadTyped DEF PullsFindNoMore
  <2>6. \A v \in Updates : updates'[v].step \in Past <=> updates[v].step \in Past
    BY <2>2, <2>3, UpdateKinds DEF Past
  <2>7. \A v \in Updates : updates[v].step \in Past => updates'[v] = updates[v]
    BY <2>2, <2>3, UpdateKinds DEF Past
  <2>8. BuildIsOwed'
    BY <2>3, <2>6, <2>7 DEF BuildIsOwed, HeadOf, Pulled
  <2>. QED BY <2>4, <2>5, <2>8
<1>3. ASSUME NEW u \in Updates, Pull(u)
      PROVE  UpdateInv'
  <2>0. /\ updates[u].step = "pull" /\ UNCHANGED <<branch, installed, built, whole>>
        /\ tree' = [tree EXCEPT !.base = branch]
    BY <1>3 DEF Pull
  <2>1. /\ tree' \in Tree /\ tree'.base = branch /\ tree'.own = tree.own
        /\ HeadOf(tree') = <<branch, tree.own>>
    BY <1>0, <2>0 DEF Tree, HeadOf
  <2>2. updates[u].from \in Sha /\ updates[u].from[1] \in Nat /\ updates[u].from[1] <= tree.base
    BY <1>0, <2>0, UpdateKinds DEF PullsFindNoMore, Sha
  <2>. DEFINE next == IF updates[u].from = HeadOf(tree') THEN Quiet
                      ELSE [step |-> AfterPull(updates[u].from[1], branch)]
  <2>3. next \in Update
    BY DEF Update, AfterPull
  <2>4. Advance(u, next)
    BY <1>3 DEF Pull
  <2>5. /\ updates' \in [Updates -> Update] /\ updates'[u] = next
        /\ \A v \in Updates : v # u => updates'[v] = updates[v]
    BY <1>0, <2>3, <2>4, UpdateBecomes
  <2>6. UpdatesTyped'
    BY <1>0, <2>0, <2>1, <2>5 DEF UpdatesTyped
  <2>7. next.step # "pull" /\ updates'[u].step # "pull"
    BY <2>5 DEF AfterPull, Quiet
  <2>8. PullsFindNoMore'
    <3>1. SUFFICES ASSUME NEW v \in Updates, updates'[v].step = "pull"
                   PROVE  updates'[v].from[1] <= tree'.base
      BY DEF PullsFindNoMore
    <3>2. v # u /\ updates'[v] = updates[v]
      BY <2>5, <2>7, <3>1
    <3>3. updates[v].from[1] <= tree.base /\ updates[v].from[1] \in Nat
      BY <1>0, <3>1, <3>2, UpdateKinds DEF PullsFindNoMore, Sha
    <3>. QED BY <1>0, <1>a, <2>1, <3>2, <3>3
  <2>9. CASE updates[u].from = HeadOf(tree')
    <3>1. updates[u].from[1] = branch
      BY <2>1, <2>9
    <3>2. tree.base = branch /\ HeadOf(tree') = HeadOf(tree)
      BY <1>0, <1>a, <2>1, <2>2, <3>1
    <3>3. updates'[u] = Quiet
      BY <2>5, <2>9
    <3>4. \A v \in Updates : updates'[v].step \in Past <=> updates[v].step \in Past
      BY <2>0, <2>5, <3>3, UpdateKinds DEF Past
    <3>5. \A v \in Updates : updates[v].step \in Past => updates'[v] = updates[v]
      BY <2>0, <2>5 DEF Past
    <3>6. BuildIsOwed'
      BY <2>0, <2>1, <3>2, <3>4, <3>5 DEF BuildIsOwed, Pulled
    <3>. QED BY <2>6, <2>8, <3>6
  <2>10. CASE updates[u].from # HeadOf(tree')
    <3>1. updates'[u] = [step |-> AfterPull(updates[u].from[1], branch)]
      BY <2>5, <2>10
    <3>2. updates'[u].step \in {"install", "build"} /\ updates'[u].step \in Past
      BY <3>1 DEF AfterPull, Past
    <3>3. SUFFICES ASSUME whole' PROVE BuildIsOwed'
      BY <2>6, <2>8 DEF BuildIsOwed
    <3>4. tree'.own = 0
      BY <2>0, <2>1, <3>3 DEF BuildIsOwed
    <3>5. ASSUME NEW v \in Updates, updates'[v].step \in Past,
                 \A w \in Updates \ {v} : updates'[w].step \notin Past
          PROVE  /\ updates'[v].step \in {"build", "write"} => Pulled(0, tree'.base) \subseteq installed'
                 /\ updates'[v].step = "write" => updates'[v].source = HeadOf(tree')
      <4>1. v = u
        BY <3>2, <3>5
      <4>2. \A w \in Updates : updates[w].step \notin Past
        BY <2>0, <2>5, <3>5, <4>1 DEF Past
      <4>3. Pulled(0, tree.base) \subseteq installed
        BY <2>0, <3>3, <4>2 DEF BuildIsOwed
      <4>4. ASSUME updates'[u].step = "build"
            PROVE  Pulled(0, branch) \subseteq installed
        <5>1. Pulled(updates[u].from[1], branch) = {}
          BY <3>1, <4>4 DEF AfterPull
        <5>2. SUFFICES ASSUME NEW n \in Touching, 0 < n, n <= branch
                       PROVE  n \in installed
          BY DEF Pulled
        <5>3. n \in Nat
          BY DEF ServerAssumption
        <5>4. n <= tree.base
          BY <1>0, <1>a, <2>2, <5>1, <5>2, <5>3 DEF Pulled
        <5>. QED BY <4>3, <5>2, <5>4 DEF Pulled
      <4>. QED BY <2>0, <2>1, <3>2, <4>1, <4>4
    <3>. QED BY <3>2, <3>4, <3>5 DEF BuildIsOwed
  <2>. QED BY <2>9, <2>10
<1>4. ASSUME NEW u \in Updates, Install(u)
      PROVE  UpdateInv'
  <2>0. /\ updates[u].step = "install" /\ UNCHANGED <<branch, tree, built, whole>>
        /\ installed' = installed \cup Pulled(0, tree.base)
    BY <1>4 DEF Install
  <2>1. /\ updates' \in [Updates -> Update] /\ updates'[u] = [step |-> "build"]
        /\ \A v \in Updates : v # u => updates'[v] = updates[v]
    BY <1>0, <1>4, UpdateBecomes DEF Install, Update
  <2>2. UpdatesTyped'
    BY <2>0, <2>1 DEF UpdatesTyped
  <2>3. PullsFindNoMore'
    BY <2>0, <2>1 DEF PullsFindNoMore
  <2>4. \A v \in Updates : updates'[v].step \in Past <=> updates[v].step \in Past
    BY <2>0, <2>1 DEF Past
  <2>5. \A v \in Updates : updates'[v].step = "write" => updates'[v] = updates[v]
    BY <2>1
  <2>6. Pulled(0, tree'.base) = Pulled(0, tree.base) /\ Pulled(0, tree.base) \subseteq installed'
    BY <2>0
  <2>7. BuildIsOwed'
    BY <2>0, <2>4, <2>5, <2>6 DEF BuildIsOwed, Past
  <2>. QED BY <2>2, <2>3, <2>7
<1>5. ASSUME NEW u \in Updates, StartBuild(u)
      PROVE  UpdateInv'
  <2>0. updates[u].step = "build" /\ UNCHANGED <<branch, tree, installed, built, whole>>
    BY <1>5 DEF StartBuild
  <2>1. /\ updates' \in [Updates -> Update] /\ updates'[u] = [step |-> "write", source |-> HeadOf(tree)]
        /\ \A v \in Updates : v # u => updates'[v] = updates[v]
    BY <1>0, <1>5, UpdateBecomes, HeadTyped DEF StartBuild, Update
  <2>2. UpdatesTyped'
    BY <2>0, <2>1 DEF UpdatesTyped
  <2>3. PullsFindNoMore'
    BY <2>0, <2>1 DEF PullsFindNoMore
  <2>4. \A v \in Updates : updates'[v].step \in Past <=> updates[v].step \in Past
    BY <2>0, <2>1 DEF Past
  <2>5. \A v \in Updates : v # u => updates'[v] = updates[v]
    BY <2>1
  <2>6. updates'[u].step = "write" /\ updates'[u].source = HeadOf(tree')
    BY <2>0, <2>1
  <2>7. BuildIsOwed'
    BY <2>0, <2>4, <2>5, <2>6 DEF BuildIsOwed
  <2>. QED BY <2>2, <2>3, <2>7
<1>6. ASSUME NEW u \in Updates, FinishBuild(u)
      PROVE  UpdateInv'
  <2>0. /\ updates[u].step = "write" /\ UNCHANGED <<branch, tree, installed>>
        /\ built' = updates[u].source /\ whole' = (whole /\ Busy = {u})
    BY <1>6 DEF FinishBuild
  <2>1. /\ updates' \in [Updates -> Update] /\ updates'[u] = Quiet
        /\ \A v \in Updates : v # u => updates'[v] = updates[v]
    BY <1>0, <1>6, UpdateBecomes, UpdateKinds DEF FinishBuild
  <2>2. UpdatesTyped'
    BY <2>0, <2>1 DEF UpdatesTyped
  <2>3. PullsFindNoMore'
    BY <2>0, <2>1, UpdateKinds DEF PullsFindNoMore
  <2>4. SUFFICES ASSUME whole' PROVE BuildIsOwed'
    BY <2>2, <2>3 DEF BuildIsOwed
  <2>5. whole /\ \A v \in Updates : v # u => updates[v] = Quiet
    BY <2>0, <2>4 DEF Busy
  <2>6. /\ \A v \in Updates \ {u} : updates[v].step \notin Past
        /\ \A v \in Updates : updates'[v].step \notin Past
    BY <2>1, <2>5, UpdateKinds DEF Past
  <2>7. tree.own = 0 /\ Pulled(0, tree.base) \subseteq installed /\ built' = HeadOf(tree)
    BY <2>0, <2>5, <2>6 DEF BuildIsOwed, Past
  <2>. QED BY <2>0, <2>6, <2>7 DEF BuildIsOwed
<1>7. ASSUME NEW u \in Updates, UpdateFails(u)
      PROVE  UpdateInv'
  <2>0. /\ UNCHANGED <<branch, tree, installed, built>> /\ whole' = (whole /\ updates[u].step = "pull")
    BY <1>7 DEF UpdateFails
  <2>1. /\ updates' \in [Updates -> Update] /\ updates'[u] = Quiet
        /\ \A v \in Updates : v # u => updates'[v] = updates[v]
    BY <1>0, <1>7, UpdateBecomes, UpdateKinds DEF UpdateFails
  <2>2. UpdatesTyped'
    BY <2>0, <2>1 DEF UpdatesTyped
  <2>3. PullsFindNoMore'
    BY <2>0, <2>1, UpdateKinds DEF PullsFindNoMore
  <2>4. SUFFICES ASSUME whole' PROVE BuildIsOwed'
    BY <2>2, <2>3 DEF BuildIsOwed
  <2>5. whole /\ \A v \in Updates : updates'[v].step \in Past <=> updates[v].step \in Past
    BY <2>0, <2>1, <2>4, UpdateKinds DEF Past
  <2>6. \A v \in Updates : updates[v].step \in Past => updates'[v] = updates[v]
    BY <2>0, <2>1, <2>4 DEF Past
  <2>. QED BY <2>0, <2>5, <2>6 DEF BuildIsOwed
<1>8. ASSUME Push
      PROVE  UpdateInv'
  <2>1. branch' = branch + 1 /\ UNCHANGED <<tree, installed, built, updates, whole>>
    BY <1>8 DEF Push
  <2>2. UpdatesTyped'
    BY <1>0, <1>a, <2>1 DEF UpdatesTyped
  <2>. QED BY <2>1, <2>2 DEF PullsFindNoMore, BuildIsOwed, HeadOf, Pulled
<1>9. ASSUME Edit
      PROVE  UpdateInv'
  <2>1. tree' = [tree EXCEPT !.dirty = TRUE] /\ UNCHANGED <<branch, installed, built, updates, whole>>
    BY <1>9 DEF Edit, ByHand
  <2>2. tree' \in Tree /\ tree'.base = tree.base /\ tree'.own = tree.own
    BY <1>0, <2>1 DEF Tree
  <2>3. UpdatesTyped'
    BY <2>1, <2>2 DEF UpdatesTyped
  <2>. QED BY <2>1, <2>2, <2>3 DEF PullsFindNoMore, BuildIsOwed, HeadOf, Pulled
<1>10. ASSUME NEW pushed \in BOOLEAN, Commit(pushed)
       PROVE  UpdateInv'
  <2>1. tree' = [tree EXCEPT !.own = 1, !.pushed = pushed, !.dirty = FALSE] /\ UNCHANGED <<branch, updates>> /\ ~whole'
    BY <1>10 DEF Commit, ByHand
  <2>2. tree' \in Tree /\ tree'.base = tree.base
    BY <1>0, <2>1 DEF Tree
  <2>3. UpdatesTyped'
    BY <2>1, <2>2 DEF UpdatesTyped
  <2>. QED BY <2>1, <2>2, <2>3 DEF PullsFindNoMore, BuildIsOwed
<1>11. ASSUME PullByHand
       PROVE  UpdateInv'
  <2>1. tree' = [tree EXCEPT !.base = branch] /\ UNCHANGED <<branch, updates>> /\ ~whole'
    BY <1>11 DEF PullByHand, ByHand
  <2>2. tree' \in Tree /\ tree'.base = branch
    BY <1>0, <2>1 DEF Tree
  <2>3. UpdatesTyped'
    BY <1>0, <2>1, <2>2 DEF UpdatesTyped
  <2>4. \A v \in Updates : updates[v].step = "pull" =>
          updates[v].from[1] \in Nat /\ updates[v].from[1] <= tree.base
    BY <1>0, UpdateKinds DEF PullsFindNoMore, Sha
  <2>5. PullsFindNoMore'
    BY <1>0, <1>a, <2>1, <2>2, <2>4 DEF PullsFindNoMore
  <2>. QED BY <2>1, <2>3, <2>5 DEF BuildIsOwed
<1>12. ASSUME Restart
       PROVE  UpdateInv'
  <2>1. /\ updates' = [u \in Updates |-> Quiet] /\ UNCHANGED <<branch, tree, installed, built>>
        /\ whole' = (whole /\ \A u \in Busy : updates[u].step = "pull")
    BY <1>12 DEF Restart
  <2>2. UpdatesTyped' /\ PullsFindNoMore'
    BY <2>1, UpdateKinds DEF UpdatesTyped, PullsFindNoMore
  <2>3. SUFFICES ASSUME whole' PROVE BuildIsOwed'
    BY <2>2 DEF BuildIsOwed
  <2>4. whole /\ \A u \in Updates : updates[u].step \notin Past /\ updates'[u].step \notin Past
    BY <2>1, <2>3, UpdateKinds DEF Busy, Past
  <2>. QED BY <2>1, <2>4 DEF BuildIsOwed
<1>13. (\/ UNCHANGED serverVars \/ CacheExpires
        \/ \E c \in Checks : \/ \E purpose \in {"version", "audit"} : StartCheck(c, purpose)
                             \/ GithubAnswers(c) \/ GithubFails(c)) =>
       UNCHANGED <<branch, tree, installed, built, updates, whole>>
  BY DEF serverVars, CacheExpires, StartCheck, GithubAnswers, GithubFails, Settle, TheRest
<1>. QED BY <1>1, <1>2, <1>3, <1>4, <1>5, <1>6, <1>7, <1>8, <1>9, <1>10, <1>11, <1>12, <1>13
        DEF ServerNext

(* Comparisons with GitHub.                                                *)

Verdict == [status : {"unknown", "up_to_date", "ahead", "behind", "diverged"}, behind : Int]

CacheRow == [status : {"cached"}, key : Sha, result : Verdict, fresh : BOOLEAN]

Check ==
  [step : {"asked"}, purpose : {"version", "audit"}, local : [sha : Sha, dirty : BOOLEAN],
   base : Nat, own : {0, 1}, pushed : BOOLEAN, fresh : BOOLEAN]

\* A request asks about the commit it will name.
ChecksAreTyped ==
  /\ checks \in [Checks -> Check \cup {Quiet}]
  /\ \A c \in Checks : checks[c] # Quiet => checks[c].local.sha = <<checks[c].base, checks[c].own>>

\* A verdict on a commit, for as long as it is remembered.
HonestVerdict(key, result) ==
  result.status # "unknown" =>
    /\ result.behind <= branch - key[1]
    /\ result.status = "up_to_date" => key[2] = 0

CacheIsHonest ==
  cache # NoResult => cache \in CacheRow /\ HonestVerdict(cache.key, cache.result)

LEMMA CacheKinds ==
  /\ \A x \in CacheRow : x # NoResult /\ x.key \in Sha /\ x.result \in Verdict
  /\ \A x \in Check : x # Quiet
BY DEF CacheRow, Check, NoResult, Quiet

\* Whatever GitHub compares, the verdict is of the branch as it is.
LEMMA ComparisonIsHonest ==
  ASSUME branch \in Nat, NEW check \in Check, check.local.sha = <<check.base, check.own>>
  PROVE  /\ Comparison(check) \in Verdict /\ HonestVerdict(check.local.sha, Comparison(check))
         /\ Unknown \in Verdict /\ HonestVerdict(check.local.sha, Unknown)
<1>1. check.base \in Nat /\ check.own \in {0, 1}
  BY DEF Check
<1>2. check.local.sha[1] = check.base /\ check.local.sha[2] = check.own
  OBVIOUS
<1>3. Unknown \in Verdict /\ Unknown.status = "unknown"
  BY DEF Unknown, Verdict
<1>4. CASE Comparison(check) = Unknown
  BY <1>3, <1>4 DEF HonestVerdict
<1>5. CASE Comparison(check) = Found(branch - check.base, check.own)
  <2>1. branch - check.base \in Int
    BY <1>1
  <2>2. Found(branch - check.base, check.own) \in Verdict
    BY <2>1 DEF Found, Verdict
  <2>3. /\ Found(branch - check.base, check.own).behind = branch - check.base
        /\ Found(branch - check.base, check.own).status = "up_to_date" => check.own <= 0
    BY <1>1 DEF Found
  <2>. QED BY <1>1, <1>2, <1>3, <1>5, <2>1, <2>2, <2>3 DEF HonestVerdict
<1>. QED BY <1>4, <1>5 DEF Comparison

ComparisonInv == ChecksAreTyped /\ CacheIsHonest

LEMMA SettleStep ==
  ASSUME ComparisonInv, branch \in Nat, NEW c \in Checks, NEW result \in Verdict,
         checks[c] # Quiet => HonestVerdict(checks[c].local.sha, result), Settle(c, result)
  PROVE  ComparisonInv'
<1>1. /\ checks[c] \in Check /\ checks' = [checks EXCEPT ![c] = Quiet] /\ branch' = branch
      /\ cache' = [status |-> "cached", key |-> CacheKey(checks[c].local.sha), result |-> result, fresh |-> checks[c].fresh]
  BY DEF Settle, TheRest, ComparisonInv, ChecksAreTyped
<1>2. checks[c].local.sha \in Sha /\ checks[c].fresh \in BOOLEAN /\ checks[c] # Quiet
  BY <1>1, CacheKinds DEF Check
<1>3. cache' \in CacheRow /\ cache'.key = checks[c].local.sha /\ cache'.result = result
  BY <1>1, <1>2 DEF CacheRow, CacheKey
<1>4. CacheIsHonest'
  BY <1>1, <1>2, <1>3 DEF CacheIsHonest, HonestVerdict
<1>5. ChecksAreTyped'
  BY <1>1 DEF ComparisonInv, ChecksAreTyped
<1>. QED BY <1>4, <1>5 DEF ComparisonInv

LEMMA ComparisonStep ==
  ASSUME UpdatesTyped, ComparisonInv, [ServerNext]_serverVars
  PROVE  ComparisonInv'
<1>0. /\ branch \in Nat /\ tree \in Tree
      /\ checks \in [Checks -> Check \cup {Quiet}]
      /\ \A c \in Checks : checks[c] # Quiet => checks[c] \in Check /\ checks[c].local.sha = <<checks[c].base, checks[c].own>>
  BY DEF UpdatesTyped, ComparisonInv, ChecksAreTyped
<1>1. ASSUME UNCHANGED <<branch, checks>>, cache' = cache \/ cache' = NoResult
      PROVE  ComparisonInv'
  BY <1>1 DEF ComparisonInv, ChecksAreTyped, CacheIsHonest, HonestVerdict
<1>2. ASSUME NEW c \in Checks, NEW purpose \in {"version", "audit"}, StartCheck(c, purpose)
      PROVE  ComparisonInv'
  <2>1. UNCHANGED <<branch, cache>>
    BY <1>2 DEF StartCheck, TheRest
  <2>2. CASE UNCHANGED checks
    BY <1>1, <2>1, <2>2
  <2>3. CASE checks' = [checks EXCEPT ![c] = [step |-> "asked", purpose |-> purpose, local |-> Local,
                          base |-> tree.base, own |-> tree.own, pushed |-> tree.pushed, fresh |-> TRUE]]
    <3>. DEFINE row == [step |-> "asked", purpose |-> purpose, local |-> Local,
                        base |-> tree.base, own |-> tree.own, pushed |-> tree.pushed, fresh |-> TRUE]
    <3>1. Local \in [sha : Sha, dirty : BOOLEAN] /\ Local.sha = <<tree.base, tree.own>>
      BY <1>0 DEF Local, HeadOf, Tree, Sha
    <3>2. row \in Check
      BY <1>0, <3>1 DEF Check, Tree
    <3>3. row.local.sha = <<row.base, row.own>>
      BY <3>1
    <3>4. checks' = [checks EXCEPT ![c] = row]
      BY <2>3
    <3>. HIDE DEF row
    <3>5. ChecksAreTyped'
      BY <1>0, <3>2, <3>3, <3>4 DEF ChecksAreTyped
    <3>. QED BY <2>1, <3>5 DEF ComparisonInv, CacheIsHonest, HonestVerdict
  <2>. QED BY <1>2, <2>2, <2>3 DEF StartCheck
<1>3. ASSUME NEW c \in Checks, GithubAnswers(c) \/ GithubFails(c)
      PROVE  ComparisonInv'
  <2>1. checks[c] # Quiet
    BY <1>3 DEF GithubAnswers, GithubFails, Settle
  <2>2. checks[c] \in Check /\ checks[c].local.sha = <<checks[c].base, checks[c].own>>
    BY <1>0, <2>1
  <2>3. /\ Comparison(checks[c]) \in Verdict /\ HonestVerdict(checks[c].local.sha, Comparison(checks[c]))
        /\ Unknown \in Verdict /\ HonestVerdict(checks[c].local.sha, Unknown)
    BY <1>0, <2>2, ComparisonIsHonest
  <2>4. Settle(c, Comparison(checks[c])) \/ Settle(c, Unknown)
    BY <1>3 DEF GithubAnswers, GithubFails
  <2>. QED BY <1>0, <2>3, <2>4, SettleStep
<1>4. ASSUME CacheExpires
      PROVE  ComparisonInv'
  <2>1. /\ branch' = branch /\ cache # NoResult /\ cache' = [cache EXCEPT !.fresh = FALSE]
        /\ checks' = [c \in Checks |-> IF checks[c] = Quiet THEN Quiet ELSE [checks[c] EXCEPT !.fresh = FALSE]]
    BY <1>4 DEF CacheExpires, TheRest
  <2>2. cache \in CacheRow /\ HonestVerdict(cache.key, cache.result)
    BY <2>1 DEF ComparisonInv, CacheIsHonest
  <2>3. cache' \in CacheRow /\ cache'.key = cache.key /\ cache'.result = cache.result
    BY <2>1, <2>2 DEF CacheRow
  <2>4. CacheIsHonest'
    BY <2>1, <2>2, <2>3 DEF CacheIsHonest, HonestVerdict
  <2>5. ASSUME NEW c \in Checks, checks[c] # Quiet
        PROVE  /\ [checks[c] EXCEPT !.fresh = FALSE] \in Check
               /\ [checks[c] EXCEPT !.fresh = FALSE].local = checks[c].local
               /\ [checks[c] EXCEPT !.fresh = FALSE].base = checks[c].base
               /\ [checks[c] EXCEPT !.fresh = FALSE].own = checks[c].own
    BY <1>0, <2>5 DEF Check
  <2>6. ChecksAreTyped'
    BY <1>0, <2>1, <2>5 DEF ChecksAreTyped
  <2>. QED BY <2>4, <2>6 DEF ComparisonInv
<1>5. ASSUME Push
      PROVE  ComparisonInv'
  <2>1. branch' = branch + 1 /\ UNCHANGED <<cache, checks>>
    BY <1>5 DEF Push
  <2>2. ASSUME cache # NoResult
        PROVE  HonestVerdict(cache.key, cache.result)'
    <3>1. /\ cache.key[1] \in Nat /\ cache.result.behind \in Int
          /\ HonestVerdict(cache.key, cache.result)
      BY <2>2, CacheKinds DEF ComparisonInv, CacheIsHonest, Sha, Verdict
    <3>. QED BY <1>0, <2>1, <3>1 DEF HonestVerdict
  <2>. QED BY <2>1, <2>2 DEF ComparisonInv, ChecksAreTyped, CacheIsHonest
<1>6. ASSUME Restart
      PROVE  ComparisonInv'
  BY <1>6 DEF Restart, ComparisonInv, ChecksAreTyped, CacheIsHonest
<1>7. (\/ UNCHANGED serverVars \/ Edit \/ PullByHand \/ (\E pushed \in BOOLEAN : Commit(pushed))
       \/ \E u \in Updates : \/ StartUpdate(u) \/ Pull(u) \/ Install(u)
                             \/ StartBuild(u) \/ FinishBuild(u) \/ UpdateFails(u)) =>
      UNCHANGED <<branch, checks>> /\ (cache' = cache \/ cache' = NoResult)
  BY DEF serverVars, Edit, PullByHand, Commit, ByHand, StartUpdate, Pull, Install, StartBuild,
         FinishBuild, UpdateFails
<1>. QED BY <1>1, <1>2, <1>3, <1>4, <1>5, <1>6, <1>7 DEF ServerNext

(* Audits.                                                                 *)

LEMMA AuditStored ==
  ASSUME NEW purpose, NEW at, NEW verdict \in Verdict, StoreAudit(purpose, at, verdict)
  PROVE  AuditsQuoteTheirEvidence'
<1>1. CASE report' = NoReport
  BY <1>1 DEF AuditsQuoteTheirEvidence, NoReport
<1>2. ASSUME NEW facts, report' = Report(at, verdict, facts)
      PROVE  AuditsQuoteTheirEvidence'
  <2>1. /\ report'.status = "pass" => ~at.dirty /\ verdict.status \notin {"behind", "diverged"}
        /\ report'.status = "fail" => verdict.status = "diverged" \/ ~facts.tokens
        /\ report'.dirty = at.dirty /\ report'.github = verdict.status /\ report'.tokens = facts.tokens
    BY <1>2 DEF Report, Outstanding, Failed
  <2>. QED BY <2>1 DEF AuditsQuoteTheirEvidence, Verdict
<1>. QED BY <1>1, <1>2 DEF StoreAudit

LEMMA AuditStep ==
  ASSUME UpdatesTyped, ComparisonInv, AuditsQuoteTheirEvidence, [ServerNext]_serverVars
  PROVE  AuditsQuoteTheirEvidence'
<1>1. ASSUME report' = report \/ report' = NoReport
      PROVE  AuditsQuoteTheirEvidence'
  BY <1>1 DEF AuditsQuoteTheirEvidence, NoReport
<1>2. ASSUME NEW c \in Checks, NEW purpose \in {"version", "audit"}, StartCheck(c, purpose)
      PROVE  AuditsQuoteTheirEvidence'
  <2>1. CASE Cached
    <3>1. cache.result \in Verdict
      BY <2>1, CacheKinds DEF Cached, ComparisonInv, CacheIsHonest
    <3>. QED BY <1>2, <2>1, <3>1, AuditStored DEF StartCheck
  <2>. QED BY <1>1, <1>2, <2>1 DEF StartCheck
<1>3. ASSUME NEW c \in Checks, GithubAnswers(c) \/ GithubFails(c)
      PROVE  AuditsQuoteTheirEvidence'
  <2>1. checks[c] \in Check /\ checks[c].local.sha = <<checks[c].base, checks[c].own>>
    BY <1>3 DEF GithubAnswers, GithubFails, Settle, ComparisonInv, ChecksAreTyped
  <2>2. Comparison(checks[c]) \in Verdict /\ Unknown \in Verdict
    BY <2>1, ComparisonIsHonest DEF UpdatesTyped
  <2>. QED BY <1>3, <2>2, AuditStored DEF GithubAnswers, GithubFails, Settle
<1>4. (\/ UNCHANGED serverVars \/ CacheExpires \/ Push \/ Edit \/ PullByHand \/ Restart
       \/ (\E pushed \in BOOLEAN : Commit(pushed))
       \/ \E u \in Updates : \/ StartUpdate(u) \/ Pull(u) \/ Install(u)
                             \/ StartBuild(u) \/ FinishBuild(u) \/ UpdateFails(u)) =>
      report' = report \/ report' = NoReport
  BY DEF serverVars, CacheExpires, Push, Edit, PullByHand, Restart, Commit, ByHand, StartUpdate, Pull,
         Install, StartBuild, FinishBuild, UpdateFails
<1>. QED BY <1>1, <1>2, <1>3, <1>4 DEF ServerNext

ServerInv == UpdateInv /\ ComparisonInv /\ AuditsQuoteTheirEvidence

LEMMA InitServerInv == ASSUME ServerInit PROVE ServerInv
<1>1. tree \in Tree /\ tree.base = 1 /\ tree.own = 0 /\ branch = 1
  BY DEF ServerInit, Tree
<1>2. UpdatesTyped /\ PullsFindNoMore
  BY <1>1, UpdateKinds DEF ServerInit, UpdatesTyped, PullsFindNoMore
<1>3. BuildIsOwed
  BY <1>1, UpdateKinds DEF ServerInit, BuildIsOwed, Past
<1>4. ComparisonInv /\ AuditsQuoteTheirEvidence
  BY DEF ServerInit, ComparisonInv, ChecksAreTyped, CacheIsHonest, AuditsQuoteTheirEvidence, NoReport
<1>. QED BY <1>2, <1>3, <1>4 DEF ServerInv, UpdateInv

LEMMA ServerInvIsSound == ASSUME ServerInv PROVE UpdatesAreSound
<1>1. ASSUME Cached, cache.result.status # "unknown"
      PROVE  /\ cache.result.behind <= branch - tree.base
             /\ cache.result.status = "up_to_date" => tree.own = 0
  <2>1. HonestVerdict(cache.key, cache.result) /\ cache.key = HeadOf(tree)
    BY <1>1 DEF Cached, CacheKey, ServerInv, ComparisonInv, CacheIsHonest
  <2>2. HeadOf(tree)[1] = tree.base /\ HeadOf(tree)[2] = tree.own
    BY DEF HeadOf
  <2>. QED BY <1>1, <2>1, <2>2 DEF HonestVerdict
<1>2. ASSUME whole, Busy = {}
      PROVE  built = HeadOf(tree) /\ Pulled(0, tree.base) \subseteq installed
  <2>1. \A u \in Updates : updates[u].step \notin Past
    BY <1>2, UpdateKinds DEF Busy, Past
  <2>. QED BY <1>2, <2>1 DEF ServerInv, UpdateInv, BuildIsOwed
<1>. QED BY <1>1, <1>2 DEF UpdatesAreSound, UpdatesAreWhole, ComparisonsAreHonest, ServerInv

(***************************************************************************)
(* What an administrator is told is true: while updates come one at a time *)
(* and none fails after its pull, what is built and installed is what the  *)
(* checkout says, however the branch moves meanwhile; a comparison that is *)
(* served is of the commit it is served for; and an audit that passes or   *)
(* fails quotes why (checkGithubVersion and pullAndRebuild in              *)
(* lib/versionInfo.ts, buildRegistryOperationsAudit in routes/admin.ts).   *)
(***************************************************************************)
THEOREM UpdatesStaySound == ServerSpec => []UpdatesAreSound
<1>1. ServerInit => ServerInv
  BY InitServerInv
<1>2. ServerInv /\ [ServerNext]_serverVars => ServerInv'
  BY ServerAssumption, UpdateStep, ComparisonStep, AuditStep DEF ServerInv, UpdateInv
<1>3. ServerInv => UpdatesAreSound
  BY ServerInvIsSound
<1>. QED BY <1>1, <1>2, <1>3, PTL DEF ServerSpec
-----------------------------------------------------------------------------
(* Setting up a working copy.                                              *)

\* The manifest comes first, so that it names the registry that anything else names.
ManifestLeads ==
  ~moved =>
    /\ config # Missing => record # Missing /\ record.registry = config.registry
    /\ guide # Missing => record # Missing /\ record.registry = guide

\* A file that may be listed as compiled.
Current(o) ==
  /\ outputs[o] # Missing /\ outputs[o].kind # "bootstrap"
  /\ record # Missing /\ outputs[o].of = record.registry => outputs[o].release >= record.release

CopyInv ==
  /\ ManifestLeads
  /\ record # Missing => record.release <= hosts[record.registry].release
  /\ record # Missing => \A o \in record.targets : Current(o)
  /\ AgentsAreAdmitted

\* What a command has found out, and may rely on at each of its steps.
CommandInv ==
  setup # Missing =>
    /\ setup.bundle <= hosts[setup.server].release
    /\ ~moved /\ setup.step \in {"verify", "check", "probe", "enroll", "download", "identify"} =>
         setup.old = record
    /\ ~moved /\ setup.step \in {"config", "guide"} => record # Missing /\ record.registry = setup.server
    /\ setup.step \in {"config", "guide", "agents"} /\ record # Missing => record.targets = {}
    /\ setup.step = "remember" => setup.wrote \in Outputs /\ Current(setup.wrote)
    /\ setup.step \in {"verify", "check"} => setup.own = setup.token
    /\ setup.step \in {"download", "identify", "config"} /\ setup.secure /\ setup.typed => setup.own # Missing
    /\ setup.step \in {"identify", "config"} /\ setup.own # Missing => setup.own.of = setup.server

SetupInv == SetupTypeOK /\ CopyInv /\ CommandInv

LEMMA NotMissing ==
  /\ \A x \in AgentTokens \cup Records \cup Configs \cup Files \cup Commands \cup Registries : x # Missing
  /\ AgentsFile \in Outputs
BY SetupAssumption

LEMMA GoingTo ==
  ASSUME setup \in Commands, NEW step \in Steps, GoTo(step)
  PROVE  /\ setup' \in Commands /\ setup'.step = step
         /\ setup'.kind = setup.kind /\ setup'.server = setup.server /\ setup'.token = setup.token
         /\ setup'.own = setup.own /\ setup'.secure = setup.secure /\ setup'.old = setup.old
         /\ setup'.typed = setup.typed /\ setup'.bundle = setup.bundle /\ setup'.wrote = setup.wrote
<1>1. setup' = [setup EXCEPT !.step = step]
  BY DEF GoTo
<1>. QED BY <1>1 DEF Commands

\* A step that changes the command alone keeps what the copy has.
LEMMA OnlyTheCommand ==
  ASSUME SetupInv, UNCHANGED <<hosts, live, copyVars, issued>>, setup' \in Commands \cup {Missing}, CommandInv'
  PROVE  SetupInv'
<1>1. UNCHANGED <<record, kept, config, guide, outputs, moved>>
  BY DEF copyVars
<1>2. SetupTypeOK'
  BY <1>1 DEF SetupInv, SetupTypeOK
<1>3. CopyInv'
  BY <1>1 DEF SetupInv, CopyInv, ManifestLeads, Current, AgentsAreAdmitted
<1>. QED BY <1>2, <1>3 DEF SetupInv

LEMMA EndKeeps ==
  ASSUME SetupInv, UNCHANGED <<hosts, live, copyVars, issued>>, End
  PROVE  SetupInv'
<1>1. setup' = Missing /\ CommandInv'
  BY DEF End, CommandInv
<1>. QED BY <1>1, OnlyTheCommand

LEMMA StartKeeps ==
  ASSUME SetupInv, NEW kind \in {"init", "adopt", "sync", "compile"}, NEW r \in Registries, NEW secure \in BOOLEAN,
         NEW typed \in BOOLEAN, NEW force \in BOOLEAN, NEW left \in SUBSET Outputs,
         NEW step \in {"verify", "probe", "download", "compile"},
         step = "download" /\ secure /\ typed => kept # Missing,
         Start(kind, r, secure, typed, force, left, step)
  PROVE  SetupInv'
<1>. DEFINE row == [kind |-> kind, server |-> r, token |-> kept, own |-> kept, secure |-> secure,
                    typed |-> typed, force |-> force, old |-> record, left |-> left, bundle |-> 0, wrote |-> Missing, step |-> step]
<1>1. setup' = row /\ UNCHANGED <<hosts, live, copyVars, issued>>
  BY DEF Start
<1>2. row \in Commands
  BY DEF SetupInv, SetupTypeOK, Commands, Steps
<1>3. /\ row.bundle = 0 /\ row.server = r /\ row.old = record /\ row.step = step
      /\ row.own = kept /\ row.token = kept /\ row.secure = secure /\ row.typed = typed
  OBVIOUS
<1>4. hosts[r].release \in Nat
  BY DEF SetupInv, SetupTypeOK
<1>. HIDE DEF row
<1>5. UNCHANGED <<record, moved>>
  BY <1>1 DEF copyVars
<1>6. CommandInv'
  BY <1>1, <1>3, <1>4, <1>5 DEF CommandInv
<1>. QED BY <1>1, <1>2, <1>6, OnlyTheCommand

LEMMA ReinitKeeps ==
  ASSUME SetupInv, setup \in Commands, record # Missing, setup.own = setup.token, Reinit,
         UNCHANGED <<hosts, live, copyVars, issued>>
  PROVE  SetupInv'
<1>1. setup' = [setup EXCEPT !.left = record.targets, !.old = record, !.step = FirstStep(setup.token, setup.typed)]
  BY DEF Reinit
<1>2. record \in Records /\ record.targets \in SUBSET Outputs
  BY DEF SetupInv, SetupTypeOK, Records
<1>3. /\ FirstStep(setup.token, setup.typed) \in {"probe", "download"}
      /\ FirstStep(setup.token, setup.typed) = "download" /\ setup.typed => setup.token # Missing
  BY DEF FirstStep
<1>4. /\ setup' \in Commands /\ setup'.old = record /\ setup'.step = FirstStep(setup.token, setup.typed)
      /\ setup'.typed = setup.typed /\ setup'.own = setup.own /\ setup'.server = setup.server /\ setup'.bundle = setup.bundle
  BY <1>1, <1>2, <1>3 DEF Commands, Steps
<1>5. UNCHANGED <<record, moved>>
  BY DEF copyVars
<1>6. setup # Missing
  BY NotMissing
<1>7. CommandInv'
  BY <1>3, <1>4, <1>5, <1>6 DEF CommandInv, SetupInv
<1>. QED BY <1>4, <1>7, OnlyTheCommand

\* Every step of the registries keeps what was read of them, since releases only grow.
LEMMA EventKeeps ==
  ASSUME SetupInv, UNCHANGED <<setup, copyVars, issued>>, live' \subseteq live,
         hosts' \in [Registries -> [auth : BOOLEAN, enrolls : BOOLEAN, release : Nat]],
         \A r \in Registries : hosts[r].release <= hosts'[r].release
  PROVE  SetupInv'
<1>1. UNCHANGED <<record, kept, config, guide, outputs, moved>>
  BY DEF copyVars
<1>2. SetupTypeOK'
  BY <1>1 DEF SetupInv, SetupTypeOK
<1>3. record # Missing => record.release \in Nat /\ record.registry \in Registries
  BY DEF SetupInv, SetupTypeOK, Records
<1>4. setup # Missing => setup.bundle \in Nat /\ setup.server \in Registries
  BY DEF SetupInv, SetupTypeOK, Commands
<1>5. \A r \in Registries : hosts[r].release \in Nat /\ hosts'[r].release \in Nat
  BY DEF SetupInv, SetupTypeOK
<1>6. CopyInv'
  BY <1>1, <1>3, <1>5 DEF SetupInv, CopyInv, ManifestLeads, Current, AgentsAreAdmitted
<1>7. CommandInv'
  BY <1>1, <1>4, <1>5 DEF SetupInv, CommandInv, Current
<1>. QED BY <1>2, <1>6, <1>7 DEF SetupInv

LEMMA SetupStep ==
  ASSUME SetupInv, [SetupNext]_setupVars
  PROVE  SetupInv'
<1>0. SetupTypeOK /\ CopyInv /\ CommandInv
  BY DEF SetupInv
<1>a. setup # Missing => setup \in Commands
  BY <1>0 DEF SetupTypeOK
<1>b. \A step : AtStep(step) => setup # Missing /\ setup \in Commands /\ setup.step = step
  BY <1>a DEF AtStep
<1>c. \A r \in Registries : hosts[r].release \in Nat
  BY <1>0 DEF SetupTypeOK
<1>1. ASSUME NEW r \in Registries, NEW secure \in BOOLEAN, NEW typed \in BOOLEAN, StartSetup(r, secure, typed)
      PROVE  SetupInv'
  <2>1. /\ FirstStep(kept, typed) \in {"verify", "probe", "download", "compile"}
        /\ FirstStep(kept, typed) = "download" /\ typed => kept # Missing
    BY DEF FirstStep
  <2>. QED BY <1>1, <2>1, StartKeeps DEF StartSetup
<1>2. ASSUME NEW r \in Registries, StartAdopt(r)
      PROVE  SetupInv'
  BY <1>2, StartKeeps DEF StartAdopt
<1>3. ASSUME NEW r \in Registries, NEW secure \in BOOLEAN, NEW force \in BOOLEAN, StartSync(r, secure, force)
      PROVE  SetupInv'
  BY <1>3, StartKeeps DEF StartSync
<1>4. ASSUME NEW r \in Registries, NEW force \in BOOLEAN, NEW o \in Outputs, StartCompile(r, o, force)
      PROVE  SetupInv'
  BY <1>4, StartKeeps DEF StartCompile
<1>5. ASSUME NEW intact \in BOOLEAN, VerifyCopy(intact)
      PROVE  SetupInv'
  <2>1. /\ setup # Missing /\ setup \in Commands /\ setup.step = "verify"
        /\ UNCHANGED <<hosts, live, copyVars, issued>>
    BY <1>5, <1>b DEF VerifyCopy
  <2>2. setup.own = setup.token
    BY <1>0, <2>1 DEF CommandInv
  <2>3. CASE End
    BY <2>1, <2>3, EndKeeps
  <2>4. CASE GoTo("check")
    <3>1. /\ setup' \in Commands /\ setup'.step = "check" /\ setup'.server = setup.server
          /\ setup'.token = setup.token /\ setup'.own = setup.own /\ setup'.old = setup.old
          /\ setup'.bundle = setup.bundle
      BY <2>1, <2>4, GoingTo DEF Steps
    <3>2. CommandInv'
      BY <1>0, <2>1, <2>2, <3>1 DEF CommandInv, copyVars
    <3>. QED BY <2>1, <3>1, <3>2, OnlyTheCommand
  <2>5. CASE record # Missing /\ Reinit
    BY <2>1, <2>2, <2>5, ReinitKeeps
  <2>. QED BY <1>5, <2>3, <2>4, <2>5 DEF VerifyCopy, Ask
<1>6. ASSUME CheckDrift
      PROVE  SetupInv'
  <2>1. /\ setup # Missing /\ setup \in Commands /\ setup.step = "check"
        /\ UNCHANGED <<hosts, live, copyVars, issued>>
    BY <1>6, <1>b DEF CheckDrift
  <2>2. setup.own = setup.token
    BY <1>0, <2>1 DEF CommandInv
  <2>3. CASE End
    BY <2>1, <2>3, EndKeeps
  <2>4. CASE record # Missing /\ Reinit
    BY <2>1, <2>2, <2>4, ReinitKeeps
  <2>. QED BY <1>6, <2>3, <2>4 DEF CheckDrift, Ask
<1>7. ASSUME NEW answers \in BOOLEAN, Probe(answers)
      PROVE  SetupInv'
  <2>1. /\ setup # Missing /\ setup \in Commands /\ setup.step = "probe"
        /\ UNCHANGED <<hosts, live, copyVars, issued>>
        /\ setup' = [setup EXCEPT !.secure = @ \/ (answers /\ hosts[setup.server].auth), !.step = "enroll"]
    BY <1>7, <1>b DEF Probe
  <2>2. (setup.secure \/ (answers /\ hosts[setup.server].auth)) \in BOOLEAN
    OBVIOUS
  <2>3. /\ setup' \in Commands /\ setup'.step = "enroll" /\ setup'.server = setup.server
        /\ setup'.old = setup.old /\ setup'.bundle = setup.bundle
    BY <2>1, <2>2 DEF Commands, Steps
  <2>4. CommandInv'
    BY <1>0, <2>1, <2>3 DEF CommandInv, copyVars
  <2>. QED BY <2>1, <2>3, <2>4, OnlyTheCommand
<1>8. ASSUME Enroll
      PROVE  SetupInv'
  <2>. DEFINE drawn == [of |-> setup.server, id |-> issued]
  <2>1. /\ setup # Missing /\ setup \in Commands /\ setup.step = "enroll"
        /\ UNCHANGED <<hosts, record, config, guide, outputs, moved>>
        /\ live' = live \cup {drawn} /\ kept' = drawn /\ issued' = issued + 1
        /\ setup' = [setup EXCEPT !.own = drawn, !.step = "download"]
    BY <1>8, <1>b DEF Enroll
  <2>2. drawn \in AgentTokens
    BY <1>0, <2>1 DEF AgentTokens, Commands, SetupTypeOK
  <2>. HIDE DEF drawn
  <2>3. /\ setup' \in Commands /\ setup'.step = "download" /\ setup'.server = setup.server
        /\ setup'.own = drawn /\ setup'.old = setup.old /\ setup'.bundle = setup.bundle
    BY <2>1, <2>2 DEF Commands, Steps
  <2>4. SetupTypeOK'
    BY <1>0, <2>1, <2>2, <2>3 DEF SetupTypeOK
  <2>5. CopyInv'
    BY <1>0, <2>1 DEF CopyInv, ManifestLeads, Current, AgentsAreAdmitted
  <2>6. drawn # Missing
    BY <2>2, NotMissing
  <2>7. CommandInv'
    BY <1>0, <2>1, <2>3, <2>6 DEF CommandInv
  <2>. QED BY <2>4, <2>5, <2>7 DEF SetupInv
<1>9. ASSUME EnrollmentFails
      PROVE  SetupInv'
  <2>1. /\ setup # Missing /\ setup \in Commands /\ setup.step = "enroll"
        /\ UNCHANGED <<hosts, live, copyVars, issued>>
    BY <1>9, <1>b DEF EnrollmentFails
  <2>2. CASE End
    BY <2>1, <2>2, EndKeeps
  <2>3. CASE GoTo("download") /\ ~setup.secure
    <3>1. /\ setup' \in Commands /\ setup'.step = "download" /\ setup'.server = setup.server
          /\ setup'.old = setup.old /\ setup'.bundle = setup.bundle /\ setup'.secure = setup.secure
          /\ setup'.typed = setup.typed
      BY <2>1, <2>3, GoingTo DEF Steps
    <3>2. CommandInv'
      BY <1>0, <2>1, <2>3, <3>1 DEF CommandInv, copyVars
    <3>. QED BY <2>1, <3>1, <3>2, OnlyTheCommand
  <2>. QED BY <1>9, <2>2, <2>3 DEF EnrollmentFails, GoesOnAnonymously
<1>10. ASSUME DownloadBundle
       PROVE  SetupInv'
  <2>1. /\ setup # Missing /\ setup \in Commands /\ setup.step = "download"
        /\ UNCHANGED <<hosts, live, copyVars, issued>>
    BY <1>10, <1>b DEF DownloadBundle
  <2>2. CASE End
    BY <2>1, <2>2, EndKeeps
  <2>3. CASE Admits(setup.server, setup.own, FALSE)
             /\ setup' = [setup EXCEPT !.bundle = hosts[setup.server].release, !.step = "identify"]
    <3>1. setup.server \in Registries /\ hosts[setup.server].release \in Nat
      BY <1>c, <2>1 DEF Commands
    <3>2. /\ setup' \in Commands /\ setup'.step = "identify" /\ setup'.server = setup.server
          /\ setup'.old = setup.old /\ setup'.bundle = hosts[setup.server].release
          /\ setup'.own = setup.own /\ setup'.secure = setup.secure /\ setup'.typed = setup.typed
      BY <2>1, <2>3, <3>1 DEF Commands, Steps
    <3>3. setup.own # Missing => setup.own.of = setup.server
      BY <2>3 DEF Admits
    <3>4. CommandInv'
      BY <1>0, <2>1, <3>1, <3>2, <3>3 DEF CommandInv, copyVars
    <3>. QED BY <2>1, <3>2, <3>4, OnlyTheCommand
  <2>. QED BY <1>10, <2>2, <2>3 DEF DownloadBundle, Ask
<1>11. ASSUME Identify
       PROVE  SetupInv'
  <2>1. /\ setup # Missing /\ setup \in Commands /\ setup.step = "identify"
        /\ UNCHANGED <<hosts, live, kept, config, guide, outputs, issued>>
    BY <1>11, <1>b DEF Identify
  <2>2. CASE End /\ UNCHANGED <<record, moved>>
    BY <2>1, <2>2, EndKeeps DEF copyVars
  <2>3. CASE /\ setup.kind = "adopt" \/ SameRegistry(setup.old, setup.server)
             /\ record' = [registry |-> setup.server, release |-> setup.bundle,
                           targets |-> Downloaded(IF record = Missing THEN {} ELSE record.targets)]
             /\ moved' = (moved \/ setup.kind = "adopt")
             /\ IF setup.kind = "adopt" THEN End ELSE GoTo("config")
    <3>1. setup.server \in Registries /\ setup.bundle \in Nat
      BY <2>1 DEF Commands
    <3>2. /\ record' \in Records /\ record'.registry = setup.server /\ record'.release = setup.bundle
          /\ record'.targets = {}
      BY <2>3, <3>1 DEF Records, Downloaded
    <3>3. record' # Missing
      BY <3>2, NotMissing
    <3>4. setup' = Missing \/ (/\ setup' \in Commands /\ setup'.step = "config" /\ setup'.server = setup.server
                               /\ setup'.bundle = setup.bundle /\ setup'.own = setup.own
                               /\ setup'.secure = setup.secure /\ setup'.typed = setup.typed)
      BY <2>1, <2>3, GoingTo DEF Steps, End
    <3>5. SetupTypeOK'
      BY <1>0, <2>1, <3>2, <3>4 DEF SetupTypeOK
    <3>6. setup.bundle <= hosts[setup.server].release
      BY <1>0, <2>1 DEF CommandInv
    <3>7. ASSUME ~moved' PROVE ~moved /\ (record # Missing => record.registry = setup.server)
      <4>1. ~moved /\ setup.kind # "adopt" /\ setup.old = record
        BY <1>0, <2>1, <2>3, <3>7 DEF CommandInv
      <4>. QED BY <2>3, <4>1 DEF SameRegistry
    <3>8. ManifestLeads'
      BY <1>0, <2>1, <3>2, <3>3, <3>7 DEF CopyInv, ManifestLeads
    <3>9. CopyInv'
      BY <1>0, <2>1, <3>2, <3>6, <3>8 DEF CopyInv, AgentsAreAdmitted
    <3>10. CommandInv'
      BY <1>0, <2>1, <3>2, <3>3, <3>4, <3>6 DEF CommandInv
    <3>. QED BY <3>5, <3>9, <3>10 DEF SetupInv
  <2>. QED BY <1>11, <2>2, <2>3 DEF Identify
<1>12. ASSUME WriteConfig
       PROVE  SetupInv'
  <2>. DEFINE row == [registry |-> setup.server, token |-> setup.own, secure |-> setup.secure,
                    typed |-> setup.typed]
  <2>1. /\ setup # Missing /\ setup \in Commands /\ setup.step = "config"
        /\ UNCHANGED <<hosts, live, record, kept, guide, outputs, moved, issued>>
        /\ config' = IF config = Missing THEN row ELSE config
        /\ GoTo("guide")
    BY <1>12, <1>b DEF WriteConfig
  <2>2. /\ row \in Configs /\ row.registry = setup.server /\ row.token = setup.own /\ row.secure = setup.secure
        /\ row.typed = setup.typed
    BY <2>1 DEF Configs, Commands
  <2>. HIDE DEF row
  <2>3. /\ setup' \in Commands /\ setup'.step = "guide" /\ setup'.server = setup.server
        /\ setup'.bundle = setup.bundle
    BY <2>1, GoingTo DEF Steps
  <2>4. SetupTypeOK'
    BY <1>0, <2>1, <2>2, <2>3 DEF SetupTypeOK
  <2>5. /\ setup.own # Missing => setup.own.of = setup.server
        /\ setup.secure /\ setup.typed => setup.own # Missing
        /\ ~moved => record # Missing /\ record.registry = setup.server
    BY <1>0, <2>1 DEF CommandInv
  <2>6. AgentsAreAdmitted'
    BY <1>0, <2>1, <2>2, <2>5 DEF CopyInv, AgentsAreAdmitted
  <2>7. ManifestLeads'
    BY <1>0, <2>1, <2>2, <2>5 DEF CopyInv, ManifestLeads
  <2>8. CopyInv'
    BY <1>0, <2>1, <2>6, <2>7 DEF CopyInv, Current
  <2>9. CommandInv'
    BY <1>0, <2>1, <2>3 DEF CommandInv
  <2>. QED BY <2>4, <2>8, <2>9 DEF SetupInv
<1>13. ASSUME WriteGuide
       PROVE  SetupInv'
  <2>1. /\ setup # Missing /\ setup \in Commands /\ setup.step = "guide"
        /\ UNCHANGED <<hosts, live, record, kept, config, outputs, moved, issued>>
        /\ guide' = IF guide = Missing THEN setup.server ELSE guide
        /\ GoTo("agents")
    BY <1>13, <1>b DEF WriteGuide
  <2>2. setup.server \in Registries
    BY <2>1 DEF Commands
  <2>3. /\ setup' \in Commands /\ setup'.step = "agents" /\ setup'.server = setup.server
        /\ setup'.bundle = setup.bundle
    BY <2>1, GoingTo DEF Steps
  <2>4. SetupTypeOK'
    BY <1>0, <2>1, <2>2, <2>3 DEF SetupTypeOK
  <2>5. ~moved => record # Missing /\ record.registry = setup.server
    BY <1>0, <2>1 DEF CommandInv
  <2>6. CopyInv'
    BY <1>0, <2>1, <2>5 DEF CopyInv, ManifestLeads, Current, AgentsAreAdmitted
  <2>7. CommandInv'
    BY <1>0, <2>1, <2>3 DEF CommandInv
  <2>. QED BY <2>4, <2>6, <2>7 DEF SetupInv
<1>14. ASSUME WriteAgents
       PROVE  SetupInv'
  <2>1. /\ setup # Missing /\ setup \in Commands /\ setup.step = "agents"
        /\ UNCHANGED <<hosts, live, record, kept, config, guide, moved, issued>>
        /\ outputs' = outputs \/ outputs' = [outputs EXCEPT ![AgentsFile] = Bootstrap]
        /\ GoTo("reverify") \/ End
    BY <1>14, <1>b DEF WriteAgents
  <2>2. outputs' \in [Outputs -> Files \cup {Missing}]
    BY <1>0, <2>1 DEF SetupTypeOK, Files, Bootstrap
  <2>3. setup' = Missing \/ (/\ setup' \in Commands /\ setup'.step = "reverify" /\ setup'.server = setup.server
                             /\ setup'.bundle = setup.bundle)
    BY <2>1, GoingTo DEF Steps, End
  <2>4. SetupTypeOK'
    BY <1>0, <2>1, <2>2, <2>3 DEF SetupTypeOK
  <2>5. record # Missing => record.targets = {}
    BY <1>0, <2>1 DEF CommandInv
  <2>6. CopyInv'
    BY <1>0, <2>1, <2>5 DEF CopyInv, ManifestLeads, AgentsAreAdmitted
  <2>7. CommandInv'
    BY <1>0, <2>1, <2>3 DEF CommandInv
  <2>. QED BY <2>4, <2>6, <2>7 DEF SetupInv
<1>15. ASSUME VerifyAgain
       PROVE  SetupInv'
  <2>1. /\ setup # Missing /\ setup \in Commands /\ setup.step = "reverify"
        /\ UNCHANGED <<hosts, live, copyVars, issued>> /\ (End \/ GoTo("compile"))
    BY <1>15, <1>b DEF VerifyAgain, Ask
  <2>2. CASE End
    BY <2>1, <2>2, EndKeeps
  <2>3. CASE GoTo("compile")
    <3>1. /\ setup' \in Commands /\ setup'.step = "compile" /\ setup'.server = setup.server
          /\ setup'.bundle = setup.bundle
      BY <2>1, <2>3, GoingTo DEF Steps
    <3>2. CommandInv'
      BY <1>0, <2>1, <3>1 DEF CommandInv, copyVars
    <3>. QED BY <2>1, <3>1, <3>2, OnlyTheCommand
  <2>. QED BY <2>1, <2>2, <2>3
<1>16. ASSUME NEW o \in Outputs, Compile(o)
       PROVE  SetupInv'
  <2>1. /\ setup # Missing /\ setup \in Commands /\ setup.step = "compile"
        /\ UNCHANGED <<hosts, live, record, kept, config, guide, moved, issued>>
    BY <1>16, <1>b DEF Compile
  <2>2. CASE End /\ UNCHANGED outputs
    BY <2>1, <2>2, EndKeeps DEF copyVars
  <2>3. CASE /\ outputs' = [outputs EXCEPT ![o] = CompiledBy(setup.server)]
             /\ setup' = [setup EXCEPT !.wrote = o, !.step = "remember"]
    <3>1. setup.server \in Registries /\ hosts[setup.server].release \in Nat
      BY <1>c, <2>1 DEF Commands
    <3>2. /\ setup' \in Commands /\ setup'.step = "remember" /\ setup'.wrote = o
          /\ setup'.server = setup.server /\ setup'.bundle = setup.bundle
      BY <2>1, <2>3 DEF Commands, Steps
    <3>. DEFINE file == CompiledBy(setup.server)
    <3>3. /\ file \in Files /\ file.kind = "compiled" /\ file.of = setup.server
          /\ file.release = hosts[setup.server].release
      BY <3>1 DEF CompiledBy, Files
    <3>4. file # Missing
      BY <3>3, NotMissing
    <3>. HIDE DEF file
    <3>5. /\ outputs' \in [Outputs -> Files \cup {Missing}] /\ outputs'[o] = file
          /\ \A p \in Outputs : p # o => outputs'[p] = outputs[p]
      BY <1>0, <2>3, <3>3 DEF SetupTypeOK, file
    <3>6. SetupTypeOK'
      BY <1>0, <2>1, <3>2, <3>5 DEF SetupTypeOK
    <3>7. record # Missing => record.targets \subseteq Outputs /\ record.release <= hosts[record.registry].release
      BY <1>0 DEF SetupTypeOK, Records, CopyInv
    <3>8. Current(o)'
      BY <2>1, <3>1, <3>3, <3>4, <3>5, <3>7 DEF Current
    <3>9. \A p \in Outputs : Current(p) => Current(p)'
      BY <2>1, <3>5, <3>8 DEF Current
    <3>10. CopyInv'
      BY <1>0, <2>1, <3>7, <3>9 DEF CopyInv, ManifestLeads, AgentsAreAdmitted
    <3>11. CommandInv'
      BY <1>0, <2>1, <3>2, <3>8 DEF CommandInv
    <3>. QED BY <3>6, <3>10, <3>11 DEF SetupInv
  <2>. QED BY <1>16, <2>2, <2>3 DEF Compile
<1>17. ASSUME Remember
       PROVE  SetupInv'
  <2>1. /\ setup # Missing /\ setup \in Commands /\ setup.step = "remember"
        /\ UNCHANGED <<hosts, live, kept, config, guide, outputs, moved, issued>>
        /\ record' = IF record = Missing THEN Missing ELSE [record EXCEPT !.targets = @ \cup {setup.wrote}]
        /\ setup' = [setup EXCEPT !.left = @ \ {setup.wrote}, !.step = "compile"]
    BY <1>17, <1>b DEF Remember
  <2>2. setup.wrote \in Outputs /\ Current(setup.wrote)
    BY <1>0, <2>1 DEF CommandInv
  <2>3. /\ setup' \in Commands /\ setup'.step = "compile" /\ setup'.server = setup.server
        /\ setup'.bundle = setup.bundle
    BY <2>1 DEF Commands, Steps
  <2>4. ASSUME record # Missing
        PROVE  /\ record' \in Records /\ record'.registry = record.registry
               /\ record'.release = record.release /\ record'.targets = record.targets \cup {setup.wrote}
    BY <1>0, <2>1, <2>2, <2>4 DEF SetupTypeOK, Records
  <2>5. record' # Missing <=> record # Missing
    BY <2>1, <2>4, NotMissing
  <2>6. SetupTypeOK'
    BY <1>0, <2>1, <2>3, <2>4 DEF SetupTypeOK
  <2>7. \A o \in Outputs : Current(o)' <=> Current(o)
    BY <2>1, <2>4, <2>5 DEF Current
  <2>8. record # Missing => record.targets \subseteq Outputs
    BY <1>0 DEF SetupTypeOK, Records
  <2>9. CopyInv'
    BY <1>0, <2>1, <2>2, <2>4, <2>5, <2>7, <2>8 DEF CopyInv, ManifestLeads, AgentsAreAdmitted
  <2>10. CommandInv'
    BY <1>0, <2>1, <2>3 DEF CommandInv
  <2>. QED BY <2>6, <2>9, <2>10 DEF SetupInv
<1>18. ASSUME StopSetup
       PROVE  SetupInv'
  BY <1>18, EndKeeps DEF StopSetup
<1>19. ASSUME NEW r \in Registries, Release(r)
       PROVE  SetupInv'
  <2>1. /\ UNCHANGED <<setup, copyVars, issued, live>> /\ hosts' = [hosts EXCEPT ![r].release = @ + 1]
    BY <1>19 DEF Release, Event, Occurs
  <2>2. /\ hosts' \in [Registries -> [auth : BOOLEAN, enrolls : BOOLEAN, release : Nat]]
        /\ \A q \in Registries : hosts[q].release <= hosts'[q].release
    BY <1>0, <2>1 DEF SetupTypeOK
  <2>. QED BY <2>1, <2>2, EventKeeps
<1>20. ASSUME NEW r \in Registries, TurnAuth(r)
       PROVE  SetupInv'
  <2>. DEFINE turned == ~hosts[r].auth
  <2>0. turned \in BOOLEAN
    OBVIOUS
  <2>1. /\ UNCHANGED <<setup, copyVars, issued, live>> /\ hosts' = [hosts EXCEPT ![r].auth = turned]
    BY <1>20 DEF TurnAuth, Event, Occurs
  <2>. HIDE DEF turned
  <2>2. /\ hosts' \in [Registries -> [auth : BOOLEAN, enrolls : BOOLEAN, release : Nat]]
        /\ \A q \in Registries : hosts[q].release <= hosts'[q].release
    BY <1>0, <2>0, <2>1 DEF SetupTypeOK
  <2>. QED BY <2>1, <2>2, EventKeeps
<1>21. ASSUME NEW drawn, Revoke(drawn)
       PROVE  SetupInv'
  <2>1. UNCHANGED <<setup, copyVars, issued, hosts>> /\ live' \subseteq live
    BY <1>21 DEF Revoke, Event, Occurs
  <2>2. /\ hosts' \in [Registries -> [auth : BOOLEAN, enrolls : BOOLEAN, release : Nat]]
        /\ \A q \in Registries : hosts[q].release <= hosts'[q].release
    BY <1>0, <1>c, <2>1 DEF SetupTypeOK
  <2>. QED BY <2>1, <2>2, EventKeeps
<1>22. ASSUME LoseRecord
       PROVE  SetupInv'
  <2>1. /\ UNCHANGED <<setup, hosts, live, issued, kept, config, guide, outputs>>
        /\ record' = Missing /\ moved' = TRUE
    BY <1>22 DEF LoseRecord, Owner, Occurs
  <2>2. SetupTypeOK'
    BY <1>0, <2>1 DEF SetupTypeOK
  <2>3. CopyInv'
    BY <1>0, <2>1 DEF CopyInv, ManifestLeads, AgentsAreAdmitted
  <2>4. CommandInv'
    BY <1>0, <2>1 DEF CommandInv, Current
  <2>. QED BY <2>2, <2>3, <2>4 DEF SetupInv
<1>23. ASSUME LoseToken \/ LoseConfig
       PROVE  SetupInv'
  <2>1. /\ UNCHANGED <<setup, hosts, live, issued, record, guide, outputs, moved>>
        /\ kept' \in {kept, Missing} /\ config' \in {config, Missing}
    BY <1>23 DEF LoseToken, LoseConfig, Owner, Occurs
  <2>2. SetupTypeOK'
    BY <1>0, <2>1 DEF SetupTypeOK
  <2>3. CopyInv'
    BY <1>0, <2>1 DEF CopyInv, ManifestLeads, AgentsAreAdmitted, Current
  <2>4. CommandInv'
    BY <1>0, <2>1 DEF CommandInv, Current
  <2>. QED BY <2>2, <2>3, <2>4 DEF SetupInv
<1>24. ASSUME NEW o \in Outputs, WriteByHand(o)
       PROVE  SetupInv'
  <2>1. /\ UNCHANGED <<setup, hosts, live, issued, record, kept, config, guide, moved>>
        /\ outputs' = [outputs EXCEPT ![o] = HandWritten]
    BY <1>24 DEF WriteByHand, Owner, Occurs
  <2>2. HandWritten \in Files /\ HandWritten.kind = "hand" /\ HandWritten.of = Missing
    BY DEF HandWritten, Files
  <2>3. HandWritten # Missing /\ \A r \in Registries : r # Missing
    BY <2>2, NotMissing
  <2>4. /\ outputs' \in [Outputs -> Files \cup {Missing}] /\ outputs'[o] = HandWritten
        /\ \A p \in Outputs : p # o => outputs'[p] = outputs[p]
    BY <1>0, <2>1, <2>2 DEF SetupTypeOK
  <2>5. record # Missing => record.registry \in Registries /\ record.targets \subseteq Outputs
    BY <1>0 DEF SetupTypeOK, Records
  <2>6. \A p \in Outputs : Current(p) => Current(p)'
    BY <2>1, <2>2, <2>3, <2>4, <2>5 DEF Current
  <2>7. SetupTypeOK'
    BY <1>0, <2>1, <2>4 DEF SetupTypeOK
  <2>8. CopyInv'
    BY <1>0, <2>1, <2>5, <2>6 DEF CopyInv, ManifestLeads, AgentsAreAdmitted
  <2>9. CommandInv'
    BY <1>0, <2>1, <2>6 DEF CommandInv
  <2>. QED BY <2>7, <2>8, <2>9 DEF SetupInv
<1>25. CASE UNCHANGED setupVars
  BY <1>0, <1>25 DEF setupVars, SetupInv, SetupTypeOK, CopyInv, CommandInv, ManifestLeads, Current, AgentsAreAdmitted
<1>. QED BY <1>1, <1>2, <1>3, <1>4, <1>5, <1>6, <1>7, <1>8, <1>9, <1>10, <1>11, <1>12, <1>13, <1>14,
            <1>15, <1>16, <1>17, <1>18, <1>19, <1>20, <1>21, <1>22, <1>23, <1>24, <1>25 DEF SetupNext

LEMMA InitSetupInv == ASSUME SetupInit PROVE SetupInv
<1>1. SetupTypeOK
  BY DEF SetupInit, SetupTypeOK
<1>2. CopyInv /\ CommandInv
  BY DEF SetupInit, CopyInv, CommandInv, ManifestLeads, AgentsAreAdmitted
<1>. QED BY <1>1, <1>2 DEF SetupInv

LEMMA SetupInvIsSound == ASSUME SetupInv PROVE SetupIsSound
<1>1. OneRegistry
  BY DEF OneRegistry, SetupInv, CopyInv, ManifestLeads
<1>2. ListedFilesAreCurrent
  BY DEF ListedFilesAreCurrent, SetupInv, CopyInv, Current
<1>. QED BY <1>1, <1>2 DEF SetupIsSound, SetupInv, CopyInv

LEMMA SetupStaysSound == SetupSpec => []SetupIsSound
<1>1. SetupInv /\ [SetupNext]_setupVars => SetupInv'
  BY SetupStep
<1>. QED BY <1>1, InitSetupInv, SetupInvIsSound, PTL DEF SetupSpec

-----------------------------------------------------------------------------
(* States of working copies.                                               *)

Holdings == [SpecFiles -> CopyTexts]
Bases == [SpecFiles -> Contents]

\* A state on the server or in an answer is all a workspace had at one time.
IsSnapshot(i, state) ==
  \E base \in Bases, hold \in had[i] : state = [base |-> base, changes |-> Changes(base, hold)]

AreSnapshots(stored) ==
  /\ DOMAIN stored \subseteq WorkspaceIds
  /\ \A i \in DOMAIN stored : IsSnapshot(i, stored[i])

CopiesTyped ==
  /\ copies \in [Copies -> Holdings] /\ bases \in [Copies -> Bases]
  /\ ids \in [Copies -> WorkspaceIds \cup {NoWorkspace}]
  /\ incoming \in [Copies -> [WorkspaceIds -> Holdings]]
  /\ had \in [WorkspaceIds -> SUBSET Holdings]
  /\ started \in 0..MaxStates

\* What a command has read is of the copy it runs in, and what it fetched of the peers.
IsJob(row) ==
  /\ DOMAIN row = {"action", "id", "base", "held", "step", "peers"}
  /\ row.id \in WorkspaceIds /\ row.base \in Bases /\ row.held \in had[row.id]
  /\ AreSnapshots(row.peers)

JobsInv ==
  /\ DOMAIN jobs = Copies /\ jobs = [p \in Copies |-> jobs[p]]
  /\ \A p \in Copies : jobs[p] # Resting => IsJob(jobs[p])

\* Ids in use were used by a command, and each command uses one.
Used == {i \in WorkspaceIds : had[i] # {}}

IdsAreUsed ==
  /\ \A p \in Copies : ids[p] # NoWorkspace => ids[p] \in Used
  /\ Cardinality(Used) <= started

IncomingIsHad ==
  \A p \in Copies, i \in WorkspaceIds, f \in SpecFiles :
    incoming[p][i][f] # NoText => \E hold \in had[i] : hold[f] = incoming[p][i][f]

CleanIsClean ==
  \A c \in clean : \A f \in SpecFiles :
    Applied(c.theirs)[f] # c.theirs.base[f] => c.mine[f] = Applied(c.theirs)[f]

PeersInv ==
  /\ CopiesTyped
  /\ AreSnapshots(states) /\ JobsInv
  /\ IdsAreUsed /\ IncomingIsHad /\ CleanIsClean

LEMMA ChangesOf ==
  ASSUME NEW base \in Bases, NEW hold \in Holdings
  PROVE  /\ \A c \in Changes(base, hold) : c.file \in SpecFiles /\ c.text = hold[c.file]
         /\ \A f \in SpecFiles : hold[f] # base[f] =>
              /\ [file |-> f, text |-> hold[f], from |-> base[f]] \in Changes(base, hold)
              /\ [file |-> f, text |-> hold[f], from |-> base[f]].file = f
              /\ [file |-> f, text |-> hold[f], from |-> base[f]].text = hold[f]
         /\ \A f \in SpecFiles : hold[f] = base[f] => \A c \in Changes(base, hold) : c.file # f
BY DEF Changes

\* A snapshot is understood as the texts it was taken of.
LEMMA AppliedIsHeld ==
  ASSUME NEW base \in Bases, NEW hold \in Holdings, NEW state, state = [base |-> base, changes |-> Changes(base, hold)]
  PROVE  Applied(state) = hold
<1>1. state.base = base /\ state.changes = Changes(base, hold)
  OBVIOUS
<1>2. ASSUME NEW f \in SpecFiles
      PROVE  (IF \E c \in state.changes : c.file = f THEN (CHOOSE c \in state.changes : c.file = f).text
              ELSE state.base[f]) = hold[f]
  <2>1. CASE hold[f] = base[f]
    BY <1>1, <2>1, ChangesOf
  <2>2. CASE hold[f] # base[f]
    <3>0. PICK d \in Changes(base, hold) : d.file = f
      BY <2>2, ChangesOf
    <3>1. \E c \in state.changes : c.file = f
      BY <1>1, <3>0
    <3>. DEFINE it == CHOOSE c \in state.changes : c.file = f
    <3>2. it \in state.changes /\ it.file = f
      BY <3>1
    <3>3. it.text = hold[f]
      BY <1>1, <3>2, ChangesOf
    <3>. QED BY <3>1, <3>3
  <2>. QED BY <2>1, <2>2
<1>3. Applied(state) = [f \in SpecFiles |-> hold[f]]
  BY <1>2 DEF Applied
<1>. QED BY <1>3 DEF Holdings

\* Snapshots stay such, because nothing that a workspace had is forgotten.
LEMMA SnapshotsStay ==
  ASSUME NEW stored, AreSnapshots(stored), \A i \in WorkspaceIds : had[i] \subseteq had'[i]
  PROVE  /\ DOMAIN stored \subseteq WorkspaceIds
         /\ \A i \in DOMAIN stored : \E base \in Bases, hold \in had'[i] :
              stored[i] = [base |-> base, changes |-> Changes(base, hold)]
BY DEF AreSnapshots, IsSnapshot

LEMMA AFreshId ==
  ASSUME PeersAssumption, PeersInv, started < MaxStates
  PROVE  \E i \in WorkspaceIds \ DOMAIN states : had[i] = {} /\ ~Drawn(i)
<1>1. Used # WorkspaceIds
  <2>1. Cardinality(Used) <= started /\ started \in 0..MaxStates
    BY DEF PeersInv, CopiesTyped, IdsAreUsed
  <2>2. Cardinality(WorkspaceIds) \in Nat /\ MaxStates \in Nat /\ MaxStates <= Cardinality(WorkspaceIds)
    BY FS_CardinalityType DEF PeersAssumption
  <2>. QED BY <2>1, <2>2
<1>2. PICK i \in WorkspaceIds : had[i] = {}
  BY <1>1 DEF Used
<1>3. i \notin DOMAIN states
  BY <1>2 DEF PeersInv, AreSnapshots, IsSnapshot
<1>4. \A p \in Copies : ids[p] # i
  BY <1>2 DEF PeersInv, IdsAreUsed, Used, PeersAssumption
<1>5. \A p \in Copies : jobs[p] # Resting => jobs[p].id # i
  BY <1>2 DEF PeersInv, JobsInv, IsJob
<1>. QED BY <1>2, <1>3, <1>4, <1>5 DEF Drawn

LEMMA JobBecomes ==
  ASSUME JobsInv, UNCHANGED had, NEW p \in Copies, NEW row, row # Resting => IsJob(row),
         jobs' = [jobs EXCEPT ![p] = row]
  PROVE  JobsInv'
<1>1. jobs'[p] = row /\ \A q \in Copies : q # p => jobs'[q] = jobs[q]
  BY DEF JobsInv
<1>2. DOMAIN jobs' = Copies /\ jobs' = [q \in Copies |-> jobs'[q]]
  BY DEF JobsInv
<1>3. ASSUME NEW q \in Copies, jobs'[q] # Resting
      PROVE  IsJob(jobs[q])'
  <2>1. PICK it : it = jobs'[q]
    OBVIOUS
  <2>2. IsJob(it)
    BY <1>1, <1>3, <2>1 DEF JobsInv
  <2>. QED BY <2>1, <2>2 DEF IsJob, AreSnapshots, IsSnapshot
<1>. QED BY <1>2, <1>3 DEF JobsInv

LEMMA JobSteps ==
  ASSUME JobsInv, UNCHANGED had, NEW p \in Copies, jobs[p] # Resting, NEW step,
         jobs' = [jobs EXCEPT ![p].step = step]
  PROVE  JobsInv'
<1>. DEFINE row == [jobs[p] EXCEPT !.step = step]
<1>1. IsJob(jobs[p]) /\ jobs' = [jobs EXCEPT ![p] = row]
  BY DEF JobsInv
<1>2. /\ DOMAIN row = DOMAIN jobs[p] /\ row.id = jobs[p].id /\ row.base = jobs[p].base
      /\ row.held = jobs[p].held /\ row.peers = jobs[p].peers
  BY <1>1 DEF IsJob
<1>3. IsJob(row)
  BY <1>1, <1>2 DEF IsJob
<1>. HIDE DEF row
<1>. QED BY <1>1, <1>3, JobBecomes

\* A command that ends leaves everything else as it is.
LEMMA OthersStay ==
  ASSUME PeersInv, UNCHANGED <<copies, bases, ids, incoming, had, clean, started>>, AreSnapshots(states)', JobsInv'
  PROVE  PeersInv'
<1>1. CopiesTyped'
  BY DEF PeersInv, CopiesTyped
<1>2. IdsAreUsed' /\ IncomingIsHad' /\ CleanIsClean'
  BY DEF PeersInv, IdsAreUsed, Used, IncomingIsHad, CleanIsClean, Applied
<1>. QED BY <1>1, <1>2 DEF PeersInv

LEMMA EditKeepsPeers ==
  ASSUME PeersInv, UNCHANGED <<ids, states, incoming, jobs, had, clean, started>>,
         copies' \in [Copies -> Holdings], bases' \in [Copies -> Bases]
  PROVE  PeersInv'
<1>1. CopiesTyped'
  BY DEF PeersInv, CopiesTyped
<1>2. AreSnapshots(states)'
  BY DEF PeersInv, AreSnapshots, IsSnapshot
<1>3. JobsInv'
  BY DEF PeersInv, JobsInv, IsJob, AreSnapshots, IsSnapshot
<1>4. IdsAreUsed' /\ IncomingIsHad' /\ CleanIsClean'
  BY DEF PeersInv, IdsAreUsed, Used, IncomingIsHad, CleanIsClean, Applied
<1>. QED BY <1>1, <1>2, <1>3, <1>4 DEF PeersInv

LEMMA StartKeepsPeers ==
  ASSUME PeersAssumption, PeersInv, NEW p \in Copies, NEW action, StartState(p, action)
  PROVE  PeersInv'
<1>0. /\ CopiesTyped /\ AreSnapshots(states) /\ JobsInv /\ IdsAreUsed /\ IncomingIsHad /\ CleanIsClean
      /\ started < MaxStates /\ started' = started + 1
      /\ UNCHANGED <<copies, bases, ids, states, incoming, clean>>
  BY DEF PeersInv, StartState
<1>1. PICK i : i = WorkspaceId(p)
  OBVIOUS
<1>2. i \in WorkspaceIds
  <2>1. CASE ids[p] # NoWorkspace
    BY <1>0, <1>1, <2>1 DEF WorkspaceId, CopiesTyped
  <2>2. CASE ids[p] = NoWorkspace
    <3>1. i = CHOOSE j \in WorkspaceIds \ DOMAIN states : had[j] = {} /\ ~Drawn(j)
      BY <1>1, <2>2 DEF WorkspaceId
    <3>. QED BY <1>0, <3>1, AFreshId
  <2>. QED BY <2>1, <2>2
<1>. DEFINE row == [action |-> action, id |-> i, base |-> bases[p], held |-> copies[p],
                    step |-> IF action \in {"push", "sync"} THEN "report" ELSE "fetch", peers |-> <<>>]
<1>3. jobs' = [jobs EXCEPT ![p] = row] /\ had' = [had EXCEPT ![i] = @ \cup {copies[p]}]
  BY <1>1 DEF StartState
<1>4. /\ had' \in [WorkspaceIds -> SUBSET Holdings] /\ copies[p] \in had'[i]
      /\ \A j \in WorkspaceIds : had[j] \subseteq had'[j]
      /\ \A j \in WorkspaceIds : j # i => had'[j] = had[j]
  BY <1>0, <1>2, <1>3 DEF CopiesTyped
<1>5. CopiesTyped'
  BY <1>0, <1>4 DEF CopiesTyped, PeersAssumption
<1>6. AreSnapshots(states)'
  BY <1>0, <1>4, SnapshotsStay DEF AreSnapshots, IsSnapshot
<1>7. JobsInv'
  <2>1. /\ DOMAIN row = {"action", "id", "base", "held", "step", "peers"}
        /\ row.id = i /\ row.base = bases[p] /\ row.held = copies[p] /\ row.peers = <<>>
    OBVIOUS
  <2>. HIDE DEF row
  <2>2. DOMAIN <<>> = {}
    OBVIOUS
  <2>3. /\ bases[p] \in Bases
        /\ \A q \in Copies : jobs'[q] = IF q = p THEN row ELSE jobs[q]
        /\ DOMAIN jobs' = Copies /\ jobs' = [q \in Copies |-> jobs'[q]]
    BY <1>0, <1>3 DEF CopiesTyped, JobsInv
  <2>4. ASSUME NEW q \in Copies, jobs'[q] # Resting
        PROVE  IsJob(jobs[q])'
    <3>1. CASE q = p
      BY <1>2, <1>4, <2>1, <2>2, <2>3, <3>1 DEF IsJob, AreSnapshots
    <3>2. CASE q # p
      <4>1. jobs'[q] = jobs[q] /\ IsJob(jobs[q])
        BY <1>0, <2>3, <2>4, <3>2 DEF JobsInv
      <4>2. PICK stored : stored = jobs[q].peers
        OBVIOUS
      <4>3. AreSnapshots(stored)
        BY <4>1, <4>2 DEF IsJob
      <4>4. AreSnapshots(stored)'
        BY <1>4, <4>3, SnapshotsStay DEF AreSnapshots, IsSnapshot
      <4>. QED BY <1>4, <4>1, <4>2, <4>4 DEF IsJob
    <3>. QED BY <3>1, <3>2
  <2>. QED BY <2>3, <2>4 DEF JobsInv
<1>8. IdsAreUsed'
  <2>1. Used' \subseteq Used \cup {i} /\ Used \subseteq Used'
    BY <1>4 DEF Used
  <2>2. IsFiniteSet(Used)
    BY FS_Subset DEF Used, PeersAssumption
  <2>3. IsFiniteSet(Used \cup {i}) /\ Cardinality(Used \cup {i}) <= Cardinality(Used) + 1
    <3>1. PICK U : U = Used
      OBVIOUS
    <3>2. /\ IsFiniteSet(U \cup {i})
          /\ Cardinality(U \cup {i}) = IF i \in U THEN Cardinality(U) ELSE Cardinality(U) + 1
      BY <2>2, <3>1, FS_AddElement
    <3>3. Cardinality(U) \in Nat
      BY <2>2, <3>1, FS_CardinalityType
    <3>. QED BY <3>1, <3>2, <3>3
  <2>4. Cardinality(Used') <= Cardinality(Used \cup {i}) /\ Cardinality(Used') \in Nat
    BY <2>1, <2>3, FS_Subset, FS_CardinalityType
  <2>5. Cardinality(Used') <= started'
    BY <1>0, <2>2, <2>3, <2>4, FS_CardinalityType DEF IdsAreUsed, CopiesTyped
  <2>. QED BY <1>0, <2>1, <2>5 DEF IdsAreUsed
<1>9. IncomingIsHad' /\ CleanIsClean'
  BY <1>0, <1>4 DEF IncomingIsHad, CleanIsClean, Applied
<1>. QED BY <1>5, <1>6, <1>7, <1>8, <1>9 DEF PeersInv

LEMMA UploadKeepsPeers ==
  ASSUME PeersInv, NEW p \in Copies, Upload(p)
  PROVE  PeersInv'
<1>0. /\ AreSnapshots(states) /\ JobsInv /\ jobs[p] # Resting
      /\ jobs' = [jobs EXCEPT ![p].step = "keep"]
      /\ UNCHANGED <<copies, bases, ids, incoming, had, clean, started>>
  BY DEF PeersInv, Upload, At
<1>1. PICK i, row : i = jobs[p].id /\ row = [base |-> jobs[p].base, changes |-> Changes(jobs[p].base, jobs[p].held)]
  OBVIOUS
<1>2. i \in WorkspaceIds /\ IsSnapshot(i, row)
  BY <1>0, <1>1 DEF JobsInv, IsJob, IsSnapshot
<1>3. states' = [j \in DOMAIN states \cup {i} |-> IF j = i THEN row ELSE states[j]]
  BY <1>1 DEF Upload
<1>4. /\ DOMAIN states' = DOMAIN states \cup {i}
      /\ \A j \in DOMAIN states' : states'[j] = IF j = i THEN row ELSE states[j]
  BY <1>3
<1>5. AreSnapshots(states)'
  BY <1>0, <1>2, <1>4 DEF AreSnapshots, IsSnapshot
<1>6. JobsInv'
  BY <1>0, JobSteps
<1>. QED BY <1>0, <1>5, <1>6, OthersStay

LEMMA FetchKeepsPeers ==
  ASSUME PeersInv, NEW p \in Copies, FetchPeers(p)
  PROVE  PeersInv'
<1>0. /\ AreSnapshots(states) /\ JobsInv /\ jobs[p] # Resting
      /\ UNCHANGED <<copies, bases, ids, states, incoming, had, clean, started>>
  BY DEF PeersInv, FetchPeers, At
<1>1. PICK peers : peers = Peers(jobs[p].id)
  OBVIOUS
<1>2. AreSnapshots(peers)
  BY <1>0, <1>1 DEF AreSnapshots, IsSnapshot, Peers
<1>. DEFINE row == [jobs[p] EXCEPT !.step = "compare", !.peers = peers]
<1>3. IsJob(jobs[p]) /\ jobs' = [jobs EXCEPT ![p] = row]
  BY <1>0, <1>1 DEF JobsInv, FetchPeers
<1>4. /\ DOMAIN row = DOMAIN jobs[p] /\ row.id = jobs[p].id /\ row.base = jobs[p].base
      /\ row.held = jobs[p].held /\ row.peers = peers
  BY <1>3 DEF IsJob
<1>5. IsJob(row)
  BY <1>2, <1>3, <1>4 DEF IsJob
<1>. HIDE DEF row
<1>6. JobsInv'
  BY <1>0, <1>3, <1>5, JobBecomes
<1>7. AreSnapshots(states)'
  BY <1>0 DEF AreSnapshots, IsSnapshot
<1>. QED BY <1>0, <1>6, <1>7, OthersStay

\* The texts a snapshot brings are its workspace's.
LEMMA BroughtIsHad ==
  ASSUME NEW peers, had \in [WorkspaceIds -> SUBSET Holdings], AreSnapshots(peers), NEW i \in DOMAIN peers
  PROVE  \E hold \in had[i] :
           /\ \A c \in peers[i].changes : c.file \in SpecFiles /\ c.text = hold[c.file]
           /\ Applied(peers[i]) = hold
<1>1. PICK base \in Bases, hold \in had[i] : peers[i] = [base |-> base, changes |-> Changes(base, hold)]
  BY DEF AreSnapshots, IsSnapshot
<1>2. hold \in Holdings
  BY <1>1 DEF AreSnapshots
<1>3. Applied(peers[i]) = hold
  BY <1>1, <1>2, AppliedIsHeld
<1>. QED BY <1>1, <1>2, <1>3, ChangesOf

LEMMA CompareKeepsPeers ==
  ASSUME PeersAssumption, PeersInv, NEW p \in Copies, Compare(p)
  PROVE  PeersInv'
<1>0. /\ CopiesTyped /\ AreSnapshots(states) /\ JobsInv /\ IdsAreUsed /\ IncomingIsHad /\ CleanIsClean
      /\ jobs[p] # Resting /\ jobs' = [jobs EXCEPT ![p] = Resting]
      /\ UNCHANGED <<copies, bases, ids, states, had, started>>
  BY DEF PeersInv, Compare, At
<1>1. PICK peers : peers = jobs[p].peers
  OBVIOUS
<1>2. AreSnapshots(peers) /\ had \in [WorkspaceIds -> SUBSET Holdings]
  BY <1>0, <1>1 DEF JobsInv, IsJob, CopiesTyped
<1>3. JobsInv' /\ AreSnapshots(states)'
  BY <1>0, JobBecomes DEF AreSnapshots, IsSnapshot
<1>4. IdsAreUsed'
  BY <1>0 DEF IdsAreUsed, Used
<1>5. ASSUME NEW i \in WorkspaceIds, NEW f \in SpecFiles
      PROVE  /\ WriteIncoming(p, peers)[i][f] \in CopyTexts
             /\ WriteIncoming(p, peers)[i][f] # NoText =>
                  \E hold \in had[i] : hold[f] = WriteIncoming(p, peers)[i][f]
  <2>. DEFINE brought == IF i \in DOMAIN peers THEN {c \in Relevant(p, peers[i]) : c.text # NoText} ELSE {}
  <2>1. WriteIncoming(p, peers)[i][f] =
          IF \E c \in brought : c.file = f THEN (CHOOSE c \in brought : c.file = f).text ELSE incoming[p][i][f]
    BY DEF WriteIncoming
  <2>2. CASE \E c \in brought : c.file = f
    <3>. DEFINE it == CHOOSE c \in brought : c.file = f
    <3>1. it \in brought /\ it.file = f
      BY <2>2
    <3>2. i \in DOMAIN peers /\ it \in peers[i].changes
      BY <3>1 DEF Relevant
    <3>3. PICK hold \in had[i] : \A c \in peers[i].changes : c.file \in SpecFiles /\ c.text = hold[c.file]
      BY <1>2, <3>2, BroughtIsHad
    <3>4. it.text = hold[f] /\ hold \in Holdings
      BY <1>2, <3>1, <3>2, <3>3
    <3>. QED BY <2>1, <2>2, <3>4 DEF Holdings
  <2>3. CASE ~\E c \in brought : c.file = f
    BY <1>0, <2>1, <2>3 DEF CopiesTyped, IncomingIsHad, Holdings
  <2>. QED BY <2>2, <2>3
<1>6. WriteIncoming(p, peers) \in [WorkspaceIds -> Holdings]
  <2>. DEFINE w == WriteIncoming(p, peers)
  <2>1. w = [i \in WorkspaceIds |-> w[i]] /\ \A i \in WorkspaceIds : w[i] = [f \in SpecFiles |-> w[i][f]]
    BY DEF WriteIncoming
  <2>2. \A i \in WorkspaceIds : \A f \in SpecFiles : w[i][f] \in CopyTexts
    BY <1>5
  <2>. HIDE DEF w
  <2>3. w \in [WorkspaceIds -> Holdings]
    BY <2>1, <2>2 DEF Holdings
  <2>. QED BY <2>3 DEF w
<1>7. incoming' = incoming \/ incoming' = [incoming EXCEPT ![p] = WriteIncoming(p, peers)]
  BY <1>1 DEF Compare
<1>8. incoming' \in [Copies -> [WorkspaceIds -> Holdings]] /\ IncomingIsHad'
  <2>1. CASE incoming' = incoming
    BY <1>0, <2>1 DEF CopiesTyped, IncomingIsHad
  <2>2. CASE incoming' = [incoming EXCEPT ![p] = WriteIncoming(p, peers)]
    <3>1. PICK w : w = WriteIncoming(p, peers)
      OBVIOUS
    <3>2. /\ incoming' \in [Copies -> [WorkspaceIds -> Holdings]]
          /\ incoming'[p] = w /\ \A q \in Copies : q # p => incoming'[q] = incoming[q]
      BY <1>0, <1>6, <2>2, <3>1 DEF CopiesTyped
    <3>. QED BY <1>0, <1>5, <3>1, <3>2 DEF IncomingIsHad
  <2>. QED BY <1>7, <2>1, <2>2
<1>9. CopiesTyped'
  BY <1>0, <1>8 DEF CopiesTyped
<1>10. CleanIsClean'
  <2>1. ASSUME NEW i \in DOMAIN peers, Relevant(p, peers[i]) = {}, NEW f \in SpecFiles,
               Applied(peers[i])[f] # peers[i].base[f]
        PROVE  copies[p][f] = Applied(peers[i])[f]
    <3>1. PICK hold \in had[i] : /\ \A c \in peers[i].changes : c.file \in SpecFiles /\ c.text = hold[c.file]
                                 /\ Applied(peers[i]) = hold
      BY <1>2, BroughtIsHad
    <3>2. PICK c \in peers[i].changes : c.file = f
      BY <2>1 DEF Applied
    <3>3. c.text = LocalText(p, f) /\ c.text = hold[f]
      BY <2>1, <3>1, <3>2 DEF Relevant
    <3>4. bases[p][f] # NoText
      BY <1>0 DEF CopiesTyped, Bases, PeersAssumption
    <3>. QED BY <3>1, <3>3, <3>4 DEF LocalText
  <2>2. clean' = clean \/ (/\ \A i \in DOMAIN peers : Relevant(p, peers[i]) = {}
                           /\ clean' = clean \cup {[mine |-> copies[p], theirs |-> peers[i]] : i \in DOMAIN peers})
    BY <1>1 DEF Compare
  <2>3. SUFFICES ASSUME NEW c \in clean', NEW f \in SpecFiles, Applied(c.theirs)[f] # c.theirs.base[f]
                 PROVE  c.mine[f] = Applied(c.theirs)[f]
    BY DEF CleanIsClean, Applied
  <2>4. CASE c \in clean
    BY <1>0, <2>3, <2>4 DEF CleanIsClean
  <2>5. CASE c \notin clean
    <3>1. PICK i \in DOMAIN peers : c = [mine |-> copies[p], theirs |-> peers[i]] /\ Relevant(p, peers[i]) = {}
      BY <2>2, <2>5
    <3>2. c.mine = copies[p] /\ c.theirs = peers[i]
      BY <3>1
    <3>. QED BY <2>1, <2>3, <3>1, <3>2
  <2>. QED BY <2>4, <2>5
<1>. QED BY <1>3, <1>4, <1>8, <1>9, <1>10 DEF PeersInv

LEMMA PeersStep ==
  ASSUME PeersAssumption, PeersInv, [PeersNext]_peerVars
  PROVE  PeersInv'
<1>0. /\ CopiesTyped /\ AreSnapshots(states) /\ JobsInv /\ IdsAreUsed /\ IncomingIsHad /\ CleanIsClean
  BY DEF PeersInv
<1>1. ASSUME NEW p \in Copies, NEW f \in SpecFiles, NEW text \in CopyTexts, EditCopy(p, f, text)
      PROVE  PeersInv'
  <2>1. /\ UNCHANGED <<ids, states, incoming, jobs, had, clean, started, bases>>
        /\ copies' = [copies EXCEPT ![p][f] = text]
    BY <1>1 DEF EditCopy, Changing
  <2>2. copies' \in [Copies -> Holdings] /\ bases' \in [Copies -> Bases]
    BY <1>0, <2>1 DEF CopiesTyped, Holdings
  <2>. QED BY <2>1, <2>2, EditKeepsPeers
<1>2. ASSUME NEW p \in Copies, NEW f \in SpecFiles, NEW text \in Contents, Renew(p, f, text)
      PROVE  PeersInv'
  <2>1. /\ UNCHANGED <<ids, states, incoming, jobs, had, clean, started>>
        /\ copies' = [copies EXCEPT ![p][f] = text] /\ bases' = [bases EXCEPT ![p][f] = text]
    BY <1>2 DEF Renew, Changing
  <2>2. copies' \in [Copies -> Holdings]
    BY <1>0, <2>1 DEF CopiesTyped, Holdings, CopyTexts
  <2>3. bases' \in [Copies -> Bases]
    BY <1>0, <2>1 DEF CopiesTyped, Bases
  <2>. QED BY <2>1, <2>2, <2>3, EditKeepsPeers
<1>3. ASSUME NEW p \in Copies, NEW action \in {"push", "check", "pull", "sync"}, StartState(p, action)
      PROVE  PeersInv'
  BY <1>3, StartKeepsPeers
<1>4. ASSUME NEW p \in Copies, ReportState(p)
      PROVE  PeersInv'
  <2>1. /\ jobs[p] # Resting /\ jobs' = [jobs EXCEPT ![p].step = "upload"] /\ states' = <<>>
        /\ UNCHANGED <<copies, bases, ids, incoming, had, clean, started>>
    BY <1>4 DEF ReportState, At
  <2>2. AreSnapshots(states)'
    BY <2>1 DEF AreSnapshots
  <2>. QED BY <1>0, <2>1, <2>2, JobSteps, OthersStay
<1>5. ASSUME NEW p \in Copies, KeepId(p)
      PROVE  PeersInv'
  <2>1. /\ jobs[p] # Resting /\ UNCHANGED <<copies, bases, states, incoming, had, clean, started>>
        /\ ids' = [ids EXCEPT ![p] = jobs[p].id]
        /\ jobs' = [jobs EXCEPT ![p] = IF jobs[p].action = "push" THEN Resting ELSE [jobs[p] EXCEPT !.step = "fetch"]]
    BY <1>0, <1>5 DEF KeepId, At, JobsInv
  <2>2. JobsInv'
    <3>1. CASE jobs' = [jobs EXCEPT ![p] = Resting]
      BY <1>0, <2>1, <3>1, JobBecomes
    <3>2. CASE jobs' = [jobs EXCEPT ![p].step = "fetch"]
      BY <1>0, <2>1, <3>2, JobSteps
    <3>. QED BY <2>1, <3>1, <3>2
  <2>3. jobs[p].id \in WorkspaceIds /\ jobs[p].id \in Used
    BY <1>0, <2>1 DEF JobsInv, IsJob, Used
  <2>4. CopiesTyped'
    BY <1>0, <2>1, <2>3 DEF CopiesTyped
  <2>5. IdsAreUsed'
    BY <1>0, <2>1, <2>3 DEF IdsAreUsed, Used, CopiesTyped
  <2>6. AreSnapshots(states)' /\ IncomingIsHad' /\ CleanIsClean'
    BY <1>0, <2>1 DEF AreSnapshots, IsSnapshot, IncomingIsHad, CleanIsClean, Applied
  <2>. QED BY <2>2, <2>4, <2>5, <2>6 DEF PeersInv
<1>6. ASSUME NEW p \in Copies, StopState(p)
      PROVE  PeersInv'
  <2>1. /\ jobs' = [jobs EXCEPT ![p] = Resting]
        /\ UNCHANGED <<copies, bases, ids, states, incoming, had, clean, started>>
    BY <1>6 DEF StopState
  <2>2. AreSnapshots(states)'
    BY <1>0, <2>1 DEF AreSnapshots, IsSnapshot
  <2>. QED BY <1>0, <2>1, <2>2, JobBecomes, OthersStay
<1>7. CASE UNCHANGED peerVars
  <2>1. copies' \in [Copies -> Holdings] /\ bases' \in [Copies -> Bases]
    BY <1>0, <1>7 DEF peerVars, CopiesTyped
  <2>. QED BY <1>7, <2>1, EditKeepsPeers DEF peerVars
<1>. QED BY <1>1, <1>2, <1>3, <1>4, <1>5, <1>6, <1>7, UploadKeepsPeers, FetchKeepsPeers, CompareKeepsPeers
        DEF PeersNext

LEMMA InitPeersInv == ASSUME PeersAssumption, PeersInit PROVE PeersInv
<1>. DEFINE first == [f \in SpecFiles |-> CHOOSE c \in Contents : TRUE]
<1>1. first \in Holdings /\ first \in Bases
  BY DEF Holdings, Bases, CopyTexts, PeersAssumption
<1>. HIDE DEF first
<1>2. /\ copies = [p \in Copies |-> first] /\ bases = copies /\ ids = [p \in Copies |-> NoWorkspace]
      /\ states = <<>> /\ jobs = [p \in Copies |-> Resting] /\ had = [i \in WorkspaceIds |-> {}]
      /\ incoming = [p \in Copies |-> [i \in WorkspaceIds |-> [f \in SpecFiles |-> NoText]]]
      /\ clean = {} /\ started = 0
  BY DEF PeersInit, first
<1>3. CopiesTyped
  BY <1>1, <1>2 DEF CopiesTyped, Holdings, CopyTexts, PeersAssumption
<1>4. AreSnapshots(states) /\ JobsInv
  BY <1>2 DEF AreSnapshots, JobsInv
<1>5. Used = {}
  BY <1>2 DEF Used
<1>6. IdsAreUsed
  BY <1>2, <1>5, FS_EmptySet DEF IdsAreUsed
<1>7. IncomingIsHad /\ CleanIsClean
  BY <1>2 DEF IncomingIsHad, CleanIsClean
<1>. QED BY <1>3, <1>4, <1>6, <1>7 DEF PeersInv

LEMMA PeersInvIsSound == ASSUME PeersInv PROVE PeerStatesAreSnapshots
<1>1. ASSUME NEW i \in DOMAIN states
      PROVE  Applied(states[i]) \in had[i]
  <2>1. had \in [WorkspaceIds -> SUBSET Holdings] /\ AreSnapshots(states)
    BY DEF PeersInv, CopiesTyped
  <2>. QED BY <2>1, BroughtIsHad
<1>. QED BY <1>1 DEF PeerStatesAreSnapshots, PeersInv, IncomingIsHad, CleanIsClean

(***************************************************************************)
(* What commands leave in working copies is sound.  A state on the server  *)
(* is all its workspace had at one time, although the copy was edited      *)
(* while the command ran, and "no differing changes" is true.  The         *)
(* manifest, .mcp.json and the guide name one registry, what the manifest  *)
(* lists as compiled is not older than it, and a token that agents are     *)
(* handed is of the registry they are sent to, and there if a command that *)
(* named its type found it required, wherever commands were refused or     *)
(* killed (cli/src/agentState.ts, init.ts, credentials.ts, compile.ts).    *)
(***************************************************************************)
THEOREM WorkingCopiesStaySound == SetupSpec /\ PeersSpec => []WorkingCopiesAreSound
<1>1. PeersInv /\ [PeersNext]_peerVars => PeersInv'
  BY PeersAssumption, PeersStep
<1>2. PeersInit => PeersInv
  BY PeersAssumption, InitPeersInv
<1>3. PeersInv => PeerStatesAreSnapshots
  BY PeersInvIsSound
<1>4. SetupInv /\ [SetupNext]_setupVars => SetupInv'
  BY SetupStep
<1>5. SetupInit => SetupInv
  BY InitSetupInv
<1>6. SetupInv => SetupIsSound
  BY SetupInvIsSound
<1>7. PeerStatesAreSnapshots /\ SetupIsSound => WorkingCopiesAreSound
  BY DEF WorkingCopiesAreSound
<1>. QED BY <1>1, <1>2, <1>3, <1>4, <1>5, <1>6, <1>7, PTL DEF PeersSpec, SetupSpec

(***************************************************************************)
(* Settings.                                                               *)
(***************************************************************************)

\* What people entered for a secret last is stored, readable or not; for the base it may be
\* the key of the standard tier.
Told(n) ==
  entered[n] # Blank =>
    IF n = Base /\ mirrored THEN Stored(n) = Stored(Tier("standard")) /\ Stored(n) # Blank
    ELSE Stored(n) = entered[n]

\* A configuration that names a provider's own model, or one of an environment's; only the
\* frontier tier names it of another provider than the environment's.
Suits(c, frontier) ==
  c.model # c.provider => c.model \in named /\ (frontier \/ c.provider = EnvProvider)

\* What was chosen for a tier fits in this way.
ChoicesFit == \A c \in Tiers \cup {"base"} : choices[c] # Unset => Suits(choices[c], c = "frontier")

SettingsTyped ==
  /\ DOMAIN secrets = SecretNames /\ DOMAIN entered = SecretNames
  /\ DOMAIN choices = Tiers \cup {"base"}
  /\ routes \in [LlmRoutes -> Tiers \cup {Unset}] /\ hostname \in Hosts
  /\ mirrored \in BOOLEAN /\ NamedBy(env.models) \subseteq named

SettingsInv ==
  /\ SettingsTyped
  /\ \A n \in SecretNames : Told(n)
  /\ ChoicesFit

LEMMA KeptIsEntered ==
  ASSUME NEW field, NEW current, NEW last, last # Blank => current = last,
         NEW now, now = IF field = Clear THEN Blank ELSE Or(field, last), now # Blank
  PROVE  Kept(field, current) = now
BY DEF Kept, Or

LEMMA NamesDiffer ==
  /\ \A a \in AppKeys : App(a) \in SecretNames /\ App(a)[1] = "app" /\ App(a)[2] = a
  /\ \A p \in Providers : Provider(p) \in SecretNames /\ Provider(p)[1] = "provider" /\ Provider(p)[2] = p
  /\ \A t \in Tiers : Tier(t) \in SecretNames /\ Tier(t)[1] = "tier" /\ Tier(t)[2] = t /\ Tier(t) # Base
  /\ Base \in SecretNames /\ Base[1] = "llm" /\ Ldap \in SecretNames /\ EmbeddingKey \in SecretNames
  /\ Ldap[1] = "ldap" /\ EmbeddingKey[1] = "embedding"
BY DEF SecretNames, App, Provider, Tier, Base, Ldap, EmbeddingKey

LEMMA ConfigsMatch ==
  ASSUME SettingsInv
  PROVE  /\ Suits(BaseConfig, FALSE)
         /\ \A t \in Tiers : /\ Suits(TierConfig(t), t = "frontier")
                            /\ Base \in TierConfig(t).reads /\ Tier(t) \in TierConfig(t).reads
         /\ Base \in BaseConfig.reads
<1>1. PICK models : models = env.models
  OBVIOUS
<1>2. NamedBy(models) \subseteq named
  BY <1>1 DEF SettingsInv, SettingsTyped
<1>3. /\ models.main # Unset => models.main \in named
      /\ models.vendor # Unset => models.vendor \in named
      /\ models.frontier # Unset => models.frontier \in named
  BY <1>2 DEF NamedBy
<1>4. PICK chosen : chosen = choices["base"]
  OBVIOUS
<1>5. chosen # Unset => Suits(chosen, FALSE)
  BY <1>4 DEF SettingsInv, ChoicesFit
<1>6. Suits(BaseConfig, FALSE) /\ Base \in BaseConfig.reads
  BY <1>1, <1>3, <1>4, <1>5 DEF Suits, BaseConfig, First
<1>7. PICK base : base = BaseConfig
  OBVIOUS
<1>8. ASSUME NEW t \in Tiers
      PROVE  Suits(Fallback(t), t = "frontier") /\ Fallback(t).reads = base.reads
  <2>1. /\ base = [provider |-> base.provider, model |-> base.model, key |-> base.key, reads |-> base.reads]
        /\ Suits(base, FALSE)
    BY <1>6, <1>7 DEF BaseConfig
  <2>2. CASE t = "cheap" /\ env.local
    <3>1. Fallback(t) = [base EXCEPT !.provider = LocalProvider, !.model = LocalProvider, !.key = LocalSecret]
      BY <1>7, <2>2 DEF Fallback
    <3>. QED BY <2>1, <3>1 DEF Suits
  <2>3. CASE t = "frontier"
    <3>1. PICK model : model = First(models.frontier, First(models.vendor, base.model))
      OBVIOUS
    <3>2. Fallback(t) = [base EXCEPT !.model = model]
      BY <1>1, <1>7, <2>3, <3>1 DEF Fallback
    <3>3. model = base.model \/ model \in named
      BY <1>3, <3>1 DEF First
    <3>. QED BY <2>1, <2>3, <3>2, <3>3 DEF Suits
  <2>4. CASE t # "frontier" /\ ~ (t = "cheap" /\ env.local)
    <3>1. Fallback(t) = base
      BY <1>7, <2>4 DEF Fallback
    <3>. QED BY <2>1, <2>4, <3>1 DEF Suits
  <2>. QED BY <2>2, <2>3, <2>4
<1>9. ASSUME NEW t \in Tiers
      PROVE  Suits(TierConfig(t), t = "frontier") /\ Base \in TierConfig(t).reads /\ Tier(t) \in TierConfig(t).reads
  <2>1. PICK fallback : fallback = Fallback(t)
    OBVIOUS
  <2>2. Suits(fallback, t = "frontier") /\ Base \in fallback.reads
    BY <1>6, <1>7, <1>8, <2>1
  <2>3. choices[t] # Unset => Suits(choices[t], t = "frontier")
    BY DEF SettingsInv, ChoicesFit
  <2>. QED BY <2>1, <2>2, <2>3 DEF TierConfig, Suits
<1>. QED BY <1>6, <1>9

LEMMA ChosenMatches ==
  ASSUME NEW c, NEW frontier \in BOOLEAN, Suits(c, frontier), NEW p, NEW model \in {p, Unset}
  PROVE  Suits(Chosen(c, p, model), frontier)
BY DEF Suits, Chosen

\* Saving, secret by secret: nothing, or what was typed or kept.
Saved(n) ==
  \/ entered'[n] = entered[n] /\ secrets'[n] = secrets[n]
  \/ \E field, current : /\ entered[n] # Blank => current = entered[n]
                         /\ secrets'[n].secret = Kept(field, current) /\ Readable(n)
                         /\ entered'[n] = IF field = Clear THEN Blank ELSE Or(field, entered[n])

SecretsKept == \A n \in SecretNames : secrets[n].under \notin {Unset, env.master} => secrets'[n] = secrets[n]

\* Nothing of the base was saved, nor of the standard tier.
BaseStays ==
  /\ secrets'[Base] = secrets[Base] /\ secrets'[Tier("standard")] = secrets[Tier("standard")]
  /\ entered'[Base] = entered[Base] /\ mirrored' = mirrored

LEMMA SavingKeeps ==
  ASSUME SettingsInv, SettingsTyped', \A n \in SecretNames \ {Base} : Saved(n),
         BaseStays \/ (Told(Base)' /\ (secrets'[Base] = secrets[Base] \/ Readable(Base))),
         \A c \in Tiers \cup {"base"} : choices'[c] = choices[c] \/ Suits(choices'[c], c = "frontier"),
         named \subseteq named'
  PROVE  SettingsInv' /\ SecretsKept
<1>1. ASSUME NEW n \in SecretNames, n # Base
      PROVE  Told(n)'
  <2>1. SUFFICES ASSUME entered'[n] # Blank
                 PROVE  secrets'[n].secret = entered'[n]
    BY <1>1 DEF Told, Stored
  <2>2. entered[n] # Blank => secrets[n].secret = entered[n]
    BY <1>1 DEF SettingsInv, Told, Stored
  <2>3. CASE entered'[n] = entered[n] /\ secrets'[n] = secrets[n]
    BY <2>1, <2>2, <2>3
  <2>4. CASE \E field, current : /\ entered[n] # Blank => current = entered[n]
                                 /\ secrets'[n].secret = Kept(field, current) /\ Readable(n)
                                 /\ entered'[n] = IF field = Clear THEN Blank ELSE Or(field, entered[n])
    <3>1. PICK field, current : /\ entered[n] # Blank => current = entered[n]
                                /\ secrets'[n].secret = Kept(field, current)
                                /\ entered'[n] = IF field = Clear THEN Blank ELSE Or(field, entered[n])
      BY <2>4
    <3>. QED BY <2>1, <3>1, KeptIsEntered
  <2>. QED BY <1>1, <2>1, <2>3, <2>4 DEF Saved
<1>2. Base \in SecretNames
  BY NamesDiffer
<1>3. Told(Base)'
  BY <1>2 DEF BaseStays, SettingsInv, Told, Stored
<1>4. ASSUME NEW c \in Tiers \cup {"base"}, choices'[c] # Unset
      PROVE  Suits(choices[c], c = "frontier")'
  <2>1. PICK chosen : chosen = choices'[c]
    OBVIOUS
  <2>2. choices[c] # Unset => Suits(choices[c], c = "frontier")
    BY DEF SettingsInv, ChoicesFit
  <2>3. Suits(chosen, c = "frontier")
    BY <1>4, <2>1, <2>2
  <2>. QED BY <2>1, <2>3 DEF Suits
<1>5. ChoicesFit'
  BY <1>4 DEF ChoicesFit
<1>6. SecretsKept
  BY <1>2 DEF SecretsKept, Saved, Readable, BaseStays
<1>. QED BY <1>1, <1>3, <1>5, <1>6 DEF SettingsInv

LEMMA OneSecret ==
  ASSUME SettingsInv, NEW n \in SecretNames, NEW field, NEW current,
         secrets' = [secrets EXCEPT ![n] = Sealed(Kept(field, current))], Enter(Only(n, field))
  PROVE  /\ DOMAIN secrets' = SecretNames /\ DOMAIN entered' = SecretNames
         /\ secrets'[n].secret = Kept(field, current)
         /\ entered'[n] = IF field = Clear THEN Blank ELSE Or(field, entered[n])
         /\ \A m \in SecretNames : m # n => entered'[m] = entered[m] /\ secrets'[m] = secrets[m]
<1>1. /\ DOMAIN secrets' = SecretNames /\ secrets'[n] = Sealed(Kept(field, current))
      /\ \A m \in SecretNames : m # n => secrets'[m] = secrets[m]
  BY DEF SettingsInv, SettingsTyped
<1>2. /\ DOMAIN entered' = SecretNames
      /\ entered'[n] = IF field = Clear THEN Blank ELSE Or(field, entered[n])
      /\ \A m \in SecretNames : m # n => entered'[m] = entered[m]
  BY DEF Enter, Only
<1>3. secrets'[n].secret = Kept(field, current)
  BY <1>1 DEF Sealed
<1>. QED BY <1>1, <1>2, <1>3

\* A secret other than the base's and the standard tier's was saved.
LEMMA OneSaved ==
  ASSUME SettingsInv, NEW n \in SecretNames, n # Base, n # Tier("standard"), NEW field, NEW current, Readable(n),
         entered[n] # Blank => current = entered[n],
         secrets' = [secrets EXCEPT ![n] = Sealed(Kept(field, current))], Enter(Only(n, field)),
         UNCHANGED <<choices, routes, hostname, mirrored, env, named>>
  PROVE  SettingsInv' /\ SecretsKept
<1>1. /\ DOMAIN secrets' = SecretNames /\ DOMAIN entered' = SecretNames
      /\ secrets'[n].secret = Kept(field, current)
      /\ entered'[n] = IF field = Clear THEN Blank ELSE Or(field, entered[n])
      /\ \A m \in SecretNames : m # n => entered'[m] = entered[m] /\ secrets'[m] = secrets[m]
  BY OneSecret
<1>2. \A m \in SecretNames \ {Base} : Saved(m)
  BY <1>1 DEF Saved
<1>3. BaseStays
  <2>1. Base \in SecretNames /\ Tier("standard") \in SecretNames
    BY NamesDiffer DEF Tiers
  <2>. QED BY <1>1, <2>1 DEF BaseStays
<1>4. SettingsTyped'
  BY <1>1 DEF SettingsInv, SettingsTyped
<1>. QED BY <1>2, <1>3, <1>4, SavingKeeps

LEMMA AppKeysKeep ==
  ASSUME SettingsInv, NEW a \in AppKeys, NEW field,
         SaveAppKeys([n \in {App(b) : b \in AppKeys} |-> IF n = App(a) THEN field ELSE Blank])
  PROVE  SettingsInv' /\ SecretsKept
<1>. DEFINE names == {App(b) : b \in AppKeys}
            fields == [n \in names |-> IF n = App(a) THEN field ELSE Blank]
<1>1. /\ secrets' = [n \in SecretNames |-> IF n \in names THEN Sealed(Kept(fields[n], AppKey(n[2]))) ELSE secrets[n]]
      /\ \A n \in names : Readable(n)
      /\ Enter(fields) /\ UNCHANGED <<choices, routes, hostname, mirrored, env, named>>
  BY DEF SaveAppKeys, Saving
<1>2. DOMAIN secrets' = SecretNames /\ DOMAIN entered' = SecretNames
  BY <1>1 DEF Enter
<1>3. ASSUME NEW n \in SecretNames
      PROVE  Saved(n) /\ (n \notin names => entered'[n] = entered[n] /\ secrets'[n] = secrets[n])
  <2>1. CASE n \in names
    <3>1. PICK b \in AppKeys : n = App(b)
      BY <2>1
    <3>2. n[2] = b
      BY <3>1, NamesDiffer
    <3>3. entered[n] # Blank => AppKey(b) = entered[n]
      <4>1. n # Base
        BY <3>1, NamesDiffer
      <4>. QED BY <3>1, <4>1 DEF SettingsInv, Told, AppKey, Or
    <3>4. secrets'[n].secret = Kept(fields[n], AppKey(b))
      BY <1>1, <2>1, <3>2 DEF Sealed
    <3>5. entered'[n] = IF fields[n] = Clear THEN Blank ELSE Or(fields[n], entered[n])
      <4>1. DOMAIN fields = names
        OBVIOUS
      <4>. HIDE DEF fields
      <4>. QED BY <1>1, <2>1, <4>1 DEF Enter
    <3>6. Readable(n)
      BY <1>1, <2>1
    <3>. HIDE DEF fields
    <3>. QED BY <2>1, <3>3, <3>4, <3>5, <3>6 DEF Saved
  <2>2. CASE n \notin names
    <3>1. secrets'[n] = secrets[n]
      BY <1>1, <2>2
    <3>2. entered'[n] = entered[n]
      <4>1. DOMAIN fields = names
        OBVIOUS
      <4>. HIDE DEF fields
      <4>. QED BY <1>1, <2>2, <4>1 DEF Enter
    <3>. QED BY <3>1, <3>2 DEF Saved
  <2>. QED BY <2>1, <2>2
<1>4. SettingsTyped'
  BY <1>1, <1>2 DEF SettingsInv, SettingsTyped
<1>5. BaseStays
  <2>1. Base \in SecretNames \ names /\ Tier("standard") \in SecretNames \ names
    BY NamesDiffer DEF Tiers
  <2>. QED BY <1>1, <1>3, <2>1 DEF BaseStays
<1>. QED BY <1>1, <1>3, <1>4, <1>5, SavingKeeps

LEMMA SinglesKeep ==
  ASSUME SettingsInv, NEW field,
         \/ SaveLdapConfig(field)
         \/ SaveEmbeddingConfig(field)
         \/ \E p \in Providers : SaveLlmProviderConfig(p, field)
  PROVE  SettingsInv' /\ SecretsKept
<1>1. ASSUME NEW n \in {Ldap, EmbeddingKey}, SaveSingle(n, field)
      PROVE  SettingsInv' /\ SecretsKept
  <2>1. /\ n \in SecretNames /\ Readable(n) /\ n # Base /\ n # Tier("standard")
        /\ UNCHANGED <<choices, routes, hostname, mirrored, env, named>>
    BY <1>1, NamesDiffer DEF SaveSingle, Saving, Tiers
  <2>2. entered[n] # Blank => Single(n) = entered[n]
    BY <2>1 DEF SettingsInv, Told, Single
  <2>3. secrets' = [secrets EXCEPT ![n] = Sealed(Kept(field, Single(n)))] /\ Enter(Only(n, field))
    BY <1>1 DEF SaveSingle
  <2>. QED BY <2>1, <2>2, <2>3, OneSaved
<1>2. ASSUME NEW p \in Providers, SaveLlmProviderConfig(p, field)
      PROVE  SettingsInv' /\ SecretsKept
  <2>1. /\ Provider(p) \in SecretNames /\ Readable(Provider(p)) /\ Provider(p) # Base /\ Provider(p) # Tier("standard")
        /\ UNCHANGED <<choices, routes, hostname, mirrored, env, named>>
    BY <1>2, NamesDiffer DEF SaveLlmProviderConfig, Saving, Tiers
  <2>2. entered[Provider(p)] # Blank => ProviderKey(p) = entered[Provider(p)]
    BY <2>1 DEF SettingsInv, Told, ProviderKey, Or
  <2>3. secrets' = [secrets EXCEPT ![Provider(p)] = Sealed(Kept(field, ProviderKey(p)))] /\ Enter(Only(Provider(p), field))
    BY <1>2 DEF SaveLlmProviderConfig
  <2>. QED BY <2>1, <2>2, <2>3, OneSaved
<1>. QED BY <1>1, <1>2 DEF SaveLdapConfig, SaveEmbeddingConfig

LEMMA BaseKeeps ==
  ASSUME SettingsInv, NEW p \in Providers \cup {Unset}, NEW field, SaveLlmConfig(p, Unset, field)
  PROVE  SettingsInv' /\ SecretsKept
<1>1. /\ \A n \in BaseConfig.reads : Readable(n)
      /\ choices' = [choices EXCEPT !["base"] = Chosen(BaseConfig, p, Unset)]
      /\ secrets' = [secrets EXCEPT ![Base] = Sealed(Kept(field, BaseConfig.key))]
      /\ Enter(Only(Base, field)) /\ mirrored' = (mirrored /\ field = Blank)
      /\ UNCHANGED <<routes, hostname, env, named>>
  BY DEF SaveLlmConfig, Saving
<1>2. Base \in SecretNames /\ Readable(Base) /\ Tier("standard") \in SecretNames /\ Tier("standard") # Base
  BY <1>1, NamesDiffer, ConfigsMatch DEF Tiers
<1>3. Stored(Base) # Blank => BaseConfig.key = Stored(Base)
  BY <1>2 DEF BaseConfig, Or
<1>4. /\ DOMAIN secrets' = SecretNames /\ DOMAIN entered' = SecretNames
      /\ secrets'[Base].secret = Kept(field, BaseConfig.key)
      /\ entered'[Base] = IF field = Clear THEN Blank ELSE Or(field, entered[Base])
      /\ \A m \in SecretNames : m # Base => entered'[m] = entered[m] /\ secrets'[m] = secrets[m]
  BY <1>1, <1>2, OneSecret
<1>5. /\ DOMAIN choices' = DOMAIN choices /\ choices'["base"] = Chosen(BaseConfig, p, Unset)
      /\ \A c \in Tiers : choices'[c] = choices[c]
  BY <1>1 DEF SettingsInv, SettingsTyped, Tiers
<1>6. Suits(Chosen(BaseConfig, p, Unset), FALSE)
  BY ChosenMatches, ConfigsMatch
<1>7. SettingsTyped'
  BY <1>1, <1>4, <1>5 DEF SettingsInv, SettingsTyped
<1>8. Told(Base)'
  <2>1. SUFFICES ASSUME entered'[Base] # Blank
                 PROVE  IF mirrored' THEN secrets'[Base].secret = secrets'[Tier("standard")].secret /\ secrets'[Base].secret # Blank
                        ELSE secrets'[Base].secret = entered'[Base]
    BY DEF Told, Stored
  <2>2. field # Clear
    BY <1>4, <2>1
  <2>3. CASE field # Blank
    BY <1>1, <1>4, <2>2, <2>3 DEF Kept, Or
  <2>4. CASE field = Blank
    <3>1. entered'[Base] = entered[Base] /\ mirrored' = mirrored
      BY <1>1, <1>4, <2>2, <2>4 DEF Or, SettingsInv, SettingsTyped
    <3>2. IF mirrored THEN Stored(Base) = Stored(Tier("standard")) /\ Stored(Base) # Blank ELSE Stored(Base) = entered[Base]
      BY <1>2, <2>1, <3>1 DEF SettingsInv, Told
    <3>3. Stored(Base) # Blank
      BY <2>1, <3>1, <3>2
    <3>4. secrets'[Base].secret = Stored(Base)
      BY <1>3, <1>4, <2>4, <3>3 DEF Kept, Or, Clear, Blank
    <3>5. secrets'[Tier("standard")].secret = Stored(Tier("standard"))
      BY <1>2, <1>4 DEF Stored
    <3>. QED BY <3>1, <3>2, <3>3, <3>4, <3>5
  <2>. QED BY <2>3, <2>4
<1>9. \A m \in SecretNames \ {Base} : Saved(m)
  BY <1>4 DEF Saved
<1>10. \A c \in Tiers \cup {"base"} : choices'[c] = choices[c] \/ Suits(choices'[c], c = "frontier")
  BY <1>5, <1>6 DEF Suits
<1>. QED BY <1>1, <1>2, <1>7, <1>8, <1>9, <1>10, SavingKeeps

LEMMA TierKeeps ==
  ASSUME SettingsInv, NEW t \in Tiers, NEW p \in Providers \cup {Unset}, NEW model \in {p, Unset}, NEW field,
         SaveLlmTierConfig(t, p, model, field)
  PROVE  SettingsInv' /\ SecretsKept
<1>1. PICK current : current = TierConfig(t)
  OBVIOUS
<1>2. PICK next : next = Chosen(current, p, model)
  OBVIOUS
<1>3. PICK key : key = Kept(field, current.key)
  OBVIOUS
<1>4. PICK mirror : mirror = (t = "standard")
  OBVIOUS
<1>5. /\ \A n \in current.reads : Readable(n)
      /\ choices' = [c \in DOMAIN choices |-> IF c \in {t} \cup Mirrored(t) THEN next ELSE choices[c]]
      /\ secrets' = [n \in SecretNames |->
           IF n = Tier(t) THEN Sealed(key)
           ELSE IF n = Base /\ mirror THEN Sealed(MirroredKey(field, key)) ELSE secrets[n]]
      /\ entered' = [entered EXCEPT
           ![Tier(t)] = IF field = Clear THEN Blank ELSE Or(field, @),
           ![Base] = IF mirror /\ field = Clear THEN Blank ELSE @]
      /\ mirrored' = (mirrored \/ mirror)
      /\ UNCHANGED <<routes, hostname, env, named>>
  <2>1. mirror = (Mirrored(t) # {})
    BY <1>4 DEF Mirrored
  <2>. QED BY <1>1, <1>2, <1>3, <2>1 DEF SaveLlmTierConfig, Saving
<1>6. /\ Tier(t) \in SecretNames /\ Base \in SecretNames /\ Tier(t) # Base /\ Tier("standard") \in SecretNames
      /\ Readable(Tier(t)) /\ Readable(Base) /\ Suits(current, t = "frontier") /\ Tier("standard") # Base
  BY <1>1, <1>5, NamesDiffer, ConfigsMatch DEF Tiers
<1>7. entered[Tier(t)] # Blank => current.key = entered[Tier(t)]
  BY <1>1, <1>6 DEF SettingsInv, Told, TierConfig, Or
<1>8. Suits(next, t = "frontier")
  BY <1>2, <1>6, ChosenMatches
<1>9. DOMAIN secrets' = SecretNames /\ DOMAIN choices' = DOMAIN choices
  BY <1>5
<1>10. /\ DOMAIN entered' = SecretNames
       /\ entered'[Tier(t)] = IF field = Clear THEN Blank ELSE Or(field, entered[Tier(t)])
       /\ entered'[Base] = IF mirror /\ field = Clear THEN Blank ELSE entered[Base]
       /\ \A n \in SecretNames : n # Tier(t) /\ n # Base => entered'[n] = entered[n]
  BY <1>5, <1>6 DEF SettingsInv, SettingsTyped
<1>11. /\ secrets'[Tier(t)] = Sealed(key)
       /\ mirror => secrets'[Base] = Sealed(MirroredKey(field, key))
       /\ ~mirror => secrets'[Base] = secrets[Base]
       /\ \A n \in SecretNames : n # Tier(t) /\ n # Base => secrets'[n] = secrets[n]
  BY <1>5, <1>6
<1>12. ASSUME NEW n \in SecretNames \ {Base}
       PROVE  Saved(n)
  <2>1. CASE n = Tier(t)
    <3>1. secrets'[n].secret = Kept(field, current.key)
      BY <1>3, <1>11, <2>1 DEF Sealed
    <3>. QED BY <1>6, <1>7, <1>10, <2>1, <3>1 DEF Saved
  <2>2. CASE n # Tier(t)
    BY <1>10, <1>11, <2>2 DEF Saved
  <2>. QED BY <2>1, <2>2
<1>13. \A c \in Tiers \cup {"base"} : choices'[c] = choices[c] \/ Suits(choices'[c], c = "frontier")
  <2>1. ASSUME NEW c \in {t} \cup Mirrored(t)
        PROVE  Suits(next, c = "frontier")
    BY <1>8, <2>1 DEF Mirrored, Suits
  <2>. QED BY <1>5, <2>1 DEF SettingsInv, SettingsTyped
<1>14. SettingsTyped'
  <2>1. mirrored' \in BOOLEAN
    BY <1>4, <1>5 DEF SettingsInv, SettingsTyped
  <2>. QED BY <1>5, <1>9, <1>10, <2>1 DEF SettingsInv, SettingsTyped
<1>15. CASE ~mirror
  <2>1. Tier(t) # Tier("standard")
    BY <1>4, <1>15, NamesDiffer DEF Tiers
  <2>2. BaseStays
    BY <1>5, <1>6, <1>10, <1>11, <1>15, <2>1 DEF BaseStays, SettingsInv, SettingsTyped
  <2>. QED BY <1>5, <1>12, <1>13, <1>14, <2>2, SavingKeeps
<1>16. CASE mirror
  <2>1. t = "standard" /\ mirrored'
    BY <1>4, <1>5, <1>16
  <2>2. ASSUME entered'[Base] # Blank
        PROVE  secrets'[Base].secret = secrets'[Tier("standard")].secret /\ secrets'[Base].secret # Blank
    <3>1. field # Clear /\ entered[Base] # Blank
      BY <1>10, <1>16, <2>2
    <3>2. Stored(Base) # Blank
      BY <1>6, <3>1 DEF SettingsInv, Told
    <3>3. PICK base : base = BaseConfig
      OBVIOUS
    <3>4. base.key # Blank
      BY <3>2, <3>3 DEF BaseConfig, Or
    <3>5. Fallback(t) = base
      BY <2>1, <3>3 DEF Fallback
    <3>6. current.key # Blank
      BY <1>1, <3>4, <3>5 DEF TierConfig, Or
    <3>7. key # Blank
      BY <1>3, <3>1, <3>6 DEF Kept, Or
    <3>8. MirroredKey(field, key) = key
      BY <3>1, <3>7 DEF MirroredKey, Or
    <3>. QED BY <1>11, <1>16, <2>1, <3>7, <3>8 DEF Sealed
  <2>3. Told(Base)'
    BY <2>1, <2>2 DEF Told, Stored
  <2>. QED BY <1>5, <1>6, <1>12, <1>13, <1>14, <2>3, SavingKeeps
<1>. QED BY <1>4, <1>15, <1>16

LEMMA OthersKeep ==
  ASSUME SettingsInv,
         \/ \E r \in LlmRoutes, t \in Tiers : SaveLlmRoutes(Only(r, t))
         \/ \E h \in Hosts : SavePublicHostname(h)
         \/ \E k \in MasterKeys \cup {Unset}, l \in BOOLEAN, m \in EnvModels : Reconfigure(k, l, m)
         \/ UNCHANGED settingsVars
  PROVE  SettingsInv' /\ SecretsKept
<1>1. UNCHANGED <<secrets, entered, mirrored, choices>>
  BY DEF SaveLlmRoutes, SavePublicHostname, Reconfigure, settingsVars, history
<1>2. routes' \in [LlmRoutes -> Tiers \cup {Unset}] /\ hostname' \in Hosts
  <2>1. ASSUME NEW r \in LlmRoutes, NEW t \in Tiers, SaveLlmRoutes(Only(r, t))
        PROVE  routes' \in [LlmRoutes -> Tiers \cup {Unset}] /\ hostname' \in Hosts
    BY <2>1 DEF SaveLlmRoutes, Only, SettingsInv, SettingsTyped
  <2>. QED BY <2>1 DEF SavePublicHostname, Reconfigure, settingsVars, SettingsInv, SettingsTyped
<1>3. named \subseteq named' /\ NamedBy(env'.models) \subseteq named'
  <2>1. ASSUME NEW k, NEW l, NEW m, Reconfigure(k, l, m)
        PROVE  named \subseteq named' /\ NamedBy(env'.models) \subseteq named'
    <3>1. env'.models = m /\ named' = named \cup NamedBy(m)
      BY <2>1 DEF Reconfigure
    <3>2. PICK models : models = env'.models
      OBVIOUS
    <3>. QED BY <3>1, <3>2
  <2>2. CASE UNCHANGED <<env, named>>
    BY <2>2 DEF SettingsInv, SettingsTyped
  <2>. QED BY <2>1, <2>2 DEF SaveLlmRoutes, SavePublicHostname, Saving, settingsVars
<1>4. SettingsTyped'
  <2>1. PICK models : models = env'.models
    OBVIOUS
  <2>2. NamedBy(env.models)' = NamedBy(env'.models)
    BY DEF NamedBy
  <2>. QED BY <1>1, <1>2, <1>3, <2>2 DEF SettingsInv, SettingsTyped
<1>5. \A n \in SecretNames : Saved(n)
  BY <1>1 DEF Saved
<1>6. BaseStays
  BY <1>1 DEF BaseStays
<1>. QED BY <1>1, <1>3, <1>4, <1>5, <1>6, SavingKeeps

LEMMA SecretsReach ==
  ASSUME SettingsInv
  PROVE  SecretsAreServed
<1>0. Base \in SecretNames /\ Base[1] = "llm" /\ Tier("standard") # Base /\ Tier("standard")[1] = "tier" /\ Tier("standard")[2] = "standard"
  BY NamesDiffer DEF Tiers
<1>7. ASSUME entered[Base] # Blank, mirrored
      PROVE  Served(Base) = Served(Tier("standard"))
  <2>1. Stored(Base) = Stored(Tier("standard")) /\ Stored(Base) # Blank
    BY <1>0, <1>7 DEF SettingsInv, Told
  <2>2. BaseConfig.key = Stored(Base)
    BY <2>1 DEF BaseConfig, Or
  <2>3. TierConfig("standard").key = Stored(Tier("standard"))
    BY <2>1 DEF TierConfig, Or
  <2>. QED BY <1>0, <2>1, <2>2, <2>3 DEF Served
<1>. SUFFICES ASSUME NEW n \in SecretNames, entered[n] # Blank, ~ (n = Base /\ mirrored)
              PROVE  Served(n) = entered[n]
  BY <1>7 DEF SecretsAreServed
<1>1. Stored(n) = entered[n]
  BY DEF SettingsInv, Told
<1>2. ASSUME NEW a \in AppKeys, n = App(a)
      PROVE  Served(n) = entered[n]
  <2>1. n[1] = "app" /\ n[2] = a
    BY <1>2, NamesDiffer
  <2>2. AppKey(a) = entered[n]
    BY <1>1, <1>2 DEF AppKey, Or
  <2>. QED BY <2>1, <2>2 DEF Served
<1>3. ASSUME NEW p \in Providers, n = Provider(p)
      PROVE  Served(n) = entered[n]
  <2>1. n[1] = "provider" /\ n[2] = p
    BY <1>3, NamesDiffer
  <2>2. ProviderKey(p) = entered[n]
    BY <1>1, <1>3 DEF ProviderKey, Or
  <2>. QED BY <2>1, <2>2 DEF Served
<1>4. ASSUME NEW t \in Tiers, n = Tier(t)
      PROVE  Served(n) = entered[n]
  <2>1. n[1] = "tier" /\ n[2] = t /\ n # Base
    BY <1>4, NamesDiffer
  <2>2. TierConfig(t).key = entered[n]
    BY <1>1, <1>4 DEF TierConfig, Or
  <2>. QED BY <2>1, <2>2 DEF Served
<1>5. CASE n = Base
  <2>1. n[1] = "llm"
    BY <1>5, NamesDiffer
  <2>2. BaseConfig.key = entered[n]
    BY <1>1, <1>5 DEF BaseConfig, Or
  <2>. QED BY <1>5, <2>1, <2>2 DEF Served
<1>6. CASE n \in {Ldap, EmbeddingKey}
  <2>1. n[1] = "ldap" \/ n[1] = "embedding"
    BY <1>6, NamesDiffer
  <2>2. n # Base
    BY <2>1, NamesDiffer
  <2>. QED BY <1>1, <2>1, <2>2 DEF Served
<1>. QED BY <1>2, <1>3, <1>4, <1>5, <1>6 DEF SecretNames

LEMMA CallsMatch ==
  ASSUME SettingsInv
  PROVE  ModelsMatchProviders
<1>1. ASSUME NEW r \in LlmRoutes
      PROVE  LET c == Call(r)
             IN c.model # c.provider => c.model \in named /\ (RouteTier(r) # "frontier" => c.provider = EnvProvider)
  <2>1. PICK t : t = RouteTier(r)
    OBVIOUS
  <2>2. t \in Tiers
    BY <2>1 DEF SettingsInv, SettingsTyped, RouteTier, DefaultRoute, Tiers
  <2>3. PICK c : c = TierConfig(t)
    OBVIOUS
  <2>4. Suits(c, t = "frontier")
    BY <2>2, <2>3, ConfigsMatch
  <2>. QED BY <2>1, <2>3, <2>4 DEF Call, Suits
<1>. QED BY <1>1 DEF ModelsMatchProviders

LEMMA AddressesReach == AdvertisedUrlIsReachable
<1>1. ASSUME NEW configured \in Hosts, NEW forwarded \in Hosts, NEW detected \in Detected, NEW host,
             host = PublicHost(configured, forwarded, detected)
      PROVE  /\ host = "wildcard" => detected = "wildcard"
             /\ host = "loopback" => configured = "loopback" \/ (configured = Blank /\ hostname = "loopback")
  <2>1. detected # "loopback"
    BY DEF Detected
  <2>2. CASE configured # Blank
    BY <1>1, <2>1, <2>2 DEF PublicHost, Reachable
  <2>3. CASE configured = Blank /\ hostname # Blank
    BY <1>1, <2>1, <2>3 DEF PublicHost, Reachable
  <2>4. CASE configured = Blank /\ hostname = Blank
    BY <1>1, <2>1, <2>4 DEF PublicHost, Reachable
  <2>. QED BY <2>2, <2>3, <2>4
<1>. QED BY <1>1 DEF AdvertisedUrlIsReachable

LEMMA AuditsReach ==
  ASSUME SettingsInv
  PROVE  AuditsSeeSettings
<1>1. ASSUME "no model key" \notin KeyWarnings, NEW t \in Tiers \ {"cheap"},
             TierConfig(t).provider = BaseConfig.provider
      PROVE  TierConfig(t).key # Blank \/ TierConfig(t).provider = LocalProvider
  <2>1. BaseConfig.key # Blank \/ BaseConfig.provider = LocalProvider
    BY <1>1 DEF KeyWarnings
  <2>2. PICK base : base = BaseConfig
    OBVIOUS
  <2>3. Fallback(t).key = base.key
    <3>1. CASE t = "frontier"
      <4>1. base = [provider |-> base.provider, model |-> base.model, key |-> base.key, reads |-> base.reads]
        BY <2>2 DEF BaseConfig
      <4>2. PICK model : model = First(env.models.frontier, First(env.models.vendor, base.model))
        OBVIOUS
      <4>3. Fallback(t) = [base EXCEPT !.model = model]
        BY <2>2, <3>1, <4>2 DEF Fallback
      <4>. QED BY <4>1, <4>3
    <3>2. CASE t # "frontier"
      BY <1>1, <2>2, <3>2 DEF Fallback
    <3>. QED BY <3>1, <3>2
  <2>4. TierConfig(t).key # Blank \/ base.key = Blank
    BY <2>3 DEF TierConfig, Or
  <2>. QED BY <1>1, <2>1, <2>2, <2>4
<1>2. ASSUME NEW configured \in Hosts, NEW detected \in Detected,
             "loopback address" \notin AddressWarnings(configured, detected), NEW forwarded \in Hosts
      PROVE  PublicHost(configured, forwarded, detected) # "loopback"
  <2>1. PublicHost(configured, Blank, detected) # "loopback"
    BY <1>2 DEF AddressWarnings
  <2>. QED BY <2>1 DEF PublicHost, Reachable
<1>. QED BY <1>1, <1>2 DEF AuditsSeeSettings

LEMMA SettingsStart ==
  ASSUME SettingsInit
  PROVE  SettingsInv
BY DEF SettingsInit, SettingsInv, SettingsTyped, ChoicesFit, Told, Hosts, Blank, Tiers

LEMMA SettingsStep ==
  ASSUME SettingsInv, [SettingsNext]_settingsVars
  PROVE  SettingsInv' /\ SecretsKept
BY AppKeysKeep, SinglesKeep, BaseKeeps, TierKeeps, OthersKeep DEF SettingsNext

\* Whatever is saved for secrets, providers, tiers and addresses, in whichever order, and
\* whatever master keys and models restarts bring: what can be read is what was typed last, but
\* for a base key that the standard tier replaced; a provider is asked for another one's model
\* only where an environment named it, agents get an address they can reach if there is one, and
\* no save destroys what it cannot read (the PUT handlers of routes/admin.ts, lib/llm.ts and
\* lib/appKeys.ts).
THEOREM SettingsStaySound == SettingsSpec => SettingsAreSound
<1>1. SettingsInit => SettingsInv
  BY SettingsStart
<1>2. SettingsInv /\ [SettingsNext]_settingsVars => SettingsInv'
  BY SettingsStep
<1>3. SettingsInv => SettingsAreServed
  BY SecretsReach, CallsMatch, AddressesReach, AuditsReach DEF SettingsAreServed
<1>4. SettingsInv /\ [SettingsNext]_settingsVars =>
        [\A n \in SecretNames : secrets[n].under \notin {Unset, env.master} => secrets'[n] = secrets[n]]_settingsVars
  BY SettingsStep DEF SecretsKept
<1>. QED BY <1>1, <1>2, <1>3, <1>4, PTL DEF SettingsSpec, SettingsAreSound, UnreadableSecretsAreKept

(***************************************************************************)
(* Commands that hand over drafts.                                         *)
(***************************************************************************)

\* A set of numbers that is not empty has a least one.
LEMMA Minimum ==
  ASSUME NEW T \in SUBSET Nat, T # {}
  PROVE  \E m \in T : \A n \in T : m <= n
<1>. DEFINE R == OpToRel(<, Nat)
<1>1. IsWellFoundedOn(R, Nat)
  BY NatLessThanWellFounded
<1>2. \A x, y \in Nat : x < y => <<x, y>> \in R
  BY DEF OpToRel
<1>. HIDE DEF R
<1>3. PICK m \in T : \A n \in T : ~ (<<n, m>> \in R)
  BY <1>1, WFMin
<1>4. \A n \in T : ~ (n < m)
  BY <1>2, <1>3
<1>5. \A n \in T : n \in Int /\ m \in Int
  OBVIOUS
<1>. QED BY <1>4, <1>5

Sorted(T, k, s) ==
  /\ s \in [1..k -> T]
  /\ \A x \in T : \E i \in 1..k : s[i] = x
  /\ \A i, j \in 1..k : i < j => s[i] < s[j]

\* A finite set of numbers can be sorted.
LEMMA SortingExists ==
  ASSUME NEW S \in SUBSET Nat, IsFiniteSet(S)
  PROVE  Cardinality(S) \in Nat /\ \E s : Sorted(S, Cardinality(S), s)
<1>. DEFINE Bad == {n \in Nat : \E T \in SUBSET Nat : IsFiniteSet(T) /\ Cardinality(T) = n /\ ~ \E s : Sorted(T, n, s)}
<1>1. Cardinality(S) \in Nat
  BY FS_CardinalityType
<1>2. SUFFICES ASSUME Bad # {}
               PROVE  FALSE
  BY <1>1
<1>3. PICK k \in Bad : \A n \in Bad : k <= n
  <2>1. Bad \in SUBSET Nat
    OBVIOUS
  <2>. HIDE DEF Bad
  <2>. QED BY <1>2, <2>1, Minimum
<1>4. PICK T \in SUBSET Nat : IsFiniteSet(T) /\ Cardinality(T) = k /\ ~ \E s : Sorted(T, k, s)
  BY <1>3
<1>5. k \in Nat /\ \A n \in Nat : n < k => n \notin Bad
  BY <1>3
<1>6. CASE k = 0
  <2>1. T = {}
    BY <1>4, <1>6, FS_EmptySet
  <2>. DEFINE s == [i \in 1..0 |-> 0]
  <2>2. 1..0 = {}
    OBVIOUS
  <2>3. Sorted(T, 0, s)
    BY <2>1, <2>2 DEF Sorted
  <2>. QED BY <1>4, <1>6, <2>3
<1>7. CASE k # 0
  <2>1. T # {}
    BY <1>4, <1>7, FS_EmptySet
  <2>2. PICK m \in T : \A n \in T : m <= n
    BY <2>1, Minimum
  <2>. DEFINE rest == T \ {m}
  <2>3. IsFiniteSet(rest) /\ Cardinality(rest) = k - 1
    BY <1>4, FS_RemoveElement
  <2>4. k - 1 \in Nat /\ k - 1 \notin Bad
    BY <1>5, <1>7
  <2>5. PICK q : Sorted(rest, k - 1, q)
    BY <2>3, <2>4
  <2>. DEFINE s == [i \in 1..k |-> IF i = 1 THEN m ELSE q[i - 1]]
  <2>6. \A i \in 1..k : i # 1 => i - 1 \in 1..(k - 1) /\ s[i] = q[i - 1] /\ s[i] \in T /\ m < s[i]
    <3>1. \A x \in rest : x \in T /\ m < x
      BY <2>2
    <3>2. ASSUME NEW i \in 1..k, i # 1
          PROVE  i - 1 \in 1..(k - 1) /\ s[i] = q[i - 1] /\ s[i] \in T /\ m < s[i]
      <4>1. i - 1 \in 1..(k - 1) /\ s[i] = q[i - 1]
        BY <1>5, <3>2
      <4>2. q[i - 1] \in rest
        BY <2>5, <4>1 DEF Sorted
      <4>. QED BY <3>1, <4>1, <4>2
    <3>. QED BY <3>2
  <2>7. 1 \in 1..k /\ s[1] = m
    BY <1>5, <1>7
  <2>8. s \in [1..k -> T]
    <3>1. \A i \in 1..k : s[i] \in T
      BY <2>6, <2>7
    <3>2. s = [i \in 1..k |-> s[i]]
      OBVIOUS
    <3>. HIDE DEF s
    <3>. QED BY <3>1, <3>2
  <2>. HIDE DEF s
  <2>9. \A x \in T : \E i \in 1..k : s[i] = x
    <3>1. ASSUME NEW x \in T, x # m
          PROVE  \E i \in 1..k : s[i] = x
      <4>1. PICK j \in 1..(k - 1) : q[j] = x
        BY <2>5, <3>1 DEF Sorted
      <4>2. j + 1 \in 1..k /\ j + 1 # 1 /\ (j + 1) - 1 = j
        BY <2>4, <1>5
      <4>. QED BY <2>6, <4>1, <4>2
    <3>. QED BY <2>7, <3>1
  <2>10. \A i, j \in 1..k : i < j => s[i] < s[j]
    <3>1. ASSUME NEW i \in 1..k, NEW j \in 1..k, i < j, i # 1
          PROVE  s[i] < s[j]
      <4>1. j # 1 /\ i - 1 < j - 1
        BY <1>5, <3>1
      <4>2. i - 1 \in 1..(k - 1) /\ j - 1 \in 1..(k - 1) /\ s[i] = q[i - 1] /\ s[j] = q[j - 1]
        BY <2>6, <3>1, <4>1
      <4>. QED BY <2>5, <4>1, <4>2 DEF Sorted
    <3>2. ASSUME NEW j \in 1..k, 1 < j
          PROVE  s[1] < s[j]
      BY <2>6, <2>7, <3>2
    <3>. QED BY <3>1, <3>2
  <2>11. Sorted(T, k, s)
    BY <2>8, <2>9, <2>10 DEF Sorted
  <2>. QED BY <1>4, <2>11
<1>. QED BY <1>6, <1>7

\* What a command goes through is what there is.
LEMMA OrderLists ==
  ASSUME DraftingAssumption, NEW some \in SUBSET Drafts
  PROVE  /\ InOrder(some) \in Seq(Drafts)
         /\ \A f \in some : \E i \in DOMAIN InOrder(some) : InOrder(some)[i] = f
<1>. USE DEF DraftingAssumption
<1>1. some \in SUBSET Nat /\ IsFiniteSet(some)
  BY FS_Subset
<1>2. PICK k \in Nat : k = Cardinality(some)
  BY <1>1, SortingExists
<1>3. PICK s : Sorted(some, k, s)
  BY <1>1, <1>2, SortingExists
<1>4. s \in [1..k -> some] /\ ToSet(s) = some /\ \A i, j \in DOMAIN s : i < j => s[i] < s[j]
  BY <1>3 DEF Sorted, ToSet
<1>5. PICK order : order = InOrder(some)
  OBVIOUS
<1>6. order \in [1..k -> some] /\ ToSet(order) = some
  BY <1>2, <1>4, <1>5 DEF InOrder
<1>7. \A f \in some : \E i \in DOMAIN order : order[i] = f
  BY <1>6 DEF ToSet
<1>8. order \in [1..k -> Drafts]
  BY <1>6
<1>9. \A D : \A n \in Nat : \A q \in [1..n -> D] : q \in Seq(D)
  OBVIOUS
<1>10. order \in Seq(Drafts)
  BY <1>8, <1>9
<1>. QED BY <1>5, <1>7, <1>10

Fields == {"kind", "step", "todo", "force", "publish", "seen", "env"}

DraftsTyped ==
  /\ DOMAIN rows = Scopes \X Drafts /\ DOMAIN folder = Drafts
  /\ DOMAIN handed = Drafts /\ DOMAIN held = Drafts /\ hands \in Nat

\* A command goes through files; what it is at, and what the language model is asked for
\* with a key of its provider, it found out before.
RunIsSound ==
  running # NoRun =>
    /\ DOMAIN running = Fields /\ running.todo \in Seq(Drafts)
    /\ running.step \in {"generate", "publish"} => running.todo # <<>>
    /\ running.step = "generate" =>
         /\ CanGenerate(running.env)
         /\ running.kind = "generate" /\ ~running.force => manifest[Head(running.todo)] = "nobody"

\* Texts a file had since the command started include the one it has.
HeldIsKnown == running # NoRun => \A f \in Drafts : folder[f] \in held[f]

Migrated(f) == NoFileText \in held[f] \/ handed[f] \cap held[f] # {}

\* A migration that has its plan owes the registry what is not yet handed over.
MigrationOwes ==
  running # NoRun /\ running.kind = "migrate" /\ running.step = "file" =>
    \A f \in Drafts : manifest[f] = "repo" =>
      Migrated(f) \/ \E i \in DOMAIN running.todo : running.todo[i] = f

DraftingInv == DraftsTyped /\ RunIsSound /\ HeldIsKnown /\ MigrationOwes

\* What the steps promise.
TextsStayed ==
  \A x \in Scopes \X Drafts :
    ByCommand /\ rows[x] # NoRow /\ rows[x].status # "draft" => rows'[x].text = rows[x].text

Completed ==
  /\ ~stamped /\ stamped'
       => \A f \in Drafts : manifest[f] = "repo" => NoFileText \in held[f] \/ handed[f] \cap held[f] # {}
  /\ running # NoRun /\ running.kind = "generate" /\ ~running.force /\ hands' = hands
       => \A f \in Drafts : manifest[f] # "nobody" => folder'[f] = folder[f]

Promised == DraftingInv' /\ TextsStayed /\ Completed

LEMMA DraftingStarts ==
  ASSUME DraftingAssumption, DraftingInit
  PROVE  DraftingInv
BY DEF DraftingInit, DraftingInv, DraftsTyped, RunIsSound, HeldIsKnown, MigrationOwes

\* Other people change rows, requests and files, and no command.
LEMMA OthersKeepDrafts ==
  ASSUME DraftingInv, Others, DOMAIN rows' = DOMAIN rows, UNCHANGED handed,
         DOMAIN folder' = Drafts, DOMAIN held' = Drafts,
         \A f \in Drafts : held[f] \subseteq held'[f] /\ (folder[f] \in held[f] => folder'[f] \in held'[f])
  PROVE  Promised
<1>1. hands \in Nat /\ hands' = hands + 1 /\ UNCHANGED <<manifest, stamped, running, runs>>
  BY DEF Others, DraftingInv, DraftsTyped
<1>2. hands' # hands /\ hands' \in Nat
  BY <1>1
<1>3. DraftsTyped' /\ RunIsSound' /\ HeldIsKnown'
  BY <1>1, <1>2 DEF DraftingInv, DraftsTyped, RunIsSound, HeldIsKnown, CanGenerate, InferProvider, ProviderApiKey
<1>4. \A f \in Drafts : Migrated(f) => Migrated(f)'
  BY DEF Migrated
<1>5. MigrationOwes'
  BY <1>1, <1>4 DEF DraftingInv, MigrationOwes
<1>. QED BY <1>1, <1>2, <1>3, <1>5 DEF Promised, DraftingInv, TextsStayed, Completed, ByCommand

LEMMA PeopleKeep ==
  ASSUME DraftingInv,
         \/ \E f \in Drafts, text \in Wordings \cup {NoFileText} : EditFile(f, text)
         \/ \E x \in Scopes \X Drafts :
              \/ \E text \in Wordings : AddSpec(x, text, IF x[1] = "project" THEN "draft" ELSE "published")
              \/ PublishDraft(x) \/ DeleteSpec(x) \/ RestoreSpec(x)
         \/ \E r \in requests, approve \in BOOLEAN : DecideRequest(r, approve)
  PROVE  Promised
<1>1. ASSUME NEW f \in Drafts, NEW text \in Wordings \cup {NoFileText}, EditFile(f, text)
      PROVE  Promised
  BY <1>1, OthersKeepDrafts DEF EditFile, DraftingInv, DraftsTyped
<1>2. ASSUME Registry, DOMAIN rows' = DOMAIN rows
      PROVE  Promised
  BY <1>2, OthersKeepDrafts DEF Registry, DraftingInv, DraftsTyped
<1>3. ASSUME NEW x \in Scopes \X Drafts,
             \/ \E text \in Wordings : AddSpec(x, text, IF x[1] = "project" THEN "draft" ELSE "published")
             \/ PublishDraft(x) \/ DeleteSpec(x) \/ RestoreSpec(x)
      PROVE  Promised
  BY <1>2, <1>3 DEF AddSpec, PublishDraft, DeleteSpec, RestoreSpec
<1>4. ASSUME NEW r \in requests, NEW approve \in BOOLEAN, DecideRequest(r, approve)
      PROVE  Promised
  BY <1>2, <1>4 DEF DecideRequest
<1>. QED BY <1>1, <1>3, <1>4

\* Commands start.
LEMMA BeginningKeeps ==
  ASSUME DraftingInv, NEW begun, Beginning(begun), DOMAIN handed' = Drafts,
         DOMAIN begun = Fields, begun.todo \in Seq(Drafts), begun.step \in {"check", "snapshot", "plan"}
  PROVE  Promised
<1>1. /\ running = NoRun /\ running' = begun /\ held' = [f \in Drafts |-> {folder[f]}]
      /\ UNCHANGED <<rows, requests, folder, manifest, stamped, hands>>
  BY DEF Beginning
<1>2. DraftsTyped' /\ RunIsSound' /\ HeldIsKnown' /\ MigrationOwes'
  BY <1>1 DEF DraftingInv, DraftsTyped, RunIsSound, HeldIsKnown, MigrationOwes
<1>. QED BY <1>1, <1>2 DEF Promised, DraftingInv, TextsStayed, Completed, ByCommand

LEMMA StartsKeep ==
  ASSUME DraftingAssumption, DraftingInv,
         \/ \E setting \in Environments, force \in BOOLEAN : StartGenerate(setting, force)
         \/ \E force, publish \in BOOLEAN : StartSubmit(force, publish)
         \/ StartMigrate
  PROVE  Promised
<1>1. InOrder(Templates) \in Seq(Drafts) /\ InOrder(LocalFiles) \in Seq(Drafts) /\ <<>> \in Seq(Drafts)
  BY OrderLists DEF DraftingAssumption, LocalFiles
<1>2. DOMAIN handed = Drafts
  BY DEF DraftingInv, DraftsTyped
<1>3. ASSUME NEW setting \in Environments, NEW force \in BOOLEAN, StartGenerate(setting, force)
      PROVE  Promised
  <2>. DEFINE begun == [kind |-> "generate", step |-> "check", todo |-> InOrder(Templates), force |-> force,
                      publish |-> FALSE, seen |-> NoRow, env |-> setting]
  <2>1. DOMAIN begun = Fields /\ begun.todo \in Seq(Drafts) /\ begun.step = "check"
    BY <1>1 DEF Fields
  <2>2. Beginning(begun) /\ handed' = handed
    BY <1>3 DEF StartGenerate
  <2>. HIDE DEF begun
  <2>. QED BY <1>2, <2>1, <2>2, BeginningKeeps
<1>4. ASSUME NEW force \in BOOLEAN, NEW publish \in BOOLEAN, StartSubmit(force, publish)
      PROVE  Promised
  <2>. DEFINE begun == [kind |-> "submit", step |-> "snapshot", todo |-> InOrder(LocalFiles), force |-> force,
                      publish |-> publish, seen |-> NoRow, env |-> NoRun]
  <2>1. DOMAIN begun = Fields /\ begun.todo \in Seq(Drafts) /\ begun.step = "snapshot"
    BY <1>1 DEF Fields
  <2>2. Beginning(begun) /\ handed' = handed
    BY <1>4 DEF StartSubmit
  <2>. HIDE DEF begun
  <2>. QED BY <1>2, <2>1, <2>2, BeginningKeeps
<1>5. CASE StartMigrate
  <2>1. PICK snapshot : snapshot = Snapshot
    OBVIOUS
  <2>. DEFINE begun == [kind |-> "migrate", step |-> "plan", todo |-> <<>>, force |-> TRUE, publish |-> FALSE,
                      seen |-> snapshot, env |-> NoRun]
  <2>2. DOMAIN begun = Fields /\ begun.todo \in Seq(Drafts) /\ begun.step = "plan"
    BY <1>1 DEF Fields
  <2>3. Beginning(begun) /\ handed' = [f \in Drafts |-> {}]
    BY <1>5, <2>1 DEF StartMigrate
  <2>. HIDE DEF begun
  <2>. QED BY <2>2, <2>3, BeginningKeeps
<1>. QED BY <1>3, <1>4, <1>5


LEMMA FirstAndRest ==
  ASSUME NEW q \in Seq(Drafts), q # <<>>
  PROVE  /\ Head(q) \in Drafts /\ Tail(q) \in Seq(Drafts)
         /\ \A i \in DOMAIN q : q[i] = Head(q) \/ \E j \in DOMAIN Tail(q) : Tail(q)[j] = q[i]
<1>1. Head(q) = q[1] /\ Head(q) \in Drafts /\ Tail(q) \in Seq(Drafts)
  OBVIOUS
<1>2. ASSUME NEW i \in DOMAIN q, i # 1
      PROVE  i - 1 \in DOMAIN Tail(q) /\ Tail(q)[i - 1] = q[i]
  BY <1>2
<1>. QED BY <1>1, <1>2

LEMMA Continues ==
  ASSUME DOMAIN running = Fields, NEW step, NEW todo, Continue(step, todo)
  PROVE  /\ DOMAIN running' = Fields /\ running'.step = step /\ running'.todo = todo
         /\ running'.kind = running.kind /\ running'.force = running.force /\ running'.env = running.env
BY DEF Continue, Fields

\* Commands that talk to the registry.
LEMMA CallsKeep ==
  ASSUME DraftingInv, running # NoRun, Following, DOMAIN rows' = DOMAIN rows, DOMAIN handed' = Drafts,
         TextsStayed, RunIsSound', MigrationOwes'
  PROVE  Promised
<1>1. DraftsTyped' /\ HeldIsKnown'
  BY DEF DraftingInv, DraftsTyped, HeldIsKnown, Following
<1>2. Completed
  BY DEF Completed, Following
<1>. QED BY <1>1, <1>2 DEF Promised, DraftingInv

LEMMA HandedOver ==
  ASSUME DraftingInv, NEW f \in Drafts, NEW seen, NEW text, HandOver(f, seen, text)
  PROVE  /\ DOMAIN rows' = DOMAIN rows /\ DOMAIN handed' = Drafts /\ TextsStayed
         /\ text \in handed'[f] /\ \A g \in Drafts : handed[g] \subseteq handed'[g]
<1>1. Own(f) \in DOMAIN rows /\ DOMAIN rows = Scopes \X Drafts /\ DOMAIN handed = Drafts
  BY DEF DraftingInv, DraftsTyped, Own, Scopes
<1>2. handed' = [handed EXCEPT ![f] = handed[f] \cup {text}]
  BY <1>1 DEF HandOver
<1>3. CASE Creates(seen)
  <2>1. rows[Own(f)] = NoRow /\ rows' = [rows EXCEPT ![Own(f)] = [status |-> "draft", text |-> text, deleted |-> FALSE]]
    BY <1>3 DEF HandOver, Accepts
  <2>. QED BY <1>1, <1>2, <2>1 DEF TextsStayed
<1>4. CASE Edits(seen)
  <2>1. rows[Own(f)].status = "draft" /\ rows' = [rows EXCEPT ![Own(f)].text = text]
    BY <1>4 DEF HandOver, Accepts, Edits
  <2>. QED BY <1>1, <1>2, <2>1 DEF TextsStayed
<1>5. CASE ~Creates(seen) /\ ~Edits(seen)
  <2>1. rows' = [rows EXCEPT ![Own(f)].status = "pending_review"]
    BY <1>5 DEF HandOver
  <2>2. \A x \in DOMAIN rows : rows'[x].text = rows[x].text
    BY <1>1, <2>1
  <2>. QED BY <1>1, <1>2, <2>1, <2>2 DEF TextsStayed
<1>. QED BY <1>3, <1>4, <1>5

LEMMA QuietCalls ==
  ASSUME DraftingInv, UNCHANGED <<rows, handed>>
  PROVE  DOMAIN rows' = DOMAIN rows /\ DOMAIN handed' = Drafts /\ TextsStayed
BY DEF DraftingInv, DraftsTyped, TextsStayed

LEMMA RunsEnd ==
  ASSUME DraftingInv, EndRun
  PROVE  Promised
<1>1. running # NoRun /\ running' = NoRun /\ UNCHANGED <<rows, handed>> /\ Following
  BY DEF EndRun, Finish, RegistryStays
<1>2. RunIsSound' /\ MigrationOwes'
  BY <1>1 DEF RunIsSound, MigrationOwes
<1>. QED BY <1>1, <1>2, QuietCalls, CallsKeep

LEMMA GenerateKeeps ==
  ASSUME DraftingInv, CheckTarget \/ \E text \in Answers : WriteGenerated(text)
  PROVE  Promised
<1>1. /\ running # NoRun /\ running.kind = "generate" /\ DOMAIN running = Fields /\ running.todo \in Seq(Drafts)
  BY DEF CheckTarget, WriteGenerated, Step, DraftingInv, RunIsSound
<1>2. CASE CheckTarget
  <2>1. Following /\ UNCHANGED <<rows, handed>>
    BY <1>2 DEF CheckTarget, RegistryStays
  <2>2. CASE Finish
    <3>1. EndRun
      BY <1>1, <1>2, <2>2 DEF EndRun, CheckTarget
    <3>. QED BY <3>1, RunsEnd
  <2>3. CASE ~Finish
    <3>1. /\ running.todo # <<>> /\ Continue("generate", running.todo) /\ CanGenerate(running.env)
          /\ running.force \/ manifest[Head(running.todo)] = "nobody"
      BY <1>2, <2>3 DEF CheckTarget
    <3>2. /\ DOMAIN running' = Fields /\ running'.step = "generate" /\ running'.todo = running.todo
          /\ running'.kind = "generate" /\ running'.force = running.force /\ running'.env = running.env
      BY <1>1, <3>1, Continues
    <3>3. manifest' = manifest
      BY <2>1 DEF Following
    <3>4. RunIsSound'
      BY <1>1, <3>1, <3>2, <3>3 DEF RunIsSound, CanGenerate, InferProvider, ProviderApiKey
    <3>5. MigrationOwes'
      BY <3>2 DEF MigrationOwes
    <3>. QED BY <1>1, <2>1, <3>4, <3>5, QuietCalls, CallsKeep
  <2>. QED BY <2>2, <2>3
<1>3. ASSUME NEW text \in Answers, WriteGenerated(text)
      PROVE  Promised
  <2>1. /\ running.step = "generate"
        /\ folder' = [folder EXCEPT ![Head(running.todo)] = text]
        /\ held' = [held EXCEPT ![Head(running.todo)] = held[Head(running.todo)] \cup {text}]
        /\ Continue("check", Tail(running.todo))
        /\ UNCHANGED <<rows, requests, manifest, stamped, handed, hands, runs>>
    BY <1>3 DEF WriteGenerated, Step, DraftingInv, DraftsTyped
  <2>2. /\ running.todo # <<>>
        /\ ~running.force => manifest[Head(running.todo)] = "nobody"
    BY <1>1, <2>1 DEF DraftingInv, RunIsSound
  <2>3. Head(running.todo) \in Drafts /\ Tail(running.todo) \in Seq(Drafts)
    BY <1>1, <2>2, FirstAndRest
  <2>4. /\ DOMAIN running' = Fields /\ running'.step = "check" /\ running'.todo = Tail(running.todo)
        /\ running'.kind = "generate"
    BY <1>1, <2>1, Continues
  <2>5. DraftsTyped'
    BY <2>1 DEF DraftingInv, DraftsTyped
  <2>6. RunIsSound' /\ MigrationOwes'
    BY <2>3, <2>4 DEF RunIsSound, MigrationOwes
  <2>7. HeldIsKnown'
    BY <1>1, <2>1, <2>3 DEF DraftingInv, DraftsTyped, HeldIsKnown
  <2>8. TextsStayed
    BY <2>1 DEF TextsStayed
  <2>9. Completed
    BY <2>1, <2>2, <2>3 DEF Completed, DraftingInv, DraftsTyped
  <2>. QED BY <2>5, <2>6, <2>7, <2>8, <2>9 DEF Promised, DraftingInv
<1>. QED BY <1>2, <1>3


LEMMA SubmitKeeps ==
  ASSUME DraftingInv, TakeSnapshot \/ SubmitFile \/ PublishCreated
  PROVE  Promised
<1>1. running # NoRun /\ running.kind = "submit" /\ DOMAIN running = Fields /\ running.todo \in Seq(Drafts) /\ Following
  BY DEF TakeSnapshot, SubmitFile, PublishCreated, Step, DraftingInv, RunIsSound
\* Every step but the last goes on with the same files or without the first.
<1>2. ASSUME NEW step \in {"file", "publish"}, NEW todo \in Seq(Drafts), step = "publish" => todo # <<>>,
             Continue(step, todo), DOMAIN rows' = DOMAIN rows, DOMAIN handed' = Drafts, TextsStayed
      PROVE  Promised
  <2>1. DOMAIN running' = Fields /\ running'.step = step /\ running'.todo = todo /\ running'.kind = "submit"
    BY <1>1, <1>2, Continues
  <2>2. RunIsSound' /\ MigrationOwes'
    BY <1>2, <2>1 DEF RunIsSound, MigrationOwes
  <2>. QED BY <1>1, <1>2, <2>2, CallsKeep
<1>3. CASE TakeSnapshot
  <2>1. PICK snapshot : snapshot = Snapshot
    OBVIOUS
  <2>2. running' = [running EXCEPT !.step = "file", !.seen = snapshot] /\ UNCHANGED <<rows, handed>>
    BY <1>3, <2>1 DEF TakeSnapshot, RegistryStays
  <2>3. DOMAIN running' = Fields /\ running'.step = "file" /\ running'.todo = running.todo /\ running'.kind = "submit"
    BY <1>1, <2>2 DEF Fields
  <2>4. RunIsSound' /\ MigrationOwes'
    BY <1>1, <2>3 DEF RunIsSound, MigrationOwes
  <2>. QED BY <1>1, <2>2, <2>4, QuietCalls, CallsKeep
<1>4. CASE SubmitFile
  <2>1. CASE running.todo = <<>>
    <3>1. EndRun
      BY <1>1, <1>4, <2>1 DEF EndRun, SubmitFile
    <3>. QED BY <3>1, RunsEnd
  <2>2. CASE running.todo # <<>>
    <3>1. PICK f, seen, text : f = Head(running.todo) /\ seen = running.seen[f] /\ text = folder[f]
      OBVIOUS
    <3>2. f \in Drafts /\ Tail(running.todo) \in Seq(Drafts)
      BY <1>1, <2>2, <3>1, FirstAndRest
    <3>3. CASE Continue("file", Tail(running.todo)) /\ RegistryStays
      BY <1>2, <3>2, <3>3, QuietCalls DEF RegistryStays
    <3>4. CASE ~(Continue("file", Tail(running.todo)) /\ RegistryStays)
      <4>1. HandOver(f, seen, text) /\ (Continue("publish", running.todo) \/ Continue("file", Tail(running.todo)))
        BY <1>4, <2>2, <3>1, <3>4 DEF SubmitFile
      <4>2. DOMAIN rows' = DOMAIN rows /\ DOMAIN handed' = Drafts /\ TextsStayed
        BY <3>2, <4>1, HandedOver
      <4>. QED BY <1>1, <1>2, <2>2, <3>2, <4>1, <4>2
    <3>. QED BY <3>3, <3>4
  <2>. QED BY <2>1, <2>2
<1>5. CASE PublishCreated
  <2>1. PICK x : x = Own(Head(running.todo))
    OBVIOUS
  <2>2. /\ rows' = [rows EXCEPT ![x].status = "published"] /\ handed' = handed
        /\ Continue("file", Tail(running.todo)) /\ running.step = "publish"
    BY <1>5, <2>1 DEF PublishCreated, Step
  <2>3. running.todo # <<>>
    BY <1>1, <2>2 DEF DraftingInv, RunIsSound
  <2>4. Tail(running.todo) \in Seq(Drafts)
    BY <1>1, <2>3, FirstAndRest
  <2>5. DOMAIN rows' = DOMAIN rows /\ DOMAIN handed' = Drafts /\ TextsStayed
    <3>1. \A y \in DOMAIN rows : rows'[y].text = rows[y].text
      BY <2>2
    <3>. QED BY <2>2, <3>1 DEF DraftingInv, DraftsTyped, TextsStayed
  <2>. QED BY <1>2, <2>2, <2>4, <2>5
<1>. QED BY <1>3, <1>4, <1>5

LEMMA MigrateKeeps ==
  ASSUME DraftingAssumption, DraftingInv, Plan \/ UploadFile \/ Stamp
  PROVE  Promised
<1>1. /\ running # NoRun /\ running.kind = "migrate" /\ DOMAIN running = Fields /\ running.todo \in Seq(Drafts)
      /\ \A f \in Drafts : folder[f] \in held[f]
  BY DEF Plan, UploadFile, Stamp, Step, DraftingInv, RunIsSound, HeldIsKnown
<1>2. ASSUME NEW todo \in Seq(Drafts), Continue("file", todo), Following,
             DOMAIN rows' = DOMAIN rows, DOMAIN handed' = Drafts, TextsStayed,
             \A f \in Drafts : manifest[f] = "repo" => Migrated(f)' \/ \E i \in DOMAIN todo : todo[i] = f
      PROVE  Promised
  <2>1. DOMAIN running' = Fields /\ running'.step = "file" /\ running'.todo = todo /\ running'.kind = "migrate"
    BY <1>1, <1>2, Continues
  <2>2. manifest' = manifest
    BY <1>2 DEF Following
  <2>3. RunIsSound'
    BY <1>2, <2>1 DEF RunIsSound
  <2>4. MigrationOwes'
    BY <1>2, <2>1, <2>2 DEF MigrationOwes
  <2>. QED BY <1>1, <1>2, <2>3, <2>4, CallsKeep
<1>3. CASE Plan
  <2>. DEFINE planned == {f \in LocalFiles : manifest[f] = "repo"}
              alike == {f \in planned : Compared(f)}
  <2>1. /\ Continue("file", InOrder(planned \ alike)) /\ Following /\ UNCHANGED rows
        /\ handed' = [f \in Drafts |-> IF f \in alike THEN handed[f] \cup {folder[f]} ELSE handed[f]]
    BY <1>3 DEF Plan
  <2>2. PICK left, same : left = planned \ alike /\ same = alike
    OBVIOUS
  <2>3. left \in SUBSET Drafts
    BY <2>2 DEF LocalFiles
  <2>4. PICK todo : todo = InOrder(left)
    OBVIOUS
  <2>5. todo \in Seq(Drafts) /\ \A f \in left : \E i \in DOMAIN todo : todo[i] = f
    BY <2>3, <2>4, OrderLists
  <2>6. ASSUME NEW f \in Drafts, manifest[f] = "repo"
        PROVE  Migrated(f)' \/ \E i \in DOMAIN todo : todo[i] = f
    <3>1. held' = held
      BY <2>1 DEF Following
    <3>2. CASE f \notin LocalFiles
      BY <1>1, <3>1, <3>2 DEF LocalFiles, Migrated
    <3>3. CASE f \in alike
      <4>1. folder[f] \in handed'[f]
        BY <2>1, <3>3
      <4>. QED BY <1>1, <3>1, <4>1 DEF Migrated
    <3>4. CASE f \in left
      BY <2>5, <3>4
    <3>. QED BY <2>2, <2>6, <3>2, <3>3, <3>4
  <2>7. DOMAIN handed' = Drafts
    BY <2>1
  <2>8. DOMAIN rows' = DOMAIN rows /\ TextsStayed
    BY <2>1 DEF TextsStayed
  <2>9. Continue("file", todo)
    BY <2>1, <2>2, <2>4
  <2>. QED BY <1>2, <2>1, <2>5, <2>6, <2>7, <2>8, <2>9
<1>4. CASE UploadFile
  <2>1. PICK f, seen, text : f = Head(running.todo) /\ seen = running.seen[f] /\ text = folder[f]
    OBVIOUS
  <2>2. /\ running.step = "file" /\ running.todo # <<>> /\ HandOver(f, seen, text)
        /\ Continue("file", Tail(running.todo)) /\ Following
    BY <1>4, <2>1 DEF UploadFile, Step
  <2>3. /\ f \in Drafts /\ Tail(running.todo) \in Seq(Drafts)
        /\ \A i \in DOMAIN running.todo :
             running.todo[i] = f \/ \E j \in DOMAIN Tail(running.todo) : Tail(running.todo)[j] = running.todo[i]
    BY <1>1, <2>1, <2>2, FirstAndRest
  <2>4. /\ DOMAIN rows' = DOMAIN rows /\ DOMAIN handed' = Drafts /\ TextsStayed
        /\ text \in handed'[f] /\ \A g \in Drafts : handed[g] \subseteq handed'[g]
    BY <2>2, <2>3, HandedOver
  <2>5. held' = held
    BY <2>2 DEF Following
  <2>6. Migrated(f)' /\ \A g \in Drafts : Migrated(g) => Migrated(g)'
    BY <1>1, <2>1, <2>3, <2>4, <2>5 DEF Migrated
  <2>7. \A g \in Drafts : manifest[g] = "repo" => Migrated(g) \/ \E i \in DOMAIN running.todo : running.todo[i] = g
    BY <1>1, <2>2 DEF DraftingInv, MigrationOwes
  <2>8. \A g \in Drafts : manifest[g] = "repo" =>
          Migrated(g)' \/ \E j \in DOMAIN Tail(running.todo) : Tail(running.todo)[j] = g
    BY <2>3, <2>6, <2>7
  <2>. QED BY <1>2, <2>2, <2>3, <2>4, <2>8
<1>5. CASE Stamp
  <2>1. /\ running.step = "file" /\ running.todo = <<>> /\ running' = NoRun
        /\ UNCHANGED <<rows, handed, folder, manifest, held, hands, runs>>
    BY <1>5 DEF Stamp, Step, Finish, RegistryStays
  <2>2. \A f \in Drafts : manifest[f] = "repo" => Migrated(f)
    <3>1. DOMAIN running.todo = {}
      BY <2>1
    <3>2. \A f \in Drafts : manifest[f] = "repo" =>
            Migrated(f) \/ \E i \in DOMAIN running.todo : running.todo[i] = f
      BY <1>1, <2>1 DEF DraftingInv, MigrationOwes
    <3>. QED BY <3>1, <3>2
  <2>3. DraftsTyped' /\ RunIsSound' /\ HeldIsKnown' /\ MigrationOwes'
    BY <2>1 DEF DraftingInv, DraftsTyped, RunIsSound, HeldIsKnown, MigrationOwes
  <2>4. TextsStayed /\ Completed
    BY <2>1, <2>2 DEF TextsStayed, Completed, Migrated
  <2>. QED BY <2>3, <2>4 DEF Promised, DraftingInv
<1>. QED BY <1>3, <1>4, <1>5

LEMMA DraftingStutters ==
  ASSUME DraftingInv, UNCHANGED draftVars
  PROVE  Promised
<1>1. /\ UNCHANGED <<rows, requests, folder, manifest, stamped, running, handed, held, hands, runs>>
  BY DEF draftVars
<1>2. DraftsTyped' /\ RunIsSound' /\ HeldIsKnown' /\ MigrationOwes'
  BY <1>1 DEF DraftingInv, DraftsTyped, RunIsSound, HeldIsKnown, MigrationOwes, Migrated,
     CanGenerate, InferProvider, ProviderApiKey
<1>3. TextsStayed /\ Completed
  BY <1>1 DEF TextsStayed, Completed
<1>. QED BY <1>2, <1>3 DEF Promised, DraftingInv

LEMMA DraftingStep ==
  ASSUME DraftingAssumption, DraftingInv, [DraftingNext]_draftVars
  PROVE  Promised
BY PeopleKeep, StartsKeep, GenerateKeeps, SubmitKeeps, MigrateKeeps, RunsEnd, DraftingStutters DEF DraftingNext

LEMMA KeysAreKept ==
  ASSUME DraftingInv
  PROVE  ProvidersKeepTheirKeys
BY DEF DraftingInv, RunIsSound, ProvidersKeepTheirKeys, CanGenerate, InferProvider, ProviderApiKey

\* However old the list of specs a command decides from, it changes no governed text; a
\* manifest names the other registry only after a text of each file got there; files that others
\* govern are not overwritten; and no model is asked with another provider's key
\* (cli/src/generate.ts, submitDrafts.ts, migrate.ts).
THEOREM DraftsStayProposed == DraftingSpec => DraftsAreProposed
<1>1. DraftingInit => DraftingInv
  BY DraftingStarts, DraftingAssumption
<1>2. DraftingInv /\ [DraftingNext]_draftVars => DraftingInv'
  BY DraftingStep, DraftingAssumption DEF Promised
<1>3. DraftingInv => ProvidersKeepTheirKeys
  BY KeysAreKept
<1>4. DraftingInv /\ [DraftingNext]_draftVars =>
        [\A x \in Scopes \X Drafts :
           ByCommand /\ rows[x] # NoRow /\ rows[x].status # "draft" => rows'[x].text = rows[x].text]_draftVars
  BY DraftingStep, DraftingAssumption DEF Promised, TextsStayed
<1>5. DraftingInv /\ [DraftingNext]_draftVars =>
        [/\ ~stamped /\ stamped'
              => \A f \in Drafts : manifest[f] = "repo" => NoFileText \in held[f] \/ handed[f] \cap held[f] # {}
         /\ running # NoRun /\ running.kind = "generate" /\ ~running.force /\ hands' = hands
              => \A f \in Drafts : manifest[f] # "nobody" => folder'[f] = folder[f]]_draftVars
  BY DraftingStep, DraftingAssumption DEF Promised, Completed
<1>. QED BY <1>1, <1>2, <1>3, <1>4, <1>5, PTL
     DEF DraftingSpec, DraftsAreProposed, GovernedTextsStay, MigrationIsComplete

(***************************************************************************)
(* Tasks and the files that stand for them.                                *)
(***************************************************************************)

\* The largest of finitely many numbers is one of them.
LEMMA LargestExists ==
  ASSUME NEW T \in SUBSET Nat, IsFiniteSet(T), T # {}
  PROVE  \E m \in T : \A n \in T : m >= n
<1>1. PICK k : k = Cardinality(T)
  OBVIOUS
<1>2. k \in Nat /\ k # 0
  BY <1>1, FS_CardinalityType, FS_EmptySet
<1>3. PICK s : Sorted(T, k, s)
  BY <1>1, SortingExists
<1>4. s[k] \in T /\ \A i \in 1..k : i = k \/ s[i] < s[k]
  BY <1>2, <1>3 DEF Sorted
<1>5. \A n \in T : n = s[k] \/ n < s[k]
  BY <1>3, <1>4 DEF Sorted
<1>6. PICK m \in T : m = s[k]
  BY <1>4
<1>7. \A n \in T : n \in Int /\ m \in Int
  OBVIOUS
<1>. QED BY <1>5, <1>6, <1>7

TaskNames == {FileName(n, g) : n \in Nat, g \in Slugs}

\* Of the files a reference may mean there is a first.
LEMMA FirstExists ==
  ASSUME TasksAssumption, NEW meant \in SUBSET TaskNames, meant # {}
  PROVE  \E f \in meant : \A g \in meant : f = g \/ Earlier(f, g)
<1>1. \A f \in TaskNames : f.number \in Nat /\ f.slug \in Nat /\ f = FileName(f.number, f.slug)
  BY DEF TaskNames, FileName, TasksAssumption
<1>2. PICK n \in {f.number : f \in meant} : \A m \in {f.number : f \in meant} : n <= m
  <2>1. {f.number : f \in meant} \in SUBSET Nat /\ {f.number : f \in meant} # {}
    BY <1>1
  <2>. QED BY <2>1, Minimum
<1>. DEFINE slugs == {f.slug : f \in {h \in meant : h.number = n}}
<1>3. PICK g \in slugs : \A h \in slugs : g <= h
  <2>1. slugs \in SUBSET Nat /\ slugs # {}
    BY <1>1, <1>2
  <2>. HIDE DEF slugs
  <2>. QED BY <2>1, Minimum
<1>4. PICK f \in meant : f.number = n /\ f.slug = g
  BY <1>3
<1>5. ASSUME NEW h \in meant
      PROVE  f = h \/ Earlier(f, h)
  <2>1. f.number <= h.number /\ f.number \in Nat /\ h.number \in Nat /\ f.slug \in Nat /\ h.slug \in Nat
    BY <1>1, <1>2, <1>4
  <2>2. h.number = f.number => f.slug <= h.slug
    BY <1>3, <1>4
  <2>3. h.number = f.number /\ h.slug = f.slug => f = h
    BY <1>1
  <2>. QED BY <2>1, <2>2, <2>3 DEF Earlier
<1>. QED BY <1>4, <1>5

\* A title that was told by this name.
IsTold(name, title) == \E t \in told : t.name = Printed(name) /\ t.title = title

Creating == {"step", "title", "refs", "fallback"}

CommandIsTyped(c) ==
  c # NoCommand =>
    /\ c.step \in {"create", "number", "write"}
    /\ c.step \in {"create", "number"} => DOMAIN c = Creating /\ c.title \in Titles
    /\ c.step = "create" => hosted /\ token
    /\ c.step = "write" => c.name \in TaskNames /\ c.opens \in BOOLEAN
    /\ c.step = "write" /\ ~c.opens => c.name \in DOMAIN files /\ IsTold(c.name, c.title)

TasksTyped ==
  /\ DOMAIN run = Users /\ \A u \in Users : CommandIsTyped(run[u])
  /\ issues \in Seq([title : Titles, open : BOOLEAN])
  /\ Len(issues) > 0 => hosted /\ token
  /\ DOMAIN files \subseteq TaskNames /\ IsFiniteSet(DOMAIN files)
  /\ \A f \in DOMAIN files : files[f].fallback

\* What was told is an issue of that title or a file.
NamesAreTrue ==
  \A t \in told :
    \/ \E n \in 1..Len(issues) : t.name = Printed(Issue(n)) /\ t.title = issues[n].title
    \/ \E f \in DOMAIN files : t.name = Printed(f)

\* A file has a title that was told by its name, each user was told one, and who opens a file was
\* told nothing by its name.
TitlesAreTold == \A f \in DOMAIN files : IsTold(f, files[f].title)
ToldOnce == \A s, t \in told : s.name = t.name /\ s.by = t.by /\ ~Digits(Bare(s.name)) => s.title = t.title
NewTo(u, c) ==
  c # NoCommand /\ c.step = "write" /\ c.opens => \A t \in told : t.by = u => t.name # Printed(c.name)

TellingIsTrue == NamesAreTrue /\ TitlesAreTold /\ ToldOnce /\ \A u \in Users : NewTo(u, run[u])

\* A fallback that has not written its file yet is owed one by an outage.
OwesFile(c) == c # NoCommand /\ (c.step = "number" \/ (c.step = "write" /\ c.opens))
Owing == {u \in Users : OwesFile(run[u])}
OutagesCover == outages \in Nat /\ Cardinality(DOMAIN files) + Cardinality(Owing) <= outages

TasksInv == TasksTyped /\ TellingIsTrue /\ OutagesCover

\* One command goes on and files stay.
LEMMA OwingFollows ==
  ASSUME TasksAssumption, NEW u \in Users, NEW c, DOMAIN run = Users, run' = [run EXCEPT ![u] = c]
  PROVE  /\ Owing' = IF OwesFile(c) THEN Owing \cup {u} ELSE Owing \ {u}
         /\ u \in Owing <=> OwesFile(run[u])
         /\ IsFiniteSet(Owing) /\ IsFiniteSet(Owing') /\ Cardinality(Owing) \in Nat
         /\ OwesFile(c) => Cardinality(Owing') <= Cardinality(Owing) + 1
         /\ OwesFile(c) => (OwesFile(run[u]) => Cardinality(Owing') = Cardinality(Owing))
         /\ ~OwesFile(c) => Cardinality(Owing') <= Cardinality(Owing)
         /\ ~OwesFile(c) => (OwesFile(run[u]) => Cardinality(Owing') = Cardinality(Owing) - 1)
<1>1. Owing' = IF OwesFile(c) THEN Owing \cup {u} ELSE Owing \ {u}
  <2>1. \A v \in Users : run'[v] = IF v = u THEN c ELSE run[v]
    OBVIOUS
  <2>2. \A v \in Users : v \in Owing' <=> OwesFile(run'[v])
    BY DEF Owing, OwesFile
  <2>. QED BY <2>1, <2>2 DEF Owing
<1>2. u \in Owing <=> OwesFile(run[u])
  BY DEF Owing
<1>3. Owing \subseteq Users /\ IsFiniteSet(Users)
  BY DEF Owing, TasksAssumption
<1>4. PICK before, after : before = Owing /\ after = Owing'
  OBVIOUS
<1>5. IsFiniteSet(before) /\ Cardinality(before) \in Nat
  BY <1>3, <1>4, FS_Subset, FS_CardinalityType
<1>6. /\ IsFiniteSet(before \cup {u})
      /\ Cardinality(before \cup {u}) = IF u \in before THEN Cardinality(before) ELSE Cardinality(before) + 1
  BY <1>5, FS_AddElement
<1>7. /\ IsFiniteSet(before \ {u})
      /\ Cardinality(before \ {u}) = IF u \in before THEN Cardinality(before) - 1 ELSE Cardinality(before)
  BY <1>5, FS_RemoveElement
<1>8. CASE OwesFile(c)
  <2>1. after = before \cup {u}
    BY <1>1, <1>4, <1>8
  <2>. QED BY <1>1, <1>2, <1>4, <1>5, <1>6, <1>8, <2>1
<1>9. CASE ~OwesFile(c)
  <2>1. after = before \ {u}
    BY <1>1, <1>4, <1>9
  <2>. QED BY <1>1, <1>2, <1>4, <1>5, <1>7, <1>9, <2>1
<1>. QED BY <1>8, <1>9

\* A step that leaves the files alone.
LEMMA CommandGoesOn ==
  ASSUME TasksAssumption, TasksInv, NEW u \in Users, NEW c, run' = [run EXCEPT ![u] = c], CommandIsTyped(c),
         UNCHANGED <<hosted, token, files>>, told \subseteq told'
  PROVE  DOMAIN run' = Users /\ \A v \in Users : CommandIsTyped(run[v])'
<1>1. DOMAIN run = Users /\ \A v \in Users : CommandIsTyped(run[v])
  BY DEF TasksInv, TasksTyped
<1>2. \A v \in Users : run'[v] = IF v = u THEN c ELSE run[v]
  BY <1>1
<1>3. ASSUME NEW v \in Users
      PROVE  CommandIsTyped(run[v])'
  <2>1. run'[v] \in {c, run[v]} /\ CommandIsTyped(run[v])
    BY <1>1, <1>2
  <2>2. \A name, title : IsTold(name, title) => IsTold(name, title)'
    BY DEF IsTold
  <2>. QED BY <2>1, <2>2 DEF CommandIsTyped
<1>. QED BY <1>1, <1>3

IssuesStay ==
  /\ Len(issues) \in Nat /\ Len(issues') \in Nat /\ Len(issues) <= Len(issues')
  /\ \A n \in 1..Len(issues) : issues'[n].title = issues[n].title

\* A step that tells nothing.
LEMMA NothingIsTold ==
  ASSUME TasksInv, NEW u \in Users, NEW c, run' = [run EXCEPT ![u] = c], NewTo(u, c), UNCHANGED <<files, told>>,
         IssuesStay
  PROVE  TellingIsTrue'
<1>1. NamesAreTrue /\ TitlesAreTold /\ ToldOnce /\ DOMAIN run = Users /\ \A v \in Users : NewTo(v, run[v])
  BY DEF TasksInv, TasksTyped, TellingIsTrue
<1>2. NamesAreTrue'
  <2>1. \A n \in 1..Len(issues) : n \in 1..Len(issues') /\ issues'[n].title = issues[n].title
    BY DEF IssuesStay
  <2>. QED BY <1>1, <2>1 DEF NamesAreTrue
<1>3. TitlesAreTold' /\ ToldOnce'
  BY <1>1 DEF TitlesAreTold, ToldOnce, IsTold
<1>4. ASSUME NEW v \in Users
      PROVE  NewTo(v, run[v])'
  <2>1. (v = u /\ run'[v] = c) \/ run'[v] = run[v]
    BY <1>1
  <2>. QED BY <1>1, <2>1 DEF NewTo
<1>. QED BY <1>2, <1>3, <1>4 DEF TellingIsTrue

LEMMA TasksStart ==
  ASSUME TasksAssumption, TasksInit
  PROVE  TasksInv
<1>1. DOMAIN files = {} /\ Owing = {}
  BY DEF TasksInit, Owing, OwesFile
<1>2. IsFiniteSet({}) /\ Cardinality({}) = 0
  BY FS_EmptySet
<1>3. OutagesCover
  BY <1>1, <1>2 DEF TasksInit, OutagesCover
<1>4. TasksTyped
  BY <1>1, <1>2 DEF TasksInit, TasksTyped, CommandIsTyped
<1>5. TellingIsTrue
  BY <1>1 DEF TasksInit, TellingIsTrue, NamesAreTrue, TitlesAreTold, ToldOnce, NewTo
<1>. QED BY <1>3, <1>4, <1>5 DEF TasksInv

LEMMA IssuesAreCounted ==
  ASSUME TasksInv
  PROVE  /\ Len(issues) \in Nat /\ DOMAIN issues = 1..Len(issues)
         /\ \A n \in DOMAIN issues : issues[n] \in [title : Titles, open : BOOLEAN]
<1>1. PICK T : T = [title : Titles, open : BOOLEAN]
  OBVIOUS
<1>2. issues \in Seq(T)
  BY <1>1 DEF TasksInv, TasksTyped
<1>3. Len(issues) \in Nat /\ DOMAIN issues = 1..Len(issues) /\ \A n \in DOMAIN issues : issues[n] \in T
  BY <1>2
<1>. QED BY <1>1, <1>3

\* GitHub numbers the issue it makes next.
LEMMA IssueFiled ==
  ASSUME TasksInv, NEW title \in Titles, hosted /\ token, UNCHANGED <<hosted, token>>, issues' = Filed(title)
  PROVE  /\ issues' \in Seq([title : Titles, open : BOOLEAN]) /\ Len(issues') = Len(issues) + 1 /\ Len(issues) \in Nat
         /\ issues'[Len(issues) + 1].title = title
         /\ \A n \in 1..Len(issues) : issues'[n] = issues[n]
<1>1. PICK old, T, x : old = issues /\ T = [title : Titles, open : BOOLEAN] /\ x = [title |-> title, open |-> TRUE]
  OBVIOUS
<1>2. old \in Seq(T) /\ x \in T /\ x.title = title /\ issues' = Append(old, x)
  BY <1>1 DEF TasksInv, TasksTyped, Filed
<1>3. \A S : \A q \in Seq(S) : \A y \in S :
        /\ Append(q, y) \in Seq(S) /\ Len(Append(q, y)) = Len(q) + 1 /\ Len(q) \in Nat
        /\ Append(q, y)[Len(q) + 1] = y /\ \A n \in 1..Len(q) : Append(q, y)[n] = q[n]
  OBVIOUS
<1>. QED BY <1>1, <1>2, <1>3

\* Issues are opened while the repository is on GitHub.
LEMMA OpensKeep ==
  ASSUME TasksAssumption, TasksInv, NEW u \in Users,
         \/ \E title \in Titles, fallback \in BOOLEAN : OpenTask(u, title, SpecRefs, fallback)
         \/ IssueCreated(u) \/ \E made \in BOOLEAN : CreationFails(u, made)
  PROVE  TasksInv'
<1>1. DOMAIN run = Users /\ CommandIsTyped(run[u]) /\ UNCHANGED <<hosted, token, files>>
  BY DEF TasksInv, TasksTyped, OpenTask, IssueCreated, CreationFails
<1>2. Cardinality(DOMAIN files) \in Nat
  BY FS_CardinalityType DEF TasksInv, TasksTyped
<1>3. ASSUME NEW c, run' = [run EXCEPT ![u] = c], CommandIsTyped(c), told \subseteq told',
             issues' \in Seq([title : Titles, open : BOOLEAN]), Len(issues') > 0 => hosted /\ token, TellingIsTrue',
             outages' \in Nat, outages' = outages \/ outages' = outages + 1,
             OwesFile(c) => outages' = outages + 1
      PROVE  TasksInv'
  <2>1. DOMAIN run' = Users /\ \A v \in Users : CommandIsTyped(run[v])'
    BY <1>1, <1>3, CommandGoesOn
  <2>2. TasksTyped'
    BY <1>1, <1>3, <2>1 DEF TasksInv, TasksTyped
  <2>3. Cardinality(Owing) \in Nat
    BY <1>1, <1>3, OwingFollows
  <2>4. Cardinality(Owing') \in Nat
    BY <1>1, <1>3, OwingFollows, FS_CardinalityType
  <2>5. Cardinality(Owing') <= Cardinality(Owing) \/ (Cardinality(Owing') <= Cardinality(Owing) + 1 /\ outages' = outages + 1)
    BY <1>1, <1>3, OwingFollows
  <2>6. outages \in Nat /\ Cardinality(DOMAIN files) + Cardinality(Owing) <= outages
    BY DEF TasksInv, OutagesCover
  <2>7. OutagesCover'
    BY <1>1, <1>2, <1>3, <2>3, <2>4, <2>5, <2>6 DEF OutagesCover
  <2>. QED BY <1>3, <2>2, <2>7 DEF TasksInv
<1>5. outages \in Nat /\ issues \in Seq([title : Titles, open : BOOLEAN]) /\ (Len(issues) > 0 => hosted /\ token)
  BY DEF TasksInv, TasksTyped, OutagesCover
<1>4. Len(issues) \in Nat
  BY IssuesAreCounted
<1>6. ASSUME NEW title \in Titles, NEW fallback \in BOOLEAN, OpenTask(u, title, SpecRefs, fallback)
      PROVE  TasksInv'
  <2>1. PICK c : c = [step |-> "create", title |-> title, refs |-> SpecRefs, fallback |-> fallback]
    OBVIOUS
  <2>2. run' = [run EXCEPT ![u] = c] /\ hosted /\ token /\ UNCHANGED <<issues, told, outages>>
    BY <1>6, <2>1 DEF OpenTask
  <2>3. CommandIsTyped(c) /\ ~OwesFile(c) /\ NewTo(u, c)
    BY <2>1, <2>2 DEF CommandIsTyped, Creating, OwesFile, NewTo
  <2>5. IssuesStay
    BY <1>4, <2>2 DEF IssuesStay
  <2>4. TellingIsTrue'
    BY <1>1, <2>2, <2>3, <2>5, NothingIsTold
  <2>. QED BY <1>3, <1>5, <2>2, <2>3, <2>4
<1>7. CASE IssueCreated(u)
  <2>1. /\ run[u] # NoCommand /\ run[u].step = "create" /\ issues' = Filed(run[u].title)
        /\ told' = told \cup {[title |-> run[u].title, name |-> Printed(Issue(Len(issues) + 1)), by |-> u]}
        /\ run' = [run EXCEPT ![u] = NoCommand] /\ UNCHANGED outages
    BY <1>7 DEF IssueCreated
  <2>2. PICK title \in Titles : title = run[u].title
    BY <1>1, <2>1 DEF CommandIsTyped
  <2>3. hosted /\ token
    BY <1>1, <2>1 DEF CommandIsTyped
  <2>4. /\ issues' \in Seq([title : Titles, open : BOOLEAN]) /\ Len(issues') = Len(issues) + 1 /\ Len(issues) \in Nat
        /\ issues'[Len(issues) + 1].title = title
        /\ \A n \in 1..Len(issues) : issues'[n] = issues[n]
    BY <1>1, <2>1, <2>2, <2>3, IssueFiled
  <2>5. PICK new : new = [title |-> title, name |-> Printed(Issue(Len(issues) + 1)), by |-> u]
    OBVIOUS
  <2>6. /\ told' = told \cup {new} /\ new.title = title /\ new.name = Printed(Issue(Len(issues) + 1)) /\ new.by = u
        /\ Digits(Bare(new.name))
    BY <2>1, <2>2, <2>5 DEF Digits, Bare, Printed, Issue
  <2>7. NamesAreTrue /\ TitlesAreTold /\ ToldOnce /\ \A v \in Users : NewTo(v, run[v])
    BY DEF TasksInv, TellingIsTrue
  <2>8. NamesAreTrue'
    <3>1. ASSUME NEW t \in told'
          PROVE  \/ \E n \in 1..Len(issues') : t.name = Printed(Issue(n)) /\ t.title = issues'[n].title
                 \/ \E f \in DOMAIN files' : t.name = Printed(f)
      <4>1. CASE t \in told
        BY <1>1, <2>4, <2>7, <4>1 DEF NamesAreTrue
      <4>2. CASE t = new
        <5>1. Len(issues) + 1 \in 1..Len(issues')
          BY <2>4
        <5>. QED BY <2>4, <2>6, <4>2, <5>1
      <4>. QED BY <2>6, <4>1, <4>2
    <3>. QED BY <3>1 DEF NamesAreTrue
  <2>9. TitlesAreTold'
    BY <1>1, <2>6, <2>7 DEF TitlesAreTold, IsTold
  <2>10. ToldOnce'
    BY <2>6, <2>7 DEF ToldOnce
  <2>11. ASSUME NEW v \in Users
         PROVE  NewTo(v, run[v])'
    <3>1. v # u => run'[v] = run[v]
      BY <1>1, <2>1
    <3>2. v = u => run'[v] = NoCommand
      BY <1>1, <2>1
    <3>. QED BY <2>6, <2>7, <3>1, <3>2 DEF NewTo
  <2>12. TellingIsTrue'
    BY <2>8, <2>9, <2>10, <2>11 DEF TellingIsTrue
  <2>13. CommandIsTyped(NoCommand) /\ ~OwesFile(NoCommand)
    BY DEF CommandIsTyped, OwesFile
  <2>. QED BY <1>3, <1>5, <2>1, <2>3, <2>4, <2>12, <2>13
<1>8. ASSUME NEW made \in BOOLEAN, CreationFails(u, made)
      PROVE  TasksInv'
  <2>1. PICK c : c = IF run[u].fallback THEN [run[u] EXCEPT !.step = "number"] ELSE NoCommand
    OBVIOUS
  <2>2. /\ run[u] # NoCommand /\ run[u].step = "create" /\ issues' = IF made THEN Filed(run[u].title) ELSE issues
        /\ run' = [run EXCEPT ![u] = c] /\ outages' = outages + 1 /\ UNCHANGED told
    BY <1>8, <2>1 DEF CreationFails
  <2>3. PICK title \in Titles : title = run[u].title
    BY <1>1, <2>2 DEF CommandIsTyped
  <2>4. hosted /\ token /\ DOMAIN run[u] = Creating
    BY <1>1, <2>2 DEF CommandIsTyped
  <2>5. CommandIsTyped(c) /\ NewTo(u, c)
    <3>1. CASE run[u].fallback
      <4>1. DOMAIN c = Creating /\ c.step = "number" /\ c.title = title
        BY <2>1, <2>3, <2>4, <3>1 DEF Creating
      <4>. QED BY <4>1 DEF CommandIsTyped, NewTo
    <3>2. CASE ~run[u].fallback
      BY <2>1, <3>2 DEF CommandIsTyped, NewTo
    <3>. QED BY <3>1, <3>2
  <2>8. outages' \in Nat
    BY <1>5, <2>2
  <2>6. CASE made
    <3>1. /\ issues' \in Seq([title : Titles, open : BOOLEAN]) /\ Len(issues') = Len(issues) + 1 /\ Len(issues) \in Nat
          /\ \A n \in 1..Len(issues) : issues'[n] = issues[n]
      BY <1>1, <2>2, <2>3, <2>4, <2>6, IssueFiled
    <3>3. IssuesStay
      BY <3>1 DEF IssuesStay
    <3>2. TellingIsTrue'
      BY <1>1, <2>2, <2>5, <3>3, NothingIsTold
    <3>. QED BY <1>3, <2>2, <2>4, <2>5, <2>8, <3>1, <3>2
  <2>7. CASE ~made
    <3>2. issues' = issues /\ IssuesStay
      BY <1>4, <2>2, <2>7 DEF IssuesStay
    <3>1. issues' = issues /\ TellingIsTrue'
      BY <1>1, <2>2, <2>5, <3>2, NothingIsTold
    <3>. QED BY <1>3, <1>5, <2>2, <2>5, <2>8, <3>1
  <2>. QED BY <2>6, <2>7
<1>. QED BY <1>6, <1>7, <1>8

\* The number that is free next is more than those of the files.
LEMMA NumbersAreFree ==
  ASSUME TasksAssumption, TasksInv
  PROVE  NextTaskId \in Nat /\ \A f \in DOMAIN files : f.number < NextTaskId
<1>. DEFINE numbers == {f.number : f \in DOMAIN files}
<1>1. IsFiniteSet(numbers)
  <2>1. PICK of : of = [f \in DOMAIN files |-> f.number]
    OBVIOUS
  <2>2. of \in Surjection(DOMAIN files, numbers)
    BY <2>1 DEF Surjection
  <2>3. IsFiniteSet(DOMAIN files)
    BY DEF TasksInv, TasksTyped
  <2>. HIDE DEF numbers
  <2>. QED BY <2>2, <2>3, FS_Surjection
<1>2. numbers \in SUBSET Nat
  BY DEF TasksInv, TasksTyped, TaskNames, FileName
<1>. HIDE DEF numbers
<1>3. PICK T : T = {0} \cup numbers
  OBVIOUS
<1>4. IsFiniteSet(T) /\ T \in SUBSET Nat /\ T # {}
  <2>1. IsFiniteSet(numbers \cup {0}) /\ T = numbers \cup {0}
    BY <1>1, <1>3, FS_AddElement
  <2>. QED BY <1>2, <1>3, <2>1
<1>5. \E m \in T : \A n \in T : m >= n
  BY <1>4, LargestExists
<1>6. Max(T) \in Nat /\ \A n \in T : Max(T) >= n
  BY <1>4, <1>5 DEF Max
<1>7. NextTaskId = Max(T) + 1
  BY <1>3 DEF NextTaskId, numbers
<1>8. \A f \in DOMAIN files : f.number \in T
  BY <1>3 DEF numbers
<1>9. \A n \in T : n \in Nat
  BY <1>4
<1>. QED BY <1>6, <1>7, <1>8, <1>9

\* A fallback takes a number, a command is killed.
LEMMA CommandsGoOn ==
  ASSUME TasksAssumption, TasksInv, NEW u \in Users, TakeNumber(u) \/ KillTask(u)
  PROVE  TasksInv'
<1>1. DOMAIN run = Users /\ CommandIsTyped(run[u]) /\ run[u] # NoCommand
      /\ UNCHANGED <<hosted, token, issues, files, told, outages>>
  BY DEF TasksInv, TasksTyped, TakeNumber, KillTask
<1>2. ASSUME NEW c, run' = [run EXCEPT ![u] = c], CommandIsTyped(c), OwesFile(c) => OwesFile(run[u]), NewTo(u, c)
      PROVE  TasksInv'
  <2>1. DOMAIN run' = Users /\ \A v \in Users : CommandIsTyped(run[v])'
    BY <1>1, <1>2, CommandGoesOn
  <2>2. TasksTyped'
    BY <1>1, <2>1 DEF TasksInv, TasksTyped
  <2>3. Cardinality(Owing') <= Cardinality(Owing) /\ Cardinality(Owing) \in Nat /\ Cardinality(Owing') \in Nat
    <3>1. CASE OwesFile(c)
      <4>1. OwesFile(run[u])
        BY <1>2, <3>1
      <4>2. Cardinality(Owing') = Cardinality(Owing) /\ Cardinality(Owing) \in Nat
        BY <1>1, <1>2, <3>1, <4>1, OwingFollows
      <4>. QED BY <4>2
    <3>2. CASE ~OwesFile(c)
      BY <1>1, <1>2, <3>2, OwingFollows, FS_CardinalityType
    <3>. QED BY <3>1, <3>2
  <2>4. Cardinality(DOMAIN files) \in Nat
    BY FS_CardinalityType DEF TasksInv, TasksTyped
  <2>5. OutagesCover'
    BY <1>1, <2>3, <2>4 DEF TasksInv, OutagesCover
  <2>6. IssuesStay
    BY <1>1, IssuesAreCounted DEF IssuesStay
  <2>7. TellingIsTrue'
    BY <1>1, <1>2, <2>6, NothingIsTold
  <2>. QED BY <2>2, <2>5, <2>7 DEF TasksInv
<1>3. CASE TakeNumber(u)
  <2>1. PICK c : c = [step |-> "write", name |-> FileName(NextTaskId, SlugOf[run[u].title]),
                      title |-> run[u].title, status |-> "open", refs |-> run[u].refs, opens |-> TRUE]
    OBVIOUS
  <2>2. run[u].step = "number" /\ run' = [run EXCEPT ![u] = c]
    BY <1>3, <2>1 DEF TakeNumber
  <2>3. SlugOf[run[u].title] \in Slugs /\ NextTaskId \in Nat
    <3>1. run[u].title \in Titles
      BY <1>1, <2>2 DEF CommandIsTyped
    <3>. QED BY <3>1, NumbersAreFree DEF TasksAssumption
  <2>4. c.step = "write" /\ c.name = FileName(NextTaskId, SlugOf[run[u].title]) /\ c.opens = TRUE
    BY <2>1
  <2>5. c.name \in TaskNames
    <3>1. \A n \in Nat, g \in Slugs : FileName(n, g) \in TaskNames
      BY DEF TaskNames
    <3>. QED BY <2>3, <2>4, <3>1
  <2>6. CommandIsTyped(c) /\ OwesFile(run[u])
    BY <1>1, <2>2, <2>4, <2>5 DEF CommandIsTyped, OwesFile
  <2>7. \A t \in told : t.name # Printed(c.name)
    <3>1. \A x, y : Printed(x) = Printed(y) => x = y
      BY DEF Printed
    <3>2. c.name.number = NextTaskId /\ c.name.kind = "file"
      BY <2>4 DEF FileName
    <3>3. \A n : Issue(n) # c.name
      BY <3>2 DEF Issue
    <3>4. \A f \in DOMAIN files : f # c.name
      <4>1. \A f \in DOMAIN files : f.number \in Nat /\ f.number < NextTaskId
        BY NumbersAreFree DEF TasksInv, TasksTyped, TaskNames, FileName
      <4>. QED BY <2>3, <3>2, <4>1
    <3>5. NamesAreTrue
      BY DEF TasksInv, TellingIsTrue
    <3>. QED BY <3>1, <3>3, <3>4, <3>5 DEF NamesAreTrue
  <2>8. NewTo(u, c)
    BY <2>7 DEF NewTo
  <2>. QED BY <1>2, <2>2, <2>6, <2>8
<1>4. CASE KillTask(u)
  <2>1. CommandIsTyped(NoCommand) /\ ~OwesFile(NoCommand) /\ NewTo(u, NoCommand)
    BY DEF CommandIsTyped, OwesFile, NewTo
  <2>. QED BY <1>2, <1>4, <2>1 DEF KillTask
<1>. QED BY <1>3, <1>4

\* A file is written, the first time or again.
LEMMA WritesKeep ==
  ASSUME TasksAssumption, TasksInv, NEW u \in Users, WriteTask(u)
  PROVE  TasksInv'
<1>1. DOMAIN run = Users /\ \A v \in Users : CommandIsTyped(run[v])
  BY DEF TasksInv, TasksTyped
<1>2. PICK name, title : name = run[u].name /\ title = run[u].title
  OBVIOUS
<1>3. /\ run[u] # NoCommand /\ run[u].step = "write" /\ run' = [run EXCEPT ![u] = NoCommand]
      /\ UNCHANGED <<hosted, token, issues, outages>>
  BY DEF WriteTask
<1>4. /\ name \in TaskNames /\ run[u].opens \in BOOLEAN
      /\ ~run[u].opens => name \in DOMAIN files /\ IsTold(name, title)
  BY <1>1, <1>2, <1>3 DEF CommandIsTyped
<1>5. /\ DOMAIN files' = DOMAIN files \cup {name}
      /\ files'[name].title = title /\ files'[name].fallback
      /\ \A f \in DOMAIN files : f # name => files'[f] = files[f]
  BY <1>2 DEF WriteTask
<1>6. \A f \in DOMAIN files' : files'[f].fallback
  BY <1>5 DEF TasksInv, TasksTyped
<1>7. PICK old, new : old = DOMAIN files /\ new = DOMAIN files'
  OBVIOUS
<1>8. IsFiniteSet(old) /\ new = old \cup {name}
  BY <1>5, <1>7 DEF TasksInv, TasksTyped
<1>9. /\ IsFiniteSet(new) /\ Cardinality(old) \in Nat
      /\ Cardinality(new) = IF name \in old THEN Cardinality(old) ELSE Cardinality(old) + 1
  BY <1>8, FS_AddElement, FS_CardinalityType
<1>14. PICK more : more = IF run[u].opens THEN {[title |-> title, name |-> Printed(name), by |-> u]} ELSE {}
  OBVIOUS
<1>15. /\ told' = told \cup more
       /\ \A t \in more : t.title = title /\ t.name = Printed(name) /\ t.by = u /\ run[u].opens
       /\ run[u].opens => \E t \in more : TRUE
  <2>1. told' = told \cup more
    BY <1>2, <1>14 DEF WriteTask
  <2>2. CASE run[u].opens
    <3>1. PICK entry : entry = [title |-> title, name |-> Printed(name), by |-> u]
      OBVIOUS
    <3>2. more = {entry} /\ entry.title = title /\ entry.name = Printed(name) /\ entry.by = u
      BY <1>14, <2>2, <3>1
    <3>. QED BY <2>1, <2>2, <3>2
  <2>3. CASE ~run[u].opens
    BY <1>14, <2>1, <2>3
  <2>. QED BY <2>2, <2>3
<1>16. \A other, text : IsTold(other, text) => IsTold(other, text)'
  BY <1>15 DEF IsTold
<1>10. \A v \in Users : CommandIsTyped(run[v])'
  <2>1. ASSUME NEW v \in Users
        PROVE  CommandIsTyped(run[v])'
    <3>1. CASE v = u
      BY <1>1, <1>3, <3>1 DEF CommandIsTyped
    <3>2. CASE v # u
      <4>1. run'[v] = run[v] /\ CommandIsTyped(run[v])
        BY <1>1, <1>3, <3>2
      <4>. QED BY <1>3, <1>5, <1>16, <4>1 DEF CommandIsTyped
    <3>. QED BY <3>1, <3>2
  <2>. QED BY <2>1
<1>11. TasksTyped'
  BY <1>1, <1>3, <1>4, <1>5, <1>6, <1>7, <1>9, <1>10 DEF TasksInv, TasksTyped
<1>12. TellingIsTrue'
  <2>1. NamesAreTrue /\ TitlesAreTold /\ ToldOnce /\ \A v \in Users : NewTo(v, run[v])
    BY DEF TasksInv, TellingIsTrue
  <2>2. NamesAreTrue'
    <3>1. name \in DOMAIN files' /\ \A f \in DOMAIN files : f \in DOMAIN files'
      BY <1>5
    <3>. QED BY <1>3, <1>15, <2>1, <3>1 DEF NamesAreTrue
  <2>3. TitlesAreTold'
    <3>1. IsTold(name, title)'
      <4>1. CASE run[u].opens
        BY <1>15, <4>1 DEF IsTold
      <4>2. CASE ~run[u].opens
        BY <1>4, <1>16, <4>2
      <4>. QED BY <4>1, <4>2
    <3>2. ASSUME NEW f \in DOMAIN files'
          PROVE  IsTold(f, files[f].title)'
      <4>1. CASE f = name
        BY <1>5, <3>1, <4>1 DEF IsTold
      <4>2. CASE f # name
        <5>1. f \in DOMAIN files /\ files'[f] = files[f] /\ IsTold(f, files[f].title)
          BY <1>5, <2>1, <4>2 DEF TitlesAreTold
        <5>. QED BY <1>15, <5>1 DEF IsTold
      <4>. QED BY <4>1, <4>2
    <3>. QED BY <3>2 DEF TitlesAreTold
  <2>4. ToldOnce'
    <3>1. run[u].opens => \A t \in told : t.by = u => t.name # Printed(name)
      BY <1>2, <1>3, <2>1 DEF NewTo
    <3>. QED BY <1>15, <2>1, <3>1 DEF ToldOnce
  <2>5. ASSUME NEW v \in Users
        PROVE  NewTo(v, run[v])'
    <3>1. v # u => run'[v] = run[v]
      BY <1>1, <1>3
    <3>2. v = u => run'[v] = NoCommand
      BY <1>1, <1>3
    <3>. QED BY <1>15, <2>1, <3>1, <3>2 DEF NewTo
  <2>. QED BY <2>2, <2>3, <2>4, <2>5 DEF TellingIsTrue
<1>13. OutagesCover'
  <2>1. ~OwesFile(NoCommand)
    BY DEF OwesFile
  <2>2. Cardinality(Owing') \in Nat /\ Cardinality(Owing) \in Nat
        /\ Cardinality(Owing') <= Cardinality(Owing)
        /\ (OwesFile(run[u]) => Cardinality(Owing') = Cardinality(Owing) - 1)
    BY <1>1, <1>3, <2>1, OwingFollows, FS_CardinalityType
  <2>3. CASE run[u].opens
    <3>1. OwesFile(run[u])
      BY <1>3, <2>3 DEF OwesFile
    <3>. QED BY <1>3, <1>7, <1>9, <2>2, <3>1 DEF TasksInv, OutagesCover
  <2>4. CASE ~run[u].opens
    <3>1. new = old
      BY <1>4, <1>7, <1>8, <2>4
    <3>. QED BY <1>3, <1>7, <1>9, <2>2, <3>1 DEF TasksInv, OutagesCover
  <2>. QED BY <1>4, <2>3, <2>4
<1>. QED BY <1>11, <1>12, <1>13 DEF TasksInv

\* Tasks are updated and closed.
LEMMA ChangesKeep ==
  ASSUME TasksAssumption, TasksInv, NEW u \in Users, NEW ref, NEW status, CloseIssue(u, ref) \/ Rewrite(u, ref, status)
  PROVE  TasksInv'
<1>1. DOMAIN run = Users /\ CommandIsTyped(run[u]) /\ run[u] = NoCommand
  BY DEF TasksInv, TasksTyped, CloseIssue, Rewrite
<1>2. CASE CloseIssue(u, ref)
  <2>1. PICK n : n = ref.number
    OBVIOUS
  <2>2. /\ n \in DOMAIN issues /\ issues' = [issues EXCEPT ![n].open = FALSE]
        /\ UNCHANGED <<hosted, token, files, run, told, outages>>
    BY <1>2, <2>1 DEF CloseIssue
  <2>3. \A S : \A q \in Seq(S) : \A k \in DOMAIN q : \A x \in S :
          /\ q[k] \in S /\ [q EXCEPT ![k] = x] \in Seq(S) /\ Len([q EXCEPT ![k] = x]) = Len(q)
          /\ \A i \in 1..Len(q) : [q EXCEPT ![k] = x][i] = IF i = k THEN x ELSE q[i]
    OBVIOUS
  <2>4. PICK T : T = [title : Titles, open : BOOLEAN]
    OBVIOUS
  <2>5. /\ issues' \in Seq([title : Titles, open : BOOLEAN]) /\ Len(issues') = Len(issues)
        /\ \A i \in 1..Len(issues) : issues'[i].title = issues[i].title
    <3>1. PICK q, x : q = issues /\ x = [issues[n] EXCEPT !.open = FALSE]
      OBVIOUS
    <3>2. q \in Seq(T) /\ n \in DOMAIN q
      BY <2>2, <2>4, <3>1 DEF TasksInv, TasksTyped
    <3>3. q[n] \in T
      BY <2>3, <3>2
    <3>4. x \in T /\ x.title = q[n].title
      BY <2>4, <3>1, <3>3
    <3>5. issues' = [q EXCEPT ![n] = x]
      BY <2>2, <3>1
    <3>6. /\ issues' \in Seq(T) /\ Len(issues') = Len(q)
          /\ \A i \in 1..Len(q) : issues'[i] = IF i = n THEN x ELSE q[i]
      BY <2>3, <3>2, <3>4, <3>5
    <3>. QED BY <2>4, <3>1, <3>4, <3>6
  <2>6. \A v \in Users : CommandIsTyped(run[v])'
    BY <2>2 DEF TasksInv, TasksTyped, CommandIsTyped, IsTold
  <2>7. TasksTyped'
    BY <2>2, <2>5, <2>6 DEF TasksInv, TasksTyped
  <2>10. NamesAreTrue'
    BY <2>2, <2>5 DEF TasksInv, TellingIsTrue, NamesAreTrue
  <2>8. TellingIsTrue'
    BY <2>2, <2>10 DEF TasksInv, TellingIsTrue, TitlesAreTold, ToldOnce, NewTo, IsTold
  <2>9. OutagesCover'
    BY <2>2 DEF TasksInv, OutagesCover, Owing, OwesFile
  <2>. QED BY <2>7, <2>8, <2>9 DEF TasksInv
<1>3. CASE Rewrite(u, ref, status)
  <2>1. PICK c : c = [step |-> "write", name |-> Find(ref), title |-> files[Find(ref)].title,
                      status |-> status, refs |-> {}, opens |-> FALSE]
    OBVIOUS
  <2>2. Find(ref) # NoTask /\ run' = [run EXCEPT ![u] = c] /\ UNCHANGED <<hosted, token, issues, files, told, outages>>
    BY <1>3, <2>1 DEF Rewrite
  <2>3. PICK meant : meant = {f \in DOMAIN files : Means(f, ref)}
    OBVIOUS
  <2>4. meant # {} /\ Find(ref) = CHOOSE f \in meant : \A g \in meant : f = g \/ Earlier(f, g)
    BY <2>2, <2>3 DEF Find
  <2>5. meant \in SUBSET TaskNames
    BY <2>3 DEF TasksInv, TasksTyped
  <2>6. Find(ref) \in DOMAIN files /\ Find(ref) \in TaskNames
    BY <2>3, <2>4, <2>5, FirstExists
  <2>7. c.step = "write" /\ c.name = Find(ref) /\ c.title = files[Find(ref)].title /\ c.opens = FALSE
    BY <2>1
  <2>15. IsTold(c.name, c.title)
    BY <2>6, <2>7 DEF TasksInv, TellingIsTrue, TitlesAreTold
  <2>8. CommandIsTyped(c) /\ ~OwesFile(c) /\ NewTo(u, c)
    BY <2>6, <2>7, <2>15 DEF CommandIsTyped, OwesFile, NewTo
  <2>9. DOMAIN run' = Users /\ \A v \in Users : CommandIsTyped(run[v])'
    BY <2>2, <2>8, CommandGoesOn
  <2>10. TasksTyped'
    BY <2>2, <2>9 DEF TasksInv, TasksTyped
  <2>11. TellingIsTrue'
    <3>1. IssuesStay
      BY <2>2, IssuesAreCounted DEF IssuesStay
    <3>. QED BY <2>2, <2>8, <3>1, NothingIsTold
  <2>12. Cardinality(Owing') <= Cardinality(Owing) /\ Cardinality(Owing) \in Nat /\ Cardinality(Owing') \in Nat
    BY <1>1, <2>2, <2>8, OwingFollows, FS_CardinalityType
  <2>13. Cardinality(DOMAIN files) \in Nat
    BY FS_CardinalityType DEF TasksInv, TasksTyped
  <2>14. OutagesCover'
    BY <2>2, <2>12, <2>13 DEF TasksInv, OutagesCover
  <2>. QED BY <2>10, <2>11, <2>14 DEF TasksInv
<1>. QED BY <1>2, <1>3

LEMMA TasksStep ==
  ASSUME TasksAssumption, TasksInv, [TasksNext]_taskVars
  PROVE  TasksInv'
<1>1. CASE UNCHANGED taskVars
  <2>1. /\ UNCHANGED <<hosted, token, issues, files, run, told, outages>>
    BY <1>1 DEF taskVars
  <2>2. TasksTyped'
    BY <2>1 DEF TasksInv, TasksTyped, CommandIsTyped, IsTold
  <2>3. TellingIsTrue'
    BY <2>1 DEF TasksInv, TellingIsTrue, NamesAreTrue, TitlesAreTold, ToldOnce, NewTo, IsTold
  <2>4. OutagesCover'
    BY <2>1 DEF TasksInv, OutagesCover, Owing, OwesFile
  <2>. QED BY <2>2, <2>3, <2>4 DEF TasksInv
<1>2. CASE TasksNext
  <2>1. PICK u \in Users :
          \/ \E title \in Titles, fallback \in BOOLEAN : OpenTask(u, title, SpecRefs, fallback)
          \/ IssueCreated(u) \/ TakeNumber(u) \/ WriteTask(u) \/ KillTask(u)
          \/ \E made \in BOOLEAN : CreationFails(u, made)
          \/ \E ref \in References : CloseTask(u, ref) \/ \E status \in Statuses : UpdateTask(u, ref, status)
    BY <1>2 DEF TasksNext
  <2>2. ASSUME NEW ref \in References, CloseTask(u, ref) \/ \E status \in Statuses : UpdateTask(u, ref, status)
        PROVE  TasksInv'
    <3>1. CloseIssue(u, ref) \/ \E status : Rewrite(u, ref, status)
      BY <2>2 DEF CloseTask, UpdateTask
    <3>. QED BY <3>1, ChangesKeep
  <2>. QED BY <2>1, <2>2, OpensKeep, CommandsGoOn, WritesKeep
<1>. QED BY <1>1, <1>2

LEMMA TasksReach ==
  ASSUME TasksAssumption, TasksInv
  PROVE  TasksAreFound
<1>1. ASSUME NEW t \in told
      PROVE  LET ref == Bare(t.name)
             IN  /\ RunTaskStatus(ref) = ref
                 /\ IF Digits(ref) THEN issues[ref.number].title = t.title ELSE Shows(t)
                 /\ Digits(ref) /\ Cardinality(Newer(ref.number)) < PageSize
                      => ref \in RunTaskList(NoStatus) \cup RunTaskList("done")
  <2>. DEFINE ref == Bare(t.name)
  <2>1. CASE \E n \in 1..Len(issues) : t.name = Printed(Issue(n)) /\ t.title = issues[n].title
    <3>1. PICK n \in 1..Len(issues) : t.name = Printed(Issue(n)) /\ t.title = issues[n].title
      BY <2>1
    <3>2. Len(issues) > 0 => hosted /\ token
      BY DEF TasksInv, TasksTyped
    <3>4. n \in DOMAIN issues /\ Len(issues) > 0 /\ issues[n].open \in BOOLEAN
      BY <3>1, IssuesAreCounted
    <3>5. ref = Issue(n) /\ ref.kind = "number" /\ ref.number = n
      BY <3>1 DEF Issue, Printed, Bare
    <3>6. hosted /\ token
      BY <3>2, <3>4
    <3>. HIDE DEF ref
    <3>7. Digits(ref) /\ RunTaskStatus(ref) = ref
      BY <3>4, <3>5, <3>6 DEF Digits, RunTaskStatus, OnGitHub
    <3>9. RunTaskList("done") = {Issue(m) : m \in ListGitHubIssues(FALSE)}
      BY <3>6 DEF RunTaskList
    <3>10. RunTaskList(NoStatus) = {Issue(m) : m \in ListGitHubIssues(TRUE)}
      BY <3>6 DEF RunTaskList, TasksAssumption
    <3>11. ASSUME Cardinality(Newer(n)) < PageSize
           PROVE  ref \in RunTaskList(NoStatus) \cup RunTaskList("done")
      <4>1. n \in ListGitHubIssues(issues[n].open)
        BY <3>4, <3>11 DEF ListGitHubIssues, InState
      <4>2. n \in ListGitHubIssues(TRUE) \/ n \in ListGitHubIssues(FALSE)
        BY <3>4, <4>1
      <4>. QED BY <3>5, <3>9, <3>10, <4>2
    <3>. QED BY <3>1, <3>5, <3>7, <3>11 DEF ref
  <2>2. CASE \E f \in DOMAIN files : t.name = Printed(f)
    <3>0. PICK f \in DOMAIN files : t.name = Printed(f)
      BY <2>2
    <3>1. f \in TaskNames /\ ref = f
      BY <3>0 DEF TasksInv, TasksTyped, Printed, Bare
    <3>. HIDE DEF ref
    <3>2. f.kind = "file" /\ ~Digits(f)
      BY <3>1 DEF TaskNames, FileName, Digits
    <3>3. {g \in DOMAIN files : Means(g, f)} = {f}
      BY <3>0, <3>2 DEF Means, Digits
    <3>4. Find(f) = f
      BY <3>3 DEF Find
    <3>5. RunTaskStatus(f) = f
      BY <3>2, <3>4 DEF RunTaskStatus, OnGitHub
    <3>6. PICK other \in told : other.name = t.name /\ other.title = files[f].title
      BY <3>0 DEF TasksInv, TellingIsTrue, TitlesAreTold, IsTold
    <3>7. other.by = t.by => other.title = t.title
      <4>1. ~Digits(Bare(t.name))
        BY <3>1, <3>2 DEF ref
      <4>. QED BY <3>6, <4>1 DEF TasksInv, TellingIsTrue, ToldOnce
    <3>8. Shows(t)
      BY <3>1, <3>6, <3>7 DEF Shows, ref
    <3>. QED BY <3>1, <3>2, <3>5, <3>8 DEF ref
  <2>. QED BY <2>1, <2>2 DEF TasksInv, TellingIsTrue, NamesAreTrue
<1>2. Cardinality(DOMAIN files) <= outages
  <2>1. Cardinality(DOMAIN files) \in Nat /\ Cardinality(Owing) \in Nat
    <3>1. Owing \subseteq Users /\ IsFiniteSet(Users) /\ IsFiniteSet(DOMAIN files)
      BY DEF Owing, TasksAssumption, TasksInv, TasksTyped
    <3>2. IsFiniteSet(Owing)
      BY <3>1, FS_Subset
    <3>. QED BY <3>1, <3>2, FS_CardinalityType
  <2>. QED BY <2>1 DEF TasksInv, OutagesCover
<1>3. \A f \in DOMAIN files : files[f].fallback
  BY DEF TasksInv, TasksTyped
<1>. QED BY <1>1, <1>2, <1>3 DEF TasksAreFound

\* However many people open, update and close tasks in one working copy, whatever numbers
\* they draw, whatever titles share a slug and whichever calls fail: who was told of a task is
\* shown that task by the bare name he was told, or the one another user's open wrote over it; an issue is in
\* one of the lists unless a page of newer ones hides it, and there are at most as many files as
\* there were outages (runTaskOpen, runTaskStatus and runTaskList of cli/src/task.ts).
THEOREM TasksStayFound == TasksSpec => []TasksAreFound
<1>1. TasksInit => TasksInv
  BY TasksAssumption, TasksStart
<1>2. TasksInv /\ [TasksNext]_taskVars => TasksInv'
  BY TasksAssumption, TasksStep
<1>3. TasksInv => TasksAreFound
  BY TasksAssumption, TasksReach
<1>. QED BY <1>1, <1>2, <1>3, PTL DEF TasksSpec

(***************************************************************************)
(* Spec automation.                                                        *)
(***************************************************************************)
\* A prompt that neither is missing nor was written by a person describes what is served,
\* unless a model wrote it, and then a version that has been.
PromptIsKept(row) ==
  \/ row.prompt \in {NoPrompt} \cup Edited
  \/ /\ row.prompt \in Prompts /\ row.prompt.version <= row.version
     /\ row.status = "published" /\ ~row.prompt.improved => row.prompt = Baseline(row)

NamesAreUnique ==
  \A s, t \in Rows :
    /\ specs[s].filename = specs[t].filename
    /\ specs[s].global = specs[t].global /\ specs[s].project = specs[t].project
    => s = t

CallIsOld(c) ==
  c.spec \in Rows /\ c.prompt \in Prompts /\ c.prompt.improved /\ c.prompt.version <= specs[c.spec].version

AutomationInv ==
  /\ specs \in [RowIds -> {NoSpec} \cup SpecRows]
  /\ \A s \in Rows : PromptIsKept(specs[s])
  /\ NamesAreUnique
  /\ \A c \in calls : CallIsOld(c)

\* What a row may become: a new one of a free name, or one of the same name that is no older.
Follows(s, row) ==
  \/ /\ specs[s] = NoSpec
     /\ \A t \in Rows : ~ (/\ specs[t].filename = row.filename
                           /\ specs[t].global = row.global /\ specs[t].project = row.project)
  \/ /\ s \in Rows
     /\ specs[s].filename = row.filename /\ specs[s].global = row.global /\ specs[s].project = row.project
     /\ specs[s].version <= row.version

LEMMA RowBecomes ==
  ASSUME AutomationInv, NEW s \in RowIds, NEW row \in SpecRows, specs' = [specs EXCEPT ![s] = row],
         PromptIsKept(row), Follows(s, row), \A c \in calls' : c \in calls \/ CallIsOld(c)
  PROVE  AutomationInv'
<1>0. row # NoSpec /\ row.version \in Nat /\ \A t \in Rows : specs[t] \in SpecRows /\ specs[t].version \in Nat
  BY AutomationAssumption DEF AutomationInv, Rows, SpecRows
<1>1. /\ specs' \in [RowIds -> {NoSpec} \cup SpecRows]
      /\ specs'[s] = row /\ \A t \in RowIds \ {s} : specs'[t] = specs[t]
  BY DEF AutomationInv
<1>2. Rows' = Rows \cup {s}
  BY <1>0, <1>1 DEF Rows
<1>3. \A t \in Rows' : PromptIsKept(specs'[t])
  BY <1>1, <1>2 DEF AutomationInv, Rows
<1>4. NamesAreUnique'
  <2>. SUFFICES ASSUME NEW t \in Rows', NEW u \in Rows', t # u,
                       specs'[t].filename = specs'[u].filename,
                       specs'[t].global = specs'[u].global /\ specs'[t].project = specs'[u].project
                PROVE  FALSE
    BY DEF NamesAreUnique
  <2>1. \A v \in Rows \ {s} : specs'[v] = specs[v]
    BY <1>1 DEF Rows
  <2>2. CASE t # s /\ u # s
    BY <1>2, <2>1, <2>2 DEF AutomationInv, NamesAreUnique
  <2>3. CASE t = s
    <3>1. u \in Rows /\ specs'[u] = specs[u] /\ specs'[t] = row
      BY <1>1, <1>2, <2>1, <2>3
    <3>. QED BY <2>3, <3>1 DEF AutomationInv, NamesAreUnique, Follows
  <2>4. CASE u = s
    <3>1. t \in Rows /\ specs'[t] = specs[t] /\ specs'[u] = row
      BY <1>1, <1>2, <2>1, <2>4
    <3>. QED BY <2>4, <3>1 DEF AutomationInv, NamesAreUnique, Follows
  <2>. QED BY <2>2, <2>3, <2>4
<1>5. \A t \in Rows : t \in Rows' /\ specs[t].version <= specs'[t].version /\ specs'[t].version \in Nat
  <2>. SUFFICES ASSUME NEW t \in Rows
                PROVE  t \in Rows' /\ specs[t].version <= specs'[t].version /\ specs'[t].version \in Nat
    OBVIOUS
  <2>1. CASE t = s
    BY <1>0, <1>1, <1>2, <2>1 DEF Follows, Rows
  <2>2. CASE t # s
    BY <1>0, <1>1, <1>2, <2>2 DEF Rows
  <2>. QED BY <2>1, <2>2
<1>6. \A c \in calls' : CallIsOld(c)'
  <2>. SUFFICES ASSUME NEW c \in calls' PROVE CallIsOld(c)'
    OBVIOUS
  <2>1. CallIsOld(c)
    BY DEF AutomationInv
  <2>2. c.prompt.version \in Nat /\ c.spec \in Rows
    BY <2>1 DEF CallIsOld, Prompts
  <2>3. c.prompt.version <= specs'[c.spec].version
    BY <1>0, <1>5, <2>1, <2>2 DEF CallIsOld
  <2>. QED BY <1>5, <2>1, <2>3 DEF CallIsOld
<1>. QED BY <1>1, <1>3, <1>4, <1>6 DEF AutomationInv, PromptIsKept, Baseline, Focus, Classify

LEMMA BaselineIsKept ==
  ASSUME NEW row \in SpecRows
  PROVE  /\ Baseline(row) \in Prompts /\ Baseline(row).version = row.version /\ ~Baseline(row).improved
         /\ Improved(Baseline(row)) \in Prompts /\ Improved(Baseline(row)).improved
         /\ Improved(Baseline(row)).version = row.version
         /\ \A prompt : Baseline([row EXCEPT !.prompt = prompt]) = Baseline(row)
         /\ [row EXCEPT !.prompt = Baseline(row)] \in SpecRows
         /\ PromptIsKept([row EXCEPT !.prompt = Baseline(row)])
<1>1. row.text \in DOMAIN Texts /\ row.version \in Nat
  BY DEF SpecRows
<1>2. Focus(row.text) \in SUBSET UNION {Texts[text] : text \in DOMAIN Texts}
  BY <1>1 DEF Focus
<1>3. Baseline(row) \in Prompts /\ Baseline(row).version = row.version /\ ~Baseline(row).improved
  BY <1>1, <1>2 DEF Baseline, Prompts
<1>4. /\ Improved(Baseline(row)) \in Prompts /\ Improved(Baseline(row)).improved
      /\ Improved(Baseline(row)).version = row.version
  BY <1>3 DEF Improved, Prompts
<1>5. \A prompt : Baseline([row EXCEPT !.prompt = prompt]) = Baseline(row)
  BY DEF Baseline, SpecRows
<1>. DEFINE b == Baseline(row)
            r == [row EXCEPT !.prompt = b]
<1>6. r \in SpecRows /\ r.prompt = b /\ r.version = row.version
  BY <1>3 DEF SpecRows
<1>7. Baseline(r) = b
  BY <1>5
<1>8. PromptIsKept(r)
  <2>. HIDE DEF r, b
  <2>1. b \in Prompts /\ b.version = row.version
    BY <1>3 DEF b
  <2>2. r.prompt \in Prompts /\ r.prompt.version <= r.version
    BY <1>1, <1>6, <2>1
  <2>. QED BY <1>6, <1>7, <2>2 DEF PromptIsKept
<1>. QED BY <1>3, <1>4, <1>5, <1>6, <1>8

LEMMA ReleaseFollows ==
  ASSUME NEW row \in SpecRows, NEW text \in DOMAIN Texts
  PROVE  /\ Released(row, text) \in SpecRows /\ row.version \in Nat
         /\ Released(row, text).version = row.version + 1
         /\ Released(row, text).filename = row.filename
         /\ Released(row, text).global = row.global /\ Released(row, text).project = row.project
<1>1. row.version \in Nat /\ row.version + 1 \in Nat
  BY DEF SpecRows
<1>. DEFINE one == [row EXCEPT !.status = "published"]
            two == [one EXCEPT !.version = row.version + 1]
            next == [two EXCEPT !.text = text]
<1>2. /\ one \in SpecRows /\ one.version = row.version
      /\ one.filename = row.filename /\ one.global = row.global /\ one.project = row.project
  BY DEF SpecRows
<1>3. Released(row, text) = next
  BY <1>2 DEF Released
<1>. HIDE DEF one
<1>4. /\ two \in SpecRows /\ two.version = row.version + 1
      /\ two.filename = row.filename /\ two.global = row.global /\ two.project = row.project
  BY <1>1, <1>2 DEF SpecRows
<1>. HIDE DEF two
<1>5. /\ next \in SpecRows /\ next.version = row.version + 1
      /\ next.filename = row.filename /\ next.global = row.global /\ next.project = row.project
  BY <1>4 DEF SpecRows
<1>. QED BY <1>1, <1>3, <1>5

\* Only the rows matter to what is promised of them, so that the switches may turn.
LEMMA SameRows ==
  ASSUME AutomationInv, specs' = specs, \A c \in calls' : c \in calls \/ CallIsOld(c)
  PROVE  AutomationInv'
<1>1. \A c \in calls' : CallIsOld(c)
  BY DEF AutomationInv
<1>2. Rows' = Rows /\ \A c : CallIsOld(c)' <=> CallIsOld(c)
  BY DEF Rows, CallIsOld
<1>. QED BY <1>1, <1>2 DEF AutomationInv, NamesAreUnique, PromptIsKept, Baseline, Focus, Classify

LEMMA AutomationStepKeeps ==
  ASSUME AutomationInv, [AutomationNext]_automationVars
  PROVE  AutomationInv'
<1>0. \A s \in Rows : s \in RowIds /\ specs[s] \in SpecRows /\ PromptIsKept(specs[s])
  BY DEF AutomationInv, Rows
<1>1. CASE UNCHANGED automationVars
  BY <1>1, SameRows DEF automationVars
<1>2. ASSUME NEW s \in RowIds, NEW name \in Filenames, NEW text \in DOMAIN Texts, Draft(s, name, text)
      PROVE  AutomationInv'
  <2>. DEFINE row == [filename |-> name, global |-> FALSE, project |-> FALSE, status |-> "draft", deleted |-> FALSE,
                      version |-> 0, text |-> text, prompt |-> NoPrompt]
              next == [row EXCEPT !.prompt = Baseline(row)]
  <2>1. row \in SpecRows
    BY DEF SpecRows
  <2>2. next \in SpecRows /\ PromptIsKept(next)
    BY <2>1, BaselineIsKept
  <2>3. next.filename = name /\ ~next.global /\ ~next.project
    OBVIOUS
  <2>4. specs[s] = NoSpec /\ ~Duplicate(name) /\ specs' = [specs EXCEPT ![s] = next] /\ calls' = calls
    BY <1>2 DEF Draft
  <2>. HIDE DEF next
  <2>5. Follows(s, next)
    BY <2>3, <2>4 DEF Follows, Duplicate
  <2>. QED BY <2>2, <2>4, <2>5, RowBecomes
<1>3. ASSUME NEW s \in RowIds, NEW name \in Filenames, NEW text \in DOMAIN Texts,
             NEW global \in BOOLEAN, NEW project \in BOOLEAN, Import(s, name, global, project, text)
      PROVE  AutomationInv'
  <2>. DEFINE row == [filename |-> name, global |-> global, project |-> project, status |-> "published",
                      deleted |-> FALSE, version |-> 1, text |-> text, prompt |-> NoPrompt]
  <2>1. row \in SpecRows /\ PromptIsKept(row)
    BY DEF SpecRows, PromptIsKept
  <2>2. row.filename = name /\ row.global = global /\ row.project = project
    OBVIOUS
  <2>3. /\ specs[s] = NoSpec /\ specs' = [specs EXCEPT ![s] = row] /\ calls' = calls
        /\ \A t \in Rows : <<specs[t].filename, specs[t].global, specs[t].project>> # <<name, global, project>>
    BY <1>3 DEF Import
  <2>. HIDE DEF row
  <2>4. Follows(s, row)
    BY <2>2, <2>3 DEF Follows
  <2>. QED BY <2>1, <2>3, <2>4, RowBecomes
<1>4. ASSUME NEW s \in RowIds, GenerateAuditPrompt(s)
      PROVE  AutomationInv'
  <2>. DEFINE row == [specs[s] EXCEPT !.prompt = Baseline(specs[s])]
  <2>1. s \in Rows /\ specs' = [specs EXCEPT ![s] = row] /\ calls' = calls
    BY <1>4 DEF GenerateAuditPrompt, Live
  <2>2. row \in SpecRows /\ PromptIsKept(row)
    BY <1>0, <2>1, BaselineIsKept
  <2>3. Follows(s, row)
    BY <1>0, <2>1 DEF Follows, SpecRows
  <2>. HIDE DEF row
  <2>. QED BY <2>1, <2>2, <2>3, RowBecomes
<1>5. ASSUME NEW s \in RowIds, AskForAuditPrompt(s)
      PROVE  AutomationInv'
  <2>. DEFINE call == [spec |-> s, prompt |-> Improved(Baseline(specs[s]))]
  <2>1. s \in Rows /\ specs' = specs /\ calls' = calls \cup {call}
    BY <1>5 DEF AskForAuditPrompt, Live
  <2>2. call.spec = s /\ call.prompt = Improved(Baseline(specs[s]))
    OBVIOUS
  <2>. HIDE DEF call
  <2>3. specs[s].version \in Nat
    BY <1>0, <2>1 DEF SpecRows
  <2>4. /\ call.prompt \in Prompts /\ call.prompt.improved
        /\ call.prompt.version = specs[s].version
    <3>1. specs[s] \in SpecRows
      BY <1>0, <2>1
    <3>. QED BY <2>2, <3>1, BaselineIsKept
  <2>5. CallIsOld(call)
    BY <2>1, <2>2, <2>3, <2>4 DEF CallIsOld
  <2>. QED BY <2>1, <2>5, SameRows
<1>6. ASSUME NEW s \in RowIds, NEW prompt \in Edited, SaveAuditPrompt(s, prompt)
      PROVE  AutomationInv'
  <2>. DEFINE row == [specs[s] EXCEPT !.prompt = prompt]
  <2>1. s \in Rows /\ specs' = [specs EXCEPT ![s] = row] /\ calls' = calls
    BY <1>6 DEF SaveAuditPrompt, Live
  <2>2. row \in SpecRows /\ PromptIsKept(row)
    BY <1>0, <2>1 DEF SpecRows, PromptIsKept
  <2>3. Follows(s, row)
    BY <1>0, <2>1 DEF Follows, SpecRows
  <2>. HIDE DEF row
  <2>. QED BY <2>1, <2>2, <2>3, RowBecomes
<1>7. ASSUME NEW s \in RowIds, NEW text \in DOMAIN Texts, EditDraft(s, text)
      PROVE  AutomationInv'
  <2>. DEFINE row == [specs[s] EXCEPT !.text = text]
  <2>1. s \in Rows /\ specs[s].status = "draft" /\ specs' = [specs EXCEPT ![s] = row] /\ calls' = calls
    BY <1>7 DEF EditDraft, Live
  <2>2. row \in SpecRows /\ row.status = "draft" /\ row.prompt = specs[s].prompt /\ row.version = specs[s].version
    BY <1>0, <2>1 DEF SpecRows
  <2>3. Follows(s, row)
    BY <1>0, <2>1 DEF Follows, SpecRows
  <2>. HIDE DEF row
  <2>4. PromptIsKept(row)
    BY <1>0, <2>1, <2>2 DEF PromptIsKept
  <2>. QED BY <2>1, <2>2, <2>3, <2>4, RowBecomes
<1>8. ASSUME NEW s \in RowIds, NEW text \in DOMAIN Texts, Publish(s, text)
      PROVE  AutomationInv'
  <2>. DEFINE next == Released(specs[s], text)
              row == [next EXCEPT !.prompt = Baseline(next)]
  <2>1. s \in Rows /\ specs' = [specs EXCEPT ![s] = row] /\ calls' = calls
    BY <1>8 DEF Publish, Live
  <2>2. next \in SpecRows /\ next.version = specs[s].version + 1 /\ specs[s].version \in Nat
        /\ next.filename = specs[s].filename /\ next.global = specs[s].global /\ next.project = specs[s].project
    BY <1>0, <2>1, ReleaseFollows
  <2>. HIDE DEF next
  <2>3. row \in SpecRows /\ PromptIsKept(row)
    BY <2>2, BaselineIsKept
  <2>4. row.version = next.version /\ row.filename = next.filename /\ row.global = next.global
        /\ row.project = next.project
    BY <2>2 DEF SpecRows
  <2>. HIDE DEF row
  <2>5. Follows(s, row)
    BY <2>1, <2>2, <2>4 DEF Follows
  <2>. QED BY <2>1, <2>3, <2>5, RowBecomes
<1>9. ASSUME NEW s \in RowIds, Delete(s) \/ Restore(s)
      PROVE  AutomationInv'
  <2>1. PICK deleted \in BOOLEAN :
          s \in Rows /\ specs' = [specs EXCEPT ![s] = [specs[s] EXCEPT !.deleted = deleted]] /\ calls' = calls
    BY <1>9 DEF Delete, Restore, Live
  <2>. DEFINE row == [specs[s] EXCEPT !.deleted = deleted]
  <2>2. row \in SpecRows /\ row.status = specs[s].status /\ row.prompt = specs[s].prompt
        /\ row.version = specs[s].version /\ row.text = specs[s].text
    BY <1>0, <2>1 DEF SpecRows
  <2>3. Follows(s, row)
    BY <1>0, <2>1 DEF Follows, SpecRows
  <2>. HIDE DEF row
  <2>4. PromptIsKept(row)
    BY <1>0, <2>1, <2>2 DEF PromptIsKept, Baseline
  <2>. QED BY <2>1, <2>2, <2>3, <2>4, RowBecomes DEF row
<1>10. ASSUME NEW c \in calls, AuditPromptArrives(c)
       PROVE  AutomationInv'
  <2>. DEFINE s == c.spec
              row == [specs[s] EXCEPT !.prompt = c.prompt]
  <2>1. s \in Rows /\ c.prompt \in Prompts /\ c.prompt.improved /\ c.prompt.version <= specs[s].version
    BY DEF AutomationInv, CallIsOld
  <2>2. specs[s] # NoSpec /\ specs[s] \in SpecRows /\ s \in RowIds
    BY <1>0, <2>1 DEF Rows
  <2>3. specs' = [specs EXCEPT ![s] = row] /\ calls' = calls \ {c}
    BY <1>10, <2>2 DEF AuditPromptArrives
  <2>4. row \in SpecRows /\ row.prompt = c.prompt /\ row.version = specs[s].version
    BY <2>1, <2>2 DEF SpecRows
  <2>5. Follows(s, row)
    BY <2>1, <2>2 DEF Follows, SpecRows
  <2>. HIDE DEF row
  <2>6. PromptIsKept(row)
    BY <2>1, <2>4 DEF PromptIsKept
  <2>. QED BY <2>2, <2>3, <2>4, <2>5, <2>6, RowBecomes
<1>11. ASSUME NEW c \in calls, AuditPromptFails(c)
       PROVE  AutomationInv'
  BY <1>11, SameRows DEF AuditPromptFails
<1>12. ASSUME NEW input, SaveFeatureConfig(input)
       PROVE  AutomationInv'
  BY <1>12, SameRows DEF SaveFeatureConfig
<1>13. CASE AutomationNext
  BY <1>2, <1>3, <1>4, <1>5, <1>6, <1>7, <1>8, <1>9, <1>10, <1>11, <1>12, <1>13 DEF AutomationNext, AutomationStep
<1>. QED BY <1>1, <1>13

LEMMA InitAutomationInv == ASSUME AutomationInit PROVE AutomationInv
<1>1. Rows = {} /\ calls = {} /\ specs \in [RowIds -> {NoSpec} \cup SpecRows]
  BY DEF AutomationInit, Rows
<1>. QED BY <1>1 DEF AutomationInv, NamesAreUnique

\* Every governed spec has a name of its own among them.
LEMMA GovernedNames ==
  ASSUME AutomationInv
  PROVE  /\ Governed \in SUBSET RowIds
         /\ \A s \in Governed : /\ s \in Live /\ specs[s] \in SpecRows
                                /\ specs[s].status = "published" /\ ~specs[s].project
         /\ \A s, t \in Governed : specs[s].filename = specs[t].filename => s = t
<1>1. \A s \in Governed : s \in Published /\ s \in Live /\ s \in Rows /\ s \in RowIds
  BY DEF Governed, Published, Live, Rows
<1>2. \A s \in Rows : specs[s] \in SpecRows
  BY DEF AutomationInv, Rows
<1>3. \A s \in Governed : specs[s].status = "published" /\ ~specs[s].project
  BY <1>1, <1>2 DEF Published, SpecRows
<1>4. ASSUME NEW s \in Governed, NEW t \in Governed, specs[s].filename = specs[t].filename
      PROVE  s = t
  <2>1. specs[s].global <=> specs[t].global
    BY <1>1, <1>4 DEF Governed
  <2>2. /\ specs[s].global \in BOOLEAN /\ specs[t].global \in BOOLEAN
        /\ specs[s].project \in BOOLEAN /\ specs[t].project \in BOOLEAN
    BY <1>1, <1>2 DEF SpecRows
  <2>3. specs[s].global = specs[t].global /\ specs[s].project = specs[t].project
    BY <1>3, <2>1, <2>2
  <2>. QED BY <1>1, <1>4, <2>3 DEF AutomationInv, NamesAreUnique
<1>. QED BY <1>1, <1>2, <1>3, <1>4

LEMMA GapsStayDrafts == ASSUME AutomationInv PROVE GapsAreDrafts
<1>1. \A s \in Rows : specs[s] \in SpecRows
  BY DEF AutomationInv, Rows
<1>2. /\ Planned \subseteq Existing
      /\ SpecGaps(Purposes, {}) \subseteq MissingSpecs(Purposes)
  BY GovernedNames DEF SpecGaps, MissingSpecs, Gaps, Existing, Planned
<1>5. Planned # {} => SpecGaps(Purposes, Planned) = MissingSpecs(Purposes)
  BY DEF SpecGaps, MissingSpecs
<1>6. \A given \in SUBSET Existing : SpecGaps(Purposes, {}) \subseteq SpecGaps(Purposes, given)
  BY DEF SpecGaps, Gaps
<1>3. ASSUME NEW p \in MissingSpecs(Purposes) \ SpecGaps(Purposes, {})
      PROVE  \E s \in Live : specs[s].filename = p /\ (specs[s].status = "draft" \/ specs[s].project)
  <2>1. PICK s \in Live : specs[s].filename = p
    BY <1>3 DEF MissingSpecs, SpecGaps, Gaps, Existing
  <2>2. \A t \in Governed : specs[t].filename # p
    BY <1>3 DEF MissingSpecs, Gaps, Planned
  <2>. SUFFICES ASSUME \A t \in Live : specs[t].filename = p => specs[t].status # "draft" /\ ~specs[t].project
                PROVE  FALSE
    OBVIOUS
  <2>3. s \in Published /\ s \notin Governed
    BY <2>1, <2>2 DEF Published
  <2>4. PICK t \in Published : specs[t].filename = p /\ ~specs[t].global
    BY <2>1, <2>3 DEF Governed
  <2>5. t \in Governed
    BY <2>4 DEF Governed
  <2>. QED BY <2>2, <2>4, <2>5
<1>4. ASSUME NEW s \in Rows, NEW t \in Rows, specs[s].filename = specs[t].filename, s # t
      PROVE  specs[s].global \/ specs[t].global \/ specs[s].project \/ specs[t].project
  <2>1. /\ specs[s].global \in BOOLEAN /\ specs[t].global \in BOOLEAN
        /\ specs[s].project \in BOOLEAN /\ specs[t].project \in BOOLEAN
    BY <1>1 DEF SpecRows
  <2>. QED BY <1>4, <2>1 DEF AutomationInv, NamesAreUnique
<1>. QED BY <1>2, <1>3, <1>4, <1>5, <1>6 DEF GapsAreDrafts

LEMMA PromptsFollow == ASSUME AutomationInv PROVE PromptsFollowTheirSpec
<1>. SUFFICES ASSUME NEW s \in Rows, Shown(s) \notin Edited
              PROVE  /\ Shown(s).version <= specs[s].version
                     /\ specs[s].status = "published" /\ ~Shown(s).improved => Shown(s) = Baseline(specs[s])
                     /\ \A some \in {Governed, {t \in Live : specs[t].status = "published"}} :
                          s \in some /\ ~Shown(s).improved => AuditPrompts(some)[s] = Shown(s)
  BY DEF PromptsFollowTheirSpec
<1>1. specs[s] \in SpecRows /\ specs[s].version \in Nat /\ PromptIsKept(specs[s])
  BY DEF AutomationInv, Rows, SpecRows
<1>2. /\ Shown(s).version <= specs[s].version
      /\ specs[s].status = "published" /\ ~Shown(s).improved => Shown(s) = Baseline(specs[s])
  <2>1. CASE specs[s].prompt = NoPrompt
    <3>1. Shown(s) = Baseline(specs[s]) /\ Baseline(specs[s]).version = specs[s].version
      BY <2>1 DEF Shown, Baseline
    <3>. QED BY <1>1, <3>1
  <2>2. CASE specs[s].prompt # NoPrompt
    <3>1. Shown(s) = specs[s].prompt /\ specs[s].prompt \notin {NoPrompt} \cup Edited
      BY <2>2 DEF Shown
    <3>. QED BY <1>1, <3>1 DEF PromptIsKept
  <2>. QED BY <2>1, <2>2
<1>3. ASSUME NEW some \in {Governed, {t \in Live : specs[t].status = "published"}}, s \in some, ~Shown(s).improved
      PROVE  AuditPrompts(some)[s] = Shown(s)
  <2>1. specs[s].status = "published"
    BY <1>3, GovernedNames
  <2>. QED BY <1>2, <1>3, <2>1 DEF AuditPrompts
<1>. QED BY <1>2, <1>3

(***************************************************************************)
(* Folds over indices, and the order of a plan.                            *)
(***************************************************************************)
\* What holds of 0, and of a number if of the one before it, holds up to n.
LEMMA StepByStep ==
  ASSUME NEW n \in Nat, NEW Good, 0 \in Good, \A k \in 1..n : k - 1 \in Good => k \in Good
  PROVE  \A k \in 0..n : k \in Good
<1>. DEFINE Bad == {k \in 0..n : k \notin Good}
<1>. SUFFICES ASSUME Bad # {} PROVE FALSE
  OBVIOUS
<1>1. Bad \in SUBSET Nat
  OBVIOUS
<1>. HIDE DEF Bad
<1>2. PICK k \in Bad : \A l \in Bad : k <= l
  BY <1>1, Minimum
<1>3. k \in 0..n /\ k \notin Good
  BY <1>2 DEF Bad
<1>4. k \in 1..n /\ k - 1 \in 0..n /\ ~ (k <= k - 1)
  BY <1>3
<1>5. k - 1 \in Good
  BY <1>2, <1>4 DEF Bad
<1>. QED BY <1>3, <1>4, <1>5

LEMMA LargestIndex ==
  ASSUME NEW n \in Nat
  PROVE  /\ \A T \in SUBSET (1..n) : n \in T => Max(T) = n
         /\ n > 0 => (1..n) \ {n} = 1..(n - 1)
<1>1. ASSUME NEW T \in SUBSET (1..n), n \in T
      PROVE  Max(T) = n
  <2>1. \A y \in T : y \in Nat /\ y <= n
    OBVIOUS
  <2>2. \A x \in T : (\A y \in T : x >= y) => x = n
    BY <1>1, <2>1
  <2>. QED BY <1>1, <2>1, <2>2 DEF Max
<1>. QED BY <1>1

\* The steps of a fold over the indices 1..n, for each set of them.
Iterated(F, D, base, n, a) ==
  /\ a \in [SUBSET (1..n) -> D]
  /\ a[{}] = base
  /\ \A T \in SUBSET (1..n) : T # {} => Max(T) \in T /\ a[T] = F[Max(T)][a[T \ {Max(T)}]]

\* A fold over indices exists, whatever its step does.
LEMMA FoldExists ==
  ASSUME NEW N \in Nat, NEW F, NEW D, NEW base \in D, \A k \in 1..N : \A x \in D : F[k][x] \in D
  PROVE  \E a : Iterated(F, D, base, N, a)
<1>. DEFINE Good == {n \in 0..N : \E a : Iterated(F, D, base, n, a)}
<1>1. 0 \in Good
  <2>. DEFINE a == [T \in SUBSET (1..0) |-> base]
  <2>1. \A T \in SUBSET (1..0) : T = {}
    OBVIOUS
  <2>2. Iterated(F, D, base, 0, a)
    BY <2>1 DEF Iterated
  <2>. QED BY <2>2
<1>2. ASSUME NEW n \in 1..N, n - 1 \in Good
      PROVE  n \in Good
  <2>1. PICK a : Iterated(F, D, base, n - 1, a)
    BY <1>2
  <2>. DEFINE b == [T \in SUBSET (1..n) |-> IF n \in T THEN F[n][a[T \ {n}]] ELSE a[T]]
  <2>2. \A T \in SUBSET (1..n) : T \ {n} \in SUBSET (1..(n - 1)) /\ (n \notin T => T \in SUBSET (1..(n - 1)))
    OBVIOUS
  <2>3. \A T \in SUBSET (1..n) : b[T] = IF n \in T THEN F[n][a[T \ {n}]] ELSE a[T]
    OBVIOUS
  <2>4. DOMAIN b = SUBSET (1..n) /\ {} \in SUBSET (1..n) /\ n \notin {}
    OBVIOUS
  <2>5. b \in [SUBSET (1..n) -> D]
    <3>1. \A T \in SUBSET (1..n) : (IF n \in T THEN F[n][a[T \ {n}]] ELSE a[T]) \in D
      BY <2>1, <2>2 DEF Iterated
    <3>. QED BY <3>1
  <2>. HIDE DEF b
  <2>6. b[{}] = base
    BY <2>1, <2>3, <2>4 DEF Iterated
  <2>7. ASSUME NEW T \in SUBSET (1..n), T # {}
        PROVE  Max(T) \in T /\ b[T] = F[Max(T)][b[T \ {Max(T)}]]
    <3>1. CASE n \in T
      <4>1. Max(T) = n
        BY <3>1, LargestIndex
      <4>2. b[T \ {n}] = a[T \ {n}]
        <5>1. T \ {n} \in SUBSET (1..n) /\ n \notin T \ {n}
          OBVIOUS
        <5>. QED BY <2>3, <5>1
      <4>. QED BY <2>3, <3>1, <4>1, <4>2
    <3>2. CASE n \notin T
      <4>1. T \in SUBSET (1..(n - 1)) /\ T \ {Max(T)} \in SUBSET (1..n) /\ n \notin T \ {Max(T)}
        BY <2>2, <3>2
      <4>2. Max(T) \in T /\ a[T] = F[Max(T)][a[T \ {Max(T)}]]
        BY <2>1, <2>7, <4>1 DEF Iterated
      <4>3. b[T] = a[T] /\ b[T \ {Max(T)}] = a[T \ {Max(T)}]
        BY <2>3, <3>2, <4>1
      <4>. QED BY <4>2, <4>3
    <3>. QED BY <3>1, <3>2
  <2>8. Iterated(F, D, base, n, b)
    BY <2>5, <2>6, <2>7 DEF Iterated
  <2>. QED BY <2>8
<1>. HIDE DEF Good
<1>3. \A k \in 0..N : k \in Good
  BY <1>1, <1>2, StepByStep
<1>. QED BY <1>3 DEF Good

LEMMA ImageIsFinite ==
  ASSUME NEW S, IsFiniteSet(S), NEW T, NEW f, T = {f[x] : x \in S}
  PROVE  IsFiniteSet(T)
<1>. DEFINE r == [x \in S |-> f[x]]
<1>1. r \in Surjection(S, T)
  BY DEF Surjection
<1>. HIDE DEF r
<1>. QED BY <1>1, FS_Surjection

(***************************************************************************)
(* The order of a plan.                                                    *)
(***************************************************************************)
IsSection(x) ==
  /\ x.spec \in Governed /\ x.place = Position[specs[x.spec].filename] /\ x.place \in Nat
  /\ x.anchor \in Nat /\ Tokens[x.anchor] \in Nat /\ Score(x.anchor) \in Int
  /\ x = [spec |-> x.spec, place |-> x.place, anchor |-> x.anchor]

LEMMA SectionsOfPlans ==
  ASSUME AutomationInv
  PROVE  IsFiniteSet(Sections(Governed)) /\ \A x \in Sections(Governed) : IsSection(x)
<1>. DEFINE Of(s) == {[spec |-> s, place |-> Position[specs[s].filename], anchor |-> a] : a \in Texts[specs[s].text]}
<1>1. \A s \in Governed : /\ specs[s].filename \in Filenames /\ specs[s].text \in DOMAIN Texts
                          /\ Position[specs[s].filename] \in Nat
                          /\ IsFiniteSet(Texts[specs[s].text]) /\ Texts[specs[s].text] \subseteq Nat
                          /\ \A a \in Texts[specs[s].text] : Tokens[a] \in Nat /\ Words[a] \in Nat
  <2>1. \A s \in Governed : specs[s].filename \in Filenames /\ specs[s].text \in DOMAIN Texts
    BY GovernedNames DEF SpecRows
  <2>. QED BY <2>1, AutomationAssumption
<1>2. \A a : Words[a] \in Nat => Score(a) \in Int
  BY DEF Score, Weight
<1>3. ASSUME NEW x \in Sections(Governed)
      PROVE  IsSection(x)
  <2>1. PICK s \in Governed : x \in Of(s)
    BY DEF Sections
  <2>2. PICK a \in Texts[specs[s].text] : x = [spec |-> s, place |-> Position[specs[s].filename], anchor |-> a]
    BY <2>1
  <2>3. x.spec = s /\ x.place = Position[specs[s].filename] /\ x.anchor = a
    BY <2>2
  <2>4. a \in Nat /\ Tokens[a] \in Nat /\ Words[a] \in Nat
    BY <1>1
  <2>. QED BY <1>1, <1>2, <2>2, <2>3, <2>4 DEF IsSection
<1>4. \A s \in Governed : IsFiniteSet(Of(s))
  <2>. SUFFICES ASSUME NEW s \in Governed PROVE IsFiniteSet(Of(s))
    OBVIOUS
  <2>. DEFINE A == Texts[specs[s].text]
              f == [a \in A |-> [spec |-> s, place |-> Position[specs[s].filename], anchor |-> a]]
  <2>1. Of(s) = {f[a] : a \in A}
    OBVIOUS
  <2>2. IsFiniteSet(A)
    BY <1>1
  <2>. HIDE DEF f, A, Of
  <2>. QED BY <2>1, <2>2, ImageIsFinite
<1>5. IsFiniteSet({Of(s) : s \in Governed})
  <2>. DEFINE f == [s \in Governed |-> Of(s)]
              T == {f[s] : s \in Governed}
  <2>1. IsFiniteSet(Governed)
    BY GovernedNames, AutomationAssumption, FS_Subset
  <2>2. IsFiniteSet(T)
    BY <2>1, ImageIsFinite
  <2>3. T = {Of(s) : s \in Governed}
    OBVIOUS
  <2>. QED BY <2>2, <2>3
<1>6. IsFiniteSet(UNION {Of(s) : s \in Governed})
  BY <1>4, <1>5, FS_UNION
<1>. QED BY <1>3, <1>6 DEF Sections

\* No two sections tie, and each of two others is before or after them.
LEMMA BeforeIsAnOrder ==
  ASSUME AutomationInv, NEW x \in Sections(Governed), NEW y \in Sections(Governed)
  PROVE  /\ ~Before(x, x)
         /\ x # y => Before(x, y) \/ Before(y, x)
         /\ \A z \in Sections(Governed) : Before(x, y) /\ Before(y, z) => Before(x, z)
<1>1. IsSection(x) /\ IsSection(y)
  BY SectionsOfPlans
<1>2. ~Before(x, x)
  BY <1>1 DEF Before, IsSection
<1>3. ASSUME x # y
      PROVE  Before(x, y) \/ Before(y, x)
  <2>1. CASE x.place = y.place /\ x.anchor = y.anchor
    <3>1. specs[x.spec].filename \in Filenames /\ specs[y.spec].filename \in Filenames
      BY <1>1, GovernedNames DEF IsSection, SpecRows
    <3>2. specs[x.spec].filename = specs[y.spec].filename
      BY <1>1, <2>1, <3>1, AutomationAssumption DEF IsSection
    <3>3. x.spec = y.spec
      BY <1>1, <3>2, GovernedNames DEF IsSection
    <3>. QED BY <1>1, <1>3, <2>1, <3>3 DEF IsSection
  <2>2. CASE ~ (x.place = y.place /\ x.anchor = y.anchor)
    <3>1. /\ Score(x.anchor) \in Int /\ Score(y.anchor) \in Int
          /\ Tokens[x.anchor] \in Int /\ Tokens[y.anchor] \in Int
          /\ x.place \in Int /\ y.place \in Int /\ x.anchor \in Int /\ y.anchor \in Int
      BY <1>1 DEF IsSection
    <3>. QED BY <2>2, <3>1 DEF Before
  <2>. QED BY <2>1, <2>2
<1>4. ASSUME NEW z \in Sections(Governed), Before(x, y), Before(y, z)
      PROVE  Before(x, z)
  <2>1. IsSection(z)
    BY SectionsOfPlans
  <2>2. /\ Score(x.anchor) \in Int /\ Score(y.anchor) \in Int /\ Score(z.anchor) \in Int
        /\ Tokens[x.anchor] \in Int /\ Tokens[y.anchor] \in Int /\ Tokens[z.anchor] \in Int
        /\ x.place \in Int /\ y.place \in Int /\ z.place \in Int
        /\ x.anchor \in Int /\ y.anchor \in Int /\ z.anchor \in Int
    BY <1>1, <2>1 DEF IsSection
  <2>. QED BY <1>4, <2>2 DEF Before
<1>. QED BY <1>2, <1>3, <1>4

\* A list of n places has each member of a set in one of them.
IsListOf(list, n, S) ==
  /\ n \in Nat /\ list \in [1..n -> S]
  /\ \A x \in S : \E k \in 1..n : list[k] = x
  /\ \A j, k \in 1..n : list[j] = list[k] => j = k

\* As many sections come before each as its place says, so that each has its place.
LEMMA RankedSections ==
  ASSUME AutomationInv
  PROVE  IsListOf(Ranked, Cardinality(Sections(Governed)), Sections(Governed))
<1>. DEFINE all == Sections(Governed)
            n == Cardinality(all)
            Below(x) == {y \in all : Before(y, x)}
<1>1. IsFiniteSet(all) /\ n \in Nat
  BY SectionsOfPlans, FS_CardinalityType
<1>2. ASSUME NEW x \in all
      PROVE  IsFiniteSet(Below(x)) /\ Cardinality(Below(x)) \in Nat /\ Cardinality(Below(x)) < n
  <2>1. Below(x) \in SUBSET all /\ Below(x) # all
    BY BeforeIsAnOrder
  <2>2. IsFiniteSet(Below(x)) /\ Cardinality(Below(x)) <= n /\ Cardinality(Below(x)) # n
    BY <1>1, <2>1, FS_Subset
  <2>3. Cardinality(Below(x)) \in Nat
    BY <2>2, FS_CardinalityType
  <2>. HIDE DEF Below, n
  <2>. QED BY <1>1, <2>2, <2>3
<1>3. ASSUME NEW x \in all, NEW y \in all, Before(x, y)
      PROVE  Cardinality(Below(x)) # Cardinality(Below(y))
  <2>1. Below(x) \in SUBSET Below(y)
    BY <1>3, BeforeIsAnOrder
  <2>2. x \in Below(y) /\ x \notin Below(x)
    BY <1>3, BeforeIsAnOrder
  <2>3. IsFiniteSet(Below(y))
    BY <1>2
  <2>. HIDE DEF Below
  <2>. QED BY <2>1, <2>2, <2>3, FS_Subset
<1>4. \A x, y \in all : Cardinality(Below(x)) = Cardinality(Below(y)) => x = y
  <2>. SUFFICES ASSUME NEW x \in all, NEW y \in all, x # y
                PROVE  Cardinality(Below(x)) # Cardinality(Below(y))
    OBVIOUS
  <2>1. Before(x, y) \/ Before(y, x)
    BY BeforeIsAnOrder
  <2>. HIDE DEF Below
  <2>. QED BY <1>3, <2>1
<1>. DEFINE rank == [x \in all |-> Cardinality(Below(x))]
            places == 0..(n - 1)
<1>5. rank \in Injection(all, places)
  <2>1. \A x \in all : Cardinality(Below(x)) \in places
    <3>. HIDE DEF Below, n
    <3>. QED BY <1>1, <1>2
  <2>2. rank \in [all -> places] /\ \A x \in all : rank[x] = Cardinality(Below(x))
    <3>. HIDE DEF Below, n, places
    <3>. QED BY <2>1
  <2>. HIDE DEF rank, Below, places, n
  <2>. QED BY <1>4, <2>2 DEF Injection, IsInjective
<1>6. IsFiniteSet(places) /\ Cardinality(places) = n
  <2>. HIDE DEF n
  <2>1. 0 \in Int /\ n - 1 \in Int
    BY <1>1
  <2>2. IsFiniteSet(0..(n - 1)) /\ Cardinality(0..(n - 1)) = IF 0 > n - 1 THEN 0 ELSE (n - 1) - 0 + 1
    BY <2>1, FS_Interval
  <2>. QED BY <1>1, <2>2
<1>7. rank \in Surjection(all, places)
  <2>. HIDE DEF rank, places
  <2>. QED BY <1>5, <1>6, FS_Injection
<1>8. \A k \in 1..n : \E x \in all : Cardinality(Below(x)) = k - 1
  <2>1. \A p \in places : \E x \in all : rank[x] = p
    <3>. HIDE DEF rank, places
    <3>. QED BY <1>7 DEF Surjection
  <2>2. \A x \in all : rank[x] = Cardinality(Below(x))
    OBVIOUS
  <2>. HIDE DEF rank, Below, n
  <2>. QED BY <1>1, <2>1, <2>2
<1>. DEFINE Placed(k) == CHOOSE x \in all : Cardinality(Below(x)) = k - 1
<1>9. \A k \in 1..n : Placed(k) \in all /\ Cardinality(Below(Placed(k))) = k - 1
  <2>. HIDE DEF Below, n
  <2>. QED BY <1>8
<1>10. Ranked = [k \in 1..n |-> Placed(k)]
  BY DEF Ranked
<1>11. Ranked \in [1..n -> all] /\ \A k \in 1..n : Ranked[k] = Placed(k)
  <2>. HIDE DEF Placed, n
  <2>. QED BY <1>9, <1>10
<1>12. \A x \in all : \E k \in 1..n : Ranked[k] = x
  <2>. SUFFICES ASSUME NEW x \in all PROVE \E k \in 1..n : Ranked[k] = x
    OBVIOUS
  <2>. DEFINE k == Cardinality(Below(x)) + 1
  <2>. HIDE DEF n, Below
  <2>1. k \in 1..n /\ k - 1 = Cardinality(Below(x))
    BY <1>1, <1>2
  <2>. HIDE DEF k, Placed
  <2>2. Placed(k) = x
    BY <1>4, <1>9, <2>1
  <2>. QED BY <1>11, <2>1, <2>2
<1>13. \A j, k \in 1..n : Ranked[j] = Ranked[k] => j = k
  <2>. HIDE DEF n, Below, Placed
  <2>1. \A k \in 1..n : Cardinality(Below(Ranked[k])) = k - 1
    BY <1>9, <1>11
  <2>2. \A j, k \in 1..n : j - 1 = k - 1 => j = k
    BY <1>1
  <2>. QED BY <2>1, <2>2
<1>. HIDE DEF n, all
<1>14. IsListOf(Ranked, n, all)
  BY <1>1, <1>11, <1>12, <1>13 DEF IsListOf
<1>. QED BY <1>14 DEF n, all

(***************************************************************************)
(* Folds over lists of sections.                                           *)
(***************************************************************************)
Considered(chosen, section, budget) ==
  IF Fits(section, chosen, budget)
  THEN [chosen EXCEPT !.used = @ + Tokens[section.anchor], !.selected = @ \cup {section}]
  ELSE chosen

\* What is selected after each place of a list.
Chooses(c, list, n, budget) ==
  c[0] = Nothing /\ \A k \in 1..n : c[k] = Considered(c[k - 1], list[k], budget)

CountedUp(total, x, some) == IF x \in some THEN total + Tokens[x.anchor] ELSE total

Counts(t, list, n, some) ==
  t[0] = 0 /\ \A k \in 1..n : t[k] = CountedUp(t[k - 1], list[k], some)

\* The indices up to k end with k.
LEMMA IndicesEnd ==
  ASSUME NEW n \in Nat
  PROVE  /\ 1..0 = {}
         /\ \A k \in 1..n : /\ 1..k \in SUBSET (1..n) /\ 1..k # {} /\ Max(1..k) = k
                            /\ (1..k) \ {k} = 1..(k - 1) /\ k - 1 \in 0..n
<1>1. 1..0 = {}
  OBVIOUS
<1>2. ASSUME NEW k \in 1..n
      PROVE  /\ 1..k \in SUBSET (1..n) /\ 1..k # {} /\ Max(1..k) = k
             /\ (1..k) \ {k} = 1..(k - 1) /\ k - 1 \in 0..n
  <2>1. k \in Nat /\ k \in 1..k /\ k > 0
    OBVIOUS
  <2>2. Max(1..k) = k
    BY <2>1, LargestIndex
  <2>. QED BY <2>1, <2>2, LargestIndex
<1>. QED BY <1>1, <1>2

LEMMA OptimizeSteps ==
  ASSUME NEW n \in Nat, NEW S, NEW list \in [1..n -> S], \A x \in S : Tokens[x.anchor] \in Int, NEW budget
  PROVE  \E c : Chooses(c, list, n, budget) /\ OptimizeContext(list, budget) = c[n]
<1>. DEFINE D == [used : Int, selected : SUBSET S, open : BOOLEAN]
            F == [k \in 1..n |-> [chosen \in D |-> Considered(chosen, list[k], budget)]]
            Body(iter) == [T \in SUBSET (1..n) |->
                             IF T = {} THEN Nothing ELSE Considered(iter[T \ {Max(T)}], list[Max(T)], budget)]
            iter == CHOOSE iter : iter = Body(iter)
<1>1. Nothing \in D
  BY DEF Nothing
<1>2. \A k \in 1..n : \A chosen \in D : Considered(chosen, list[k], budget) \in D
  <2>. SUFFICES ASSUME NEW k \in 1..n, NEW chosen \in D
                PROVE  Considered(chosen, list[k], budget) \in D
    OBVIOUS
  <2>1. list[k] \in S /\ Tokens[list[k].anchor] \in Int
    OBVIOUS
  <2>. DEFINE one == [chosen EXCEPT !.used = @ + Tokens[list[k].anchor]]
              two == [one EXCEPT !.selected = @ \cup {list[k]}]
  <2>2. one \in D
    BY <2>1
  <2>3. two \in D
    <3>. HIDE DEF one
    <3>. QED BY <2>1, <2>2
  <2>4. Considered(chosen, list[k], budget) \in {two, chosen}
    BY DEF Considered
  <2>. HIDE DEF two, D
  <2>. QED BY <2>3, <2>4
<1>3. \A k \in 1..n : \A chosen \in D : F[k][chosen] = Considered(chosen, list[k], budget)
  <2>. HIDE DEF D
  <2>. QED OBVIOUS
<1>4. PICK a : Iterated(F, D, Nothing, n, a)
  <2>. HIDE DEF F, D
  <2>. QED BY <1>1, <1>2, <1>3, FoldExists
<1>5. a = Body(a)
  <2>1. \A T \in SUBSET (1..n) :
          a[T] = IF T = {} THEN Nothing ELSE Considered(a[T \ {Max(T)}], list[Max(T)], budget)
    <3>. SUFFICES ASSUME NEW T \in SUBSET (1..n), T # {}
                  PROVE  a[T] = Considered(a[T \ {Max(T)}], list[Max(T)], budget)
      BY <1>4 DEF Iterated
    <3>1. Max(T) \in T /\ a[T] = F[Max(T)][a[T \ {Max(T)}]]
      BY <1>4 DEF Iterated
    <3>2. Max(T) \in 1..n /\ T \ {Max(T)} \in SUBSET (1..n)
      BY <3>1
    <3>3. a[T \ {Max(T)}] \in D
      BY <1>4, <3>2 DEF Iterated
    <3>. HIDE DEF F, D
    <3>. QED BY <1>3, <3>1, <3>2, <3>3
  <2>2. DOMAIN a = SUBSET (1..n)
    BY <1>4 DEF Iterated
  <2>. HIDE DEF F, D
  <2>. QED BY <1>4, <2>1, <2>2 DEF Iterated
<1>6. iter = Body(iter)
  <2>. HIDE DEF Body
  <2>. QED BY <1>5
<1>7. OptimizeContext(list, budget) = iter[1..n]
  BY DEF OptimizeContext, FoldLeft, MapThenFoldSet, Considered
<1>. DEFINE c == [k \in 0..n |-> iter[1..k]]
<1>8. \A T \in SUBSET (1..n) :
        iter[T] = IF T = {} THEN Nothing ELSE Considered(iter[T \ {Max(T)}], list[Max(T)], budget)
  <2>. HIDE DEF iter
  <2>. QED BY <1>6
<1>9. \A k \in 0..n : c[k] = iter[1..k]
  OBVIOUS
<1>. HIDE DEF c, iter
<1>10. c[0] = Nothing
  <2>1. {} \in SUBSET (1..n) /\ 1..0 = {} /\ 0 \in 0..n
    OBVIOUS
  <2>2. c[0] = iter[{}]
    BY <1>9, <2>1
  <2>. QED BY <1>8, <2>1, <2>2
<1>11. \A k \in 1..n : c[k] = Considered(c[k - 1], list[k], budget)
  <2>. SUFFICES ASSUME NEW k \in 1..n PROVE c[k] = Considered(c[k - 1], list[k], budget)
    OBVIOUS
  <2>1. /\ 1..k \in SUBSET (1..n) /\ 1..k # {} /\ Max(1..k) = k
        /\ (1..k) \ {k} = 1..(k - 1) /\ k - 1 \in 0..n
    BY IndicesEnd
  <2>2. iter[1..k] = Considered(iter[(1..k) \ {k}], list[k], budget)
    BY <1>8, <2>1
  <2>3. c[k] = iter[1..k] /\ c[k - 1] = iter[1..(k - 1)]
    BY <1>9, <2>1
  <2>. QED BY <2>1, <2>2, <2>3
<1>12. OptimizeContext(list, budget) = c[n]
  BY <1>7, <1>9
<1>. QED BY <1>10, <1>11, <1>12 DEF Chooses

LEMMA CountSteps ==
  ASSUME NEW n \in Nat, NEW S, NEW list \in [1..n -> S], \A x \in S : Tokens[x.anchor] \in Int, NEW some
  PROVE  \E t : Counts(t, list, n, some) /\ TotalTokens(some, list) = t[n]
<1>. DEFINE F == [k \in 1..n |-> [total \in Int |-> CountedUp(total, list[k], some)]]
            Body(iter) == [T \in SUBSET (1..n) |->
                             IF T = {} THEN 0 ELSE CountedUp(iter[T \ {Max(T)}], list[Max(T)], some)]
            iter == CHOOSE iter : iter = Body(iter)
<1>1. \A k \in 1..n : \A total \in Int : CountedUp(total, list[k], some) \in Int
  <2>. SUFFICES ASSUME NEW k \in 1..n, NEW total \in Int
                PROVE  CountedUp(total, list[k], some) \in Int
    OBVIOUS
  <2>1. list[k] \in S /\ Tokens[list[k].anchor] \in Int
    OBVIOUS
  <2>. QED BY <2>1 DEF CountedUp
<1>2. \A k \in 1..n : \A total \in Int : F[k][total] = CountedUp(total, list[k], some)
  OBVIOUS
<1>3. PICK a : Iterated(F, Int, 0, n, a)
  <2>. HIDE DEF F
  <2>1. 0 \in Int /\ \A k \in 1..n : \A total \in Int : F[k][total] \in Int
    BY <1>1, <1>2
  <2>. QED BY <2>1, FoldExists
<1>4. a = Body(a)
  <2>1. \A T \in SUBSET (1..n) :
          a[T] = IF T = {} THEN 0 ELSE CountedUp(a[T \ {Max(T)}], list[Max(T)], some)
    <3>. SUFFICES ASSUME NEW T \in SUBSET (1..n), T # {}
                  PROVE  a[T] = CountedUp(a[T \ {Max(T)}], list[Max(T)], some)
      BY <1>3 DEF Iterated
    <3>1. Max(T) \in T /\ a[T] = F[Max(T)][a[T \ {Max(T)}]]
      BY <1>3 DEF Iterated
    <3>2. Max(T) \in 1..n /\ T \ {Max(T)} \in SUBSET (1..n)
      BY <3>1
    <3>3. a[T \ {Max(T)}] \in Int
      BY <1>3, <3>2 DEF Iterated
    <3>. HIDE DEF F
    <3>. QED BY <1>2, <3>1, <3>2, <3>3
  <2>2. DOMAIN a = SUBSET (1..n)
    BY <1>3 DEF Iterated
  <2>. HIDE DEF F
  <2>. QED BY <1>3, <2>1, <2>2 DEF Iterated
<1>5. iter = Body(iter)
  <2>. HIDE DEF Body
  <2>. QED BY <1>4
<1>6. TotalTokens(some, list) = iter[1..n]
  BY DEF TotalTokens, FoldLeft, MapThenFoldSet, CountedUp
<1>. DEFINE t == [k \in 0..n |-> iter[1..k]]
<1>7. \A T \in SUBSET (1..n) :
        iter[T] = IF T = {} THEN 0 ELSE CountedUp(iter[T \ {Max(T)}], list[Max(T)], some)
  <2>. HIDE DEF iter
  <2>. QED BY <1>5
<1>8. \A k \in 0..n : t[k] = iter[1..k]
  OBVIOUS
<1>. HIDE DEF t, iter
<1>9. t[0] = 0
  <2>1. {} \in SUBSET (1..n) /\ 1..0 = {} /\ 0 \in 0..n
    OBVIOUS
  <2>2. t[0] = iter[{}]
    BY <1>8, <2>1
  <2>. QED BY <1>7, <2>1, <2>2
<1>10. \A k \in 1..n : t[k] = CountedUp(t[k - 1], list[k], some)
  <2>. SUFFICES ASSUME NEW k \in 1..n PROVE t[k] = CountedUp(t[k - 1], list[k], some)
    OBVIOUS
  <2>1. /\ 1..k \in SUBSET (1..n) /\ 1..k # {} /\ Max(1..k) = k
        /\ (1..k) \ {k} = 1..(k - 1) /\ k - 1 \in 0..n
    BY IndicesEnd
  <2>2. iter[1..k] = CountedUp(iter[(1..k) \ {k}], list[k], some)
    BY <1>7, <2>1
  <2>3. t[k] = iter[1..k] /\ t[k - 1] = iter[1..(k - 1)]
    BY <1>8, <2>1
  <2>. QED BY <2>1, <2>2, <2>3
<1>11. TotalTokens(some, list) = t[n]
  BY <1>6, <1>8
<1>. QED BY <1>9, <1>10, <1>11 DEF Counts

\* Selections of one list.
Selected(c, list, k, budget) ==
  {list[i] : i \in {j \in 1..k : Fits(list[j], c[j - 1], budget)}}

WithinBudget(chosen, budget) == chosen.used <= budget \/ (budget < 0 /\ chosen.selected = {})

LEMMA SelectionSteps ==
  ASSUME NEW n, NEW S, NEW list, IsListOf(list, n, S), \A x \in S : Tokens[x.anchor] \in Nat,
         NEW budget \in Int, NEW c, Chooses(c, list, n, budget)
  PROVE  \A k \in 0..n :
           /\ c[k] \in [used : Nat, selected : SUBSET S, open : BOOLEAN] /\ WithinBudget(c[k], budget)
           /\ c[k].selected = Selected(c, list, k, budget)
<1>0. n \in Nat /\ \A k \in 1..n : list[k] \in S /\ Tokens[list[k].anchor] \in Nat
  BY DEF IsListOf
<1>. DEFINE IsSelection(k) == c[k] \in [used : Nat, selected : SUBSET S, open : BOOLEAN]
            Good == {k \in 0..n : /\ IsSelection(k) /\ WithinBudget(c[k], budget)
                                  /\ c[k].selected = Selected(c, list, k, budget)}
<1>1. 0 \in Good
  <2>1. c[0] = [used |-> 0, selected |-> {}, open |-> TRUE]
    BY DEF Chooses, Nothing
  <2>2. Selected(c, list, 0, budget) = {}
    BY DEF Selected
  <2>3. IsSelection(0)
    BY <2>1
  <2>4. c[0].used = 0 /\ c[0].selected = {}
    BY <2>1
  <2>. HIDE DEF IsSelection
  <2>5. 0 \in 0..n /\ WithinBudget(c[0], budget)
    BY <1>0, <2>4 DEF WithinBudget
  <2>. QED BY <2>2, <2>3, <2>4, <2>5
<1>2. ASSUME NEW k \in 1..n, k - 1 \in Good
      PROVE  k \in Good
  <2>0. k \in 0..n /\ 1..k = 1..(k - 1) \cup {k} /\ k \notin 1..(k - 1)
    BY <1>0
  <2>1. c[k] = Considered(c[k - 1], list[k], budget)
    BY DEF Chooses
  <2>2. /\ IsSelection(k - 1) /\ WithinBudget(c[k - 1], budget)
        /\ c[k - 1].selected = Selected(c, list, k - 1, budget)
    BY <1>2
  <2>3. list[k] \in S /\ Tokens[list[k].anchor] \in Nat
    BY <1>0
  <2>4. CASE Fits(list[k], c[k - 1], budget)
    <3>. DEFINE one == [c[k - 1] EXCEPT !.used = @ + Tokens[list[k].anchor]]
                two == [one EXCEPT !.selected = @ \cup {list[k]}]
    <3>1. c[k] = two
      BY <2>1, <2>4 DEF Considered
    <3>2. /\ one \in [used : Nat, selected : SUBSET S, open : BOOLEAN]
          /\ one.used = c[k - 1].used + Tokens[list[k].anchor] /\ one.selected = c[k - 1].selected
      BY <2>2, <2>3
    <3>. HIDE DEF one
    <3>3. /\ IsSelection(k) /\ c[k].used = c[k - 1].used + Tokens[list[k].anchor]
          /\ c[k].selected = c[k - 1].selected \cup {list[k]}
      BY <2>3, <3>1, <3>2
    <3>4. WithinBudget(c[k], budget)
      BY <2>4, <3>3 DEF Fits, WithinBudget
    <3>5. Selected(c, list, k, budget) = Selected(c, list, k - 1, budget) \cup {list[k]}
      BY <2>0, <2>4 DEF Selected
    <3>. QED BY <2>0, <2>2, <3>3, <3>4, <3>5
  <2>5. CASE ~Fits(list[k], c[k - 1], budget)
    <3>1. c[k] = c[k - 1]
      BY <2>1, <2>5 DEF Considered
    <3>2. Selected(c, list, k, budget) = Selected(c, list, k - 1, budget)
      BY <2>0, <2>5 DEF Selected
    <3>. QED BY <2>0, <2>2, <3>1, <3>2
  <2>. QED BY <2>4, <2>5
<1>. HIDE DEF Good
<1>3. \A k \in 0..n : k \in Good
  BY <1>0, <1>1, <1>2, StepByStep
<1>. QED BY <1>3 DEF Good

\* What is not selected did not fit, and what is used only grows.
LEMMA NothingElseFits ==
  ASSUME NEW n, NEW S, NEW list, IsListOf(list, n, S), \A x \in S : Tokens[x.anchor] \in Nat,
         NEW budget \in Int, NEW c, Chooses(c, list, n, budget)
  PROVE  \A x \in S \ c[n].selected : c[n].used + Tokens[x.anchor] > budget
<1>0. n \in Nat /\ \A k \in 1..n : list[k] \in S /\ Tokens[list[k].anchor] \in Nat
  BY DEF IsListOf
<1>1. \A k \in 0..n : /\ c[k] \in [used : Nat, selected : SUBSET S, open : BOOLEAN]
                     /\ c[k].selected = Selected(c, list, k, budget)
  BY SelectionSteps
<1>. DEFINE Full(k) == \A j \in 1..k : list[j] \notin c[k].selected => c[k].used + Tokens[list[j].anchor] > budget
            Good == {k \in 0..n : Full(k)}
<1>2. 0 \in Good
  BY <1>0
<1>3. ASSUME NEW k \in 1..n, k - 1 \in Good
      PROVE  k \in Good
  <2>0. k \in 0..n /\ k - 1 \in 0..n /\ \A j \in 1..k : j = k \/ j \in 1..(k - 1)
    BY <1>0
  <2>1. c[k] = Considered(c[k - 1], list[k], budget)
    BY DEF Chooses
  <2>2. c[k - 1].used \in Nat /\ c[k].used \in Nat /\ \A j \in 1..k : Tokens[list[j].anchor] \in Nat
    BY <1>0, <1>1, <2>0
  <2>3. c[k - 1].selected \subseteq c[k].selected
    <3>1. 1..(k - 1) \subseteq 1..k
      BY <1>0
    <3>2. Selected(c, list, k - 1, budget) \subseteq Selected(c, list, k, budget)
      BY <3>1 DEF Selected
    <3>. QED BY <1>1, <2>0, <3>2
  <2>4. c[k - 1].used <= c[k].used
    <3>1. CASE Fits(list[k], c[k - 1], budget)
      <4>. DEFINE one == [c[k - 1] EXCEPT !.used = @ + Tokens[list[k].anchor]]
      <4>1. c[k] = [one EXCEPT !.selected = @ \cup {list[k]}]
        BY <2>1, <3>1 DEF Considered
      <4>2. c[k].used = c[k - 1].used + Tokens[list[k].anchor]
        BY <1>1, <2>0, <2>2, <4>1
      <4>. QED BY <2>2, <4>2
    <3>2. CASE ~Fits(list[k], c[k - 1], budget)
      BY <2>1, <2>2, <3>2 DEF Considered
    <3>. QED BY <3>1, <3>2
  <2>5. Full(k - 1)
    BY <1>3
  <2>6. ASSUME NEW j \in 1..k, list[j] \notin c[k].selected
        PROVE  c[k].used + Tokens[list[j].anchor] > budget
    <3>1. CASE j = k
      <4>1. ~Fits(list[k], c[k - 1], budget)
        <5>1. k \in 1..k
          BY <1>0
        <5>. QED BY <1>1, <2>0, <2>6, <3>1, <5>1 DEF Selected
      <4>2. ~ (c[k - 1].used + Tokens[list[k].anchor] <= budget)
        BY <4>1 DEF Fits
      <4>. QED BY <2>2, <2>4, <3>1, <4>2
    <3>2. CASE j \in 1..(k - 1)
      <4>1. list[j] \notin c[k - 1].selected
        BY <2>3, <2>6
      <4>2. c[k - 1].used + Tokens[list[j].anchor] > budget
        BY <2>5, <3>2, <4>1
      <4>. HIDE DEF Full
      <4>. QED BY <2>2, <2>4, <4>2
    <3>. QED BY <2>0, <3>1, <3>2
  <2>. QED BY <2>0, <2>6
<1>. HIDE DEF Good
<1>4. n \in Good
  <2>1. \A k \in 0..n : k \in Good
    BY <1>0, <1>2, <1>3, StepByStep
  <2>. QED BY <1>0, <2>1
<1>5. ASSUME NEW x \in S \ c[n].selected
      PROVE  c[n].used + Tokens[x.anchor] > budget
  <2>1. PICK j \in 1..n : list[j] = x
    BY DEF IsListOf
  <2>. QED BY <1>4, <1>5, <2>1 DEF Good
<1>. QED BY <1>5

\* A section is selected where it fits in its turn, and nowhere else.
LEMMA SelectedInTurn ==
  ASSUME NEW n, NEW S, NEW list, IsListOf(list, n, S), NEW c, NEW budget, NEW k \in 0..n, NEW j \in 1..n
  PROVE  list[j] \in Selected(c, list, k, budget) <=> j <= k /\ Fits(list[j], c[j - 1], budget)
BY DEF IsListOf, Selected

\* The tokens of what is selected are what is used.
LEMMA TokensAreUsed ==
  ASSUME NEW n, NEW S, NEW list, IsListOf(list, n, S), \A x \in S : Tokens[x.anchor] \in Nat,
         NEW budget \in Int, NEW c, Chooses(c, list, n, budget)
  PROVE  TotalTokens(c[n].selected, list) = c[n].used
<1>0. n \in Nat /\ list \in [1..n -> S] /\ \A k \in 1..n : list[k] \in S /\ Tokens[list[k].anchor] \in Nat
  BY DEF IsListOf
<1>1. \A k \in 0..n : /\ c[k] \in [used : Nat, selected : SUBSET S, open : BOOLEAN]
                     /\ c[k].selected = Selected(c, list, k, budget)
  BY SelectionSteps
<1>2. PICK t : Counts(t, list, n, c[n].selected) /\ TotalTokens(c[n].selected, list) = t[n]
  <2>1. \A x \in S : Tokens[x.anchor] \in Int
    OBVIOUS
  <2>. QED BY <1>0, <2>1, CountSteps
<1>. DEFINE Good == {k \in 0..n : t[k] = c[k].used}
<1>3. 0 \in Good
  BY <1>0, <1>2 DEF Counts, Chooses, Nothing
<1>4. ASSUME NEW k \in 1..n, k - 1 \in Good
      PROVE  k \in Good
  <2>0. k \in 0..n /\ k - 1 \in 0..n /\ n \in 0..n /\ k <= n
    BY <1>0
  <2>1. c[k] = Considered(c[k - 1], list[k], budget)
    BY DEF Chooses
  <2>2. t[k] = CountedUp(t[k - 1], list[k], c[n].selected) /\ t[k - 1] = c[k - 1].used
    BY <1>2, <1>4 DEF Counts
  <2>3. list[k] \in c[n].selected <=> Fits(list[k], c[k - 1], budget)
    BY <1>1, <2>0, SelectedInTurn
  <2>4. CASE Fits(list[k], c[k - 1], budget)
    <3>. DEFINE one == [c[k - 1] EXCEPT !.used = @ + Tokens[list[k].anchor]]
    <3>1. c[k] = [one EXCEPT !.selected = @ \cup {list[k]}]
      BY <2>1, <2>4 DEF Considered
    <3>2. c[k].used = c[k - 1].used + Tokens[list[k].anchor]
      BY <1>0, <1>1, <2>0, <3>1
    <3>3. t[k] = t[k - 1] + Tokens[list[k].anchor]
      BY <2>2, <2>3, <2>4 DEF CountedUp
    <3>. QED BY <2>0, <2>2, <3>2, <3>3
  <2>5. CASE ~Fits(list[k], c[k - 1], budget)
    BY <2>0, <2>1, <2>2, <2>3, <2>5 DEF Considered, CountedUp
  <2>. QED BY <2>4, <2>5
<1>. HIDE DEF Good
<1>5. \A k \in 0..n : k \in Good
  BY <1>0, <1>3, <1>4, StepByStep
<1>. QED BY <1>0, <1>2, <1>5 DEF Good

\* What is selected from the first sections is what of them is selected from all.
LEMMA PrefixesAgree ==
  ASSUME NEW n, NEW S, NEW list, IsListOf(list, n, S), \A x \in S : Tokens[x.anchor] \in Nat,
         NEW budget \in Int, NEW c, Chooses(c, list, n, budget),
         NEW m \in 0..n, NEW sub \in [1..m -> S], \A k \in 1..m : sub[k] = list[k]
  PROVE  OptimizeContext(sub, budget).selected = c[n].selected \cap {sub[k] : k \in DOMAIN sub}
<1>0. n \in Nat /\ m \in Nat /\ 1..m \subseteq 1..n /\ n \in 0..n
  BY DEF IsListOf
<1>1. \A k \in 0..n : c[k].selected = Selected(c, list, k, budget)
  BY SelectionSteps
<1>2. PICK d : Chooses(d, sub, m, budget) /\ OptimizeContext(sub, budget) = d[m]
  <2>1. \A x \in S : Tokens[x.anchor] \in Int
    OBVIOUS
  <2>. QED BY <1>0, <2>1, OptimizeSteps
<1>. DEFINE Good == {k \in 0..m : d[k] = c[k]}
<1>3. 0 \in Good
  BY <1>0, <1>2 DEF Chooses
<1>4. ASSUME NEW k \in 1..m, k - 1 \in Good
      PROVE  k \in Good
  <2>1. d[k] = Considered(d[k - 1], sub[k], budget) /\ c[k] = Considered(c[k - 1], list[k], budget)
    BY <1>0, <1>2 DEF Chooses
  <2>2. d[k - 1] = c[k - 1] /\ k \in 0..m
    BY <1>0, <1>4
  <2>. QED BY <2>1, <2>2
<1>. HIDE DEF Good
<1>5. d[m] = c[m]
  <2>1. \A k \in 0..m : k \in Good
    BY <1>0, <1>3, <1>4, StepByStep
  <2>. QED BY <1>0, <2>1 DEF Good
<1>6. c[m].selected = c[n].selected \cap {sub[k] : k \in 1..m}
  <2>1. \A j \in 1..m : j \in 1..n /\ (list[j] \in c[m].selected <=> list[j] \in c[n].selected)
    <3>. SUFFICES ASSUME NEW j \in 1..m
                  PROVE  j \in 1..n /\ (list[j] \in c[m].selected <=> list[j] \in c[n].selected)
      OBVIOUS
    <3>1. j \in 1..n /\ j <= m /\ j <= n
      BY <1>0
    <3>. QED BY <1>0, <1>1, <3>1, SelectedInTurn
  <2>2. \A x \in c[m].selected : \E j \in 1..m : x = list[j]
    BY <1>1 DEF Selected
  <2>. QED BY <2>1, <2>2
<1>. QED BY <1>2, <1>5, <1>6

LEMMA PlansFill == ASSUME AutomationInv PROVE PlansFillTheirBudget
<1>. DEFINE all == Sections(Governed)
            n == Cardinality(all)
<1>1. IsListOf(Ranked, n, all)
  BY RankedSections
<1>2. \A x \in all : Tokens[x.anchor] \in Nat
  BY SectionsOfPlans DEF IsSection
<1>. HIDE DEF n, all
<1>. SUFFICES ASSUME NEW budget \in Budgets
              PROVE  LET ranked == Ranked
                         plan == TaskPlan(ranked, budget)
                         chosen == plan.selection.selected
                         listed == {plan.sections[k] : k \in DOMAIN plan.sections}
                     IN /\ chosen \subseteq all
                        /\ TotalTokens(chosen, ranked) = plan.selection.used
                        /\ plan.selection.used <= budget \/ (budget < 0 /\ chosen = {})
                        /\ \A x \in all \ chosen : plan.selection.used + Tokens[x.anchor] > budget
                        /\ ContextBudget(ranked, budget).selected = chosen \cap listed
  BY DEF PlansFillTheirBudget, all
<1>3. n \in Nat /\ Ranked \in [1..n -> all] /\ budget \in Int /\ Listed \in Nat
  BY <1>1, AutomationAssumption DEF IsListOf
<1>4. PICK c : Chooses(c, Ranked, n, budget) /\ OptimizeContext(Ranked, budget) = c[n]
  <2>1. \A x \in all : Tokens[x.anchor] \in Int
    BY <1>2
  <2>. QED BY <1>3, <2>1, OptimizeSteps
<1>5. c[n] \in [used : Nat, selected : SUBSET all, open : BOOLEAN] /\ WithinBudget(c[n], budget)
  <2>1. n \in 0..n
    BY <1>3
  <2>. QED BY <1>1, <1>2, <1>3, <1>4, <2>1, SelectionSteps
<1>6. \A x \in all \ c[n].selected : c[n].used + Tokens[x.anchor] > budget
  BY <1>1, <1>2, <1>3, <1>4, NothingElseFits
<1>7. TotalTokens(c[n].selected, Ranked) = c[n].used
  BY <1>1, <1>2, <1>3, <1>4, TokensAreUsed
<1>. DEFINE sub == UpTo(Listed, Ranked)
<1>8. OptimizeContext(sub, budget).selected = c[n].selected \cap {sub[k] : k \in DOMAIN sub}
  <2>. DEFINE m == IF n < Listed THEN n ELSE Listed
  <2>1. m \in 0..n
    BY <1>3
  <2>2. Ranked \in Seq(all) /\ Len(Ranked) = n
    BY <1>3
  <2>3. sub = SubSeq(Ranked, 1, m)
    BY <2>2 DEF UpTo
  <2>. HIDE DEF m, sub
  <2>4. sub \in [1..m -> all] /\ \A k \in 1..m : sub[k] = Ranked[k]
    <3>1. sub = [k \in 1..m |-> Ranked[k]]
      BY <1>3, <2>1, <2>2, <2>3, SMT
    <3>2. \A k \in 1..m : Ranked[k] \in all
      BY <1>3, <2>1
    <3>. QED BY <3>1, <3>2
  <2>. QED BY <1>1, <1>2, <1>3, <1>4, <2>1, <2>4, PrefixesAgree
<1>. HIDE DEF sub
<1>9. /\ TaskPlan(Ranked, budget).sections = sub /\ TaskPlan(Ranked, budget).selection = c[n]
      /\ ContextBudget(Ranked, budget) = OptimizeContext(sub, budget)
  BY <1>4 DEF TaskPlan, ContextBudget, sub
<1>. QED BY <1>5, <1>6, <1>7, <1>8, <1>9 DEF WithinBudget

\* A plan of a task (planTaskContext, optimizeContext) stays within its budget, leaves out
\* nothing that would still fit, and is the one both endpoints select; a governed spec is a
\* gap for neither endpoint; and the prompt shown of a published spec is of what is served,
\* unless a person or a language model wrote it, whenever the model's answers arrive.
THEOREM AutomationStaysSound == AutomationSpec => []AutomationIsSound
<1>1. AutomationInv => AutomationIsSound
  BY PlansFill, GapsStayDrafts, PromptsFollow DEF AutomationIsSound
<1>. QED BY <1>1, InitAutomationInv, AutomationStepKeeps, PTL DEF AutomationSpec

LEMMA Greatest ==
  ASSUME NEW n \in Nat, NEW T \in SUBSET (0..n), T # {}
  PROVE  Max(T) \in T /\ \A x \in T : x <= Max(T)
<1>. DEFINE U == {n - x : x \in T}
<1>0. \A x \in T : x \in Nat /\ n - x \in Nat
  OBVIOUS
<1>1. U \in SUBSET Nat /\ U # {}
  BY <1>0
<1>. HIDE DEF U
<1>2. PICK m \in U : \A u \in U : m <= u
  BY <1>1, Minimum
<1>3. PICK x \in T : m = n - x
  BY <1>2 DEF U
<1>4. \A y \in T : x >= y
  <2>. SUFFICES ASSUME NEW y \in T PROVE x >= y
    OBVIOUS
  <2>1. n - y \in U
    BY DEF U
  <2>2. n - x <= n - y
    BY <1>2, <1>3, <2>1
  <2>. QED BY <1>0, <2>2
<1>5. Max(T) \in T /\ \A y \in T : Max(T) >= y
  BY <1>4 DEF Max
<1>. QED BY <1>0, <1>5

(***************************************************************************)
(* What the code map reads of a file.                                      *)
(***************************************************************************)
Declares == {"class", "interface", "type", "import", "function", "method", "route", "blank", "annotation"}
Line == [kind : Declares, depth : Nat, exported : BOOLEAN]

\* Lines that end classes.
Shuts(l) == l.kind # "blank" /\ (language = "TypeScript" => l.kind # "annotation")

\* Whether the class of a line is open up to another one.
OpenAt(c, n) ==
  source[c].kind = "class" /\ \A k \in (c + 1)..n : Shuts(source[k]) => DepthOf(c) < DepthOf(k)

\* A stack has the lines up to n that satisfy a condition, in their order.
Stacks(stack, n, Good) ==
  /\ stack \in Seq(1..n)
  /\ \A i, j \in DOMAIN stack : i < j => stack[i] < stack[j]
  /\ \A c \in 1..n : c \in Good <=> \E i \in DOMAIN stack : stack[i] = c

\* The line of the innermost class a line is in, or none.
IsParent(p, n) ==
  \/ p = OfFile /\ \A c \in 1..(n - 1) : ~OpenAt(c, n)
  \/ p \in 1..(n - 1) /\ OpenAt(p, n) /\ \A c \in 1..(n - 1) : OpenAt(c, n) => c <= p

IsRead(e) ==
  /\ e.line \in DOMAIN source /\ source[e.line].kind \notin {"blank", "annotation"}
  /\ e.kind = "method" => /\ IsParent(e.parent, e.line)
                          /\ language = "TypeScript" /\ e.exported =>
                               e.parent # OfFile /\ source[e.parent].exported
  /\ e.kind = "function" /\ language = "Python" => IsParent(OfFile, e.line)
  /\ e.kind = "route" /\ e.parent # OfFile =>
       /\ e.parent \in DOMAIN source
       /\ \A k \in (e.line + 1)..(e.parent - 1) : source[k].kind \notin {"function", "route"}

RouteIsPending ==
  pending_route # NoLine =>
    /\ pending_route \in DOMAIN source /\ source[pending_route].kind = "route" /\ language = "Python"
    /\ \A k \in (pending_route + 1)..Len(source) : source[k].kind \notin {"function", "route"}
    /\ \A e \in entities : e.line # pending_route

LinesRead ==
  /\ source \in Seq(Line)
  /\ Stacks(classes, Len(source), {c \in 1..Len(source) : OpenAt(c, Len(source))})
  /\ \A e \in entities : IsRead(e)
  /\ \A d, e \in entities : d.line = e.line => d = e
  /\ RouteIsPending

ExtractInv ==
  /\ language \in {"TypeScript", "Python"} => LinesRead
  /\ language = "SQL" /\ source # <<>> => source[1] \in SqlFiles /\ entities = ExtractSql(source[1])

\* What the lines before another one say of classes, the lines after do not change.
LEMMA OpenStays ==
  ASSUME source \in Seq(Line), NEW l, source' = Append(source, l), UNCHANGED language,
         NEW n \in 1..Len(source)
  PROVE  /\ \A c \in 1..n : OpenAt(c, n)' <=> OpenAt(c, n)
         /\ \A p : IsParent(p, n)' <=> IsParent(p, n)
<1>1. Len(source) \in Nat /\ \A k \in 1..n : k \in 1..Len(source) /\ source'[k] = source[k]
  OBVIOUS
<1>2. \A c \in 1..n : OpenAt(c, n)' <=> OpenAt(c, n)
  <2>1. \A c \in 1..n : \A k \in (c + 1)..n : k \in 1..n
    OBVIOUS
  <2>. QED BY <1>1, <2>1 DEF OpenAt, Shuts, DepthOf
<1>3. \A p : IsParent(p, n)' <=> IsParent(p, n)
  <2>1. \A c \in 1..(n - 1) : c \in 1..n
    OBVIOUS
  <2>. QED BY <1>2, <2>1 DEF IsParent
<1>. QED BY <1>2, <1>3

\* What is left of the stack on the next line are the classes that it is in.
LEMMA StackOfLine ==
  ASSUME LinesRead, language \in {"TypeScript", "Python"}, NEW l \in Line, source' = Append(source, l),
         UNCHANGED language, NEW n, n = Len(source) + 1, NEW stack, stack = StillOpen(l), NEW p, p = Innermost(stack)
  PROVE  /\ Stacks(stack, n - 1, {c \in 1..(n - 1) : OpenAt(c, n)'})
         /\ IsParent(p, n)'
<1>0. /\ n \in Nat /\ n - 1 = Len(source) /\ source \in Seq(Line) /\ n - 1 \in Nat /\ n > n - 1
      /\ \A k \in 1..(n - 1) : source'[k] = source[k] /\ source[k] \in Line
      /\ source'[n] = l
  BY DEF LinesRead
<1>1. /\ classes \in Seq(1..(n - 1))
      /\ \A i, j \in DOMAIN classes : i < j => classes[i] < classes[j]
      /\ \A c \in 1..(n - 1) : OpenAt(c, n - 1) <=> \E i \in DOMAIN classes : classes[i] = c
  BY <1>0 DEF LinesRead, Stacks
<1>2. \A c \in 1..(n - 1) : OpenAt(c, n)' <=> OpenAt(c, n - 1) /\ (Shuts(l) => DepthOf(c) < l.depth)
  <2>. SUFFICES ASSUME NEW c \in 1..(n - 1)
                PROVE  OpenAt(c, n)' <=> OpenAt(c, n - 1) /\ (Shuts(l) => DepthOf(c) < l.depth)
    OBVIOUS
  <2>1. \A k \in (c + 1)..n : k = n \/ k \in (c + 1)..(n - 1)
    BY <1>0
  <2>2. (c + 1)..(n - 1) \subseteq (c + 1)..n /\ n \in (c + 1)..n /\ \A k \in (c + 1)..(n - 1) : k \in 1..(n - 1)
    BY <1>0
  <2>3. source'[c] = source[c] /\ DepthOf(c)' = DepthOf(c) /\ DepthOf(n)' = l.depth
    BY <1>0 DEF DepthOf
  <2>4. \A k \in (c + 1)..(n - 1) : source'[k] = source[k] /\ DepthOf(k)' = DepthOf(k)
    BY <1>0, <2>2 DEF DepthOf
  <2>. QED BY <1>0, <2>1, <2>2, <2>3, <2>4 DEF OpenAt, Shuts
<1>3. Stacks(stack, n - 1, {c \in 1..(n - 1) : OpenAt(c, n)'})
  <2>1. CASE ~Shuts(l)
    <3>1. stack = classes
      BY <2>1 DEF StillOpen, Shuts
    <3>. QED BY <1>1, <1>2, <2>1, <3>1 DEF Stacks
  <2>2. CASE Shuts(l)
    <3>. DEFINE below == {0} \cup {k \in DOMAIN classes : DepthOf(classes[k]) < l.depth}
                m == Max(below)
                len == Len(classes)
    <3>1. stack = SubSeq(classes, 1, m)
      BY <2>2 DEF StillOpen, Shuts
    <3>2. len \in Nat /\ DOMAIN classes = 1..len /\ \A i \in 1..len : classes[i] \in 1..(n - 1)
      BY <1>1
    <3>3. m \in below /\ \A k \in below : k <= m
      <4>1. below \in SUBSET (0..len) /\ below # {}
        BY <3>2
      <4>. HIDE DEF below, len
      <4>. QED BY <3>2, <4>1, Greatest
    <3>. HIDE DEF m
    <3>4. m \in 0..len /\ (m # 0 => DepthOf(classes[m]) < l.depth)
      BY <3>2, <3>3
    <3>5. stack \in Seq(1..(n - 1)) /\ Len(stack) = m /\ \A i \in 1..m : stack[i] = classes[i] /\ i \in 1..len
      <4>. HIDE DEF below, len
      <4>1. \A i \in 1..m : i \in 1..len
        BY <3>2, <3>4
      <4>2. stack = [i \in 1..m |-> classes[i]]
        BY <1>1, <3>1, <3>2, <3>4, SMT
      <4>. QED BY <3>2, <3>4, <4>1, <4>2
    <3>6. \A i \in 1..len : i <= m <=> DepthOf(classes[i]) < l.depth
      <4>. SUFFICES ASSUME NEW i \in 1..len PROVE i <= m <=> DepthOf(classes[i]) < l.depth
        OBVIOUS
      <4>1. ASSUME DepthOf(classes[i]) < l.depth
            PROVE  i <= m
        BY <3>2, <3>3, <4>1
      <4>2. ASSUME i <= m
            PROVE  DepthOf(classes[i]) < l.depth
        <5>1. m \in 1..len
          BY <3>2, <3>4, <4>2
        <5>2. CASE i = m
          BY <3>4, <5>1, <5>2
        <5>3. CASE i < m
          <6>1. classes[i] < classes[m] /\ classes[i] \in 1..(n - 1) /\ classes[m] \in 1..(n - 1)
            BY <1>1, <3>2, <5>1, <5>3
          <6>2. OpenAt(classes[i], n - 1) /\ source[classes[m]].kind = "class"
            BY <1>1, <3>2, <5>1, <6>1 DEF OpenAt
          <6>3. classes[m] \in (classes[i] + 1)..(n - 1) /\ Shuts(source[classes[m]])
            BY <1>0, <6>1, <6>2 DEF Shuts
          <6>4. DepthOf(classes[i]) < DepthOf(classes[m])
            BY <6>2, <6>3 DEF OpenAt
          <6>5. DepthOf(classes[i]) \in Nat /\ DepthOf(classes[m]) \in Nat /\ l.depth \in Nat
            BY <1>0, <6>1 DEF DepthOf, Line
          <6>6. DepthOf(classes[m]) < l.depth
            BY <3>4, <5>1
          <6>. QED BY <6>4, <6>5, <6>6
        <5>. QED BY <3>2, <4>2, <5>1, <5>2, <5>3
      <4>. QED BY <4>1, <4>2
    <3>. HIDE DEF below
    <3>7. \A i, j \in DOMAIN stack : i < j => stack[i] < stack[j]
      BY <1>1, <3>2, <3>5
    <3>8. ASSUME NEW c \in 1..(n - 1)
          PROVE  OpenAt(c, n)' <=> \E i \in DOMAIN stack : stack[i] = c
      <4>1. OpenAt(c, n)' <=> \E i \in 1..len : classes[i] = c /\ DepthOf(classes[i]) < l.depth
        BY <1>1, <1>2, <2>2, <3>2
      <4>2. DOMAIN stack = 1..m /\ \A i \in 1..len : i <= m <=> i \in 1..m
        BY <3>2, <3>4, <3>5
      <4>. QED BY <3>5, <3>6, <4>1, <4>2
    <3>. QED BY <3>5, <3>7, <3>8 DEF Stacks
  <2>. QED BY <2>1, <2>2
<1>4. IsParent(p, n)'
  <2>0. /\ stack \in Seq(1..(n - 1)) /\ \A i, j \in DOMAIN stack : i < j => stack[i] < stack[j]
        /\ \A c \in 1..(n - 1) : OpenAt(c, n)' <=> \E i \in DOMAIN stack : stack[i] = c
    BY <1>3 DEF Stacks
  <2>1. CASE stack = <<>>
    <3>1. p = OfFile /\ DOMAIN stack = {}
      BY <2>1 DEF Innermost
    <3>. QED BY <2>0, <3>1 DEF IsParent
  <2>2. CASE stack # <<>>
    <3>1. Len(stack) \in Nat /\ Len(stack) \in DOMAIN stack /\ DOMAIN stack = 1..Len(stack)
      BY <2>0, <2>2
    <3>2. p = stack[Len(stack)]
      BY <2>2 DEF Innermost, Last
    <3>3. p \in 1..(n - 1) /\ OpenAt(p, n)'
      BY <2>0, <3>1, <3>2
    <3>4. ASSUME NEW c \in 1..(n - 1), OpenAt(c, n)'
          PROVE  c <= p
      <4>1. PICK i \in DOMAIN stack : stack[i] = c
        BY <2>0, <3>4
      <4>2. i = Len(stack) \/ i < Len(stack)
        BY <3>1
      <4>. QED BY <2>0, <3>1, <3>2, <3>3, <4>1, <4>2
    <3>. QED BY <3>3, <3>4 DEF IsParent
  <2>. QED BY <2>1, <2>2
<1>. QED BY <1>3, <1>4

\* A line that is read leaves what was read before as it was, and what it adds is read.
LEMMA LineIsRead ==
  ASSUME LinesRead, language \in {"TypeScript", "Python"}, NEW l \in Line, ReadLine(l),
         language = "Python" => l.kind # "method",
         NEW n, n = Len(source) + 1, NEW stack, stack = StillOpen(l), NEW p, p = Innermost(stack)
  PROVE  LinesRead'
<1>. DEFINE found == FoundOn(l, n, stack)
<1>0. /\ source \in Seq(Line) /\ n \in Nat /\ n - 1 = Len(source) /\ n >= 1 /\ source' = Append(source, l)
      /\ classes' = IF l.kind = "class" THEN Append(stack, n) ELSE stack
      /\ entities' = entities \cup found
      /\ pending_route' = IF language # "Python" THEN NoLine
                          ELSE IF l.kind = "route" THEN n
                          ELSE IF l.kind = "function" THEN NoLine ELSE pending_route
      /\ UNCHANGED language
  BY DEF LinesRead, ReadLine
<1>1. /\ source' \in Seq(Line) /\ Len(source') = n /\ DOMAIN source = 1..(n - 1) /\ DOMAIN source' = 1..n
      /\ source'[n] = l /\ \A k \in 1..(n - 1) : source'[k] = source[k] /\ source[k] \in Line
  BY <1>0
<1>2. Stacks(stack, n - 1, {c \in 1..(n - 1) : OpenAt(c, n)'}) /\ IsParent(p, n)'
  BY <1>0, StackOfLine
<1>. HIDE DEF found
<1>3. Stacks(classes, Len(source), {c \in 1..Len(source) : OpenAt(c, Len(source))})'
  <2>1. OpenAt(n, n)' <=> l.kind = "class"
    BY <1>0, <1>1 DEF OpenAt
  <2>2. /\ stack \in Seq(1..(n - 1))
        /\ \A i, j \in DOMAIN stack : i < j => stack[i] < stack[j]
        /\ \A c \in 1..(n - 1) : OpenAt(c, n)' <=> \E i \in DOMAIN stack : stack[i] = c
    BY <1>2 DEF Stacks
  <2>. SUFFICES /\ classes' \in Seq(1..n)
                /\ \A i, j \in DOMAIN classes' : i < j => classes'[i] < classes'[j]
                /\ \A c \in 1..n : OpenAt(c, n)' <=> \E i \in DOMAIN classes' : classes'[i] = c
    BY <1>1 DEF Stacks
  <2>3. stack \in Seq(1..n) /\ n \in 1..n /\ DOMAIN stack = 1..Len(stack) /\ Len(stack) \in Nat
        /\ \A i \in DOMAIN stack : stack[i] < n /\ stack[i] \in 1..(n - 1)
    BY <1>0, <2>2
  <2>4. CASE l.kind = "class"
    <3>1. classes' = Append(stack, n)
      BY <1>0, <2>4
    <3>2. /\ classes' \in Seq(1..n) /\ DOMAIN classes' = 1..(Len(stack) + 1) /\ classes'[Len(stack) + 1] = n
          /\ \A i \in 1..Len(stack) : classes'[i] = stack[i]
      BY <2>3, <3>1
    <3>3. \A i \in 1..(Len(stack) + 1) : i = Len(stack) + 1 \/ i \in 1..Len(stack)
      BY <2>3
    <3>4. \A c \in 1..n : c = n \/ c \in 1..(n - 1)
      BY <1>0
    <3>5. \A i, j \in DOMAIN classes' : i < j => classes'[i] < classes'[j]
      <4>. SUFFICES ASSUME NEW i \in 1..(Len(stack) + 1), NEW j \in 1..(Len(stack) + 1), i < j
                    PROVE  classes'[i] < classes'[j]
        BY <3>2
      <4>1. i \in 1..Len(stack)
        BY <2>3
      <4>2. CASE j = Len(stack) + 1
        BY <2>3, <3>2, <4>1, <4>2
      <4>3. CASE j \in 1..Len(stack)
        BY <2>2, <2>3, <3>2, <4>1, <4>3
      <4>. QED BY <3>3, <4>2, <4>3
    <3>6. ASSUME NEW c \in 1..n
          PROVE  OpenAt(c, n)' <=> \E i \in DOMAIN classes' : classes'[i] = c
      <4>1. n \in 1..n /\ Len(stack) + 1 \in 1..(Len(stack) + 1) /\ \A i \in 1..Len(stack) : i \in 1..(Len(stack) + 1)
        BY <1>0, <2>3
      <4>2. CASE c = n
        BY <2>1, <2>4, <3>2, <4>1, <4>2
      <4>3. CASE c \in 1..(n - 1)
        <5>1. OpenAt(c, n)' <=> \E i \in DOMAIN stack : stack[i] = c
          BY <2>2, <4>3
        <5>2. c # n
          BY <1>0, <4>3
        <5>. QED BY <2>3, <3>2, <3>3, <4>1, <5>1, <5>2
      <4>. QED BY <3>4, <4>2, <4>3
    <3>. QED BY <3>2, <3>5, <3>6
  <2>5. CASE l.kind # "class"
    <3>1. classes' = stack
      BY <1>0, <2>5
    <3>2. \A c \in 1..n : c = n \/ c \in 1..(n - 1)
      BY <1>0
    <3>. QED BY <2>1, <2>2, <2>3, <2>5, <3>1, <3>2
  <2>. QED BY <2>4, <2>5
<1>4. ASSUME NEW e \in entities
      PROVE  IsRead(e)' /\ e.line \in 1..(n - 1)
  <2>1. IsRead(e) /\ e.line \in 1..(n - 1)
    BY <1>1 DEF LinesRead, IsRead
  <2>2. PICK m \in 1..Len(source) : m = e.line
    BY <1>0, <2>1
  <2>3. \A q : IsParent(q, m)' <=> IsParent(q, m)
    BY <1>0, OpenStays
  <2>4. \A q : IsParent(q, m) => q = OfFile \/ q \in 1..(n - 1)
    BY <1>0 DEF IsParent
  <2>5. ASSUME e.kind = "method"
        PROVE  /\ IsParent(e.parent, m)'
               /\ language = "TypeScript" /\ e.exported => e.parent # OfFile /\ source'[e.parent].exported
    <3>1. IsParent(e.parent, m) /\ (language = "TypeScript" /\ e.exported => e.parent # OfFile /\ source[e.parent].exported)
      BY <2>1, <2>2, <2>5 DEF IsRead
    <3>. QED BY <1>1, <2>3, <2>4, <3>1
  <2>6. ASSUME e.kind = "function", language = "Python"
        PROVE  IsParent(OfFile, m)'
    BY <2>1, <2>2, <2>3, <2>6 DEF IsRead
  <2>7. ASSUME e.kind = "route", e.parent # OfFile
        PROVE  /\ e.parent \in DOMAIN source'
               /\ \A k \in (e.line + 1)..(e.parent - 1) : source'[k].kind \notin {"function", "route"}
    <3>1. e.parent \in 1..(n - 1) /\ \A k \in (e.line + 1)..(e.parent - 1) : source[k].kind \notin {"function", "route"}
      BY <1>1, <2>1, <2>7 DEF IsRead
    <3>2. \A k \in (e.line + 1)..(e.parent - 1) : k \in 1..(n - 1)
      BY <1>0, <2>1, <3>1
    <3>. QED BY <1>0, <1>1, <3>1, <3>2
  <2>8. e.line \in DOMAIN source' /\ source'[e.line].kind \notin {"blank", "annotation"}
    BY <1>0, <1>1, <2>1 DEF IsRead
  <2>9. /\ e.kind = "method" => IsParent(e.parent, e.line)'
        /\ e.kind = "function" /\ language' = "Python" => IsParent(OfFile, e.line)'
    BY <1>0, <2>2, <2>5, <2>6
  <2>10. IsRead(e)'
    BY <1>0, <2>5, <2>7, <2>8, <2>9 DEF IsRead
  <2>. QED BY <2>1, <2>10
<1>5. ASSUME NEW e \in found
      PROVE  /\ IsRead(e)'
             /\ e.line = n \/ (e.line = pending_route /\ pending_route # NoLine /\ l.kind = "function" /\ language = "Python")
             /\ \A d \in found : d.line = e.line => d = e
  <2>1. n \in 1..n /\ source'[n].kind = l.kind /\ DOMAIN source' = 1..n /\ n # OfFile
    BY <1>0, <1>1 DEF OfFile
  <2>2. pending_route # NoLine /\ language = "Python" =>
          /\ pending_route \in 1..(n - 1) /\ pending_route # n /\ source[pending_route].kind = "route"
          /\ \A k \in (pending_route + 1)..(n - 1) : source[k].kind \notin {"function", "route"}
    <3>1. \A k \in 1..(n - 1) : k # n
      BY <1>0
    <3>. QED BY <1>0, <1>1, <3>1 DEF LinesRead, RouteIsPending
  <2>3. p = OfFile \/ p \in 1..(n - 1)
    BY <1>2 DEF IsParent
  <2>4. CASE l.kind \in {"function", "method"}
    <3>1. found = {Callable(l, n, stack)} \cup (IF language = "Python" THEN RouteOf(n) ELSE {})
      BY <2>4 DEF found, FoundOn
    <3>2. ASSUME NEW d, d = Callable(l, n, stack)
          PROVE  IsRead(d)' /\ d.line = n
      <4>1. /\ d.line = n /\ d.kind = (IF language = "Python" THEN (IF p = OfFile THEN "function" ELSE "method") ELSE l.kind)
            /\ d.parent = (IF d.kind = "method" THEN p ELSE OfFile)
            /\ d.exported = (IF language = "TypeScript" /\ l.kind = "method" THEN p # OfFile /\ source[p].exported ELSE l.exported)
        BY <3>2 DEF Callable, Entity
      <4>2. d.kind = "method" /\ language = "TypeScript" /\ d.exported => d.parent # OfFile /\ source'[d.parent].exported
        BY <1>1, <2>3, <4>1
      <4>3. /\ d.kind = "method" => IsParent(d.parent, d.line)'
            /\ d.kind = "function" /\ language = "Python" => IsParent(OfFile, d.line)'
        <5>1. d.kind = "method" => d.parent = p
          BY <4>1
        <5>2. d.kind = "function" /\ language = "Python" => p = OfFile
          BY <4>1
        <5>. QED BY <1>2, <4>1, <5>1, <5>2
      <4>4. d.kind \in {"function", "method"}
        BY <2>4, <4>1
      <4>. QED BY <1>0, <2>1, <2>4, <4>1, <4>2, <4>3, <4>4 DEF IsRead
    <3>3. ASSUME NEW d \in RouteOf(n), language = "Python"
          PROVE  IsRead(d)' /\ d.line = pending_route /\ pending_route # NoLine /\ d = Entity("route", pending_route, n, FALSE)
      <4>1. d = Entity("route", pending_route, n, FALSE) /\ pending_route # NoLine
        BY <3>3 DEF RouteOf
      <4>2. d.kind = "route" /\ d.line = pending_route /\ d.parent = n
        BY <4>1 DEF Entity
      <4>3. /\ d.line \in DOMAIN source' /\ source'[d.line].kind = "route"
            /\ \A k \in (d.line + 1)..(n - 1) : source'[k].kind \notin {"function", "route"}
        <5>1. \A k \in (pending_route + 1)..(n - 1) : k \in 1..(n - 1)
          BY <1>0, <2>2, <3>3, <4>1
        <5>2. \A k \in 1..(n - 1) : k \in 1..n
          BY <1>0
        <5>3. pending_route \in 1..(n - 1) /\ source[pending_route].kind = "route"
              /\ \A k \in (pending_route + 1)..(n - 1) : source[k].kind \notin {"function", "route"}
          BY <2>2, <3>3, <4>1
        <5>. QED BY <1>1, <4>2, <5>1, <5>2, <5>3
      <4>4. IsRead(d)'
        BY <2>1, <4>2, <4>3 DEF IsRead
      <4>. QED BY <4>1, <4>2, <4>4
    <3>4. language = "Python" => l.kind = "function"
      BY <2>4
    <3>5. \A d \in found : d = Callable(l, n, stack) \/ (language = "Python" /\ d \in RouteOf(n))
      BY <3>1
    <3>. HIDE DEF found
    <3>6. ASSUME NEW d \in found
          PROVE  \/ d = Callable(l, n, stack) /\ d.line = n /\ IsRead(d)'
                 \/ /\ language = "Python" /\ pending_route # NoLine /\ IsRead(d)'
                    /\ d.line = pending_route /\ d = Entity("route", pending_route, n, FALSE)
      <4>1. CASE d = Callable(l, n, stack)
        BY <3>2, <4>1
      <4>2. CASE language = "Python" /\ d \in RouteOf(n)
        BY <3>3, <4>2
      <4>. QED BY <3>5, <4>1, <4>2
    <3>7. IsRead(e)' /\ (e.line = n \/ (e.line = pending_route /\ pending_route # NoLine /\ l.kind = "function" /\ language = "Python"))
      BY <3>4, <3>6
    <3>8. ASSUME NEW d \in found, d.line = e.line
          PROVE  d = e
      <4>1. language = "Python" /\ pending_route # NoLine => pending_route # n
        BY <2>2
      <4>. DEFINE One == Callable(l, n, stack)
                  Two == Entity("route", pending_route, n, FALSE)
      <4>2. (d = One /\ d.line = n) \/ (language = "Python" /\ pending_route # NoLine /\ d.line = pending_route /\ d = Two)
        BY <3>6
      <4>3. (e = One /\ e.line = n) \/ (language = "Python" /\ pending_route # NoLine /\ e.line = pending_route /\ e = Two)
        BY <3>6
      <4>. HIDE DEF One, Two
      <4>. QED BY <3>8, <4>1, <4>2, <4>3
    <3>. QED BY <3>7, <3>8
  <2>5. CASE l.kind \in {"class", "interface", "type", "import"} \/ (l.kind = "route" /\ language = "TypeScript")
    <3>2. (e = Entity("route", n, OfFile, FALSE) /\ l.kind = "route") \/ e = Entity(l.kind, n, OfFile, l.exported)
      <4>1. CASE l.kind = "route"
        <5>1. found = {Entity("route", n, OfFile, FALSE)}
          BY <1>0, <2>5, <4>1 DEF found, FoundOn
        <5>. QED BY <4>1, <5>1
      <4>2. CASE l.kind # "route"
        <5>1. found = {Entity(l.kind, n, OfFile, l.exported)}
          BY <2>5, <4>2 DEF found, FoundOn
        <5>. QED BY <4>2, <5>1
      <4>. QED BY <4>1, <4>2
    <3>3. e.kind = l.kind /\ e.line = n /\ e.parent = OfFile
      BY <3>2 DEF Entity
    <3>4. IsRead(e)'
      BY <2>1, <2>5, <3>3 DEF IsRead
    <3>5. \A d \in found : d = e
      <4>1. CASE l.kind = "route"
        BY <3>2, <2>5, <4>1 DEF found, FoundOn
      <4>2. CASE l.kind # "route"
        BY <3>2, <2>5, <4>2 DEF found, FoundOn
      <4>. QED BY <4>1, <4>2
    <3>. QED BY <3>3, <3>4, <3>5
  <2>6. CASE l.kind \notin {"function", "method", "class", "interface", "type", "import"} /\ (l.kind = "route" => language = "Python")
    <3>1. found = {}
      BY <2>6 DEF found, FoundOn
    <3>. QED BY <3>1
  <2>. QED BY <2>4, <2>5, <2>6
<1>6. \A d, e \in entities' : d.line = e.line => d = e
  <2>1. \A d, e \in entities : d.line = e.line => d = e
    BY DEF LinesRead
  <2>2. \A e \in entities : e.line # n /\ (pending_route # NoLine => e.line # pending_route)
    BY <1>0, <1>4 DEF LinesRead, RouteIsPending
  <2>. QED BY <1>0, <1>5, <2>1, <2>2
<1>7. RouteIsPending'
  <2>. SUFFICES ASSUME pending_route' # NoLine PROVE RouteIsPending'
    BY DEF RouteIsPending
  <2>1. language = "Python" /\ language' = "Python"
    BY <1>0
  <2>2. \A k \in (n + 1)..n : FALSE
    BY <1>0
  <2>3. CASE l.kind = "route"
    <3>1. pending_route' = n /\ found = {}
      BY <1>0, <2>1, <2>3 DEF found, FoundOn
    <3>2. \A e \in entities' : e.line # n
      BY <1>0, <1>4, <3>1
    <3>. QED BY <1>0, <1>1, <2>1, <2>2, <2>3, <3>1, <3>2 DEF RouteIsPending
  <2>4. CASE l.kind # "route" /\ l.kind # "function"
    <3>1. pending_route' = pending_route /\ pending_route # NoLine
      BY <1>0, <2>1, <2>4
    <3>2. /\ pending_route \in 1..(n - 1) /\ source[pending_route].kind = "route"
          /\ \A k \in (pending_route + 1)..(n - 1) : source[k].kind \notin {"function", "route"}
          /\ \A e \in entities : e.line # pending_route
      BY <1>0, <1>1, <3>1 DEF LinesRead, RouteIsPending
    <3>3. \A k \in (pending_route + 1)..n : k = n \/ (k \in (pending_route + 1)..(n - 1) /\ k \in 1..(n - 1))
      BY <1>0, <3>2
    <3>4. \A k \in (pending_route + 1)..n : source'[k].kind \notin {"function", "route"}
      BY <1>1, <2>4, <3>2, <3>3
    <3>5. \A e \in entities' : e.line # pending_route
      BY <1>0, <1>5, <2>4, <3>2
    <3>6. pending_route \in DOMAIN source' /\ source'[pending_route].kind = "route"
      BY <1>0, <1>1, <3>2
    <3>. QED BY <1>1, <2>1, <3>1, <3>4, <3>5, <3>6 DEF RouteIsPending
  <2>. QED BY <1>0, <2>1, <2>3, <2>4
<1>. QED BY <1>0, <1>1, <1>3, <1>4, <1>5, <1>6, <1>7 DEF LinesRead

LEMMA ExtractStep ==
  ASSUME ExtractAssumption, ExtractInv, [ExtractNext]_extractVars
  PROVE  ExtractInv'
<1>1. ASSUME NEW l, ReadLine(l), l \in Line, l.kind \in LineKinds
      PROVE  ExtractInv'
  <2>1. language \in {"TypeScript", "Python"} /\ UNCHANGED language /\ LinesRead
    BY <1>1 DEF ReadLine, ExtractInv
  <2>2. language = "Python" => l.kind # "method"
    BY <1>1 DEF LineKinds
  <2>3. ASSUME NEW n, n = Len(source) + 1, NEW stack, stack = StillOpen(l), NEW p, p = Innermost(stack)
        PROVE  LinesRead'
    BY <1>1, <2>1, <2>2, <2>3, LineIsRead
  <2>4. LinesRead'
    BY <2>3
  <2>. QED BY <2>1, <2>4 DEF ExtractInv
<1>2. ASSUME NEW kind \in LineKinds, NEW depth \in Depths, NEW exported \in BOOLEAN,
             ReadLine([kind |-> kind, depth |-> depth, exported |-> exported])
      PROVE  ExtractInv'
  <2>. DEFINE l == [kind |-> kind, depth |-> depth, exported |-> exported]
  <2>1. kind \in Declares
    BY Zenon DEF LineKinds, Declares
  <2>2. depth \in Nat
    BY DEF ExtractAssumption
  <2>3. l \in Line /\ l.kind \in LineKinds
    BY <2>1, <2>2 DEF Line
  <2>. HIDE DEF l
  <2>4. ReadLine(l)
    BY <1>2 DEF l
  <2>. QED BY <1>1, <2>3, <2>4
<1>3. CASE ReadFile
  <2>1. CASE language = "SQL"
    <3>1. PICK file \in SqlFiles : source' = <<file>> /\ entities' = ExtractSql(file)
      BY <1>3, <2>1 DEF ReadFile
    <3>2. source'[1] = file /\ language' = "SQL"
      BY <1>3, <2>1, <3>1 DEF ReadFile
    <3>3. entities' = ExtractSql(source[1])'
      BY <3>1, <3>2 DEF ExtractSql, FieldsOf, Until
    <3>. QED BY <3>2, <3>3 DEF ExtractInv
  <2>2. CASE language = "JSON"
    BY <1>3, <2>2 DEF ReadFile, ExtractInv
  <2>. QED BY <1>3, <2>1, <2>2 DEF ReadFile
<1>4. CASE UNCHANGED extractVars
  <2>1. UNCHANGED <<language, source, classes, pending_route, entities>>
    BY <1>4 DEF extractVars
  <2>2. ExtractSql(source[1])' = ExtractSql(source[1])
    BY <2>1 DEF ExtractSql, FieldsOf, Until
  <2>3. \A c, n : OpenAt(c, n)' <=> OpenAt(c, n)
    BY <2>1 DEF OpenAt, DepthOf, Shuts
  <2>4. \A q, n : IsParent(q, n)' <=> IsParent(q, n)
    BY <2>3 DEF IsParent
  <2>5. \A e : IsRead(e)' <=> IsRead(e)
    BY <2>1, <2>4 DEF IsRead
  <2>6. RouteIsPending' <=> RouteIsPending
    BY <2>1 DEF RouteIsPending
  <2>7. Stacks(classes, Len(source), {c \in 1..Len(source) : OpenAt(c, Len(source))})'
          <=> Stacks(classes, Len(source), {c \in 1..Len(source) : OpenAt(c, Len(source))})
    BY <2>1, <2>3 DEF Stacks
  <2>8. LinesRead' <=> LinesRead
    BY <2>1, <2>5, <2>6, <2>7 DEF LinesRead
  <2>. QED BY <2>1, <2>2, <2>8 DEF ExtractInv
<1>. QED BY <1>2, <1>3, <1>4 DEF ExtractNext

LEMMA InitExtractInv == ASSUME ExtractInit PROVE ExtractInv
<1>1. source = <<>> /\ classes = <<>> /\ pending_route = NoLine /\ entities = {}
  BY DEF ExtractInit
<1>2. source \in Seq(Line) /\ Len(source) = 0 /\ DOMAIN classes = {} /\ classes \in Seq(1..0)
  BY <1>1
<1>3. Stacks(classes, Len(source), {c \in 1..Len(source) : OpenAt(c, Len(source))})
  BY <1>2 DEF Stacks
<1>. QED BY <1>1, <1>2, <1>3 DEF ExtractInv, LinesRead, RouteIsPending

\* Blocks and the stack agree on the class a line of code is in, but for comments to the left of it.
LEMMA ParentsEnclose ==
  ASSUME LinesRead, language \in {"TypeScript", "Python"},
         NEW n \in DOMAIN source, source[n].kind \notin {"blank", "annotation"}, ~Outdented(n),
         NEW p, IsParent(p, n)
  PROVE  p = EnclosingClass(n)
<1>1. /\ n \in Nat /\ source \in Seq(Line) /\ DOMAIN source = 1..Len(source) /\ Len(source) \in Nat
      /\ \A k \in 1..n : k \in DOMAIN source /\ source[k] \in Line /\ DepthOf(k) \in Nat
  <2>1. n \in Nat /\ source \in Seq(Line) /\ DOMAIN source = 1..Len(source) /\ Len(source) \in Nat
    BY DEF LinesRead
  <2>2. ASSUME NEW k \in 1..n
        PROVE  k \in DOMAIN source /\ source[k] \in Line /\ DepthOf(k) \in Nat
    <3>1. k \in DOMAIN source /\ source[k] \in Line
      BY <2>1
    <3>2. source[k].depth \in Nat
      BY <3>1 DEF Line
    <3>. QED BY <3>1, <3>2 DEF DepthOf
  <2>. QED BY <2>1, <2>2
<1>2. \A c \in 1..(n - 1) : \A k \in (c + 1)..n : k \in 1..n /\ (k = n \/ k \in 1..(n - 1)) /\ c < k /\ c \in 1..n
  BY <1>1
<1>3. ASSUME NEW c \in 1..(n - 1)
      PROVE  OpenAt(c, n) <=> Encloses(c, n)
  <2>1. c < n
    BY <1>1
  <2>2. ASSUME OpenAt(c, n)
        PROVE  Encloses(c, n)
    <3>1. ASSUME NEW k \in (c + 1)..n, k \in CodeBefore
          PROVE  DepthOf(k) > DepthOf(c)
      <4>1. Shuts(source[k])
        BY <3>1 DEF CodeBefore, Shuts
      <4>2. DepthOf(c) < DepthOf(k)
        BY <2>2, <3>1, <4>1 DEF OpenAt
      <4>. QED BY <1>1, <1>2, <4>2
    <3>. QED BY <2>1, <2>2, <3>1 DEF Encloses, OpenAt
  <2>3. ASSUME Encloses(c, n)
        PROVE  OpenAt(c, n)
    <3>1. ASSUME NEW k \in (c + 1)..n, Shuts(source[k])
          PROVE  DepthOf(c) < DepthOf(k)
      <4>0. k \in 1..n /\ c \in 1..n /\ c < k /\ DepthOf(k) \in Nat /\ DepthOf(c) \in Nat
        BY <1>1, <1>2
      <4>1. CASE k \in CodeBefore
        <5>1. DepthOf(k) > DepthOf(c)
          BY <2>3, <4>1 DEF Encloses
        <5>. QED BY <4>0, <5>1
      <4>2. CASE k \notin CodeBefore
        <5>1. source[k].kind = "annotation" /\ language = "Python"
          BY <1>1, <3>1, <4>0, <4>2 DEF CodeBefore, Shuts
        <5>2. k \in 1..(n - 1)
          BY <1>2, <5>1
        <5>3. ~(DepthOf(k) <= DepthOf(c))
          BY <2>3, <4>0, <5>1, <5>2 DEF Outdented
        <5>. QED BY <4>0, <5>3
      <4>. QED BY <4>1, <4>2
    <3>. QED BY <2>3, <3>1 DEF Encloses, OpenAt
  <2>. QED BY <2>2, <2>3
<1>. DEFINE around == {c \in 1..(n - 1) : Encloses(c, n)}
<1>4. \A c : c \in around <=> c \in 1..(n - 1) /\ OpenAt(c, n)
  BY <1>3
<1>5. EnclosingClass(n) = IF around = {} THEN OfFile ELSE Max(around)
  BY DEF EnclosingClass
<1>6. around \in SUBSET (0..n)
  BY <1>1
<1>. HIDE DEF around
<1>7. CASE p = OfFile /\ \A c \in 1..(n - 1) : ~OpenAt(c, n)
  BY <1>4, <1>5, <1>7
<1>8. CASE p \in 1..(n - 1) /\ OpenAt(p, n) /\ \A c \in 1..(n - 1) : OpenAt(c, n) => c <= p
  <2>1. p \in around /\ \A c \in around : c <= p
    BY <1>4, <1>8
  <2>2. Max(around) \in around /\ \A c \in around : c <= Max(around)
    BY <1>1, <1>6, <2>1, Greatest
  <2>3. Max(around) \in Int /\ p \in Int
    <3>1. \A c \in 0..n : c \in Int
      BY <1>1
    <3>2. \A c \in 1..(n - 1) : c \in Int
      BY <1>1
    <3>. QED BY <1>6, <1>8, <2>2, <3>1, <3>2
  <2>4. Max(around) <= p /\ p <= Max(around)
    BY <2>1, <2>2
  <2>5. Max(around) = p
    BY <2>3, <2>4
  <2>. QED BY <1>5, <2>1, <2>5
<1>. QED BY <1>7, <1>8 DEF IsParent

\* The annotation right above a declaration is its last one.
LEMMA AboveIsMine ==
  ASSUME LinesRead, NEW n \in 2..Len(source), NEW e \in Traceable, source[n - 1].kind = "annotation", e.line = n
  PROVE  SpecRefOf(e) = n - 1
<1>1. \A d \in Traceable : d \in entities /\ d.line \in DOMAIN source /\ source[d.line].kind # "annotation"
  BY DEF Traceable, LinesRead, IsRead
<1>2. Len(source) \in Nat /\ DOMAIN source = 1..Len(source) /\ n \in Nat /\ n - 1 \in DOMAIN source
  BY DEF LinesRead
<1>3. n - 1 \in AnnotationsOf(e)
  <2>1. e.line \in (n - 1)..((n - 1) + Reach)
    BY <1>2 DEF Reach
  <2>2. ASSUME NEW d \in Traceable, d.line \in (n - 1)..((n - 1) + Reach)
        PROVE  e.line <= d.line
    <3>1. d.line # n - 1
      BY <1>1
    <3>. QED BY <1>2, <2>2, <3>1
  <2>. QED BY <1>2, <2>1, <2>2 DEF AnnotationsOf, Annotates
<1>4. ASSUME NEW m \in AnnotationsOf(e)
      PROVE  m <= n - 1 /\ m \in 0..n
  <2>1. m \in 1..Len(source) /\ e.line \in m..(m + Reach) /\ source[m].kind = "annotation"
    BY <1>2 DEF AnnotationsOf, Annotates
  <2>2. m # n
    BY <1>1, <2>1
  <2>. QED BY <1>2, <2>1, <2>2
<1>5. AnnotationsOf(e) \in SUBSET (0..n) /\ AnnotationsOf(e) # {}
  BY <1>3, <1>4
<1>6. PICK T : T = AnnotationsOf(e)
  OBVIOUS
<1>7. Max(T) \in T /\ \A m \in T : m <= Max(T)
  BY <1>2, <1>5, <1>6, Greatest
<1>8. Max(T) = n - 1
  <2>1. Max(T) \in 0..n /\ Max(T) <= n - 1 /\ n - 1 <= Max(T)
    BY <1>3, <1>4, <1>6, <1>7
  <2>. QED BY <1>2, <2>1
<1>. QED BY <1>5, <1>6, <1>8 DEF SpecRefOf

\* A table has its own columns, and finitely many in all.
LEMMA ColumnsOf ==
  ASSUME ExtractAssumption, NEW file \in SqlFiles, NEW n \in DOMAIN file.statements,
         file.statements[n].kind = "table", entities = ExtractSql(file)
  PROVE  Cardinality({e \in entities : e.kind = "field" /\ e.parent = n}) >= file.statements[n].fields
<1>. DEFINE statements == file.statements
            last == Until(statements, n)
            columns == FieldsOf(statements, n)
            mine == {e \in entities : e.kind = "field" /\ e.parent = n}
            width == statements[n].fields
<1>1. /\ statements \in Seq([kind : {"table", "index"}, fields : Nat, blank : BOOLEAN])
      /\ n \in 1..Len(statements) /\ Len(statements) \in Nat /\ n \in Nat
      /\ \A m \in 1..Len(statements) : statements[m].fields \in Nat
  <2>. DEFINE Statement == [kind : {"table", "index"}, fields : Nat, blank : BOOLEAN]
  <2>1. statements \in Seq(Statement)
    BY DEF ExtractAssumption
  <2>2. n \in DOMAIN statements
    OBVIOUS
  <2>. HIDE DEF statements, Statement
  <2>3. DOMAIN statements = 1..Len(statements) /\ Len(statements) \in Nat
    BY <2>1
  <2>4. \A m \in 1..Len(statements) : statements[m] \in Statement
    BY <2>1, <2>3
  <2>5. \A m \in 1..Len(statements) : statements[m].fields \in Nat
    BY <2>4 DEF Statement
  <2>6. n \in 1..Len(statements) /\ n \in Nat
    BY <2>2, <2>3
  <2>. QED BY <2>1, <2>3, <2>5, <2>6 DEF Statement
<1>2. last \in n..Len(statements)
  <2>. DEFINE blank == {k \in n..Len(statements) : statements[k].blank}
  <2>1. last = IF blank = {} THEN n ELSE Min(blank)
    BY DEF Until
  <2>2. blank \in SUBSET Nat
    BY <1>1
  <2>. HIDE DEF blank
  <2>3. blank # {} => Min(blank) \in blank
    <3>. SUFFICES ASSUME blank # {} PROVE Min(blank) \in blank
      OBVIOUS
    <3>1. \E m \in blank : \A k \in blank : m <= k
      BY <2>2, Minimum
    <3>. QED BY <3>1 DEF Min
  <2>. QED BY <1>1, <2>1, <2>3 DEF blank
<1>3. IsFiniteSet(columns)
  <2>. DEFINE Of(m) == {<<m, k>> : k \in 2..statements[m].fields}
              rest == {Of(m) : m \in (n + 1)..last}
              own == {<<n, k>> : k \in 1..width}
  <2>1. columns = own \cup UNION rest
    BY DEF FieldsOf
  <2>2. ASSUME NEW m \in Nat, NEW low \in Nat, NEW high \in Nat
        PROVE  IsFiniteSet({<<m, k>> : k \in low..high})
    <3>. DEFINE place == [k \in low..high |-> <<m, k>>]
                T == {<<m, k>> : k \in low..high}
    <3>1. IsFiniteSet(low..high)
      BY FS_Interval
    <3>2. T = {place[k] : k \in low..high}
      OBVIOUS
    <3>. HIDE DEF place, T
    <3>3. IsFiniteSet(T)
      BY <3>1, <3>2, ImageIsFinite
    <3>. QED BY <3>3 DEF T
  <2>3. \A m \in (n + 1)..last : m \in Nat /\ m \in 1..Len(statements)
    BY <1>1, <1>2
  <2>4. \A T \in rest : IsFiniteSet(T)
    <3>1. ASSUME NEW m \in (n + 1)..last
          PROVE  IsFiniteSet(Of(m))
      BY <1>1, <2>2, <2>3
    <3>. QED BY <3>1
  <2>5. IsFiniteSet(rest)
    <3>. DEFINE of == [m \in (n + 1)..last |-> Of(m)]
    <3>1. IsFiniteSet((n + 1)..last)
      BY <1>1, <1>2, FS_Interval
    <3>2. rest = {of[m] : m \in (n + 1)..last}
      OBVIOUS
    <3>. HIDE DEF of, rest
    <3>. QED BY <3>1, <3>2, ImageIsFinite
  <2>6. IsFiniteSet(own)
    BY <1>1, <2>2
  <2>. HIDE DEF rest, own, columns
  <2>7. IsFiniteSet(UNION rest)
    BY <2>4, <2>5, FS_UNION
  <2>. QED BY <2>1, <2>6, <2>7, FS_Union
<1>4. mine = {Entity("field", f, n, FALSE) : f \in columns}
  <2>. DEFINE tables == {m \in DOMAIN statements : statements[m].kind = "table"}
  <2>1. \A e : e \in entities <=>
          \/ e \in (IF file.migration THEN {Entity("migration", <<0, 0>>, OfFile, FALSE)} ELSE {})
          \/ \E m \in DOMAIN statements \ tables : e = Entity("index", <<m, 0>>, OfFile, FALSE)
          \/ \E m \in tables : e = Entity("schema", <<m, 0>>, OfFile, FALSE)
          \/ \E m \in tables : \E f \in FieldsOf(statements, m) : e = Entity("field", f, m, FALSE)
    <3>. DEFINE A == IF file.migration THEN {Entity("migration", <<0, 0>>, OfFile, FALSE)} ELSE {}
                B == {Entity("index", <<m, 0>>, OfFile, FALSE) : m \in DOMAIN statements \ tables}
                C == {Entity("schema", <<m, 0>>, OfFile, FALSE) : m \in tables}
                D(m) == {Entity("field", f, m, FALSE) : f \in FieldsOf(statements, m)}
                E == UNION {D(m) : m \in tables}
    <3>1. entities = A \cup B \cup C \cup E
      BY DEF ExtractSql
    <3>2. \A e : e \in B <=> \E m \in DOMAIN statements \ tables : e = Entity("index", <<m, 0>>, OfFile, FALSE)
      <4>. HIDE DEF tables
      <4>. QED OBVIOUS
    <3>3. \A e : e \in C <=> \E m \in tables : e = Entity("schema", <<m, 0>>, OfFile, FALSE)
      <4>. HIDE DEF tables
      <4>. QED OBVIOUS
    <3>4. \A e : e \in E <=> \E m \in tables : e \in D(m)
      <4>. HIDE DEF tables, D
      <4>. QED OBVIOUS
    <3>5. \A e, m : e \in D(m) <=> \E f \in FieldsOf(statements, m) : e = Entity("field", f, m, FALSE)
      OBVIOUS
    <3>6. \A e : e \in E <=> \E m \in tables : \E f \in FieldsOf(statements, m) : e = Entity("field", f, m, FALSE)
      <4>. HIDE DEF tables, D, E
      <4>. QED BY <3>4, <3>5
    <3>7. \A e : e \in entities <=> e \in A \/ e \in B \/ e \in C \/ e \in E
      <4>. HIDE DEF A, B, C, E
      <4>. QED BY <3>1
    <3>. HIDE DEF B, C, D, E, tables
    <3>. QED BY <3>2, <3>3, <3>6, <3>7
  <2>2. n \in tables
    OBVIOUS
  <2>. HIDE DEF tables, columns, statements
  <2>3. \A e : e \in mine <=> \E f \in FieldsOf(statements, n) : e = Entity("field", f, n, FALSE)
    <3>1. ASSUME NEW e \in mine
          PROVE  \E f \in FieldsOf(statements, n) : e = Entity("field", f, n, FALSE)
      <4>1. e \in entities /\ e.kind = "field" /\ e.parent = n
        OBVIOUS
      <4>. QED BY <2>1, <4>1 DEF Entity
    <3>2. ASSUME NEW f \in FieldsOf(statements, n), NEW e, e = Entity("field", f, n, FALSE)
          PROVE  e \in mine
      <4>1. e.kind = "field" /\ e.parent = n
        BY <3>2 DEF Entity
      <4>. QED BY <2>1, <2>2, <3>2, <4>1
    <3>. QED BY <3>1, <3>2
  <2>. HIDE DEF mine
  <2>. QED BY <2>3 DEF columns
<1>5. IsFiniteSet(mine)
  <2>. DEFINE field == [f \in columns |-> Entity("field", f, n, FALSE)]
  <2>1. mine = {field[f] : f \in columns}
    BY <1>4
  <2>. HIDE DEF field, mine, columns
  <2>. QED BY <1>3, <2>1, ImageIsFinite
<1>6. \A k \in 1..width : <<n, k>> \in columns
  BY DEF FieldsOf
<1>. HIDE DEF mine, columns, width
<1>7. width \in Nat
  BY <1>1 DEF width
<1>8. Cardinality(1..width) = width /\ IsFiniteSet(1..width)
  <2>1. 1 \in Int /\ width \in Int /\ (1 > width => width = 0) /\ width - 1 + 1 = width
    BY <1>7
  <2>2. IsFiniteSet(1..width) /\ Cardinality(1..width) = IF 1 > width THEN 0 ELSE width - 1 + 1
    BY <2>1, FS_Interval
  <2>. QED BY <2>1, <2>2
<1>9. Cardinality(1..width) <= Cardinality(mine)
  <2>. DEFINE place == [k \in 1..width |-> Entity("field", <<n, k>>, n, FALSE)]
  <2>1. \A k \in 1..width : Entity("field", <<n, k>>, n, FALSE) \in mine
    BY <1>4, <1>6
  <2>2. place \in [1..width -> mine]
    BY <2>1
  <2>3. \A j, k \in 1..width : place[j] = place[k] => j = k
    <3>. SUFFICES ASSUME NEW j \in 1..width, NEW k \in 1..width, place[j] = place[k] PROVE j = k
      OBVIOUS
    <3>1. place[j].line = <<n, j>> /\ place[k].line = <<n, k>>
      BY DEF Entity
    <3>. HIDE DEF place
    <3>2. <<n, j>> = <<n, k>>
      BY <3>1
    <3>. QED BY <3>2
  <2>. HIDE DEF place
  <2>4. place \in Injection(1..width, mine)
    BY <2>2, <2>3 DEF Injection, IsInjective
  <2>. QED BY <1>5, <2>4, FS_Injection
<1>10. Cardinality(mine) \in Nat
  BY <1>5, FS_CardinalityType
<1>11. Cardinality(mine) >= width
  BY <1>7, <1>8, <1>9, <1>10
<1>. QED BY <1>11 DEF mine, width

LEMMA ExtractInvIsRead == ASSUME ExtractAssumption, ExtractInv PROVE FilesAreRead
<1>1. ASSUME language \in {"TypeScript", "Python"}
      PROVE  /\ \A e \in entities : e.kind = "method" /\ ~Outdented(e.line) =>
                  /\ e.parent = EnclosingClass(e.line)
                  /\ language = "TypeScript" /\ e.exported => source[e.parent].exported
             /\ \A e \in entities : e.kind = "function" /\ language = "Python" /\ ~Outdented(e.line) => EnclosingClass(e.line) = OfFile
             /\ \A e \in entities : e.kind = "route" /\ e.parent # OfFile =>
                  \A k \in (e.line + 1)..(e.parent - 1) : source[k].kind \notin {"function", "route"}
             /\ \A n \in 2..Len(source), e \in Traceable :
                  source[n - 1].kind = "annotation" /\ e.line = n => SpecRefOf(e) = n - 1
             /\ \A n \in DOMAIN source : Cardinality({e \in entities : e.line = n}) <= 1
  <2>1. LinesRead
    BY <1>1 DEF ExtractInv
  <2>2. \A e \in entities : IsRead(e)
    BY <2>1 DEF LinesRead
  <2>3. ASSUME NEW e \in entities, e.kind = "method", ~Outdented(e.line)
        PROVE  /\ e.parent = EnclosingClass(e.line)
               /\ language = "TypeScript" /\ e.exported => source[e.parent].exported
    <3>1. /\ e.line \in DOMAIN source /\ source[e.line].kind \notin {"blank", "annotation"} /\ IsParent(e.parent, e.line)
          /\ language = "TypeScript" /\ e.exported => e.parent # OfFile /\ source[e.parent].exported
      BY <2>2, <2>3 DEF IsRead
    <3>2. e.parent = EnclosingClass(e.line)
      BY <1>1, <2>1, <2>3, <3>1, ParentsEnclose
    <3>. QED BY <3>1, <3>2
  <2>4. ASSUME NEW e \in entities, e.kind = "function", language = "Python", ~Outdented(e.line)
        PROVE  EnclosingClass(e.line) = OfFile
    <3>1. /\ e.line \in DOMAIN source /\ source[e.line].kind \notin {"blank", "annotation"} /\ IsParent(OfFile, e.line)
      BY <2>2, <2>4 DEF IsRead
    <3>2. OfFile = EnclosingClass(e.line)
      BY <1>1, <2>1, <2>4, <3>1, ParentsEnclose
    <3>. QED BY <3>2
  <2>5. \A e \in entities : e.kind = "route" /\ e.parent # OfFile =>
          \A k \in (e.line + 1)..(e.parent - 1) : source[k].kind \notin {"function", "route"}
    BY <2>2 DEF IsRead
  <2>6. \A n \in 2..Len(source), e \in Traceable :
          source[n - 1].kind = "annotation" /\ e.line = n => SpecRefOf(e) = n - 1
    BY <2>1, AboveIsMine
  <2>7. ASSUME NEW n
        PROVE  Cardinality({e \in entities : e.line = n}) <= 1
    <3>. DEFINE S == {e \in entities : e.line = n}
    <3>1. \A d, e \in S : d = e
      BY <2>1 DEF LinesRead
    <3>. HIDE DEF S
    <3>2. CASE S = {}
      <4>1. Cardinality(S) = 0
        BY <3>2, FS_EmptySet
      <4>. QED BY <4>1 DEF S
    <3>3. CASE S # {}
      <4>1. PICK e : S = {e}
        BY <3>1, <3>3
      <4>2. Cardinality(S) = 1
        BY <4>1, FS_Singleton
      <4>. QED BY <4>2 DEF S
    <3>. QED BY <3>2, <3>3
  <2>. QED BY <2>3, <2>4, <2>5, <2>6, <2>7
<1>2. ASSUME language = "SQL", source # <<>>
      PROVE  \A n \in DOMAIN source[1].statements : source[1].statements[n].kind = "table" =>
               Cardinality({e \in entities : e.kind = "field" /\ e.parent = n}) >= source[1].statements[n].fields
  <2>1. PICK file \in SqlFiles : file = source[1] /\ entities = ExtractSql(file)
    BY <1>2 DEF ExtractInv
  <2>2. ASSUME NEW n \in DOMAIN file.statements, file.statements[n].kind = "table"
        PROVE  Cardinality({e \in entities : e.kind = "field" /\ e.parent = n}) >= file.statements[n].fields
    BY <2>1, <2>2, ColumnsOf
  <2>. QED BY <2>1, <2>2
<1>. QED BY <1>1, <1>2 DEF FilesAreRead

LEMMA SlotsAreOrdered ==
  /\ Slots \in SUBSET Nat /\ IsFiniteSet(Slots) /\ Slots # {}
  /\ 0 \in Slots /\ Within[0] = NoSlot
  /\ \A s \in Slots : Within[s] # NoSlot => Within[s] \in Slots /\ Within[s] < s
<1>1. Slots \in SUBSET Nat /\ IsFiniteSet(Slots) /\ Slots # {}
  BY TraceAssumption
<1>2. 0 \in Slots /\ Within[0] = NoSlot
  BY TraceAssumption
<1>3. \A s \in Slots : Within[s] # NoSlot => Within[s] \in Slots /\ Within[s] < s
  BY TraceAssumption
<1>. QED BY <1>1, <1>2, <1>3

(***************************************************************************)
(* Ids.                                                                    *)
(***************************************************************************)

\* How ids are made of each other, for the slots of a set.
IdsOf(c, S, f) ==
  \A s \in S : f[s] = IF Within[s] = NoSlot THEN IdFrom(c, s, NoSlot) ELSE IdFrom(c, s, f[Within[s]])

\* Ids can be made in the order of the file.
LEMMA IdsInOrder ==
  ASSUME NEW c, NEW m \in Nat, \A s \in Slots : s \in Nat /\ s <= m,
         \A s \in Slots : Within[s] # NoSlot => Within[s] \in Slots /\ Within[s] < s
  PROVE  \E f : IdsOf(c, Slots, f)
<1>. DEFINE Below(n) == {s \in Slots : s < n}
            Good == {n \in 0..(m + 1) : \E f : IdsOf(c, Below(n), f)}
<1>1. 0 \in Good
  <2>1. Below(0) = {}
    OBVIOUS
  <2>. HIDE DEF Below
  <2>2. IdsOf(c, Below(0), 0)
    BY <2>1 DEF IdsOf
  <2>3. 0 \in 0..(m + 1)
    OBVIOUS
  <2>. QED BY <2>2, <2>3
<1>2. ASSUME NEW n \in 1..(m + 1), n - 1 \in Good
      PROVE  n \in Good
  <2>1. PICK f : IdsOf(c, Below(n - 1), f)
    BY <1>2
  <2>. DEFINE g == [s \in Below(n) |-> IF Within[s] = NoSlot THEN IdFrom(c, s, NoSlot) ELSE IdFrom(c, s, f[Within[s]])]
  <2>2. \A s \in Below(n) : Within[s] # NoSlot => Within[s] \in Below(n - 1) /\ Within[s] \in Below(n)
    <3>. SUFFICES ASSUME NEW s \in Below(n), Within[s] # NoSlot PROVE Within[s] < n - 1 /\ Within[s] < n /\ Within[s] \in Slots
      OBVIOUS
    <3>1. Within[s] \in Nat /\ Within[s] < s /\ s < n /\ s \in Nat /\ n \in Nat /\ Within[s] \in Slots
      OBVIOUS
    <3>. QED BY <3>1
  <2>3. \A s \in Below(n) : g[s] = IF Within[s] = NoSlot THEN IdFrom(c, s, NoSlot) ELSE IdFrom(c, s, f[Within[s]])
    <3>. HIDE DEF Below
    <3>. QED OBVIOUS
  <2>. HIDE DEF g, Below
  <2>4. \A s \in Below(n) : Within[s] # NoSlot => g[Within[s]] = f[Within[s]]
    BY <2>1, <2>2, <2>3 DEF IdsOf
  <2>5. IdsOf(c, Below(n), g)
    BY <2>3, <2>4 DEF IdsOf
  <2>6. n \in 0..(m + 1)
    OBVIOUS
  <2>. QED BY <2>5, <2>6
<1>3. m + 1 \in Good
  <2>1. m + 1 \in 0..(m + 1) /\ m + 1 \in Nat
    OBVIOUS
  <2>. HIDE DEF Good
  <2>. QED BY <1>1, <1>2, <2>1, StepByStep
<1>4. PICK f : IdsOf(c, Below(m + 1), f)
  BY <1>3
<1>5. Below(m + 1) = Slots
  OBVIOUS
<1>. HIDE DEF Below
<1>. QED BY <1>4, <1>5

\* A declaration's id is made of that of what it is in.
LEMMA IdsExist ==
  ASSUME NEW c
  PROVE  \E f : IdsOf(c, Slots, f) /\ Ids(c) = [s \in Present(c) |-> f[s]]
<1>1. PICK m \in Slots : \A s \in Slots : m >= s
  <2>1. Slots \in SUBSET Nat /\ IsFiniteSet(Slots) /\ Slots # {}
    BY SlotsAreOrdered
  <2>. QED BY <2>1, LargestExists
<1>2. /\ m \in Nat
      /\ \A s \in Slots : s \in Nat /\ s <= m
      /\ \A s \in Slots : Within[s] # NoSlot => Within[s] \in Slots /\ Within[s] < s
  BY <1>1, SlotsAreOrdered
<1>3. PICK f : IdsOf(c, Slots, f)
  BY <1>2, IdsInOrder
<1>. DEFINE Body(id) == [s \in Slots |-> IF Within[s] = NoSlot THEN IdFrom(c, s, NoSlot) ELSE IdFrom(c, s, id[Within[s]])]
            id == CHOOSE id : id = Body(id)
<1>4. \E h : h = Body(h)
  <2>. DEFINE h == [s \in Slots |-> f[s]]
  <2>1. \A s \in Slots : h[s] = f[s]
    OBVIOUS
  <2>. HIDE DEF h
  <2>2. \A s \in Slots : h[s] = IF Within[s] = NoSlot THEN IdFrom(c, s, NoSlot) ELSE IdFrom(c, s, h[Within[s]])
    BY <1>2, <1>3, <2>1 DEF IdsOf
  <2>3. h = Body(h)
    BY <2>2 DEF h
  <2>. QED BY <2>3
<1>5. id = Body(id)
  <2>. HIDE DEF Body
  <2>. QED BY <1>4
<1>6. IdsOf(c, Slots, id)
  <2>. HIDE DEF id
  <2>1. \A s \in Slots : id[s] = IF Within[s] = NoSlot THEN IdFrom(c, s, NoSlot) ELSE IdFrom(c, s, id[Within[s]])
    BY <1>5
  <2>. QED BY <2>1 DEF IdsOf
<1>7. Ids(c) = [s \in Present(c) |-> id[s]]
  BY DEF Ids
<1>. HIDE DEF id
<1>. QED BY <1>6, <1>7

\* Declarations that share an id share their name.
LEMMA NamesOfIds ==
  ASSUME NEW c, NEW s \in Present(c), NEW d \in Present(c), Ids(c)[s] = Ids(c)[d]
  PROVE  NameOf(c, s) = NameOf(c, d)
<1>1. PICK f : IdsOf(c, Slots, f) /\ Ids(c) = [x \in Present(c) |-> f[x]]
  BY IdsExist
<1>2. s \in Slots /\ d \in Slots
  BY DEF Present
<1>3. PICK p : f[s] = IdFrom(c, s, p)
  BY <1>1, <1>2 DEF IdsOf
<1>4. PICK q : f[d] = IdFrom(c, d, q)
  BY <1>1, <1>2 DEF IdsOf
<1>5. IdFrom(c, s, p) = IdFrom(c, d, q)
  BY <1>1, <1>3, <1>4
<1>6. IdFrom(c, s, p)[4] = NameOf(c, s) /\ IdFrom(c, d, q)[4] = NameOf(c, d)
  BY DEF IdFrom
<1>. QED BY <1>5, <1>6

(***************************************************************************)
(* Links.                                                                  *)
(***************************************************************************)
IsLink(l) ==
  /\ l = [id |-> l.id, spec |-> l.spec, section |-> l.section, confidence |-> l.confidence]
  /\ l.confidence \in Nat

AreLinks(links) == IsFiniteSet(links) /\ \A l \in links : IsLink(l)

IsCode(c) == c.path \in Paths /\ \A s \in Slots : s # File /\ c.decls[s] # Absent => c.decls[s].name \in Names

LEMMA LinksAreLinks ==
  ASSUME NEW c, IsCode(c), local \subseteq Specs
  PROVE  AreLinks(RawLinks(c))
<1>1. \A s \in Governables(c) : s \in Slots /\ NameOf(c, s) \in Names \cup Paths
  BY DEF Governables, Present, NameOf, IsCode
<1>2. ASSUME NEW s \in Governables(c)
      PROVE  AreLinks(LinksOf(c, s))
  <2>1. CASE Explicit(c, s)
    <3>. DEFINE ref == RefOf(c, s)
                known == ref.section = NoRef \/ ref.section \in Anchors[ref.spec]
                link == [id |-> Ids(c)[s], spec |-> ref.spec, section |-> IF known THEN ref.section ELSE NoRef,
                         confidence |-> IF known THEN 100 ELSE 90]
    <3>1. LinksOf(c, s) = {link}
      BY <2>1 DEF LinksOf
    <3>. HIDE DEF known, ref
    <3>2. IsLink(link)
      BY DEF IsLink
    <3>. HIDE DEF link
    <3>. QED BY <3>1, <3>2, FS_Singleton DEF AreLinks
  <2>2. CASE ~Explicit(c, s)
    <3>. DEFINE some == {p \in local : Confidence[NameOf(c, s)][p] > 0}
                link == [p \in some |-> [id |-> Ids(c)[s], spec |-> p, section |-> NoRef, confidence |-> Confidence[NameOf(c, s)][p]]]
    <3>1. LinksOf(c, s) = {link[p] : p \in some}
      BY <2>2 DEF LinksOf
    <3>2. IsFiniteSet(Specs) /\ some \in SUBSET Specs
      BY TraceAssumption
    <3>3. IsFiniteSet(some)
      BY <3>2, FS_Subset
    <3>4. ASSUME NEW p \in some
          PROVE  IsLink(link[p])
      <4>1. Confidence[NameOf(c, s)][p] \in Nat
        BY <1>1, <3>2, TraceAssumption
      <4>. QED BY <4>1 DEF IsLink
    <3>. HIDE DEF link, some
    <3>. QED BY <3>1, <3>3, <3>4, ImageIsFinite DEF AreLinks
  <2>. QED BY <2>1, <2>2
<1>3. IsFiniteSet(RawLinks(c))
  <2>. DEFINE of == [s \in Governables(c) |-> LinksOf(c, s)]
              all == {of[s] : s \in Governables(c)}
  <2>1. RawLinks(c) = UNION all
    BY DEF RawLinks
  <2>2. IsFiniteSet(Governables(c))
    <3>1. Governables(c) \in SUBSET Slots
      BY <1>1
    <3>. QED BY <3>1, SlotsAreOrdered, FS_Subset
  <2>3. \A x \in all : IsFiniteSet(x)
    BY <1>2 DEF AreLinks
  <2>. HIDE DEF of
  <2>4. IsFiniteSet(all)
    <3>1. PICK T : T = all
      OBVIOUS
    <3>2. IsFiniteSet(T)
      BY <2>2, <3>1, ImageIsFinite
    <3>. QED BY <3>1, <3>2
  <2>. HIDE DEF all
  <2>. QED BY <2>1, <2>3, <2>4, FS_UNION
<1>4. \A l \in RawLinks(c) : IsLink(l)
  BY <1>2 DEF RawLinks, AreLinks
<1>. QED BY <1>3, <1>4 DEF AreLinks

\* The last link of an entity is one of its links.
LEMMA LastLinksAreLinks ==
  ASSUME NEW links, AreLinks(links)
  PROVE  /\ LastLinks(links) \subseteq links /\ AreLinks(LastLinks(links))
         /\ \A i, x : {l \in links : l.id = i} = {x} => {l \in LastLinks(links) : l.id = i} = {x}
<1>. DEFINE Of(i) == {l \in links : l.id = i}
            owners == {l.id : l \in links}
<1>1. LastLinks(links) = {Weakest(Of(i)) : i \in owners}
  BY DEF LastLinks
<1>2. ASSUME NEW i \in owners
      PROVE  Weakest(Of(i)) \in Of(i)
  <2>. DEFINE some == {l.confidence : l \in Of(i)}
  <2>1. \A l \in Of(i) : l.confidence \in Nat
    BY DEF AreLinks, IsLink
  <2>2. some \in SUBSET Nat /\ some # {}
    BY <2>1
  <2>. HIDE DEF some
  <2>3. PICK m \in some : \A n \in some : m <= n
    BY <2>2, Minimum
  <2>. HIDE DEF Of
  <2>4. \E l \in Of(i) : \A k \in Of(i) : l.confidence <= k.confidence
    BY <2>3 DEF some
  <2>. QED BY <2>4 DEF Weakest
<1>3. \A i \in owners : Weakest(Of(i)) \in links /\ Weakest(Of(i)).id = i
  BY <1>2
<1>4. LastLinks(links) \subseteq links
  <2>. HIDE DEF Of
  <2>. QED BY <1>1, <1>3
<1>5. AreLinks(LastLinks(links))
  <2>1. IsFiniteSet(LastLinks(links))
    BY <1>4, FS_Subset DEF AreLinks
  <2>. QED BY <1>4, <2>1 DEF AreLinks
<1>6. ASSUME NEW i, NEW x, Of(i) = {x}
      PROVE  {l \in LastLinks(links) : l.id = i} = {x}
  <2>1. i \in owners
    BY <1>6
  <2>. HIDE DEF Of, owners
  <2>2. Weakest(Of(i)) = x
    BY <1>2, <1>6, <2>1
  <2>3. \A l \in LastLinks(links) : l.id = i => l = x
    BY <1>1, <1>3, <2>2
  <2>4. x \in LastLinks(links) /\ x.id = i
    BY <1>1, <1>3, <2>1, <2>2
  <2>. QED BY <2>3, <2>4
<1>. QED BY <1>4, <1>5, <1>6

(***************************************************************************)
(* Overrides.                                                              *)
(***************************************************************************)

\* What every entry of the file preserves, they preserve together.
LEMMA OverridesKeep ==
  ASSUME overrides \in OverrideFiles, overrides # <<>>, NEW c, NEW D,
         NEW base \in D, base = [links |-> LastLinks(RawLinks(c)), waived |-> {}],
         \A k \in DOMAIN overrides : \A done \in D : ApplyOverride(c, done, overrides[k]) \in D
  PROVE  ApplyTraceOverrides(c) \in D
<1>. DEFINE n == Len(overrides)
            F == [k \in 1..n |-> [done \in D |-> ApplyOverride(c, done, overrides[k])]]
            Body(iter) == [T \in SUBSET (1..n) |->
                             IF T = {} THEN base ELSE ApplyOverride(c, iter[T \ {Max(T)}], overrides[Max(T)])]
            iter == CHOOSE iter : iter = Body(iter)
<1>0. n \in Nat /\ DOMAIN overrides = 1..n
  BY TraceAssumption
<1>. HIDE DEF n
<1>1. \A k \in 1..n : \A done \in D : F[k][done] = ApplyOverride(c, done, overrides[k]) /\ F[k][done] \in D
  BY <1>0
<1>2. PICK a : Iterated(F, D, base, n, a)
  <2>. HIDE DEF F
  <2>1. \A k \in 1..n : \A done \in D : F[k][done] \in D
    BY <1>1
  <2>. QED BY <1>0, <2>1, FoldExists
<1>3. a = Body(a)
  <2>1. \A T \in SUBSET (1..n) :
          a[T] = IF T = {} THEN base ELSE ApplyOverride(c, a[T \ {Max(T)}], overrides[Max(T)])
    <3>. SUFFICES ASSUME NEW T \in SUBSET (1..n), T # {}
                  PROVE  a[T] = ApplyOverride(c, a[T \ {Max(T)}], overrides[Max(T)])
      BY <1>2 DEF Iterated
    <3>1. Max(T) \in T /\ a[T] = F[Max(T)][a[T \ {Max(T)}]]
      BY <1>2 DEF Iterated
    <3>2. Max(T) \in 1..n /\ T \ {Max(T)} \in SUBSET (1..n)
      BY <3>1
    <3>3. a[T \ {Max(T)}] \in D
      BY <1>2, <3>2 DEF Iterated
    <3>. HIDE DEF F
    <3>. QED BY <1>1, <3>1, <3>2, <3>3
  <2>2. DOMAIN a = SUBSET (1..n)
    BY <1>2 DEF Iterated
  <2>. HIDE DEF F
  <2>. QED BY <1>2, <2>1, <2>2 DEF Iterated
<1>4. iter = Body(iter)
  <2>. HIDE DEF Body
  <2>. QED BY <1>3
<1>5. ApplyTraceOverrides(c) = iter[1..n]
  BY <1>0 DEF ApplyTraceOverrides, FoldLeft, MapThenFoldSet
<1>6. \A T \in SUBSET (1..n) :
        iter[T] = IF T = {} THEN base ELSE ApplyOverride(c, iter[T \ {Max(T)}], overrides[Max(T)])
  <2>. HIDE DEF iter
  <2>. QED BY <1>4
<1>. HIDE DEF iter, F
<1>. DEFINE Good == {k \in 0..n : iter[1..k] \in D}
<1>7. 0 \in Good
  <2>1. 1..0 = {} /\ 0 \in 0..n
    BY <1>0
  <2>. QED BY <1>6, <2>1
<1>8. ASSUME NEW k \in 1..n, k - 1 \in Good
      PROVE  k \in Good
  <2>1. k \in Nat /\ k > 0 /\ k \in 0..n /\ 1..k \in SUBSET (1..n) /\ k \in 1..k
    BY <1>0
  <2>2. Max(1..k) = k /\ (1..k) \ {k} = 1..(k - 1)
    BY <2>1, LargestIndex
  <2>3. iter[1..k] = ApplyOverride(c, iter[1..(k - 1)], overrides[k])
    BY <1>6, <2>1, <2>2
  <2>4. iter[1..(k - 1)] \in D
    BY <1>8
  <2>5. iter[1..k] \in D
    BY <1>0, <2>3, <2>4
  <2>. QED BY <2>1, <2>5
<1>9. n \in Good
  <2>. HIDE DEF Good
  <2>1. n \in 0..n
    BY <1>0
  <2>. QED BY <1>0, <1>7, <1>8, <2>1, StepByStep
<1>. QED BY <1>5, <1>9

\* Ids of declarations that no entry names.
Safe(c) == {i \in {Ids(c)[s] : s \in Present(c)} :
              \A k \in DOMAIN overrides : \A d \in Present(c) : Ids(c)[d] = i => NameOf(c, d) # overrides[k].name}

\* Overrides leave links, and they leave those of other declarations alone.
LEMMA OverridesApply ==
  ASSUME overrides \in OverrideFiles, NEW c, IsCode(c), local \subseteq Specs
  PROVE  /\ AreLinks(ApplyTraceOverrides(c).links)
         /\ \A i, x : i \in Safe(c) /\ {l \in RawLinks(c) : l.id = i} = {x} =>
              {l \in ApplyTraceOverrides(c).links : l.id = i} = {x}
<1>. DEFINE base == [links |-> LastLinks(RawLinks(c)), waived |-> {}]
            owners == {Ids(c)[s] : s \in Present(c)}
            Manual(i, k) == [id |-> i, spec |-> overrides[k].spec, section |-> NoRef, confidence |-> 100]
            manual == UNION {{Manual(i, k) : i \in owners} : k \in DOMAIN overrides}
            all == base.links \cup manual
            D == {done \in [links : SUBSET all, waived : SUBSET owners] :
                    \A i \in Safe(c) : {l \in done.links : l.id = i} = {l \in base.links : l.id = i}}
<1>1. AreLinks(RawLinks(c))
  BY LinksAreLinks
<1>2. /\ AreLinks(base.links)
      /\ \A i, x : {l \in RawLinks(c) : l.id = i} = {x} => {l \in base.links : l.id = i} = {x}
  <2>1. PICK links : links = RawLinks(c)
    OBVIOUS
  <2>2. base.links = LastLinks(links)
    BY <2>1
  <2>. HIDE DEF base
  <2>3. AreLinks(links)
    BY <1>1, <2>1
  <2>4. /\ AreLinks(LastLinks(links))
        /\ \A i, x : {l \in links : l.id = i} = {x} => {l \in LastLinks(links) : l.id = i} = {x}
    BY <2>3, LastLinksAreLinks
  <2>5. AreLinks(base.links)
    BY <2>2, <2>4
  <2>6. ASSUME NEW i, NEW x, {l \in RawLinks(c) : l.id = i} = {x}
        PROVE  {l \in base.links : l.id = i} = {x}
    <3>1. {l \in links : l.id = i} = {x}
      BY <2>1, <2>6
    <3>2. {l \in LastLinks(links) : l.id = i} = {x}
      BY <2>4, <3>1
    <3>. QED BY <2>2, <3>2
  <2>. QED BY <2>5, <2>6
<1>3. CASE overrides = <<>>
  BY <1>1, <1>3 DEF ApplyTraceOverrides
<1>4. CASE overrides # <<>>
  <2>1. AreLinks(all)
    <3>. DEFINE Of(k) == {Manual(i, k) : i \in owners}
                parts == {Of(k) : k \in DOMAIN overrides}
    <3>1. IsFiniteSet(owners)
      <4>1. IsFiniteSet(Present(c))
        BY SlotsAreOrdered, FS_Subset DEF Present
      <4>2. PICK T, f : T = owners /\ f = Ids(c)
        OBVIOUS
      <4>3. T = {f[s] : s \in Present(c)}
        BY <4>2
      <4>. QED BY <4>1, <4>2, <4>3, ImageIsFinite
    <3>2. IsFiniteSet(DOMAIN overrides)
      <4>1. Len(overrides) \in Nat /\ DOMAIN overrides = 1..Len(overrides)
        BY TraceAssumption
      <4>. QED BY <4>1, FS_Interval
    <3>3. ASSUME NEW k \in DOMAIN overrides
          PROVE  IsFiniteSet(Of(k))
      <4>. DEFINE f == [i \in owners |-> Manual(i, k)]
      <4>1. PICK T : T = Of(k)
        OBVIOUS
      <4>2. T = {f[i] : i \in owners}
        BY <4>1
      <4>. HIDE DEF f, owners
      <4>3. IsFiniteSet(T)
        BY <3>1, <4>2, ImageIsFinite
      <4>. QED BY <4>1, <4>3
    <3>4. \A x \in parts : IsFiniteSet(x)
      BY <3>3
    <3>5. IsFiniteSet(parts)
      <4>. DEFINE f == [k \in DOMAIN overrides |-> Of(k)]
      <4>1. PICK T : T = parts
        OBVIOUS
      <4>2. T = {f[k] : k \in DOMAIN overrides}
        BY <4>1
      <4>. HIDE DEF f, parts
      <4>3. IsFiniteSet(T)
        BY <3>2, <4>2, ImageIsFinite
      <4>. QED BY <4>1, <4>3
    <3>6. manual = UNION parts
      OBVIOUS
    <3>7. IsFiniteSet(manual)
      <4>. HIDE DEF parts, manual
      <4>. QED BY <3>4, <3>5, <3>6, FS_UNION
    <3>8. \A l \in manual : IsLink(l)
      BY DEF IsLink
    <3>. HIDE DEF base, manual
    <3>. QED BY <1>2, <3>7, <3>8, FS_Union DEF AreLinks
  <2>2. base \in D
    OBVIOUS
  <2>3. ASSUME NEW k \in DOMAIN overrides, NEW done \in D
        PROVE  ApplyOverride(c, done, overrides[k]) \in D
    <3>. DEFINE o == overrides[k]
                matched == {Ids(c)[s] : s \in {d \in Present(c) : NameOf(c, d) = o.name}}
                others == {l \in done.links : l.id \notin matched}
                added == {Manual(i, k) : i \in matched}
    <3>1. ApplyOverride(c, done, o) =
            CASE o.action = "override" -> [done EXCEPT !.links = others \cup added]
              [] o.action = "waive" -> [links |-> others, waived |-> done.waived \cup matched]
              [] o.action = "reject" -> [done EXCEPT !.links = others]
      BY DEF ApplyOverride
    <3>2. o.action \in {"override", "waive", "reject"}
      BY TraceAssumption
    <3>3. matched \in SUBSET owners
      OBVIOUS
    <3>4. \A i \in matched : i \notin Safe(c)
      BY DEF Safe
    <3>5. added \in SUBSET manual /\ \A l \in added : l.id \in matched
      <4>1. added \in SUBSET manual
        OBVIOUS
      <4>2. \A l \in added : l.id \in matched
        <5>. HIDE DEF matched
        <5>. QED OBVIOUS
      <4>. QED BY <4>1, <4>2
    <3>6. done \in [links : SUBSET all, waived : SUBSET owners]
          /\ \A i \in Safe(c) : {l \in done.links : l.id = i} = {l \in base.links : l.id = i}
      OBVIOUS
    <3>. HIDE DEF matched, o, added, manual, owners, Manual
    <3>7. others \in SUBSET all /\ (others \cup added) \in SUBSET all /\ (done.waived \cup matched) \in SUBSET owners
      BY <3>3, <3>5, <3>6
    <3>8. \A i \in Safe(c) : {l \in others : l.id = i} = {l \in done.links : l.id = i}
      BY <3>4
    <3>9. \A i \in Safe(c) : {l \in others \cup added : l.id = i} = {l \in done.links : l.id = i}
      BY <3>4, <3>5
    <3>. HIDE DEF others, all, base
    <3>10. PICK then : then = ApplyOverride(c, done, o)
      OBVIOUS
    <3>11. then \in [links : SUBSET all, waived : SUBSET owners] /\ then.links \in {others, others \cup added}
      BY <3>1, <3>2, <3>6, <3>7, <3>10
    <3>12. \A i \in Safe(c) : {l \in then.links : l.id = i} = {l \in base.links : l.id = i}
      <4>1. CASE then.links = others
        BY <3>6, <3>8, <4>1
      <4>2. CASE then.links = others \cup added
        BY <3>6, <3>9, <4>2
      <4>. QED BY <3>11, <4>1, <4>2
    <3>13. then \in D
      BY <3>11, <3>12
    <3>. QED BY <3>10, <3>13 DEF o
  <2>4. ApplyTraceOverrides(c) \in D
    <3>. HIDE DEF D
    <3>1. PICK start \in D : start = base
      BY <2>2
    <3>. QED BY <1>4, <2>3, <3>1, OverridesKeep
  <2>5. AreLinks(ApplyTraceOverrides(c).links)
    <3>1. ApplyTraceOverrides(c).links \in SUBSET all
      BY <2>4
    <3>. HIDE DEF all
    <3>. QED BY <2>1, <3>1, FS_Subset DEF AreLinks
  <2>6. \A i \in Safe(c) : {l \in ApplyTraceOverrides(c).links : l.id = i} = {l \in base.links : l.id = i}
    BY <2>4
  <2>. HIDE DEF base
  <2>. QED BY <1>2, <2>5, <2>6
<1>. QED BY <1>3, <1>4

(***************************************************************************)
(* What a trace says.                                                      *)
(***************************************************************************)
CountsHold(t) ==
  /\ t.coverage.governed \in Nat /\ t.coverage.linked \in Nat
  /\ IsFiniteSet(t.unlinked) /\ t.unlinked \subseteq Slots
  /\ t.coverage.linked + Cardinality(t.unlinked) = t.coverage.governed
  /\ t.drift = "none" <=> t.unlinked = {}

\* What is governed is waived, linked or listed as unlinked.
LEMMA TracesCount ==
  ASSUME NEW previous, NEW c
  PROVE  CountsHold(Trace(previous, c))
<1>1. PICK result : result = ApplyTraceOverrides(c)
  OBVIOUS
<1>. DEFINE t == Trace(previous, c)
            counted == Counted(c, result)
            linked == {s \in counted : Ids(c)[s] \in LinkedIds(result)}
            unlinked == Unlinked(c, result)
<1>2. /\ t.unlinked = unlinked /\ t.coverage = Coverage(c, result) /\ t.drift = Drift(Coverage(c, result))
      /\ Coverage(c, result) = [governed |-> Cardinality(counted), linked |-> Cardinality(linked)]
  BY <1>1 DEF Trace, Coverage
<1>3. unlinked = counted \ linked /\ linked \in SUBSET counted /\ counted \in SUBSET Slots
  BY DEF Unlinked, Counted, Governables, Present
<1>4. IsFiniteSet(counted)
  BY <1>3, SlotsAreOrdered, FS_Subset
<1>. HIDE DEF counted, linked, unlinked
<1>5. /\ IsFiniteSet(linked) /\ IsFiniteSet(unlinked)
      /\ Cardinality(counted) \in Nat /\ Cardinality(linked) \in Nat /\ Cardinality(unlinked) \in Nat
  BY <1>3, <1>4, FS_Subset, FS_CardinalityType
<1>6. Cardinality(linked) + Cardinality(unlinked) = Cardinality(counted)
  <2>1. counted \cap linked = linked
    BY <1>3
  <2>2. Cardinality(counted \ linked) = Cardinality(counted) - Cardinality(counted \cap linked)
    BY <1>4, FS_Difference
  <2>. QED BY <1>3, <1>5, <2>1, <2>2
<1>7. t.drift = "none" <=> Cardinality(counted) - Cardinality(linked) = 0
  BY <1>2 DEF Drift
<1>8. unlinked = {} <=> Cardinality(unlinked) = 0
  BY <1>5, FS_EmptySet
<1>9. Cardinality(counted) - Cardinality(linked) = 0 <=> Cardinality(unlinked) = 0
  BY <1>5, <1>6
<1>10. t.coverage.governed = Cardinality(counted) /\ t.coverage.linked = Cardinality(linked)
  BY <1>2
<1>. HIDE DEF t
<1>. QED BY <1>2, <1>3, <1>5, <1>6, <1>7, <1>8, <1>9, <1>10 DEF CountsHold, t

\* An inventory that has been read again, in either format.
LEMMA InventoriesAreRead ==
  ASSUME NEW format, NEW inventory, NEW c, inventory = Inventory(c)
  PROVE  /\ Decoded(format, inventory).code = c
         /\ \A s \in Present(c) : Depth(s) <= 1 => Decoded(format, inventory).ids[s] = Ids(c)[s]
         /\ DOMAIN Decoded(format, inventory).ids = Present(c)
<1>1. PICK f : IdsOf(c, Slots, f) /\ Ids(c) = [x \in Present(c) |-> f[x]]
  BY IdsExist
<1>2. inventory.ids = Ids(c) /\ inventory.code = c /\ DOMAIN Ids(c) = Present(c) /\ \A s \in Present(c) : s \in Slots
  BY <1>1 DEF Inventory, Present
<1>3. CASE format = "v1"
  BY <1>2, <1>3 DEF Decoded
<1>4. CASE format # "v1"
  <2>1. Decoded(format, inventory) = [inventory EXCEPT !.ids = [s \in DOMAIN inventory.ids |-> DecodedId(inventory.code, s)]]
    BY <1>4 DEF Decoded
  <2>2. /\ Decoded(format, inventory).code = c
        /\ Decoded(format, inventory).ids = [s \in Present(c) |-> DecodedId(c, s)]
    BY <1>2, <2>1 DEF Inventory
  <2>3. ASSUME NEW s \in Present(c), Depth(s) <= 1
        PROVE  DecodedId(c, s) = f[s]
    <3>1. CASE Within[s] = NoSlot
      BY <1>1, <1>2, <3>1 DEF DecodedId, IdsOf
    <3>2. CASE Within[s] # NoSlot
      <4>1. Within[s] = File
        BY <2>3, <3>2 DEF Depth
      <4>2. File \in Slots /\ Within[File] = NoSlot
        BY SlotsAreOrdered DEF File
      <4>3. f[s] = IdFrom(c, s, f[File]) /\ f[File] = IdFrom(c, File, NoSlot)
        BY <1>1, <1>2, <3>2, <4>1, <4>2 DEF IdsOf
      <4>. QED BY <3>2, <4>1, <4>3 DEF DecodedId
    <3>. QED BY <3>1, <3>2
  <2>. QED BY <1>1, <2>2, <2>3
<1>. QED BY <1>3, <1>4

\* Aliases lead from ids that have gone to ids there are.
LEMMA AliasesLead ==
  ASSUME NEW previous, NEW c,
         previous = NoFile \/ \E format, inventory, d : inventory = Inventory(d) /\ previous = Decoded(format, inventory)
  PROVE  AliasesNameMovedCode(Trace(previous, c))
<1>. DEFINE t == Trace(previous, c)
            current == Inventory(c)
<1>1. t.aliases = Aliases(previous, current) /\ t.previous = previous /\ t.code = c
  BY DEF Trace
<1>2. current.ids = Ids(c) /\ DOMAIN current.ids = Present(c)
  BY DEF Inventory, Ids
<1>. HIDE DEF t, current
<1>3. ASSUME NEW a \in Aliases(previous, current)
      PROVE  /\ a.previous \notin {Ids(c)[s] : s \in Present(c)}
             /\ a.current \in {Ids(c)[s] : s \in Present(c)}
             /\ Depth(a.slot) <= 1 => a.previous = Ids(previous.code)[a.slot]
  <2>1. previous # NoFile /\ \E s \in Gone(previous, current) : a \in Alias(previous, current, s)
    BY <1>3 DEF Aliases
  <2>2. PICK s \in Gone(previous, current) : a \in Alias(previous, current, s)
    BY <2>1
  <2>3. s \in DOMAIN previous.ids /\ \A d \in Present(c) : Ids(c)[d] # previous.ids[s]
    BY <1>2 DEF Gone
  <2>4. PICK d \in Present(c) : a = [slot |-> s, previous |-> previous.ids[s], current |-> Ids(c)[d]]
    <3>. DEFINE sameHash == {d \in DOMAIN current.ids : current.hashes[d] = previous.hashes[s]}
                sameName == {d \in DOMAIN current.ids : /\ Kind[d] = Kind[s] /\ current.names[d] = previous.names[s]
                                                        /\ current.code.path = previous.code.path}
                to == IF sameHash # {} THEN {Max(sameHash)} ELSE IF sameName # {} THEN {Max(sameName)} ELSE {}
    <3>1. Alias(previous, current, s) = {[slot |-> s, previous |-> previous.ids[s], current |-> current.ids[d]] : d \in to}
      BY DEF Alias
    <3>2. sameHash \in SUBSET Present(c) /\ sameName \in SUBSET Present(c)
      BY <1>2
    <3>. HIDE DEF sameHash, sameName
    <3>3. \A T \in SUBSET Present(c) : T # {} => Max(T) \in T
      <4>. SUFFICES ASSUME NEW T \in SUBSET Present(c), T # {} PROVE Max(T) \in T
        OBVIOUS
      <4>1. T \in SUBSET Slots
        BY DEF Present
      <4>2. T \in SUBSET Nat /\ IsFiniteSet(T)
        BY <4>1, SlotsAreOrdered, FS_Subset
      <4>3. \E m \in T : \A n \in T : m >= n
        BY <4>2, LargestExists
      <4>. QED BY <4>3 DEF Max
    <3>4. \A d \in to : d \in Present(c)
      BY <3>2, <3>3
    <3>. HIDE DEF to
    <3>. QED BY <1>2, <2>2, <3>1, <3>4
  <2>5. PICK format, inventory, d0 : inventory = Inventory(d0) /\ previous = Decoded(format, inventory)
    BY <2>1
  <2>6. /\ previous.code = d0 /\ DOMAIN previous.ids = Present(d0)
        /\ \A x \in Present(d0) : Depth(x) <= 1 => previous.ids[x] = Ids(d0)[x]
    BY <2>5, InventoriesAreRead
  <2>7. Depth(s) <= 1 => previous.ids[s] = Ids(previous.code)[s]
    BY <2>3, <2>6
  <2>. QED BY <2>3, <2>4, <2>7
<1>. QED BY <1>1, <1>3 DEF AliasesNameMovedCode, t

\* The annotation of a declaration that is alone in having its id is its only link.
LEMMA AnnotationsLink ==
  ASSUME NEW previous, NEW c, IsCode(c), local \subseteq Specs, overrides \in OverrideFiles
  PROVE  AnnotationsWin(Trace(previous, c))
<1>. DEFINE t == Trace(previous, c)
<1>1. t.links = ApplyTraceOverrides(c).links /\ t.specs = local /\ t.code = c
  BY DEF Trace
<1>. HIDE DEF t
<1>2. ASSUME NEW s \in Governables(c), RefOf(c, s) # NoRef, RefOf(c, s).spec \in local,
             \A d \in Governables(c) : Ids(c)[d] = Ids(c)[s] => d = s,
             \A k \in DOMAIN overrides : overrides[k].name # NameOf(c, s),
             NEW mine, mine = {l \in t.links : l.id = Ids(c)[s]}
      PROVE  /\ {l.spec : l \in mine} = {RefOf(c, s).spec}
             /\ \A l \in mine : l.confidence >= 90 /\ (l.confidence = 100 <=> l.section = RefOf(c, s).section)
  <2>. DEFINE ref == RefOf(c, s)
              known == ref.section = NoRef \/ ref.section \in Anchors[ref.spec]
              link == [id |-> Ids(c)[s], spec |-> ref.spec, section |-> IF known THEN ref.section ELSE NoRef,
                       confidence |-> IF known THEN 100 ELSE 90]
  <2>1. LinksOf(c, s) = {link}
    BY <1>2 DEF LinksOf, Explicit
  <2>2. \A d \in Governables(c) : \A l \in LinksOf(c, d) : l.id = Ids(c)[d]
    BY DEF LinksOf
  <2>3. link.id = Ids(c)[s] /\ link.spec = ref.spec
    OBVIOUS
  <2>4. link.confidence >= 90 /\ (link.confidence = 100 <=> link.section = ref.section)
    <3>1. CASE known
      BY <3>1
    <3>2. CASE ~known
      BY <3>2
    <3>. QED BY <3>1, <3>2
  <2>. HIDE DEF link, known, ref
  <2>5. \A l \in RawLinks(c) : l.id = Ids(c)[s] => l = link
    <3>1. ASSUME NEW l \in RawLinks(c), l.id = Ids(c)[s]
          PROVE  l = link
      <4>1. PICK d \in Governables(c) : l \in LinksOf(c, d)
        BY DEF RawLinks
      <4>2. d = s
        BY <1>2, <2>2, <3>1, <4>1
      <4>. QED BY <2>1, <4>1, <4>2
    <3>. QED BY <3>1
  <2>6. link \in RawLinks(c)
    BY <2>1 DEF RawLinks
  <2>7. {l \in RawLinks(c) : l.id = Ids(c)[s]} = {link}
    BY <2>3, <2>5, <2>6
  <2>8. s \in Present(c)
    BY DEF Governables
  <2>9. Ids(c)[s] \in Safe(c)
    <3>1. \A d \in Present(c) : Ids(c)[d] = Ids(c)[s] => NameOf(c, d) = NameOf(c, s)
      BY <2>8, NamesOfIds
    <3>. QED BY <1>2, <2>8, <3>1 DEF Safe
  <2>10. PICK i, x : i = Ids(c)[s] /\ x = link
    OBVIOUS
  <2>11. {l \in ApplyTraceOverrides(c).links : l.id = i} = {x}
    BY <2>7, <2>9, <2>10, OverridesApply
  <2>12. mine = {link}
    BY <1>1, <1>2, <2>10, <2>11
  <2>. QED BY <2>3, <2>4, <2>12 DEF ref
<1>3. ASSUME NEW s \in Governables(t.code), RefOf(t.code, s) # NoRef, RefOf(t.code, s).spec \in t.specs,
             \A d \in Governables(t.code) : Ids(t.code)[d] = Ids(t.code)[s] => d = s,
             \A k \in DOMAIN overrides : overrides[k].name # NameOf(t.code, s),
             NEW mine, mine = {l \in t.links : l.id = Ids(t.code)[s]}
      PROVE  /\ {l.spec : l \in mine} = {RefOf(t.code, s).spec}
             /\ \A l \in mine : l.confidence >= 90 /\ (l.confidence = 100 <=> l.section = RefOf(t.code, s).section)
  <2>1. /\ s \in Governables(c) /\ RefOf(c, s) # NoRef /\ RefOf(c, s).spec \in local
        /\ \A d \in Governables(c) : Ids(c)[d] = Ids(c)[s] => d = s
        /\ \A k \in DOMAIN overrides : overrides[k].name # NameOf(c, s)
        /\ mine = {l \in t.links : l.id = Ids(c)[s]}
    BY <1>1, <1>3
  <2>2. /\ {l.spec : l \in mine} = {RefOf(c, s).spec}
        /\ \A l \in mine : l.confidence >= 90 /\ (l.confidence = 100 <=> l.section = RefOf(c, s).section)
    BY <1>2, <2>1
  <2>. QED BY <1>1, <2>2
<1>4. AnnotationsWin(t)
  BY <1>3, Zenon DEF AnnotationsWin
<1>. QED BY <1>4 DEF t

(***************************************************************************)
(* What is stored.                                                         *)
(***************************************************************************)

\* A table has every value of a finite set.
LEMMA TablesHold ==
  ASSUME NEW values, IsFiniteSet(values), NEW v \in values
  PROVE  /\ PlaceIn(TableOf(values), v) \in Nat \ {0}
         /\ TableOf(values)[PlaceIn(TableOf(values), v)] = v
<1>1. PICK n : n = Cardinality(values)
  OBVIOUS
<1>2. n \in Nat
  BY <1>1, FS_CardinalityType
<1>3. IsFiniteSet(1..n) /\ Cardinality(1..n) = n
  <2>1. 1 \in Int /\ n \in Int /\ (IF 1 > n THEN 0 ELSE n - 1 + 1) = n
    BY <1>2
  <2>. QED BY <2>1, FS_Interval
<1>4. \E f \in [1..n -> values] : IsInjective(f)
  <2>1. PICK f : f \in Bijection(1..n, values)
    BY <1>1, FS_CardinalityType DEF ExistsBijection
  <2>. QED BY <2>1 DEF Bijection, Injection
<1>5. PICK table : table = TableOf(values)
  OBVIOUS
<1>6. table \in [1..n -> values] /\ IsInjective(table)
  BY <1>1, <1>4, <1>5 DEF TableOf, SetToSeq
<1>7. table \in Surjection(1..n, values)
  <2>1. table \in Injection(1..n, values)
    BY <1>6 DEF Injection
  <2>. QED BY <1>1, <1>3, <2>1, FS_Injection
<1>8. \E k \in DOMAIN table : table[k] = v
  BY <1>6, <1>7 DEF Surjection
<1>9. PlaceIn(table, v) \in 1..n /\ table[PlaceIn(table, v)] = v
  BY <1>6, <1>8 DEF PlaceIn
<1>. QED BY <1>2, <1>5, <1>9

\* Links are read as they were written.
LEMMA LinksAreRead ==
  ASSUME NEW links, AreLinks(links)
  PROVE  DecodedLinks(EncodedLinks(links)) = links
<1>. DEFINE tagged == {l.spec : l \in links}
            sections == {l.section : l \in links} \ {NoRef}
            specTable == TableOf(tagged)
            sectionTable == TableOf(sections)
            Row(l) == <<l.id, PlaceIn(specTable, l.spec), l.confidence,
                        IF l.section = NoRef THEN 0 ELSE PlaceIn(sectionTable, l.section)>>
            Back(r) == [id |-> r[1], spec |-> specTable[r[2]], confidence |-> r[3],
                        section |-> IF r[4] = 0 THEN NoRef ELSE sectionTable[r[4]]]
<1>1. IsFiniteSet(tagged) /\ IsFiniteSet(sections)
  <2>1. IsFiniteSet(links)
    BY DEF AreLinks
  <2>2. IsFiniteSet(tagged)
    <3>. DEFINE f == [l \in links |-> l.spec]
    <3>1. PICK T : T = tagged
      OBVIOUS
    <3>2. T = {f[l] : l \in links}
      BY <3>1
    <3>. HIDE DEF f, tagged
    <3>3. IsFiniteSet(T)
      BY <2>1, <3>2, ImageIsFinite
    <3>. QED BY <3>1, <3>3
  <2>3. IsFiniteSet({l.section : l \in links})
    <3>. DEFINE f == [l \in links |-> l.section]
    <3>1. PICK T : T = {l.section : l \in links}
      OBVIOUS
    <3>2. T = {f[l] : l \in links}
      BY <3>1
    <3>. HIDE DEF f
    <3>3. IsFiniteSet(T)
      BY <2>1, <3>2, ImageIsFinite
    <3>. QED BY <3>1, <3>3
  <2>4. sections \in SUBSET {l.section : l \in links}
    OBVIOUS
  <2>. HIDE DEF sections, tagged
  <2>. QED BY <2>2, <2>3, <2>4, FS_Subset
<1>2. DecodedLinks(EncodedLinks(links)) = {Back(Row(l)) : l \in links}
  BY DEF DecodedLinks, EncodedLinks
<1>3. ASSUME NEW l \in links
      PROVE  Back(Row(l)) = l
  <2>1. l.spec \in tagged /\ (l.section # NoRef => l.section \in sections)
    OBVIOUS
  <2>. HIDE DEF tagged, sections
  <2>2. specTable[PlaceIn(specTable, l.spec)] = l.spec
    BY <1>1, <2>1, TablesHold
  <2>3. l.section # NoRef => PlaceIn(sectionTable, l.section) # 0 /\ sectionTable[PlaceIn(sectionTable, l.section)] = l.section
    BY <1>1, <2>1, TablesHold
  <2>. HIDE DEF specTable, sectionTable
  <2>4. l = [id |-> l.id, spec |-> l.spec, section |-> l.section, confidence |-> l.confidence]
    BY DEF AreLinks, IsLink
  <2>5. Row(l)[1] = l.id /\ Row(l)[2] = PlaceIn(specTable, l.spec) /\ Row(l)[3] = l.confidence
        /\ Row(l)[4] = IF l.section = NoRef THEN 0 ELSE PlaceIn(sectionTable, l.section)
    OBVIOUS
  <2>6. specTable[Row(l)[2]] = l.spec /\ (IF Row(l)[4] = 0 THEN NoRef ELSE sectionTable[Row(l)[4]]) = l.section
    BY <2>2, <2>3, <2>5
  <2>. HIDE DEF Row
  <2>7. Back(Row(l)) = [id |-> l.id, spec |-> l.spec, confidence |-> l.confidence, section |-> l.section]
    BY <2>5, <2>6
  <2>. QED BY <2>4, <2>7
<1>. HIDE DEF Back, Row
<1>. QED BY <1>2, <1>3

(***************************************************************************)
(* The files.                                                              *)
(***************************************************************************)
IsInventory(inventory) == \E c : inventory = Inventory(c)

IsTrace(t) ==
  /\ t = [links |-> t.links, unlinked |-> t.unlinked, waived |-> t.waived, coverage |-> t.coverage, drift |-> t.drift,
          aliases |-> t.aliases, previous |-> t.previous, code |-> t.code, specs |-> t.specs]
  /\ AreLinks(t.links) /\ CountsHold(t) /\ AliasesNameMovedCode(t) /\ AnnotationsWin(t)

AsStored(t, format) == IF format = "v1" THEN t ELSE [t EXCEPT !.links = EncodedLinks(@)]

FilesAreOrdered ==
  /\ commands \in Nat
  /\ \A a \in Artifacts : disk[a].at \in 0..commands
  /\ disk["sqlite"].at <= disk["trace"].at /\ disk["trace"].at <= disk["map"].at

CodeMapGoesOn ==
  /\ command.step \in {"idle", "map", "trace", "sqlite"}
  /\ command.step # "idle" =>
       /\ command = [step |-> command.step, format |-> command.format, inventory |-> command.inventory, trace |-> command.trace]
       /\ commands > 0 /\ IsInventory(command.inventory) /\ IsTrace(command.trace)
  /\ command.step \in {"trace", "sqlite"} => disk["map"].at = commands
  /\ command.step = "sqlite" => disk["trace"].at = commands

FilesAreStored ==
  /\ disk = [a \in Artifacts |-> disk[a]]
  /\ disk["map"] # NoFile => IsInventory(disk["map"].inventory)
  /\ disk["trace"] # NoFile =>
       \E t : IsTrace(t) /\ disk["trace"] = [format |-> disk["trace"].format, at |-> disk["trace"].at,
                                             trace |-> AsStored(t, disk["trace"].format)]

TraceInv ==
  /\ IsCode(code) /\ local \subseteq Specs /\ overrides \in OverrideFiles
  /\ code = [path |-> code.path, decls |-> [s \in Slots |-> code.decls[s]]]
  /\ FilesAreOrdered /\ CodeMapGoesOn /\ FilesAreStored

\* Starting a code map makes a trace that is one.
LEMMA TraceIsTrace ==
  ASSUME TraceInv, NEW previous,
         previous = NoFile \/ \E format, inventory, d : inventory = Inventory(d) /\ previous = Decoded(format, inventory)
  PROVE  IsTrace(Trace(previous, code))
<1>1. IsCode(code) /\ local \subseteq Specs /\ overrides \in OverrideFiles
  BY DEF TraceInv
<1>2. PICK c : c = code
  OBVIOUS
<1>3. PICK t : t = Trace(previous, c)
  OBVIOUS
<1>4. AliasesNameMovedCode(t)
  BY <1>3, AliasesLead
<1>5. AnnotationsWin(t)
  BY <1>1, <1>2, <1>3, AnnotationsLink
<1>6. CountsHold(t)
  BY <1>3, TracesCount
<1>7. AreLinks(ApplyTraceOverrides(c).links)
  BY <1>1, <1>2, OverridesApply
<1>8. t = [links |-> t.links, unlinked |-> t.unlinked, waived |-> t.waived, coverage |-> t.coverage, drift |-> t.drift,
           aliases |-> t.aliases, previous |-> t.previous, code |-> t.code, specs |-> t.specs]
      /\ t.links = ApplyTraceOverrides(c).links
  BY <1>3 DEF Trace
<1>9. IsTrace(t)
  BY <1>4, <1>5, <1>6, <1>7, <1>8 DEF IsTrace
<1>. QED BY <1>2, <1>3, <1>9

\* A trace that is not about the files is the same one later.
LEMMA TracesStay ==
  ASSUME UNCHANGED overrides, NEW t, IsTrace(t)
  PROVE  IsTrace(t)'
<1>1. AnnotationsWin(t)'
  BY DEF IsTrace, AnnotationsWin, RefOf, NameOf
<1>2. AliasesNameMovedCode(t)' /\ AreLinks(t.links)' /\ CountsHold(t)'
  BY DEF IsTrace, AliasesNameMovedCode, AreLinks, IsLink, CountsHold
<1>. QED BY <1>1, <1>2 DEF IsTrace

LEMMA InitTraceInv == ASSUME TraceInit PROVE TraceInv
<1>1. Paths # {} /\ Names # {}
  BY TraceAssumption
<1>2. (CHOOSE p \in Paths : TRUE) \in Paths /\ (CHOOSE n \in Names : TRUE) \in Names
  BY <1>1
<1>3. /\ code.path \in Paths /\ \A s \in Slots : s # File => code.decls[s].name \in Names
      /\ code = [path |-> code.path, decls |-> [s \in Slots |-> code.decls[s]]]
  BY <1>2 DEF TraceInit
<1>4. /\ local \subseteq Specs /\ overrides \in OverrideFiles /\ commands = 0 /\ command = Idle
      /\ disk = [a \in Artifacts |-> NoFile]
  BY DEF TraceInit
<1>5. command.step = "idle"
  BY <1>4 DEF Idle
<1>6. \A a \in Artifacts : disk[a] = NoFile /\ disk[a].at = 0
  BY <1>4 DEF NoFile
<1>7. "map" \in Artifacts /\ "trace" \in Artifacts /\ "sqlite" \in Artifacts
  BY DEF Artifacts
<1>8. FilesAreOrdered
  BY <1>4, <1>6, <1>7 DEF FilesAreOrdered
<1>9. CodeMapGoesOn
  BY <1>5 DEF CodeMapGoesOn
<1>10. FilesAreStored
  BY <1>4, <1>6, <1>7 DEF FilesAreStored
<1>. QED BY <1>3, <1>4, <1>8, <1>9, <1>10 DEF TraceInv, IsCode

\* While the files and the command stay as they are, so does what they say.
LEMMA FilesStay ==
  ASSUME TraceInv, UNCHANGED <<overrides, disk>>
  PROVE  FilesAreStored'
<1>1. \A t : IsTrace(t) => IsTrace(t)'
  BY TracesStay
<1>2. disk["map"] # NoFile => IsInventory(disk["map"].inventory)'
  BY DEF TraceInv, FilesAreStored, IsInventory
<1>. QED BY <1>1, <1>2 DEF TraceInv, FilesAreStored

LEMMA EditsKeep ==
  ASSUME TraceInv, UNCHANGED <<overrides, disk, command, commands>>,
         IsCode(code)', code' = [path |-> code'.path, decls |-> [s \in Slots |-> code'.decls[s]]], local' \subseteq Specs
  PROVE  TraceInv'
<1>1. FilesAreStored'
  BY FilesStay
<1>2. FilesAreOrdered'
  BY DEF TraceInv, FilesAreOrdered
<1>3. CodeMapGoesOn'
  <2>1. \A t : IsTrace(t) => IsTrace(t)'
    BY TracesStay
  <2>2. IsTrace(command.trace) => IsTrace(command.trace)'
    <3>1. PICK t : t = command.trace
      OBVIOUS
    <3>2. IsTrace(t)' => IsTrace(command.trace)'
      BY <3>1 DEF IsTrace, AreLinks, IsLink, CountsHold, AliasesNameMovedCode, AnnotationsWin
    <3>. QED BY <2>1, <3>1, <3>2
  <2>. QED BY <2>2 DEF TraceInv, CodeMapGoesOn, IsInventory
<1>. QED BY <1>1, <1>2, <1>3 DEF TraceInv

LEMMA StartKeepsTraces ==
  ASSUME TraceInv, NEW force, NEW format, StartCodeMap(force, format)
  PROVE  TraceInv'
<1>1. command = Idle /\ command.step = "idle" /\ commands' = commands + 1 /\ UNCHANGED <<code, local, overrides, disk, edits>>
  BY DEF StartCodeMap, Idle
<1>2. FilesAreStored'
  BY <1>1, FilesStay
<1>3. FilesAreOrdered' /\ commands' > 0
  <2>1. commands \in Nat /\ \A a \in Artifacts : disk[a].at \in 0..commands
    BY DEF TraceInv, FilesAreOrdered
  <2>2. \A a \in Artifacts : disk[a].at \in 0..(commands + 1)
    BY <2>1
  <2>3. commands + 1 \in Nat /\ commands + 1 > 0
    BY <2>1
  <2>. QED BY <1>1, <2>2, <2>3 DEF TraceInv, FilesAreOrdered
<1>4. CASE ~force /\ (disk["map"] # NoFile \/ disk["trace"] # NoFile)
  <2>1. command' = command
    BY <1>4 DEF StartCodeMap
  <2>2. CodeMapGoesOn'
    BY <1>1, <2>1 DEF CodeMapGoesOn
  <2>. QED BY <1>1, <1>2, <1>3, <2>2 DEF TraceInv, IsCode
<1>5. CASE ~(~force /\ (disk["map"] # NoFile \/ disk["trace"] # NoFile))
  <2>. DEFINE previous == IF disk["map"] = NoFile THEN NoFile ELSE Decoded(disk["map"].format, disk["map"].inventory)
  <2>1. command' = [step |-> "map", format |-> format, inventory |-> Inventory(code), trace |-> Trace(previous, code)]
    BY <1>5 DEF StartCodeMap
  <2>2. PICK p : p = previous
    OBVIOUS
  <2>3. p = NoFile \/ \E f, inventory, d : inventory = Inventory(d) /\ p = Decoded(f, inventory)
    BY <2>2 DEF TraceInv, FilesAreStored, IsInventory
  <2>4. PICK t : t = Trace(p, code)
    OBVIOUS
  <2>5. IsTrace(t)
    BY <2>3, <2>4, TraceIsTrace
  <2>. HIDE DEF previous
  <2>6. IsTrace(t)'
    BY <1>1, <2>5, TracesStay
  <2>7. PICK i : i = Inventory(code)
    OBVIOUS
  <2>8. command' = [step |-> "map", format |-> format, inventory |-> i, trace |-> t]
    BY <2>1, <2>2, <2>4, <2>7
  <2>9. IsInventory(i)'
    BY <2>7 DEF IsInventory
  <2>10. CodeMapGoesOn'
    <3>1. command'.inventory = i /\ command'.trace = t /\ command'.format = format /\ command'.step = "map"
      BY <2>8
    <3>2. IsTrace(command.trace)'
      BY <2>6, <3>1
    <3>3. IsInventory(command.inventory)'
      BY <2>9, <3>1
    <3>. QED BY <1>3, <2>8, <3>1, <3>2, <3>3 DEF CodeMapGoesOn
  <2>. QED BY <1>1, <1>2, <1>3, <2>10 DEF TraceInv, IsCode
<1>. QED BY <1>4, <1>5

\* What a write leaves of the files and the command.
LEMMA WritesKeepTraces ==
  ASSUME TraceInv, WriteMap \/ WriteTrace \/ WriteSqlite
  PROVE  TraceInv'
<1>0. /\ commands \in Nat /\ UNCHANGED <<code, local, overrides, edits, commands>>
      /\ disk = [a \in Artifacts |-> disk[a]] /\ Artifacts = {"map", "trace", "sqlite"}
      /\ \A a \in Artifacts : disk[a].at \in 0..commands /\ disk[a].at <= commands
  BY DEF TraceInv, FilesAreOrdered, FilesAreStored, WriteMap, WriteTrace, WriteSqlite, Writing, Artifacts
<1>1. /\ command.step # "idle"
      /\ command = [step |-> command.step, format |-> command.format, inventory |-> command.inventory, trace |-> command.trace]
      /\ commands > 0 /\ IsInventory(command.inventory) /\ IsTrace(command.trace)
  BY DEF TraceInv, CodeMapGoesOn, WriteMap, WriteTrace, WriteSqlite, Writing
<1>2. /\ disk["map"] # NoFile => IsInventory(disk["map"].inventory)
      /\ disk["trace"] # NoFile =>
           \E t : IsTrace(t) /\ disk["trace"] = [format |-> disk["trace"].format, at |-> disk["trace"].at,
                                                 trace |-> AsStored(t, disk["trace"].format)]
      /\ disk["sqlite"].at <= disk["trace"].at /\ disk["trace"].at <= disk["map"].at
  BY DEF TraceInv, FilesAreOrdered, FilesAreStored
<1>3. PICK t, i, format : t = command.trace /\ i = command.inventory /\ format = command.format
  OBVIOUS
<1>4. IsTrace(t)' /\ IsInventory(i)' /\ \A u : IsTrace(u) => IsTrace(u)'
  BY <1>0, <1>1, <1>3, TracesStay DEF IsInventory
<1>5. ASSUME NEW step \in {"trace", "sqlite"}, command' = [command EXCEPT !.step = step],
             disk'["map"].at = commands, step = "sqlite" => disk'["trace"].at = commands
      PROVE  CodeMapGoesOn'
  <2>1. command' = [step |-> step, format |-> format, inventory |-> i, trace |-> t]
    BY <1>1, <1>3, <1>5
  <2>2. command'.step = step /\ command'.format = format /\ command'.inventory = i /\ command'.trace = t
    BY <2>1
  <2>3. IsTrace(command.trace)' /\ IsInventory(command.inventory)'
    BY <1>4, <2>2
  <2>. QED BY <1>0, <1>1, <1>5, <2>1, <2>2, <2>3 DEF CodeMapGoesOn
<1>6. CASE WriteMap
  <2>. DEFINE file == [format |-> command.format, inventory |-> command.inventory, at |-> commands]
  <2>1. disk' = [disk EXCEPT !["map"] = file] /\ command' = [command EXCEPT !.step = "trace"]
    BY <1>6 DEF WriteMap, Writing
  <2>2. disk'["map"] = file /\ disk'["trace"] = disk["trace"] /\ disk'["sqlite"] = disk["sqlite"]
        /\ disk' = [a \in Artifacts |-> disk'[a]]
    BY <1>0, <2>1
  <2>3. file.at = commands /\ file.inventory = i
    BY <1>3
  <2>. HIDE DEF file
  <2>4. FilesAreOrdered'
    BY <1>0, <1>2, <2>2, <2>3 DEF FilesAreOrdered
  <2>5. CodeMapGoesOn'
    BY <1>5, <2>1, <2>2, <2>3
  <2>6. FilesAreStored'
    <3>1. disk'["map"].inventory = i
      BY <2>2, <2>3
    <3>2. IsInventory(disk["map"].inventory)'
      BY <1>4, <3>1
    <3>. QED BY <1>2, <1>4, <2>2, <3>2 DEF FilesAreStored
  <2>. QED BY <1>0, <2>4, <2>5, <2>6 DEF TraceInv, IsCode
<1>7. CASE WriteTrace
  <2>. DEFINE file == [format |-> command.format, at |-> commands,
                       trace |-> IF command.format = "v1" THEN command.trace ELSE [command.trace EXCEPT !.links = EncodedLinks(@)]]
  <2>1. disk' = [disk EXCEPT !["trace"] = file] /\ command' = [command EXCEPT !.step = "sqlite"] /\ command.step = "trace"
    BY <1>7 DEF WriteTrace, Writing
  <2>2. disk'["trace"] = file /\ disk'["map"] = disk["map"] /\ disk'["sqlite"] = disk["sqlite"]
        /\ disk' = [a \in Artifacts |-> disk'[a]]
    BY <1>0, <2>1
  <2>3. file.at = commands /\ file.format = format /\ file = [format |-> format, at |-> commands, trace |-> AsStored(t, format)]
    BY <1>3 DEF AsStored
  <2>. HIDE DEF file
  <2>4. disk["map"].at = commands
    BY <2>1 DEF TraceInv, CodeMapGoesOn
  <2>5. FilesAreOrdered'
    BY <1>0, <1>2, <2>2, <2>3, <2>4 DEF FilesAreOrdered
  <2>6. CodeMapGoesOn'
    BY <1>5, <2>1, <2>2, <2>3, <2>4
  <2>7. FilesAreStored'
    <3>1. IsInventory(disk["map"].inventory)' <=> IsInventory(disk["map"].inventory)
      BY <2>2 DEF IsInventory
    <3>2. disk'["trace"] = [format |-> disk'["trace"].format, at |-> disk'["trace"].at, trace |-> AsStored(t, disk'["trace"].format)]
      BY <2>2, <2>3
    <3>. QED BY <1>2, <1>4, <2>2, <3>1, <3>2 DEF FilesAreStored
  <2>. QED BY <1>0, <2>5, <2>6, <2>7 DEF TraceInv, IsCode
<1>8. CASE WriteSqlite
  <2>. DEFINE file == [links |-> LastLinks(command.trace.links), at |-> commands]
  <2>1. disk' = [disk EXCEPT !["sqlite"] = file] /\ command' = Idle /\ command.step = "sqlite"
    BY <1>8 DEF WriteSqlite, Writing
  <2>2. disk'["sqlite"] = file /\ disk'["map"] = disk["map"] /\ disk'["trace"] = disk["trace"]
        /\ disk' = [a \in Artifacts |-> disk'[a]]
    BY <1>0, <2>1
  <2>3. file.at = commands
    OBVIOUS
  <2>. HIDE DEF file
  <2>4. disk["map"].at = commands /\ disk["trace"].at = commands
    BY <2>1 DEF TraceInv, CodeMapGoesOn
  <2>5. FilesAreOrdered'
    BY <1>0, <1>2, <2>2, <2>3, <2>4 DEF FilesAreOrdered
  <2>6. command'.step = "idle"
    BY <2>1 DEF Idle
  <2>7. CodeMapGoesOn'
    BY <2>6 DEF CodeMapGoesOn
  <2>8. FilesAreStored'
    <3>1. IsInventory(disk["map"].inventory)' <=> IsInventory(disk["map"].inventory)
      BY <2>2 DEF IsInventory
    <3>. QED BY <1>2, <1>4, <2>2, <3>1 DEF FilesAreStored
  <2>. QED BY <1>0, <2>5, <2>7, <2>8 DEF TraceInv, IsCode
<1>. QED BY <1>6, <1>7, <1>8

LEMMA TraceStep ==
  ASSUME TraceInv, [TraceNext]_traceVars
  PROVE  TraceInv'
<1>0. /\ IsCode(code) /\ local \subseteq Specs /\ code = [path |-> code.path, decls |-> [s \in Slots |-> code.decls[s]]]
  BY DEF TraceInv
<1>1. ASSUME NEW s \in Slots \ {File}, NEW decl, decl.name \in Names \/ decl = Absent,
             code' = [code EXCEPT !.decls[s] = decl], UNCHANGED <<local, overrides, disk, command, commands>>
      PROVE  TraceInv'
  <2>1. code'.path = code.path /\ code'.decls = [code.decls EXCEPT ![s] = decl]
        /\ code' = [path |-> code'.path, decls |-> code'.decls]
    BY <1>0, <1>1
  <2>2. DOMAIN code.decls = Slots
    BY <1>0
  <2>3. code'.decls = [x \in Slots |-> code'.decls[x]] /\ \A x \in Slots : code'.decls[x] = IF x = s THEN decl ELSE code.decls[x]
    BY <2>1, <2>2
  <2>4. IsCode(code)'
    BY <1>0, <1>1, <2>1, <2>3 DEF IsCode
  <2>. QED BY <1>0, <1>1, <2>1, <2>3, <2>4, EditsKeep
<1>2. ASSUME NEW s \in Slots \ {File}, NEW name \in Names, NEW signature, NEW body, NEW ref,
             Declare(s, [name |-> name, signature |-> signature, body |-> body, ref |-> ref])
      PROVE  TraceInv'
  BY <1>1, <1>2 DEF Declare, Editing
<1>3. ASSUME NEW s \in Slots \ {File}, RemoveDeclaration(s)
      PROVE  TraceInv'
  BY <1>1, <1>3 DEF RemoveDeclaration, Editing
<1>4. ASSUME NEW path \in Paths, MoveFile(path)
      PROVE  TraceInv'
  <2>1. code' = [code EXCEPT !.path = path] /\ UNCHANGED <<local, overrides, disk, command, commands>>
    BY <1>4 DEF MoveFile, Editing
  <2>2. code'.path = path /\ code'.decls = code.decls /\ code' = [path |-> code'.path, decls |-> code'.decls]
    BY <1>0, <2>1
  <2>3. IsCode(code)'
    BY <1>0, <2>2 DEF IsCode
  <2>4. code'.decls = [x \in Slots |-> code'.decls[x]]
    BY <1>0, <2>2
  <2>. QED BY <1>0, <2>1, <2>2, <2>3, <2>4, EditsKeep
<1>5. ASSUME NEW some \in SUBSET Specs, SetSpecs(some)
      PROVE  TraceInv'
  <2>1. local' = some /\ UNCHANGED <<code, overrides, disk, command, commands>>
    BY <1>5 DEF SetSpecs, Editing
  <2>2. IsCode(code)'
    BY <1>0, <2>1 DEF IsCode
  <2>3. code' = [path |-> code'.path, decls |-> [s \in Slots |-> code'.decls[s]]]
    BY <1>0, <2>1
  <2>. QED BY <2>1, <2>2, <2>3, EditsKeep
<1>6. CASE Stop
  <2>1. command' = Idle /\ UNCHANGED <<code, local, overrides, disk, commands>>
    BY <1>6 DEF Stop, TraceInv
  <2>2. FilesAreStored'
    BY <2>1, FilesStay
  <2>3. FilesAreOrdered' /\ IsCode(code)'
    BY <2>1 DEF TraceInv, FilesAreOrdered, IsCode
  <2>4. CodeMapGoesOn'
    <3>1. command'.step = "idle"
      BY <2>1 DEF Idle
    <3>. QED BY <3>1 DEF CodeMapGoesOn
  <2>. QED BY <2>1, <2>2, <2>3, <2>4 DEF TraceInv
<1>7. CASE UNCHANGED traceVars
  <2>1. UNCHANGED <<code, local, overrides, disk, command, commands>>
    BY <1>7 DEF traceVars
  <2>2. IsCode(code)' /\ code' = [path |-> code'.path, decls |-> [s \in Slots |-> code'.decls[s]]]
    BY <1>0, <2>1 DEF IsCode
  <2>. QED BY <1>0, <2>1, <2>2, EditsKeep
<1>8. ASSUME NEW force, NEW format, StartCodeMap(force, format)
      PROVE  TraceInv'
  BY <1>8, StartKeepsTraces
<1>. QED BY <1>2, <1>3, <1>4, <1>5, <1>6, <1>7, <1>8, WritesKeepTraces DEF TraceNext

LEMMA TraceInvIsSound == ASSUME TraceInv PROVE TracesAreSound
<1>1. disk["sqlite"].at <= disk["trace"].at /\ disk["trace"].at <= disk["map"].at
  BY DEF TraceInv, FilesAreOrdered
<1>2. ASSUME disk["trace"] # NoFile
      PROVE  CountsAreListed(ReadTrace) /\ AliasesNameMovedCode(ReadTrace) /\ AnnotationsWin(ReadTrace)
  <2>1. PICK t : IsTrace(t) /\ disk["trace"] = [format |-> disk["trace"].format, at |-> disk["trace"].at,
                                               trace |-> AsStored(t, disk["trace"].format)]
    BY <1>2 DEF TraceInv, FilesAreStored
  <2>2. PICK format : format = disk["trace"].format
    OBVIOUS
  <2>3. disk["trace"].trace = AsStored(t, format)
    BY <2>1, <2>2
  <2>4. ReadTrace = t
    <3>1. CASE format = "v1"
      BY <2>2, <2>3, <3>1 DEF ReadTrace, AsStored
    <3>2. CASE format # "v1"
      <4>. DEFINE stored == [t EXCEPT !.links = EncodedLinks(@)]
      <4>1. disk["trace"].trace = stored
        BY <2>3, <3>2 DEF AsStored
      <4>2. ReadTrace = [stored EXCEPT !.links = DecodedLinks(@)]
        BY <2>2, <3>2, <4>1 DEF ReadTrace
      <4>3. DecodedLinks(EncodedLinks(t.links)) = t.links
        BY <2>1, LinksAreRead DEF IsTrace
      <4>4. t = [links |-> t.links, unlinked |-> t.unlinked, waived |-> t.waived, coverage |-> t.coverage, drift |-> t.drift,
                 aliases |-> t.aliases, previous |-> t.previous, code |-> t.code, specs |-> t.specs]
        BY <2>1 DEF IsTrace
      <4>5. stored = [t EXCEPT !.links = EncodedLinks(t.links)]
        BY <4>4
      <4>6. stored.links = EncodedLinks(t.links)
        BY <4>4, <4>5
      <4>7. [stored EXCEPT !.links = DecodedLinks(@)] = [t EXCEPT !.links = DecodedLinks(EncodedLinks(t.links))]
        BY <4>4, <4>5, <4>6
      <4>. QED BY <4>2, <4>3, <4>4, <4>7
    <3>. QED BY <3>1, <3>2
  <2>5. CountsAreListed(t)
    <3>1. /\ t.coverage.governed \in Nat /\ t.coverage.linked \in Nat
          /\ IsFiniteSet(t.unlinked) /\ t.unlinked \subseteq Slots
          /\ t.coverage.linked + Cardinality(t.unlinked) = t.coverage.governed
          /\ t.drift = "none" <=> t.unlinked = {}
      BY <2>1 DEF IsTrace, CountsHold
    <3>2. (\A s \in t.unlinked : Kind[s] \notin {Kind[x] : x \in Slots}) <=> t.unlinked = {}
      BY <3>1
    <3>3. t.unlinked = {} => t.coverage.governed - t.coverage.linked = 0
      BY <3>1, FS_EmptySet
    <3>4. t.coverage.governed - t.coverage.linked = 0 =>
            /\ 100 * t.coverage.linked >= 100 * t.coverage.governed
            /\ 100 * (t.coverage.governed - t.coverage.linked) <= 0 * t.coverage.governed
      BY <3>1
    <3>5. Passes(t, 100, 0, {Kind[s] : s \in Slots}) <=> t.unlinked = {}
      BY <3>2, <3>3, <3>4 DEF Passes
    <3>6. RunTraceCheck(100, 0, {Kind[s] : s \in Slots}) <=> t.unlinked = {}
      BY <1>2, <2>4, <3>5 DEF RunTraceCheck
    <3>. QED BY <3>1, <3>6 DEF CountsAreListed
  <2>. QED BY <2>1, <2>4, <2>5 DEF IsTrace
<1>. QED BY <1>1, <1>2 DEF TracesAreSound

\* The code map reads every file right, whatever its lines, and what traces say of the code,
\* and of what developers annotated and overrode, is so whenever the command was killed.
THEOREM CodeStaysTraced == ExtractSpec /\ TraceSpec => []CodeIsTraced
<1>1. ExtractInit => ExtractInv
  BY InitExtractInv
<1>2. ExtractInv /\ [ExtractNext]_extractVars => ExtractInv'
  BY ExtractAssumption, ExtractStep
<1>3. ExtractInv => FilesAreRead
  BY ExtractAssumption, ExtractInvIsRead
<1>4. TraceInit => TraceInv
  BY InitTraceInv
<1>5. TraceInv /\ [TraceNext]_traceVars => TraceInv'
  BY TraceStep
<1>6. TraceInv => TracesAreSound
  BY TraceInvIsSound
<1>7. FilesAreRead /\ TracesAreSound => CodeIsTraced
  BY DEF CodeIsTraced
<1>. QED BY <1>1, <1>2, <1>3, <1>4, <1>5, <1>6, <1>7, PTL DEF ExtractSpec, TraceSpec
=============================================================================
