-------------------------------- MODULE Tasks --------------------------------
(***************************************************************************)
(* specreg task: tasks are GitHub issues; while GitHub cannot be reached,  *)
(* a provisional file in .tasks/ stands for one (cli/src/task.ts).         *)
(*                                                                         *)
(* Two people run the command in one working copy.  Files of a directory   *)
(* are named by a number and a slug, of which a reference may give the     *)
(* number, the number and the first words, or all.  Titles are cut to      *)
(* slugs, of which several titles may have one.                            *)
(***************************************************************************)
EXTENDS Integers, Sequences, FiniteSets, FiniteSetsExt

CONSTANTS
  Users,         \* people, each with a command at most
  Titles,        \* titles that are opened
  Slugs,         \* slugs, numbered in their order
  SlugOf,        \* of each title its slug: its first 40 letters
  FirstWords,    \* beginnings of slugs
  StartsOf,      \* of each slug the beginnings it has
  Statuses,      \* statuses people give a task, which the command does not check
  SpecRefs,      \* specs tasks are opened with
  PageSize,      \* issues of one answer: 100
  MaxTasks, MaxOutages  \* bounds

CONSTANTS NoCommand, NoTask, NoStatus

ASSUME TasksAssumption ==
  /\ IsFiniteSet(Users) /\ Slugs \subseteq Nat /\ SlugOf \in [Titles -> Slugs]
  /\ PageSize \in Nat /\ NoStatus \notin {"done", "abandoned"}

VARIABLES
  hosted, token, \* the repository is on GitHub; a token is configured
  issues,        \* issues of GitHub with the label: [title, open]
  files,         \* .tasks/: of each filename [title, status, refs, fallback]
  run,           \* the command of each user
  told,          \* history: what open said it opened: [title, name, by]
  outages        \* calls of GitHub that failed

taskVars == <<hosted, token, issues, files, run, told, outages>>

\* Means of tasks: an issue's number, or a file's number and slug.
Issue(n) == [kind |-> "number", number |-> n]
FileName(n, slug) == [kind |-> "file", number |-> n, slug |-> slug]
Partly(n, words) == [kind |-> "partly", number |-> n, words |-> words]

\* open prints #N and .tasks/<file>, which name a task only without these marks.
Printed(ref) == [kind |-> "printed", of |-> ref]
Bare(name) == name.of
-----------------------------------------------------------------------------
\* Finding tasks.

\* listTaskFiles sorts by name.
Earlier(f, g) == f.number < g.number \/ (f.number = g.number /\ f.slug < g.slug)

Digits(ref) == ref.kind = "number"

SameNumber(f, ref) == f.number = ref.number  \* mutant of Means

\* The id is the number, whatever kind of reference gives it in full.
Means(f, ref) ==
  \/ Digits(ref) /\ f.number = ref.number
  \/ ref = f
  \/ ref.kind = "partly" /\ f.number = ref.number /\ ref.words \in StartsOf[f.slug]

\* tasks.find: the first that is meant.
Find(ref) ==
  LET meant == {f \in DOMAIN files : Means(f, ref)}
  IN IF meant = {} THEN NoTask ELSE CHOOSE f \in meant : \A g \in meant : f = g \/ Earlier(f, g)

\* Numbers are issues wherever GitHub can be asked.
OnGitHub(ref) == Digits(ref) /\ hosted /\ token

NextTaskId == Max({0} \cup {f.number : f \in DOMAIN files}) + 1

\* GitHub answers with one page, of the newest issues.
InState(open) == {n \in DOMAIN issues : issues[n].open = open}
Newer(n) == {m \in InState(issues[n].open) : m > n}
ListGitHubIssues(open) == {n \in InState(open) : Cardinality(Newer(n)) < PageSize}

\* task list: GitHub knows open and closed only.
RunTaskList(status) ==
  IF hosted /\ token
  THEN {Issue(n) : n \in ListGitHubIssues(status \notin {"done", "abandoned"})}
  ELSE {f \in DOMAIN files : status = NoStatus \/ files[f].status = status}

\* task status
RunTaskStatus(ref) ==
  IF OnGitHub(ref) THEN IF ref.number \in DOMAIN issues THEN ref ELSE NoTask ELSE Find(ref)
-----------------------------------------------------------------------------
TasksInit ==
  /\ hosted \in BOOLEAN /\ token \in BOOLEAN
  /\ issues = <<>>
  /\ files = [f \in {} |-> NoTask]
  /\ run = [u \in Users |-> NoCommand]
  /\ told = {}
  /\ outages = 0

\* task open is refused without a GitHub repository or a token.
OpenTask(u, title, refs, fallback) ==
  /\ run[u] = NoCommand
  /\ Len(issues) + Cardinality(DOMAIN files) + Cardinality({v \in Users : run[v] # NoCommand}) < MaxTasks
  /\ hosted /\ token
  /\ run' = [run EXCEPT ![u] = [step |-> "create", title |-> title, refs |-> refs, fallback |-> fallback]]
  /\ UNCHANGED <<hosted, token, issues, files, told, outages>>

Filed(title) == Append(issues, [title |-> title, open |-> TRUE])

IssueCreated(u) ==
  /\ run[u] # NoCommand /\ run[u].step = "create"
  /\ issues' = Filed(run[u].title)
  /\ told' = told \cup {[title |-> run[u].title, name |-> Printed(Issue(Len(issues) + 1)), by |-> u]}
  /\ run' = [run EXCEPT ![u] = NoCommand]
  /\ UNCHANGED <<hosted, token, files, outages>>

\* The call fails, before or after GitHub made the issue.
CreationFails(u, made) ==
  /\ run[u] # NoCommand /\ run[u].step = "create" /\ outages < MaxOutages
  /\ outages' = outages + 1
  /\ issues' = IF made THEN Filed(run[u].title) ELSE issues
  /\ run' = [run EXCEPT ![u] = IF run[u].fallback THEN [@ EXCEPT !.step = "number"] ELSE NoCommand]
  /\ UNCHANGED <<hosted, token, files, told>>

\* The fallback reads the directory for the next number and writes its file.
TakeNumber(u) ==
  /\ run[u] # NoCommand /\ run[u].step = "number"
  /\ run' = [run EXCEPT ![u] = [step |-> "write", name |-> FileName(NextTaskId, SlugOf[run[u].title]),
                                title |-> run[u].title, status |-> "open", refs |-> run[u].refs, opens |-> TRUE]]
  /\ UNCHANGED <<hosted, token, issues, files, told, outages>>

\* It is written over a file of the same name.
WriteTask(u) ==
  /\ run[u] # NoCommand /\ run[u].step = "write"
  /\ files' = [f \in DOMAIN files \cup {run[u].name} |->
                IF f = run[u].name
                THEN [title |-> run[u].title, status |-> run[u].status, refs |-> run[u].refs, fallback |-> TRUE]
                ELSE files[f]]
  /\ told' = IF run[u].opens
             THEN told \cup {[title |-> run[u].title, name |-> Printed(run[u].name), by |-> u]} ELSE told
  /\ run' = [run EXCEPT ![u] = NoCommand]
  /\ UNCHANGED <<hosted, token, issues, outages>>

\* task update and task close of a file read it, lose the specs it names, and write it.
Rewrite(u, ref, status) ==
  /\ run[u] = NoCommand /\ Find(ref) # NoTask
  /\ run' = [run EXCEPT ![u] = [step |-> "write", name |-> Find(ref), title |-> files[Find(ref)].title,
                                status |-> status, refs |-> {}, opens |-> FALSE]]
  /\ UNCHANGED <<hosted, token, issues, files, told, outages>>

UpdateTask(u, ref, status) == Rewrite(u, ref, status)

CloseIssue(u, ref) ==
  /\ run[u] = NoCommand /\ OnGitHub(ref) /\ ref.number \in DOMAIN issues
  /\ issues' = [issues EXCEPT ![ref.number].open = FALSE]
  /\ UNCHANGED <<hosted, token, files, run, told, outages>>
CloseTask(u, ref) == CloseIssue(u, ref) \/ (~OnGitHub(ref) /\ Rewrite(u, ref, "done"))

\* The command is killed.
KillTask(u) == run[u] # NoCommand /\ run' = [run EXCEPT ![u] = NoCommand] /\ UNCHANGED <<hosted, token, issues, files, told, outages>>

References ==
  {Issue(n) : n \in 1..MaxTasks} \cup {FileName(n, g) : n \in 1..MaxTasks, g \in Slugs}
    \cup {Partly(n, w) : n \in 1..MaxTasks, w \in FirstWords}

TasksNext ==
  \E u \in Users :
    \/ \E title \in Titles, fallback \in BOOLEAN : OpenTask(u, title, SpecRefs, fallback)
    \/ IssueCreated(u) \/ TakeNumber(u) \/ WriteTask(u) \/ KillTask(u)
    \/ \E made \in BOOLEAN : CreationFails(u, made)
    \/ \E ref \in References : CloseTask(u, ref) \/ \E status \in Statuses : UpdateTask(u, ref, status)

TasksSpec == TasksInit /\ [][TasksNext]_taskVars
-----------------------------------------------------------------------------
\* A file shows a task its user was told of, unless another user was told the same name,
\* for a title of the same slug, and wrote over it.
Shows(t) ==
  LET shown == files[Bare(t.name)].title
  IN shown = t.title \/ \E other \in told : other.name = t.name /\ other.by # t.by /\ other.title = shown

\* Whoever was told of a task can ask for it by what he was told, without the marks it is printed
\* with, and is shown that task, although two files may have one number, a number may be
\* an issue's too, and files are rewritten by other commands meanwhile; only a task whose file
\* another user's open wrote over, both having drawn one number for one slug, is lost, and then to that
\* user's task.  An issue is in the list of open or of done tasks, where a file is not while GitHub
\* is asked, unless a page of newer issues hides it.  A file exists only where GitHub failed.
TasksAreFound ==
  /\ \A t \in told :
       LET ref == Bare(t.name)
       IN  /\ RunTaskStatus(ref) = ref
           /\ IF Digits(ref) THEN issues[ref.number].title = t.title ELSE Shows(t)
           /\ Digits(ref) /\ Cardinality(Newer(ref.number)) < PageSize
                => ref \in RunTaskList(NoStatus) \cup RunTaskList("done")
  /\ Cardinality(DOMAIN files) <= outages
  /\ \A f \in DOMAIN files : files[f].fallback

\* Unchecked, as they fail: a task is found by the name open prints, by which no command finds it;
\* no task is lost; and every issue is listed.
PrintedNamesAreFound == \A t \in told : RunTaskStatus(t.name) # NoTask
NoTaskIsLost == \A t \in told : Digits(Bare(t.name)) \/ files[Bare(t.name)].title = t.title
EveryIssueIsListed ==
  \A t \in told : Digits(Bare(t.name)) => Bare(t.name) \in RunTaskList(NoStatus) \cup RunTaskList("done")
=============================================================================
