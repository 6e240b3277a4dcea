---------------------------- MODULE AgentSkills ----------------------------
(***************************************************************************)
(* The catalog of agent skills: direct edits, skill reviews and harness    *)
(* proposals change a skill and record its text as a version; assignments  *)
(* distribute it; `specreg skills sync` installs it in a workspace         *)
(* (routes/skills.ts, lib/skills.ts, the harness routes of                 *)
(* routes/admin.ts, the seeding in db.ts, cli/src/skills.ts).              *)
(*                                                                         *)
(* Every route runs without an await, so it is one action; the sync of the *)
(* CLI is two requests.  A body has what a skill is (name, description and *)
(* risk level) and what it instructs: a text with the harness additions    *)
(* appended to it.                                                         *)
(* Settings may change at any time and are read with any value.            *)
(***************************************************************************)
EXTENDS Integers, FiniteSets, SequencesExt

CONSTANTS
  Skills, BuiltIn,    \* ids of skills, and the seeded ones among them
  Slugs, SeedSlug,    \* slugs, and those of the seeded skills
  Abouts, SeedAbout,  \* names, descriptions and risk levels, and the seeded ones
  Restricted,         \* those of them of restricted risk
  Texts, SeedText,    \* instructions without additions, and the seeded ones
  Terms,              \* texts with the control terms that validation asks for
  Patterns, Target,   \* harness patterns and the slug each one's template names
  Reviews, Proposals, \* rows of skill_change_requests and harness_proposals
  People, Admins,     \* users, and those of role admin
  Specs,              \* specs that skills may be linked to
  Scopes, Here,       \* assignment scopes, and those that hold for the workspace
  Candidates, None    \* marketplace candidates; none of them

ASSUME AgentSkillsAssumption ==
  /\ BuiltIn \subseteq Skills /\ SeedSlug \in [BuiltIn -> Slugs] /\ IsInjective(SeedSlug)
  /\ SeedAbout \in Abouts \ Restricted /\ SeedText \in Texts /\ Terms \subseteq Texts
  /\ Target \in [Patterns -> Slugs] /\ Admins \subseteq People
  /\ "global" \in Here /\ Here \subseteq Scopes /\ None \notin Candidates

VARIABLES
  skills,      \* table agent_skills
  versions,    \* table agent_skill_versions: the bodies of each skill, oldest first
  reviews,     \* table skill_change_requests
  proposals,   \* table harness_proposals
  assignments, \* table skill_assignments
  links,       \* table skill_spec_links
  local        \* the workspace: skills manifest, SKILL.md files, catalog being installed

skillVars == <<skills, versions, reviews, proposals, assignments, links, local>>

Instructions == [text : Texts, added : SUBSET Patterns]
Bodies == [about : Abouts, says : Instructions]
Seed == [about |-> SeedAbout, says |-> [text |-> SeedText, added |-> {}]]

NoSkill == [state |-> "none"]
Deleted == [state |-> "deleted"]
SkillRow == [state : {"active", "disabled"}, slug : Slugs, body : Bodies, from : Candidates \cup {None}]
NoReview == [state |-> "none"]
ReviewRow == [state : {"pending", "approved", "rejected"}, skill : Skills,
              action : {"update", "enable", "disable", "delete"}, body : Bodies,
              status : {"active", "disabled"}, by : People]
NoProposal == [state |-> "none"]
ProposalRow == [state : {"pending", "approved", "rejected"}, skill : Skills,
                current : Instructions, proposed : Instructions, by : People]

\* A SKILL.md is known by the hash of its rendering, which contains the skill's id.
Hashes == Skills \X Bodies
Edited == <<"edited">>

Live(id) == skills[id].state \in {"active", "disabled"}
Active(id) == skills[id].state = "active"
SlugFree(slug) == \A id \in Skills : Live(id) => skills[id].slug # slug

\* skillSelectWithVersion: the newest version.
Current(id) == Last(versions[id])
Entry(id) == [id |-> id, slug |-> skills[id].slug, version |-> Len(versions[id]),
              hash |-> <<id, Current(id)>>, rendered |-> <<id, skills[id].body>>]
Catalog == {Entry(id) : id \in {i \in Skills : Active(i)}}

TypeOK ==
  /\ skills \in [Skills -> SkillRow \cup {NoSkill, Deleted}]
  /\ versions \in [Skills -> Seq(Bodies)]
  /\ reviews \in [Reviews -> ReviewRow \cup {NoReview}]
  /\ proposals \in [Proposals -> ProposalRow \cup {NoProposal}]
  /\ assignments \in SUBSET (Skills \X Scopes)
  /\ links \in SUBSET (Skills \X Specs)
  /\ DOMAIN local.manifest \subseteq Slugs /\ DOMAIN local.files \subseteq Slugs
  /\ \A s \in DOMAIN local.manifest : local.manifest[s].hash \in Hashes
  /\ \A s \in DOMAIN local.files : local.files[s] \in Hashes \cup {Edited}

\* createDb on an empty database, and a workspace without skills.
Init ==
  /\ skills = [id \in Skills |->
       IF id \in BuiltIn
       THEN [state |-> "active", slug |-> SeedSlug[id], body |-> Seed, from |-> None]
       ELSE NoSkill]
  /\ versions = [id \in Skills |-> IF id \in BuiltIn THEN <<Seed>> ELSE <<>>]
  /\ reviews = [r \in Reviews |-> NoReview]
  /\ proposals = [p \in Proposals |-> NoProposal]
  /\ assignments = BuiltIn \X {"global"}
  /\ links = {}
  /\ local = [manifest |-> <<>>, files |-> <<>>, fetching |-> FALSE, catalog |-> {}]

-----------------------------------------------------------------------------
(* Skills and their versions.                                              *)

\* Mutant of Recorded: a body that comes back moves to the end of the history.
RecordedAnew(history, body) == Append(SelectSeq(history, LAMBDA b : b # body), body)

\* createSkillVersion: a body that was recorded before is not recorded again.
Recorded(history, body) ==
  IF \E i \in DOMAIN history : history[i] = body THEN history ELSE Append(history, body)

\* Every route that writes a skill records the result.
Write(id, state, body) ==
  /\ skills' = [skills EXCEPT ![id].state = state, ![id].body = body]
  /\ versions' = [versions EXCEPT ![id] = Recorded(@, body)]

Insert(id, slug, state, body, from) ==
  /\ skills[id] = NoSkill
  /\ SlugFree(slug)
  /\ skills' = [skills EXCEPT ![id] = [state |-> state, slug |-> slug, body |-> body, from |-> from]]
  /\ versions' = [versions EXCEPT ![id] = Recorded(@, body)]

Create(id, slug, state, body) ==
  /\ Insert(id, slug, state, body, None)
  /\ UNCHANGED <<reviews, proposals, assignments, links, local>>

Update(id, state, body) ==
  /\ Live(id)
  /\ Write(id, state, body)
  /\ UNCHANGED <<reviews, proposals, assignments, links, local>>

\* ON DELETE CASCADE takes versions, reviews, assignments and links along; a
\* harness proposal, whose reference has no such clause, refuses the deletion.
Delete(id) ==
  /\ Live(id) /\ id \notin BuiltIn
  /\ \A p \in Proposals : proposals[p] # NoProposal => proposals[p].skill # id
  /\ skills' = [skills EXCEPT ![id] = Deleted]
  /\ versions' = [versions EXCEPT ![id] = <<>>]
  /\ reviews' = [r \in Reviews |->
       IF reviews[r] # NoReview /\ reviews[r].skill = id THEN NoReview ELSE reviews[r]]
  /\ assignments' = {a \in assignments : a[1] # id}
  /\ links' = {l \in links : l[1] # id}
  /\ UNCHANGED <<proposals, local>>

-----------------------------------------------------------------------------
(* Reviews: the proposal is written out whatever the skill became since.   *)

ProposedStatus(action, status) ==
  CASE action = "enable" -> "active"
    [] action \in {"disable", "delete"} -> "disabled"
    [] OTHER -> status

HasPendingReview(id) ==
  \E r \in Reviews : reviews[r].state = "pending" /\ reviews[r].skill = id

SubmitReview(r, id, action, status, body, by) ==
  /\ reviews[r] = NoReview
  /\ Live(id) /\ ~HasPendingReview(id)
  /\ reviews' = [reviews EXCEPT ![r] =
       [state |-> "pending", skill |-> id, action |-> action, body |-> body,
        status |-> ProposedStatus(action, status), by |-> by]]
  /\ UNCHANGED <<skills, versions, proposals, assignments, links, local>>

ApproveReview(r, by) ==
  /\ reviews[r].state = "pending"
  /\ reviews[r].by # by
  /\ LET id == reviews[r].skill IN
       IF reviews[r].action = "delete"
       THEN Write(id, "disabled", skills[id].body)
       ELSE Write(id, reviews[r].status, reviews[r].body)
  /\ reviews' = [reviews EXCEPT ![r].state = "approved"]
  /\ UNCHANGED <<proposals, assignments, links, local>>

RejectReview(r) ==
  /\ reviews[r].state = "pending"
  /\ reviews' = [reviews EXCEPT ![r].state = "rejected"]
  /\ UNCHANGED <<skills, versions, proposals, assignments, links, local>>

-----------------------------------------------------------------------------
(* Harness proposals append one sentence to the skill a template names.    *)

WithAddition(says, pattern) == [says EXCEPT !.added = @ \cup {pattern}]

Propose(p, pattern, by) ==
  /\ proposals[p] = NoProposal
  /\ \E id \in Skills :
       /\ Live(id) /\ skills[id].slug = Target[pattern]
       /\ proposals' = [proposals EXCEPT ![p] =
            [state |-> "pending", skill |-> id, current |-> skills[id].body.says,
             proposed |-> WithAddition(skills[id].body.says, pattern), by |-> by]]
  /\ UNCHANGED <<skills, versions, reviews, assignments, links, local>>

\* validateHarnessProposal: every check but the control terms holds of a text
\* that Propose wrote.
Validated(proposal) == proposal.proposed.text \in Terms

\* The instructions are compared and replaced; name, description and risk level may
\* have changed since, and stay.
ApproveProposal(p, by, selfApprove, validation) ==
  /\ proposals[p].state = "pending"
  /\ by \in Admins
  /\ proposals[p].by # by \/ selfApprove
  /\ LET id == proposals[p].skill IN
       /\ skills[id].body.says = proposals[p].current
       /\ validation => Validated(proposals[p])
       /\ Write(id, skills[id].state, [skills[id].body EXCEPT !.says = proposals[p].proposed])
  /\ proposals' = [proposals EXCEPT ![p].state = "approved"]
  /\ UNCHANGED <<reviews, assignments, links, local>>

RejectProposal(p) ==
  /\ proposals[p].state = "pending"
  /\ proposals' = [proposals EXCEPT ![p].state = "rejected"]
  /\ UNCHANGED <<skills, versions, reviews, assignments, links, local>>

-----------------------------------------------------------------------------
(* Assignments, links and the seeding of every start.                      *)

Assign(id, scope) ==
  /\ Live(id) /\ <<id, scope>> \notin assignments
  /\ assignments' = assignments \cup {<<id, scope>>}
  /\ UNCHANGED <<skills, versions, reviews, proposals, links, local>>

Unassign(a) ==
  /\ a \in assignments
  /\ assignments' = assignments \ {a}
  /\ UNCHANGED <<skills, versions, reviews, proposals, links, local>>

LinkSpec(id, f) ==
  /\ Live(id) /\ <<id, f>> \notin links
  /\ links' = links \cup {<<id, f>>}
  /\ UNCHANGED <<skills, versions, reviews, proposals, assignments, local>>

UnlinkSpec(l) ==
  /\ l \in links
  /\ links' = links \ {l}
  /\ UNCHANGED <<skills, versions, reviews, proposals, assignments, local>>

\* A restart: built-in skills cannot be missing and have versions, but their
\* global assignments come back while they are of safe risk.
Seeded == {id \in BuiltIn : skills[id].body.about \notin Restricted} \X {"global"}
Restart ==
  /\ assignments' = assignments \cup Seeded
  /\ UNCHANGED <<skills, versions, reviews, proposals, links, local>>

-----------------------------------------------------------------------------
(* specreg skills sync, and what specreg skills check says.                *)

Assigned == {skills[a[1]].slug : a \in {b \in assignments : b[2] \in Here /\ Active(b[1])}}

BaseSlugs(catalog) ==
  {e.slug : e \in {x \in catalog : x.id \in BuiltIn /\ x.rendered[2].about \notin Restricted}}

Desired(catalog, answered) ==
  IF answered /\ Assigned # {} THEN Assigned
  ELSE IF DOMAIN local.manifest # {} THEN DOMAIN local.manifest
  ELSE BaseSlugs(catalog)

SyncFetch ==
  /\ ~local.fetching
  /\ local' = [local EXCEPT !.fetching = TRUE, !.catalog = Catalog]
  /\ UNCHANGED <<skills, versions, reviews, proposals, assignments, links>>

\* Mutant of SyncInstall: a SKILL.md that exists is kept by every sync.
InstallGently(answered, force) ==
  /\ local.fetching
  /\ LET new == {e \in local.catalog : e.slug \in Desired(local.catalog, answered)}
         slugs == {e.slug : e \in new}
         of(s) == CHOOSE e \in new : e.slug = s
     IN local' = [manifest |-> [s \in slugs |-> [version |-> of(s).version, hash |-> of(s).hash]],
                  files |-> local.files @@ [s \in slugs |-> of(s).rendered],
                  fetching |-> FALSE, catalog |-> {}]
  /\ UNCHANGED <<skills, versions, reviews, proposals, assignments, links>>

\* The rendering of what was fetched becomes SKILL.md, in place of one that exists only
\* under --force; the manifest gets the number and hash that the registry named anyway.
SyncInstall(answered, force) ==
  /\ local.fetching
  /\ LET new == {e \in local.catalog : e.slug \in Desired(local.catalog, answered)}
         slugs == {e.slug : e \in new}
         of(s) == CHOOSE e \in new : e.slug = s
         written == IF force THEN slugs ELSE slugs \ DOMAIN local.files
     IN local' = [manifest |-> [s \in slugs |-> [version |-> of(s).version, hash |-> of(s).hash]],
                  files |-> [s \in slugs \cup DOMAIN local.files |->
                              IF s \in written THEN of(s).rendered ELSE local.files[s]],
                  fetching |-> FALSE, catalog |-> {}]
  /\ UNCHANGED <<skills, versions, reviews, proposals, assignments, links>>

EditFile(s) ==
  /\ s \in DOMAIN local.files
  /\ local' = [local EXCEPT !.files[s] = Edited]
  /\ UNCHANGED <<skills, versions, reviews, proposals, assignments, links>>

\* checkSkillCurrency.
Outdated(s, remote) ==
  \/ local.manifest[s] # [version |-> remote.version, hash |-> remote.hash]
  \/ s \in DOMAIN local.files /\ local.files[s] # local.manifest[s].hash
Drift ==
  \/ \E s \in DOMAIN local.manifest :
       \A remote \in Catalog : remote.slug = s => Outdated(s, remote)
  \/ \E s \in Assigned : s \notin DOMAIN local.manifest

-----------------------------------------------------------------------------
SkillNext ==
  \/ \E id \in Skills, state \in {"active", "disabled"}, body \in Bodies :
       \/ \E slug \in Slugs : Create(id, slug, state, body)
       \/ Update(id, state, body)
  \/ \E id \in Skills : Delete(id)
  \/ \E r \in Reviews :
       \/ \E id \in Skills, action \in {"update", "enable", "disable", "delete"},
             status \in {"active", "disabled"}, body \in Bodies, by \in Admins :
            SubmitReview(r, id, action, status, body, by)
       \/ \E by \in People : ApproveReview(r, by)
       \/ RejectReview(r)
  \/ \E p \in Proposals :
       \/ \E pattern \in Patterns, by \in People : Propose(p, pattern, by)
       \/ \E by \in Admins, selfApprove, validation \in BOOLEAN :
            ApproveProposal(p, by, selfApprove, validation)
       \/ RejectProposal(p)
  \/ \E id \in Skills : \/ \E scope \in Scopes : Assign(id, scope)
                          \/ \E f \in Specs : LinkSpec(id, f)
  \/ \E a \in assignments : Unassign(a)
  \/ \E l \in links : UnlinkSpec(l)
  \/ Restart
  \/ SyncFetch
  \/ \E answered, force \in BOOLEAN : SyncInstall(answered, force)
  \/ \E s \in DOMAIN local.files : EditFile(s)

-----------------------------------------------------------------------------
(* Properties.                                                             *)

\* Whatever path changed a skill, the body it has, every body that a review approved for
\* it and all instructions that a harness proposal brought it are among its recorded
\* versions, once: what agents were given can always be told from agent_skill_versions.
TextsAreRecorded ==
  /\ \A id \in Skills : Live(id) => \E i \in DOMAIN versions[id] : versions[id][i] = skills[id].body
  /\ \A id \in Skills : IsInjective(versions[id])
  /\ \A r \in Reviews : reviews[r].state = "approved" /\ reviews[r].action # "delete" =>
       \E i \in DOMAIN versions[reviews[r].skill] : versions[reviews[r].skill][i] = reviews[r].body
  /\ \A p \in Proposals : proposals[p].state = "approved" =>
       \E i \in DOMAIN versions[proposals[p].skill] :
         versions[proposals[p].skill][i].says = proposals[p].proposed

\* The versions of a skill are immutable: rows are only added at the end, until the
\* deletion of the skill takes them all.
VersionsAreImmutable ==
  [][\A id \in Skills : Live(id)' => IsPrefix(versions[id], versions'[id])]_skillVars

\* The history of a skill is complete and never rewritten.
HistoryIsKept == []TextsAreRecorded /\ VersionsAreImmutable

\* The skills of the catalog that the workspace has installed.
Installed == {e \in Catalog : e.slug \in DOMAIN local.manifest}

\* A sync that installs the registry's present catalog, whatever the workspace held
\* before: all assigned skills are installed, a forced one leaves the registry's text in
\* every SKILL.md and another one loses no SKILL.md that was there, and the check that
\* closes the command reports drift exactly when some SKILL.md is not the newest version.
SyncEndsDrift ==
  [][\A force \in BOOLEAN : SyncInstall(TRUE, force) /\ local.catalog = Catalog =>
       /\ Assigned' \subseteq DOMAIN local'.manifest
       /\ Drift' <=> \E e \in Installed' : local'.files[e.slug] # e.hash
       /\ force => \A e \in Installed' : local'.files[e.slug] = e.rendered
       /\ ~force => \A s \in DOMAIN local.files : local'.files[s] = local.files[s]]_skillVars

\* What the name promises: after a sync under --force nothing drifts.  The code breaks it:
\* a skill that returns to a text it had before keeps the newer version's number and hash.
SyncAlwaysEndsDrift ==
  [][SyncInstall(TRUE, TRUE) /\ local.catalog = Catalog => ~Drift']_skillVars
=============================================================================
