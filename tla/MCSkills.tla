------------------------------ MODULE MCSkills ------------------------------
(***************************************************************************)
(* An instance of the skill catalog and its marketplace for TLC.  Reviews  *)
(* and harness proposals, the workspace and the marketplace each share     *)
(* only the skills with the rest, so that one of the three is in use at a  *)
(* time (Focus).                                                           *)
(***************************************************************************)
EXTENDS SkillMarketplace

CONSTANTS seeded, custom, second, sBase, sOther, sThird, a1, a2, t1, t2, hub, file, workflow, mixed, tool

SeedSlugs == [id \in BuiltIn |-> sBase]
TargetBase == [p \in Patterns |-> sBase]

MatchedWords == [c \in Contents |->
  CASE c = workflow -> {"agent_skill", "reference_only"}
    [] c = mixed -> {"spec_seed", "agent_skill"}
    [] OTHER -> {"unsafe"}]
RaisedGates == [c \in Contents |-> IF c = tool THEN {"command_intent"} ELSE {}]

Row(status, trust, licensed) ==
  [status |-> status, trust |-> trust, github |-> TRUE, licensed |-> licensed]
HubRows == {Row("active", "unreviewed", FALSE), Row("paused", "blocked", TRUE)}
Forms == {[licensed |-> TRUE, type |-> "agent_skill", state |-> "candidate"],
          [licensed |-> FALSE, type |-> "agent_skill", state |-> "archived"]}

ReviewsUsed ==
  \/ \E r \in Reviews : reviews[r] # NoReview
  \/ \E p \in Proposals : proposals[p] # NoProposal
WorkspaceUsed == local.fetching \/ DOMAIN local.files # {}
MarketUsed == \E c \in Candidates : candidates[c] # NoCandidate

OnlySkills(ids) == \A id \in Skills \ ids : skills[id] = NoSkill
AtMost(n, id) == Len(versions[id]) <= n
Unedited(id) == Live(id) => skills[id].body = Seed
Plainly == assignments = BuiltIn \X {"global"} /\ links = {}
NoSources == \A s \in Sources : sources[s] = NoSource

\* One thing differs from the seed, besides the additions.
Varied(body) == body.about = SeedAbout \/ body.says.text = SeedText
VariedOnly ==
  /\ \A id \in Skills : \A i \in DOMAIN versions[id] : Varied(versions[id][i])
  /\ \A r \in Reviews : reviews[r] # NoReview => Varied(reviews[r].body) /\ reviews[r].body.says.added = {}

Editing == OnlySkills({seeded, custom}) /\ AtMost(2, seeded) /\ AtMost(1, custom)
Reviewing ==
  /\ Plainly /\ VariedOnly
  /\ \/ /\ OnlySkills({seeded})
        /\ \/ AtMost(2, seeded)
           \/ AtMost(3, seeded) /\ \E p \in Proposals : proposals[p].state = "approved"
     \/ /\ OnlySkills({seeded, custom}) /\ AtMost(1, seeded) /\ Active(seeded) /\ AtMost(2, custom)
        /\ \A p \in Proposals : proposals[p] = NoProposal
Installing ==
  /\ OnlySkills({seeded}) /\ links = {}
  /\ \A i \in DOMAIN versions[seeded] : versions[seeded][i].says = Seed.says
Importing ==
  /\ Plainly /\ AtMost(1, seeded) /\ Active(seeded)
  /\ \A id \in Skills \ BuiltIn :
       Unedited(id) /\ (Live(id) => ~Active(id) /\ skills[id].from # None)

Focus ==
  \/ ~ReviewsUsed /\ ~WorkspaceUsed /\ ~MarketUsed /\ NoSources /\ Editing
  \/ ~WorkspaceUsed /\ ~MarketUsed /\ NoSources /\ Reviewing
  \/ ~ReviewsUsed /\ ~MarketUsed /\ NoSources /\ Installing
  \/ ~ReviewsUsed /\ ~WorkspaceUsed /\ Importing

MCSpec == MarketInit /\ [][Next /\ Focus']_vars
=============================================================================
