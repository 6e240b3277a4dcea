-------------------------- MODULE MCChangeSources --------------------------
(***************************************************************************)
(* An instance of ChangeSources for TLC.  People submit requests and the   *)
(* engine releases on the stable channel under one policy.  At most one of *)
(* the three kinds of task is used, which share nothing but the specs.     *)
(***************************************************************************)
EXTENDS ChangeSources, TLC

CONSTANTS guide, machine, bob

OneFilename == [s \in SpecIds |-> guide]
PolicyOne == {[min_approvals |-> 1, required_reviewers |-> {}]}

Kinds == {k \in {"fix", "push", "efficacy"} :
            \/ k = "fix" /\ \E f \in Feedbacks : feedback[f] # NoFeedback
            \/ k = "push" /\ (pushes # {} \/ \E t \in Tasks : tasks[t].kind = "push")
            \/ k = "efficacy" /\ (efficacy # {} \/ \E t \in Tasks : tasks[t].kind = "efficacy")}

Small ==
  /\ Cardinality(Kinds) <= 1 /\ Cardinality(pushes) <= 2
  /\ served = {}

MCSpec == SourcesInit /\ [][SourcesNext /\ Small']_allVars

Interchangeable == Permutations(CRs) \cup Permutations(Contents)
                     \cup Permutations(Feedbacks) \cup Permutations(Tasks)
=============================================================================
